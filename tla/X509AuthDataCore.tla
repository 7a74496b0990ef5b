--------------------------- MODULE X509AuthDataCore ---------------------------
(***************************************************************************)
(* X509AuthenticationData, the version of                                  *)
(* src/core/src/main/javascript/entityauth/X509AuthenticationData.js:     *)
(* entity authentication by an X.509 certificate, or by a certificate      *)
(* chain together with an identity.                                        *)
(*                                                                         *)
(* The objects are immutable, so what can go wrong lies between them: a    *)
(* round trip through getAuthData() and parse(), and equals() on objects   *)
(* built in different ways.  The model keeps a heap of the X509           *)
(* certificate objects and of the X509AuthenticationData objects (a        *)
(* reference is an index), and the history of getAuthData() and parse()   *)
(* calls.  A certificate's bytes are a model value; base64 encoding is a   *)
(* tagged value that decoding inverts.                                     *)
(***************************************************************************)
EXTENDS Naturals, Sequences

CONSTANTS
    Certs,        \* certificate contents (DER bytes)
    Subject,      \* Subject[c]: the subject string of certificate c
    Identities,   \* identity strings
    Chains,       \* certificate chain objects (compared by reference)
    InitX509,     \* the X509 objects the callers hold, by content
    Garbage,      \* a string that is not base64 of a certificate
    NotString,    \* a truthy JSON value that is not a string
    Absent,       \* undefined / null
    MaxOps        \* bound on the number of calls

ASSUME X509CoreAssumption ==
    /\ Subject \in [Certs -> Identities]
    /\ InitX509 \in Seq(Certs)
    /\ MaxOps \in Nat

VARIABLES
    x509,         \* the X509 objects: x509[r] is the content of object r
    auth,         \* the X509AuthenticationData objects
    issued,       \* <<r, w>>: getAuthData() on object r returned w
    parsed,       \* parse(wire) returned object obj (0 if none) or threw err
    ops           \* number of calls so far

vars == <<x509, auth, issued, parsed, ops>>

-----------------------------------------------------------------------------
\* Base64 of a certificate's DER bytes, and X509.readCertPEM's decoding.
Encoded == {<<"base64", c>> : c \in Certs}
Base64(c) == <<"base64", c>>
Decode(s) == s[2]

CertValues == Encoded \cup {Garbage, NotString, Absent}

\* A JSON authentication-data object: an absent key has the value Absent.
Wire == [cert : CertValues, chain : Chains \cup {Absent},
         identity : Identities \cup {Absent}]

\* The garbage string, a non-string and undefined are not base64 of a
\* certificate; undefined is neither an object reference nor a chain.
ASSUME SentinelAssumption ==
    /\ {Garbage, NotString, Absent} \cap Encoded = {}
    /\ Absent \notin Nat \cup Chains

CanCall == ops < MaxOps

Init ==
    /\ x509 = InitX509
    /\ auth = <<>>
    /\ issued = {}
    /\ parsed = {}
    /\ ops = 0

\* init(identity, x509cert, x509chain): a certificate overrides the identity.
\* heap holds the X509 objects.
New(heap, identity, cert, chain) ==
    [identity |-> IF cert # Absent THEN Subject[heap[cert]] ELSE identity,
     cert |-> cert, chain |-> chain]

\* Mutant: the chain is written even when a certificate is (no else).
AuthDataCertAndChain(a) ==
    [cert |-> IF a.cert # Absent THEN Base64(x509[a.cert]) ELSE Absent,
     chain |-> a.chain, identity |-> a.identity]

\* getAuthData(): the certificate in base64, else the chain; and the identity.
AuthData(a) ==
    [cert |-> IF a.cert # Absent THEN Base64(x509[a.cert]) ELSE Absent,
     chain |-> IF a.cert = Absent THEN a.chain ELSE Absent,
     identity |-> a.identity]

\* equals(): the same object, or the same scheme (all are X509), the same
\* identity and the same certificate and chain objects (===).
Equals(r, s) ==
    \/ r = s
    \/ /\ auth[r].identity = auth[s].identity
       /\ auth[r].cert = auth[s].cert
       /\ auth[r].chain = auth[s].chain

-----------------------------------------------------------------------------
\* A caller constructs an object from a certificate it holds and/or a
\* chain; the wire format needs one of them (spec section 4.2).
Construct(identity, cert, chain) ==
    /\ CanCall
    /\ cert # Absent \/ chain # Absent
    /\ auth' = Append(auth, New(x509, identity, cert, chain))
    /\ ops' = ops + 1
    /\ UNCHANGED <<x509, issued, parsed>>

GetAuthData(r) ==
    /\ CanCall
    /\ issued' = issued \cup {<<r, AuthData(auth[r])>>}
    /\ ops' = ops + 1
    /\ UNCHANGED <<x509, auth, parsed>>

Returned(w, r) == [wire |-> w, obj |-> r, err |-> "none"]
Threw(w, e) == [wire |-> w, obj |-> 0, err |-> e]

\* X509AuthenticationData$parse: a (truthy) certificate is read into a new
\* X509 object; else a chain is taken with whatever identity came with it;
\* else JSON_PARSE_ERROR.
Parse(w) ==
    /\ CanCall
    /\ ops' = ops + 1
    /\ IF w.cert # Absent
          THEN IF w.cert \in Encoded
                  THEN /\ x509' = Append(x509, Decode(w.cert))
                       /\ auth' = Append(auth, New(x509', Absent, Len(x509'), Absent))
                       /\ parsed' = parsed \cup {Returned(w, Len(auth'))}
                  ELSE /\ parsed' = parsed \cup {Threw(w, "X509CERT_PARSE_ERROR")}
                       /\ UNCHANGED <<x509, auth>>
       ELSE IF w.chain # Absent
          THEN /\ auth' = Append(auth, New(x509, w.identity, Absent, w.chain))
               /\ parsed' = parsed \cup {Returned(w, Len(auth'))}
               /\ UNCHANGED x509
          ELSE /\ parsed' = parsed \cup {Threw(w, "JSON_PARSE_ERROR")}
               /\ UNCHANGED <<x509, auth>>
    /\ UNCHANGED issued

Next ==
    \/ \E id \in Identities, c \in (1..Len(x509)) \cup {Absent},
          ch \in Chains \cup {Absent} : Construct(id, c, ch)
    \/ \E r \in 1..Len(auth) : GetAuthData(r)
    \/ \E w \in Wire \cup {p[2] : p \in issued} : Parse(w)

Spec == Init /\ [][Next]_vars

-----------------------------------------------------------------------------
\* Spec section 8, round trip: parse(getAuthData()) of an object yields an
\* object equals() to it.
RoundTripEqual ==
    \A i \in issued, p \in parsed :
        (p.wire = i[2] /\ p.obj # 0) => Equals(i[1], p.obj)

\* Spec sections 4.2 and 8, idempotence: the object parse(getAuthData())
\* returns serializes to the same wire object as the original.
RoundTripStable ==
    \A i \in issued, p \in parsed :
        (p.wire = i[2] /\ p.obj # 0) => AuthData(auth[p.obj]) = i[2]

\* Spec sections 4.2 and 6: parse() returns an object exactly for a wire
\* object with a base64 certificate, or with a chain and an identity; a
\* certificate string that does not decode is X509CERT_PARSE_ERROR; every
\* other absent or malformed field is an encoding error.
ParseOutcome ==
    \A p \in parsed :
        LET w == p.wire IN
        CASE w.cert \in Encoded -> p.obj # 0
          [] w.cert = Garbage -> p.err = "X509CERT_PARSE_ERROR"
          [] w.cert = Absent /\ w.chain # Absent /\ w.identity # Absent ->
                p.obj # 0
          [] OTHER -> p.err = "JSON_PARSE_ERROR"

=============================================================================
