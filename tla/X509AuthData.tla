---------------------------- MODULE X509AuthData ----------------------------
(***************************************************************************)
(* X509AuthenticationData, the version of                                  *)
(* src/src/main/javascript/entityauth/X509AuthenticationData.js (lines     *)
(* 36-119): entity authentication by one X.509 certificate, whose subject  *)
(* is the identity.                                                         *)
(*                                                                         *)
(* As in X509AuthDataCore, the model keeps a heap of X509 certificate      *)
(* objects and of X509AuthenticationData objects, and the history of the   *)
(* getAuthData() and parse() calls.  Several certificates may share a      *)
(* subject, so objects with different bytes and one identity exist.        *)
(***************************************************************************)
EXTENDS Naturals, Sequences

CONSTANTS
    Certs,        \* certificate contents (DER bytes)
    Subject,      \* Subject[c]: the subject string of certificate c
    Identities,   \* identity strings
    InitX509,     \* the X509 objects the callers hold, by content
    Garbage,      \* a string that is not base64 of a certificate
    NotString,    \* a JSON value that is not a string
    Absent,       \* the key is missing (undefined)
    MaxOps        \* bound on the number of calls

ASSUME X509Assumption ==
    /\ Subject \in [Certs -> Identities]
    /\ InitX509 \in Seq(Certs)
    /\ MaxOps \in Nat

VARIABLES
    x509,         \* the X509 objects: x509[r] is the content of object r
    auth,         \* the X509AuthenticationData objects
    issued,       \* <<r, w>>: getAuthData() on object r returned w
    parsed,       \* parse(wire) returned object obj (0 if none) or threw err
    ops           \* number of calls so far

vars == <<x509, auth, issued, parsed, ops>>

-----------------------------------------------------------------------------
\* Base64 of a certificate's DER bytes, and X509.readCertPEM's decoding.
Encoded == {<<"base64", c>> : c \in Certs}
Base64(c) == <<"base64", c>>
Decode(s) == s[2]

\* The value of the x509certificate key of a JSON object.
Wire == [cert : Encoded \cup {Garbage, NotString, Absent}]

\* The garbage string, a non-string and a missing key are not base64 of a
\* certificate, and are different values.
ASSUME SentinelAssumption ==
    /\ {Garbage, NotString, Absent} \cap Encoded = {}
    /\ Garbage \notin {NotString, Absent}

CanCall == ops < MaxOps

Init ==
    /\ x509 = InitX509
    /\ auth = <<>>
    /\ issued = {}
    /\ parsed = {}
    /\ ops = 0

\* init(x509cert): the identity is the certificate's subject string.
New(heap, cert) == [identity |-> Subject[heap[cert]], cert |-> cert]

\* getAuthData(): the certificate's bytes in base64.
AuthData(a) == [cert |-> Base64(x509[a.cert])]

\* Mutant: equals() also compares the certificate objects (===).
EqualsComparesCertObject(r, s) ==
    \/ r = s
    \/ auth[r].identity = auth[s].identity /\ auth[r].cert = auth[s].cert

\* equals(): the same object, or (the scheme being X509 for both, which is
\* what the base class compares) the same identity.
Equals(r, s) ==
    \/ r = s
    \/ auth[r].identity = auth[s].identity

-----------------------------------------------------------------------------
\* A caller constructs an object from an X509 certificate object it holds.
Construct(cert) ==
    /\ CanCall
    /\ auth' = Append(auth, New(x509, cert))
    /\ ops' = ops + 1
    /\ UNCHANGED <<x509, issued, parsed>>

GetAuthData(r) ==
    /\ CanCall
    /\ issued' = issued \cup {<<r, AuthData(auth[r])>>}
    /\ ops' = ops + 1
    /\ UNCHANGED <<x509, auth, parsed>>

Returned(w, r) == [wire |-> w, obj |-> r, err |-> "none"]
Threw(w, e) == [wire |-> w, obj |-> 0, err |-> e]

\* Mutant: parse() without the typeof check, so a missing or non-string
\* value reaches readCertPEM, which throws.
ParseWithoutTypeCheck(w) ==
    /\ CanCall
    /\ ops' = ops + 1
    /\ IF w.cert \in Encoded
          THEN /\ x509' = Append(x509, Decode(w.cert))
               /\ auth' = Append(auth, New(x509', Len(x509')))
               /\ parsed' = parsed \cup {Returned(w, Len(auth'))}
          ELSE /\ parsed' = parsed \cup {Threw(w, "X509CERT_PARSE_ERROR")}
               /\ UNCHANGED <<x509, auth>>
    /\ UNCHANGED issued

\* X509AuthenticationData$parse: a value that is not a string is an encoding
\* error; a string is read into a new X509 object, and one that does not
\* decode is a certificate parse error.
Parse(w) ==
    /\ CanCall
    /\ ops' = ops + 1
    /\ CASE w.cert \in {NotString, Absent} ->
                /\ parsed' = parsed \cup {Threw(w, "JSON_PARSE_ERROR")}
                /\ UNCHANGED <<x509, auth>>
         [] w.cert \in Encoded ->
                /\ x509' = Append(x509, Decode(w.cert))
                /\ auth' = Append(auth, New(x509', Len(x509')))
                /\ parsed' = parsed \cup {Returned(w, Len(auth'))}
         [] OTHER ->
                /\ parsed' = parsed \cup {Threw(w, "X509CERT_PARSE_ERROR")}
                /\ UNCHANGED <<x509, auth>>
    /\ UNCHANGED issued

Next ==
    \/ \E c \in 1..Len(x509) : Construct(c)
    \/ \E r \in 1..Len(auth) : GetAuthData(r)
    \/ \E w \in Wire : Parse(w)

Spec == Init /\ [][Next]_vars

-----------------------------------------------------------------------------
\* Spec section 8, round trip and idempotence: the object that
\* parse(getAuthData()) returns is equals() to the original, and its
\* getAuthData() is the same wire object, although parse() built a new X509
\* object for it.
RoundTrip ==
    \A i \in issued, p \in parsed :
        (p.wire = i[2] /\ p.obj # 0) =>
            /\ Equals(i[1], p.obj)
            /\ AuthData(auth[p.obj]) = i[2]

\* Spec sections 4.2 and 6: parse() returns an object exactly for a base64
\* certificate, throws X509CERT_PARSE_ERROR for a string that is not one,
\* and an encoding error when the key is missing or not a string.
ParseOutcome ==
    \A p \in parsed :
        CASE p.wire.cert \in Encoded -> p.obj # 0
          [] p.wire.cert = Garbage -> p.err = "X509CERT_PARSE_ERROR"
          [] OTHER -> p.err = "JSON_PARSE_ERROR"

=============================================================================
