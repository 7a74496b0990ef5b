----------------------- MODULE X509AuthDataCoreProofs -----------------------
(***************************************************************************)
(* Proof that the core X509AuthenticationData's wire form survives the    *)
(* round trip: the object parse(getAuthData()) returns serializes to the   *)
(* wire object it was parsed from, for objects built from a certificate,   *)
(* from a chain or from both, for every instance.                          *)
(*                                                                         *)
(* CoreInv strengthens the property with what each object holds:          *)
(*   - an issued wire object is getAuthData() of its object now (the X509  *)
(*     heap only grows, so the certificate it encodes is still there);     *)
(*   - an object with a certificate has the certificate's subject as its   *)
(*     identity (init);                                                    *)
(*   - an object parse() returned holds the certificate decoded from the   *)
(*     wire value and no chain, or, for a wire object without a            *)
(*     certificate, exactly its chain and identity.                        *)
(***************************************************************************)
EXTENDS X509AuthDataCore, TLAPS

AuthObj == [identity : Identities \cup {Absent}, cert : Nat \cup {Absent},
            chain : Chains \cup {Absent}]

TypeOK ==
    /\ x509 \in Seq(Certs)
    /\ auth \in Seq(AuthObj)
    /\ \A r \in 1..Len(auth) : auth[r].cert # Absent => auth[r].cert \in 1..Len(x509)
    /\ issued \subseteq (1..Len(auth)) \X Wire
    /\ parsed \subseteq [wire : Wire, obj : 0..Len(auth),
                         err : {"none", "X509CERT_PARSE_ERROR", "JSON_PARSE_ERROR"}]
    /\ ops \in Nat

\* getAuthData() of an object issued earlier is what it returns now.
IssuedCurrent == \A i \in issued : i[2] = AuthData(auth[i[1]])

\* init(): a certificate's subject overrides the identity.
IdentityIsSubject ==
    \A r \in 1..Len(auth) :
        auth[r].cert # Absent => auth[r].identity = Subject[x509[auth[r].cert]]

\* What parse() put in the object it returned.
Holds(p) ==
    p.obj # 0 =>
        \/ /\ p.wire.cert \in Encoded
           /\ auth[p.obj].cert # Absent
           /\ x509[auth[p.obj].cert] = Decode(p.wire.cert)
           /\ auth[p.obj].chain = Absent
        \/ /\ p.wire.cert = Absent
           /\ auth[p.obj] = [identity |-> p.wire.identity, cert |-> Absent,
                             chain |-> p.wire.chain]

ParsedHolds == \A p \in parsed : Holds(p)

CoreInv ==
    /\ TypeOK
    /\ IssuedCurrent
    /\ IdentityIsSubject
    /\ ParsedHolds

-----------------------------------------------------------------------------
\* Decoding inverts encoding.
LEMMA CoreDecodeBase64 ==
    ASSUME NEW c \in Certs
    PROVE  /\ Base64(c) \in Encoded
           /\ Decode(Base64(c)) = c
BY DEF Base64, Decode, Encoded

LEMMA CoreDecodeEncoded ==
    ASSUME NEW s \in Encoded
    PROVE  Decode(s) \in Certs
BY DEF Decode, Encoded

\* getAuthData() of a well-typed object is a wire object.
LEMMA AuthDataWire ==
    ASSUME TypeOK, NEW r \in 1..Len(auth)
    PROVE  AuthData(auth[r]) \in Wire
<1>1. auth[r] \in AuthObj
    BY DEF TypeOK
<1>2. auth[r].cert # Absent => Base64(x509[auth[r].cert]) \in Encoded
    BY <1>1, CoreDecodeBase64 DEF TypeOK
<1>3. QED
    BY <1>1, <1>2 DEF AuthData, Wire, CertValues, AuthObj

LEMMA InitCoreInv == Init => CoreInv
BY X509CoreAssumption DEF Init, CoreInv, TypeOK, IssuedCurrent,
                          IdentityIsSubject, ParsedHolds

\* A new object appended to the heap: the old objects keep what the
\* invariant says of them, whatever else the step does to parsed and ops.
LEMMA AppendAuthCoreInv ==
    ASSUME CoreInv, NEW o \in AuthObj,
           o.cert # Absent => /\ o.cert \in 1..Len(x509)
                              /\ o.identity = Subject[x509[o.cert]],
           auth' = Append(auth, o), UNCHANGED <<x509, issued>>
    PROVE  /\ auth' \in Seq(AuthObj)
           /\ \A r \in 1..Len(auth') :
                 auth'[r].cert # Absent => auth'[r].cert \in 1..Len(x509')
           /\ issued' \subseteq (1..Len(auth')) \X Wire
           /\ IssuedCurrent'
           /\ IdentityIsSubject'
           /\ \A p \in parsed : Holds(p)'
<1> USE DEF CoreInv, TypeOK
<1>1. /\ auth' \in Seq(AuthObj)
      /\ Len(auth') = Len(auth) + 1
      /\ auth'[Len(auth')] = o
      /\ \A k \in 1..Len(auth) : auth'[k] = auth[k]
    OBVIOUS
<1>2. IssuedCurrent'
    BY <1>1 DEF IssuedCurrent, AuthData
<1>3. IdentityIsSubject'
    BY <1>1 DEF IdentityIsSubject
<1>4. \A p \in parsed : Holds(p)'
    BY <1>1 DEF ParsedHolds, Holds
<1>5. QED
    BY <1>1, <1>2, <1>3, <1>4

LEMMA ConstructCoreInv ==
    ASSUME CoreInv, NEW id \in Identities, NEW c \in (1..Len(x509)) \cup {Absent},
           NEW ch \in Chains \cup {Absent}, Construct(id, c, ch)
    PROVE  CoreInv'
<1> USE X509CoreAssumption, SentinelAssumption
<1>1. New(x509, id, c, ch) \in AuthObj
    BY DEF New, AuthObj, CoreInv, TypeOK
<1>2. LET o == New(x509, id, c, ch)
      IN  o.cert # Absent => /\ o.cert \in 1..Len(x509)
                             /\ o.identity = Subject[x509[o.cert]]
    BY DEF New
<1>3. QED
    BY <1>1, <1>2, AppendAuthCoreInv DEF Construct, CoreInv, TypeOK, ParsedHolds

LEMMA GetAuthDataCoreInv ==
    ASSUME CoreInv, NEW r \in 1..Len(auth), GetAuthData(r)
    PROVE  CoreInv'
<1>1. AuthData(auth[r]) \in Wire
    BY AuthDataWire DEF CoreInv
<1>2. TypeOK'
    BY <1>1 DEF GetAuthData, CoreInv, TypeOK
<1>3. IssuedCurrent'
    BY DEF GetAuthData, CoreInv, IssuedCurrent, AuthData
<1>4. QED
    BY <1>2, <1>3 DEF GetAuthData, CoreInv, IdentityIsSubject, ParsedHolds,
                      Holds

\* parse() of a base64 certificate.
LEMMA ParseCertCoreInv ==
    ASSUME CoreInv, NEW w \in Wire, w.cert \in Encoded,
           x509' = Append(x509, Decode(w.cert)),
           auth' = Append(auth, New(x509', Absent, Len(x509'), Absent)),
           parsed' = parsed \cup {Returned(w, Len(auth'))},
           UNCHANGED issued, ops' = ops + 1
    PROVE  CoreInv'
<1> USE X509CoreAssumption, SentinelAssumption DEF CoreInv, TypeOK
<1>1. Decode(w.cert) \in Certs
    BY CoreDecodeEncoded
<1>2. /\ x509' \in Seq(Certs)
      /\ Len(x509') = Len(x509) + 1
      /\ x509'[Len(x509')] = Decode(w.cert)
      /\ \A k \in 1..Len(x509) : x509'[k] = x509[k]
    BY <1>1
<1> DEFINE o == [identity |-> Subject[Decode(w.cert)], cert |-> Len(x509'),
                 chain |-> Absent]
<1>3. New(x509', Absent, Len(x509'), Absent) = o
    BY <1>2 DEF New
<1>4. /\ auth' \in Seq(AuthObj)
      /\ Len(auth') = Len(auth) + 1
      /\ auth'[Len(auth')] = o
      /\ \A k \in 1..Len(auth) : auth'[k] = auth[k]
    BY <1>1, <1>2, <1>3 DEF AuthObj
<1>5. TypeOK'
    BY <1>2, <1>4 DEF Returned
<1>6. IssuedCurrent'
    BY <1>2, <1>4 DEF IssuedCurrent, AuthData
<1>7. IdentityIsSubject'
    BY <1>2, <1>4 DEF IdentityIsSubject
<1>8. ParsedHolds'
    <2>1. \A p \in {Returned(w, Len(auth'))} : Holds(p)'
        BY <1>2, <1>4 DEF Holds, Returned
    <2>2. \A p \in parsed : Holds(p)'
        BY <1>2, <1>4 DEF ParsedHolds, Holds
    <2>3. QED
        BY <2>1, <2>2 DEF ParsedHolds
<1>9. QED
    BY <1>5, <1>6, <1>7, <1>8

\* parse() of a wire object with a chain and no certificate.
LEMMA ParseChainCoreInv ==
    ASSUME CoreInv, NEW w \in Wire, w.cert = Absent, w.chain # Absent,
           auth' = Append(auth, New(x509, w.identity, Absent, w.chain)),
           parsed' = parsed \cup {Returned(w, Len(auth'))},
           UNCHANGED <<x509, issued>>, ops' = ops + 1
    PROVE  CoreInv'
<1> USE X509CoreAssumption, SentinelAssumption
<1> DEFINE o == [identity |-> w.identity, cert |-> Absent, chain |-> w.chain]
<1>1. New(x509, w.identity, Absent, w.chain) = o
    BY DEF New
<1>2. o \in AuthObj
    BY DEF Wire, AuthObj
<1>3. /\ auth' \in Seq(AuthObj)
      /\ \A r \in 1..Len(auth') :
            auth'[r].cert # Absent => auth'[r].cert \in 1..Len(x509')
      /\ issued' \subseteq (1..Len(auth')) \X Wire
      /\ IssuedCurrent'
      /\ IdentityIsSubject'
      /\ \A p \in parsed : Holds(p)'
    BY <1>1, <1>2, AppendAuthCoreInv
<1>4. Len(auth') = Len(auth) + 1 /\ auth'[Len(auth')] = o
    BY <1>1, <1>2 DEF CoreInv, TypeOK
<1>5. \A p \in {Returned(w, Len(auth'))} : Holds(p)'
    BY <1>4 DEF Holds, Returned
<1>6. TypeOK'
    BY <1>3, <1>4 DEF CoreInv, TypeOK, Returned
<1>7. QED
    BY <1>3, <1>5, <1>6 DEF CoreInv, ParsedHolds

\* parse() that throws: only the outcome is recorded.
LEMMA ParseThrowsCoreInv ==
    ASSUME CoreInv, NEW w \in Wire,
           NEW e \in {"X509CERT_PARSE_ERROR", "JSON_PARSE_ERROR"},
           parsed' = parsed \cup {Threw(w, e)},
           UNCHANGED <<x509, auth, issued>>, ops' = ops + 1
    PROVE  CoreInv'
<1>1. TypeOK'
    BY DEF CoreInv, TypeOK, Threw
<1>2. Holds(Threw(w, e))'
    BY DEF Holds, Threw
<1>3. QED
    BY <1>1, <1>2 DEF CoreInv, IssuedCurrent, IdentityIsSubject, ParsedHolds,
                      Holds, AuthData

LEMMA ParseCoreInv ==
    ASSUME CoreInv, NEW w \in Wire, Parse(w)
    PROVE  CoreInv'
<1>1. CASE w.cert # Absent /\ w.cert \in Encoded
    BY <1>1, ParseCertCoreInv DEF Parse
<1>2. CASE w.cert # Absent /\ w.cert \notin Encoded
    BY <1>2, ParseThrowsCoreInv DEF Parse
<1>3. CASE w.cert = Absent /\ w.chain # Absent
    BY <1>3, ParseChainCoreInv DEF Parse
<1>4. CASE w.cert = Absent /\ w.chain = Absent
    BY <1>4, ParseThrowsCoreInv DEF Parse
<1>5. QED
    BY <1>1, <1>2, <1>3, <1>4

LEMMA CoreInvStep == CoreInv /\ [Next]_vars => CoreInv'
<1> SUFFICES ASSUME CoreInv, [Next]_vars PROVE CoreInv'
    OBVIOUS
<1>1. CASE \E id \in Identities, c \in (1..Len(x509)) \cup {Absent},
              ch \in Chains \cup {Absent} : Construct(id, c, ch)
    BY <1>1, ConstructCoreInv
<1>2. CASE \E r \in 1..Len(auth) : GetAuthData(r)
    BY <1>2, GetAuthDataCoreInv
<1>3. CASE \E w \in Wire \cup {p[2] : p \in issued} : Parse(w)
    <2>1. PICK w \in Wire \cup {p[2] : p \in issued} : Parse(w)
        BY <1>3
    <2>2. w \in Wire
        BY <2>1 DEF CoreInv, TypeOK
    <2>3. QED
        BY <2>1, <2>2, ParseCoreInv
<1>4. CASE UNCHANGED vars
    BY <1>4 DEF vars, CoreInv, TypeOK, IssuedCurrent, IdentityIsSubject,
                ParsedHolds, Holds, AuthData
<1>5. QED
    BY <1>1, <1>2, <1>3, <1>4 DEF Next

-----------------------------------------------------------------------------
\* The wire form survives the round trip.  If the original has a
\* certificate, its wire form carries the certificate in base64 and no
\* chain, and parse() builds an object with the decoded certificate, whose
\* subject is the original's identity; if not, the wire form carries the
\* chain and identity, and parse() copies them.
LEMMA CoreInvRoundTripStable == CoreInv => RoundTripStable
<1> SUFFICES ASSUME CoreInv, NEW i \in issued, NEW p \in parsed,
                    p.wire = i[2], p.obj # 0
             PROVE  AuthData(auth[p.obj]) = i[2]
    BY DEF RoundTripStable
<1> USE X509CoreAssumption, SentinelAssumption DEF CoreInv, TypeOK
<1> DEFINE a == auth[i[1]]  b == auth[p.obj]
<1>1. a \in AuthObj /\ (a.cert # Absent => a.cert \in 1..Len(x509))
    OBVIOUS
<1>2. b \in AuthObj /\ (b.cert # Absent => b.cert \in 1..Len(x509))
    <2>1. p.obj \in 1..Len(auth)
        OBVIOUS
    <2>2. QED
        BY <2>1
<1>3. i[2] = AuthData(a)
    BY DEF IssuedCurrent
<1>4. Holds(p)
    BY DEF ParsedHolds
<1>5. CASE a.cert # Absent
    <2>1. x509[a.cert] \in Certs /\ p.wire.cert = Base64(x509[a.cert])
        BY <1>1, <1>3, <1>5 DEF AuthData
    <2>2. p.wire.cert \in Encoded
        BY <2>1, CoreDecodeBase64
    <2>3. b.cert # Absent /\ b.chain = Absent /\ x509[b.cert] = x509[a.cert]
        BY <1>4, <2>1, <2>2, CoreDecodeBase64 DEF Holds
    <2>4. b.identity = a.identity
        BY <1>1, <1>2, <1>5, <2>3 DEF IdentityIsSubject
    <2>5. QED
        BY <1>3, <1>5, <2>3, <2>4 DEF AuthData
<1>6. CASE a.cert = Absent
    <2>1. p.wire = [cert |-> Absent, chain |-> a.chain, identity |-> a.identity]
        BY <1>3, <1>6 DEF AuthData
    <2>2. p.wire.cert \notin Encoded
        BY <2>1
    <2>3. b = [identity |-> a.identity, cert |-> Absent, chain |-> a.chain]
        BY <1>4, <2>1, <2>2 DEF Holds
    <2>4. QED
        BY <1>3, <1>6, <2>3 DEF AuthData
<1>7. QED
    BY <1>5, <1>6

\* Spec sections 4.2 and 8, idempotence: for every instance, the object
\* parse(getAuthData()) returns serializes to the wire object it came from.
THEOREM RoundTripStableCorrect == Spec => []RoundTripStable
<1>1. Init => CoreInv
    BY InitCoreInv
<1>2. CoreInv /\ [Next]_vars => CoreInv'
    BY CoreInvStep
<1>3. CoreInv => RoundTripStable
    BY CoreInvRoundTripStable
<1>4. QED
    BY <1>1, <1>2, <1>3, PTL DEF Spec

=============================================================================
