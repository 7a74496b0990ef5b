------------------------- MODULE X509AuthDataProofs -------------------------
(***************************************************************************)
(* Proofs that the entityauth X509AuthenticationData round-trips through   *)
(* getAuthData() and parse(), and that parse() classifies every wire value *)
(* as the spec says, for every set of certificates, subjects and bound.   *)
(*                                                                         *)
(* Neither property is inductive: the round trip compares an object made  *)
(* by parse() with one whose wire form was issued earlier, so the          *)
(* invariant must say what each of them holds.  X509Inv says that          *)
(*   - every issued wire object is getAuthData() of its object now, which  *)
(*     stays true because the X509 heap only grows;                        *)
(*   - every object's identity is the subject of its certificate (init);   *)
(*   - every object parse() returned holds the certificate decoded from   *)
(*     the wire value it was given.                                        *)
(***************************************************************************)
EXTENDS X509AuthData, TLAPS

AuthObj == [identity : Identities, cert : Nat \ {0}]

TypeOK ==
    /\ x509 \in Seq(Certs)
    /\ auth \in Seq(AuthObj)
    /\ \A r \in 1..Len(auth) : auth[r].cert \in 1..Len(x509)
    /\ issued \subseteq (1..Len(auth)) \X Wire
    /\ parsed \subseteq [wire : Wire, obj : 0..Len(auth),
                         err : {"none", "X509CERT_PARSE_ERROR", "JSON_PARSE_ERROR"}]
    /\ ops \in Nat

\* getAuthData() of an object issued earlier is what it returns now.
IssuedCurrent == \A i \in issued : i[2] = AuthData(auth[i[1]])

\* init(): the identity is the subject of the certificate.
IdentityIsSubject ==
    \A r \in 1..Len(auth) : auth[r].identity = Subject[x509[auth[r].cert]]

\* parse() returned an object only for a base64 certificate, and the object
\* holds that certificate.
ParsedHoldsDecoded ==
    \A p \in parsed :
        p.obj # 0 => /\ p.wire.cert \in Encoded
                     /\ x509[auth[p.obj].cert] = Decode(p.wire.cert)

X509Inv ==
    /\ TypeOK
    /\ IssuedCurrent
    /\ IdentityIsSubject
    /\ ParsedHoldsDecoded
    /\ ParseOutcome

-----------------------------------------------------------------------------
\* Decoding inverts encoding, and an encoded value is a certificate's.
LEMMA DecodeBase64 ==
    ASSUME NEW c \in Certs
    PROVE  /\ Base64(c) \in Encoded
           /\ Decode(Base64(c)) = c
BY DEF Base64, Decode, Encoded

LEMMA DecodeEncoded ==
    ASSUME NEW s \in Encoded
    PROVE  /\ Decode(s) \in Certs
           /\ Base64(Decode(s)) = s
BY DEF Base64, Decode, Encoded

LEMMA InitX509Inv == Init => X509Inv
BY X509Assumption DEF Init, X509Inv, TypeOK, IssuedCurrent, IdentityIsSubject,
                      ParsedHoldsDecoded, ParseOutcome

LEMMA ConstructX509Inv ==
    ASSUME X509Inv, NEW c \in 1..Len(x509), Construct(c)
    PROVE  X509Inv'
<1> USE X509Assumption DEF X509Inv, TypeOK
<1>1. auth' = Append(auth, New(x509, c)) /\ UNCHANGED <<x509, issued, parsed>>
    BY DEF Construct
<1>2. New(x509, c) \in AuthObj
    BY DEF New, AuthObj
<1>3. \A r \in 1..Len(auth) : auth'[r] = auth[r]
    BY <1>1
<1>4. TypeOK'
    BY <1>1, <1>2, <1>3 DEF Construct, AuthObj, New
<1>5. IssuedCurrent'
    BY <1>1, <1>3 DEF IssuedCurrent, AuthData
<1>6. IdentityIsSubject'
    BY <1>1, <1>3 DEF IdentityIsSubject, New
<1>7. ParsedHoldsDecoded'
    BY <1>1, <1>3 DEF ParsedHoldsDecoded
<1>8. ParseOutcome'
    BY <1>1 DEF ParseOutcome
<1>9. QED
    BY <1>4, <1>5, <1>6, <1>7, <1>8

LEMMA GetAuthDataX509Inv ==
    ASSUME X509Inv, NEW r \in 1..Len(auth), GetAuthData(r)
    PROVE  X509Inv'
<1> USE X509Assumption DEF X509Inv, TypeOK
<1>1. AuthData(auth[r]) \in Wire
    BY DecodeBase64 DEF AuthData, Wire
<1>2. TypeOK'
    BY <1>1 DEF GetAuthData
<1>3. IssuedCurrent'
    BY DEF GetAuthData, IssuedCurrent, AuthData
<1>4. QED
    BY <1>2, <1>3 DEF GetAuthData, IdentityIsSubject, ParsedHoldsDecoded,
                      ParseOutcome

\* parse() of a base64 certificate: a new X509 object and a new object.
LEMMA ParseEncodedX509Inv ==
    ASSUME X509Inv, NEW w \in Wire, w.cert \in Encoded,
           x509' = Append(x509, Decode(w.cert)),
           auth' = Append(auth, New(x509', Len(x509'))),
           parsed' = parsed \cup {Returned(w, Len(auth'))},
           UNCHANGED issued, ops' = ops + 1
    PROVE  X509Inv'
<1> USE X509Assumption DEF X509Inv, TypeOK
<1>1. Decode(w.cert) \in Certs
    BY DecodeEncoded
<1>2. /\ x509' \in Seq(Certs)
      /\ Len(x509') = Len(x509) + 1
      /\ x509'[Len(x509')] = Decode(w.cert)
      /\ \A k \in 1..Len(x509) : x509'[k] = x509[k]
    BY <1>1
<1>3. New(x509', Len(x509')) = [identity |-> Subject[Decode(w.cert)],
                                cert |-> Len(x509')]
    BY <1>2 DEF New
<1>4. /\ auth' \in Seq(AuthObj)
      /\ Len(auth') = Len(auth) + 1
      /\ auth'[Len(auth')] = New(x509', Len(x509'))
      /\ \A k \in 1..Len(auth) : auth'[k] = auth[k]
    BY <1>1, <1>2, <1>3 DEF AuthObj
<1>5. TypeOK'
    BY <1>2, <1>3, <1>4 DEF Returned
<1>6. IssuedCurrent'
    BY <1>2, <1>4 DEF IssuedCurrent, AuthData
<1>7. IdentityIsSubject'
    BY <1>2, <1>3, <1>4 DEF IdentityIsSubject
<1>8. ParsedHoldsDecoded'
    BY <1>2, <1>3, <1>4 DEF ParsedHoldsDecoded, Returned
<1>9. ParseOutcome'
    BY <1>4, SentinelAssumption DEF ParseOutcome, Returned
<1>10. QED
    BY <1>5, <1>6, <1>7, <1>8, <1>9

\* parse() that throws: only the outcome is recorded.
LEMMA ParseThrowsX509Inv ==
    ASSUME X509Inv, NEW w \in Wire, NEW e,
           \/ w.cert \in {NotString, Absent} /\ e = "JSON_PARSE_ERROR"
           \/ w.cert \notin {NotString, Absent} \cup Encoded
              /\ e = "X509CERT_PARSE_ERROR",
           parsed' = parsed \cup {Threw(w, e)},
           UNCHANGED <<x509, auth, issued>>, ops' = ops + 1
    PROVE  X509Inv'
<1> USE X509Assumption DEF X509Inv, TypeOK
<1>1. TypeOK'
    BY DEF Threw
<1>2. ParseOutcome'
    BY SentinelAssumption DEF ParseOutcome, Threw, Wire
<1>3. QED
    BY <1>1, <1>2 DEF IssuedCurrent, IdentityIsSubject, ParsedHoldsDecoded,
                      Threw, AuthData

LEMMA ParseX509Inv ==
    ASSUME X509Inv, NEW w \in Wire, Parse(w)
    PROVE  X509Inv'
<1>1. CASE w.cert \in {NotString, Absent}
    <2>1. /\ parsed' = parsed \cup {Threw(w, "JSON_PARSE_ERROR")}
          /\ UNCHANGED <<x509, auth, issued>> /\ ops' = ops + 1
        BY <1>1, SentinelAssumption DEF Parse
    <2>2. QED
        BY <1>1, <2>1, ParseThrowsX509Inv
<1>2. CASE w.cert \in Encoded
    <2>1. w.cert \notin {NotString, Absent}
        BY <1>2, SentinelAssumption
    <2>2. /\ x509' = Append(x509, Decode(w.cert))
          /\ auth' = Append(auth, New(x509', Len(x509')))
          /\ parsed' = parsed \cup {Returned(w, Len(auth'))}
          /\ UNCHANGED issued /\ ops' = ops + 1
        BY <1>2, <2>1 DEF Parse
    <2>3. QED
        BY <1>2, <2>2, ParseEncodedX509Inv
<1>3. CASE w.cert \notin {NotString, Absent} \cup Encoded
    <2>1. /\ parsed' = parsed \cup {Threw(w, "X509CERT_PARSE_ERROR")}
          /\ UNCHANGED <<x509, auth, issued>> /\ ops' = ops + 1
        BY <1>3 DEF Parse
    <2>2. QED
        BY <1>3, <2>1, ParseThrowsX509Inv
<1>4. QED
    BY <1>1, <1>2, <1>3

LEMMA X509InvStep == X509Inv /\ [Next]_vars => X509Inv'
<1> SUFFICES ASSUME X509Inv, [Next]_vars PROVE X509Inv'
    OBVIOUS
<1>1. CASE \E c \in 1..Len(x509) : Construct(c)
    BY <1>1, ConstructX509Inv
<1>2. CASE \E r \in 1..Len(auth) : GetAuthData(r)
    BY <1>2, GetAuthDataX509Inv
<1>3. CASE \E w \in Wire : Parse(w)
    BY <1>3, ParseX509Inv
<1>4. CASE UNCHANGED vars
    BY <1>4 DEF vars, X509Inv, TypeOK, IssuedCurrent, IdentityIsSubject,
                ParsedHoldsDecoded, ParseOutcome, AuthData
<1>5. QED
    BY <1>1, <1>2, <1>3, <1>4 DEF Next

-----------------------------------------------------------------------------
\* The round trip follows from the invariant: the wire form of the original
\* decodes to the certificate the parsed object holds, whose subject is the
\* identity of both.
LEMMA X509InvRoundTrip == X509Inv => RoundTrip
<1> SUFFICES ASSUME X509Inv, NEW i \in issued, NEW p \in parsed,
                    p.wire = i[2], p.obj # 0
             PROVE  Equals(i[1], p.obj) /\ AuthData(auth[p.obj]) = i[2]
    BY DEF RoundTrip
<1> USE X509Assumption DEF X509Inv, TypeOK
<1> DEFINE a == auth[i[1]]  b == auth[p.obj]
<1>1. a \in AuthObj /\ a.cert \in 1..Len(x509) /\ x509[a.cert] \in Certs
    OBVIOUS
<1>2. b \in AuthObj /\ b.cert \in 1..Len(x509) /\ x509[b.cert] \in Certs
    <2>1. p.obj \in 1..Len(auth)
        OBVIOUS
    <2>2. QED
        BY <2>1
<1>3. p.wire.cert = Base64(x509[a.cert])
    <2>1. i[2] = AuthData(a)
        BY DEF IssuedCurrent
    <2>2. QED
        BY <2>1 DEF AuthData
<1>4. x509[b.cert] = x509[a.cert]
    BY <1>1, <1>3, DecodeBase64 DEF ParsedHoldsDecoded
<1>5. b.identity = a.identity
    BY <1>1, <1>2, <1>4 DEF IdentityIsSubject
<1>6. Equals(i[1], p.obj)
    BY <1>5 DEF Equals
<1>7. AuthData(b) = i[2]
    BY <1>4 DEF IssuedCurrent, AuthData
<1>8. QED
    BY <1>6, <1>7

\* Spec section 8: for every set of certificates and subjects and every
\* bound, parse(getAuthData()) of an object yields an object equals() to
\* it, with the same wire form.
THEOREM RoundTripCorrect == Spec => []RoundTrip
<1>1. Init => X509Inv
    BY InitX509Inv
<1>2. X509Inv /\ [Next]_vars => X509Inv'
    BY X509InvStep
<1>3. X509Inv => RoundTrip
    BY X509InvRoundTrip
<1>4. QED
    BY <1>1, <1>2, <1>3, PTL DEF Spec

\* Spec sections 4.2 and 6: for every instance, parse() returns an object
\* exactly for a base64 certificate, throws X509CERT_PARSE_ERROR for another
\* string and an encoding error for a missing or non-string value.
THEOREM ParseOutcomeCorrect == Spec => []ParseOutcome
<1>1. X509Inv => ParseOutcome
    BY DEF X509Inv
<1>2. QED
    BY <1>1, InitX509Inv, X509InvStep, PTL DEF Spec

=============================================================================
