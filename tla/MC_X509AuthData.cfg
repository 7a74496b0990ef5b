CONSTANTS
    c1 = c1
    c2 = c2
    c3 = c3
    alice = alice
    bob = bob
    Garbage = Garbage
    NotString = NotString
    Absent = Absent
    Certs <- MCCerts
    Subject <- MCSubject
    Identities <- MCIdentities
    InitX509 <- MCInitX509
    MaxOps = 5

SPECIFICATION Spec

INVARIANT RoundTrip
INVARIANT ParseOutcome

CHECK_DEADLOCK FALSE
