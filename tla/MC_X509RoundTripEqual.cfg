CONSTANTS
    c1 = c1
    c2 = c2
    c3 = c3
    alice = alice
    bob = bob
    chain1 = chain1
    Garbage = Garbage
    NotString = NotString
    Absent = Absent
    Certs <- MCCerts
    Subject <- MCSubject
    Identities <- MCIdentities
    Chains = {chain1}
    InitX509 <- MCInitX509
    MaxOps = 4

SPECIFICATION Spec

INVARIANT RoundTripEqual

CHECK_DEADLOCK FALSE
