------------------------- MODULE MC_X509AuthDataCore -------------------------
EXTENDS X509AuthDataCore

CONSTANTS c1, c2, c3, alice, bob, chain1

\* Two certificates with the same subject and one with another.
MCCerts == {c1, c2, c3}
MCSubject == [c \in MCCerts |-> IF c = c3 THEN bob ELSE alice]
MCIdentities == {alice, bob}
MCInitX509 == <<c1, c2, c3>>

=============================================================================
