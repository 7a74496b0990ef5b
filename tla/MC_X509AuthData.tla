--------------------------- MODULE MC_X509AuthData ---------------------------
(* TLC instance of X509AuthData: three certificates, two of them with the  *)
(* same subject, all held by the callers.                                  *)
EXTENDS X509AuthData

CONSTANTS c1, c2, c3, alice, bob

MCCerts == {c1, c2, c3}
MCSubject == [c \in MCCerts |-> IF c = c3 THEN bob ELSE alice]
MCIdentities == {alice, bob}
MCInitX509 == <<c1, c2, c3>>

=============================================================================
