--------------------------- MODULE MCSessionTurns ---------------------------
(* Instances of SessionTurns for TLC. *)
EXTENDS SessionTurns

CONSTANTS s1, s2, m1, m2, m3, d1, d2

\* Messages on one session, delegations on another.
ByKind == [t \in Tasks |-> IF t \in Inbound THEN s1 ELSE s2]
=============================================================================
