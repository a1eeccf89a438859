---------------------------- MODULE MCDelegation ----------------------------
(* Instances of Delegation for TLC. *)
EXTENDS Delegation

CONSTANTS n1, n2, n3, a, b, s, r1, r2, r3

\* r1 and r2 are messages of the session s of n1 and of n2; r3 has no session
OnNodes == [r \in Roots |-> IF r = r2 THEN n2 ELSE n1]
AllToA == [r \in Roots |-> a]
OneSession == [r \in Roots |-> s]
=============================================================================
