----------------------------- MODULE MCOutbound -----------------------------
(* Instances of Outbound for TLC. *)
EXTENDS Outbound

CONSTANTS m1, r1, r2, job

OneJob == [r \in Runs |-> job]
=============================================================================
