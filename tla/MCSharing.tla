------------------------------ MODULE MCSharing ------------------------------
(* Sharing on small instances.                                             *)
EXTENDS Sharing, TLC

CONSTANTS ana, bob

\* the two agents are alike
Alike == Permutations(Agents)
=============================================================================
