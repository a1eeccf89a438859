-------------------------- MODULE MCWorkspaceSync --------------------------
(* WorkspaceSync on small instances.                                       *)
EXTENDS WorkspaceSync

CONSTANTS n1, n2, n3, d1, d2, d3, k1, e1, e2

\* one workspace, written on two nodes
Spread == [w \in Writes |-> IF w \in {d2, e2} THEN n2 ELSE n1]
OneName == [d \in Docs |-> "plan"]
SameTask == [e \in TaskEdits |-> k1]
=============================================================================
