-------------------------- MODULE MCKnowledgeIndex --------------------------
(* Instances of KnowledgeIndex for TLC. *)
EXTENDS KnowledgeInvariants, TLC

CONSTANTS f1, f2, v1, v2
=============================================================================
