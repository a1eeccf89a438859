--------------------------- MODULE MCMemoryStores ---------------------------
(* Instances of MemoryStores for TLC. *)
EXTENDS MemoryStores, TLC

CONSTANTS a, b, m1, m2, c1, c2, c3

\* one memory of each of two agents
OneEach == [m \in Memories |-> IF m = m1 THEN a ELSE b]

\* the calls beside remember differ in nothing but their name
Interchangeable == Permutations(Others)
=============================================================================
