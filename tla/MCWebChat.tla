------------------------------ MODULE MCWebChat ------------------------------
(* WebChat on small instances.                                             *)
EXTENDS WebChat

CONSTANTS s1, s2

=============================================================================
