---------------------------- MODULE MCLocalQueue ----------------------------
(* LocalQueue on small instances. *)
EXTENDS LocalQueue, TLC

Symmetry == Permutations(Jobs) \cup Permutations(Workers)
=============================================================================
