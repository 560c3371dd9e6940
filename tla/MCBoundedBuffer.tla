--------------------------- MODULE MCBoundedBuffer ---------------------------
(* Instances of BoundedBuffer for TLC. *)
EXTENDS BoundedBuffer, TLC

Symmetric == Permutations(Producers) \cup Permutations(Consumers)
=============================================================================
