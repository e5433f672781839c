----------------------------- MODULE MCConfigStore -----------------------------
(* ConfigStore with two automatic instances, of which one is the factory
   default, and one instance outside the range. *)
EXTENDS ConfigStore, TLC

Symmetric == Permutations(Range \ {Default})
=============================================================================
