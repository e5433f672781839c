---------------------------- MODULE MCInstanceClaim ----------------------------
(* InstanceClaim with a unit of 500 ms and the long periods shortened. *)
EXTENDS InstanceClaim, TLC

Symmetric == Permutations(Nodes) \cup Permutations(Ids \ {Default})
=============================================================================
