---------------------------- MODULE MCBacnetSession ----------------------------
(* BacnetSession over two addresses the network may assign in turn. *)
EXTENDS BacnetSession, TLC

Symmetric == Permutations(Addresses)
=============================================================================
