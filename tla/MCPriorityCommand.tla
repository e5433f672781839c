--------------------------- MODULE MCPriorityCommand ---------------------------
(* PriorityCommand for TLC: tasks and relays are model values. *)
EXTENDS PriorityCommand, TLC

\* Relays are alike; the two callers are not.
Symmetric == Permutations(Relays)
=============================================================================
