---------------------------- MODULE MCRelayDriver ----------------------------
(* RelayDriver for TLC: tasks and relays are model values given by the       *)
(* configurations.                                                           *)
EXTENDS RelayDriverOutput, TLC

\* Tasks that call board_io_relay_set are alike, and so are relays: sound for
\* the safety runs, not used by the liveness runs.
Symmetric == Permutations(Callers) \cup Permutations(Relays)
=============================================================================
