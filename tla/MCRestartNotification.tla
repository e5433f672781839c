------------------------- MODULE MCRestartNotification -------------------------
(* RestartNotification with a broadcast, a device and the boot times t1, t2. *)
EXTENDS RestartNotification, TLC

Symmetric == Permutations(Times)
=============================================================================
