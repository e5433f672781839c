---------------------------- MODULE MCClockService ----------------------------
(* ClockService for TLC.                                                      *)
EXTENDS ClockService
=============================================================================
