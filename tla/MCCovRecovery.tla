---------------------------- MODULE MCCovRecovery ----------------------------
(* CovRecovery for TLC: two objects, three subscriptions, one of them dead. *)
EXTENDS CovRecovery

CONSTANTS o1, o2

Table == <<o1, o2, o1>>
=============================================================================
