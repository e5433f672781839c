--------------------------- MODULE RelayDriverOutput ---------------------------
(***************************************************************************)
(* RelayDriver implements RelayOutput: a write is under way from the       *)
(* moment its mask is fixed until it is verified or has failed.            *)
(***************************************************************************)
EXTENDS RelayDriver

Transacting == {"writeOutput", "readConfig", "readOutput", "check",
                "writePolarity", "writeConfig"}

Writing == {<<t, frame[t].mask>> : t \in {u \in Tasks : pc[u] \in Transacting}}

Output == INSTANCE RelayOutput WITH serving <- stage = "running", writing <- Writing

\* Callers may rely on RelayOutput, whatever the expander, the bus, the mutex and
\* restarts do (board_io.c:40-180, 212-262, 276-370): one write at a time, of
\* the mask desired when it started, recorded as applied only when verified;
\* healthy only after such a write; service only with everything verified.
ImplementsOutput == Output!Spec
=============================================================================
