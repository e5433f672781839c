------------------------------ MODULE RelayOutput ------------------------------
(***************************************************************************)
(* What the relay half of src/main/board_io.c promises the rest of the     *)
(* firmware: a mask of relays that commands change at once and that is     *)
(* carried out later, by one write at a time, of which it is known only    *)
(* afterwards whether it was verified.  The expander, the transactions of  *)
(* a write, the mutex and the saving of the mask are hidden; RelayDriver   *)
(* has them, and RelayDriverOutput shows that it implements this.          *)
(***************************************************************************)

CONSTANTS
    Relays,     \* relay indices
    Tasks       \* whoever writes to the expander

VARIABLES
    desired,    \* what board_io_relay_commands_mask returns
    applied,    \* what board_io_relays_mask returns
    healthy,    \* the last write was verified and nothing failed since
    serving,    \* board_io_init is done
    writing     \* the write under way: at most one pair of a task and a mask

outputVars == <<desired, applied, healthy, serving, writing>>

Masks == SUBSET Relays

\* Startup begins with a write that switches everything off.
Init ==
    /\ desired = {} /\ applied = {} /\ healthy = FALSE /\ serving = FALSE
    /\ writing \in {{<<t, {}>>} : t \in Tasks}

Command(i, active) ==
    /\ serving
    /\ desired' = IF active THEN desired \cup {i} ELSE desired \ {i}
    /\ UNCHANGED <<applied, healthy, serving, writing>>

\* A write starts with the mask that is desired then, whoever asked for it.
Begin(t) ==
    /\ serving /\ writing = {}
    /\ writing' = {<<t, desired>>}
    /\ UNCHANGED <<desired, applied, healthy, serving>>

Verified(t, mask) ==
    /\ writing = {<<t, mask>>}
    /\ applied' = mask
    /\ healthy' = TRUE
    /\ writing' = {}
    /\ UNCHANGED <<desired, serving>>

Failed(t, mask) ==
    /\ writing = {<<t, mask>>}
    /\ healthy' = FALSE
    /\ writing' = {}
    /\ UNCHANGED <<desired, applied, serving>>

\* The expander was found reset, or was not to be had in time.
Doubted ==
    /\ healthy' = FALSE
    /\ UNCHANGED <<desired, applied, serving, writing>>

\* Startup may ask for a saved mask once everything is off ...
Restore(t, mask) ==
    /\ ~serving /\ writing = {} /\ applied = {} /\ healthy
    /\ desired' = mask
    /\ writing' = {<<t, mask>>}
    /\ UNCHANGED <<applied, healthy, serving>>

\* ... and ends when what it asked for is verified.
Serve ==
    /\ ~serving /\ writing = {} /\ applied = desired /\ healthy
    /\ serving' = TRUE
    /\ UNCHANGED <<desired, applied, healthy, writing>>

Restart ==
    /\ desired' = {} /\ applied' = {} /\ healthy' = FALSE /\ serving' = FALSE
    /\ writing' \in {{<<t, {}>>} : t \in Tasks}

Next ==
    \/ \E i \in Relays, active \in BOOLEAN : Command(i, active)
    \/ \E t \in Tasks : Begin(t)
    \/ \E t \in Tasks, mask \in Masks :
          Verified(t, mask) \/ Failed(t, mask) \/ Restore(t, mask)
    \/ Doubted \/ Serve \/ Restart

Spec == Init /\ [][Next]_outputVars
=============================================================================
