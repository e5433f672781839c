------------------------------ MODULE RelayDriver ------------------------------
(***************************************************************************)
(* The relay half of src/main/board_io.c: tasks that publish a wanted      *)
(* relay mask, apply it to a TCA9554 expander over I2C under a mutex that  *)
(* can time out, verify it by reading the registers back, and save the     *)
(* verified mask to flash.  The expander may reset on its own, acknowledge *)
(* a write and discard it, or fail a transaction; the ESP32 may restart    *)
(* with or without a loss of power.                                        *)
(*                                                                         *)
(* A register is the set of its bits that are 1, one bit per relay: a mask *)
(* is a subset of Relays and FF is Relays.                                 *)
(***************************************************************************)
EXTENDS Integers

CONSTANTS
    Relays,             \* relay indices (FW_RELAY_COUNT of them)
    Callers,            \* tasks that call board_io_relay_set
    HealthTask,         \* input_and_health_task
    InitTask,           \* the main task while it runs board_io_init
    NoTask,             \* the owner of a free mutex
    RestoreRelayState,  \* restore_relay_state of the configuration
    MaxCommands,        \* bound on relay_set calls
    MaxFaults,          \* bound on expander, bus and flash faults
    MaxReboots          \* bound on restarts that no startup failure causes

ASSUME TasksAssumption ==
    /\ HealthTask \notin Callers
    /\ InitTask \notin Callers \cup {HealthTask}
    /\ NoTask \notin Callers \cup {HealthTask, InitTask}

ASSUME BoundsAssumption ==
    /\ RestoreRelayState \in BOOLEAN
    /\ MaxCommands \in Nat
    /\ MaxFaults \in Nat
    /\ MaxReboots \in Nat

VARIABLES
    chip,        \* TCA9554 registers: OUTPUT latch and CONFIG (1 = input pin)
    desired,     \* s_relay_desired_mask
    applied,     \* s_relay_mask, the last verified mask
    healthy,     \* s_tca_healthy
    registers,   \* diagnostics: output_register and configuration_register
    registersValid, \* diagnostics: registers_valid
    dirty,       \* s_relay_save_dirty
    settled,     \* s_relay_last_change_us is at least RELAY_SAVE_DELAY_US old
    revision,    \* s_relay_change_revision
    eligible,    \* health task: now_us of this iteration is old enough to save
    save,        \* health task: what it is saving
    nvs,         \* the "relays" key in flash
    owner,       \* the holder of s_relay_mutex (InitTask before tasks exist)
    pc,          \* where each task is
    frame,       \* each task's locals inside relay_mask_write_locked
    stage,       \* progress of board_io_init
    asked,       \* history: the mask the calls so far have asked for
    disturbed,   \* history: the expander reset since CONFIG was last read
    restoreRead, \* history: this boot read the saved mask successfully
    faults, commands, reboots   \* what is spent of the bounds

driverVars == <<desired, applied, healthy, registers, registersValid>>
saveVars == <<dirty, settled, revision, eligible, save, nvs>>
historyVars == <<asked, disturbed, restoreRead>>
boundVars == <<faults, commands, reboots>>
vars == <<chip, driverVars, saveVars, owner, pc, frame, stage, historyVars, boundVars>>

Tasks == Callers \cup {HealthTask, InitTask}
Masks == SUBSET Relays
Labels == {"idle", "take", "writeOutput", "readConfig", "readOutput", "check",
           "writePolarity", "writeConfig", "finish", "initPolarity", "failed",
           "saveCheck", "nvsWrite", "saveDone"}

NewFrame(mask) ==
    [mask |-> mask, output |-> {}, config |-> {},
     phase |-> "apply", outcome |-> "failed"]

ResetChip == [output |-> Relays, config |-> Relays]

\* The relays the expander energises: a latched bit on a pin that is an output.
Driven == chip.output \ chip.config

Goto(t, label) == pc' = [pc EXCEPT ![t] = label]

SpendFault == faults < MaxFaults /\ faults' = faults + 1

NewSave == [state |-> {}, revision |-> 0, result |-> "none"]

Init ==
    /\ chip = ResetChip
    /\ desired = {} /\ applied = {} /\ healthy = FALSE
    /\ registers = [output |-> {}, config |-> {}] /\ registersValid = FALSE
    /\ dirty = FALSE /\ settled = FALSE /\ revision = 0
    /\ eligible = FALSE /\ save = NewSave
    /\ nvs \in Masks
    /\ owner = InitTask
    /\ pc = [t \in Tasks |-> IF t = InitTask THEN "writeOutput" ELSE "idle"]
    /\ frame = [t \in Tasks |-> NewFrame({})]
    /\ stage = "off"
    /\ asked = {} /\ disturbed = FALSE /\ restoreRead = TRUE
    /\ faults = 0 /\ commands = 0 /\ reboots = 0

-----------------------------------------------------------------------------
(* relay_mask_write_locked, one I2C transaction or critical section a step *)

\* Slip: an I2C error that leaves the health flag alone.
BusErrorKeepsHealth(t) ==
    /\ SpendFault
    /\ registersValid' = FALSE
    /\ Goto(t, "finish")
    /\ UNCHANGED <<desired, applied, healthy, registers, frame>>

\* relay_io_result on an error: the caller leaves with whatever the expander
\* made of the transaction.
BusError(t) ==
    /\ SpendFault
    /\ healthy' = FALSE
    /\ registersValid' = FALSE
    /\ Goto(t, "finish")
    /\ UNCHANGED <<desired, applied, registers, frame>>

\* A register write: done, acknowledged but discarded, or failed.
WriteRegister(t, register, value, next) ==
    LET written == [chip EXCEPT ![register] = value] IN
    /\ \/ /\ chip' = written
          /\ Goto(t, next)
          /\ UNCHANGED <<driverVars, frame, faults>>
       \/ /\ SpendFault
          /\ Goto(t, next)
          /\ UNCHANGED <<chip, driverVars, frame>>
       \/ /\ BusError(t)
          /\ chip' \in {chip, written}
    /\ UNCHANGED <<saveVars, owner, stage, historyVars, commands, reboots>>

WriteOutput(t) ==
    /\ pc[t] = "writeOutput"
    /\ WriteRegister(t, "output", frame[t].mask, "readConfig")

WriteConfig(t) ==
    /\ pc[t] = "writeConfig"
    /\ WriteRegister(t, "config", {}, "readConfig")

\* POLARITY concerns input pins only: all that matters is whether it failed.
WritePolarity(t) ==
    /\ pc[t] = "writePolarity"
    /\ \/ Goto(t, "writeConfig") /\ UNCHANGED <<driverVars, frame, faults>>
       \/ BusError(t)
    /\ UNCHANGED <<chip, saveVars, owner, stage, historyVars, commands, reboots>>

ReadConfig(t) ==
    /\ pc[t] = "readConfig"
    /\ \/ /\ frame' = [frame EXCEPT ![t].config = chip.config]
          /\ disturbed' = FALSE
          /\ Goto(t, "readOutput")
          /\ UNCHANGED <<driverVars, faults>>
       \/ BusError(t) /\ UNCHANGED disturbed
    /\ UNCHANGED <<chip, saveVars, owner, stage, asked, restoreRead, commands, reboots>>

\* Both reads succeeded: the snapshot is published in a critical section.
ReadOutput(t) ==
    /\ pc[t] = "readOutput"
    /\ \/ /\ frame' = [frame EXCEPT ![t].output = chip.output]
          /\ registers' = [output |-> chip.output, config |-> frame[t].config]
          /\ registersValid' = TRUE
          /\ Goto(t, "check")
          /\ UNCHANGED <<desired, applied, healthy, faults>>
       \/ BusError(t)
    /\ UNCHANGED <<chip, saveVars, owner, stage, historyVars, commands, reboots>>

\* Slip: only the pin directions are verified, not the latch.
DirectionMismatch(f) == f.phase = "recover" /\ f.config # {}

\* The latch must hold the mask, and after a recovery the pins must be outputs.
Mismatch(f) == f.output # f.mask \/ (f.phase = "recover" /\ f.config # {})

VerifyFailed(t) ==
    /\ pc[t] = "check"
    /\ Mismatch(frame[t])
    /\ healthy' = FALSE
    /\ Goto(t, "finish")
    /\ UNCHANGED <<chip, desired, applied, registers, registersValid, saveVars, owner, frame, stage,
                   historyVars, boundVars>>

EnterRecovery(t) ==
    /\ pc[t] = "check"
    /\ ~Mismatch(frame[t]) /\ frame[t].config # {}
    /\ healthy' = FALSE
    /\ frame' = [frame EXCEPT ![t].phase = "recover"]
    /\ Goto(t, "writePolarity")
    /\ UNCHANGED <<chip, desired, applied, registers, registersValid, saveVars, owner, stage,
                   historyVars, boundVars>>

Commit(t) ==
    /\ pc[t] = "check"
    /\ ~Mismatch(frame[t]) /\ frame[t].config = {}
    /\ applied' = frame[t].mask
    /\ healthy' = TRUE
    /\ frame' = [frame EXCEPT ![t].outcome =
                    IF applied # frame[t].mask THEN "changed" ELSE "unchanged"]
    /\ Goto(t, "finish")
    /\ UNCHANGED <<chip, desired, registers, registersValid, saveVars, owner, stage, historyVars, boundVars>>

\* The last statements of relay_mask_write_locked, still under the mutex: a
\* change of the verified mask restarts the save delay.  now_us of a health
\* task that is past its sample is then older than the change.
MarkChanged(t) ==
    IF frame[t].outcome = "changed" /\ RestoreRelayState
    THEN /\ dirty' = TRUE
         /\ settled' = FALSE
         /\ revision' = revision + 1
         /\ eligible' = FALSE
    ELSE UNCHANGED <<dirty, settled, revision, eligible>>

-----------------------------------------------------------------------------
(* board_io_relay_set and the health pass of input_and_health_task         *)

CommandMask(i, active) == IF active THEN desired \cup {i} ELSE desired \ {i}

\* The command is published before the mutex is waited for.
RelaySet(t, i, active) ==
    /\ stage = "running"
    /\ pc[t] = "idle" /\ commands < MaxCommands
    /\ commands' = commands + 1
    /\ asked' = IF active THEN asked \cup {i} ELSE asked \ {i}
    /\ desired' = CommandMask(i, active)
    /\ Goto(t, "take")
    /\ UNCHANGED <<chip, applied, healthy, registers, registersValid, saveVars, owner, frame, stage,
                   disturbed, restoreRead, faults, reboots>>

\* Slip: the health pass rewrites what was verified last.
MaskVerifiedLast(t) == IF t = HealthTask THEN applied ELSE desired

\* Having waited, a task applies the mask that is desired now.
MaskToApply(t) == desired

TakeMutex(t) ==
    /\ pc[t] = "take" /\ owner = NoTask
    /\ owner' = t
    /\ frame' = [frame EXCEPT ![t] = NewFrame(MaskToApply(t))]
    /\ Goto(t, "writeOutput")
    /\ UNCHANGED <<chip, driverVars, saveVars, stage, historyVars, boundVars>>

\* 250 ms passed while another task was at the expander.
RelaySetTimeout(t) ==
    /\ t \in Callers /\ pc[t] = "take" /\ owner # NoTask
    /\ healthy' = FALSE
    /\ registersValid' = FALSE
    /\ Goto(t, "idle")
    /\ UNCHANGED <<chip, desired, applied, registers, saveVars, owner, frame, stage,
                   historyVars, boundVars>>

\* End of relay_mask_write_locked and release of the mutex.
Finish(t) ==
    /\ t # InitTask
    /\ pc[t] = "finish"
    /\ MarkChanged(t)
    /\ owner' = NoTask
    /\ frame' = [frame EXCEPT ![t] = NewFrame({})]
    /\ Goto(t, IF t = HealthTask THEN "saveCheck" ELSE "idle")
    /\ UNCHANGED <<chip, driverVars, save, nvs, stage, historyVars, boundVars>>

\* One iteration of the loop samples now_us; once a second it also applies
\* the desired mask again.
HealthLoop(due) ==
    /\ stage = "running" /\ pc[HealthTask] = "idle"
    /\ eligible' = settled
    /\ Goto(HealthTask, IF due THEN "take" ELSE "saveCheck")
    /\ UNCHANGED <<chip, driverVars, dirty, settled, revision, save, nvs, owner, frame, stage,
                   historyVars, boundVars>>

HealthPassSkipped ==
    /\ pc[HealthTask] = "take" /\ owner # NoTask
    /\ Goto(HealthTask, "saveCheck")
    /\ UNCHANGED <<chip, driverVars, saveVars, owner, frame, stage, historyVars, boundVars>>

-----------------------------------------------------------------------------
(* The delayed save of the health task                                     *)

SaveDue == RestoreRelayState /\ owner = NoTask /\ dirty /\ eligible

\* The mutex is taken and given back around reading what to save.
BeginSave ==
    /\ pc[HealthTask] = "saveCheck" /\ SaveDue
    /\ save' = [state |-> applied, revision |-> revision, result |-> "none"]
    /\ eligible' = FALSE
    /\ Goto(HealthTask, "nvsWrite")
    /\ UNCHANGED <<chip, driverVars, dirty, settled, revision, nvs, owner, frame, stage,
                   historyVars, boundVars>>

\* Nothing to save yet, restore disabled, or the mutex not had in 100 ms.
NoSave ==
    /\ pc[HealthTask] = "saveCheck" /\ ~SaveDue
    /\ eligible' = FALSE
    /\ Goto(HealthTask, "idle")
    /\ UNCHANGED <<chip, driverVars, dirty, settled, revision, save, nvs, owner, frame, stage,
                   historyVars, boundVars>>

\* config_store_relay_state_set, outside the mutex: a failed commit may have
\* stored the value all the same.
NvsWrite ==
    /\ pc[HealthTask] = "nvsWrite"
    /\ \/ /\ nvs' = save.state
          /\ save' = [save EXCEPT !.result = "ok"]
          /\ UNCHANGED faults
       \/ /\ SpendFault
          /\ nvs' \in {nvs, save.state}
          /\ save' = [save EXCEPT !.result = "failed"]
    /\ Goto(HealthTask, "saveDone")
    /\ UNCHANGED <<chip, driverVars, dirty, settled, revision, eligible, owner, frame, stage,
                   historyVars, commands, reboots>>

\* Slip: a change during the write goes unnoticed.
SavedAssumedCurrent == TRUE

\* What was written is still what is applied.
SavedIsCurrent == save.revision = revision /\ save.state = applied

\* Slip: a failed write counts as a save.
KeepDirtyIfChanged == ~SavedIsCurrent

KeepDirty == save.result = "failed" \/ ~SavedIsCurrent

\* The mutex again.  A success clears dirty only when nothing changed during
\* the write; a failure restarts the delay; a mutex timeout leaves both.
SaveDone ==
    /\ pc[HealthTask] = "saveDone"
    /\ \/ /\ owner = NoTask
          /\ dirty' = (dirty /\ KeepDirty)
          /\ settled' = (settled /\ save.result # "failed")
       \/ owner # NoTask /\ UNCHANGED <<dirty, settled>>
    /\ save' = NewSave
    /\ Goto(HealthTask, "idle")
    /\ UNCHANGED <<chip, driverVars, revision, eligible, nvs, owner, frame, stage,
                   historyVars, boundVars>>

-----------------------------------------------------------------------------
(* board_io_init, which runs before any other task of the driver exists    *)

InitVerified == frame[InitTask].outcome # "failed"

\* relay_mask_write_locked returned to board_io_init.
InitFinish ==
    /\ pc[InitTask] = "finish"
    /\ MarkChanged(InitTask)
    /\ frame' = [frame EXCEPT ![InitTask] = NewFrame({})]
    /\ IF InitVerified
       THEN IF stage = "off"
            THEN Goto(InitTask, "initPolarity") /\ UNCHANGED <<owner, stage>>
            ELSE /\ Goto(InitTask, "idle")
                 /\ owner' = NoTask
                 /\ stage' = "running"
       ELSE Goto(InitTask, "failed") /\ UNCHANGED <<owner, stage>>
    /\ UNCHANGED <<chip, driverVars, save, nvs, historyVars, boundVars>>

InitPolarityFailed ==
    /\ pc[InitTask] = "initPolarity"
    /\ SpendFault
    /\ healthy' = FALSE
    /\ registersValid' = FALSE
    /\ Goto(InitTask, "failed")
    /\ UNCHANGED <<chip, desired, applied, registers, saveVars, owner, frame, stage, historyVars,
                   commands, reboots>>

InitWithoutRestore ==
    /\ pc[InitTask] = "initPolarity"
    /\ Goto(InitTask, "idle")
    /\ owner' = NoTask
    /\ stage' = "running"
    /\ UNCHANGED <<chip, driverVars, saveVars, frame, historyVars, boundVars>>

\* config_store_relay_state_get answers 0 for a key it cannot read.
InitRestore ==
    /\ pc[InitTask] = "initPolarity"
    /\ \E restored \in {nvs, {}} :
          /\ \/ restored = nvs /\ restoreRead' = TRUE /\ UNCHANGED faults
             \/ restored = {} /\ restoreRead' = FALSE /\ SpendFault
          /\ desired' = restored
          /\ asked' = restored
          /\ frame' = [frame EXCEPT ![InitTask] = NewFrame(restored)]
    /\ Goto(InitTask, "writeOutput")
    /\ stage' = "restore"
    /\ UNCHANGED <<chip, applied, healthy, registers, registersValid, saveVars, owner, disturbed,
                   commands, reboots>>

\* The polarity is set: the configuration says whether the saved mask is restored.
InitComplete == IF RestoreRelayState THEN InitRestore ELSE InitWithoutRestore

-----------------------------------------------------------------------------
(* The environment                                                         *)

\* Five seconds have passed since the last change.
Settle ==
    /\ dirty /\ ~settled
    /\ settled' = TRUE
    /\ UNCHANGED <<chip, driverVars, dirty, revision, eligible, save, nvs, owner, pc, frame, stage,
                   historyVars, boundVars>>

\* The expander loses its registers on its own: latch FF, pins inputs.
ChipReset ==
    /\ chip # ResetChip
    /\ SpendFault
    /\ chip' = ResetChip
    /\ disturbed' = TRUE
    /\ UNCHANGED <<driverVars, saveVars, owner, pc, frame, stage, asked, restoreRead,
                   commands, reboots>>

\* A restart of the ESP32, with a power loss (the expander resets too) or not.
\* A failed initialization ends in one.
Restart(power) ==
    /\ IF pc[InitTask] = "failed"
       THEN UNCHANGED reboots
       ELSE reboots < MaxReboots /\ reboots' = reboots + 1
    /\ chip' = IF power THEN ResetChip ELSE chip
    /\ desired' = {} /\ applied' = {} /\ healthy' = FALSE
    /\ registers' = [output |-> {}, config |-> {}] /\ registersValid' = FALSE
    /\ dirty' = FALSE /\ settled' = FALSE /\ revision' = 0
    /\ eligible' = FALSE /\ save' = NewSave
    /\ owner' = InitTask
    /\ pc' = [t \in Tasks |-> IF t = InitTask THEN "writeOutput" ELSE "idle"]
    /\ frame' = [t \in Tasks |-> NewFrame({})]
    /\ stage' = "off"
    /\ asked' = {} /\ disturbed' = FALSE /\ restoreRead' = TRUE
    /\ UNCHANGED <<nvs, faults, commands>>

-----------------------------------------------------------------------------
\* The steps of relay_mask_write_locked.
WriteLocked(t) ==
    \/ WriteOutput(t) \/ ReadConfig(t) \/ ReadOutput(t)
    \/ VerifyFailed(t) \/ EnterRecovery(t) \/ Commit(t)
    \/ WritePolarity(t) \/ WriteConfig(t)

\* What a task does once it has been called or woken.
TaskStep(t) == WriteLocked(t) \/ TakeMutex(t) \/ RelaySetTimeout(t) \/ Finish(t)

HealthStep == HealthPassSkipped \/ BeginSave \/ NoSave \/ NvsWrite \/ SaveDone

InitStep == InitFinish \/ InitPolarityFailed \/ InitComplete

Next ==
    \/ \E t \in Callers, i \in Relays, active \in BOOLEAN : RelaySet(t, i, active)
    \/ \E t \in Tasks : TaskStep(t)
    \/ \E due \in BOOLEAN : HealthLoop(due)
    \/ HealthStep
    \/ InitStep
    \/ Settle
    \/ ChipReset
    \/ \E power \in BOOLEAN : Restart(power)

Spec == Init /\ [][Next]_vars

\* Tasks are scheduled, time passes, a failed startup restarts, and the health
\* pass falls due again and again although most iterations of its loop are
\* shorter than its period.
FairSpec ==
    /\ Spec
    /\ \A t \in Tasks : WF_vars(TaskStep(t))
    /\ WF_vars(HealthStep)
    /\ WF_vars(\E due \in BOOLEAN : HealthLoop(due))
    /\ SF_vars(HealthLoop(TRUE))
    /\ WF_vars(InitStep)
    /\ WF_vars(Settle)
    /\ WF_vars(pc[InitTask] = "failed" /\ \E power \in BOOLEAN : Restart(power))

-----------------------------------------------------------------------------
(* Properties                                                              *)

RegisterPair == [output : Masks, config : Masks]

Frame == [mask : Masks, output : Masks, config : Masks,
          phase : {"apply", "recover"}, outcome : {"failed", "unchanged", "changed"}]

Save == [state : Masks, revision : Nat, result : {"none", "ok", "failed"}]

\* Every variable keeps its type: the data and the flags.
DataOK ==
    /\ chip \in RegisterPair
    /\ desired \in Masks /\ applied \in Masks
    /\ registers \in RegisterPair
    /\ revision \in Nat
    /\ save \in Save
    /\ nvs \in Masks
    /\ owner \in Tasks \cup {NoTask}
    /\ pc \in [Tasks -> Labels]
    /\ frame \in [Tasks -> Frame]
    /\ stage \in {"off", "restore", "running"}
    /\ asked \in Masks
    /\ faults \in Nat /\ commands \in Nat /\ reboots \in Nat

FlagsOK ==
    /\ healthy \in BOOLEAN /\ registersValid \in BOOLEAN
    /\ dirty \in BOOLEAN /\ settled \in BOOLEAN /\ eligible \in BOOLEAN
    /\ disturbed \in BOOLEAN /\ restoreRead \in BOOLEAN

TypeOK == DataOK /\ FlagsOK

\* board_io_relay_controller_healthy: what BACnet and the web page report.
ControllerHealthy == healthy /\ desired = applied

\* When no write is under way and the expander has not reset behind the
\* driver's back, a controller reported healthy really drives the commanded
\* mask: latch equal to it and every pin an output.  This must survive every
\* failed, discarded or timed-out write of every task (board_io.c:106-177,
\* 357-365).
HealthyMeansDriven ==
    (ControllerHealthy /\ owner = NoTask /\ ~disturbed) =>
        chip = [output |-> desired, config |-> {}]

\* "Never enable outputs with an unverified latch": whatever a discarded or
\* failed write leaves in the expander, the driver switches on only relays of
\* the mask it is applying, unless the expander reset between the check of its
\* latch and the write of its pin directions (board_io.c:130-155, 302-308).
EnergiseOnlyCommanded ==
    [][Driven' \subseteq Driven \/ disturbed
       \/ (owner \in Tasks /\ (Driven' \ Driven) \subseteq frame[owner].mask)]_vars

\* Startup switches everything off and verifies it before it restores a saved
\* mask, and serves commands only once that mask is verified too
\* (board_io.c:302-325).
StartupOrder ==
    [][/\ (stage = "off" /\ stage' # "off") =>
             disturbed \/ chip = [output |-> {}, config |-> {}]
       /\ (stage = "restore" /\ stage' = "running") =>
             disturbed \/ chip = [output |-> asked, config |-> {}]]_vars

\* Once the driver runs with nothing left to save and no write under way, the
\* flash holds the verified mask: no change that raced a save is forgotten
\* (board_io.c:226-249), provided this boot could read the saved mask.
SavedIsApplied ==
    (RestoreRelayState /\ stage = "running" /\ owner = NoTask /\ ~dirty /\ restoreRead) =>
        nvs = applied

\* When faults, commands and restarts end, the expander comes to drive what the
\* commands asked for and the controller to be healthy, even for a command
\* whose caller gave up waiting for the mutex or whose write failed
\* (docs/RELAY_OUTPUT_RECOVERY.md:12-25).
CommandsApplied ==
    <>[](chip = [output |-> asked, config |-> {}] /\ ControllerHealthy)

\* ... and the flash comes to hold it when restore is enabled.
CommandsSaved == <>[](RestoreRelayState /\ restoreRead => nvs = asked)

\* docs/RELAY_OUTPUT_RECOVERY.md:46-54 promises an "internally consistent"
\* status snapshot in which "healthy" is a successful verification: a snapshot
\* that says healthy shows valid registers that hold the applied mask.
DiagnosticsConsistent ==
    (stage = "running" /\ ControllerHealthy) =>
        registersValid /\ registers = [output |-> applied, config |-> {}]

-----------------------------------------------------------------------------
(* Inductive invariants, used by PriorityCommandProofs                     *)

Holding == {"writeOutput", "readConfig", "readOutput", "check", "writePolarity",
            "writeConfig", "finish", "initPolarity", "failed"}

\* Exactly the holder of the mutex is at the expander.
OwnerInv == \A t \in Tasks : pc[t] \in Holding <=> owner = t

\* What a task has read is still in the expander, unless it reset since.
ReadsInv ==
    \A t \in Tasks : ~disturbed =>
        /\ pc[t] \in {"readOutput", "check"} => chip.config = frame[t].config
        /\ pc[t] = "check" => chip.output = frame[t].output
        /\ pc[t] \in {"writePolarity", "writeConfig"} => chip.output = frame[t].mask

\* Between writes a healthy driver's last verified mask is in the expander.
HealthInv ==
    (healthy /\ ~disturbed
       /\ (owner = NoTask \/ pc[owner] \in {"writeOutput", "finish", "initPolarity", "failed"}))
    => chip.output = applied /\ chip.config = {}

DriverInv == OwnerInv /\ ReadsInv /\ HealthInv

\* The progress of board_io_init up to the mask it restores.
InitInv ==
    LET f == frame[InitTask] IN
    /\ IF stage = "running" THEN pc[InitTask] = "idle" ELSE pc[InitTask] \in Holding
    /\ stage # "running" => ~dirty /\ \A t \in Tasks \ {InitTask} : pc[t] = "idle"
    /\ stage = "off" => applied = {} /\ f.mask = {} /\ f.outcome # "changed"
    /\ pc[InitTask] = "initPolarity" => stage = "off"
    /\ stage = "restore" /\ pc[InitTask] # "failed" =>
          /\ restoreRead => f.mask = nvs
          /\ f.outcome = "failed" => applied = {}
          /\ f.outcome = "unchanged" => f.mask = {}
          /\ f.outcome # "failed" => applied = f.mask

\* What is dirty, being saved, or about to be marked dirty.
SaveInv ==
    /\ \A t \in Tasks : frame[t].outcome # "failed" => pc[t] = "finish"
    /\ pc[HealthTask] \in {"nvsWrite", "saveDone"} => dirty
    /\ (pc[HealthTask] = "saveDone" /\ save.result # "failed") => nvs = save.state
    /\ (RestoreRelayState /\ restoreRead /\ stage = "running" /\ ~dirty
          /\ \A t \in Tasks : frame[t].outcome # "changed")
       => nvs = applied
=============================================================================
