------------------------- MODULE PriorityCommandProofs -------------------------
(***************************************************************************)
(* Proofs about RelayDriver, for any set of relays, any set of calling     *)
(* tasks, restore enabled or not and any bound on commands, faults and     *)
(* restarts; and about PriorityCommand: clients use the relay driver as    *)
(* RelayDriver specifies, so what is proved of it holds of their commands, *)
(* and a stale running flag lets one HTTP command through at most.         *)
(***************************************************************************)
EXTENDS PriorityCommand, RelayDriverOutput, TLAPS

\* A step of Next, one task at a time.
LEMMA StepCases ==
    ASSUME [Next]_vars
    PROVE  \/ \E t \in Callers, i \in Relays, active \in BOOLEAN : RelaySet(t, i, active)
           \/ \E t \in Tasks : WriteLocked(t)
           \/ \E t \in Tasks : TakeMutex(t) \/ RelaySetTimeout(t) \/ Finish(t)
           \/ \E due \in BOOLEAN : HealthLoop(due)
           \/ HealthStep \/ InitStep \/ Settle \/ ChipReset
           \/ \E power \in BOOLEAN : Restart(power)
           \/ UNCHANGED vars
  BY DEF Next, TaskStep

-----------------------------------------------------------------------------
(* Type correctness                                                        *)

\* The frame a task starts a write with is a frame.
LEMMA NewFrameType ==
    ASSUME NEW mask \in Masks
    PROVE  NewFrame(mask) \in Frame
  BY DEF NewFrame, Frame, Masks

\* The health task starts without a save under way.
LEMMA NewSaveType == NewSave \in Save
  BY DEF NewSave, Save, Masks

\* A device that is switched on has data of the right types.
LEMMA InitData == Init => DataOK
  <1> SUFFICES ASSUME Init PROVE DataOK
    OBVIOUS
  <1>1. NewFrame({}) \in Frame
    BY NewFrameType DEF Masks
  <1>2. chip \in RegisterPair /\ registers \in RegisterPair
    BY DEF Init, ResetChip, RegisterPair, Masks
  <1>3. pc \in [Tasks -> Labels] /\ frame \in [Tasks -> Frame]
    BY <1>1 DEF Init, Labels
  <1> QED
    BY <1>2, <1>3, NewSaveType DEF Init, DataOK, Masks, Tasks

\* The steps of relay_mask_write_locked.
LEMMA WriteLockedData ==
    ASSUME DataOK, NEW t \in Tasks, WriteLocked(t)
    PROVE  DataOK'
  <1> USE DEF DataOK, Masks, Labels, Goto, driverVars, saveVars, historyVars, boundVars
  <1>1. CASE WriteOutput(t)
    <2>1. frame[t].mask \in Masks
      BY DEF Frame
    <2>2. [chip EXCEPT !["output"] = frame[t].mask] \in RegisterPair
      BY <2>1 DEF RegisterPair
    <2> QED
      BY <1>1, <2>2 DEF WriteOutput, WriteRegister, BusError, SpendFault
  <1>2. CASE WriteConfig(t)
    <2>1. [chip EXCEPT !["config"] = {}] \in RegisterPair
      BY DEF RegisterPair
    <2> QED
      BY <1>2, <2>1 DEF WriteConfig, WriteRegister, BusError, SpendFault
  <1>3. CASE ReadConfig(t)
    <2>1. [frame EXCEPT ![t].config = chip.config] \in [Tasks -> Frame]
      BY DEF Frame, RegisterPair
    <2> QED
      BY <1>3, <2>1 DEF ReadConfig, BusError, SpendFault
  <1>4. CASE ReadOutput(t)
    <2>1. [frame EXCEPT ![t].output = chip.output] \in [Tasks -> Frame]
      BY DEF Frame, RegisterPair
    <2>2. [output |-> chip.output, config |-> frame[t].config] \in RegisterPair
      BY DEF Frame, RegisterPair
    <2> QED
      BY <1>4, <2>1, <2>2 DEF ReadOutput, BusError, SpendFault
  <1>5. CASE VerifyFailed(t)
    BY <1>5 DEF VerifyFailed
  <1>6. CASE EnterRecovery(t)
    <2>1. [frame EXCEPT ![t].phase = "recover"] \in [Tasks -> Frame]
      BY DEF Frame
    <2> QED
      BY <1>6, <2>1 DEF EnterRecovery
  <1>7. CASE Commit(t)
    <2>1. ASSUME NEW o \in {"unchanged", "changed"}
          PROVE  [frame EXCEPT ![t].outcome = o] \in [Tasks -> Frame]
      BY DEF Frame
    <2>2. frame[t].mask \in Masks
      BY DEF Frame
    <2> QED
      BY <1>7, <2>1, <2>2 DEF Commit
  <1>8. CASE WritePolarity(t)
    BY <1>8 DEF WritePolarity, BusError, SpendFault
  <1> QED
    BY <1>1, <1>2, <1>3, <1>4, <1>5, <1>6, <1>7, <1>8 DEF WriteLocked

\* Every step keeps the types of the data.
LEMMA NextData == DataOK /\ [Next]_vars => DataOK'
  <1> SUFFICES ASSUME DataOK, [Next]_vars PROVE DataOK'
    OBVIOUS
  <1> USE DEF DataOK, Masks, Labels, Goto, driverVars, saveVars, historyVars, boundVars
  <1>1. ASSUME NEW t \in Callers, NEW i \in Relays, NEW active \in BOOLEAN,
               RelaySet(t, i, active)
        PROVE  DataOK'
    BY <1>1 DEF RelaySet, CommandMask, Tasks
  <1>2. ASSUME NEW t \in Tasks, WriteLocked(t) PROVE DataOK'
    BY <1>2, WriteLockedData
  <1>3. ASSUME NEW t \in Tasks, TakeMutex(t) PROVE DataOK'
    BY <1>3, NewFrameType DEF TakeMutex, MaskToApply, Tasks
  <1>4. ASSUME NEW t \in Tasks, RelaySetTimeout(t) PROVE DataOK'
    BY <1>4 DEF RelaySetTimeout
  <1>5. ASSUME NEW t \in Tasks, Finish(t) PROVE DataOK'
    BY <1>5, NewFrameType DEF Finish, MarkChanged
  <1>6. ASSUME NEW due \in BOOLEAN, HealthLoop(due) PROVE DataOK'
    BY <1>6 DEF HealthLoop, Tasks
  <1>7. ASSUME HealthStep PROVE DataOK'
    <2>1. CASE HealthPassSkipped
      BY <2>1 DEF HealthPassSkipped, Tasks
    <2>2. CASE BeginSave
      BY <2>2 DEF BeginSave, Tasks, Save
    <2>3. CASE NoSave
      BY <2>3 DEF NoSave, Tasks
    <2>4. CASE NvsWrite
      BY <2>4 DEF NvsWrite, SpendFault, Tasks, Save
    <2>5. CASE SaveDone
      BY <2>5, NewSaveType DEF SaveDone, Tasks
    <2> QED
      BY <1>7, <2>1, <2>2, <2>3, <2>4, <2>5 DEF HealthStep
  <1>8. ASSUME InitStep PROVE DataOK'
    <2>1. CASE InitFinish
      BY <2>1, NewFrameType DEF InitFinish, MarkChanged, Tasks
    <2>2. CASE InitPolarityFailed
      BY <2>2 DEF InitPolarityFailed, SpendFault, Tasks
    <2>3. CASE InitWithoutRestore
      BY <2>3 DEF InitWithoutRestore, Tasks
    <2>4. CASE InitRestore
      BY <2>4, NewFrameType DEF InitRestore, SpendFault, Tasks
    <2> QED
      BY <1>8, <2>1, <2>2, <2>3, <2>4 DEF InitStep, InitComplete
  <1>9. ASSUME Settle \/ ChipReset PROVE DataOK'
    BY <1>9 DEF Settle, ChipReset, SpendFault, ResetChip, RegisterPair
  <1>10. ASSUME NEW power \in BOOLEAN, Restart(power) PROVE DataOK'
    BY <1>10, NewFrameType, NewSaveType DEF Restart, ResetChip, RegisterPair, Tasks
  <1>11. CASE UNCHANGED vars
    BY <1>11 DEF vars
  <1> QED
    BY <1>1, <1>2, <1>3, <1>4, <1>5, <1>6, <1>7, <1>8, <1>9, <1>10, <1>11, StepCases

\* Flags are set to TRUE or FALSE, copied, or cleared by a conjunction.
LEMMA NextFlags == FlagsOK /\ [Next]_vars => FlagsOK'
  <1> SUFFICES ASSUME FlagsOK, [Next]_vars PROVE FlagsOK'
    OBVIOUS
  <1> USE DEF FlagsOK, driverVars, saveVars, historyVars, boundVars
  <1>1. ASSUME NEW t \in Callers, NEW i \in Relays, NEW active \in BOOLEAN,
               RelaySet(t, i, active)
        PROVE  FlagsOK'
    BY <1>1, Zenon DEF RelaySet
  <1>2. ASSUME NEW t \in Tasks, WriteLocked(t) PROVE FlagsOK'
    <2>1. CASE WriteOutput(t)
      BY <2>1, Zenon DEF WriteOutput, WriteRegister, BusError
    <2>2. CASE WriteConfig(t)
      BY <2>2, Zenon DEF WriteConfig, WriteRegister, BusError
    <2>3. CASE ReadConfig(t)
      BY <2>3, Zenon DEF ReadConfig, BusError
    <2>4. CASE ReadOutput(t)
      BY <2>4, Zenon DEF ReadOutput, BusError
    <2>5. CASE VerifyFailed(t)
      BY <2>5, Zenon DEF VerifyFailed
    <2>6. CASE EnterRecovery(t)
      BY <2>6, Zenon DEF EnterRecovery
    <2>7. CASE Commit(t)
      BY <2>7, Zenon DEF Commit
    <2>8. CASE WritePolarity(t)
      BY <2>8, Zenon DEF WritePolarity, BusError
    <2> QED
      BY <1>2, <2>1, <2>2, <2>3, <2>4, <2>5, <2>6, <2>7, <2>8, Zenon DEF WriteLocked
  <1>3. ASSUME NEW t \in Tasks, TakeMutex(t) \/ RelaySetTimeout(t) PROVE FlagsOK'
    BY <1>3, Zenon DEF TakeMutex, RelaySetTimeout
  <1>4. ASSUME NEW t \in Tasks, Finish(t) PROVE FlagsOK'
    BY <1>4, Zenon DEF Finish, MarkChanged
  <1>5. ASSUME NEW due \in BOOLEAN, HealthLoop(due) PROVE FlagsOK'
    BY <1>5, Zenon DEF HealthLoop
  <1>6. ASSUME HealthStep PROVE FlagsOK'
    <2>1. CASE HealthPassSkipped \/ BeginSave \/ NoSave
      BY <2>1, Zenon DEF HealthPassSkipped, BeginSave, NoSave
    <2>2. CASE NvsWrite
      BY <2>2, Zenon DEF NvsWrite
    <2>3. CASE SaveDone
      <3>1. (dirty /\ KeepDirty) \in BOOLEAN /\ (settled /\ save.result # "failed") \in BOOLEAN
        BY Zenon
      <3> QED
        BY <2>3, <3>1, Zenon DEF SaveDone
    <2> QED
      BY <1>6, <2>1, <2>2, <2>3, Zenon DEF HealthStep
  <1>7. ASSUME InitStep PROVE FlagsOK'
    <2>1. CASE InitFinish
      BY <2>1, Zenon DEF InitFinish, MarkChanged
    <2>2. CASE InitPolarityFailed \/ InitWithoutRestore
      BY <2>2, Zenon DEF InitPolarityFailed, InitWithoutRestore
    <2>3. CASE InitRestore
      BY <2>3, Zenon DEF InitRestore
    <2> QED
      BY <1>7, <2>1, <2>2, <2>3, Zenon DEF InitStep, InitComplete
  <1>8. ASSUME Settle \/ ChipReset PROVE FlagsOK'
    BY <1>8, Zenon DEF Settle, ChipReset
  <1>9. ASSUME NEW power \in BOOLEAN, Restart(power) PROVE FlagsOK'
    BY <1>9, Zenon DEF Restart
  <1>10. CASE UNCHANGED vars
    BY <1>10, Zenon DEF vars
  <1> QED
    BY <1>1, <1>2, <1>3, <1>4, <1>5, <1>6, <1>7, <1>8, <1>9, <1>10, StepCases, Zenon

\* Every variable of the driver keeps its type, whatever the numbers of relays,
\* callers, commands, faults and restarts.
THEOREM TypeCorrect == Spec => []TypeOK
  <1>1. Init => TypeOK
    BY InitData, Zenon DEF Init, TypeOK, FlagsOK
  <1>2. TypeOK /\ [Next]_vars => TypeOK'
    BY NextData, NextFlags, Zenon DEF TypeOK
  <1> QED
    BY <1>1, <1>2, PTL DEF Spec

-----------------------------------------------------------------------------
(* The mutex, what a write has read, and what health means                 *)

\* Nobody has read anything yet and the driver is not healthy.
LEMMA InitDriver == Init => DriverInv
  BY TasksAssumption, Zenon
  DEF Init, DriverInv, OwnerInv, ReadsInv, HealthInv, Holding, Tasks

\* No task but the holder of the mutex is at the expander: a step inside
\* relay_mask_write_locked moves the holder and touches nobody else's frame.
LEMMA WriteLockedDriver ==
    ASSUME DataOK, DriverInv, NEW t \in Tasks, WriteLocked(t)
    PROVE  DriverInv'
  <1> USE DEF DataOK, Goto, driverVars, saveVars, historyVars, boundVars, Holding
  <1>0. /\ owner = t
        /\ \A u \in Tasks \ {t} : pc[u] \notin Holding
        /\ owner' = owner
        /\ \A u \in Tasks \ {t} : pc'[u] = pc[u]
        /\ \E l \in Holding : pc' = [pc EXCEPT ![t] = l]
    BY DEF WriteLocked, WriteOutput, WriteConfig, WriteRegister, BusError, ReadConfig,
           ReadOutput, VerifyFailed, EnterRecovery, Commit, WritePolarity, DriverInv, OwnerInv
  <1>1. OwnerInv'
    BY <1>0 DEF DriverInv, OwnerInv
  <1>2. owner' # NoTask
    BY <1>0, TasksAssumption DEF Tasks
  <1>3. \A u \in Tasks \ {t} : pc'[u] \notin Holding
    BY <1>0
  <1>4. ReadsInv'
    <2>1. CASE WriteOutput(t)
      BY <1>0, <1>3, <2>1 DEF WriteOutput, WriteRegister, BusError, DriverInv, ReadsInv
    <2>2. CASE WriteConfig(t)
      BY <1>0, <1>3, <2>2 DEF WriteConfig, WriteRegister, BusError, DriverInv, ReadsInv
    <2>3. CASE ReadConfig(t)
      BY <1>0, <1>3, <2>3 DEF ReadConfig, BusError, DriverInv, ReadsInv, Frame
    <2>4. CASE ReadOutput(t)
      BY <1>0, <1>3, <2>4 DEF ReadOutput, BusError, DriverInv, ReadsInv, Frame
    <2>5. CASE VerifyFailed(t)
      BY <1>0, <1>3, <2>5 DEF VerifyFailed, DriverInv, ReadsInv
    <2>6. CASE EnterRecovery(t)
      BY <1>0, <1>3, <2>6 DEF EnterRecovery, Mismatch, DriverInv, ReadsInv, Frame
    <2>7. CASE Commit(t)
      BY <1>0, <1>3, <2>7 DEF Commit, DriverInv, ReadsInv, Frame
    <2>8. CASE WritePolarity(t)
      BY <1>0, <1>3, <2>8 DEF WritePolarity, BusError, DriverInv, ReadsInv
    <2> QED
      BY <2>1, <2>2, <2>3, <2>4, <2>5, <2>6, <2>7, <2>8 DEF WriteLocked
  <1>5. HealthInv'
    <2>1. CASE Commit(t)
      BY <1>0, <2>1 DEF Commit, Mismatch, DriverInv, ReadsInv, HealthInv, Frame
    <2>2. CASE BusError(t) \/ VerifyFailed(t)
      BY <2>2 DEF BusError, VerifyFailed, HealthInv
    <2>3. CASE ~Commit(t) /\ ~BusError(t) /\ ~VerifyFailed(t)
      <3>1. pc'[t] \in {"readConfig", "readOutput", "check", "writePolarity", "writeConfig"}
        BY <2>3 DEF WriteLocked, WriteOutput, WriteConfig, WriteRegister, ReadConfig,
                    ReadOutput, EnterRecovery, WritePolarity
      <3> QED
        BY <1>0, <1>2, <3>1 DEF HealthInv
    <2> QED
      BY <2>1, <2>2, <2>3
  <1> QED
    BY <1>1, <1>4, <1>5 DEF DriverInv

\* Every step keeps the three facts.
LEMMA DriverNext == DataOK /\ DriverInv /\ [Next]_vars => DriverInv'
  <1> SUFFICES ASSUME DataOK, DriverInv, [Next]_vars PROVE DriverInv'
    OBVIOUS
  <1> USE DEF DataOK, Goto, driverVars, saveVars, historyVars, boundVars, Holding, Labels,
              DriverInv, OwnerInv, ReadsInv, HealthInv
  <1>1. ASSUME NEW t \in Callers, NEW i \in Relays, NEW active \in BOOLEAN,
               RelaySet(t, i, active)
        PROVE  DriverInv'
    BY <1>1 DEF RelaySet, Tasks
  <1>2. ASSUME NEW t \in Tasks, WriteLocked(t) PROVE DriverInv'
    BY <1>2, WriteLockedDriver
  <1>3. ASSUME NEW t \in Tasks, TakeMutex(t) PROVE DriverInv'
    BY <1>3, TasksAssumption DEF TakeMutex, Tasks
  <1>4. ASSUME NEW t \in Tasks, RelaySetTimeout(t) PROVE DriverInv'
    BY <1>4 DEF RelaySetTimeout
  <1>5. ASSUME NEW t \in Tasks, Finish(t) PROVE DriverInv'
    BY <1>5, TasksAssumption DEF Finish, Tasks
  <1>6. ASSUME NEW due \in BOOLEAN, HealthLoop(due) PROVE DriverInv'
    BY <1>6 DEF HealthLoop, Tasks
  <1>7. ASSUME HealthStep PROVE DriverInv'
    BY <1>7 DEF HealthStep, HealthPassSkipped, BeginSave, NoSave, NvsWrite, SaveDone, Tasks
  <1>8. ASSUME InitStep PROVE DriverInv'
    <2>1. CASE InitFinish
      BY <2>1, TasksAssumption DEF InitFinish, Tasks
    <2>2. CASE InitPolarityFailed
      BY <2>2 DEF InitPolarityFailed, Tasks
    <2>3. CASE InitWithoutRestore
      BY <2>3, TasksAssumption DEF InitWithoutRestore, Tasks
    <2>4. CASE InitRestore
      BY <2>4 DEF InitRestore, Tasks
    <2> QED
      BY <1>8, <2>1, <2>2, <2>3, <2>4 DEF InitStep, InitComplete
  <1>9. ASSUME Settle \/ ChipReset PROVE DriverInv'
    BY <1>9 DEF Settle, ChipReset
  <1>10. ASSUME NEW power \in BOOLEAN, Restart(power) PROVE DriverInv'
    BY <1>10, TasksAssumption DEF Restart, Tasks
  <1>11. CASE UNCHANGED vars
    BY <1>11 DEF vars
  <1> QED
    BY <1>1, <1>2, <1>3, <1>4, <1>5, <1>6, <1>7, <1>8, <1>9, <1>10, <1>11, StepCases

\* Types and the three facts hold in every reachable state.
LEMMA DriverInvariant == Spec => [](DataOK /\ DriverInv)
  <1>1. Init => DataOK /\ DriverInv
    BY InitData, InitDriver
  <1>2. (DataOK /\ DriverInv) /\ [Next]_vars => (DataOK /\ DriverInv)'
    BY NextData, DriverNext
  <1> QED
    BY <1>1, <1>2, PTL DEF Spec

\* A controller reported healthy drives the commanded mask, in every reachable
\* state without a write under way or an expander reset behind the driver's back.
THEOREM HealthyMeansDrivenCorrect == Spec => []HealthyMeansDriven
  <1>1. DataOK /\ DriverInv => HealthyMeansDriven
    BY DEF DataOK, DriverInv, HealthInv, HealthyMeansDriven, ControllerHealthy, RegisterPair
  <1> QED
    BY <1>1, DriverInvariant, PTL

\* The driver energises only relays of the mask it is applying.
THEOREM EnergiseOnlyCommandedCorrect == Spec => EnergiseOnlyCommanded
  <1> DEFINE Energise == Driven' \subseteq Driven \/ disturbed
                \/ (owner \in Tasks /\ (Driven' \ Driven) \subseteq frame[owner].mask)
  <1>1. DataOK /\ DriverInv /\ [Next]_vars => [Energise]_vars
    <2> SUFFICES ASSUME DataOK, DriverInv, [Next]_vars, chip' # chip, ~disturbed
                 PROVE  Energise
      BY DEF Driven
    <2>1. ASSUME NEW t \in Tasks, WriteOutput(t) PROVE Energise
      <3>1. owner = t
        BY <2>1 DEF WriteOutput, DriverInv, OwnerInv, Holding
      <3>2. chip' = [chip EXCEPT !["output"] = frame[t].mask]
        BY <2>1 DEF WriteOutput, WriteRegister, BusError
      <3> QED
        BY <3>1, <3>2 DEF DataOK, RegisterPair, Driven
    <2>2. ASSUME NEW t \in Tasks, WriteConfig(t) PROVE Energise
      <3>1. owner = t /\ chip.output = frame[t].mask
        BY <2>2 DEF WriteConfig, DriverInv, OwnerInv, ReadsInv, Holding
      <3>2. chip' = [chip EXCEPT !["config"] = {}]
        BY <2>2 DEF WriteConfig, WriteRegister, BusError
      <3> QED
        BY <3>1, <3>2 DEF DataOK, RegisterPair, Driven
    <2>3. ASSUME chip' = ResetChip PROVE Energise
      BY <2>3 DEF ResetChip, Driven
    <2>4. \/ \E t \in Tasks : WriteOutput(t) \/ WriteConfig(t)
          \/ chip' = ResetChip
      <3> USE DEF WriteLocked, ReadConfig, ReadOutput, VerifyFailed, EnterRecovery, Commit,
              WritePolarity, RelaySet, TakeMutex, RelaySetTimeout, Finish, HealthLoop,
              HealthStep, HealthPassSkipped, BeginSave, NoSave, NvsWrite, SaveDone, InitStep, InitComplete,
              InitFinish, InitPolarityFailed, InitWithoutRestore, InitRestore, Settle,
              ChipReset, Restart, vars
      <3> QED
        BY StepCases
    <2> QED
      BY <2>1, <2>2, <2>3, <2>4
  <1> QED
    BY <1>1, DriverInvariant, PTL DEF Spec, EnergiseOnlyCommanded

-----------------------------------------------------------------------------
(* Startup and the delayed save                                            *)

SavingInv == DriverInv /\ InitInv /\ SaveInv

\* Nothing is dirty or being saved when startup begins.
LEMMA InitSaving == Init => SavingInv
  <1> SUFFICES ASSUME Init PROVE SavingInv
    OBVIOUS
  <1>1. InitInv
    BY TasksAssumption DEF Init, InitInv, NewFrame, Tasks, Holding
  <1>2. SaveInv
    BY TasksAssumption DEF Init, SaveInv, NewFrame, NewSave, Tasks
  <1> QED
    BY <1>1, <1>2, InitDriver DEF SavingInv

\* A step inside relay_mask_write_locked: only Commit touches what is verified,
\* and it leaves the change in the frame for the caller to mark.
LEMMA WriteLockedSaving ==
    ASSUME DataOK, SavingInv, NEW t \in Tasks, WriteLocked(t), DriverInv'
    PROVE  SavingInv'
  <1> USE DEF DataOK, Goto, driverVars, saveVars, historyVars, boundVars
  <1>0. /\ owner = t
        /\ \A u \in Tasks \ {t} : pc[u] \notin Holding
        /\ pc[t] \in Holding \ {"finish", "failed", "initPolarity"}
        /\ frame[t].outcome = "failed"
        /\ \E l \in Holding \ {"failed", "initPolarity"} : pc' = [pc EXCEPT ![t] = l]
        /\ UNCHANGED <<saveVars, owner, stage, restoreRead>>
        /\ \A u \in Tasks \ {t} : frame'[u] = frame[u]
        /\ frame'[t].mask = frame[t].mask
    BY DEF WriteLocked, WriteOutput, WriteConfig, WriteRegister, BusError, ReadConfig, Frame,
           ReadOutput, VerifyFailed, EnterRecovery, Commit, WritePolarity, SavingInv, SaveInv,
           DriverInv, OwnerInv, Holding
  <1>1. \/ /\ pc'[t] = "finish" /\ applied' = frame[t].mask
           /\ frame'[t].outcome = IF applied = applied' THEN "unchanged" ELSE "changed"
        \/ applied' = applied /\ frame'[t].outcome = "failed"
    BY <1>0
    DEF WriteLocked, WriteOutput, WriteConfig, WriteRegister, BusError, ReadConfig, Frame,
        ReadOutput, VerifyFailed, EnterRecovery, Commit, WritePolarity
  <1>2. InitInv'
    <2>1. CASE t = InitTask
      BY <1>0, <1>1, <2>1 DEF SavingInv, InitInv, Holding
    <2>2. CASE t # InitTask
      BY <1>0, <1>1, <2>2 DEF SavingInv, InitInv, Holding, Tasks
    <2> QED
      BY <2>1, <2>2
  <1>3. SaveInv'
    <2>1. \A u \in Tasks : frame'[u].outcome # "failed" => pc'[u] = "finish"
      BY <1>0, <1>1 DEF SavingInv, SaveInv
    <2>2. HealthTask \in Tasks
      BY DEF Tasks
    <2>3. pc'[HealthTask] \in {"nvsWrite", "saveDone"} => pc'[HealthTask] = pc[HealthTask]
      BY <1>0, <2>2 DEF Holding
    <2>4. (\A u \in Tasks : frame'[u].outcome # "changed")
             => applied' = applied /\ \A u \in Tasks : frame[u].outcome # "changed"
      BY <1>0, <1>1
    <2> QED
      BY <1>0, <2>1, <2>3, <2>4 DEF SavingInv, SaveInv
  <1> QED
    BY <1>2, <1>3 DEF SavingInv

\* Every step keeps the progress of startup and of the saves.
LEMMA SavingStep == DataOK /\ SavingInv /\ [Next]_vars => SavingInv'
  <1> SUFFICES ASSUME DataOK, SavingInv, [Next]_vars PROVE SavingInv'
    OBVIOUS
  <1>0. DriverInv' /\ DataOK'
    BY DriverNext, NextData DEF SavingInv
  <1> USE DEF DataOK, Goto, driverVars, saveVars, historyVars, boundVars, Labels, Frame,
              InitInv, SaveInv
  <1>1. ASSUME NEW t \in Callers, NEW i \in Relays, NEW active \in BOOLEAN,
               RelaySet(t, i, active)
        PROVE  SavingInv'
    BY <1>0, <1>1, TasksAssumption DEF RelaySet, Tasks, SavingInv
  <1>2. ASSUME NEW t \in Tasks, WriteLocked(t) PROVE SavingInv'
    BY <1>0, <1>2, WriteLockedSaving
  <1>3. ASSUME NEW t \in Tasks, TakeMutex(t) PROVE SavingInv'
    <2>1. pc[InitTask] # "take" /\ stage = "running"
      BY <1>3, TasksAssumption DEF TakeMutex, Tasks, SavingInv, DriverInv, OwnerInv, Holding
    <2> QED
      BY <1>0, <1>3, <2>1, TasksAssumption DEF TakeMutex, NewFrame, Tasks, SavingInv
  <1>4. ASSUME NEW t \in Tasks, RelaySetTimeout(t) PROVE SavingInv'
    BY <1>0, <1>4, TasksAssumption DEF RelaySetTimeout, Tasks, SavingInv
  <1>5. ASSUME NEW t \in Tasks, Finish(t) PROVE SavingInv'
    <2>1. /\ \A u \in Tasks \ {t} : frame[u].outcome = "failed"
          /\ stage = "running"
      BY <1>5, TasksAssumption DEF Finish, Tasks, SavingInv, DriverInv, OwnerInv, Holding
    <2>2. InitInv'
      BY <1>5, <2>1, TasksAssumption DEF Finish, MarkChanged, NewFrame, Tasks, SavingInv
    <2>3. frame[t].outcome = "changed" /\ RestoreRelayState => dirty'
      BY <1>5 DEF Finish, MarkChanged
    <2>4. dirty => dirty'
      BY <1>5 DEF Finish, MarkChanged
    <2>5. frame[t].outcome # "changed" => UNCHANGED dirty
      BY <1>5 DEF Finish, MarkChanged
    <2>6. frame' = [frame EXCEPT ![t] = NewFrame({})] /\ UNCHANGED <<nvs, applied, stage, restoreRead>>
      BY <1>5 DEF Finish
    <2>7. save' = save
      BY <1>5 DEF Finish
    <2>8. \A u \in Tasks : frame'[u].outcome = "failed"
      BY <2>1, <2>6 DEF NewFrame
    <2>9. pc'[HealthTask] \in {"nvsWrite", "saveDone"} => pc'[HealthTask] = pc[HealthTask]
      BY <1>5 DEF Finish, Tasks
    <2>10. SaveInv'
      BY <2>1, <2>3, <2>4, <2>5, <2>6, <2>7, <2>8, <2>9 DEF SavingInv
    <2> QED
      BY <1>0, <2>2, <2>10 DEF SavingInv
  <1>6. ASSUME NEW due \in BOOLEAN, HealthLoop(due) PROVE SavingInv'
    BY <1>0, <1>6, TasksAssumption DEF HealthLoop, Tasks, SavingInv
  <1>7. ASSUME HealthStep PROVE SavingInv'
    <2>0. stage = "running" /\ HealthTask \in Tasks /\ HealthTask # InitTask
      BY <1>7, TasksAssumption DEF HealthStep, HealthPassSkipped, BeginSave, NoSave, NvsWrite,
             SaveDone, Tasks, SavingInv
    <2>1. CASE HealthPassSkipped
      BY <1>0, <2>0, <2>1 DEF HealthPassSkipped, SavingInv
    <2>2. CASE BeginSave
      BY <1>0, <2>0, <2>2 DEF BeginSave, SaveDue, SavingInv
    <2>3. CASE NoSave
      BY <1>0, <2>0, <2>3 DEF NoSave, SavingInv
    <2>4. CASE NvsWrite
      BY <1>0, <2>0, <2>4 DEF NvsWrite, Save, SavingInv
    <2>5. CASE SaveDone
      <3>1. dirty' => dirty
        BY <2>5 DEF SaveDone
      <3>2. dirty /\ ~dirty' => nvs = applied
        BY <2>5 DEF SaveDone, KeepDirty, SavedIsCurrent, SavingInv
      <3> QED
        BY <1>0, <2>0, <2>5, <3>1, <3>2 DEF SaveDone, SavingInv
    <2> QED
      BY <1>7, <2>1, <2>2, <2>3, <2>4, <2>5 DEF HealthStep
  <1>8. ASSUME InitStep PROVE SavingInv'
    <2>1. CASE InitFinish
      <3>1. /\ \A u \in Tasks \ {InitTask} : frame[u].outcome = "failed" /\ pc[u] = "idle"
            /\ InitTask \in Tasks /\ HealthTask \in Tasks \ {InitTask}
            /\ stage \in {"off", "restore"}
        BY <2>1, TasksAssumption DEF InitFinish, Tasks, SavingInv
      <3>2. frame' = [frame EXCEPT ![InitTask] = NewFrame({})]
        BY <2>1 DEF InitFinish
      <3>3. /\ \A u \in Tasks : frame'[u].outcome = "failed"
            /\ frame'[InitTask].mask = {}
            /\ \A u \in Tasks \ {InitTask} : pc'[u] = "idle"
            /\ UNCHANGED <<applied, nvs, restoreRead>>
        BY <2>1, <3>1, <3>2 DEF InitFinish, NewFrame
      <3>4. CASE frame[InitTask].outcome = "failed"
        BY <1>0, <2>1, <3>1, <3>3, <3>4 DEF InitFinish, InitVerified, MarkChanged, SavingInv, Holding
      <3>5. CASE frame[InitTask].outcome # "failed" /\ stage = "off"
        <4>1. frame[InitTask].outcome = "unchanged" => UNCHANGED dirty
          BY <2>1 DEF InitFinish, MarkChanged
        <4>2. frame[InitTask].outcome = "unchanged"
          BY <3>1, <3>5 DEF SavingInv
        <4>3. pc'[InitTask] = "initPolarity" /\ UNCHANGED stage
          BY <2>1, <3>1, <3>5 DEF InitFinish, InitVerified
        <4> QED
          BY <1>0, <3>1, <3>3, <3>5, <4>1, <4>2, <4>3 DEF SavingInv, Holding
      <3>6. CASE frame[InitTask].outcome # "failed" /\ stage = "restore"
        <4>1. pc'[InitTask] = "idle" /\ stage' = "running"
          BY <2>1, <3>1, <3>6 DEF InitFinish, InitVerified
        <4>2. restoreRead => nvs = applied
          BY <2>1, <3>6 DEF InitFinish, SavingInv
        <4> QED
          BY <1>0, <3>1, <3>3, <4>1, <4>2 DEF SavingInv
      <3> QED
        BY <3>1, <3>4, <3>5, <3>6
    <2>2. CASE InitPolarityFailed
      BY <1>0, <2>2, TasksAssumption DEF InitPolarityFailed, Tasks, SavingInv, Holding
    <2>3. CASE ~RestoreRelayState /\ InitWithoutRestore
      BY <1>0, <2>3, TasksAssumption DEF InitWithoutRestore, Tasks, SavingInv
    <2>4. CASE InitRestore
      BY <1>0, <2>4, TasksAssumption DEF InitRestore, NewFrame, Tasks, SavingInv, Holding
    <2> QED
      BY <1>8, <2>1, <2>2, <2>3, <2>4 DEF InitStep, InitComplete
  <1>9. ASSUME Settle \/ ChipReset PROVE SavingInv'
    BY <1>0, <1>9 DEF Settle, ChipReset, SavingInv
  <1>10. ASSUME NEW power \in BOOLEAN, Restart(power) PROVE SavingInv'
    BY <1>0, <1>10, TasksAssumption DEF Restart, NewFrame, Tasks, SavingInv, Holding
  <1>11. CASE UNCHANGED vars
    BY <1>0, <1>11 DEF vars, SavingInv
  <1> QED
    BY <1>1, <1>2, <1>3, <1>4, <1>5, <1>6, <1>7, <1>8, <1>9, <1>10, <1>11, StepCases

\* They hold in every reachable state.
LEMMA SavingInvariant == Spec => [](DataOK /\ SavingInv)
  <1>1. Init => DataOK /\ SavingInv
    BY InitData, InitSaving
  <1>2. (DataOK /\ SavingInv) /\ [Next]_vars => (DataOK /\ SavingInv)'
    BY NextData, SavingStep
  <1> QED
    BY <1>1, <1>2, PTL DEF Spec

\* A running driver with nothing dirty and no write under way has its verified
\* mask in flash: no change that raced a save is forgotten.
THEOREM SavedIsAppliedCorrect == Spec => []SavedIsApplied
  <1>1. DataOK /\ SavingInv => SavedIsApplied
    <2> SUFFICES ASSUME DataOK, SavingInv, RestoreRelayState, stage = "running",
                        owner = NoTask, ~dirty, restoreRead
                 PROVE  nvs = applied
      BY DEF SavedIsApplied
    <2>1. \A t \in Tasks : owner # t
      BY TasksAssumption DEF Tasks
    <2>2. \A t \in Tasks : frame[t].outcome # "changed"
      BY <2>1 DEF SavingInv, DriverInv, OwnerInv, SaveInv, Holding
    <2> QED
      BY <2>2 DEF SavingInv, SaveInv
  <1> QED
    BY <1>1, SavingInvariant, PTL

-----------------------------------------------------------------------------
(* The order of startup                                                    *)

\* While board_io_init runs nobody else clears the health flag, so a verified
\* mask is still known to be verified when the next stage begins.
StartInv ==
    /\ stage # "running" /\ pc[InitTask] # "failed" => frame[InitTask].mask = asked
    /\ pc[InitTask] = "initPolarity" => healthy
    /\ pc[InitTask] = "finish" /\ frame[InitTask].outcome # "failed" => healthy

\* Every step keeps what startup has verified so far.
LEMMA StartStep ==
    DataOK /\ SavingInv /\ StartInv /\ [Next]_vars => StartInv'
  <1> SUFFICES ASSUME DataOK, SavingInv, StartInv, [Next]_vars PROVE StartInv'
    OBVIOUS
  <1>0. InitTask \in Tasks /\ InitTask \notin Callers /\ InitTask # HealthTask
    BY TasksAssumption DEF Tasks
  <1> USE DEF DataOK, Goto, driverVars, saveVars, historyVars, boundVars, Labels, Frame,
              StartInv
  <1>1. ASSUME NEW t \in Callers, NEW i \in Relays, NEW active \in BOOLEAN,
               RelaySet(t, i, active)
        PROVE  StartInv'
    BY <1>0, <1>1 DEF RelaySet, SavingInv, InitInv
  <1>2. ASSUME NEW t \in Tasks, WriteLocked(t) PROVE StartInv'
    <2>1. owner = t /\ stage' = stage /\ asked' = asked /\ frame'[InitTask].mask = frame[InitTask].mask
      BY <1>0, <1>2
      DEF WriteLocked, WriteOutput, WriteConfig, WriteRegister, BusError, ReadConfig,
          ReadOutput, VerifyFailed, EnterRecovery, Commit, WritePolarity, SavingInv,
          DriverInv, OwnerInv, Holding
    <2>2. CASE t = InitTask
      <3>1. frame[t].outcome = "failed" /\ pc[t] # "failed"
        BY <1>2
        DEF WriteLocked, WriteOutput, WriteConfig, ReadConfig, ReadOutput, VerifyFailed,
            EnterRecovery, Commit, WritePolarity, SavingInv, SaveInv
      <3>2. Commit(t) => healthy'
        BY DEF Commit
      <3>3. pc'[t] # "initPolarity" /\ (~Commit(t) => frame'[t].outcome = "failed")
        BY <1>2, <3>1
        DEF WriteLocked, WriteOutput, WriteConfig, WriteRegister, BusError, ReadConfig,
            ReadOutput, VerifyFailed, EnterRecovery, Commit, WritePolarity
      <3> QED
        BY <2>1, <2>2, <3>1, <3>2, <3>3
    <2>3. CASE t # InitTask
      <3>1. pc[InitTask] \notin Holding
        BY <1>0, <2>1, <2>3 DEF SavingInv, DriverInv, OwnerInv
      <3>2. stage = "running" /\ pc[InitTask] = "idle"
        BY <3>1 DEF SavingInv, InitInv
      <3>3. pc'[InitTask] = pc[InitTask]
        BY <1>0, <1>2, <2>3
        DEF WriteLocked, WriteOutput, WriteConfig, WriteRegister, BusError, ReadConfig,
            ReadOutput, VerifyFailed, EnterRecovery, Commit, WritePolarity
      <3> QED
        BY <2>1, <3>2, <3>3
    <2> QED
      BY <2>2, <2>3
  <1>3. ASSUME NEW t \in Tasks, TakeMutex(t) \/ RelaySetTimeout(t) \/ Finish(t) PROVE StartInv'
    <2>1. t # InitTask /\ stage = "running" /\ pc[InitTask] = "idle"
      BY <1>0, <1>3, TasksAssumption
      DEF TakeMutex, RelaySetTimeout, Finish, SavingInv, InitInv, DriverInv, OwnerInv, Holding
    <2> QED
      BY <1>0, <1>3, <2>1 DEF TakeMutex, RelaySetTimeout, Finish
  <1>4. ASSUME NEW due \in BOOLEAN, HealthLoop(due) PROVE StartInv'
    BY <1>0, <1>4 DEF HealthLoop
  <1>5. ASSUME HealthStep PROVE StartInv'
    BY <1>0, <1>5 DEF HealthStep, HealthPassSkipped, BeginSave, NoSave, NvsWrite, SaveDone
  <1>6. ASSUME InitStep PROVE StartInv'
    <2>1. CASE InitFinish
      BY <1>0, <2>1 DEF InitFinish, InitVerified, NewFrame, SavingInv, InitInv
    <2>2. CASE InitPolarityFailed
      BY <1>0, <2>2 DEF InitPolarityFailed
    <2>3. CASE InitWithoutRestore
      BY <1>0, <2>3 DEF InitWithoutRestore
    <2>4. CASE InitRestore
      BY <1>0, <2>4 DEF InitRestore, NewFrame
    <2> QED
      BY <1>6, <2>1, <2>2, <2>3, <2>4 DEF InitStep, InitComplete
  <1>7. ASSUME Settle \/ ChipReset PROVE StartInv'
    BY <1>7 DEF Settle, ChipReset
  <1>8. ASSUME NEW power \in BOOLEAN, Restart(power) PROVE StartInv'
    BY <1>0, <1>8 DEF Restart, NewFrame
  <1>9. CASE UNCHANGED vars
    BY <1>9 DEF vars
  <1> QED
    BY <1>1, <1>2, <1>3, <1>4, <1>5, <1>6, <1>7, <1>8, <1>9, StepCases

\* Startup verifies everything off before it restores a saved mask or serves a
\* command, and verifies the restored mask before it serves one.
THEOREM StartupOrderCorrect == Spec => StartupOrder
  <1> DEFINE Order ==
        /\ (stage = "off" /\ stage' # "off") =>
              disturbed \/ chip = [output |-> {}, config |-> {}]
        /\ (stage = "restore" /\ stage' = "running") =>
              disturbed \/ chip = [output |-> asked, config |-> {}]
  <1>1. Init => StartInv
    BY TasksAssumption DEF Init, StartInv, NewFrame, Tasks
  <1>2. DataOK /\ SavingInv /\ StartInv /\ [Next]_vars => [Order]_vars
    <2> SUFFICES ASSUME DataOK, SavingInv, StartInv, [Next]_vars, stage' # stage, ~disturbed,
                        stage = "off" \/ (stage = "restore" /\ stage' = "running")
                 PROVE  Order
      OBVIOUS
    <2>1. InitFinish \/ InitWithoutRestore \/ InitRestore
      <3>1. ASSUME NEW t \in Tasks, WriteLocked(t) PROVE FALSE
        BY <3>1 DEF WriteLocked, WriteOutput, WriteConfig, WriteRegister, ReadConfig, ReadOutput,
                    VerifyFailed, EnterRecovery, Commit, WritePolarity
      <3>2. ASSUME NEW t \in Tasks, TakeMutex(t) \/ RelaySetTimeout(t) \/ Finish(t) PROVE FALSE
        BY <3>2 DEF TakeMutex, RelaySetTimeout, Finish
      <3>3. ASSUME HealthStep PROVE FALSE
        BY <3>3 DEF HealthStep, HealthPassSkipped, BeginSave, NoSave, NvsWrite, SaveDone
      <3>4. ASSUME NEW power \in BOOLEAN, Restart(power) PROVE FALSE
        BY <3>4 DEF Restart
      <3>5. ASSUME Settle \/ ChipReset \/ UNCHANGED vars PROVE FALSE
        BY <3>5 DEF Settle, ChipReset, vars
      <3>6. ASSUME NEW t \in Callers, NEW i \in Relays, NEW active \in BOOLEAN,
                   RelaySet(t, i, active)
            PROVE  FALSE
        BY <3>6 DEF RelaySet
      <3>7. ASSUME NEW due \in BOOLEAN, HealthLoop(due) PROVE FALSE
        BY <3>7 DEF HealthLoop
      <3>8. ~InitPolarityFailed
        BY DEF InitPolarityFailed
      <3> QED
        BY <3>1, <3>2, <3>3, <3>4, <3>5, <3>6, <3>7, <3>8, StepCases DEF InitStep, InitComplete
    <2>2. healthy /\ owner = InitTask /\ pc[InitTask] \in {"finish", "initPolarity"}
      BY <2>1, TasksAssumption
      DEF InitFinish, InitWithoutRestore, InitRestore, InitVerified, StartInv, SavingInv,
          DriverInv, OwnerInv, Holding, Tasks
    <2>3. chip.output = applied /\ chip.config = {}
      BY <2>2 DEF SavingInv, DriverInv, HealthInv
    <2>4. stage = "off" => applied = {}
      BY DEF SavingInv, InitInv
    <2>5. stage = "restore" => applied = asked
      BY <2>1, <2>2 DEF InitFinish, InitWithoutRestore, InitRestore, InitVerified, SavingInv,
             InitInv, StartInv
    <2> QED
      BY <2>3, <2>4, <2>5 DEF DataOK, RegisterPair
  <1> QED
    BY <1>1, <1>2, SavingInvariant, StartStep, PTL DEF Spec, StartupOrder

-----------------------------------------------------------------------------
(* What callers may rely on: RelayOutput                                   *)

\* The calls so far have asked for what is desired.
AskedInv == desired = asked

LEMMA AskedStep == AskedInv /\ [Next]_vars => AskedInv'
  <1> SUFFICES ASSUME AskedInv, [Next]_vars PROVE AskedInv'
    OBVIOUS
  <1> USE DEF AskedInv, driverVars, historyVars
  <1>1. ASSUME NEW t \in Callers, NEW i \in Relays, NEW active \in BOOLEAN,
               RelaySet(t, i, active)
        PROVE  AskedInv'
    BY <1>1 DEF RelaySet, CommandMask
  <1>2. ASSUME NEW t \in Tasks, WriteLocked(t) PROVE AskedInv'
    BY <1>2 DEF WriteLocked, WriteOutput, WriteConfig, WriteRegister, BusError, ReadConfig,
                ReadOutput, VerifyFailed, EnterRecovery, Commit, WritePolarity
  <1>3. ASSUME NEW t \in Tasks, TakeMutex(t) \/ RelaySetTimeout(t) \/ Finish(t) PROVE AskedInv'
    BY <1>3 DEF TakeMutex, RelaySetTimeout, Finish
  <1>4. ASSUME NEW due \in BOOLEAN, HealthLoop(due) PROVE AskedInv'
    BY <1>4 DEF HealthLoop
  <1>5. CASE HealthStep
    BY <1>5 DEF HealthStep, HealthPassSkipped, BeginSave, NoSave, NvsWrite, SaveDone
  <1>6. CASE InitStep
    BY <1>6 DEF InitStep, InitFinish, InitPolarityFailed, InitComplete, InitWithoutRestore, InitRestore
  <1>7. CASE Settle \/ ChipReset \/ UNCHANGED vars
    BY <1>7 DEF Settle, ChipReset, vars
  <1>8. ASSUME NEW power \in BOOLEAN, Restart(power) PROVE AskedInv'
    BY <1>8 DEF Restart
  <1> QED
    BY <1>1, <1>2, <1>3, <1>4, <1>5, <1>6, <1>7, <1>8, StepCases

\* Only the holder of the mutex is writing, and its frame has the mask.
LEMMA WritingOne ==
    OwnerInv => \A t \in Tasks : pc[t] \in Transacting => Writing = {<<t, frame[t].mask>>}
  <1> SUFFICES ASSUME OwnerInv, NEW t \in Tasks, pc[t] \in Transacting
               PROVE  Writing = {<<t, frame[t].mask>>}
    OBVIOUS
  <1>1. {u \in Tasks : pc[u] \in Transacting} = {t}
    BY DEF OwnerInv, Holding, Transacting
  <1> QED
    BY <1>1 DEF Writing

LEMMA WritingNone ==
    (\A t \in Tasks : pc[t] \notin Transacting) => Writing = {}
  BY DEF Writing

\* A step that moves no task into or out of a write.
LEMMA WritingSame ==
    ASSUME DataOK,
           \A u \in Tasks : pc'[u] \in Transacting <=> pc[u] \in Transacting,
           \A u \in Tasks : pc[u] \in Transacting => frame'[u].mask = frame[u].mask
    PROVE  Writing' = Writing
  <1>1. {u \in Tasks : pc'[u] \in Transacting} = {u \in Tasks : pc[u] \in Transacting}
    OBVIOUS
  <1> QED
    BY <1>1 DEF Writing

\* A step at the expander is the holder's; only a verified write changes what is
\* applied, to the mask of the holder.
LEMMA WriteLockedEffect ==
    ASSUME DataOK, SavingInv, NEW t \in Tasks, WriteLocked(t)
    PROVE  /\ owner = t /\ pc[t] \in Holding /\ pc'[t] \in Holding \ {"failed"}
           /\ pc[t] # "failed"
           /\ \A u \in Tasks \ {t} : pc'[u] = pc[u] /\ frame'[u] = frame[u] /\ pc[u] \notin Holding
           /\ frame'[t].mask = frame[t].mask
           /\ desired' = desired /\ stage' = stage
           /\ \/ applied' = applied /\ frame'[t].outcome = "failed"
              \/ applied' = frame[t].mask
  <1> USE DEF DataOK, Goto, driverVars, saveVars, historyVars, boundVars
  <1>1. /\ owner = t
        /\ \A u \in Tasks \ {t} : pc[u] \notin Holding
        /\ pc[t] \in Holding \ {"failed"}
        /\ frame[t].outcome = "failed"
        /\ \E l \in Holding \ {"failed"} : pc' = [pc EXCEPT ![t] = l]
        /\ desired' = desired /\ stage' = stage
        /\ \A u \in Tasks \ {t} : frame'[u] = frame[u]
        /\ frame'[t].mask = frame[t].mask
    BY DEF WriteLocked, WriteOutput, WriteConfig, WriteRegister, BusError, ReadConfig, Frame,
           ReadOutput, VerifyFailed, EnterRecovery, Commit, WritePolarity, SavingInv, SaveInv,
           DriverInv, OwnerInv, Holding
  <1>2. \/ applied' = frame[t].mask
        \/ applied' = applied /\ frame'[t].outcome = "failed"
    BY <1>1
    DEF WriteLocked, WriteOutput, WriteConfig, WriteRegister, BusError, ReadConfig, Frame,
        ReadOutput, VerifyFailed, EnterRecovery, Commit, WritePolarity
  <1> QED
    BY <1>1, <1>2

\* Inside a write a step is hidden, or it is the end of the write, or a doubt.
LEMMA WriteLockedOutput ==
    ASSUME DataOK, SavingInv, NEW t \in Tasks, WriteLocked(t)
    PROVE  [Output!Next]_(Output!outputVars)
  <1> USE DEF DataOK, Goto, driverVars, saveVars, historyVars, boundVars
  <1>1. /\ owner = t /\ pc[t] \in Transacting
        /\ \A u \in Tasks \ {t} : pc'[u] = pc[u] /\ frame'[u] = frame[u] /\ pc[u] \notin Holding
        /\ frame'[t].mask = frame[t].mask /\ desired' = desired /\ stage' = stage
    BY WriteLockedEffect
       DEF WriteLocked, WriteOutput, WriteConfig, ReadConfig, ReadOutput, VerifyFailed,
           EnterRecovery, Commit, WritePolarity, Transacting
  <1>2. Writing = {<<t, frame[t].mask>>}
    BY <1>1, WritingOne DEF SavingInv, DriverInv
  <1>3. frame[t].mask \in Masks
    BY DEF Frame
  <1>4. CASE pc'[t] = "finish"
    <2>1. Writing' = {}
      BY <1>1, <1>4 DEF Writing, Transacting, Holding
    <2>2. \/ applied' = frame[t].mask /\ healthy' = TRUE
          \/ applied' = applied /\ healthy' = FALSE
      BY <1>4
         DEF WriteLocked, WriteOutput, WriteConfig, WriteRegister, BusError, ReadConfig,
             ReadOutput, VerifyFailed, EnterRecovery, Commit, WritePolarity
    <2>3. \/ Output!Verified(t, frame[t].mask)
          \/ Output!Failed(t, frame[t].mask)
      BY <1>1, <1>2, <2>1, <2>2 DEF Output!Verified, Output!Failed
    <2> QED
      BY <1>3, <2>3 DEF Output!Next, Output!Masks, Masks
  <1>5. CASE pc'[t] # "finish"
    <2>1. pc'[t] \in Transacting /\ applied' = applied /\ (healthy' = healthy \/ healthy' = FALSE)
      BY <1>5
         DEF WriteLocked, WriteOutput, WriteConfig, WriteRegister, BusError, ReadConfig,
             ReadOutput, VerifyFailed, EnterRecovery, Commit, WritePolarity, Transacting
    <2>2. Writing' = Writing
      BY <1>1, <2>1, WritingSame
    <2> QED
      BY <1>1, <2>1, <2>2 DEF Output!Next, Output!Doubted, Output!outputVars
  <1> QED
    BY <1>4, <1>5

\* Each step of the driver is one of RelayOutput or hidden.
LEMMA OutputStep ==
    DataOK /\ SavingInv /\ StartInv /\ AskedInv /\ [Next]_vars => [Output!Next]_(Output!outputVars)
  <1> SUFFICES ASSUME DataOK, SavingInv, StartInv, AskedInv, [Next]_vars
               PROVE  [Output!Next]_(Output!outputVars)
    OBVIOUS
  <1> USE DEF DataOK, Goto, driverVars, saveVars, historyVars, boundVars
  <1>0. /\ InitTask \in Tasks /\ InitTask \notin Callers /\ InitTask # HealthTask
        /\ HealthTask \in Tasks /\ HealthTask \notin Callers /\ Callers \subseteq Tasks
        /\ NoTask \notin Tasks
    BY TasksAssumption DEF Tasks
  <1>1. ASSUME NEW t \in Callers, NEW i \in Relays, NEW active \in BOOLEAN,
               RelaySet(t, i, active)
        PROVE  Output!Next
    <2>1. Writing' = Writing
      BY <1>0, <1>1, WritingSame DEF RelaySet, Transacting
    <2>2. Output!Command(i, active)
      BY <1>1, <2>1 DEF RelaySet, CommandMask, Output!Command
    <2> QED
      BY <2>2 DEF Output!Next
  <1>2. ASSUME NEW t \in Tasks, WriteLocked(t) PROVE [Output!Next]_(Output!outputVars)
    BY <1>2, WriteLockedOutput
  <1>3. ASSUME NEW t \in Tasks, TakeMutex(t) PROVE Output!Next
    <2>1. stage = "running" /\ \A u \in Tasks : pc[u] \notin Holding
      BY <1>0, <1>3 DEF TakeMutex, SavingInv, InitInv, DriverInv, OwnerInv
    <2>2. Writing = {} /\ Writing' = {<<t, desired>>}
      <3>1. {u \in Tasks : pc'[u] \in Transacting} = {t}
        BY <1>3, <2>1 DEF TakeMutex, Transacting, Holding
      <3>2. frame'[t].mask = desired
        BY <1>3 DEF TakeMutex, NewFrame, MaskToApply
      <3> QED
        BY <2>1, <3>1, <3>2, WritingNone DEF Writing, Transacting, Holding
    <2>3. Output!Begin(t)
      BY <1>3, <2>1, <2>2 DEF TakeMutex, Output!Begin
    <2> QED
      BY <2>3 DEF Output!Next
  <1>4. ASSUME NEW t \in Tasks, RelaySetTimeout(t) PROVE Output!Next
    <2>1. Writing' = Writing
      BY <1>4, WritingSame DEF RelaySetTimeout, Transacting
    <2> QED
      BY <1>4, <2>1 DEF RelaySetTimeout, Output!Next, Output!Doubted
  <1>5. ASSUME NEW t \in Tasks, Finish(t) PROVE UNCHANGED Output!outputVars
    <2>1. Writing' = Writing
      BY <1>5, WritingSame DEF Finish, Transacting
    <2> QED
      BY <1>5, <2>1 DEF Finish, Output!outputVars
  <1>6. ASSUME NEW due \in BOOLEAN, HealthLoop(due) PROVE UNCHANGED Output!outputVars
    <2>1. Writing' = Writing
      BY <1>0, <1>6, WritingSame DEF HealthLoop, Transacting
    <2> QED
      BY <1>6, <2>1 DEF HealthLoop, Output!outputVars
  <1>7. CASE HealthStep
    <2>1. Writing' = Writing
      BY <1>0, <1>7, WritingSame
         DEF HealthStep, HealthPassSkipped, BeginSave, NoSave, NvsWrite, SaveDone, Transacting
    <2> QED
      BY <1>7, <2>1
         DEF HealthStep, HealthPassSkipped, BeginSave, NoSave, NvsWrite, SaveDone, Output!outputVars
  <1>8. CASE InitStep
    <2>1. /\ stage # "running" /\ pc[InitTask] \in {"finish", "initPolarity"}
          /\ \A u \in Tasks : pc[u] \notin Transacting
      BY <1>0, <1>8
         DEF InitStep, InitFinish, InitPolarityFailed, InitComplete, InitWithoutRestore, InitRestore,
             SavingInv, InitInv, Transacting
    <2>2. Writing = {}
      BY <2>1, WritingNone
    <2>3. CASE InitFinish
      <3>1. Writing' = {}
        BY <1>0, <2>1, <2>3 DEF InitFinish, Transacting, Writing
      <3>2. CASE stage' = stage
        BY <2>2, <2>3, <3>1, <3>2 DEF InitFinish, Output!outputVars
      <3>3. CASE stage' # stage
        <4>1. stage' = "running" /\ stage = "restore" /\ frame[InitTask].outcome # "failed"
          BY <2>1, <2>3, <3>3 DEF InitFinish, InitVerified
        <4>2. applied = desired /\ healthy
          BY <2>1, <2>3, <4>1 DEF InitFinish, SavingInv, InitInv, StartInv, AskedInv
        <4> QED
          BY <2>1, <2>2, <2>3, <3>1, <4>1, <4>2 DEF InitFinish, Output!Next, Output!Serve
      <3> QED
        BY <3>2, <3>3
    <2>4. CASE InitPolarityFailed
      <3>1. Writing' = Writing
        BY <1>0, <2>4, WritingSame DEF InitPolarityFailed, Transacting
      <3> QED
        BY <2>4, <3>1 DEF InitPolarityFailed, Output!Next, Output!Doubted
    <2>5. CASE InitWithoutRestore
      <3>1. Writing' = Writing
        BY <1>0, <2>5, WritingSame DEF InitWithoutRestore, Transacting
      <3>2. applied = desired /\ healthy
        BY <2>5 DEF InitWithoutRestore, SavingInv, InitInv, StartInv, AskedInv
      <3> QED
        BY <2>1, <2>2, <2>5, <3>1, <3>2 DEF InitWithoutRestore, Output!Next, Output!Serve
    <2>6. CASE InitRestore
      <3>1. PICK restored \in {nvs, {}} :
              desired' = restored /\ frame' = [frame EXCEPT ![InitTask] = NewFrame(restored)]
        BY <2>6 DEF InitRestore
      <3>2. {u \in Tasks : pc'[u] \in Transacting} = {InitTask}
        BY <1>0, <2>1, <2>6 DEF InitRestore, Transacting
      <3>3. Writing' = {<<InitTask, restored>>}
        BY <1>0, <3>1, <3>2 DEF Writing, NewFrame
      <3>4. applied = {} /\ healthy /\ stage' = "restore"
        BY <2>6 DEF InitRestore, SavingInv, InitInv, StartInv
      <3>5. Output!Restore(InitTask, restored) /\ restored \in Masks
        BY <2>1, <2>2, <2>6, <3>1, <3>3, <3>4 DEF InitRestore, Output!Restore, Masks
      <3> QED
        BY <1>0, <3>5 DEF Output!Next, Output!Masks, Masks
    <2> QED
      BY <1>8, <2>3, <2>4, <2>5, <2>6 DEF InitStep, InitComplete
  <1>9. CASE Settle \/ ChipReset \/ UNCHANGED vars
    <2>1. Writing' = Writing
      BY <1>9, WritingSame DEF Settle, ChipReset, vars
    <2> QED
      BY <1>9, <2>1 DEF Settle, ChipReset, vars, Output!outputVars
  <1>10. ASSUME NEW power \in BOOLEAN, Restart(power) PROVE Output!Next
    <2>1. {u \in Tasks : pc'[u] \in Transacting} = {InitTask}
      BY <1>0, <1>10 DEF Restart, Transacting
    <2>2. Writing' = {<<InitTask, {}>>}
      BY <1>0, <1>10, <2>1 DEF Restart, Writing, NewFrame
    <2> QED
      BY <1>0, <1>10, <2>2 DEF Restart, Output!Next, Output!Restart
  <1> QED
    BY <1>1, <1>2, <1>3, <1>4, <1>5, <1>6, <1>7, <1>8, <1>9, <1>10, StepCases

\* RelayDriver implements RelayOutput.
THEOREM ImplementsOutputCorrect == Spec => ImplementsOutput
  <1>1. Init => Output!Init
    <2> SUFFICES ASSUME Init PROVE Output!Init
      OBVIOUS
    <2>1. InitTask \in Tasks /\ {u \in Tasks : pc[u] \in Transacting} = {InitTask}
      BY DEF Init, Transacting, Tasks
    <2>2. Writing = {<<InitTask, {}>>}
      BY <2>1 DEF Init, Writing, NewFrame
    <2> QED
      BY <2>1, <2>2 DEF Init, Output!Init
  <1>2. Init => StartInv /\ AskedInv
    BY TasksAssumption DEF Init, StartInv, AskedInv, NewFrame, Tasks
  <1> QED
    BY <1>1, <1>2, SavingInvariant, StartStep, AskedStep, OutputStep, PTL
       DEF Spec, ImplementsOutput, Output!Spec
-----------------------------------------------------------------------------
(* The commands of the clients                                             *)

LEMMA CommandStepCases ==
    ASSUME [CommandNext]_allVars
    PROVE  \/ \E t \in Callers, i \in Relays, p \in Priorities, value \in Values :
                 WriteSlot(t, i, p, value)
           \/ \E t \in Callers : DriverReturns(t)
           \/ WebRequest \/ WebTakes \/ WebTimeout
           \/ InitializeObjects \/ StartupCompletes \/ SessionOpens \/ SessionEnds
           \/ IterationBegins \/ IterationEnds
           \/ \E power \in BOOLEAN : Reboot(power)
           \/ DriverStep
           \/ UNCHANGED allVars
  BY Zenon DEF CommandNext

\* The driver is called with a Boolean.
LEMMA ActiveOfType ==
    ASSUME NEW slots, NEW i
    PROVE  ActiveOf(slots, i) \in BOOLEAN
  <1> DEFINE none == {p \in Priorities : slots[i][p] # "null"} = {}
             first == slots[i][CHOOSE p \in {p \in Priorities : slots[i][p] # "null"} :
                        \A q \in {r \in Priorities : slots[i][r] # "null"} : p <= q]
  <1>1. ActiveOf(slots, i) = IF none THEN i \in default ELSE first = "active"
    BY DEF ActiveOf
  <1>2. (i \in default) \in BOOLEAN /\ (first = "active") \in BOOLEAN
    OBVIOUS
  <1> HIDE DEF none, first
  <1> QED
    BY <1>1, <1>2

\* A step of the driver, or none.
LEMMA DriverSteps == [CommandNext]_allVars => [Next]_vars
  <1> SUFFICES ASSUME [CommandNext]_allVars PROVE [Next]_vars
    OBVIOUS
  <1>1. ASSUME NEW t \in Callers, NEW i \in Relays, NEW p \in Priorities, NEW value \in Values,
               WriteSlot(t, i, p, value)
        PROVE  Next
    <2>1. RelaySet(t, i, ActiveOf(array', i)) /\ ActiveOf(array', i) \in BOOLEAN
      BY <1>1, ActiveOfType DEF WriteSlot, ValueForDriver
    <2> HIDE DEF ActiveOf
    <2> QED
      BY <2>1, Zenon DEF Next
  <1>2. ASSUME NEW t \in Callers, DriverReturns(t)
        PROVE  Next
    <2>1. t \in Tasks
      BY DEF Tasks
    <2> QED
      BY <1>2, <2>1, Zenon DEF DriverReturns, Next, TaskStep
  <1>3. CASE DriverStep
    <2>1. CASE \E t \in Tasks : WriteLocked(t) \/ TakeMutex(t)
      BY <2>1, Zenon DEF Next, TaskStep
    <2>2. CASE Finish(HealthTask)
      <3>1. HealthTask \in Tasks
        BY DEF Tasks
      <3> QED
        BY <2>2, <3>1, Zenon DEF Next, TaskStep
    <2>3. CASE (\E due \in BOOLEAN : HealthLoop(due)) \/ HealthStep \/ InitStep \/ Settle \/ ChipReset
      BY <2>3, Zenon DEF Next
    <2> QED
      BY <1>3, <2>1, <2>2, <2>3, Zenon DEF DriverStep
  <1>4. ASSUME NEW power \in BOOLEAN, Reboot(power)
        PROVE  Next
    BY <1>4, Zenon DEF Reboot, Next
  <1>5. CASE \/ WebRequest \/ WebTakes \/ WebTimeout \/ InitializeObjects \/ StartupCompletes
             \/ SessionOpens \/ SessionEnds \/ IterationBegins \/ IterationEnds
             \/ UNCHANGED allVars
    BY <1>5, Zenon
       DEF WebRequest, WebTakes, WebTimeout, InitializeObjects, StartupCompletes, SessionOpens,
           SessionEnds, IterationBegins, IterationEnds, allVars
  <1> QED
    BY <1>1, <1>2, <1>3, <1>4, <1>5, CommandStepCases, Zenon

\* Commands over HTTP and BACnet use the driver as RelayDriver specifies.
THEOREM CommandImplementsDriver == CommandSpec => Spec
  <1>1. CommandInit => Init
    BY DEF CommandInit
  <1> QED
    BY <1>1, DriverSteps, PTL DEF CommandSpec, Spec

\* Healthy is reported only while the outputs are what was verified, whoever commands.
THEOREM CommandHealthyMeansDriven == CommandSpec => []HealthyMeansDriven
  BY CommandImplementsDriver, HealthyMeansDrivenCorrect, PTL

\* No step energises a relay outside the mask it applies, whoever commands.
THEOREM CommandEnergiseOnlyCommanded == CommandSpec => EnergiseOnlyCommanded
  BY CommandImplementsDriver, EnergiseOnlyCommandedCorrect, PTL

-----------------------------------------------------------------------------
(* One late command                                                        *)

\* An HTTP request that is still to write was admitted while the flag was up, and
\* after the one that wrote with the flag down none is admitted until it is up.
LateInv ==
    /\ task \in [Callers -> Places]
    /\ late \in Nat /\ late <= 1
    /\ ~running /\ late = 1 => At(Web, "called") \/ At(Web, "idle")
    /\ running => late = 0

LEMMA LateInit == CommandInit => LateInv
  BY CallersAssumption DEF CommandInit, LateInv, Places, At

LEMMA LateNext == LateInv /\ [CommandNext]_allVars => LateInv'
  <1> SUFFICES ASSUME LateInv, [CommandNext]_allVars PROVE LateInv'
    OBVIOUS
  <1> USE CallersAssumption DEF LateInv, At, MoveTo, Places, sessionVars
  <1>1. CASE UNCHANGED <<task, late, running>>
    BY <1>1
  <1>2. ASSUME NEW t \in Callers, NEW i \in Relays, NEW p \in Priorities, NEW value \in Values,
               WriteSlot(t, i, p, value)
        PROVE  LateInv'
    BY <1>2 DEF WriteSlot
  <1>3. ASSUME NEW t \in Callers, DriverReturns(t)
        PROVE  LateInv'
    BY <1>3 DEF DriverReturns, Returns
  <1>4. CASE WebRequest \/ WebTakes \/ WebTimeout
    BY <1>4 DEF WebRequest, WebTakes, WebTimeout, Served
  <1>5. CASE InitializeObjects \/ StartupCompletes \/ SessionOpens \/ SessionEnds
    BY <1>5 DEF InitializeObjects, StartupCompletes, SessionOpens, SessionEnds
  <1>6. CASE IterationBegins \/ IterationEnds
    BY <1>6 DEF IterationBegins, IterationEnds
  <1>7. ASSUME NEW power \in BOOLEAN, Reboot(power)
        PROVE  LateInv'
    BY <1>7 DEF Reboot
  <1>8. CASE DriverStep \/ UNCHANGED allVars
    BY <1>1, <1>8, Zenon DEF DriverStep, allVars, commandVars, sessionVars
  <1> QED
    BY <1>2, <1>3, <1>4, <1>5, <1>6, <1>7, <1>8, CommandStepCases, Zenon

\* At most one HTTP command changes an array between the end of a session and the
\* next rise of the running flag.
THEOREM OneLateCommandCorrect == CommandSpec => []OneLateCommand
  <1>1. LateInv => OneLateCommand
    BY DEF LateInv, OneLateCommand
  <1> QED
    BY <1>1, LateInit, LateNext, PTL DEF CommandSpec

-----------------------------------------------------------------------------
(* The arrays and the driver                                               *)

\* Types, and one caller at most inside a command, which holds the object mutex.
CallInv ==
    /\ array \in [Relays -> [Priorities -> Values]]
    /\ default \in Masks
    /\ task \in [Callers -> Places]
    /\ \A t \in Callers : task[t] \in {"holding", "called", "update"} <=> holder = t
    /\ \A t \in Callers : pc[t] # "idle" <=> task[t] = "called"

\* Nobody commands while a caller is at the expander: it applies the last command.
MaskInv ==
    \A t \in Callers : pc[t] \in Holding =>
        /\ frame[t].mask = desired
        /\ frame[t].outcome # "failed" => applied = desired

\* Until the objects exist nobody commands, and what is desired is what the
\* startup applies and verifies.
BootInv ==
    /\ stage # "running" => At(Bacnet, "boot")
    /\ stage = "off" => desired = {}
    /\ stage = "restore" /\ pc[InitTask] # "failed" => desired = frame[InitTask].mask
    /\ At(Bacnet, "boot") => ~running /\ At(Web, "idle")
    /\ At(Bacnet, "boot") /\ stage = "running" =>
          /\ desired = applied
          /\ pc[HealthTask] \in Holding => frame[HealthTask].mask = desired

ArrayInv == CallInv /\ MaskInv /\ BootInv /\ ArraysAreDesired

\* An output depends on its own array only.
LEMMA ActiveOfOwn ==
    ASSUME NEW a, NEW b, NEW i, a[i] = b[i]
    PROVE  ActiveOf(a, i) = ActiveOf(b, i)
  BY DEF ActiveOf

\* With nothing commanded the outputs take their defaults.
LEMMA EffectiveDefault ==
    ASSUME default \in Masks, array = NullArrays
    PROVE  Effective = default
  <1>1. \A i \in Relays : {p \in Priorities : array[i][p] # "null"} = {}
    BY DEF NullArrays
  <1>2. \A i \in Relays : ActiveOf(array, i) = (i \in default)
    BY <1>1 DEF ActiveOf
  <1> HIDE DEF ActiveOf
  <1> QED
    BY <1>2 DEF Effective, Masks

LEMMA ArrayInit == CommandInit => ArrayInv
  <1> SUFFICES ASSUME CommandInit PROVE ArrayInv
    OBVIOUS
  <1>1. CallInv
    BY CallersAssumption, TasksAssumption
       DEF CommandInit, Init, CallInv, NullArrays, Values, Places, Masks, Tasks
  <1>2. MaskInv
    BY TasksAssumption DEF CommandInit, Init, MaskInv, Holding, Tasks
  <1>3. BootInv
    BY CallersAssumption DEF CommandInit, Init, BootInv, At
  <1>4. ArraysAreDesired
    BY CallersAssumption DEF CommandInit, ArraysAreDesired
  <1> QED
    BY <1>1, <1>2, <1>3, <1>4 DEF ArrayInv

LEMMA WriteSlotArray ==
    ASSUME DataOK, SavingInv, ArrayInv,
           NEW t \in Callers, NEW i \in Relays, NEW p \in Priorities, NEW value \in Values,
           WriteSlot(t, i, p, value)
    PROVE  ArrayInv'
  <1> USE DEF DataOK, Goto
  <1>1. /\ holder = t /\ task[t] = "holding" /\ pc[t] = "idle" /\ stage = "running"
        /\ \A u \in Callers \ {t} : pc[u] = "idle"
        /\ ~At(Bacnet, "boot")
        /\ t \in Tasks /\ t # HealthTask
    BY CallersAssumption, TasksAssumption
       DEF WriteSlot, RelaySet, ArrayInv, CallInv, BootInv, At, Tasks
  <1>2. CallInv'
    BY <1>1 DEF WriteSlot, RelaySet, ArrayInv, CallInv, MoveTo, At, Places
  <1>3. MaskInv'
    BY <1>1 DEF WriteSlot, RelaySet, MaskInv, Holding, Tasks
  <1>4. ~At(Bacnet, "boot")'
    BY <1>1, CallersAssumption DEF WriteSlot, At, MoveTo, ArrayInv, CallInv
  <1>5. BootInv'
    BY <1>1, <1>4 DEF WriteSlot, RelaySet, BootInv
  <1>6. ArraysAreDesired'
    <2>1. /\ desired = Effective
          /\ desired' = CommandMask(i, ActiveOf(array', i))
          /\ default' = default
          /\ \A j \in Relays \ {i} : array'[j] = array[j]
      BY <1>1 DEF WriteSlot, RelaySet, ValueForDriver, ArrayInv, CallInv, ArraysAreDesired, At
    <2>2. \A j \in Relays \ {i} : ActiveOf(array', j) = ActiveOf(array, j)
      BY <2>1, ActiveOfOwn
    <2>3. Effective' = {j \in Relays : ActiveOf(array', j)}
      BY <2>1 DEF Effective, ActiveOf
    <2>4. Effective = {j \in Relays : ActiveOf(array, j)}
      BY DEF Effective
    <2> HIDE DEF ActiveOf
    <2>5. \A j \in Relays : j \in desired' <=> ActiveOf(array', j)
      BY <2>1, <2>2, <2>4 DEF CommandMask
    <2>6. desired' \subseteq Relays
      BY <2>1, <2>4 DEF CommandMask
    <2> QED
      BY <2>3, <2>5, <2>6 DEF ArraysAreDesired
  <1> QED
    BY <1>2, <1>3, <1>5, <1>6 DEF ArrayInv

\* Where the arrays, their defaults and what is desired stay as they are.
LEMMA SameArrays ==
    ASSUME ArraysAreDesired, UNCHANGED <<array, default, desired>>,
           task'[Bacnet] # "boot" => task[Bacnet] # "boot"
    PROVE  ArraysAreDesired'
  <1>1. Effective' = Effective
    BY DEF Effective, ActiveOf
  <1> QED
    BY <1>1 DEF ArraysAreDesired

LEMMA DriverReturnsArray ==
    ASSUME DataOK, SavingInv, ArrayInv, NEW t \in Callers, DriverReturns(t)
    PROVE  ArrayInv'
  <1> USE DEF DataOK, Goto
  <1>1. /\ task[t] = "called" /\ holder = t
        /\ task' = [task EXCEPT ![t] = IF t = Web THEN "idle" ELSE "update"]
        /\ holder' = IF t = Web THEN NoTask ELSE holder
        /\ pc' = [pc EXCEPT ![t] = "idle"]
        /\ UNCHANGED <<array, default, desired, applied, stage, running>>
        /\ \A u \in Tasks \ {t} : frame'[u] = frame[u]
    BY TasksAssumption
       DEF DriverReturns, Finish, RelaySetTimeout, Returns, At, MoveTo, ArrayInv, CallInv,
           driverVars, sessionVars, Tasks
  <1>2. ~At(Bacnet, "boot") /\ ~At(Bacnet, "boot")'
    BY <1>1, CallersAssumption DEF At, ArrayInv, CallInv, BootInv
  <1>3. t \in Tasks /\ t # HealthTask /\ t # InitTask /\ t # NoTask
    BY TasksAssumption DEF Tasks
  <1>4. CallInv'
    BY <1>1, <1>3, CallersAssumption, TasksAssumption DEF ArrayInv, CallInv, Places, Tasks
  <1>5. MaskInv'
    BY <1>1, <1>3 DEF ArrayInv, MaskInv, Holding, Tasks
  <1>6. BootInv'
    BY <1>1, <1>2, <1>3, TasksAssumption DEF ArrayInv, BootInv, Tasks
  <1>7. ArraysAreDesired'
    BY <1>1, <1>2, SameArrays DEF ArrayInv, At
  <1> QED
    BY <1>4, <1>5, <1>6, <1>7 DEF ArrayInv

\* The driver's own steps.
LEMMA DriverStepArray ==
    ASSUME DataOK, SavingInv, ArrayInv, DriverStep
    PROVE  ArrayInv'
  <1> USE DEF DataOK, Goto
  <1>0. /\ InitTask \in Tasks /\ InitTask \notin Callers /\ InitTask # HealthTask
        /\ HealthTask \in Tasks /\ HealthTask \notin Callers
        /\ Callers \subseteq Tasks /\ Web \in Callers /\ Bacnet \in Callers
    BY TasksAssumption, CallersAssumption DEF Tasks
  <1>1. UNCHANGED <<array, default, holder, task, running>>
    BY DEF DriverStep, commandVars, sessionVars
  <1>2. desired' = desired => ArraysAreDesired'
    BY <1>1, SameArrays DEF ArrayInv
  <1>3. ASSUME NEW t \in Tasks, WriteLocked(t) PROVE ArrayInv'
    <2> DEFINE Effect ==
               /\ owner = t /\ pc[t] \in Holding /\ pc'[t] \in Holding \ {"failed"}
               /\ pc[t] # "failed"
               /\ \A u \in Tasks \ {t} : pc'[u] = pc[u] /\ frame'[u] = frame[u] /\ pc[u] \notin Holding
               /\ frame'[t].mask = frame[t].mask
               /\ desired' = desired /\ stage' = stage
               /\ \/ applied' = applied /\ frame'[t].outcome = "failed"
                  \/ applied' = frame[t].mask
    <2>1. Effect
      BY <1>3, WriteLockedEffect
    <2>2. CallInv'
      BY <1>0, <1>1, <2>1 DEF ArrayInv, CallInv, Holding
    <2>3. MaskInv'
      BY <1>0, <2>1 DEF ArrayInv, MaskInv
    <2>4. stage = "running" => t # InitTask
      BY <2>1 DEF SavingInv, InitInv, Holding
    <2>5. At(Bacnet, "boot") /\ stage = "running" => t = HealthTask
      <3>1. At(Bacnet, "boot") => \A u \in Callers : pc[u] = "idle"
        BY <1>0, CallersAssumption DEF ArrayInv, BootInv, CallInv, At
      <3> QED
        BY <2>1, <2>4, <3>1 DEF Tasks, Holding
    <2>6. BootInv'
      BY <1>0, <1>1, <2>1, <2>5 DEF ArrayInv, BootInv, At
    <2> QED
      BY <1>2, <2>1, <2>2, <2>3, <2>6 DEF ArrayInv
  <1>4. ASSUME NEW t \in Tasks, TakeMutex(t) PROVE ArrayInv'
    <2>1. /\ pc[t] = "take" /\ pc' = [pc EXCEPT ![t] = "writeOutput"]
          /\ frame' = [frame EXCEPT ![t] = NewFrame(desired)]
          /\ UNCHANGED <<desired, applied, stage>>
      BY <1>4 DEF TakeMutex, MaskToApply, driverVars
    <2>2. NewFrame(desired).mask = desired /\ NewFrame(desired).outcome = "failed"
      BY DEF NewFrame
    <2>3. CallInv'
      BY <1>0, <1>1, <2>1 DEF ArrayInv, CallInv
    <2>4. MaskInv'
      BY <1>0, <2>1, <2>2 DEF ArrayInv, MaskInv, Holding
    <2>5. t # InitTask
      BY <2>1 DEF SavingInv, InitInv, Holding
    <2>6. BootInv'
      BY <1>0, <1>1, <2>1, <2>2, <2>5 DEF ArrayInv, BootInv, At, Holding
    <2> QED
      BY <1>2, <2>1, <2>3, <2>4, <2>6 DEF ArrayInv
  <1>5. CASE Finish(HealthTask) \/ HealthStep \/ \E due \in BOOLEAN : HealthLoop(due)
    <2>1. /\ \E l \in Labels \ Holding : pc' = [pc EXCEPT ![HealthTask] = l]
          /\ UNCHANGED <<desired, applied, stage>>
          /\ \A u \in Tasks \ {HealthTask} : frame'[u] = frame[u]
      BY <1>5 DEF Finish, HealthStep, HealthPassSkipped, BeginSave, NoSave, NvsWrite, SaveDone,
                  HealthLoop, driverVars, Labels, Holding
    <2> QED
      BY <1>0, <1>1, <1>2, <2>1 DEF ArrayInv, CallInv, MaskInv, BootInv, At, Holding
  <1>6. CASE InitStep
    <2>1. /\ stage # "running" /\ At(Bacnet, "boot") /\ pc[InitTask] \in Holding \ {"failed"}
          /\ \A u \in Callers \cup {HealthTask} : pc[u] = "idle"
      BY <1>0, <1>6
         DEF InitStep, InitFinish, InitPolarityFailed, InitComplete, InitWithoutRestore, InitRestore,
             SavingInv, InitInv, ArrayInv, BootInv, Holding, Tasks
    <2>2. /\ \E l \in Labels : pc' = [pc EXCEPT ![InitTask] = l]
          /\ applied' = applied
      BY <1>6 DEF InitStep, InitFinish, InitPolarityFailed, InitComplete, InitWithoutRestore,
                  InitRestore, driverVars, Labels
    <2>3. CallInv'
      BY <1>0, <1>1, <2>2 DEF ArrayInv, CallInv
    <2>4. MaskInv'
      BY <1>0, <2>1, <2>2 DEF MaskInv, Holding
    <2>5. ArraysAreDesired'
      BY <1>1, <2>1 DEF ArraysAreDesired, At
    <2>6. BootInv'
      <3>1. CASE InitFinish
        BY <1>0, <1>1, <2>1, <2>2, <3>1
           DEF InitFinish, InitVerified, ArrayInv, BootInv, SavingInv, InitInv, At, Holding,
               driverVars, NewFrame
      <3>2. CASE InitPolarityFailed
        BY <1>0, <1>1, <2>1, <3>2
           DEF InitPolarityFailed, ArrayInv, BootInv, SavingInv, InitInv, At, Holding
      <3>3. CASE InitWithoutRestore
        BY <1>0, <1>1, <2>1, <2>2, <3>3
           DEF InitWithoutRestore, ArrayInv, BootInv, SavingInv, InitInv, At, Holding, driverVars
      <3>4. CASE InitRestore
        BY <1>0, <1>1, <2>1, <3>4 DEF InitRestore, ArrayInv, BootInv, At, Holding, NewFrame
      <3> QED
        BY <1>6, <3>1, <3>2, <3>3, <3>4 DEF InitStep, InitComplete
    <2> QED
      BY <2>3, <2>4, <2>5, <2>6 DEF ArrayInv
  <1>7. CASE Settle \/ ChipReset
    BY <1>1, <1>2, <1>7
       DEF Settle, ChipReset, ArrayInv, CallInv, MaskInv, BootInv, At, driverVars
  <1> QED
    BY <1>3, <1>4, <1>5, <1>6, <1>7 DEF DriverStep

LEMMA ArrayNext ==
    DataOK /\ SavingInv /\ ArrayInv /\ [CommandNext]_allVars => ArrayInv'
  <1> SUFFICES ASSUME DataOK, SavingInv, ArrayInv, [CommandNext]_allVars PROVE ArrayInv'
    OBVIOUS
  <1>0. /\ Web \in Callers /\ Bacnet \in Callers /\ Web # Bacnet
        /\ NoTask \notin Callers /\ HealthTask \notin Callers /\ InitTask \notin Callers
        /\ Callers \subseteq Tasks /\ InitTask \in Tasks /\ HealthTask \in Tasks
    BY TasksAssumption, CallersAssumption DEF Tasks
  <1>1. ASSUME NEW t \in Callers, NEW i \in Relays, NEW p \in Priorities, NEW value \in Values,
               WriteSlot(t, i, p, value)
        PROVE  ArrayInv'
    BY <1>1, WriteSlotArray
  <1>2. ASSUME NEW t \in Callers, DriverReturns(t)
        PROVE  ArrayInv'
    BY <1>2, DriverReturnsArray
  <1>3. ASSUME UNCHANGED <<vars, array, default>>, CallInv',
               At(Bacnet, "boot")' <=> At(Bacnet, "boot"),
               At(Bacnet, "boot")' => ~running' /\ At(Web, "idle")'
        PROVE  ArrayInv'
    <2>0. UNCHANGED <<desired, applied, pc, frame, stage>>
      BY <1>3 DEF vars, driverVars
    <2>1. MaskInv' /\ BootInv'
      <3>1. MaskInv'
        BY <2>0 DEF ArrayInv, MaskInv
      <3>2. BootInv'
        BY <1>3, <2>0 DEF ArrayInv, BootInv, At
      <3> QED
        BY <3>1, <3>2
    <2>2. ArraysAreDesired'
      BY <1>3, SameArrays DEF ArrayInv, vars, driverVars, At
    <2> QED
      BY <1>3, <2>1, <2>2 DEF ArrayInv
  <1>4. CASE WebRequest \/ WebTakes \/ WebTimeout
    <2>1. CallInv'
      BY <1>0, <1>4 DEF WebRequest, WebTakes, WebTimeout, MayTake, MoveTo, At, ArrayInv, CallInv,
                        Places, vars
    <2>2. /\ UNCHANGED <<vars, array, default, running>> /\ task'[Bacnet] = task[Bacnet]
          /\ At(Bacnet, "boot") => At(Web, "idle")'
      BY <1>0, <1>4 DEF WebRequest, WebTakes, WebTimeout, MoveTo, At, ArrayInv, CallInv, BootInv, Served, sessionVars
    <2> QED
      BY <1>3, <2>1, <2>2 DEF ArrayInv, BootInv, At
  <1>5. CASE StartupCompletes \/ SessionOpens \/ SessionEnds \/ IterationBegins \/ IterationEnds
    <2>1. CallInv'
      BY <1>0, <1>5 DEF StartupCompletes, SessionOpens, SessionEnds, IterationBegins, IterationEnds,
                        MayTake, MoveTo, At, ArrayInv, CallInv, Places, vars
    <2>2. /\ UNCHANGED <<vars, array, default>>
          /\ ~At(Bacnet, "boot") /\ ~At(Bacnet, "boot")'
      BY <1>0, <1>5 DEF StartupCompletes, SessionOpens, SessionEnds, IterationBegins, IterationEnds,
                        MoveTo, At, ArrayInv, CallInv
    <2> QED
      BY <1>3, <2>1, <2>2
  <1>6. CASE InitializeObjects
    <2>1. CallInv'
      BY <1>0, <1>6 DEF InitializeObjects, MoveTo, At, ArrayInv, CallInv, NullArrays, Values, Places,
                        DataOK, vars
    <2>2. /\ UNCHANGED vars /\ ~At(Bacnet, "boot")' /\ array' = NullArrays
          /\ default' = desired /\ stage = "running"
      BY <1>0, <1>6 DEF InitializeObjects, MoveTo, At, ArrayInv, CallInv, BootInv
    <2>3. MaskInv' /\ BootInv'
      BY <2>2 DEF ArrayInv, MaskInv, BootInv, vars, driverVars, At
    <2>4. Effective' = default'
      <3>1. (default \in Masks /\ array = NullArrays => Effective = default)'
        BY EffectiveDefault, PTL
      <3>2. NullArrays' = NullArrays
        BY DEF NullArrays
      <3> QED
        BY <2>1, <2>2, <3>1, <3>2 DEF CallInv, Masks
    <2> QED
      BY <2>1, <2>2, <2>3, <2>4 DEF ArrayInv, ArraysAreDesired, vars, driverVars
  <1>7. ASSUME NEW power \in BOOLEAN, Reboot(power)
        PROVE  ArrayInv'
    <2>1. CallInv'
      BY <1>0, <1>7 DEF Reboot, Restart, CallInv, NullArrays, Values, Places, Masks
    <2>2. MaskInv' /\ BootInv' /\ ArraysAreDesired'
      BY <1>0, <1>7 DEF Reboot, Restart, MaskInv, BootInv, ArraysAreDesired, At, Holding, NewFrame
    <2> QED
      BY <2>1, <2>2 DEF ArrayInv
  <1>8. CASE DriverStep
    BY <1>8, DriverStepArray
  <1>9. CASE UNCHANGED allVars
    <2>1. UNCHANGED <<vars, array, default, task, holder, running>>
      BY <1>9 DEF allVars, commandVars, sessionVars
    <2>2. CallInv'
      BY <2>1 DEF ArrayInv, CallInv, vars
    <2> QED
      BY <1>3, <2>1, <2>2 DEF ArrayInv, BootInv, At
  <1> QED
    BY <1>1, <1>2, <1>4, <1>5, <1>6, <1>7, <1>8, <1>9, CommandStepCases, Zenon

\* In every reachable state.
LEMMA ArrayInvariant == CommandSpec => [](DataOK /\ SavingInv /\ ArrayInv)
  <1> QED
    BY CommandImplementsDriver, SavingInvariant, ArrayInit, ArrayNext, PTL DEF CommandSpec

\* The driver is asked for what the arrays say, also after a command whose caller
\* was told that it failed.
THEOREM ArraysAreDesiredCorrect == CommandSpec => []ArraysAreDesired
  BY ArrayInvariant, PTL DEF ArrayInv

\* A request is answered with success only when the relays were verified to be
\* what the arrays say at that moment.
THEOREM AcceptedIsVerifiedCorrect == CommandSpec => AcceptedIsVerified
  <1> DEFINE Accepted == (task[Web] = "called" /\ answer' = "accepted" /\ task'[Web] = "idle") =>
                            applied' = Effective'
  <1>1. DataOK /\ SavingInv /\ ArrayInv /\ ArrayInv' /\ [CommandNext]_allVars => [Accepted]_allVars
    <2> SUFFICES ASSUME DataOK, SavingInv, ArrayInv, ArrayInv', CommandNext,
                        task[Web] = "called", answer' = "accepted", task'[Web] = "idle"
                 PROVE  applied' = Effective'
      OBVIOUS
    <2>1. DriverReturns(Web)
      BY CallersAssumption
         DEF CommandNext, WriteSlot, DriverReturns, Returns, WebRequest, WebTakes, WebTimeout,
             InitializeObjects, StartupCompletes, SessionOpens, SessionEnds, IterationBegins,
             IterationEnds, Reboot, DriverStep, commandVars, At, MoveTo, ArrayInv, CallInv
    <2>2. Finish(Web) /\ frame[Web].outcome # "failed"
      BY <2>1 DEF DriverReturns, Returns, ResultOf
    <2>3. desired' = desired /\ applied' = applied /\ applied = desired
      BY <2>2, CallersAssumption DEF Finish, driverVars, ArrayInv, MaskInv, Holding
    <2>4. task'[Bacnet] # "boot"
      BY CallersAssumption, <2>1 DEF DriverReturns, Returns, MoveTo, At, ArrayInv, CallInv, BootInv
    <2> QED
      BY <2>3, <2>4 DEF ArrayInv, ArraysAreDesired
  <1> QED
    BY <1>1, ArrayInvariant, PTL DEF AcceptedIsVerified, CommandSpec

-----------------------------------------------------------------------------
(* Types                                                                   *)

\* What neither the arrays nor the driver say anything about.
RestInv ==
    /\ holder \in Callers \cup {NoTask}
    /\ session \in Sessions
    /\ answer \in Answers
    /\ stops \in Nat

LEMMA RestNext == RestInv /\ [CommandNext]_allVars => RestInv'
  <1> SUFFICES ASSUME RestInv, [CommandNext]_allVars PROVE RestInv'
    OBVIOUS
  <1> USE CallersAssumption DEF RestInv, Answers, Sessions, sessionVars
  <1>1. ASSUME NEW t \in Callers, NEW i \in Relays, NEW p \in Priorities, NEW value \in Values,
               WriteSlot(t, i, p, value)
        PROVE  RestInv'
    BY <1>1 DEF WriteSlot
  <1>2. ASSUME NEW t \in Callers, DriverReturns(t)
        PROVE  RestInv'
    BY <1>2 DEF DriverReturns, Returns, ResultOf
  <1>3. CASE WebRequest \/ WebTakes \/ WebTimeout
    BY <1>3 DEF WebRequest, WebTakes, WebTimeout
  <1>4. CASE InitializeObjects \/ StartupCompletes \/ SessionOpens \/ SessionEnds
    BY <1>4 DEF InitializeObjects, StartupCompletes, SessionOpens, SessionEnds
  <1>5. CASE IterationBegins \/ IterationEnds
    BY <1>5 DEF IterationBegins, IterationEnds
  <1>6. ASSUME NEW power \in BOOLEAN, Reboot(power)
        PROVE  RestInv'
    BY <1>6 DEF Reboot
  <1>7. CASE DriverStep \/ UNCHANGED allVars
    <2>1. holder' = holder /\ session' = session /\ answer' = answer /\ stops' = stops
      BY <1>7, Zenon DEF DriverStep, allVars, commandVars, sessionVars
    <2> QED
      BY <2>1
  <1> QED
    BY <1>1, <1>2, <1>3, <1>4, <1>5, <1>6, <1>7, CommandStepCases, Zenon

\* The Boolean variables stay Boolean.
SignInv == fault \in BOOLEAN /\ complete \in BOOLEAN /\ running \in BOOLEAN

LEMMA SignNext == SignInv /\ [CommandNext]_allVars => SignInv'
  <1> SUFFICES ASSUME SignInv, [CommandNext]_allVars PROVE SignInv'
    OBVIOUS
  <1> USE DEF SignInv, sessionVars
  <1>1. ASSUME NEW t \in Callers, NEW i \in Relays, NEW p \in Priorities, NEW value \in Values,
               WriteSlot(t, i, p, value)
        PROVE  SignInv'
    BY <1>1, Zenon DEF WriteSlot
  <1>2. ASSUME NEW t \in Callers, DriverReturns(t)
        PROVE  SignInv'
    <2>1. PICK result : Returns(t, result)
      BY <1>2, Zenon DEF DriverReturns
    <2>2. running' = running /\ complete' = complete /\ fault' = (result # "accepted")
      BY <2>1, Zenon DEF Returns
    <2> QED
      BY <2>2, Zenon
  <1>3. CASE WebRequest \/ WebTakes \/ WebTimeout
    BY <1>3, Zenon DEF WebRequest, WebTakes, WebTimeout
  <1>4. CASE InitializeObjects \/ StartupCompletes \/ SessionOpens \/ SessionEnds
    BY <1>4, Zenon DEF InitializeObjects, StartupCompletes, SessionOpens, SessionEnds
  <1>5. CASE IterationBegins \/ IterationEnds
    BY <1>5, Zenon DEF IterationBegins, IterationEnds
  <1>6. ASSUME NEW power \in BOOLEAN, Reboot(power)
        PROVE  SignInv'
    BY <1>6, Zenon DEF Reboot
  <1>7. CASE DriverStep \/ UNCHANGED allVars
    BY <1>7, Zenon DEF DriverStep, allVars, commandVars
  <1> QED
    BY <1>1, <1>2, <1>3, <1>4, <1>5, <1>6, <1>7, CommandStepCases, Zenon

\* Every variable of the commands and of the driver keeps its type.
THEOREM CommandTypeCorrect == CommandSpec => []CommandTypeOK
  <1>1. CommandInit => RestInv /\ SignInv
    <2> SUFFICES ASSUME CommandInit PROVE RestInv /\ SignInv
      OBVIOUS
    <2>1. /\ holder = NoTask /\ answer = "none" /\ stops = 0 /\ session = "down"
          /\ fault = FALSE /\ complete = FALSE /\ running = FALSE
      BY Zenon DEF CommandInit
    <2>2. SignInv
      BY <2>1, Zenon DEF SignInv
    <2> QED
      BY <2>1, <2>2 DEF RestInv, Answers, Sessions
  <1>2. CommandSpec => [](RestInv /\ SignInv)
    BY <1>1, RestNext, SignNext, PTL DEF CommandSpec
  <1>3. TypeOK /\ ArrayInv /\ LateInv /\ RestInv /\ SignInv => CommandTypeOK
    BY DEF ArrayInv, CallInv, LateInv, RestInv, SignInv, CommandTypeOK
  <1> QED
    BY <1>2, <1>3, CommandImplementsDriver, TypeCorrect, ArrayInvariant, LateInit, LateNext, PTL
       DEF CommandSpec
=============================================================================
