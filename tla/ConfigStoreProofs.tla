--------------------------- MODULE ConfigStoreProofs ---------------------------
(***************************************************************************)
(* Proofs about ConfigStore, for any ranges of instances and any bound on  *)
(* the revision.                                                           *)
(***************************************************************************)
EXTENDS ConfigStore, TLAPS

\* Each action, as the cases of a step.
LEMMA StepCases ==
    ASSUME [Next]_vars
    PROVE  \/ PartitionErased \/ BootLoaded
           \/ \E readable \in BOOLEAN, outcome \in Outcomes : BootWrites(readable, outcome)
           \/ \E r \in Requests : RequestArrives(r)
           \/ UpdateRefused
           \/ \E outcome \in Outcomes : Update(outcome)
           \/ SessionStart \/ SessionEnd \/ AssignRefused
           \/ \E instance \in Range, outcome \in Outcomes : Assign(instance, outcome)
           \/ PowerOff
           \/ UNCHANGED vars
  BY DEF Next, Boot, WebStep, TaskStep

-----------------------------------------------------------------------------
(* The operators on a configuration *)

\* The default configuration is one.
LEMMA DefaultsType == Defaults \in Configs /\ Migrated(Defaults)
  BY InstanceAssumption, RevisionAssumption
     DEF Defaults, Configs, Modes, Instances, Migrated

\* Migration yields a configuration without a legacy mode or a lock out of range,
\* and leaves a settled one alone.
LEMMA MigrateFacts ==
    ASSUME NEW c \in Configs
    PROVE  /\ Migrate(c) \in Configs
           /\ Migrated(Migrate(c))
           /\ Settled(c) => Migrate(c) = c
  BY DEF Migrate, Migrated, Configs, Modes, Settled

\* A request edits mode and instance and nothing else; a request that does not
\* ask for an instance leaves both alone.
LEMMA OptionsFacts ==
    ASSUME NEW c \in Configs, Migrated(c), NEW r \in Requests
    PROVE  /\ Options(c, r) \in Configs
           /\ Migrated(Options(c, r))
           /\ Options(c, r).revision = c.revision
           /\ ~SetsManual(r) /\ ~Selects(c, r) =>
                 Options(c, r).mode = c.mode /\ Options(c, r).instance = c.instance
  BY InstanceAssumption
     DEF Options, Migrated, Configs, Modes, Instances, Requests, SetsManual, Selects

\* An assignment yields a locked configuration of the next revision.
LEMMA AssignedFacts ==
    ASSUME NEW c \in Configs, c.revision < MaxRevision, NEW i \in Range
    PROVE  /\ Assigned(c, i) \in Configs
           /\ Migrated(Assigned(c, i))
           /\ ~Pending(Assigned(c, i))
           /\ Assigned(c, i).revision = c.revision + 1
  BY RevisionAssumption DEF Assigned, Migrated, Pending, Configs, Modes, Instances

\* An update is the request at the next revision.
LEMMA UpdatedFacts ==
    ASSUME NEW c \in Configs, NEW d \in Configs, Migrated(c), d.revision < MaxRevision
    PROVE  LET candidate == [c EXCEPT !.revision = d.revision + 1]
           IN /\ candidate \in Configs
              /\ Migrated(candidate)
              /\ candidate.revision = d.revision + 1
              /\ candidate.mode = c.mode /\ candidate.instance = c.instance
  BY RevisionAssumption DEF Migrated, Configs

-----------------------------------------------------------------------------
(* Type correctness and how the copies relate                              *)

StoreOK == DataOK /\ StoreInv

\* The controller starts switched off.
LEMMA InitStore == Init => StoreOK /\ FlagsOK
  <1> SUFFICES ASSUME Init PROVE StoreOK /\ FlagsOK
    OBVIOUS
  <1>1. DataOK
    BY DefaultsType DEF Init, DataOK
  <1>2. StoreInv
    BY DEF Init, StoreInv, On
  <1>3. FlagsOK
    BY DEF Init, FlagsOK
  <1> QED
    BY <1>1, <1>2, <1>3 DEF StoreOK

\* Flags are set to TRUE or FALSE, copied, or combined.
LEMMA NextFlags == FlagsOK /\ [Next]_vars => FlagsOK'
  <1> SUFFICES ASSUME FlagsOK, [Next]_vars PROVE FlagsOK'
    OBVIOUS
  <1> USE DEF FlagsOK, flags
  <1>1. CASE PartitionErased \/ BootLoaded
    BY <1>1 DEF PartitionErased, BootLoaded
  <1>2. ASSUME NEW readable \in BOOLEAN, NEW outcome \in Outcomes, BootWrites(readable, outcome)
        PROVE  FlagsOK'
    BY <1>2 DEF BootWrites
  <1>3. ASSUME NEW r \in Requests, RequestArrives(r) PROVE FlagsOK'
    BY <1>3 DEF RequestArrives
  <1>4. CASE UpdateRefused
    BY <1>4 DEF UpdateRefused
  <1>5. ASSUME NEW outcome \in Outcomes, Update(outcome) PROVE FlagsOK'
    BY <1>5 DEF Update, Write
  <1>6. CASE SessionStart \/ SessionEnd \/ AssignRefused
    BY <1>6 DEF SessionStart, SessionEnd, AssignRefused
  <1>7. ASSUME NEW i \in Range, NEW outcome \in Outcomes, Assign(i, outcome) PROVE FlagsOK'
    BY <1>7 DEF Assign, Write
  <1>8. CASE PowerOff
    BY <1>8 DEF PowerOff
  <1>9. CASE UNCHANGED vars
    BY <1>9 DEF vars
  <1> QED
    BY <1>1, <1>2, <1>3, <1>4, <1>5, <1>6, <1>7, <1>8, <1>9, StepCases

\* Booting: all copies are what NVS holds, or will hold once it was written; what
\* could not be read is written over.
LEMMA BootStep ==
    ASSUME StoreOK, Boot
    PROVE  StoreOK'
  <1> USE DEF StoreOK, StoreInv, CopiesInv, On, DataOK, SessionStates, Outcomes
  <1>1. CASE BootLoaded
    <2>1. nvs \in Configs /\ Migrated(nvs)
      BY <1>1, MigrateFacts DEF BootLoaded
    <2> QED
      BY <1>1, <2>1 DEF BootLoaded, WebInv, Configs
  <1>2. ASSUME NEW readable \in BOOLEAN, NEW outcome \in Outcomes, BootWrites(readable, outcome)
        PROVE  StoreOK'
    <2> DEFINE initial == IF Found(readable) = None THEN Defaults ELSE Migrate(Found(readable))
    <2>1. initial \in Configs /\ Migrated(initial)
      <3>1. Found(readable) \in Configs \cup {None}
        BY DEF Found
      <3> QED
        BY <3>1, DefaultsType, MigrateFacts
    <2> HIDE DEF initial
    <2>2. /\ state = "off" /\ web = None /\ web' = None /\ asks' = asks
          /\ nvs' = (IF outcome = "failed" THEN nvs ELSE initial)
          /\ IF outcome = "stored"
             THEN ram' = initial /\ task' = initial /\ state' = "waiting"
             ELSE UNCHANGED <<ram, task, state>>
          /\ ~inDoubt' /\ ~userSaved'
      BY <1>2 DEF BootWrites, initial
    <2>3. CASE outcome = "stored"
      BY <2>1, <2>2, <2>3 DEF WebInv, Configs
    <2>4. CASE outcome # "stored"
      BY <2>1, <2>2, <2>4
    <2> QED
      BY <2>3, <2>4
  <1>3. CASE PartitionErased
    BY <1>3 DEF PartitionErased
  <1> QED
    BY <1>1, <1>2, <1>3 DEF Boot

\* The HTTP server: a copy is edited, then refused or written.
LEMMA WebStepStore ==
    ASSUME StoreOK, WebStep
    PROVE  StoreOK'
  <1> USE DEF StoreOK, StoreInv, CopiesInv, WebInv, On, DataOK, SessionStates, copies, flags
  <1>1. ASSUME NEW r \in Requests, RequestArrives(r) PROVE StoreOK'
    <2>1. ram \in Configs /\ Migrated(ram)
      BY <1>1 DEF RequestArrives
    <2>2. /\ Options(ram, r) \in Configs /\ Migrated(Options(ram, r))
          /\ Options(ram, r).revision = ram.revision
          /\ ~SetsManual(r) /\ ~Selects(ram, r) =>
                Options(ram, r).mode = ram.mode /\ Options(ram, r).instance = ram.instance
      BY <2>1, OptionsFacts
    <2> QED
      BY <1>1, <2>1, <2>2 DEF RequestArrives, Configs
  <1>2. CASE UpdateRefused
    BY <1>2 DEF UpdateRefused
  <1>3. ASSUME NEW outcome \in Outcomes, Update(outcome) PROVE StoreOK'
    <2> DEFINE candidate == [web EXCEPT !.revision = ram.revision + 1]
    <2>1. web \in Configs /\ ram \in Configs /\ task \in Configs /\ Migrated(web)
          /\ ram.revision < MaxRevision
      BY <1>3 DEF Update
    <2>2. candidate \in Configs /\ Migrated(candidate)
          /\ candidate.revision = ram.revision + 1
      BY <2>1, UpdatedFacts
    <2> HIDE DEF candidate
    <2>3. /\ nvs' = (IF outcome = "failed" THEN nvs ELSE candidate)
          /\ ram' = (IF outcome = "stored" THEN candidate ELSE ram)
          /\ web' = None /\ UNCHANGED <<task, state, asks>>
      BY <1>3 DEF Update, Write, Kept, candidate
    <2>4. inDoubt' <=> (outcome = "failedStored" \/ (inDoubt /\ outcome = "failed"))
      BY <1>3 DEF Update, Write
    <2>5. userSaved' <=> (userSaved \/ outcome = "stored")
      BY <1>3 DEF Update
    <2>6. On
      BY <1>3 DEF Update
    <2>7. ram.revision \in Int /\ task.revision \in Int /\ nvs' \in Configs \cup {None}
      BY <2>1, <2>2, <2>3 DEF Configs
    <2>8. CASE outcome = "stored"
      BY <2>1, <2>2, <2>3, <2>4, <2>5, <2>6, <2>7, <2>8
    <2>9. CASE outcome = "failed"
      BY <2>1, <2>2, <2>3, <2>4, <2>5, <2>6, <2>7, <2>9
    <2>10. CASE outcome = "failedStored"
      BY <2>1, <2>2, <2>3, <2>4, <2>5, <2>6, <2>7, <2>10, NoneAssumption
    <2> QED
      BY <2>8, <2>9, <2>10 DEF Outcomes
  <1> QED
    BY <1>1, <1>2, <1>3 DEF WebStep

\* bacnet_task: sessions, and the save of the chosen instance.
LEMMA TaskStepStore ==
    ASSUME StoreOK, TaskStep
    PROVE  StoreOK'
  <1> USE DEF StoreOK, StoreInv, CopiesInv, WebInv, On, DataOK, SessionStates, copies, flags
  <1>1. CASE SessionStart
    BY <1>1 DEF SessionStart
  <1>2. CASE SessionEnd
    BY <1>2 DEF SessionEnd
  <1>3. CASE AssignRefused
    BY <1>3 DEF AssignRefused
  <1>4. ASSUME NEW i \in Range, NEW outcome \in Outcomes, Assign(i, outcome) PROVE StoreOK'
    <2> DEFINE candidate == Assigned(ram, i)
    <2>1. ram \in Configs /\ task \in Configs /\ ram.revision < MaxRevision
          /\ ram.revision = task.revision
      BY <1>4 DEF Assign, MayAssign
    <2>2. candidate \in Configs /\ Migrated(candidate) /\ ~Pending(candidate)
          /\ candidate.revision = ram.revision + 1
      BY <2>1, AssignedFacts
    <2> HIDE DEF candidate
    <2>3. /\ nvs' = (IF outcome = "failed" THEN nvs ELSE candidate)
          /\ ram' = (IF outcome = "stored" THEN candidate ELSE ram)
          /\ task' = (IF outcome = "stored" THEN candidate ELSE task)
          /\ state = "choosing"
          /\ state' = (IF outcome = "stored" THEN "ready" ELSE "saveFailed")
          /\ UNCHANGED <<web, asks>>
      BY <1>4 DEF Assign, Write, Kept, StateAfterSave, candidate
    <2>4. inDoubt' <=> (outcome = "failedStored" \/ (inDoubt /\ outcome = "failed"))
      BY <1>4 DEF Assign, Write
    <2>5. userSaved' <=> userSaved
      BY <1>4 DEF Assign
    <2>6. ram.revision \in Int /\ (web # None => web.revision \in Int)
      BY <2>1 DEF Configs
    <2>7. ~userSaved
      BY <2>1, <2>3, <2>6
    <2>8. CASE outcome = "stored"
      BY <2>1, <2>2, <2>3, <2>4, <2>5, <2>6, <2>7, <2>8
    <2>9. CASE outcome = "failed"
      BY <2>1, <2>2, <2>3, <2>4, <2>5, <2>6, <2>7, <2>9
    <2>10. CASE outcome = "failedStored"
      BY <2>1, <2>2, <2>3, <2>4, <2>5, <2>6, <2>7, <2>10, NoneAssumption
    <2> QED
      BY <2>8, <2>9, <2>10 DEF Outcomes
  <1> QED
    BY <1>1, <1>2, <1>3, <1>4 DEF TaskStep

\* Every step keeps types and relations.
LEMMA NextStore == StoreOK /\ [Next]_vars => StoreOK'
  <1> SUFFICES ASSUME StoreOK, [Next]_vars PROVE StoreOK'
    OBVIOUS
  <1>1. CASE PowerOff
    BY <1>1 DEF PowerOff, StoreOK, StoreInv, DataOK, On, SessionStates, copies
  <1>2. CASE UNCHANGED vars
    BY <1>2 DEF vars, copies, flags, StoreOK, StoreInv, CopiesInv, WebInv, DataOK, On
  <1> QED
    BY <1>1, <1>2, BootStep, WebStepStore, TaskStepStore DEF Next

\* In every reachable state.
LEMMA StoreInvariant == Spec => [](StoreOK /\ FlagsOK)
  <1>1. StoreOK /\ FlagsOK /\ [Next]_vars => (StoreOK /\ FlagsOK)'
    BY NextStore, NextFlags
  <1> QED
    BY InitStore, <1>1, PTL DEF Spec

\* Every variable has its type, and no booted controller runs on a legacy mode or
\* on a lock outside the automatic range.
THEOREM TypeCorrect == Spec => []TypeOK
  <1>1. StoreOK /\ FlagsOK => TypeOK
    BY DEF StoreOK, StoreInv, CopiesInv, TypeOK
  <1> QED
    BY <1>1, StoreInvariant, PTL

\* The point services run only under an instance that a power cut would find
\* saved.
THEOREM ReadyMeansSavedCorrect == Spec => []ReadyMeansSaved
  <1>1. StoreOK /\ FlagsOK => ReadyMeansSaved
    <2> SUFFICES ASSUME StoreOK, state = "ready"
                 PROVE  ~Pending(task) /\ (nvs.revision <= task.revision => nvs = task)
      BY DEF ReadyMeansSaved
    <2>1. CopiesInv /\ ram.revision \in Int /\ task.revision \in Int
      BY DEF StoreOK, StoreInv, DataOK, Configs, On
    <2>2. CASE inDoubt
      BY <2>1, <2>2 DEF CopiesInv
    <2>3. CASE ~inDoubt
      BY <2>1, <2>3 DEF CopiesInv
    <2> QED
      BY <2>2, <2>3
  <1> QED
    BY <1>1, StoreInvariant, PTL

\* The configuration shown is the one the next boot loads, unless the last write
\* failed half way.
THEOREM StoreCoherentCorrect == Spec => []StoreCoherent
  <1>1. StoreOK /\ FlagsOK => StoreCoherent
    BY DEF StoreOK, StoreInv, CopiesInv, StoreCoherent
  <1> QED
    BY <1>1, StoreInvariant, PTL

\* No assignment writes the configuration after a user's update was accepted.
THEOREM AssignmentYieldsCorrect == Spec => AssignmentYields
  <1>1. ASSUME StoreOK, [Next]_vars
        PROVE  userSaved /\ state = "choosing" /\ web' = web => nvs' = nvs
    <2> SUFFICES ASSUME userSaved, state = "choosing", web' = web PROVE nvs' = nvs
      OBVIOUS
    <2>1. CopiesInv /\ ram.revision \in Int /\ task.revision \in Int
      BY <1>1 DEF StoreOK, StoreInv, DataOK, Configs, On
    <2>2. /\ \A readable \in BOOLEAN, outcome \in Outcomes : ~BootWrites(readable, outcome)
          /\ \A outcome \in Outcomes : ~Update(outcome)
          /\ ~PartitionErased
      BY DEF BootWrites, Update, PartitionErased, On
    <2>3. ASSUME NEW i \in Range, NEW outcome \in Outcomes PROVE ~Assign(i, outcome)
      <3>1. task.revision < ram.revision
        BY <2>1 DEF CopiesInv
      <3>2. Assign(i, outcome) => ram.revision = task.revision
        BY DEF Assign, MayAssign
      <3> QED
        BY <2>1, <3>1, <3>2
    <2>4. ASSUME NEW r \in Requests, RequestArrives(r) PROVE nvs' = nvs
      BY <2>4 DEF RequestArrives, copies
    <2> QED
      BY <1>1, <2>2, <2>3, <2>4, StepCases
         DEF BootLoaded, UpdateRefused, SessionStart, SessionEnd, AssignRefused, PowerOff,
             vars, copies
  <1> QED
    BY <1>1, StoreInvariant, PTL DEF Spec, AssignmentYields

\* A settled instance changes only by the explicit request of a user, or at a boot
\* that cannot read it.
THEOREM SettledStaysCorrect == Spec => SettledStays
  <1> DEFINE Same == nvs' # None /\ nvs'.mode = nvs.mode /\ nvs'.instance = nvs.instance
             Asked == web # None /\ web' = None /\ asks = "instance"
             Misread == state = "off" /\ misread'
  <1>1. ASSUME StoreOK, [Next]_vars
        PROVE  Settled(nvs) /\ ~inDoubt => Same \/ Asked \/ Misread
    <2> SUFFICES ASSUME Settled(nvs), ~inDoubt PROVE Same \/ Asked \/ Misread
      OBVIOUS
    <2>1. nvs \in Configs /\ nvs # None
      BY <1>1 DEF Settled, StoreOK, DataOK
    <2>2. ASSUME nvs' = nvs PROVE Same
      BY <2>1, <2>2
    <2>3. ASSUME NEW readable \in BOOLEAN, NEW outcome \in Outcomes, BootWrites(readable, outcome)
          PROVE  Misread
      <3>1. CASE readable
        <4>1. Migrate(nvs) = nvs
          BY <2>1, MigrateFacts
        <4> QED
          BY <2>1, <2>3, <3>1, <4>1 DEF BootWrites, Found
      <3>2. CASE ~readable
        BY <2>3, <3>2 DEF BootWrites, On
      <3> QED
        BY <3>1, <3>2
    <2>7. PartitionErased => Misread
      BY DEF PartitionErased, On
    <2>4. ASSUME NEW i \in Range, NEW outcome \in Outcomes PROVE ~Assign(i, outcome)
      BY <1>1 DEF Assign, MayAssign, Pending, Settled, StoreOK, StoreInv, CopiesInv, On
    <2>5. ASSUME NEW outcome \in Outcomes, Update(outcome) PROVE Same \/ Asked
      <3> DEFINE candidate == [web EXCEPT !.revision = ram.revision + 1]
      <3>1. /\ On /\ web # None /\ web' = None /\ web.revision = ram.revision
            /\ ram.revision < MaxRevision
            /\ nvs' = (IF outcome = "failed" THEN nvs ELSE candidate)
        BY <2>5 DEF Update, Write, CurrentRevision
      <3>2. web \in Configs /\ ram \in Configs /\ Migrated(web) /\ nvs = ram
            /\ asks \in {"instance", "other"}
        BY <1>1, <3>1 DEF StoreOK, StoreInv, DataOK, CopiesInv, WebInv
      <3>3. candidate \in Configs /\ candidate.mode = web.mode
            /\ candidate.instance = web.instance
        BY <3>1, <3>2, UpdatedFacts
      <3>4. CASE asks = "other"
        <4>1. web.mode = ram.mode /\ web.instance = ram.instance
          BY <1>1, <3>1, <3>4 DEF StoreOK, StoreInv, WebInv
        <4> HIDE DEF candidate
        <4> QED
          BY <2>1, <3>1, <3>2, <3>3, <4>1, NoneAssumption
      <3> QED
        BY <3>1, <3>2, <3>4
    <2>6. ASSUME NEW r \in Requests, RequestArrives(r) PROVE nvs' = nvs
      BY <2>6 DEF RequestArrives, copies
    <2> HIDE DEF Same, Asked, Misread
    <2> QED
      BY <1>1, <2>2, <2>3, <2>4, <2>5, <2>6, <2>7, StepCases
         DEF BootLoaded, UpdateRefused, SessionStart, SessionEnd, AssignRefused, PowerOff,
             vars, copies
  <1> QED
    BY <1>1, StoreInvariant, PTL DEF Spec, SettledStays
=============================================================================
