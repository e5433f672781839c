------------------------------ MODULE ConfigStore ------------------------------
(***************************************************************************)
(* The saved configuration of one controller and the automatic assignment  *)
(* of its BACnet instance.  Three copies of the configuration exist: the   *)
(* blob in NVS, s_config of src/main/config_store.c and s_config of        *)
(* src/main/bacnet_app.c.  The HTTP server task edits a copy it took       *)
(* earlier, bacnet_task saves the instance it selected, any NVS write may  *)
(* fail (with or without having stored the blob), any read at boot may     *)
(* fail, and the power may go at any time.  A configuration is its         *)
(* instance, the mode of the instance and its revision; the other settings *)
(* only move the revision.                                                 *)
(***************************************************************************)
EXTENDS Integers

CONSTANTS
    Range,        \* the automatic instances, 599000 .. 599999
    Others,       \* the other instances a user may set
    Default,      \* FW_DEFAULT_DEVICE_INSTANCE
    None,         \* no configuration, no request, no instance in a request
    MaxRevision   \* bound on the database revision

ASSUME InstanceAssumption ==
    /\ Default \in Range
    /\ Range \cap Others = {}
    /\ None \notin Range \cup Others

ASSUME RevisionAssumption == MaxRevision \in Nat \ {0}

Instances == Range \cup Others
Modes == {"legacy", "new", "check", "locked", "manual"}
Configs == [mode : Modes, instance : Instances, revision : 1 .. MaxRevision]

ASSUME NoneAssumption == None \notin Configs

VARIABLES
    nvs,       \* the blob "config" in NVS, None when there is none
    ram,       \* s_config of config_store.c
    task,      \* s_config of bacnet_app.c
    state,     \* the controller: off, waiting for a session, or s_instance.state
    web,       \* the copy a configuration request edited, None between requests
    asks,      \* history: whether that request is about the instance or other settings
    inDoubt,   \* history: the last write that touched NVS was reported as failed
    userSaved, \* history: a user's update was acknowledged since the boot
    misread    \* history: the last boot could not read what NVS holds, or erased it

copies == <<nvs, ram, task>>
flags == <<inDoubt, userSaved, misread>>
vars == <<copies, state, web, asks, flags>>

SessionStates == {"choosing", "ready", "saveFailed", "configChanged"}
On == state # "off"

Outcomes == {"stored", "failed", "failedStored"}

\* config_model_defaults
Defaults == [mode |-> "new", instance |-> Default, revision |-> 1]

Init ==
    /\ nvs \in {None} \cup Configs
    /\ ram = Defaults /\ task = Defaults
    /\ state = "off"
    /\ web = None /\ asks = "other"
    /\ inDoubt = FALSE /\ userSaved = FALSE /\ misread = FALSE

-----------------------------------------------------------------------------
(* config_model.c *)

\* config_model_instance_pending
Pending(c) == c.mode \in {"new", "check"}

\* config_model_migrate_instance_mode
Migrate(c) ==
    [c EXCEPT !.mode =
        IF c.mode = "locked" /\ c.instance \notin Range THEN "manual"
        ELSE IF c.mode # "legacy" THEN c.mode
        ELSE IF c.instance = Default THEN "check" ELSE "manual"]

\* Slip: the revision is not compared.
PendingIsEnough(c, revision) == Pending(c)

\* config_model_assign_instance: the guard and the result.
MayAssign(c, revision) == Pending(c) /\ c.revision = revision

Assigned(c, instance) ==
    [mode |-> "locked", instance |-> instance, revision |-> c.revision + 1]

\* The fields of PUT /api/v1/config that concern the instance; a request without
\* them changes other settings.  reselect needs an automatic mode.
Requests ==
    {r \in [automatic : {"absent", "yes", "no"}, instance : Instances \cup {None},
            reselect : {"yes", "no"}] : r.reselect = "yes" => r.automatic = "yes"}

SetsManual(r) == r.automatic = "no" \/ (r.automatic = "absent" /\ r.instance # None)

Selects(c, r) == r.automatic = "yes" /\ (r.reselect = "yes" \/ c.mode = "manual")

\* config_model_instance_options
Options(c, r) ==
    [c EXCEPT !.mode = IF Selects(c, r) THEN "new" ELSE IF SetsManual(r) THEN "manual" ELSE @,
              !.instance = IF SetsManual(r) /\ r.instance # None THEN r.instance ELSE @]

-----------------------------------------------------------------------------
(* config_store.c *)

\* write_config_blob: a failure may be reported after the blob was stored.
Write(c, outcome) ==
    /\ nvs' = IF outcome = "failed" THEN nvs ELSE c
    /\ inDoubt' = (outcome = "failedStored" \/ (inDoubt /\ outcome = "failed"))

\* Slip: the copy in memory follows a write that failed.
AlwaysKept(outcome) == TRUE

Kept(outcome) == outcome = "stored"

\* nvs_flash_init finds a partition it cannot use, and app_main erases it.
PartitionErased ==
    /\ ~On /\ nvs # None
    /\ nvs' = None
    /\ inDoubt' = FALSE /\ userSaved' = FALSE /\ misread' = TRUE
    /\ UNCHANGED <<ram, task, state, web, asks>>

\* config_store_init on a configuration that needs no writing.
BootLoaded ==
    /\ ~On /\ nvs # None /\ Migrate(nvs) = nvs
    /\ ram' = nvs /\ task' = nvs
    /\ state' = "waiting"
    /\ inDoubt' = FALSE /\ userSaved' = FALSE /\ misread' = FALSE
    /\ UNCHANGED <<nvs, web, asks>>

\* A failing nvs_open or nvs_get_blob is like no configuration.
Found(readable) == IF readable THEN nvs ELSE None

\* config_store_init writes the defaults or the migrated configuration; a
\* failure is fatal and the controller starts again.
BootWrites(readable, outcome) ==
    LET found == Found(readable)
        initial == IF found = None THEN Defaults ELSE Migrate(found)
    IN /\ ~On /\ initial # found
       /\ nvs' = IF outcome = "failed" THEN nvs ELSE initial
       /\ IF outcome = "stored"
          THEN ram' = initial /\ task' = initial /\ state' = "waiting"
          ELSE UNCHANGED <<ram, task, state>>
       /\ inDoubt' = FALSE /\ userSaved' = FALSE /\ misread' = ~readable
       /\ UNCHANGED <<web, asks>>

\* The handler of PUT /api/v1/config takes its copy and edits it.
RequestArrives(r) ==
    /\ On /\ web = None
    /\ web' = Options(ram, r)
    /\ asks' = IF SetsManual(r) \/ Selects(ram, r) THEN "instance" ELSE "other"
    /\ UNCHANGED <<copies, state, flags>>

\* Slip: an update based on an older configuration is accepted.
AnyRevision(c) == TRUE

CurrentRevision(c) == c.revision = ram.revision

\* config_store_update on a configuration that changed meanwhile: 409.
UpdateRefused ==
    /\ On /\ web # None /\ ~CurrentRevision(web)
    /\ web' = None
    /\ UNCHANGED <<copies, state, asks, flags>>

\* config_store_update
Update(outcome) ==
    LET candidate == [web EXCEPT !.revision = ram.revision + 1]
    IN /\ On /\ web # None /\ CurrentRevision(web)
       /\ ram.revision < MaxRevision
       /\ Write(candidate, outcome)
       /\ ram' = IF Kept(outcome) THEN candidate ELSE ram
       /\ userSaved' = (userSaved \/ outcome = "stored")
       /\ web' = None
       /\ UNCHANGED <<task, state, asks, misread>>

-----------------------------------------------------------------------------
(* bacnet_app.c *)

\* bacnet_instance_start, from the configuration bacnet_task knows.
SessionStart ==
    /\ state = "waiting"
    /\ state' = IF Pending(task) THEN "choosing" ELSE "ready"
    /\ UNCHANGED <<copies, web, asks, flags>>

\* The network changed.
SessionEnd ==
    /\ state \in SessionStates
    /\ state' = "waiting"
    /\ UNCHANGED <<copies, web, asks, flags>>

\* INSTANCE_SAVE on a configuration that changed: config_store_assign_instance
\* returns ESP_ERR_INVALID_STATE.
AssignRefused ==
    /\ state = "choosing" /\ ~MayAssign(ram, task.revision)
    /\ state' = "configChanged"
    /\ UNCHANGED <<copies, web, asks, flags>>

\* Slip: the instance is used although it could not be saved.
ReadyAnyway(outcome) == "ready"

StateAfterSave(outcome) == IF outcome = "stored" THEN "ready" ELSE "saveFailed"

\* INSTANCE_SAVE, config_store_assign_instance, bacnet_instance_saved
Assign(instance, outcome) ==
    LET candidate == Assigned(ram, instance)
    IN /\ state = "choosing" /\ MayAssign(ram, task.revision)
       /\ ram.revision < MaxRevision
       /\ Write(candidate, outcome)
       /\ ram' = IF Kept(outcome) THEN candidate ELSE ram
       /\ task' = IF outcome = "stored" THEN candidate ELSE task
       /\ state' = StateAfterSave(outcome)
       /\ UNCHANGED <<web, asks, userSaved, misread>>

\* A power cut or a reboot; the copies in memory are no longer used.
PowerOff ==
    /\ On
    /\ state' = "off" /\ web' = None
    /\ inDoubt' = FALSE /\ userSaved' = FALSE
    /\ UNCHANGED <<copies, asks, misread>>

-----------------------------------------------------------------------------
Boot ==
    \/ PartitionErased \/ BootLoaded
    \/ \E readable \in BOOLEAN, outcome \in Outcomes : BootWrites(readable, outcome)

WebStep ==
    \/ \E r \in Requests : RequestArrives(r)
    \/ UpdateRefused
    \/ \E outcome \in Outcomes : Update(outcome)

TaskStep ==
    \/ SessionStart \/ SessionEnd \/ AssignRefused
    \/ \E instance \in Range, outcome \in Outcomes : Assign(instance, outcome)

Next == Boot \/ WebStep \/ TaskStep \/ PowerOff

Spec == Init /\ [][Next]_vars

-----------------------------------------------------------------------------
(* Properties *)

\* Every variable has its type, and a booted controller has migrated: it runs on
\* no legacy mode and on no lock outside the automatic range.
DataOK ==
    /\ nvs \in Configs \cup {None}
    /\ ram \in Configs /\ task \in Configs
    /\ state \in SessionStates \cup {"off", "waiting"}
    /\ web \in Configs \cup {None}
    /\ asks \in {"instance", "other"}

FlagsOK == inDoubt \in BOOLEAN /\ userSaved \in BOOLEAN /\ misread \in BOOLEAN

Migrated(c) == c.mode # "legacy" /\ (c.mode = "locked" => c.instance \in Range)

TypeOK == DataOK /\ FlagsOK /\ (On => Migrated(ram) /\ Migrated(task))

\* The point services run only under an instance that is saved: until a user
\* changes the configuration, a power cut finds in NVS what the service uses
\* (docs/AUTOMATIC_INSTANCE.md: locked immediately, before use).
ReadyMeansSaved ==
    state = "ready" =>
        /\ ~Pending(task)
        /\ nvs.revision <= task.revision => nvs = task

\* What the management interface shows is what the next boot will load, unless
\* the last write failed half way: a save that failed leaves both copies alone.
StoreCoherent == On /\ ~inDoubt => ram = nvs

\* A settled instance, manual or locked, is changed by an explicit request for
\* another one and by nothing else: no request about other settings, no form
\* loaded before the assignment finished, no restart and no assignment changes it
\* (docs/AUTOMATIC_INSTANCE.md:5, :41).  The exception, which that document does
\* not make, is a boot that cannot read the saved configuration, or erases it: it
\* writes the defaults over it, and a new instance is chosen (config_store.c:73-96,
\* app_main.c:61-65).
Settled(c) == c # None /\ (c.mode = "manual" \/ (c.mode = "locked" /\ c.instance \in Range))

SettledStays ==
    [][Settled(nvs) /\ ~inDoubt =>
         \/ nvs' # None /\ nvs'.mode = nvs.mode /\ nvs'.instance = nvs.instance
         \/ web # None /\ web' = None /\ asks = "instance"
         \/ state = "off" /\ misread']_vars

\* Once a user's update was accepted, the assignment that was under way does not
\* write the configuration any more: the controller asks for a reboot instead
\* (docs/AUTOMATIC_INSTANCE.md: instead of overwriting the user's changes).
AssignmentYields ==
    [][userSaved /\ state = "choosing" /\ web' = web => nvs' = nvs]_vars

-----------------------------------------------------------------------------
(* What makes the properties inductive *)

\* How the copies of a running controller relate: bacnet_task is at the revision
\* of config_store.c or behind it, NVS is at it or one ahead after a doubtful
\* write, and a request is compared by the revision of the copy it took.
CopiesInv ==
    /\ Migrated(ram) /\ Migrated(task)
    /\ task.revision <= ram.revision
    /\ task.revision = ram.revision => task = ram
    /\ ~inDoubt => nvs = ram
    /\ inDoubt => nvs # None /\ nvs.revision = ram.revision + 1
    /\ userSaved => task.revision < ram.revision
    /\ state = "ready" => ~Pending(task)

WebInv ==
    web # None =>
        /\ Migrated(web)
        /\ web.revision <= ram.revision
        /\ web.revision = ram.revision /\ asks = "other" =>
              web.mode = ram.mode /\ web.instance = ram.instance

StoreInv == IF On THEN CopiesInv /\ WebInv ELSE web = None
=============================================================================
