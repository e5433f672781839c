-------------------------- MODULE RestartNotification --------------------------
(***************************************************************************)
(* The notification that tells BACnet peers that a controller restarted    *)
(* (src/main/bacnet_restart.c).  A list of recipients is kept in flash and *)
(* can be replaced over BACnet at any time; after startup the controller   *)
(* waits a bounded time for a valid clock, freezes the time of its restart *)
(* and from then on tries each recipient a bounded number of times, while  *)
(* the network, the clock and the bindings of recipients come and go.      *)
(* Everything here runs under the object mutex: an operation is a step.    *)
(***************************************************************************)
EXTENDS Naturals, SequencesExt

CONSTANTS
    Recipients,    \* recipients a client may list
    Devices,       \* those given as a Device identifier, which need a binding
    Broadcast,     \* the local broadcast, the list of a new controller
    MaxRecipients, \* BACNET_RESTART_RECIPIENTS_MAX
    AttemptsMax,   \* BACNET_RESTART_ATTEMPTS_MAX
    Times,         \* boot times a valid clock can tell
    Fallback,      \* 1990-01-01 00:00:00
    None,          \* no valid clock, no timestamp
    Missing,       \* no list in flash
    Corrupt        \* a list that cannot be decoded

Lists == SeqOf(Recipients, MaxRecipients)

ASSUME RecipientsAssumption ==
    /\ Broadcast \in Recipients \ Devices
    /\ Devices \subseteq Recipients
    /\ MaxRecipients \in Nat \ {0} /\ AttemptsMax \in Nat \ {0}
    /\ Missing # Corrupt /\ {Missing, Corrupt} \cap Lists = {}

ASSUME TimesAssumption == {Fallback, None} \cap Times = {} /\ Fallback # None

VARIABLES
    nvs,         \* the key "restart_rcpt"
    live,        \* s_recipients up to s_stats.recipients_count
    targets,     \* s_destinations up to s_destination_count
    pendingCount, \* s_stats.pending_recipients
    bootReady,   \* s_stats.boot_ready
    ready,       \* startup_ready in the loop of bacnet_task
    clock,       \* the boot time of clock_service, None while it is not valid
    snapshot,    \* s_clock_snapshot of bacnet_app.c
    waiting,     \* s_restart_clock.wait_started
    selected,    \* s_restart_clock.selected
    timestamp,   \* s_timestamp, None while not s_timestamp_valid
    deviceTime,  \* Time_Of_Device_Restart of the Device object
    inDoubt,     \* history: the last write was reported as failed
    misread      \* history: the list could not be read at boot

clockVars == <<snapshot, waiting, selected, timestamp, deviceTime>>
listVars == <<nvs, live, inDoubt, misread>>
targetVars == <<targets, pendingCount, bootReady>>
vars == <<listVars, targetVars, ready, clock, clockVars>>

Target == [recipient : Recipients, pending : BOOLEAN, canceled : BOOLEAN,
           accepted : BOOLEAN, attempts : 0 .. AttemptsMax]

NewTarget(recipient) ==
    [recipient |-> recipient, pending |-> TRUE, canceled |-> FALSE,
     accepted |-> FALSE, attempts |-> 0]

-----------------------------------------------------------------------------
(* Booting                                                                 *)

\* bacnet_restart_init: corruption is not permission to broaden the recipients.
Loaded(stored) ==
    CASE stored = Missing -> <<Broadcast>>
      [] stored = Corrupt -> <<>>
      [] OTHER            -> stored

Init ==
    /\ nvs \in Lists \cup {Missing, Corrupt}
    /\ live = Loaded(nvs)
    /\ targets = <<>> /\ pendingCount = 0 /\ bootReady = FALSE
    /\ ready = FALSE
    /\ clock \in Times \cup {None} /\ snapshot = clock
    /\ waiting = FALSE /\ selected = FALSE
    /\ timestamp = None /\ deviceTime = Fallback
    /\ inDoubt = FALSE /\ misread = FALSE

\* A restart at any time and initialize_restart_notification.  One in the middle of
\* a write leaves either list, as a failed write before the restart does; whatever
\* else happens to the key makes it corrupt.
Restart(stored, failed) ==
    /\ nvs' = stored
    /\ live' = IF failed THEN <<>> ELSE Loaded(stored)
    /\ targets' = <<>> /\ pendingCount' = 0 /\ bootReady' = FALSE
    /\ ready' = FALSE
    /\ clock' \in Times \cup {None} /\ snapshot' \in {clock', None}
    /\ waiting' = FALSE /\ selected' = FALSE
    /\ timestamp' = None /\ deviceTime' = Fallback
    /\ inDoubt' = FALSE /\ misread' = failed

-----------------------------------------------------------------------------
(* bacnet_restart_write_property: a client replaces the list               *)

\* Slip: nobody is canceled.
NeverCanceled(target, list) == FALSE

Canceled(target, list) == target.pending /\ target.recipient \notin ToSet(list)

\* config_store_restart_recipients_set: a list that is stored already is not
\* written again, and a failing write may have stored it all the same.
Outcomes(list) == {"stored", "failed"} \cup (IF nvs = list THEN {} ELSE {"failedStored"})

\* Slip: the live list is replaced whatever became of the stored one.
AlwaysPersisted(outcome) == TRUE

Persisted(outcome) == outcome = "stored"

Write(list, outcome) ==
    /\ nvs' = IF outcome = "failed" THEN nvs ELSE list
    /\ inDoubt' = (outcome = "failedStored" \/ (outcome = "failed" /\ inDoubt))
    /\ IF Persisted(outcome)
       THEN /\ live' = list
            /\ misread' = FALSE
            /\ targets' = [i \in DOMAIN targets |->
                 IF Canceled(targets[i], list)
                 THEN [targets[i] EXCEPT !.pending = FALSE, !.canceled = TRUE]
                 ELSE targets[i]]
            /\ pendingCount' = pendingCount
                 - Cardinality({i \in DOMAIN targets : Canceled(targets[i], list)})
       ELSE UNCHANGED <<live, misread, targets, pendingCount>>
    /\ UNCHANGED <<bootReady, ready, clock, clockVars>>

-----------------------------------------------------------------------------
(* The clock                                                               *)

\* clock_service synchronises, corrects itself or loses its validity.
ClockChanges ==
    /\ clock' \in (Times \cup {None}) \ {clock}
    /\ UNCHANGED <<listVars, targetVars, ready, clockVars>>

\* Slip: the Device keeps showing the boot time of the latest snapshot.
PollClockAndDevice ==
    /\ snapshot # clock
    /\ snapshot' = clock
    /\ deviceTime' = (IF clock = None THEN Fallback ELSE clock)
    /\ UNCHANGED <<listVars, targetVars, ready, clock, waiting, selected, timestamp>>

\* update_bacnet_clock, when a second has passed and the service is not busy.
PollClock ==
    /\ snapshot # clock
    /\ snapshot' = clock
    /\ UNCHANGED <<listVars, targetVars, ready, clock, waiting, selected, timestamp, deviceTime>>

\* Slip: a controller without a valid clock waits for one.
ChoiceMadeByClock(expired) == snapshot' # None

\* bacnet_restart_clock_select, with a clock that was polled again at the deadline.
ChoiceMade(expired) == snapshot' # None \/ (waiting /\ expired)

\* select_restart_timestamp, called when ready.
SelectTimestamp(expired, busy) ==
    /\ snapshot' = IF ~selected /\ waiting /\ expired /\ ~busy THEN clock ELSE snapshot
    /\ waiting' = TRUE
    /\ IF ~selected /\ ChoiceMade(expired)
       THEN /\ selected' = TRUE
            /\ IF bootReady
               THEN UNCHANGED <<timestamp, deviceTime>>
               ELSE /\ timestamp' = IF snapshot' = None THEN Fallback ELSE snapshot'
                    /\ deviceTime' = timestamp'
       ELSE UNCHANGED <<selected, timestamp, deviceTime>>

-----------------------------------------------------------------------------
(* bacnet_restart_tick                                                     *)

\* What becomes of an attempt: only a Device identifier can lack a binding, and
\* the transport accepts or refuses the packet.
Results(recipient) ==
    {"accepted", "refused"} \cup (IF recipient \in Devices THEN {"unresolved"} ELSE {})

\* Slip: a recipient without a binding is given up at once.
AttemptedOnce(target, result) ==
    [target EXCEPT !.attempts = @ + 1,
                   !.accepted = result = "accepted",
                   !.pending = result = "refused" /\ target.attempts + 1 < AttemptsMax]

Attempted(target, result) ==
    [target EXCEPT !.attempts = @ + 1,
                   !.accepted = result = "accepted",
                   !.pending = result # "accepted" /\ target.attempts + 1 < AttemptsMax]

\* Slip: recipients are notified again when all are done.
TargetsEachEpisode ==
    IF bootReady /\ pendingCount > 0 THEN targets
    ELSE [i \in DOMAIN live |-> NewTarget(live[i])]

\* The recipients of this boot are those listed at the first tick.
TargetsOfBoot ==
    IF bootReady THEN targets ELSE [i \in DOMAIN live |-> NewTarget(live[i])]

\* One iteration of the loop of bacnet_task.  The pending targets were attempted
\* in the same iterations, so they fall due together: at once after the boot,
\* then a second after the last attempt.
Tick(due, expired, busy) ==
    /\ ready
    /\ SelectTimestamp(expired, busy)
    /\ IF timestamp' = None
       THEN UNCHANGED targetVars
       ELSE LET base == TargetsOfBoot IN
            \E results \in [DOMAIN base -> {"accepted", "refused", "unresolved"}] :
               /\ \A i \in DOMAIN base : results[i] \in Results(base[i].recipient)
               /\ bootReady' = TRUE
               /\ targets' = [i \in DOMAIN base |->
                                 IF base[i].pending /\ (due \/ ~bootReady)
                                 THEN Attempted(base[i], results[i])
                                 ELSE base[i]]
               /\ pendingCount' = (IF bootReady THEN pendingCount ELSE Len(base))
                    - Cardinality({i \in DOMAIN base : base[i].pending /\ ~targets'[i].pending})
    /\ UNCHANGED <<listVars, ready, clock>>

\* Startup completes and the session runs; the network is lost or the instance
\* no longer settled.
ReadyChanges ==
    /\ ready' = ~ready
    /\ UNCHANGED <<listVars, targetVars, clock, clockVars>>

Next ==
    \/ \E due, expired, busy \in BOOLEAN : Tick(due, expired, busy)
    \/ \E list \in Lists : \E outcome \in Outcomes(list) : Write(list, outcome)
    \/ PollClock
    \/ ClockChanges
    \/ ReadyChanges
    \/ \E stored \in {nvs, Corrupt}, failed \in BOOLEAN : Restart(stored, failed)

Spec == Init /\ [][Next]_vars

\* Time passes, so that as long as the network comes back there are iterations
\* with every deadline behind them.
FairSpec == Spec /\ SF_vars(\E busy \in BOOLEAN : Tick(TRUE, TRUE, busy))

-----------------------------------------------------------------------------
(* Properties *)

\* Every variable has its type; in particular no recipient is tried more often
\* than AttemptsMax times in a boot.
TypeOK ==
    /\ nvs \in Lists \cup {Missing, Corrupt}
    /\ live \in Lists
    /\ targets \in SeqOf(Target, MaxRecipients)
    /\ pendingCount \in 0 .. MaxRecipients
    /\ bootReady \in BOOLEAN /\ ready \in BOOLEAN
    /\ clock \in Times \cup {None} /\ snapshot \in Times \cup {None}
    /\ waiting \in BOOLEAN /\ selected \in BOOLEAN
    /\ timestamp \in Times \cup {Fallback, None}
    /\ deviceTime \in Times \cup {Fallback}
    /\ inDoubt \in BOOLEAN /\ misread \in BOOLEAN

\* The list a client reads back is the one the next boot will load, whatever
\* writes failed since (bacnet_restart.c:241: committed before it goes live), but
\* for a failing write that stored its list.  And "corruption is not permission to
\* broaden notification recipients": a list that is corrupt or could not be read
\* leaves nobody to notify until a client writes a new one (bacnet_restart.c:146).
LiveIsStored ==
    /\ ~inDoubt /\ ~misread /\ nvs # Corrupt => live = Loaded(nvs)
    /\ misread \/ nvs = Corrupt => live = <<>> /\ targets = <<>>

Done(target) == target.accepted \/ target.canceled \/ target.attempts = AttemptsMax

\* A recipient of this boot is done with only if the transport took the packet, a
\* client removed it or all attempts were made, and pending until then; the
\* number of pending ones that the management interface shows counts them,
\* however attempts, exhaustion and removals are mixed (bacnet_restart.c:344-393).
NoneForgotten ==
    /\ \A i \in DOMAIN targets : targets[i].pending <=> ~Done(targets[i])
    /\ pendingCount = Cardinality({i \in DOMAIN targets : targets[i].pending})

\* All notifications of a boot carry one restart time, and the Device property
\* shows the same: neither a late synchronisation nor a correction of the clock nor
\* the return of the network changes it once the first target is tried.
TimestampFrozen ==
    [][bootReady /\ bootReady' => timestamp' = timestamp /\ deviceTime' = timestamp]_vars

\* A recipient that was removed is not tried again in this boot, not even when it
\* was pending or is listed anew.
RemovedNotNotified ==
    [][bootReady /\ bootReady' =>
          \A i \in DOMAIN targets : targets'[i].attempts > targets[i].attempts =>
              ~targets[i].canceled /\ targets[i].recipient \in ToSet(live)]_vars

\* A recipient that is done with stays so until the next boot: no edit of the list
\* and no return of the network makes another restart out of this one.
OncePerBoot ==
    [][bootReady /\ bootReady' =>
          /\ DOMAIN targets' = DOMAIN targets
          /\ \A i \in DOMAIN targets : ~targets[i].pending => targets'[i] = targets[i]]_vars

\* When restarts end and the network keeps coming back, the restart time is chosen
\* and every recipient done with, also without any clock or binding.
RecipientsSettle ==
    []<>ready /\ <>[]waiting => <>[](bootReady /\ pendingCount = 0)
=============================================================================
