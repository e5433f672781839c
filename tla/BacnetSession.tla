----------------------------- MODULE BacnetSession -----------------------------
(***************************************************************************)
(* The BACnet service over a network that comes and goes.  The event loop  *)
(* task runs the handlers of src/main/ethernet_manager.c, which publish    *)
(* the address in two steps (state under a spinlock, then an event bit);   *)
(* bacnet_task of src/main/bacnet_app.c waits for the bit, snapshots the   *)
(* address, opens a session on it and leaves the session when the address  *)
(* or the revision counter changes.  Each session with a settled device    *)
(* instance starts a bounded I-Am campaign (src/main/bacnet_announcement.c)*)
(***************************************************************************)
EXTENDS Naturals

CONSTANTS
    Addresses,     \* IPv4 addresses the network may assign
    NoAddress,     \* s_ip_info after memset
    AttemptsMax,   \* BACNET_ANNOUNCEMENT_ATTEMPTS_MAX
    MaxEvents,     \* bound on network events, and so on the revision counter
    MaxBindFailures \* bound on failures to open the UDP socket

ASSUME AddressAssumption == NoAddress \notin Addresses

ASSUME BoundsAssumption ==
    /\ AttemptsMax \in Nat \ {0}
    /\ MaxEvents \in Nat
    /\ MaxBindFailures \in Nat

VARIABLES
    linkUp,     \* s_link_up
    hasIp,      \* s_has_ip
    ip,         \* s_ip_info.ip
    revision,   \* s_network_revision
    ipBit,      \* NETWORK_IP_BIT of s_events
    handler,    \* the event handler between its critical section and the bit
    pc,         \* where bacnet_task is
    info,       \* its local copy of s_ip_info
    seen,       \* its local copy of s_network_revision
    portIp,     \* IP address of Network Port 1, configured into the data link too
    running,    \* s_running
    startupComplete, \* s_startup_complete
    pending,    \* config_model_instance_pending(&s_config)
    instance,   \* s_instance.state: "choosing", "ready" or "stopped"
    ann,        \* s_announcement
    torn,       \* history: the address changed between its copy and that of the revision
    bindFailures

etherVars == <<linkUp, hasIp, ip, revision, ipBit, handler>>
sessionVars == <<info, seen, portIp, torn, bindFailures>>
serviceVars == <<running, pending, instance, ann>>
vars == <<etherVars, pc, sessionVars, serviceVars, startupComplete>>

TaskLabels == {"wait", "readInfo", "readRevision", "configure", "bind",
               "checkIp", "checkRevision", "body", "leave"}

IdleAnnouncement ==
    [ready |-> FALSE, pending |-> FALSE, exhausted |-> FALSE, due |-> FALSE, attempts |-> 0]

Init ==
    /\ linkUp = FALSE /\ hasIp = FALSE /\ ip = NoAddress /\ revision = 0
    /\ ipBit = FALSE /\ handler = "idle"
    /\ pc = "wait" /\ info = NoAddress /\ seen = 0 /\ portIp = NoAddress
    /\ running = FALSE /\ startupComplete = FALSE
    /\ pending \in BOOLEAN
    /\ instance = "choosing"
    /\ ann = IdleAnnouncement
    /\ torn = FALSE /\ bindFailures = 0

-----------------------------------------------------------------------------
(* ethernet_event_handler and ip_event_handler, on the event loop task     *)

\* The critical section of a handler; the bit follows in a step of its own.
Publish(has, address, next) ==
    /\ hasIp' = has
    /\ ip' = address
    /\ revision' = revision + 1
    /\ handler' = next
    /\ torn' = (torn \/ pc = "readRevision")
    /\ UNCHANGED <<ipBit, pc, info, seen, portIp, bindFailures, serviceVars, startupComplete>>

EventArrives == handler = "idle" /\ revision < MaxEvents

LinkUp ==
    /\ handler = "idle" /\ ~linkUp
    /\ linkUp' = TRUE
    /\ UNCHANGED <<hasIp, ip, revision, ipBit, handler, pc, sessionVars, serviceVars,
                   startupComplete>>

\* ETHERNET_EVENT_DISCONNECTED or ETHERNET_EVENT_STOP.
LinkDown ==
    /\ EventArrives /\ linkUp
    /\ linkUp' = FALSE
    /\ Publish(FALSE, NoAddress, "clearBit")

\* A lease, a renewed one, or one with another address.
GotIp(address) ==
    /\ EventArrives /\ linkUp
    /\ Publish(TRUE, address, "setBit")
    /\ UNCHANGED linkUp

LostIp ==
    /\ EventArrives
    /\ Publish(FALSE, NoAddress, "clearBit")
    /\ UNCHANGED linkUp

FinishEvent ==
    /\ handler # "idle"
    /\ ipBit' = (handler = "setBit")
    /\ handler' = "idle"
    /\ UNCHANGED <<linkUp, hasIp, ip, revision, pc, sessionVars, serviceVars, startupComplete>>

-----------------------------------------------------------------------------
(* bacnet_task: opening a session                                          *)

\* Slip: the wait consumes the bit (xClearOnExit).
WaitConsumesBit ==
    /\ pc = "wait" /\ ipBit
    /\ pc' = "readInfo"
    /\ ipBit' = FALSE
    /\ UNCHANGED <<linkUp, hasIp, ip, revision, handler, sessionVars, serviceVars,
                   startupComplete>>

WaitForIp ==
    /\ pc = "wait" /\ ipBit
    /\ pc' = "readInfo"
    /\ UNCHANGED <<etherVars, sessionVars, serviceVars, startupComplete>>

\* ethernet_manager_get_ip_info copies the address in a critical section.
ReadInfo ==
    /\ pc = "readInfo"
    /\ info' = ip
    /\ pc' = IF hasIp THEN "readRevision" ELSE "wait"
    /\ torn' = FALSE
    /\ UNCHANGED <<etherVars, seen, portIp, bindFailures, serviceVars, startupComplete>>

\* ethernet_manager_network_revision is read after it, on its own.
ReadRevision ==
    /\ pc = "readRevision"
    /\ seen' = revision
    /\ pc' = "configure"
    /\ UNCHANGED <<etherVars, info, portIp, torn, bindFailures, serviceVars, startupComplete>>

\* update_network_port and bip_esp32_configure.
Configure ==
    /\ pc = "configure"
    /\ portIp' = info
    /\ pc' = "bind"
    /\ UNCHANGED <<etherVars, info, seen, torn, bindFailures, serviceVars, startupComplete>>

\* bip_init opened the socket; bacnet_instance_start begins the assignment.
Bind ==
    /\ pc = "bind"
    /\ instance' = IF pending THEN "choosing" ELSE "ready"
    /\ pc' = "checkIp"
    /\ UNCHANGED <<etherVars, sessionVars, running, pending, ann, startupComplete>>

BindFailed ==
    /\ pc = "bind" /\ bindFailures < MaxBindFailures
    /\ bindFailures' = bindFailures + 1
    /\ pc' = "wait"
    /\ UNCHANGED <<etherVars, info, seen, portIp, torn, serviceVars, startupComplete>>

-----------------------------------------------------------------------------
(* bacnet_task: the session                                                *)

CheckIp ==
    /\ pc = "checkIp"
    /\ pc' = IF hasIp THEN "checkRevision" ELSE "leave"
    /\ UNCHANGED <<etherVars, sessionVars, serviceVars, startupComplete>>

\* Slip: an address that came back counts as the one that was lost.
SessionHasAddress == hasIp

SessionUnchanged == revision = seen

CheckRevision ==
    /\ pc = "checkRevision"
    /\ pc' = IF SessionUnchanged THEN "body" ELSE "leave"
    /\ UNCHANGED <<etherVars, sessionVars, serviceVars, startupComplete>>

\* Slip: refused attempts are not counted.
AcceptedCounted(attempts, accepted) ==
    [ready |-> TRUE, pending |-> ~accepted, exhausted |-> FALSE, due |-> FALSE,
     attempts |-> IF accepted THEN attempts ELSE attempts - 1]

\* The campaign after an attempt: accepted by the transport, exhausted or retried.
Attempted(attempts, accepted) ==
    [ready |-> TRUE, pending |-> ~accepted /\ attempts < AttemptsMax,
     exhausted |-> ~accepted /\ attempts >= AttemptsMax, due |-> FALSE, attempts |-> attempts]

AttemptDue(episode, due) == episode.pending /\ (episode.due \/ due)

\* bacnet_announcement_tick(ready, send): a new episode when ready begins, then
\* at most one attempt when one is due.
AnnounceTick(a, ready, due, accepted) ==
    LET episode == IF a.ready THEN a
                   ELSE [ready |-> TRUE, pending |-> TRUE, exhausted |-> FALSE,
                         due |-> TRUE, attempts |-> 0]
    IN IF ~ready THEN [a EXCEPT !.ready = FALSE, !.pending = FALSE]
       ELSE IF ~AttemptDue(episode, due) THEN episode
       ELSE Attempted(episode.attempts + 1, accepted)

\* One iteration under the object mutex.  The assignment may settle (the new
\* configuration is saved and no longer pending) or stop for good (the save
\* failed or the configuration changed meanwhile); the service runs once it is
\* settled and startup is complete; the campaign ticks.
Body(next, due, accepted) ==
    /\ pc = "body"
    /\ \/ next = instance
       \/ instance = "choosing" /\ next \in {"ready", "stopped"}
    /\ instance' = next
    /\ pending' = (pending /\ next # "ready")
    /\ running' = (running \/ (startupComplete /\ next = "ready"))
    /\ ann' = AnnounceTick(ann, startupComplete /\ running' /\ next = "ready", due, accepted)
    /\ pc' = "checkIp"
    /\ UNCHANGED <<etherVars, sessionVars, startupComplete>>

\* Slip: the campaign is not told that the session ended.
LeaveQuietly ==
    /\ pc = "leave"
    /\ running' = FALSE
    /\ pc' = "wait"
    /\ UNCHANGED <<etherVars, sessionVars, pending, instance, ann, startupComplete>>

Leave ==
    /\ pc = "leave"
    /\ running' = FALSE
    /\ ann' = AnnounceTick(ann, FALSE, FALSE, FALSE)
    /\ pc' = "wait"
    /\ UNCHANGED <<etherVars, sessionVars, pending, instance, startupComplete>>

\* app_main calls bacnet_app_startup_complete last, under the object mutex.
StartupComplete ==
    /\ ~startupComplete
    /\ startupComplete' = TRUE
    /\ UNCHANGED <<etherVars, pc, sessionVars, serviceVars>>

-----------------------------------------------------------------------------
Event == LinkUp \/ LinkDown \/ LostIp \/ \E address \in Addresses : GotIp(address)

Iterate ==
    \E next \in {"choosing", "ready", "stopped"}, due, accepted \in BOOLEAN :
        Body(next, due, accepted)

TaskStep ==
    \/ WaitForIp \/ ReadInfo \/ ReadRevision \/ Configure \/ Bind \/ BindFailed
    \/ CheckIp \/ CheckRevision \/ Iterate \/ Leave

Next == Event \/ FinishEvent \/ TaskStep \/ StartupComplete

Spec == Init /\ [][Next]_vars

\* The tasks are scheduled, startup completes, and a second passes after every
\* refused announcement.
FairSpec ==
    /\ Spec
    /\ WF_vars(FinishEvent)
    /\ WF_vars(TaskStep)
    /\ WF_vars(StartupComplete)
    /\ SF_vars(\E next \in {"choosing", "ready", "stopped"}, accepted \in BOOLEAN :
                  Body(next, TRUE, accepted))

-----------------------------------------------------------------------------
(* Properties *)

\* Every variable has its type; the number of attempts respects its limit.
TypeOK ==
    /\ linkUp \in BOOLEAN /\ hasIp \in BOOLEAN /\ ipBit \in BOOLEAN
    /\ ip \in Addresses \cup {NoAddress}
    /\ revision \in 0 .. MaxEvents
    /\ handler \in {"idle", "setBit", "clearBit"}
    /\ pc \in TaskLabels
    /\ info \in Addresses \cup {NoAddress} /\ portIp \in Addresses \cup {NoAddress}
    /\ seen \in 0 .. MaxEvents
    /\ running \in BOOLEAN /\ startupComplete \in BOOLEAN /\ pending \in BOOLEAN
    /\ instance \in {"choosing", "ready", "stopped"}
    /\ ann \in [ready : BOOLEAN, pending : BOOLEAN, exhausted : BOOLEAN, due : BOOLEAN,
                attempts : 0 .. AttemptsMax]
    /\ torn \in BOOLEAN
    /\ bindFailures \in 0 .. MaxBindFailures

\* The loop condition (bacnet_app.c:928) lets a session go on only on the address
\* it was opened with, however often the address was lost and found meanwhile:
\* packets are answered as the Network Port says.  The one exception is a change
\* between the two reads that open the session.
ServesActiveAddress ==
    [][pc = "checkRevision" /\ pc' = "body" /\ ~torn => hasIp /\ portIp = ip]_vars

\* Whenever the service comes up, in the first session or after an outage, a new
\* campaign begins and makes its first attempt at once (bacnet_announcement.c:43).
ServiceIsAnnounced ==
    [][~running /\ running' => ann'.ready /\ ann'.attempts = 1]_vars

\* The I-Am of a service that came up is accepted or given up after a bounded
\* number of attempts, or the session ends: no campaign is pending for ever, and
\* within a session one that is over makes no further attempt
\* (bacnet_announcement.c:51-73).
CampaignEnds ==
    /\ ann.pending ~> ~ann.pending
    /\ [][ann.ready /\ ann'.ready /\ ~ann.pending => ann' = ann]_vars

\* With an address that stays and a settled device instance the service comes up
\* and stays up, whatever happened to the network before: no lost wake-up, no
\* session stuck on an address that is gone.
ServiceResumes == (<>[]hasIp /\ <>[](instance = "ready")) => <>[]running

\* Documented of Network Port 1: it shows the active address.  While the task
\* handles packets and no network event has happened since it read the revision,
\* the port should have the current address.
PortIsActive == pc = "body" /\ seen = revision => portIp = ip
=============================================================================
