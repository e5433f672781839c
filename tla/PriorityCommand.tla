---------------------------- MODULE PriorityCommand ----------------------------
(***************************************************************************)
(* Relay commands: the priority arrays of the Binary Outputs in            *)
(* src/main/bacnet_app.c, written by HTTP requests (src/main/web_admin.c)  *)
(* and by BACnet clients, on top of the relay driver.  The object mutex is *)
(* held across the write of an array, the call of board_io_relay_set with  *)
(* the effective value, and the update of Reliability.                     *)
(***************************************************************************)
EXTENDS RelayDriver

CONSTANTS
    Web,        \* the task of the HTTP server
    Bacnet,     \* bacnet_task
    Priorities, \* priorities in use; 6 is refused by HTTP and by the stack
    MaxStops    \* bound on sessions that end

ASSUME CallersAssumption ==
    /\ Web # Bacnet /\ Callers = {Web, Bacnet}
    /\ Priorities \subseteq (1 .. 16) \ {6}
    /\ MaxStops \in Nat

VARIABLES
    array,      \* the priority array of each Binary Output
    default,    \* the relays whose Relinquish_Default is active
    fault,      \* Reliability of every Binary Output: unreliable
    complete,   \* s_startup_complete
    session,    \* of bacnet_task: down, or open with an instance READY or not yet
    running,    \* s_running
    holder,     \* the holder of s_object_mutex
    task,       \* where each caller is
    answer,     \* the last answer to a PUT of /api/v1/relay
    late, stops \* history: HTTP commands since it stopped; bound

sessionVars == <<complete, session, running>>
commandVars == <<array, default, fault, sessionVars, holder, task, answer, late, stops>>
allVars == <<vars, commandVars>>

Values == {"null", "active", "inactive"}
Places == {"boot", "idle", "waiting", "holding", "called", "update"}
Sessions == {"down", "open", "ready"}
Answers == {"none", "accepted", "unavailable", "failed"}

NullArrays == [i \in Relays |-> [p \in Priorities |-> "null"]]

\* Present_Value of an output: the value at the highest priority that has one
\* (the smallest number), else Relinquish_Default.
ActiveOf(slots, i) ==
    LET set == {p \in Priorities : slots[i][p] # "null"}
    IN IF set = {} THEN i \in default
       ELSE slots[i][CHOOSE p \in set : \A q \in set : p <= q] = "active"

Effective == {i \in Relays : ActiveOf(array, i)}

\* Without restore the saved mask is never read: one stands for all of them.
CommandInit ==
    /\ Init
    /\ ~RestoreRelayState => nvs = {}
    /\ array = NullArrays /\ default = {} /\ fault = FALSE
    /\ complete = FALSE /\ session = "down" /\ running = FALSE /\ holder = NoTask
    /\ task = [t \in Callers |-> IF t = Bacnet THEN "boot" ELSE "idle"]
    /\ answer = "none" /\ late = 0 /\ stops = 0

At(t, place) == task[t] = place
MoveTo(t, place) == task' = [task EXCEPT ![t] = place]

-----------------------------------------------------------------------------
(* Both callers *)

\* The bound on commands leaves one to a request that has been admitted.
Affordable(t) == t = Web \/ At(Web, "idle") \/ commands + 1 < MaxCommands

\* Slip: the value of the command goes to the driver as it is.
PlainValue(i, value) == value = "active"

ValueForDriver(i, value) == ActiveOf(array', i)

\* An array slot is set or relinquished and the effective value goes to the
\* driver, which publishes it before it waits for the expander.
WriteSlot(t, i, p, value) ==
    /\ At(t, "holding") /\ Affordable(t)
    /\ t = Bacnet => session = "ready"
    /\ array' = [array EXCEPT ![i][p] = value]
    /\ RelaySet(t, i, ValueForDriver(i, value))
    /\ MoveTo(t, "called")
    /\ late' = IF t = Web /\ ~running THEN late + 1 ELSE late
    /\ UNCHANGED <<default, fault, sessionVars, holder, answer, stops>>

\* The object mutex is held until the driver has answered.
MayTake(t) == holder = NoTask

\* board_io_relay_set returns, and all outputs take its result as reliability.
Returns(t, result) ==
    /\ At(t, "called")
    /\ fault' = (result # "accepted")
    /\ IF t = Web
       THEN answer' = result /\ holder' = NoTask /\ MoveTo(t, "idle")
       ELSE MoveTo(t, "update") /\ UNCHANGED <<answer, holder>>
    /\ UNCHANGED <<array, default, sessionVars, late, stops>>

\* Slip: a write that was not verified counts as done.
ResultAccepted(outcome) == "accepted"

ResultOf(outcome) == IF outcome = "failed" THEN "failed" ELSE "accepted"

DriverReturns(t) ==
    \/ Finish(t) /\ Returns(t, ResultOf(frame[t].outcome))
    \/ RelaySetTimeout(t) /\ Returns(t, "unavailable")

-----------------------------------------------------------------------------
(* The HTTP request *)

\* Slip: it is enough that the objects exist.
ServedFromBoot == ~At(Bacnet, "boot")

Served == running

\* The running flag is read before the mutex is waited for.
WebRequest ==
    /\ At(Web, "idle")
    /\ commands < MaxCommands
    /\ IF Served THEN MoveTo(Web, "waiting") /\ UNCHANGED answer
       ELSE answer' = "unavailable" /\ UNCHANGED task
    /\ UNCHANGED <<vars, array, default, fault, sessionVars, holder, late, stops>>

WebTakes ==
    /\ At(Web, "waiting") /\ MayTake(Web)
    /\ holder' = Web
    /\ MoveTo(Web, "holding")
    /\ UNCHANGED <<vars, array, default, fault, sessionVars, answer, late, stops>>

\* 500 ms passed while bacnet_task held the mutex.
WebTimeout ==
    /\ At(Web, "waiting") /\ ~MayTake(Web)
    /\ answer' = "unavailable"
    /\ MoveTo(Web, "idle")
    /\ UNCHANGED <<vars, array, default, fault, sessionVars, holder, late, stops>>

-----------------------------------------------------------------------------
(* bacnet_task *)

\* initialize_objects, once board_io_init is done: a restored mask becomes the
\* default of this boot.
InitializeObjects ==
    /\ At(Bacnet, "boot") /\ stage = "running"
    /\ array' = NullArrays
    /\ default' = applied
    /\ fault' = FALSE
    /\ MoveTo(Bacnet, "idle")
    /\ UNCHANGED <<vars, sessionVars, holder, answer, late, stops>>

\* The end of app_main's startup.
StartupCompletes ==
    /\ ~complete /\ ~At(Bacnet, "boot") /\ holder = NoTask
    /\ complete' = TRUE
    /\ UNCHANGED <<vars, array, default, fault, session, running, holder, task, answer, late, stops>>

\* An address and a socket: a configured instance is READY at once, an automatic
\* one is when it has been claimed.
SessionOpens ==
    /\ At(Bacnet, "idle") /\ session = "down" /\ holder = NoTask
    /\ session' \in {"open", "ready"}
    /\ fault' = ~ControllerHealthy
    /\ UNCHANGED <<vars, array, default, complete, running, holder, task, answer, late, stops>>

\* The address is lost: the flag changes under the mutex.
SessionEnds ==
    /\ At(Bacnet, "idle") /\ session # "down" /\ holder = NoTask
    /\ stops < MaxStops /\ stops' = stops + 1
    /\ session' = "down" /\ running' = FALSE
    /\ UNCHANGED <<vars, array, default, fault, complete, holder, task, answer, late>>

\* An iteration takes the mutex; a WriteProperty is dispatched under a READY
\* instance, whether the running flag is up or not.
IterationBegins ==
    /\ At(Bacnet, "idle") /\ session # "down" /\ MayTake(Bacnet)
    /\ holder' = Bacnet
    /\ MoveTo(Bacnet, "holding")
    /\ UNCHANGED <<vars, array, default, fault, sessionVars, answer, late, stops>>

\* The claim may come to an end, the flag goes up, and update_binary_objects
\* makes Reliability follow the driver again.
IterationEnds ==
    /\ At(Bacnet, "holding") \/ At(Bacnet, "update")
    /\ session' \in {session, "ready"}
    /\ running' = (running \/ (complete /\ session' = "ready"))
    /\ late' = IF running' THEN 0 ELSE late
    /\ fault' = ~ControllerHealthy
    /\ holder' = NoTask
    /\ MoveTo(Bacnet, "idle")
    /\ UNCHANGED <<vars, array, default, complete, answer, stops>>

-----------------------------------------------------------------------------
Reboot(power) ==
    /\ Restart(power)
    /\ array' = NullArrays /\ default' = {} /\ fault' = FALSE
    /\ complete' = FALSE /\ session' = "down" /\ running' = FALSE /\ holder' = NoTask
    /\ task' = [t \in Callers |-> IF t = Bacnet THEN "boot" ELSE "idle"]
    /\ answer' = "none" /\ late' = 0
    /\ UNCHANGED stops

\* What the driver does by itself.
DriverStep ==
    /\ \/ \E t \in Tasks : WriteLocked(t) \/ TakeMutex(t)
       \/ Finish(HealthTask)
       \/ \E due \in BOOLEAN : HealthLoop(due)
       \/ HealthStep \/ InitStep \/ Settle \/ ChipReset
    /\ UNCHANGED commandVars

CommandNext ==
    \/ \E t \in Callers, i \in Relays, p \in Priorities, value \in Values : WriteSlot(t, i, p, value)
    \/ \E t \in Callers : DriverReturns(t)
    \/ WebRequest \/ WebTakes \/ WebTimeout
    \/ InitializeObjects \/ StartupCompletes \/ SessionOpens \/ SessionEnds
    \/ IterationBegins \/ IterationEnds
    \/ \E power \in BOOLEAN : Reboot(power)
    \/ DriverStep

CommandSpec == CommandInit /\ [][CommandNext]_allVars

-----------------------------------------------------------------------------
(* Properties *)

\* Every variable keeps its type, and a caller inside a command holds the mutex.
CommandTypeOK ==
    /\ TypeOK
    /\ array \in [Relays -> [Priorities -> Values]]
    /\ default \in Masks
    /\ fault \in BOOLEAN
    /\ complete \in BOOLEAN /\ session \in Sessions /\ running \in BOOLEAN
    /\ holder \in Callers \cup {NoTask}
    /\ task \in [Callers -> Places]
    /\ answer \in Answers
    /\ late \in Nat /\ stops \in Nat
    /\ \A t \in Callers : task[t] \in {"holding", "called", "update"} <=> holder = t

\* What the driver is asked for is what the arrays say, also after a command
\* whose caller was told 503 or 500 (bacnet_app.c:540-564, 1157-1184,
\* board_io.c:352-365): no command of one client reaches the driver over the
\* higher priority of another, and none is dropped by a timeout.
ArraysAreDesired ==
    task[Bacnet] # "boot" => desired = Effective

\* 200 is answered only when the relays were verified to be what the arrays say
\* at that moment, whoever else commands them (web_admin.c:832-853).
AcceptedIsVerified ==
    [][(task[Web] = "called" /\ answer' = "accepted" /\ task'[Web] = "idle") =>
          applied' = Effective']_allVars

\* The running flag may be stale by the time an HTTP command has the mutex: at
\* most that one HTTP command changes an array from the end of a session until
\* the flag is up again (bacnet_app.c:1164-1169).  BACnet commands are not
\* subject to the flag: they need a READY instance (bacnet_app.c:936-941).
OneLateCommand == late <= 1
=============================================================================
