----------------------------- MODULE InstanceClaim -----------------------------
(***************************************************************************)
(* Controllers on one network that choose their BACnet Device instances by *)
(* discovery (src/main/bacnet_instance.c) inside the loop of bacnet_task   *)
(* (src/main/bacnet_app.c): listen to three Who-Is rounds, claim a free    *)
(* instance, defend the claim, save it, keep it.  Time is discrete; timers *)
(* count down.  A loop iteration handles at most one packet and then the   *)
(* timers; it happens between two instants.  Startup is complete before a  *)
(* claim begins.  What a user changes meanwhile is in ConfigStore.         *)
(***************************************************************************)
EXTENDS Integers

CONSTANTS
    Nodes,         \* controllers, with pairwise different addresses
    Ids,           \* the automatic range
    Default,       \* the factory instance, checked first after an upgrade
    None,          \* BACNET_INSTANCE_NONE, and no saved instance
    QueryInterval, \* between two Who-Is of a discovery or a claim: 1 s
    DiscoverTime,  \* from the first Who-Is to the choice: 3 s
    ClaimTime,     \* from the choice to the save: 3 s
    MaxJitter,     \* before the first Who-Is: at most 500 ms
    RetryTime,     \* with a full range: 30 s
    WatchInterval, \* between two Who-Is of a locked controller: 60 s
    FirstWatch,    \* from the save to the first of them: 500 ms
    MaxDelay,      \* bound on the delay of a broadcast
    MaxLeaves,     \* bound on outages and restarts of controllers
    MaxLosses,     \* bound on lost packets
    MaxFailures    \* bound on failures to save, and to read at boot

ASSUME TimeAssumption ==
    /\ QueryInterval \in Nat \ {0} /\ RetryTime \in Nat \ {0} /\ WatchInterval \in Nat \ {0}
    /\ DiscoverTime \in Nat /\ ClaimTime \in Nat /\ FirstWatch \in Nat
    /\ MaxJitter \in Nat /\ MaxDelay \in Nat

\* An announcement arrives during the claim of another controller, and the answer
\* to the first question of a discovery before the claim that follows is saved.
ASSUME DelayAssumption ==
    /\ MaxDelay < ClaimTime
    /\ 2 * MaxDelay < DiscoverTime + ClaimTime

ASSUME InstanceAssumption == None \notin Ids /\ Default \in Ids

VARIABLES
    node,     \* s_instance of each controller; "off" while it has no session
    saved,    \* the locked instance of the configuration each knows to be saved
    flash,    \* the locked instance of the configuration in NVS
    net,      \* packets on their way
    leaves, losses, failures \* the counters of the bounds

vars == <<node, saved, flash, net, leaves, losses, failures>>
counters == <<leaves, losses, failures>>

States == {"off", "discovering", "claiming", "ready", "rangeFull", "saveFailed"}

\* The instances heard matter to the choice that ends a discovery, and every
\* discovery begins by forgetting them: they are kept during one only.
Off == [state |-> "off", automatic |-> FALSE, conflict |-> FALSE, candidate |-> None,
        preferred |-> None, heard |-> {}, deadline |-> 0, query |-> 0]

-----------------------------------------------------------------------------
(* bacnet_instance.c, on the record of one controller *)

\* discover
Discovering(s, jitter) ==
    [s EXCEPT !.state = "discovering", !.heard = {},
              !.query = jitter, !.deadline = jitter + DiscoverTime]

\* bacnet_instance_start: preferred is the saved instance, if any.
Started(locked, preferred, jitter) ==
    LET fresh == [Off EXCEPT !.candidate = preferred, !.preferred = preferred]
    IN IF locked THEN [fresh EXCEPT !.state = "ready"]
       ELSE Discovering([fresh EXCEPT !.automatic = TRUE], jitter)

\* Slip: a claim is not defended, only a lock is.
ContestsLockOnly(s, id) == id = s.candidate /\ s.state = "ready"

Contests(s, id) == id = s.candidate /\ s.state \in {"claiming", "ready"}

\* Slip: a locked instance is given up like a claimed one.
NeverFixed(s) == FALSE

Fixed(s) == ~s.automatic

\* bacnet_instance_observe, for an I-Am of another address.
Observed(s, id, jitter) ==
    IF ~Contests(s, id)
    THEN [s EXCEPT !.heard = IF s.state = "discovering" THEN @ \cup {id} ELSE @]
    ELSE IF Fixed(s) THEN [s EXCEPT !.conflict = TRUE]
    ELSE [Discovering([s EXCEPT !.preferred = None, !.conflict = TRUE], jitter)
             EXCEPT !.heard = {id}]

\* The choice at the end of a discovery: the preferred instance if it is in the
\* range and was not heard, else any that was not (the random start of the scan).
Choices(s) ==
    IF s.preferred \in Ids \ s.heard THEN {s.preferred} ELSE Ids \ s.heard

DeadlineReached(s, state) == s.state = state /\ s.deadline = 0

\* Slip: a full range is final.
NoRetry(s, jitter) == s

RangeRetried(s, jitter) == IF DeadlineReached(s, "rangeFull") THEN Discovering(s, jitter) ELSE s

\* Slip: a locked controller no longer asks.
AsksWhileChoosing(s) == s.state \in {"discovering", "claiming"}

Asks(s) == s.state \in {"discovering", "claiming", "ready"}

\* bacnet_instance_tick, and bacnet_instance_saved when it asks for the save:
\* the possible results, each with the actions it requests.
Ticked(s, ok) ==
    IF DeadlineReached(s, "discovering") THEN
        IF Choices(s) = {}
        THEN {[node |-> [s EXCEPT !.state = "rangeFull", !.deadline = RetryTime,
                                  !.query = 0, !.heard = {}],
               actions |-> {}]}
        ELSE {[node |-> [s EXCEPT !.state = "claiming", !.candidate = id, !.conflict = FALSE,
                                  !.deadline = ClaimTime, !.query = QueryInterval, !.heard = {}],
               actions |-> {"announce", "query"}] : id \in Choices(s)}
    ELSE IF DeadlineReached(s, "claiming") THEN
        {[node |-> IF ok THEN [s EXCEPT !.state = "ready", !.automatic = FALSE, !.conflict = FALSE,
                                        !.preferred = s.candidate, !.query = FirstWatch]
                   ELSE [s EXCEPT !.state = "saveFailed", !.query = 0],
          actions |-> {"save"}]}
    ELSE IF Asks(s) /\ s.query = 0 THEN
        {[node |-> [s EXCEPT !.query = IF s.state = "ready" THEN WatchInterval ELSE QueryInterval],
          actions |-> {"query"} \cup (IF s.state = "claiming" THEN {"announce"} ELSE {})]}
    ELSE {[node |-> s, actions |-> {}]}

-----------------------------------------------------------------------------
\* Controllers with a lock are there, new ones join in any order.
Init ==
    /\ saved \in [Nodes -> Ids \cup {None}]
    /\ \A m, n \in Nodes : m # n /\ saved[m] # None => saved[m] # saved[n]
    /\ node = [n \in Nodes |-> IF saved[n] = None THEN Off ELSE Started(TRUE, saved[n], 0)]
    /\ flash = saved /\ net = {}
    /\ leaves = 0 /\ losses = 0 /\ failures = 0

-----------------------------------------------------------------------------
(* The network and the loop of bacnet_task *)

Broadcast(n, kind, ids) ==
    {[kind |-> kind, to |-> m, ids |-> ids, ttl |-> MaxDelay] : m \in Nodes \ {n}}

\* Send_WhoIs_Local and Send_I_Am after the tick.
Sent(n, result) ==
    (IF "query" \in result.actions
     THEN Broadcast(n, "whoIs",
                    IF result.node.state = "discovering" THEN Ids ELSE {result.node.candidate})
     ELSE {})
    \cup
    (IF "announce" \in result.actions
     THEN Broadcast(n, "iAm", {result.node.candidate}) ELSE {})

\* handler_who_is_compatible
Replies(n, packet) ==
    IF packet.kind = "whoIs" /\ node[n].state \in {"claiming", "ready"}
       /\ node[n].candidate \in packet.ids
    THEN Broadcast(n, "iAm", {node[n].candidate}) ELSE {}

\* write_config_blob: a failure may be reported after the configuration was stored.
Stored(n, result, ok) ==
    LET written == [flash EXCEPT ![n] = result.node.candidate]
    IN IF "save" \notin result.actions THEN {flash}
       ELSE IF ok THEN {written} ELSE {flash, written}

\* One iteration: the packet received, if any, then the tick and its actions.  At
\* most one discovery begins in it.
Iterate(n, jitter, received, s, replies) ==
    \E ok \in BOOLEAN :
        \E result \in Ticked(RangeRetried(s, jitter), ok) :
            /\ ~ok => "save" \in result.actions /\ failures < MaxFailures
            /\ node' = [node EXCEPT ![n] = result.node]
            /\ net' = (net \ received) \cup replies \cup Sent(n, result)
            /\ saved' = IF ok /\ "save" \in result.actions
                        THEN [saved EXCEPT ![n] = result.node.candidate] ELSE saved
            /\ flash' \in Stored(n, result, ok)
            /\ failures' = IF ok THEN failures ELSE failures + 1
            /\ UNCHANGED <<leaves, losses>>

HandlePacket(n, packet) ==
    /\ node[n].state # "off"
    /\ packet \in net /\ packet.to = n
    /\ \E jitter \in 0 .. MaxJitter, id \in packet.ids :
          Iterate(n, jitter, {packet},
                  IF packet.kind = "iAm" THEN Observed(node[n], id, jitter) ELSE node[n],
                  Replies(n, packet))

TimerDue(s) ==
    \/ s.state \in {"discovering", "claiming", "rangeFull"} /\ s.deadline = 0
    \/ s.state \in {"discovering", "claiming"} /\ s.query = 0
    \/ Asks(s) /\ s.query = 0

HandleTimers(n) ==
    /\ TimerDue(node[n])
    /\ \E jitter \in 0 .. MaxJitter : Iterate(n, jitter, {}, node[n], {})

\* The network comes up: bacnet_instance_start, from the configuration in memory.
Join(n) ==
    /\ node[n].state = "off"
    /\ \E jitter \in 0 .. MaxJitter, preferred \in {None, Default, saved[n]} :
          /\ saved[n] # None => preferred = saved[n]
          /\ node' = [node EXCEPT ![n] = Started(saved[n] # None, preferred, jitter)]
    /\ UNCHANGED <<saved, flash, net, counters>>

\* What was on its way to a controller that goes is lost.
Gone(n) ==
    /\ leaves < MaxLeaves /\ leaves' = leaves + 1
    /\ node' = [node EXCEPT ![n] = Off]
    /\ net' = {packet \in net : packet.to # n}

\* The network goes.
Leave(n) ==
    /\ node[n].state # "off"
    /\ Gone(n)
    /\ UNCHANGED <<saved, flash, losses, failures>>

\* The power goes.  The next boot knows what NVS holds; if it cannot read it, it
\* installs the defaults.
Restart(n, readable) ==
    /\ Gone(n)
    /\ flash' = IF readable THEN flash ELSE [flash EXCEPT ![n] = None]
    /\ saved' = [saved EXCEPT ![n] = flash'[n]]
    /\ failures' = IF readable THEN failures ELSE failures + 1
    /\ failures' <= MaxFailures
    /\ UNCHANGED losses

Lose(packet) ==
    /\ packet \in net /\ losses < MaxLosses
    /\ net' = net \ {packet}
    /\ losses' = losses + 1
    /\ UNCHANGED <<node, saved, flash, leaves, failures>>

\* Nobody hears a packet that arrives at a controller without a session.
Unheard(packet) ==
    /\ packet \in net /\ node[packet.to].state = "off"
    /\ net' = net \ {packet}
    /\ UNCHANGED <<node, saved, flash, counters>>

\* Time passes when everything due has been done.
Elapsed(timer) == IF timer = 0 THEN 0 ELSE timer - 1

TimePasses ==
    /\ \A n \in Nodes : ~TimerDue(node[n])
    /\ \A packet \in net : packet.ttl > 0
    /\ node' = [n \in Nodes |-> [node[n] EXCEPT !.deadline = Elapsed(@), !.query = Elapsed(@)]]
    /\ net' = {[packet EXCEPT !.ttl = @ - 1] : packet \in net}
    /\ UNCHANGED <<saved, flash, counters>>

Step ==
    \/ \E n \in Nodes : HandleTimers(n)
    \/ \E n \in Nodes, packet \in net : HandlePacket(n, packet)
    \/ \E packet \in net : Unheard(packet)
    \/ TimePasses

Next ==
    \/ Step
    \/ \E n \in Nodes : Join(n) \/ Leave(n)
    \/ \E n \in Nodes, readable \in BOOLEAN : Restart(n, readable)
    \/ \E packet \in net : Lose(packet)

Spec == Init /\ [][Next]_vars

\* The loop runs every 20 ms and packets arrive within their delay.
FairSpec == Spec /\ WF_vars(Step)

-----------------------------------------------------------------------------
(* Properties *)

Timers(s) == {s.deadline, s.query}

Periods == {QueryInterval, MaxJitter + DiscoverTime, ClaimTime, RetryTime, WatchInterval,
            FirstWatch}

\* Every variable has its type, and the state of a controller determines what it
\* runs with: automatic until it is ready, a candidate once it claims.
TypeOK ==
    /\ \A n \in Nodes :
          /\ node[n] \in [state : States, automatic : BOOLEAN, conflict : BOOLEAN,
                          candidate : Ids \cup {None}, preferred : Ids \cup {None},
                          heard : SUBSET Ids, deadline : Nat, query : Nat]
          /\ \A timer \in Timers(node[n]) : \E period \in Periods : timer <= period
          /\ node[n].state \in {"discovering", "claiming", "rangeFull", "saveFailed"}
                => node[n].automatic
          /\ node[n].state \in {"claiming", "ready"} => node[n].candidate \in Ids
    /\ saved \in [Nodes -> Ids \cup {None}] /\ flash \in [Nodes -> Ids \cup {None}]
    /\ \A packet \in net : packet.to \in Nodes /\ packet.ttl \in 0 .. MaxDelay

Ready(n) == node[n].state = "ready"

\* Where no packet is lost and every locked controller is present, no two
\* controllers serve under the same instance: neither those that start together
\* and choose the same candidate, nor one that joins while another claims.
UniqueInstances ==
    leaves = 0 /\ losses = 0 =>
    \A m, n \in Nodes : Ready(m) /\ Ready(n) /\ m # n => node[m].candidate # node[n].candidate

\* The lock: once an instance was saved the controller serves under it and keeps
\* it, whatever duplicates appear, packets get lost or outages occur, and a restart
\* finds it.  A save reported as failed is no lock, even if it was stored: a
\* restart serves under what was stored, but if only the network returns the
\* controller chooses again and writes over it.  A boot that cannot read NVS
\* gives the lock up (config_store.c:84).
LockKept ==
    [][\A n \in Nodes :
          /\ saved[n] # None =>
                \/ saved'[n] = saved[n] /\ flash'[n] = saved[n]
                \/ Restart(n, FALSE)
          /\ node'[n].state = "ready" => node'[n].candidate = saved'[n]
          /\ Ready(n) => node'[n].state \in {"ready", "off"}]_vars

Duplicates(m, n) ==
    Ready(m) /\ Ready(n) /\ m # n /\ node[m].candidate = node[n].candidate

\* Two controllers that stay locked to the same instance both come to show the
\* conflict, also the one that was there first.
DuplicatesDetected ==
    \A m, n \in Nodes :
        <>[]Duplicates(m, n) => <>[](node[m].conflict /\ node[n].conflict)

Alone(n) == \A m \in Nodes \ {n} : node[m].state = "off"

\* A controller that found the range full gets its instance once the others have
\* left, without a restart; only a save that failed needs one.
RangeFullRecovers ==
    \A n \in Nodes :
        <>[](node[n].state \notin {"off", "saveFailed"} /\ Alone(n)) => <>[]Ready(n)
=============================================================================
