-------------------------- MODULE InstanceClaimProofs --------------------------
(***************************************************************************)
(* Proofs about InstanceClaim, for any controllers, any range of instances *)
(* and any times, delays and losses.                                       *)
(***************************************************************************)
EXTENDS InstanceClaim, TLAPS

Controller ==
    [state : States, automatic : BOOLEAN, conflict : BOOLEAN, candidate : Ids \cup {None},
     preferred : Ids \cup {None}, heard : SUBSET Ids, deadline : Nat, query : Nat]

Packet == [kind : {"whoIs", "iAm"}, to : Nodes, ids : SUBSET Ids, ttl : 0 .. MaxDelay]

InTime(timer) == timer \in Nat /\ \E period \in Periods : timer <= period

Choosing == {"discovering", "claiming", "rangeFull", "saveFailed"}

\* A controller chooses only while nothing is saved, and is ready only under
\* what is saved.
Locked(s, lock) ==
    /\ s.state = "ready" => ~s.automatic /\ lock # None /\ s.candidate = lock
    /\ s.state \in Choosing => s.automatic /\ lock = None
    /\ s.state = "claiming" => s.candidate \in Ids

Sound(s, lock) ==
    /\ s \in Controller
    /\ InTime(s.deadline) /\ InTime(s.query)
    /\ Locked(s, lock)

\* What a controller knows to be saved is in NVS.
FlashInv ==
    /\ flash \in [Nodes -> Ids \cup {None}]
    /\ \A n \in Nodes : saved[n] # None => flash[n] = saved[n]

ClaimInv ==
    /\ \A n \in Nodes : Sound(node[n], saved[n])
    /\ node = [n \in Nodes |-> node[n]]
    /\ saved \in [Nodes -> Ids \cup {None}]
    /\ FlashInv
    /\ net \subseteq Packet

-----------------------------------------------------------------------------
(* Times *)

LEMMA PeriodsInTime ==
    /\ \A timer \in Periods : InTime(timer)
    /\ InTime(0)
    /\ \A jitter \in 0 .. MaxJitter : InTime(jitter) /\ InTime(jitter + DiscoverTime)
    /\ \A timer : InTime(timer) => InTime(Elapsed(timer))
  <1>1. \A period \in Periods : period \in Nat
    BY TimeAssumption DEF Periods
  <1>2. \A timer \in Periods : InTime(timer)
    BY <1>1 DEF InTime
  <1>3. InTime(0)
    BY <1>1 DEF InTime, Periods
  <1>4. ASSUME NEW jitter \in 0 .. MaxJitter
        PROVE  InTime(jitter) /\ InTime(jitter + DiscoverTime)
    <2>1. MaxJitter + DiscoverTime \in Periods
      BY DEF Periods
    <2>2. /\ jitter \in Nat /\ jitter <= MaxJitter + DiscoverTime
          /\ jitter + DiscoverTime \in Nat /\ jitter + DiscoverTime <= MaxJitter + DiscoverTime
      BY TimeAssumption
    <2> QED
      BY <2>1, <2>2 DEF InTime
  <1>5. ASSUME NEW timer, InTime(timer)
        PROVE  InTime(Elapsed(timer))
    <2>1. PICK period \in Periods : timer <= period
      BY <1>5 DEF InTime
    <2>2. timer \in Nat /\ period \in Nat
      BY <1>1, <1>5 DEF InTime
    <2>3. Elapsed(timer) \in Nat /\ Elapsed(timer) <= period
      BY <2>1, <2>2 DEF Elapsed
    <2> QED
      BY <2>3 DEF InTime
  <1> QED
    BY <1>2, <1>3, <1>4, <1>5

-----------------------------------------------------------------------------
(* The functions of bacnet_instance.c *)

\* A discovery forgets what was heard and sets its timers.
LEMMA DiscoveringSound ==
    ASSUME NEW s \in Controller, s.automatic, NEW jitter \in 0 .. MaxJitter
    PROVE  /\ Sound(Discovering(s, jitter), None)
           /\ Discovering(s, jitter).state = "discovering"
           /\ Discovering(s, jitter).automatic
  <1>1. jitter \in Nat /\ jitter + DiscoverTime \in Nat
    BY TimeAssumption
  <1>2. Discovering(s, jitter) \in Controller
    BY <1>1 DEF Discovering, Controller, States
  <1>3. /\ Discovering(s, jitter).state = "discovering"
        /\ Discovering(s, jitter).automatic = s.automatic
        /\ Discovering(s, jitter).query = jitter
        /\ Discovering(s, jitter).deadline = jitter + DiscoverTime
    BY DEF Discovering, Controller
  <1> QED
    BY <1>2, <1>3, PeriodsInTime DEF Sound, Locked

\* A controller starts ready under what is saved, or chooses.
LEMMA StartedSound ==
    ASSUME NEW lock \in Ids \cup {None}, NEW preferred \in Ids \cup {None},
           lock # None => preferred = lock, NEW jitter \in 0 .. MaxJitter
    PROVE  /\ Sound(Started(lock # None, preferred, jitter), lock)
           /\ lock # None => Started(lock # None, preferred, jitter).state = "ready"
  <1> DEFINE fresh == [Off EXCEPT !.candidate = preferred, !.preferred = preferred]
  <1>1. fresh \in Controller /\ InTime(fresh.deadline) /\ InTime(fresh.query)
    BY PeriodsInTime DEF Off, Controller, States
  <1>2. CASE lock # None
    <2> DEFINE r == [fresh EXCEPT !.state = "ready"]
    <2>1. Started(lock # None, preferred, jitter) = r
      BY <1>2 DEF Started
    <2>2. r \in Controller
      BY <1>1 DEF Controller, States
    <2>3. r.state = "ready" /\ r.automatic = FALSE /\ r.candidate = lock
      BY <1>2 DEF Off
    <2>4. InTime(r.deadline) /\ InTime(r.query)
      BY <1>1 DEF Controller
    <2> QED
      BY <1>2, <2>1, <2>2, <2>3, <2>4, InstanceAssumption DEF Sound, Locked, Choosing
  <1>3. CASE lock = None
    <2> DEFINE r == [fresh EXCEPT !.automatic = TRUE]
    <2>1. Started(lock # None, preferred, jitter) = Discovering(r, jitter)
      BY <1>3 DEF Started
    <2>2. r \in Controller /\ r.automatic
      BY <1>1 DEF Controller
    <2> QED
      BY <1>3, <2>1, <2>2, DiscoveringSound
  <1> QED
    BY <1>2, <1>3

\* What is heard never unlocks a controller, and never locks one.
LEMMA ObservedSound ==
    ASSUME NEW s, NEW lock, Sound(s, lock), NEW id \in Ids, NEW jitter \in 0 .. MaxJitter
    PROVE  /\ Sound(Observed(s, id, jitter), lock)
           /\ s.state # "off" => Observed(s, id, jitter).state # "off"
           /\ s.state = "ready" => Observed(s, id, jitter).state = "ready"
           /\ Observed(s, id, jitter).state = "ready" => s.state = "ready"
  <1>1. CASE ~Contests(s, id)
    <2> DEFINE h == IF s.state = "discovering" THEN s.heard \cup {id} ELSE s.heard
               r == [s EXCEPT !.heard = h]
    <2>1. Observed(s, id, jitter) = r
      BY <1>1 DEF Observed
    <2>2. h \in SUBSET Ids
      BY DEF Sound, Controller
    <2>3. r \in Controller
      BY <2>2 DEF Sound, Controller
    <2>4. /\ r.state = s.state /\ r.automatic = s.automatic /\ r.candidate = s.candidate
          /\ r.deadline = s.deadline /\ r.query = s.query
      BY DEF Sound, Controller
    <2> QED
      BY <2>1, <2>3, <2>4 DEF Sound, Locked
  <1>2. CASE Contests(s, id) /\ ~s.automatic
    <2> DEFINE r == [s EXCEPT !.conflict = TRUE]
    <2>1. Observed(s, id, jitter) = r
      BY <1>2 DEF Observed, Fixed
    <2>2. r \in Controller
      BY DEF Sound, Controller
    <2>3. /\ r.state = s.state /\ r.automatic = s.automatic /\ r.candidate = s.candidate
          /\ r.deadline = s.deadline /\ r.query = s.query
      BY DEF Sound, Controller
    <2> QED
      BY <2>1, <2>2, <2>3 DEF Sound, Locked
  <1>3. CASE Contests(s, id) /\ s.automatic
    <2> DEFINE q == [s EXCEPT !.preferred = None, !.conflict = TRUE]
               d == Discovering(q, jitter)
               r == [d EXCEPT !.heard = {id}]
    <2>1. Observed(s, id, jitter) = r
      BY <1>3 DEF Observed, Fixed
    <2>2. q \in Controller /\ q.automatic
      BY <1>3 DEF Sound, Controller
    <2>3. Sound(d, None) /\ d.state = "discovering" /\ d.automatic
      BY <2>2, DiscoveringSound
    <2>4. r \in Controller
      BY <2>3 DEF Sound, Controller
    <2>5. /\ r.state = d.state /\ r.automatic = d.automatic
          /\ r.deadline = d.deadline /\ r.query = d.query
      BY <2>3 DEF Sound, Controller
    <2>6. s.state = "claiming"
      BY <1>3 DEF Contests, Sound, Locked
    <2>7. lock = None
      BY <2>6 DEF Sound, Locked, Choosing
    <2> QED
      BY <2>1, <2>3, <2>4, <2>5, <2>6, <2>7 DEF Sound, Locked
  <1> QED
    BY <1>1, <1>2, <1>3

LEMMA RangeRetriedSound ==
    ASSUME NEW s, NEW lock, Sound(s, lock), NEW jitter \in 0 .. MaxJitter
    PROVE  /\ Sound(RangeRetried(s, jitter), lock)
           /\ s.state # "off" => RangeRetried(s, jitter).state # "off"
           /\ s.state = "ready" <=> RangeRetried(s, jitter).state = "ready"
  <1>1. CASE DeadlineReached(s, "rangeFull")
    <2>1. s \in Controller /\ s.automatic /\ lock = None /\ s.state = "rangeFull"
      BY <1>1 DEF DeadlineReached, Sound, Locked, Choosing
    <2> QED
      BY <1>1, <2>1, DiscoveringSound DEF RangeRetried
  <1>2. CASE ~DeadlineReached(s, "rangeFull")
    BY <1>2 DEF RangeRetried
  <1> QED
    BY <1>1, <1>2

\* The save is what locks.
LockAfter(lock, result, ok) ==
    IF ok /\ "save" \in result.actions THEN result.node.candidate ELSE lock

\* A tick keeps a controller sound, and only one without a lock saves.
LEMMA TickedSound ==
    ASSUME NEW s, NEW lock \in Ids \cup {None}, Sound(s, lock), s.state # "off",
           NEW ok \in BOOLEAN, NEW result \in Ticked(s, ok)
    PROVE  /\ LockAfter(lock, result, ok) \in Ids \cup {None}
           /\ Sound(result.node, LockAfter(lock, result, ok))
           /\ "save" \in result.actions => lock = None
           /\ lock # None => LockAfter(lock, result, ok) = lock
           /\ s.state = "ready" => result.node.state = "ready"
           /\ result.actions \cap {"query", "announce"} # {} =>
                 \/ result.node.state = "discovering" /\ "announce" \notin result.actions
                 \/ result.node.candidate \in Ids
  <1> DEFINE r == result.node
             a == result.actions
  <1>1. /\ s \in Controller /\ s.state \in States
        /\ s.candidate \in Ids \cup {None} /\ InTime(s.deadline) /\ InTime(s.query)
    BY DEF Sound, Controller
  <1>2. /\ InTime(0) /\ InTime(RetryTime) /\ InTime(ClaimTime) /\ InTime(QueryInterval)
        /\ InTime(FirstWatch) /\ InTime(WatchInterval)
    BY PeriodsInTime DEF Periods
  <1>3. /\ RetryTime \in Nat /\ ClaimTime \in Nat /\ QueryInterval \in Nat
        /\ FirstWatch \in Nat /\ WatchInterval \in Nat
    BY TimeAssumption
  <1>4. CASE DeadlineReached(s, "discovering") /\ Choices(s) = {}
    <2>1. /\ r = [s EXCEPT !.state = "rangeFull", !.deadline = RetryTime, !.query = 0,
                           !.heard = {}]
          /\ a = {}
      BY <1>4 DEF Ticked
    <2>2. s.state = "discovering" /\ s.automatic /\ lock = None
      BY <1>4 DEF DeadlineReached, Sound, Locked, Choosing
    <2> HIDE DEF r, a
    <2>3. /\ r \in Controller /\ r.state = "rangeFull" /\ r.automatic = s.automatic
          /\ r.deadline = RetryTime /\ r.query = 0
      BY <1>1, <1>3, <2>1 DEF Controller, States
    <2>4. LockAfter(lock, result, ok) = lock
      BY <2>1 DEF LockAfter, a
    <2> QED
      BY <1>2, <2>1, <2>2, <2>3, <2>4 DEF Sound, Locked, r, a
  <1>5. CASE DeadlineReached(s, "discovering") /\ Choices(s) # {}
    <2>1. PICK id \in Choices(s) :
             /\ r = [s EXCEPT !.state = "claiming", !.candidate = id, !.conflict = FALSE,
                              !.deadline = ClaimTime, !.query = QueryInterval, !.heard = {}]
             /\ a = {"announce", "query"}
      <3> DEFINE claiming(id) ==
                    [s EXCEPT !.state = "claiming", !.candidate = id, !.conflict = FALSE,
                              !.deadline = ClaimTime, !.query = QueryInterval, !.heard = {}]
      <3>1. Ticked(s, ok) = {[node |-> claiming(id), actions |-> {"announce", "query"}] :
                                id \in Choices(s)}
        BY <1>5, Zenon DEF Ticked
      <3> HIDE DEF claiming
      <3>2. PICK id \in Choices(s) :
               result = [node |-> claiming(id), actions |-> {"announce", "query"}]
        BY <3>1
      <3>3. r = claiming(id) /\ a = {"announce", "query"}
        BY <3>2
      <3> QED
        BY <3>3 DEF claiming
    <2>2. id \in Ids
      BY DEF Choices
    <2>3. s.state = "discovering" /\ s.automatic /\ lock = None
      BY <1>5 DEF DeadlineReached, Sound, Locked, Choosing
    <2> HIDE DEF r, a
    <2>4. /\ r \in Controller /\ r.state = "claiming" /\ r.automatic = s.automatic
          /\ r.candidate = id /\ r.deadline = ClaimTime /\ r.query = QueryInterval
      BY <1>1, <1>3, <2>1, <2>2 DEF Controller, States
    <2>5. LockAfter(lock, result, ok) = lock
      BY <2>1 DEF LockAfter, a
    <2> QED
      BY <1>2, <2>1, <2>2, <2>3, <2>4, <2>5 DEF Sound, Locked, r, a
  <1>6. CASE ~DeadlineReached(s, "discovering") /\ DeadlineReached(s, "claiming")
    <2>1. /\ r = IF ok THEN [s EXCEPT !.state = "ready", !.automatic = FALSE,
                                      !.conflict = FALSE, !.preferred = s.candidate,
                                      !.query = FirstWatch]
                 ELSE [s EXCEPT !.state = "saveFailed", !.query = 0]
          /\ a = {"save"}
      BY <1>6 DEF Ticked
    <2>2. s.state = "claiming" /\ s.automatic /\ lock = None /\ s.candidate \in Ids
      BY <1>6 DEF DeadlineReached, Sound, Locked, Choosing
    <2>3. CASE ok
      <3> HIDE DEF r, a
      <3>1. /\ r \in Controller /\ r.state = "ready" /\ r.automatic = FALSE
            /\ r.candidate = s.candidate /\ r.deadline = s.deadline /\ r.query = FirstWatch
        BY <1>1, <1>3, <2>1, <2>3 DEF Controller, States
      <3>2. LockAfter(lock, result, ok) = s.candidate
        BY <2>1, <2>3, <3>1 DEF LockAfter, r, a
      <3>3. s.candidate # None
        BY <2>2, InstanceAssumption
      <3> QED
        BY <1>1, <1>2, <2>1, <2>2, <3>1, <3>2, <3>3 DEF Sound, Locked, Choosing, r, a
    <2>4. CASE ~ok
      <3> HIDE DEF r, a
      <3>1. /\ r \in Controller /\ r.state = "saveFailed" /\ r.automatic = s.automatic
            /\ r.deadline = s.deadline /\ r.query = 0
        BY <1>1, <2>1, <2>4 DEF Controller, States
      <3>2. LockAfter(lock, result, ok) = lock
        BY <2>4 DEF LockAfter
      <3> QED
        BY <1>1, <1>2, <2>1, <2>2, <3>1, <3>2 DEF Sound, Locked, Choosing, r, a
    <2> QED
      BY <2>3, <2>4
  <1>7. CASE /\ ~DeadlineReached(s, "discovering") /\ ~DeadlineReached(s, "claiming")
             /\ Asks(s) /\ s.query = 0
    <2> DEFINE q == IF s.state = "ready" THEN WatchInterval ELSE QueryInterval
    <2>1. /\ r = [s EXCEPT !.query = q]
          /\ a = {"query"} \cup (IF s.state = "claiming" THEN {"announce"} ELSE {})
      BY <1>7 DEF Ticked
    <2>2. q \in Nat /\ InTime(q)
      BY <1>2, <1>3
    <2> HIDE DEF r, a, q
    <2>3. /\ r \in Controller /\ r.state = s.state /\ r.automatic = s.automatic
          /\ r.candidate = s.candidate /\ r.deadline = s.deadline /\ r.query = q
      BY <1>1, <2>1, <2>2 DEF Controller
    <2>4. LockAfter(lock, result, ok) = lock
      BY <2>1 DEF LockAfter, a
    <2>5. \/ s.state = "discovering" /\ "announce" \notin a
          \/ s.candidate \in Ids
      BY <1>7, <2>1 DEF Asks, Sound, Locked
    <2>6. "save" \notin a
      BY <2>1
    <2> QED
      BY <1>1, <2>2, <2>3, <2>4, <2>5, <2>6 DEF Sound, Locked, r, a
  <1>8. CASE /\ ~DeadlineReached(s, "discovering") /\ ~DeadlineReached(s, "claiming")
             /\ ~(Asks(s) /\ s.query = 0)
    <2>1. r = s /\ a = {}
      BY <1>8 DEF Ticked
    <2> QED
      BY <2>1 DEF LockAfter
  <1> QED
    BY <1>4, <1>5, <1>6, <1>7, <1>8

-----------------------------------------------------------------------------
(* Controllers and packets *)

LEMMA StepCases ==
    ASSUME [Next]_vars
    PROVE  \/ \E n \in Nodes : HandleTimers(n)
           \/ \E n \in Nodes, packet \in net : HandlePacket(n, packet)
           \/ \E packet \in net : Unheard(packet) \/ Lose(packet)
           \/ TimePasses
           \/ \E n \in Nodes : Join(n)
           \/ \E n \in Nodes : Leave(n)
           \/ \E n \in Nodes, readable \in BOOLEAN : Restart(n, readable)
           \/ UNCHANGED vars
  BY DEF Next, Step

LEMMA BroadcastType ==
    ASSUME NEW n \in Nodes, NEW kind \in {"whoIs", "iAm"}, NEW ids \in SUBSET Ids
    PROVE  Broadcast(n, kind, ids) \subseteq Packet
  BY TimeAssumption DEF Broadcast, Packet

LEMMA RepliesType ==
    ASSUME NEW n \in Nodes, NEW packet \in Packet, Sound(node[n], saved[n]),
           saved[n] \in Ids \cup {None}
    PROVE  Replies(n, packet) \subseteq Packet
  <1>1. CASE packet.kind = "whoIs" /\ node[n].state \in {"claiming", "ready"}
             /\ node[n].candidate \in packet.ids
    <2>1. {node[n].candidate} \in SUBSET Ids
      BY <1>1 DEF Packet
    <2> QED
      BY <1>1, <2>1, BroadcastType DEF Replies
  <1>2. CASE ~(packet.kind = "whoIs" /\ node[n].state \in {"claiming", "ready"}
               /\ node[n].candidate \in packet.ids)
    BY <1>2 DEF Replies
  <1> QED
    BY <1>1, <1>2

\* What a step does to one controller, and to what it has saved.
Kept(n) ==
    /\ saved[n] # None =>
          \/ saved'[n] = saved[n] /\ flash'[n] = saved[n]
          \/ Restart(n, FALSE)
    /\ Ready(n) => node'[n].state \in {"ready", "off"}

\* A save that fails may be stored, but only where nothing was known to be saved.
LEMMA StoredSound ==
    ASSUME ClaimInv, NEW n \in Nodes, NEW result, NEW ok \in BOOLEAN,
           LockAfter(saved[n], result, ok) \in Ids \cup {None},
           result.node.candidate \in Ids \cup {None},
           "save" \in result.actions => saved[n] = None,
           saved' = [saved EXCEPT ![n] = LockAfter(saved[n], result, ok)],
           flash' \in Stored(n, result, ok)
    PROVE  FlashInv'
  <1>1. saved \in [Nodes -> Ids \cup {None}] /\ flash \in [Nodes -> Ids \cup {None}]
    BY DEF ClaimInv, FlashInv
  <1>2. \/ flash' = flash
        \/ "save" \in result.actions /\ flash' = [flash EXCEPT ![n] = result.node.candidate]
    BY DEF Stored
  <1>3. flash' \in [Nodes -> Ids \cup {None}]
    BY <1>1, <1>2
  <1>4. ASSUME NEW m \in Nodes, saved'[m] # None
        PROVE  flash'[m] = saved'[m]
    <2>1. CASE m # n
      BY <1>1, <1>2, <1>4, <2>1 DEF ClaimInv, FlashInv
    <2>2. CASE m = n /\ ~("save" \in result.actions)
      BY <1>1, <1>2, <1>4, <2>2 DEF ClaimInv, FlashInv, LockAfter
    <2>3. CASE m = n /\ "save" \in result.actions
      <3>1. ok /\ saved'[n] = result.node.candidate
        BY <1>1, <1>4, <2>3 DEF LockAfter
      <3>2. flash' = [flash EXCEPT ![n] = result.node.candidate]
        BY <2>3, <3>1 DEF Stored
      <3> QED
        BY <1>1, <2>3, <3>1, <3>2
    <2> QED
      BY <2>1, <2>2, <2>3
  <1> QED
    BY <1>3, <1>4 DEF FlashInv

LEMMA IterateSound ==
    ASSUME ClaimInv, NEW n \in Nodes, NEW jitter \in 0 .. MaxJitter, NEW received, NEW s,
           NEW replies, Sound(s, saved[n]), s.state # "off", Ready(n) => s.state = "ready",
           replies \subseteq Packet, Iterate(n, jitter, received, s, replies)
    PROVE  ClaimInv' /\ \A m \in Nodes : Kept(m)
  <1>1. PICK ok \in BOOLEAN :
           \E result \in Ticked(RangeRetried(s, jitter), ok) :
              /\ node' = [node EXCEPT ![n] = result.node]
              /\ net' = (net \ received) \cup replies \cup Sent(n, result)
              /\ saved' = IF ok /\ "save" \in result.actions
                          THEN [saved EXCEPT ![n] = result.node.candidate] ELSE saved
              /\ flash' \in Stored(n, result, ok)
    BY Zenon DEF Iterate
  <1> DEFINE t == RangeRetried(s, jitter)
  <1>2. PICK result \in Ticked(t, ok) :
           /\ node' = [node EXCEPT ![n] = result.node]
           /\ net' = (net \ received) \cup replies \cup Sent(n, result)
           /\ saved' = IF ok /\ "save" \in result.actions
                       THEN [saved EXCEPT ![n] = result.node.candidate] ELSE saved
           /\ flash' \in Stored(n, result, ok)
    BY <1>1
  <1>3. saved[n] \in Ids \cup {None}
    BY DEF ClaimInv
  <1>4. Sound(t, saved[n]) /\ t.state # "off" /\ (s.state = "ready" <=> t.state = "ready")
    BY <1>3, RangeRetriedSound
  <1> DEFINE lock == LockAfter(saved[n], result, ok)
  <1> HIDE DEF t
  <1>5. /\ lock \in Ids \cup {None}
        /\ Sound(result.node, lock)
        /\ "save" \in result.actions => saved[n] = None
        /\ saved[n] # None => lock = saved[n]
        /\ t.state = "ready" => result.node.state = "ready"
        /\ result.actions \cap {"query", "announce"} # {} =>
              \/ result.node.state = "discovering" /\ "announce" \notin result.actions
              \/ result.node.candidate \in Ids
    BY <1>3, <1>4, TickedSound
  <1>6. saved' = [saved EXCEPT ![n] = lock]
    BY <1>2 DEF LockAfter, ClaimInv
  <1>14. FlashInv'
    <2>1. result.node.candidate \in Ids \cup {None}
      BY <1>5 DEF Sound, Controller
    <2> QED
      BY <1>2, <1>5, <1>6, <2>1, StoredSound
  <1> HIDE DEF lock
  <1>7. Sent(n, result) \subseteq Packet
    <2>1. CASE result.node.candidate \in Ids
      <3>1. {result.node.candidate} \in SUBSET Ids /\ Ids \in SUBSET Ids
        BY <2>1
      <3>2. \A kind \in {"whoIs", "iAm"} :
               /\ Broadcast(n, kind, {result.node.candidate}) \subseteq Packet
               /\ Broadcast(n, kind, Ids) \subseteq Packet
        BY <3>1, BroadcastType
      <3> QED
        BY <3>2 DEF Sent
    <2>2. CASE result.node.state = "discovering" /\ "announce" \notin result.actions
      <3>1. Broadcast(n, "whoIs", Ids) \subseteq Packet
        BY BroadcastType
      <3> QED
        BY <2>2, <3>1 DEF Sent
    <2>3. CASE result.actions \cap {"query", "announce"} = {}
      BY <2>3 DEF Sent
    <2> QED
      BY <1>5, <2>1, <2>2, <2>3
  <1>8. net' \subseteq Packet
    BY <1>2, <1>7 DEF ClaimInv
  <1>9. \A m \in Nodes : /\ node'[m] = IF m = n THEN result.node ELSE node[m]
                         /\ saved'[m] = IF m = n THEN lock ELSE saved[m]
    BY <1>2, <1>6 DEF ClaimInv
  <1>10. \A m \in Nodes : Sound(node'[m], saved'[m])
    BY <1>5, <1>9 DEF ClaimInv
  <1>11. node' = [m \in Nodes |-> node'[m]] /\ saved' \in [Nodes -> Ids \cup {None}]
    BY <1>2, <1>5, <1>6 DEF ClaimInv
  <1>12. ClaimInv'
    BY <1>8, <1>10, <1>11, <1>14 DEF ClaimInv
  <1>13. \A m \in Nodes : Kept(m)
    <2> SUFFICES ASSUME NEW m \in Nodes PROVE Kept(m)
      OBVIOUS
    <2>1. CASE m = n
      <3>1. saved[n] # None => saved'[n] = saved[n] /\ flash'[n] = saved[n]
        BY <1>5, <1>9, <1>14 DEF FlashInv
      <3> QED
        BY <1>4, <1>5, <1>9, <2>1, <3>1 DEF Kept, Ready
    <2>2. CASE m # n
      BY <1>9, <1>14, <2>2 DEF Kept, Ready, FlashInv
    <2> QED
      BY <2>1, <2>2
  <1> QED
    BY <1>12, <1>13

\* A controller that is not there has nothing to lock.
LEMMA OffSound == \A lock : Sound(Off, lock)
  <1>1. Off \in Controller
    BY DEF Off, Controller, States
  <1>2. Off.state = "off" /\ Off.deadline = 0 /\ Off.query = 0
    BY DEF Off
  <1> QED
    BY <1>1, <1>2, PeriodsInTime DEF Sound, Locked, Choosing

LEMMA ClaimInit == Init => ClaimInv
  <1> SUFFICES ASSUME Init PROVE ClaimInv
    OBVIOUS
  <1>1. /\ saved \in [Nodes -> Ids \cup {None}] /\ flash = saved /\ net = {}
        /\ node = [n \in Nodes |-> IF saved[n] = None THEN Off ELSE Started(TRUE, saved[n], 0)]
    BY Zenon DEF Init
  <1>2. ASSUME NEW n \in Nodes
        PROVE  Sound(node[n], saved[n])
    <2>1. CASE saved[n] = None
      BY <1>1, <2>1, OffSound
    <2>2. CASE saved[n] # None
      <3>1. 0 \in 0 .. MaxJitter
        BY TimeAssumption
      <3>2. saved[n] \in Ids \cup {None} /\ (saved[n] # None) = TRUE
        BY <1>1, <2>2
      <3>3. Sound(Started(saved[n] # None, saved[n], 0), saved[n])
        BY <3>1, <3>2, StartedSound
      <3> QED
        BY <1>1, <2>2, <3>2, <3>3
    <2> QED
      BY <2>1, <2>2
  <1>3. node = [n \in Nodes |-> node[n]]
    BY <1>1
  <1> QED
    BY <1>1, <1>2, <1>3 DEF ClaimInv, FlashInv

\* One controller is replaced by a sound one, and no packet is new.
LEMMA ReplacedSound ==
    ASSUME ClaimInv, NEW n \in Nodes, NEW s, node' = [node EXCEPT ![n] = s],
           Sound(s, saved[n]), Ready(n) => s.state \in {"ready", "off"},
           saved' = saved, flash' = flash, net' \subseteq net
    PROVE  ClaimInv' /\ \A m \in Nodes : Kept(m)
  <1>1. \A m \in Nodes : node'[m] = IF m = n THEN s ELSE node[m]
    BY DEF ClaimInv
  <1>2. node' = [m \in Nodes |-> node'[m]]
    BY DEF ClaimInv
  <1> QED
    BY <1>1, <1>2 DEF ClaimInv, FlashInv, Kept, Ready

LEMMA ClaimStep ==
    ASSUME ClaimInv, [Next]_vars
    PROVE  ClaimInv' /\ \A m \in Nodes : Kept(m)
  <1>1. ASSUME NEW n \in Nodes, HandleTimers(n)
        PROVE  ClaimInv' /\ \A m \in Nodes : Kept(m)
    <2>1. node[n].state # "off"
      BY <1>1 DEF HandleTimers, TimerDue, Asks
    <2>2. /\ Sound(node[n], saved[n])
          /\ \E jitter \in 0 .. MaxJitter : Iterate(n, jitter, {}, node[n], {})
      BY <1>1 DEF HandleTimers, ClaimInv
    <2> QED
      BY <2>1, <2>2, IterateSound DEF Ready
  <1>2. ASSUME NEW n \in Nodes, NEW packet \in net, HandlePacket(n, packet)
        PROVE  ClaimInv' /\ \A m \in Nodes : Kept(m)
    <2>1. /\ packet \in Packet /\ Sound(node[n], saved[n])
          /\ saved[n] \in Ids \cup {None} /\ node[n].state # "off"
      BY <1>2 DEF ClaimInv, HandlePacket
    <2>2. PICK jitter \in 0 .. MaxJitter, id \in packet.ids :
             Iterate(n, jitter, {packet},
                     IF packet.kind = "iAm" THEN Observed(node[n], id, jitter) ELSE node[n],
                     Replies(n, packet))
      BY <1>2, Zenon DEF HandlePacket
    <2>3. id \in Ids
      BY <2>1 DEF Packet
    <2>4. /\ Sound(Observed(node[n], id, jitter), saved[n])
          /\ Observed(node[n], id, jitter).state # "off"
          /\ Ready(n) => Observed(node[n], id, jitter).state = "ready"
      BY <2>1, <2>3, ObservedSound DEF Ready
    <2>5. Replies(n, packet) \subseteq Packet
      BY <2>1, RepliesType
    <2>6. CASE packet.kind = "iAm"
      BY <2>2, <2>4, <2>5, <2>6, IterateSound
    <2>7. CASE packet.kind # "iAm"
      BY <2>1, <2>2, <2>5, <2>7, IterateSound DEF Ready
    <2> QED
      BY <2>6, <2>7
  <1>3. ASSUME NEW packet \in net, Unheard(packet) \/ Lose(packet)
        PROVE  ClaimInv' /\ \A m \in Nodes : Kept(m)
    BY <1>3 DEF Unheard, Lose, ClaimInv, FlashInv, Kept, Ready
  <1>4. CASE TimePasses
    <2>1. /\ node' = [n \in Nodes |-> [node[n] EXCEPT !.deadline = Elapsed(node[n].deadline),
                                                      !.query = Elapsed(node[n].query)]]
          /\ net' = {[packet EXCEPT !.ttl = packet.ttl - 1] : packet \in net}
          /\ saved' = saved /\ flash' = flash /\ \A packet \in net : packet.ttl > 0
      BY <1>4 DEF TimePasses
    <2>2. ASSUME NEW n \in Nodes
          PROVE  Sound(node'[n], saved[n]) /\ node'[n].state = node[n].state
      <3> DEFINE s == node[n]
                 d == Elapsed(s.deadline)
                 q == Elapsed(s.query)
                 r == [s EXCEPT !.deadline = d, !.query = q]
      <3>1. Sound(s, saved[n]) /\ s \in Controller
        BY DEF ClaimInv, Sound
      <3>2. node'[n] = r
        BY <2>1
      <3>3. InTime(d) /\ InTime(q)
        BY <3>1, PeriodsInTime DEF Sound
      <3>4. d \in Nat /\ q \in Nat
        BY <3>3 DEF InTime
      <3> HIDE DEF s, d, q
      <3>5. /\ r \in Controller /\ r.state = s.state /\ r.automatic = s.automatic
            /\ r.candidate = s.candidate /\ r.deadline = d /\ r.query = q
        BY <3>1, <3>4 DEF Controller
      <3>6. Locked(s, saved[n])
        BY <3>1 DEF Sound
      <3> HIDE DEF r
      <3>7. Sound(r, saved[n])
        BY <3>3, <3>5, <3>6 DEF Sound, Locked
      <3> QED
        BY <3>2, <3>5, <3>7 DEF s
    <2>3. net' \subseteq Packet
      <3> SUFFICES ASSUME NEW packet \in net PROVE [packet EXCEPT !.ttl = packet.ttl - 1] \in Packet
        BY <2>1
      <3>1. packet \in Packet /\ packet.ttl > 0
        BY <2>1 DEF ClaimInv
      <3>2. packet.ttl - 1 \in 0 .. MaxDelay
        BY <3>1, TimeAssumption DEF Packet
      <3> QED
        BY <3>1, <3>2 DEF Packet
    <2>4. node' = [n \in Nodes |-> node'[n]]
      BY <2>1
    <2> QED
      BY <2>1, <2>2, <2>3, <2>4 DEF ClaimInv, FlashInv, Kept, Ready
  <1>5. ASSUME NEW n \in Nodes, Join(n)
        PROVE  ClaimInv' /\ \A m \in Nodes : Kept(m)
    <2>1. PICK jitter \in 0 .. MaxJitter, preferred \in {None, Default, saved[n]} :
             /\ saved[n] # None => preferred = saved[n]
             /\ node' = [node EXCEPT ![n] = Started(saved[n] # None, preferred, jitter)]
      BY <1>5, Zenon DEF Join
    <2>2. saved[n] \in Ids \cup {None} /\ preferred \in Ids \cup {None}
      BY InstanceAssumption DEF ClaimInv
    <2>3. Sound(Started(saved[n] # None, preferred, jitter), saved[n])
      BY <2>1, <2>2, StartedSound
    <2>4. ~Ready(n) /\ saved' = saved /\ flash' = flash /\ net' = net
      BY <1>5 DEF Join, Ready
    <2> QED
      BY <2>1, <2>3, <2>4, ReplacedSound
  <1>6. ASSUME NEW n \in Nodes, Leave(n)
        PROVE  ClaimInv' /\ \A m \in Nodes : Kept(m)
    <2>1. /\ node' = [node EXCEPT ![n] = Off] /\ saved' = saved /\ flash' = flash
          /\ net' \subseteq net /\ Off.state = "off"
      BY <1>6 DEF Leave, Gone, Off
    <2> QED
      BY <2>1, OffSound, ReplacedSound
  <1>7. ASSUME NEW n \in Nodes, NEW readable \in BOOLEAN, Restart(n, readable)
        PROVE  ClaimInv' /\ \A m \in Nodes : Kept(m)
    <2>1. /\ node' = [node EXCEPT ![n] = Off] /\ Off.state = "off" /\ net' \subseteq net
          /\ flash' = IF readable THEN flash ELSE [flash EXCEPT ![n] = None]
          /\ saved' = [saved EXCEPT ![n] = flash'[n]]
      BY <1>7 DEF Restart, Gone, Off
    <2>2. \A m \in Nodes : /\ node'[m] = IF m = n THEN Off ELSE node[m]
                           /\ saved'[m] = IF m = n THEN flash'[n] ELSE saved[m]
                           /\ flash'[m] = IF m = n /\ ~readable THEN None ELSE flash[m]
      BY <2>1 DEF ClaimInv, FlashInv
    <2>3. FlashInv' /\ saved' \in [Nodes -> Ids \cup {None}]
      BY <2>1, <2>2 DEF ClaimInv, FlashInv
    <2>4. \A m \in Nodes : Sound(node'[m], saved'[m])
      BY <2>2, OffSound DEF ClaimInv
    <2>5. node' = [m \in Nodes |-> node'[m]] /\ net' \subseteq Packet
      BY <2>1 DEF ClaimInv
    <2>6. ASSUME NEW m \in Nodes
          PROVE  Kept(m)
      <3>1. Ready(m) => node'[m].state \in {"ready", "off"}
        BY <2>1, <2>2 DEF Ready
      <3>2. CASE readable \/ m # n
        BY <2>2, <3>1, <3>2 DEF Kept, ClaimInv, FlashInv
      <3>3. CASE ~readable /\ m = n
        BY <1>7, <3>1, <3>3 DEF Kept
      <3> QED
        BY <3>2, <3>3
    <2> QED
      BY <2>3, <2>4, <2>5, <2>6 DEF ClaimInv
  <1>8. CASE UNCHANGED vars
    BY <1>8 DEF vars, ClaimInv, FlashInv, Kept, Ready
  <1> QED
    BY <1>1, <1>2, <1>3, <1>4, <1>5, <1>6, <1>7, <1>8, StepCases

\* Every controller stays sound and every packet is one that was sent to a node.
THEOREM ClaimInvariant == Spec => []ClaimInv
  BY ClaimInit, ClaimStep, PTL DEF Spec

-----------------------------------------------------------------------------
(* Claims of one instance by two controllers *)

Holds(s, id) == s.state \in {"claiming", "ready"} /\ s.candidate = id

\* A controller that may still save id, unless it hears of another.
Seeks(s, id) ==
    \/ s.state = "discovering" /\ id \notin s.heard
    \/ s.state = "claiming" /\ s.candidate = id

\* How long it can hear of another before it saves.
TimeLeft(s) == IF s.state = "discovering" THEN s.deadline + ClaimTime ELSE s.deadline

\* Its next question is answered in time.
WillAsk(s) == s.state = "discovering" /\ s.query + 2 * MaxDelay < TimeLeft(s)

\* n seeks id and hears in time that m holds it: an I-Am is on its way to n, or a
\* Who-Is to m that m answers, or will be.
WillHear(nodes, packets, n, m, id) ==
    /\ Holds(nodes[m], id) /\ Seeks(nodes[n], id)
    /\ \/ \E p \in packets :
             \/ /\ p.kind = "iAm" /\ p.to = n /\ p.ids = {id}
                /\ p.ttl < TimeLeft(nodes[n])
             \/ /\ p.kind = "whoIs" /\ p.to = m /\ id \in p.ids
                /\ p.ttl + MaxDelay < TimeLeft(nodes[n])
       \/ WillAsk(nodes[n])

OneWillHear(nodes, packets, m, n, id) ==
    WillHear(nodes, packets, m, n, id) \/ WillHear(nodes, packets, n, m, id)

Rivals(s, r, id) == Holds(s, id) /\ (Holds(r, id) \/ Seeks(r, id))

\* Of two controllers that hold an instance, or of which one holds and the other
\* may choose it, one hears of the other in time to give it up.
Contested(nodes, packets) ==
    \A m, n \in Nodes, id \in Ids :
        m # n /\ Rivals(nodes[m], nodes[n], id) => OneWillHear(nodes, packets, m, n, id)

\* Without outages every controller with a lock is there.
Present == \A n \in Nodes : node[n].state = "off" => saved[n] = None

UniqueInv ==
    /\ leaves \in Nat /\ losses \in Nat
    /\ leaves = 0 /\ losses = 0 => Present /\ Contested(node, net)

LEMMA ContestedNext == Contested(node, net)' <=> Contested(node', net')
  BY DEF Contested, OneWillHear, WillHear

\* What somebody will hear reaches it as long as neither changes and no packet to
\* either goes.
LEMMA HearsStill ==
    ASSUME NEW nodes, NEW packets, NEW after, NEW left, NEW m, NEW n, NEW id,
           OneWillHear(nodes, packets, m, n, id), after[m] = nodes[m], after[n] = nodes[n],
           \A p \in packets : p.to \in {m, n} => p \in left
    PROVE  OneWillHear(after, left, m, n, id)
  <1>1. ASSUME NEW k \in {m, n}, NEW l \in {m, n}, WillHear(nodes, packets, k, l, id)
        PROVE  WillHear(after, left, k, l, id)
    <2>1. after[k] = nodes[k] /\ after[l] = nodes[l]
      OBVIOUS
    <2> QED
      BY <1>1, <2>1 DEF WillHear
  <1> QED
    BY <1>1 DEF OneWillHear

\* Who changes begins to ask or seeks nothing, and packets to such are lost only.
LEMMA AskingContested ==
    ASSUME NEW nodes, NEW packets, Contested(nodes, packets), NEW after, NEW left,
           \A n \in Nodes, id \in Ids :
              \/ after[n] = nodes[n]
              \/ ~Holds(after[n], id) /\ (Seeks(after[n], id) => WillAsk(after[n])),
           \A p \in packets \ left : \A id \in Ids :
              p.to \in Nodes /\ ~Holds(after[p.to], id) /\ ~Seeks(after[p.to], id)
    PROVE  Contested(after, left)
  <1> SUFFICES ASSUME NEW m \in Nodes, NEW n \in Nodes, NEW id \in Ids, m # n,
                      Rivals(after[m], after[n], id)
               PROVE  OneWillHear(after, left, m, n, id)
    BY DEF Contested
  <1>1. after[m] = nodes[m]
    BY DEF Rivals
  <1>2. CASE after[n] = nodes[n]
    <2>1. OneWillHear(nodes, packets, m, n, id)
      BY <1>1, <1>2 DEF Contested
    <2>2. \A p \in packets : p.to \in {m, n} => p \in left
      BY DEF Rivals
    <2> QED
      BY <1>1, <1>2, <2>1, <2>2, HearsStill
  <1>3. CASE after[n] # nodes[n]
    <2>1. Seeks(after[n], id) /\ WillAsk(after[n])
      BY <1>3 DEF Rivals
    <2>2. WillHear(after, left, n, m, id)
      BY <2>1 DEF WillHear, Rivals
    <2> QED
      BY <2>2 DEF OneWillHear
  <1> QED
    BY <1>2, <1>3

\* Only one controller and the packets to it or from it change.
LEMMA PairsContested ==
    ASSUME NEW nodes, NEW packets, Contested(nodes, packets), NEW n \in Nodes, NEW after, NEW left,
           \A m \in Nodes \ {n} : after[m] = nodes[m],
           \A p \in packets : p.to # n => p \in left,
           \A m \in Nodes \ {n}, id \in Ids :
              Rivals(after[n], nodes[m], id) \/ Rivals(nodes[m], after[n], id) =>
                 OneWillHear(after, left, m, n, id)
    PROVE  Contested(after, left)
  <1> SUFFICES ASSUME NEW k \in Nodes, NEW l \in Nodes, NEW id \in Ids, k # l,
                      Rivals(after[k], after[l], id)
               PROVE  OneWillHear(after, left, k, l, id)
    BY DEF Contested
  <1>1. CASE k = n
    BY <1>1 DEF OneWillHear
  <1>2. CASE l = n
    BY <1>2 DEF OneWillHear
  <1>3. CASE k # n /\ l # n
    <2>1. after[l] = nodes[l] /\ after[k] = nodes[k]
      BY <1>3
    <2>2. OneWillHear(nodes, packets, k, l, id)
      BY <2>1 DEF Contested
    <2>3. \A p \in packets : p.to \in {k, l} => p \in left
      BY <1>3
    <2> QED
      BY <2>1, <2>2, <2>3, HearsStill
  <1> QED
    BY <1>1, <1>2, <1>3

\* A discovery begins with a question that is answered in time.
LEMMA DiscoveringAsks ==
    ASSUME NEW s \in Controller, NEW jitter \in 0 .. MaxJitter
    PROVE  /\ WillAsk(Discovering(s, jitter))
           /\ \A id : ~Holds(Discovering(s, jitter), id)
  <1> DEFINE r == Discovering(s, jitter)
  <1>1. r.state = "discovering" /\ r.query = jitter /\ r.deadline = jitter + DiscoverTime
    BY DEF Discovering, Controller
  <1> HIDE DEF r
  <1>2. jitter + 2 * MaxDelay < jitter + DiscoverTime + ClaimTime
    BY TimeAssumption, DelayAssumption
  <1>3. WillAsk(r) /\ \A id : ~Holds(r, id)
    BY <1>1, <1>2 DEF WillAsk, TimeLeft, Holds
  <1> QED
    BY <1>3 DEF r

\* What n hears makes it hold nothing new, and it does not seek what it heard of;
\* a claim that is contested ends.
LEMMA ObservedRivals ==
    ASSUME NEW s, NEW lock, Sound(s, lock), NEW id \in Ids, NEW jitter \in 0 .. MaxJitter,
           NEW r, r = Observed(s, id, jitter)
    PROVE  /\ ~Seeks(r, id)
           /\ \/ WillAsk(r) /\ \A x : ~Holds(r, x)
              \/ /\ r.state = s.state /\ r.deadline = s.deadline /\ r.query = s.query
                 /\ r.candidate = s.candidate /\ s.heard \subseteq r.heard
  <1>0. s \in Controller
    BY DEF Sound
  <1>1. CASE ~Contests(s, id)
    <2> DEFINE h == IF s.state = "discovering" THEN s.heard \cup {id} ELSE s.heard
    <2>1. r = [s EXCEPT !.heard = h]
      BY <1>1 DEF Observed
    <2>2. /\ r.state = s.state /\ r.deadline = s.deadline /\ r.query = s.query
          /\ r.candidate = s.candidate /\ r.heard = h
      BY <1>0, <2>1 DEF Controller
    <2>3. ~Seeks(r, id)
      BY <1>1, <2>2 DEF Seeks, Contests
    <2> QED
      BY <2>2, <2>3
  <1>2. CASE Contests(s, id) /\ ~s.automatic
    <2>1. r = [s EXCEPT !.conflict = TRUE]
      BY <1>2 DEF Observed, Fixed
    <2>2. /\ r.state = s.state /\ r.deadline = s.deadline /\ r.query = s.query
          /\ r.candidate = s.candidate /\ r.heard = s.heard
      BY <1>0, <2>1 DEF Controller
    <2>3. s.state = "ready"
      BY <1>2 DEF Contests, Sound, Locked, Choosing
    <2> QED
      BY <2>2, <2>3 DEF Seeks
  <1>3. CASE Contests(s, id) /\ s.automatic
    <2> DEFINE q == [s EXCEPT !.preferred = None, !.conflict = TRUE]
               d == Discovering(q, jitter)
    <2>1. r = [d EXCEPT !.heard = {id}]
      BY <1>3 DEF Observed, Fixed
    <2>2. q \in Controller /\ q.automatic
      BY <1>0, <1>3 DEF Controller
    <2>3. d \in Controller /\ d.state = "discovering" /\ WillAsk(d)
      BY <2>2, DiscoveringSound, DiscoveringAsks DEF Sound
    <2> HIDE DEF d
    <2>4. /\ r.state = "discovering" /\ r.deadline = d.deadline /\ r.query = d.query
          /\ r.heard = {id}
      BY <2>1, <2>3 DEF Controller
    <2> QED
      BY <2>3, <2>4 DEF Seeks, Holds, WillAsk, TimeLeft
  <1> QED
    BY <1>1, <1>2, <1>3

\* A packet is received: who asked about a held instance is answered.
LEMMA ReceivedContested ==
    ASSUME ClaimInv, Contested(node, net), NEW n \in Nodes, NEW packet \in net, packet.to = n,
           NEW jitter \in 0 .. MaxJitter, NEW id \in packet.ids, NEW after,
           \A m \in Nodes \ {n} : after[m] = node[m],
           after[n] = IF packet.kind = "iAm" THEN Observed(node[n], id, jitter) ELSE node[n]
    PROVE  Contested(after, (net \ {packet}) \cup Replies(n, packet))
  <1> DEFINE left == (net \ {packet}) \cup Replies(n, packet)
             Same == /\ after[n].state = node[n].state /\ after[n].deadline = node[n].deadline
                     /\ after[n].query = node[n].query
                     /\ after[n].candidate = node[n].candidate
                     /\ node[n].heard \subseteq after[n].heard
  <1>1. packet \in Packet /\ id \in Ids /\ Sound(node[n], saved[n])
    BY DEF ClaimInv, Packet
  <1>2. /\ packet.kind = "iAm" => ~Seeks(after[n], id)
        /\ (WillAsk(after[n]) /\ \A x : ~Holds(after[n], x)) \/ Same
    <2>1. CASE packet.kind = "iAm"
      BY <1>1, <2>1, ObservedRivals
    <2>2. CASE packet.kind # "iAm"
      BY <2>2
    <2> QED
      BY <2>1, <2>2
  <1>3. ASSUME NEW m \in Nodes \ {n}, NEW x \in Ids,
               Rivals(after[n], node[m], x) \/ Rivals(node[m], after[n], x)
        PROVE  OneWillHear(after, left, m, n, x)
    <2>1. CASE WillAsk(after[n]) /\ \A y : ~Holds(after[n], y)
      <3>1. WillHear(after, left, n, m, x)
        BY <1>3, <2>1 DEF WillHear, Rivals
      <3> QED
        BY <3>1 DEF OneWillHear
    <2>2. CASE Same
      <3>1. /\ Holds(after[n], x) => Holds(node[n], x)
            /\ Holds(node[n], x) => Holds(after[n], x)
            /\ Seeks(after[n], x) => Seeks(node[n], x)
            /\ WillAsk(node[n]) => WillAsk(after[n])
        BY <2>2 DEF Holds, Seeks, TimeLeft, WillAsk
      <3>2. TimeLeft(after[n]) = TimeLeft(node[n])
        BY <2>2 DEF TimeLeft
      <3>3. OneWillHear(node, net, m, n, x)
        BY <1>3, <3>1 DEF Contested, Rivals, OneWillHear
      <3>4. CASE WillHear(node, net, n, m, x)
        <4>1. Seeks(after[n], x)
          BY <1>3, <2>2, <3>4 DEF Rivals, WillHear, Seeks, Holds
        <4>2. CASE WillAsk(node[n])
          <5>1. WillHear(after, left, n, m, x)
            BY <3>1, <3>2, <3>4, <4>1, <4>2 DEF WillHear
          <5> QED
            BY <5>1 DEF OneWillHear
        <4>3. CASE ~WillAsk(node[n])
          <5>1. PICK p \in net :
                   \/ /\ p.kind = "iAm" /\ p.to = n /\ p.ids = {x}
                      /\ p.ttl < TimeLeft(node[n])
                   \/ /\ p.kind = "whoIs" /\ p.to = m /\ x \in p.ids
                      /\ p.ttl + MaxDelay < TimeLeft(node[n])
            BY <3>4, <4>3 DEF WillHear
          <5>2. p # packet
            BY <1>2, <4>1, <5>1
          <5>3. WillHear(after, left, n, m, x)
            BY <3>2, <3>4, <4>1, <5>1, <5>2 DEF WillHear
          <5> QED
            BY <5>3 DEF OneWillHear
        <4> QED
          BY <4>2, <4>3
      <3>5. CASE WillHear(node, net, m, n, x)
        <4>1. Holds(after[n], x) /\ Seeks(after[m], x) /\ TimeLeft(after[m]) = TimeLeft(node[m])
          BY <3>1, <3>5 DEF WillHear
        <4>2. CASE WillAsk(node[m])
          <5>1. WillHear(after, left, m, n, x)
            BY <4>1, <4>2 DEF WillHear
          <5> QED
            BY <5>1 DEF OneWillHear
        <4>3. CASE ~WillAsk(node[m])
          <5>1. PICK p \in net :
                   \/ /\ p.kind = "iAm" /\ p.to = m /\ p.ids = {x}
                      /\ p.ttl < TimeLeft(node[m])
                   \/ /\ p.kind = "whoIs" /\ p.to = n /\ x \in p.ids
                      /\ p.ttl + MaxDelay < TimeLeft(node[m])
            BY <3>5, <4>3 DEF WillHear
          <5>2. CASE p # packet
            <6>1. WillHear(after, left, m, n, x)
              BY <4>1, <5>1, <5>2 DEF WillHear
            <6> QED
              BY <6>1 DEF OneWillHear
          <5>3. CASE p = packet
            <6> DEFINE reply == [kind |-> "iAm", to |-> m, ids |-> {x}, ttl |-> MaxDelay]
            <6>1. /\ packet.kind = "whoIs" /\ x \in packet.ids
                  /\ packet.ttl + MaxDelay < TimeLeft(node[m])
              BY <5>1, <5>3
            <6>2. node[n].state \in {"claiming", "ready"} /\ node[n].candidate = x
              BY <3>5 DEF WillHear, Holds
            <6>3. Replies(n, packet) = Broadcast(n, "iAm", {x})
              BY <6>1, <6>2 DEF Replies
            <6>4. reply \in Replies(n, packet)
              BY <6>3 DEF Broadcast
            <6>5. MaxDelay < TimeLeft(node[m])
              <7>1. packet.ttl \in Nat /\ TimeLeft(node[m]) \in Nat
                BY <1>1, TimeAssumption DEF Packet, ClaimInv, Sound, InTime, TimeLeft
              <7> QED
                BY <6>1, <7>1, TimeAssumption
            <6> HIDE DEF left
            <6>6. reply \in left
              BY <6>4 DEF left
            <6>7. /\ reply.kind = "iAm" /\ reply.to = m /\ reply.ids = {x}
                  /\ reply.ttl = MaxDelay
              OBVIOUS
            <6> HIDE DEF reply
            <6>8. WillHear(after, left, m, n, x)
              BY <4>1, <6>5, <6>6, <6>7 DEF WillHear
            <6> QED
              BY <6>8 DEF OneWillHear
          <5> QED
            BY <5>2, <5>3
        <4> QED
          BY <4>2, <4>3
      <3> QED
        BY <3>3, <3>4, <3>5 DEF OneWillHear
    <2> QED
      BY <1>2, <2>1, <2>2
  <1>4. \A p \in net : p.to # n => p \in left
    OBVIOUS
  <1> HIDE DEF left
  <1>5. Contested(after, left)
    BY <1>3, <1>4, PairsContested
  <1> QED
    BY <1>5 DEF left

\* A tick makes a controller hold an instance only as a new claim that it sought
\* and announces, or keeps it: claimed as before, or saved at the end of its time.
\* It seeks only what it sought, in the same time, and asks when it is time to.
LEMMA TickedRivals ==
    ASSUME NEW s, NEW lock, Sound(s, lock), NEW ok \in BOOLEAN, NEW result \in Ticked(s, ok),
           NEW id \in Ids
    PROVE  /\ Holds(result.node, id) =>
                \/ /\ Holds(s, id)
                   /\ result.node.state = s.state /\ result.node.deadline = s.deadline
                \/ /\ Holds(s, id) /\ DeadlineReached(s, "claiming")
                   /\ result.node.state = "ready"
                \/ /\ Seeks(s, id) /\ DeadlineReached(s, "discovering")
                   /\ result.node.state = "claiming" /\ result.node.deadline = ClaimTime
                   /\ {"query", "announce"} \subseteq result.actions
           /\ result.node.state = "discovering" =>
                /\ result.node.heard = s.heard
                /\ s.state = "discovering" /\ result.node.deadline = s.deadline
                /\ \/ result.node.query = s.query
                   \/ s.query = 0 /\ "query" \in result.actions
  <1> DEFINE r == result.node
  <1>1. s \in Controller
    BY DEF Sound
  <1>2. CASE DeadlineReached(s, "discovering") /\ Choices(s) = {}
    <2>1. r = [s EXCEPT !.state = "rangeFull", !.deadline = RetryTime, !.query = 0,
                        !.heard = {}]
      BY <1>2 DEF Ticked
    <2>2. r.state = "rangeFull"
      BY <1>1, <2>1 DEF Controller
    <2> QED
      BY <2>2 DEF Holds
  <1>3. CASE DeadlineReached(s, "discovering") /\ Choices(s) # {}
    <2> DEFINE claiming(x) ==
                  [s EXCEPT !.state = "claiming", !.candidate = x, !.conflict = FALSE,
                            !.deadline = ClaimTime, !.query = QueryInterval, !.heard = {}]
    <2>1. Ticked(s, ok) = {[node |-> claiming(x), actions |-> {"announce", "query"}] :
                              x \in Choices(s)}
      BY <1>3, Zenon DEF Ticked
    <2> HIDE DEF claiming
    <2>2. PICK x \in Choices(s) :
             result = [node |-> claiming(x), actions |-> {"announce", "query"}]
      BY <2>1
    <2>3. r = claiming(x) /\ {"query", "announce"} \subseteq result.actions
      BY <2>2
    <2>4. r.state = "claiming" /\ r.candidate = x /\ r.deadline = ClaimTime
      BY <1>1, <2>3 DEF claiming, Controller
    <2>5. Seeks(s, x)
      BY <1>3 DEF Choices, Seeks, DeadlineReached
    <2> QED
      BY <1>3, <2>3, <2>4, <2>5 DEF Holds
  <1>4. CASE ~DeadlineReached(s, "discovering") /\ DeadlineReached(s, "claiming")
    <2>1. r = IF ok THEN [s EXCEPT !.state = "ready", !.automatic = FALSE,
                                   !.conflict = FALSE, !.preferred = s.candidate,
                                   !.query = FirstWatch]
              ELSE [s EXCEPT !.state = "saveFailed", !.query = 0]
      BY <1>4 DEF Ticked
    <2>2. r.candidate = s.candidate /\ r.state \in {"ready", "saveFailed"}
      BY <1>1, <2>1 DEF Controller
    <2> QED
      BY <1>4, <2>2 DEF Holds, DeadlineReached
  <1>5. CASE /\ ~DeadlineReached(s, "discovering") /\ ~DeadlineReached(s, "claiming")
             /\ Asks(s) /\ s.query = 0
    <2> DEFINE q == IF s.state = "ready" THEN WatchInterval ELSE QueryInterval
    <2>1. r = [s EXCEPT !.query = q] /\ "query" \in result.actions
      BY <1>5 DEF Ticked
    <2>2. /\ r.state = s.state /\ r.candidate = s.candidate /\ r.deadline = s.deadline
          /\ r.heard = s.heard
      BY <1>1, <2>1 DEF Controller
    <2> QED
      BY <1>5, <2>1, <2>2 DEF Holds
  <1>6. CASE /\ ~DeadlineReached(s, "discovering") /\ ~DeadlineReached(s, "claiming")
             /\ ~(Asks(s) /\ s.query = 0)
    BY <1>6 DEF Ticked
  <1> QED
    BY <1>2, <1>3, <1>4, <1>5, <1>6

\* A question that everybody is asked is heard by who holds what is asked about.
LEMMA AskedHears ==
    ASSUME NEW after, NEW left, NEW n \in Nodes, NEW m \in Nodes \ {n}, NEW x \in Ids,
           NEW ids, x \in ids, Broadcast(n, "whoIs", ids) \subseteq left,
           Holds(after[m], x), Seeks(after[n], x), MaxDelay + MaxDelay < TimeLeft(after[n])
    PROVE  OneWillHear(after, left, m, n, x)
  <1> DEFINE query == [kind |-> "whoIs", to |-> m, ids |-> ids, ttl |-> MaxDelay]
  <1>1. query \in left
    BY DEF Broadcast
  <1>2. query.kind = "whoIs" /\ query.to = m /\ x \in query.ids /\ query.ttl = MaxDelay
    OBVIOUS
  <1> HIDE DEF query
  <1>3. WillHear(after, left, n, m, x)
    BY <1>1, <1>2 DEF WillHear
  <1> QED
    BY <1>3 DEF OneWillHear

\* A claim is announced to who may choose the same, a discovery asks before it
\* chooses, and a claim is saved only when nothing is left to hear.
LEMMA TickedContested ==
    ASSUME NEW nodes, NEW packets, Contested(nodes, packets), packets \subseteq Packet,
           NEW n \in Nodes, \A m \in Nodes : \E lock : Sound(nodes[m], lock),
           NEW ok \in BOOLEAN, NEW result \in Ticked(nodes[n], ok), NEW after,
           \A m \in Nodes \ {n} : after[m] = nodes[m], after[n] = result.node
    PROVE  Contested(after, packets \cup Sent(n, result))
  <1> DEFINE left == packets \cup Sent(n, result)
             s == nodes[n]
             r == result.node
  <1>1. /\ \A p \in packets : p \in left /\ p.ttl \in Nat /\ p.ttl + MaxDelay \in Nat
        /\ \A m \in Nodes : nodes[m].deadline \in Nat /\ nodes[m].query \in Nat
    BY TimeAssumption DEF Packet, Sound, InTime
  <1>2. PICK lock : Sound(s, lock)
    OBVIOUS
  <1>3. ASSUME NEW m \in Nodes \ {n}, NEW x \in Ids, Holds(r, x), Rivals(r, nodes[m], x)
        PROVE  OneWillHear(after, left, m, n, x)
    <2>1. CASE Holds(s, x) /\ r.state = s.state /\ r.deadline = s.deadline
      <3>1. OneWillHear(nodes, packets, m, n, x)
        BY <1>3, <2>1 DEF Contested, Rivals, OneWillHear
      <3>2. /\ Seeks(s, x) => Seeks(r, x) /\ ~WillAsk(s)
            /\ TimeLeft(r) = TimeLeft(s)
        BY <1>3, <2>1 DEF Seeks, Holds, TimeLeft, WillAsk
      <3> HIDE DEF left, r, s
      <3>3. WillHear(nodes, packets, n, m, x) => WillHear(after, left, n, m, x)
        BY <1>1, <3>2 DEF WillHear, r, s
      <3>4. WillHear(nodes, packets, m, n, x) => WillHear(after, left, m, n, x)
        BY <1>1, <1>3 DEF WillHear, r
      <3> QED
        BY <3>1, <3>3, <3>4 DEF OneWillHear
    <2>2. CASE Holds(s, x) /\ DeadlineReached(s, "claiming")
      <3>1. OneWillHear(nodes, packets, m, n, x)
        BY <1>3, <2>2 DEF Contested, Rivals, OneWillHear
      <3>2. ~WillHear(nodes, packets, n, m, x)
        <4>1. TimeLeft(s) = 0 /\ ~WillAsk(s)
          BY <2>2 DEF DeadlineReached, TimeLeft, WillAsk
        <4>2. \A p \in packets : ~(p.ttl < 0) /\ ~(p.ttl + MaxDelay < 0)
          BY <1>1
        <4> QED
          BY <4>1, <4>2 DEF WillHear
      <3>3. WillHear(nodes, packets, m, n, x)
        BY <3>1, <3>2 DEF OneWillHear
      <3> HIDE DEF left, r, s
      <3>4. WillHear(after, left, m, n, x)
        BY <1>1, <1>3, <3>3 DEF WillHear, r
      <3> QED
        BY <3>4 DEF OneWillHear
    <2>3. CASE /\ Seeks(s, x) /\ DeadlineReached(s, "discovering")
               /\ r.state = "claiming" /\ r.deadline = ClaimTime
               /\ {"query", "announce"} \subseteq result.actions
      <3>1. r.candidate = x /\ Seeks(r, x) /\ TimeLeft(r) = ClaimTime /\ TimeLeft(s) = ClaimTime
        BY <1>3, <2>3, TimeAssumption DEF Holds, Seeks, TimeLeft, DeadlineReached
      <3>2. Broadcast(n, "whoIs", {x}) \subseteq left /\ Broadcast(n, "iAm", {x}) \subseteq left
        BY <2>3, <3>1 DEF Sent
      <3>3. CASE Holds(nodes[m], x)
        <4>1. WillHear(nodes, packets, n, m, x)
          <5>1. OneWillHear(nodes, packets, m, n, x)
            BY <2>3, <3>3 DEF Contested, Rivals
          <5>2. ~Holds(s, x)
            BY <2>3 DEF Holds, DeadlineReached
          <5> QED
            BY <5>1, <5>2 DEF OneWillHear, WillHear
        <4> HIDE DEF left, r, s
        <4>2. CASE WillAsk(s)
          <5>1. MaxDelay + MaxDelay < TimeLeft(after[n])
            BY <1>1, <3>1, <4>2, TimeAssumption DEF WillAsk, r, s
          <5> QED
            BY <3>1, <3>2, <3>3, <5>1, AskedHears DEF r
        <4>3. CASE ~WillAsk(s)
          <5>1. WillHear(after, left, n, m, x)
            BY <1>1, <3>1, <3>3, <4>1, <4>3 DEF WillHear, r, s
          <5> QED
            BY <5>1 DEF OneWillHear
        <4> QED
          BY <4>2, <4>3
      <3>4. CASE ~Holds(nodes[m], x)
        <4> DEFINE news == [kind |-> "iAm", to |-> m, ids |-> {x}, ttl |-> MaxDelay]
        <4>1. Seeks(nodes[m], x) /\ nodes[m].state = "discovering"
          BY <1>3, <3>4 DEF Rivals, Seeks, Holds
        <4>2. news \in left
          BY <3>2 DEF Broadcast
        <4>3. MaxDelay < TimeLeft(nodes[m])
          BY <1>1, <4>1, TimeAssumption, DelayAssumption DEF TimeLeft
        <4>4. /\ news.kind = "iAm" /\ news.to = m /\ news.ids = {x} /\ news.ttl = MaxDelay
          OBVIOUS
        <4> HIDE DEF news, left, r
        <4>5. WillHear(after, left, m, n, x)
          BY <1>3, <4>1, <4>2, <4>3, <4>4 DEF WillHear, r
        <4> QED
          BY <4>5 DEF OneWillHear
      <3> QED
        BY <3>3, <3>4
    <2> QED
      BY <1>2, <1>3, <2>1, <2>2, <2>3, TickedRivals
  <1>4. ASSUME NEW m \in Nodes \ {n}, NEW x \in Ids, ~Holds(r, x), Rivals(nodes[m], r, x)
        PROVE  OneWillHear(after, left, m, n, x)
    <2>1. r.state = "discovering" /\ x \notin r.heard /\ Holds(nodes[m], x)
      BY <1>4 DEF Rivals, Seeks, Holds
    <2>2. /\ r.heard = s.heard /\ s.state = "discovering" /\ r.deadline = s.deadline
          /\ r.query = s.query \/ (s.query = 0 /\ "query" \in result.actions)
      BY <1>2, <2>1, TickedRivals
    <2>3. Seeks(r, x) /\ Seeks(s, x) /\ ~Holds(s, x) /\ TimeLeft(r) = TimeLeft(s)
      BY <2>1, <2>2 DEF Seeks, Holds, TimeLeft
    <2>4. WillHear(nodes, packets, n, m, x)
      BY <2>1, <2>3 DEF Contested, Rivals, OneWillHear, WillHear
    <2>5. CASE WillAsk(s) /\ r.query # s.query
      <3>1. Broadcast(n, "whoIs", Ids) \subseteq left
        BY <2>1, <2>2, <2>5 DEF Sent
      <3> HIDE DEF left
      <3>2. MaxDelay + MaxDelay < TimeLeft(after[n])
        BY <1>1, <2>2, <2>3, <2>5, TimeAssumption DEF WillAsk
      <3> QED
        BY <2>1, <2>3, <3>1, <3>2, AskedHears
    <2>6. CASE ~WillAsk(s) \/ r.query = s.query
      <3>1. WillAsk(s) => WillAsk(r)
        BY <2>1, <2>3, <2>6 DEF WillAsk
      <3> HIDE DEF left, r, s
      <3>2. WillHear(after, left, n, m, x)
        BY <1>1, <2>1, <2>3, <2>4, <3>1 DEF WillHear, r, s
      <3> QED
        BY <3>2 DEF OneWillHear
    <2> QED
      BY <2>5, <2>6
  <1>5. ASSUME NEW m \in Nodes \ {n}, NEW x \in Ids,
               Rivals(after[n], nodes[m], x) \/ Rivals(nodes[m], after[n], x)
        PROVE  OneWillHear(after, left, m, n, x)
    <2>1. CASE Holds(r, x)
      <3>1. Rivals(r, nodes[m], x)
        BY <1>5, <2>1 DEF Rivals
      <3> QED
        BY <1>3, <2>1, <3>1
    <2>2. CASE ~Holds(r, x)
      <3>1. Rivals(nodes[m], r, x)
        BY <1>5, <2>2 DEF Rivals
      <3> QED
        BY <1>4, <2>2, <3>1
    <2> QED
      BY <2>1, <2>2
  <1>6. \A p \in packets : p.to # n => p \in left
    OBVIOUS
  <1> HIDE DEF left
  <1>7. Contested(after, left)
    BY <1>5, <1>6, PairsContested
  <1> QED
    BY <1>7 DEF left

\* A controller goes off by an outage only.
LEMMA TickedPresent ==
    ASSUME NEW s \in Controller, s.state # "off", NEW ok \in BOOLEAN, NEW result \in Ticked(s, ok)
    PROVE  result.node.state # "off"
  <1> DEFINE r == result.node
  <1>1. CASE DeadlineReached(s, "discovering") /\ Choices(s) # {}
    <2> DEFINE claiming(x) ==
                  [s EXCEPT !.state = "claiming", !.candidate = x, !.conflict = FALSE,
                            !.deadline = ClaimTime, !.query = QueryInterval, !.heard = {}]
    <2>1. Ticked(s, ok) = {[node |-> claiming(x), actions |-> {"announce", "query"}] :
                              x \in Choices(s)}
      BY <1>1, Zenon DEF Ticked
    <2> HIDE DEF claiming
    <2>2. PICK x \in Choices(s) :
             result = [node |-> claiming(x), actions |-> {"announce", "query"}]
      BY <2>1
    <2>3. r = claiming(x)
      BY <2>2
    <2> QED
      BY <2>3 DEF claiming, Controller
  <1>2. CASE DeadlineReached(s, "discovering") /\ Choices(s) = {}
    <2>1. r = [s EXCEPT !.state = "rangeFull", !.deadline = RetryTime, !.query = 0,
                        !.heard = {}]
      BY <1>2 DEF Ticked
    <2> QED
      BY <2>1 DEF Controller
  <1>3. CASE ~DeadlineReached(s, "discovering") /\ DeadlineReached(s, "claiming")
    <2>1. r = IF ok THEN [s EXCEPT !.state = "ready", !.automatic = FALSE,
                                   !.conflict = FALSE, !.preferred = s.candidate,
                                   !.query = FirstWatch]
              ELSE [s EXCEPT !.state = "saveFailed", !.query = 0]
      BY <1>3 DEF Ticked
    <2> QED
      BY <2>1 DEF Controller
  <1>4. CASE /\ ~DeadlineReached(s, "discovering") /\ ~DeadlineReached(s, "claiming")
             /\ Asks(s) /\ s.query = 0
    <2>1. r = [s EXCEPT !.query = IF s.state = "ready" THEN WatchInterval ELSE QueryInterval]
      BY <1>4 DEF Ticked
    <2> QED
      BY <2>1 DEF Controller
  <1>5. CASE /\ ~DeadlineReached(s, "discovering") /\ ~DeadlineReached(s, "claiming")
             /\ ~(Asks(s) /\ s.query = 0)
    BY <1>5 DEF Ticked
  <1> QED
    BY <1>1, <1>2, <1>3, <1>4, <1>5

LEMMA RangeRetriedAsks ==
    ASSUME NEW s, NEW lock, Sound(s, lock), NEW jitter \in 0 .. MaxJitter
    PROVE  \/ RangeRetried(s, jitter) = s
           \/ /\ WillAsk(RangeRetried(s, jitter))
              /\ \A id : ~Holds(RangeRetried(s, jitter), id)
  BY DiscoveringAsks DEF RangeRetried, Sound

\* The timers of an iteration, after what it received.
LEMMA IterateContested ==
    ASSUME ClaimInv, UniqueInv, leaves = 0, losses = 0, NEW n \in Nodes,
           NEW jitter \in 0 .. MaxJitter, NEW received, NEW s, NEW replies \in SUBSET Packet,
           Sound(s, saved[n]), s.state # "off",
           Contested([node EXCEPT ![n] = s], (net \ received) \cup replies),
           Iterate(n, jitter, received, s, replies)
    PROVE  Contested(node, net)' /\ Present'
  <1>1. PICK ok \in BOOLEAN :
           \E result \in Ticked(RangeRetried(s, jitter), ok) :
              /\ node' = [node EXCEPT ![n] = result.node]
              /\ net' = (net \ received) \cup replies \cup Sent(n, result)
              /\ saved' = IF ok /\ "save" \in result.actions
                          THEN [saved EXCEPT ![n] = result.node.candidate] ELSE saved
    BY Zenon DEF Iterate
  <1> DEFINE t == RangeRetried(s, jitter)
             packets == (net \ received) \cup replies
             heard == [node EXCEPT ![n] = s]
             nodes == [node EXCEPT ![n] = t]
  <1>2. PICK result \in Ticked(t, ok) :
           /\ node' = [node EXCEPT ![n] = result.node]
           /\ net' = packets \cup Sent(n, result)
           /\ saved' = IF ok /\ "save" \in result.actions
                       THEN [saved EXCEPT ![n] = result.node.candidate] ELSE saved
    BY <1>1
  <1>3. saved[n] \in Ids \cup {None} /\ node = [m \in Nodes |-> node[m]]
    BY DEF ClaimInv
  <1>4. Sound(t, saved[n]) /\ t.state # "off"
    BY <1>3, RangeRetriedSound
  <1>5. t = s \/ (WillAsk(t) /\ \A x : ~Holds(t, x))
    BY RangeRetriedAsks
  <1> HIDE DEF t
  <1>6. \A m \in Nodes : /\ heard[m] = IF m = n THEN s ELSE node[m]
                         /\ nodes[m] = IF m = n THEN t ELSE node[m]
                         /\ node'[m] = IF m = n THEN result.node ELSE node[m]
    BY <1>2, <1>3
  <1>7. Contested(heard, packets)
    OBVIOUS
  <1>8. packets \subseteq Packet
    BY DEF ClaimInv
  <1> HIDE DEF heard, nodes, packets
  <1>9. Contested(nodes, packets)
    <2>1. \A m \in Nodes, x \in Ids :
             \/ nodes[m] = heard[m]
             \/ ~Holds(nodes[m], x) /\ (Seeks(nodes[m], x) => WillAsk(nodes[m]))
      BY <1>5, <1>6
    <2> QED
      BY <1>7, <2>1, AskingContested
  <1>10. Contested(node', packets \cup Sent(n, result))
    <2>1. /\ \A m \in Nodes : \E lock : Sound(nodes[m], lock)
          /\ result \in Ticked(nodes[n], ok)
      BY <1>2, <1>4, <1>6 DEF ClaimInv
    <2>2. (\A m \in Nodes \ {n} : node'[m] = nodes[m]) /\ node'[n] = result.node
      BY <1>6
    <2> QED
      BY <1>8, <1>9, <2>1, <2>2, TickedContested
  <1>11. result.node.state # "off"
    BY <1>2, <1>4, TickedPresent DEF Sound
  <1>12. \A m \in Nodes \ {n} : saved'[m] = saved[m]
    BY <1>2, <1>3 DEF ClaimInv
  <1>13. Present'
    BY <1>6, <1>11, <1>12 DEF Present, UniqueInv
  <1>14. Contested(node, net)'
    BY <1>2, <1>10, ContestedNext
  <1> QED
    BY <1>13, <1>14

LEMMA UniqueInit == Init => UniqueInv
  <1> SUFFICES ASSUME Init PROVE UniqueInv
    OBVIOUS
  <1>1. /\ saved \in [Nodes -> Ids \cup {None}] /\ leaves = 0 /\ losses = 0
        /\ \A m, n \in Nodes : m # n /\ saved[m] # None => saved[m] # saved[n]
    BY DEF Init
  <1>2. ClaimInv
    BY ClaimInit
  <1>3. ASSUME NEW n \in Nodes
        PROVE  IF saved[n] = None THEN node[n].state = "off" ELSE node[n].state = "ready"
    <2>1. node[n] = IF saved[n] = None THEN Off ELSE Started(TRUE, saved[n], 0)
      BY DEF Init
    <2>2. CASE saved[n] = None
      BY <2>1, <2>2 DEF Off
    <2>3. CASE saved[n] # None
      <3>1. 0 \in 0 .. MaxJitter /\ saved[n] \in Ids \cup {None} /\ (saved[n] # None) = TRUE
        BY <1>1, <2>3, TimeAssumption
      <3>2. Started(saved[n] # None, saved[n], 0).state = "ready"
        BY <2>3, <3>1, StartedSound
      <3> QED
        BY <2>1, <2>3, <3>1, <3>2
    <2> QED
      BY <2>2, <2>3
  <1>4. \A n \in Nodes, id \in Ids :
           /\ ~Seeks(node[n], id)
           /\ Holds(node[n], id) => saved[n] = id /\ saved[n] # None
    BY <1>2, <1>3 DEF Holds, Seeks, ClaimInv, Sound, Locked
  <1>5. Contested(node, net)
    BY <1>1, <1>4 DEF Contested, Rivals
  <1>6. Present
    BY <1>3 DEF Present
  <1> QED
    BY <1>1, <1>5, <1>6 DEF UniqueInv

LEMMA UniqueStep ==
    ASSUME ClaimInv, UniqueInv, [Next]_vars
    PROVE  UniqueInv'
  <1>0. \A n \in Nodes : node[n].state # "off" => Sound(node[n], saved[n])
    BY DEF ClaimInv
  <1>1. ASSUME NEW n \in Nodes, HandleTimers(n)
        PROVE  UniqueInv'
    <2>1. PICK jitter \in 0 .. MaxJitter :
             node[n].state # "off" /\ Iterate(n, jitter, {}, node[n], {})
      BY <1>1 DEF HandleTimers, TimerDue, Asks
    <2>2. leaves' = leaves /\ losses' = losses
      BY <2>1 DEF Iterate
    <2>3. [node EXCEPT ![n] = node[n]] = node /\ (net \ {}) \cup {} = net
      BY DEF ClaimInv
    <2>4. CASE leaves = 0 /\ losses = 0
      <3>1. Contested([node EXCEPT ![n] = node[n]], (net \ {}) \cup {})
        BY <2>3, <2>4 DEF UniqueInv
      <3> QED
        BY <1>0, <2>1, <2>2, <2>4, <3>1, IterateContested DEF UniqueInv
    <2> QED
      BY <2>2, <2>4 DEF UniqueInv
  <1>2. ASSUME NEW n \in Nodes, NEW packet \in net, HandlePacket(n, packet)
        PROVE  UniqueInv'
    <2>1. /\ packet \in Packet /\ Sound(node[n], saved[n]) /\ packet.to = n
          /\ saved[n] \in Ids \cup {None} /\ node[n].state # "off"
      BY <1>2 DEF ClaimInv, HandlePacket
    <2>2. PICK jitter \in 0 .. MaxJitter, id \in packet.ids :
             Iterate(n, jitter, {packet},
                     IF packet.kind = "iAm" THEN Observed(node[n], id, jitter) ELSE node[n],
                     Replies(n, packet))
      BY <1>2, Zenon DEF HandlePacket
    <2>3. leaves' = leaves /\ losses' = losses
      BY <2>2 DEF Iterate
    <2>4. CASE leaves = 0 /\ losses = 0
      <3> DEFINE s == IF packet.kind = "iAm" THEN Observed(node[n], id, jitter) ELSE node[n]
                 after == [node EXCEPT ![n] = s]
      <3>1. id \in Ids
        BY <2>1 DEF Packet
      <3>2. Sound(s, saved[n]) /\ s.state # "off"
        BY <2>1, <3>1, ObservedSound
      <3>3. Replies(n, packet) \in SUBSET Packet
        BY <2>1, RepliesType
      <3>4. after[n] = s /\ \A m \in Nodes \ {n} : after[m] = node[m]
        BY DEF ClaimInv
      <3>5. Contested(after, (net \ {packet}) \cup Replies(n, packet))
        <4>1. Contested(node, net)
          BY <2>4 DEF UniqueInv
        <4> HIDE DEF after
        <4> QED
          BY <2>1, <3>4, <4>1, ReceivedContested
      <3>6. Iterate(n, jitter, {packet}, s, Replies(n, packet))
        BY <2>2
      <3> HIDE DEF s
      <3> QED
        BY <2>3, <2>4, <3>2, <3>3, <3>5, <3>6, IterateContested DEF UniqueInv
    <2> QED
      BY <2>3, <2>4 DEF UniqueInv
  <1>3. ASSUME NEW packet \in net, Unheard(packet)
        PROVE  UniqueInv'
    <2>1. /\ node' = node /\ saved' = saved /\ leaves' = leaves /\ losses' = losses
          /\ net' = net \ {packet}
      BY <1>3 DEF Unheard, counters
    <2>2. /\ packet.to \in Nodes
          /\ \A id \in Ids : ~Holds(node[packet.to], id) /\ ~Seeks(node[packet.to], id)
      BY <1>3 DEF Unheard, Holds, Seeks, ClaimInv, Packet
    <2>3. Contested(node, net) => Contested(node, net \ {packet})
      BY <2>2, AskingContested
    <2>4. Contested(node, net) => Contested(node, net)'
      BY <2>1, <2>3, ContestedNext
    <2> QED
      BY <2>1, <2>4 DEF UniqueInv, Present
  <1>4. CASE TimePasses
    <2>1. /\ node' = [n \in Nodes |-> [node[n] EXCEPT !.deadline = Elapsed(node[n].deadline),
                                                      !.query = Elapsed(node[n].query)]]
          /\ net' = {[packet EXCEPT !.ttl = packet.ttl - 1] : packet \in net}
          /\ saved' = saved /\ leaves' = leaves /\ losses' = losses
          /\ \A packet \in net : packet.ttl > 0
          /\ \A n \in Nodes : ~TimerDue(node[n])
      BY <1>4 DEF TimePasses, counters
    <2>2. ASSUME NEW n \in Nodes
          PROVE  /\ node[n].deadline \in Nat /\ node[n].query \in Nat
                 /\ node'[n].state = node[n].state /\ node'[n].candidate = node[n].candidate
                 /\ node'[n].heard = node[n].heard
                 /\ node'[n].deadline = Elapsed(node[n].deadline)
                 /\ node'[n].query = Elapsed(node[n].query)
                 /\ node[n].state \in {"discovering", "claiming"} =>
                       node[n].deadline # 0 /\ node[n].query # 0
      <3>1. node[n] \in Controller
        BY DEF ClaimInv, Sound
      <3>2. node'[n] = [node[n] EXCEPT !.deadline = Elapsed(node[n].deadline),
                                       !.query = Elapsed(node[n].query)]
        BY <2>1
      <3>3. node[n].state \in {"discovering", "claiming"} =>
               node[n].deadline # 0 /\ node[n].query # 0
        BY <2>1 DEF TimerDue
      <3> QED
        BY <3>1, <3>2, <3>3 DEF Controller
    <2>3. ASSUME NEW k \in Nodes, NEW l \in Nodes, NEW id \in Ids, WillHear(node, net, k, l, id)
          PROVE  WillHear(node', net', k, l, id)
      <3>1. Holds(node'[l], id) /\ Seeks(node'[k], id)
        BY <2>2, <2>3 DEF WillHear, Holds, Seeks
      <3>2. TimeLeft(node'[k]) = TimeLeft(node[k]) - 1 /\ TimeLeft(node[k]) \in Nat
        BY <2>2, <2>3, TimeAssumption DEF WillHear, Seeks, TimeLeft, Elapsed
      <3>3. CASE WillAsk(node[k])
        <4>1. WillAsk(node'[k])
          BY <2>2, <3>2, <3>3, TimeAssumption DEF WillAsk, Elapsed
        <4> QED
          BY <3>1, <4>1 DEF WillHear
      <3>4. CASE ~WillAsk(node[k])
        <4>1. PICK p \in net :
                 \/ /\ p.kind = "iAm" /\ p.to = k /\ p.ids = {id}
                    /\ p.ttl < TimeLeft(node[k])
                 \/ /\ p.kind = "whoIs" /\ p.to = l /\ id \in p.ids
                    /\ p.ttl + MaxDelay < TimeLeft(node[k])
          BY <2>3, <3>4 DEF WillHear
        <4> DEFINE q == [p EXCEPT !.ttl = p.ttl - 1]
        <4>2. p \in Packet /\ p.ttl \in Nat
          BY TimeAssumption DEF ClaimInv, Packet
        <4>3. q \in net'
          BY <2>1
        <4>4. q.kind = p.kind /\ q.to = p.to /\ q.ids = p.ids /\ q.ttl = p.ttl - 1
          BY <4>2 DEF Packet
        <4> HIDE DEF q
        <4>5. \/ /\ q.kind = "iAm" /\ q.to = k /\ q.ids = {id}
                 /\ q.ttl < TimeLeft(node'[k])
              \/ /\ q.kind = "whoIs" /\ q.to = l /\ id \in q.ids
                 /\ q.ttl + MaxDelay < TimeLeft(node'[k])
          BY <3>2, <4>1, <4>2, <4>4, TimeAssumption
        <4> QED
          BY <3>1, <4>3, <4>5 DEF WillHear
      <3> QED
        BY <3>3, <3>4
    <2>4. Contested(node, net) => Contested(node', net')
      BY <2>2, <2>3 DEF Contested, OneWillHear, Rivals, Holds, Seeks
    <2>5. Contested(node, net) => Contested(node, net)'
      BY <2>4, ContestedNext
    <2>6. Present => Present'
      BY <2>1, <2>2 DEF Present
    <2> QED
      BY <2>1, <2>5, <2>6 DEF UniqueInv
  <1>5. ASSUME NEW n \in Nodes, Join(n)
        PROVE  UniqueInv'
    <2>1. PICK jitter \in 0 .. MaxJitter, preferred \in {None, Default, saved[n]} :
             /\ saved[n] # None => preferred = saved[n]
             /\ node' = [node EXCEPT ![n] = Started(saved[n] # None, preferred, jitter)]
      BY <1>5, Zenon DEF Join
    <2>2. /\ node[n].state = "off"
          /\ saved' = saved /\ net' = net /\ leaves' = leaves /\ losses' = losses
      BY <1>5 DEF Join, counters
    <2>3. CASE leaves = 0 /\ losses = 0
      <3> DEFINE s == Started(saved[n] # None, preferred, jitter)
      <3>1. saved[n] = None /\ preferred \in Ids \cup {None}
        BY <2>2, <2>3, InstanceAssumption DEF UniqueInv, Present
      <3>2. s.state = "discovering" /\ WillAsk(s) /\ \A id : ~Holds(s, id)
        <4> DEFINE fresh == [Off EXCEPT !.candidate = preferred, !.preferred = preferred]
                   r == [fresh EXCEPT !.automatic = TRUE]
        <4>1. s = Discovering(r, jitter)
          BY <3>1 DEF Started
        <4>2. r \in Controller /\ r.automatic
          BY <3>1 DEF Off, Controller, States
        <4> QED
          BY <4>1, <4>2, DiscoveringSound, DiscoveringAsks
      <3> HIDE DEF s
      <3>3. \A m \in Nodes : node'[m] = IF m = n THEN s ELSE node[m]
        BY <2>1 DEF ClaimInv, s
      <3>4. Contested(node', net)
        <4>1. Contested(node, net)
          BY <2>3 DEF UniqueInv
        <4> QED
          BY <3>2, <3>3, <4>1, AskingContested
      <3>5. Contested(node, net)'
        BY <2>2, <3>4, ContestedNext
      <3>6. Present'
        BY <2>2, <2>3, <3>2, <3>3 DEF Present, UniqueInv
      <3> QED
        BY <2>2, <3>5, <3>6 DEF UniqueInv
    <2> QED
      BY <2>2, <2>3 DEF UniqueInv
  <1>6. ASSUME \/ \E n \in Nodes : Leave(n)
               \/ \E n \in Nodes, readable \in BOOLEAN : Restart(n, readable)
               \/ \E packet \in net : Lose(packet)
        PROVE  UniqueInv'
    <2>1. /\ leaves' \in Nat /\ losses' \in Nat
          /\ leaves' # 0 \/ losses' # 0
      BY <1>6 DEF Leave, Restart, Gone, Lose, UniqueInv
    <2> QED
      BY <2>1 DEF UniqueInv
  <1>7. CASE UNCHANGED vars
    <2>1. Contested(node, net) => Contested(node, net)'
      BY <1>7 DEF vars, Contested, OneWillHear, WillHear
    <2> QED
      BY <1>7, <2>1 DEF vars, UniqueInv, Present
  <1> QED
    BY <1>1, <1>2, <1>3, <1>4, <1>5, <1>6, <1>7, StepCases

-----------------------------------------------------------------------------
(* Theorems *)

\* Every variable keeps its type, a controller that chooses is automatic, and no
\* timer exceeds its period, for any number of controllers and any network.
THEOREM TypeCorrect == Spec => []TypeOK
  <1>1. ClaimInv => TypeOK
    <2> SUFFICES ASSUME ClaimInv PROVE TypeOK
      OBVIOUS
    <2>1. ASSUME NEW n \in Nodes
          PROVE  /\ node[n] \in Controller
                 /\ \A timer \in Timers(node[n]) : \E period \in Periods : timer <= period
                 /\ node[n].state \in Choosing => node[n].automatic
                 /\ node[n].state \in {"claiming", "ready"} => node[n].candidate \in Ids
      <3>1. Sound(node[n], saved[n]) /\ saved[n] \in Ids \cup {None}
        BY DEF ClaimInv
      <3> QED
        BY <3>1 DEF Sound, Locked, InTime, Timers
    <2>2. \A packet \in net : packet.to \in Nodes /\ packet.ttl \in 0 .. MaxDelay
      BY DEF ClaimInv, Packet
    <2> QED
      BY <2>1, <2>2 DEF TypeOK, ClaimInv, FlashInv, Controller, Choosing
  <1> QED
    BY <1>1, ClaimInvariant, PTL

\* A lock is never given up, except by a boot that cannot read NVS: once a save
\* succeeded the controller serves under that instance and no other, whatever
\* duplicates appear and whatever the network and other controllers do, and NVS
\* holds it for the next boot.  A save reported as failed but stored is not a lock:
\* it can be written over only because nothing was known to be saved.
THEOREM LockKeptCorrect == Spec => LockKept
  <1>1. ClaimInv /\ ClaimInv' /\ [Next]_vars =>
           [\A n \in Nodes :
              /\ saved[n] # None =>
                    \/ saved'[n] = saved[n] /\ flash'[n] = saved[n]
                    \/ Restart(n, FALSE)
              /\ node'[n].state = "ready" => node'[n].candidate = saved'[n]
              /\ Ready(n) => node'[n].state \in {"ready", "off"}]_vars
    <2> SUFFICES ASSUME ClaimInv, ClaimInv', [Next]_vars, NEW n \in Nodes
                 PROVE  /\ saved[n] # None =>
                              \/ saved'[n] = saved[n] /\ flash'[n] = saved[n]
                              \/ Restart(n, FALSE)
                        /\ node'[n].state = "ready" => node'[n].candidate = saved'[n]
                        /\ Ready(n) => node'[n].state \in {"ready", "off"}
      OBVIOUS
    <2>1. Kept(n)
      BY ClaimStep
    <2>2. node'[n].state = "ready" => node'[n].candidate = saved'[n]
      BY DEF ClaimInv, Sound, Locked
    <2> QED
      BY <2>1, <2>2 DEF Kept
  <1> QED
    BY <1>1, ClaimInvariant, PTL DEF Spec, LockKept

\* Without outages and losses no two controllers serve under one instance: who
\* may choose what another claims hears the announcement or the answer to its
\* question before it saves (bacnet_instance_observe).  Announcements only have to
\* be faster than a claim, and a question with its answer than a discovery and the
\* claim after it; the number of controllers and the other times are free.
THEOREM UniqueInstancesCorrect == Spec => []UniqueInstances
  <1>1. ClaimInv /\ UniqueInv => UniqueInstances
    <2> SUFFICES ASSUME ClaimInv, UniqueInv, leaves = 0, losses = 0,
                        NEW m \in Nodes, NEW n \in Nodes, Ready(m), Ready(n), m # n,
                        node[m].candidate = node[n].candidate
                 PROVE  FALSE
      BY DEF UniqueInstances
    <2>1. saved[m] \in Ids \cup {None} /\ node[m].candidate = saved[m] /\ saved[m] # None
      BY DEF ClaimInv, Sound, Locked, Ready
    <2>2. OneWillHear(node, net, m, n, saved[m])
      BY <2>1 DEF UniqueInv, Contested, Rivals, Holds, Ready
    <2> QED
      BY <2>2 DEF OneWillHear, WillHear, Seeks, Ready
  <1>2. Spec => []UniqueInv
    BY ClaimInvariant, UniqueInit, UniqueStep, PTL DEF Spec
  <1> QED
    BY <1>1, <1>2, ClaimInvariant, PTL
=============================================================================
