--------------------------- MODULE CovRecoveryProofs ---------------------------
(***************************************************************************)
(* Proofs about CovRecovery, for any table of subscriptions and objects,   *)
(* any number of transactions and retries, and any losses.                 *)
(***************************************************************************)
EXTENDS CovRecovery, FiniteSetTheorems, TLAPS

Call == [active : BOOLEAN, requested : BOOLEAN, call : {"none", "open", "failed"},
         tries : 0 .. Retries, sent : {0, 1}, ack : BOOLEAN]

Calls == [Subs -> Call]

Entries == [Objects -> {"none", "waiting", "due"}]

Data ==
    /\ value \in [Objects -> {0, 1}] /\ changed \subseteq Objects
    /\ pending \in Entries /\ known \in [Subs -> {0, 1}] /\ missed \subseteq Subs

Busy(subs) == {s \in Subs : subs[s].call # "none"}

\* A transaction belongs to a subscription; one that carries an old value is
\* followed by another, and one that was acknowledged told the subscriber.
Follows(s, c) ==
    /\ c.call \in {"none", "open"}
    /\ c.call = "open" => c.active
    /\ c.call = "open" /\ c.sent # value[ObjectOf[s]] =>
          ObjectOf[s] \in changed \/ c.requested
    /\ c.call = "open" /\ c.ack /\ s \notin Dead => known[s] = c.sent

\* StaleIsRemembered, for a subscription that may be in the midst of a pass.
Remembers(s, c) ==
    s \notin Dead /\ c.active /\ ~Current(s) /\ s \notin missed =>
        \/ ObjectOf[s] \in changed
        \/ c.requested
        \/ c.call = "open" /\ c.sent = value[ObjectOf[s]]
        \/ pending[ObjectOf[s]] # "none"

Followed(subs) == \A s \in Subs : Follows(s, subs[s])

Remembered(subs) == \A s \in Subs : Remembers(s, subs[s])

Sound(subs) ==
    /\ subs \in Calls /\ Cardinality(Busy(subs)) <= Slots
    /\ Followed(subs) /\ Remembered(subs)

CovInv == Data /\ Sound(sub)

-----------------------------------------------------------------------------
(* Slots *)

\* The first k members of a finite set of numbers are at most k.
LEMMA FirstMembers ==
    ASSUME NEW S \in SUBSET Nat, IsFiniteSet(S), NEW k \in Int
    PROVE  LET first == {s \in S : Cardinality({t \in S : t < s}) < k}
           IN IsFiniteSet(first) /\ Cardinality(first) <= IF k > 0 THEN k ELSE 0
  <1> DEFINE below(s) == {t \in S : t < s}
             first == {s \in S : Cardinality(below(s)) < k}
  <1>1. ASSUME NEW s
        PROVE  IsFiniteSet(below(s)) /\ Cardinality(below(s)) \in Nat
    <2>1. below(s) \in SUBSET S
      OBVIOUS
    <2> QED
      BY <2>1, FS_Subset, FS_CardinalityType
  <1>2. ASSUME NEW s \in S, NEW t \in S, s < t
        PROVE  Cardinality(below(s)) < Cardinality(below(t))
    <2>1. below(s) \cup {s} \in SUBSET below(t) /\ s \notin below(s)
      <3>1. s \in Nat /\ t \in Nat /\ \A r \in S : r \in Nat
        OBVIOUS
      <3>2. \A r \in below(s) \cup {s} : r \in S /\ r < t
        BY <1>2, <3>1
      <3>3. s \notin below(s)
        BY <3>1
      <3>4. \A r \in below(s) \cup {s} : r \in below(t)
        BY <3>2
      <3> HIDE DEF below
      <3> QED
        BY <3>3, <3>4
    <2>2. Cardinality(below(s) \cup {s}) = Cardinality(below(s)) + 1
      BY <1>1, <2>1, FS_AddElement
    <2>3. IsFiniteSet(below(t)) /\ Cardinality(below(s)) \in Nat
      BY <1>1
    <2> HIDE DEF below
    <2>4. Cardinality(below(s) \cup {s}) <= Cardinality(below(t))
      BY <2>1, <2>3, FS_Subset
    <2>5. Cardinality(below(t)) \in Nat
      BY <2>3, FS_CardinalityType
    <2> QED
      BY <2>2, <2>3, <2>4, <2>5
  <1> DEFINE rank == [s \in first |-> Cardinality(below(s))]
  <1>3. CASE k > 0
    <2>1. rank \in [first -> 0 .. k - 1]
      BY <1>1, <1>3
    <2>2. \A s, t \in first : rank[s] = rank[t] => s = t
      <3> SUFFICES ASSUME NEW s \in first, NEW t \in first, rank[s] = rank[t], s # t
                   PROVE  FALSE
        OBVIOUS
      <3>1. s < t \/ t < s
        OBVIOUS
      <3> QED
        BY <1>1, <1>2, <3>1
    <2>3. rank \in Injection(first, 0 .. k - 1)
      BY <2>1, <2>2 DEF Injection, IsInjective
    <2>4. IsFiniteSet(0 .. k - 1) /\ Cardinality(0 .. k - 1) = k
      BY <1>3, FS_Interval
    <2> HIDE DEF rank, first
    <2>5. IsFiniteSet(first) /\ Cardinality(first) <= Cardinality(0 .. k - 1)
      BY <2>3, <2>4, FS_Injection
    <2> QED
      BY <1>3, <2>4, <2>5 DEF first
  <1>4. CASE ~(k > 0)
    <2>1. first = {}
      BY <1>1, <1>4
    <2> HIDE DEF first
    <2>2. IsFiniteSet(first) /\ Cardinality(first) = 0
      BY <2>1, FS_EmptySet
    <2> QED
      BY <1>4, <2>2 DEF first
  <1> QED
    BY <1>3, <1>4

\* What is started fits into the free slots.
LEMMA StartedFits ==
    ASSUME NEW subs, Cardinality(Busy(subs)) <= Slots
    PROVE  /\ IsFiniteSet(Busy(subs) \cup Started(subs))
           /\ Cardinality(Busy(subs) \cup Started(subs)) <= Slots
  <1> DEFINE busy == Busy(subs)
             ready == Ready(subs)
             free == Slots - Cardinality(busy)
             started == {s \in ready : Cardinality({t \in ready : t < s}) < free}
  <1>1. IsFiniteSet(Subs) /\ Subs \subseteq Nat /\ Slots \in Nat
    BY SubsAssumption
  <1>2. ready \in SUBSET Subs /\ busy \in SUBSET Subs
    BY DEF Ready, Busy
  <1>3. IsFiniteSet(ready) /\ IsFiniteSet(busy) /\ Cardinality(busy) \in Nat
    BY <1>1, <1>2, FS_Subset, FS_CardinalityType
  <1>4. free \in Nat
    BY <1>1, <1>3
  <1>5. Started(subs) = started
    BY DEF Started, Busy
  <1>6. ready \in SUBSET Nat
    BY <1>1, <1>2
  <1> HIDE DEF busy, ready, free
  <1>7. IsFiniteSet(started) /\ Cardinality(started) <= free
    BY <1>3, <1>4, <1>6, FirstMembers
  <1> HIDE DEF started
  <1>8. /\ IsFiniteSet(busy \cup started)
        /\ Cardinality(busy \cup started)
              = Cardinality(busy) + Cardinality(started) - Cardinality(busy \cap started)
    BY <1>3, <1>7, FS_Union
  <1>9. Cardinality(busy \cap started) \in Nat /\ Cardinality(started) \in Nat
    BY <1>3, <1>7, FS_Intersection, FS_CardinalityType
  <1>10. Cardinality(busy) + free = Slots
    BY <1>1, <1>3 DEF free
  <1> QED
    BY <1>1, <1>3, <1>4, <1>5, <1>7, <1>8, <1>9, <1>10 DEF busy

\* Fewer calls need fewer slots.
LEMMA BusyFewer ==
    ASSUME NEW before, NEW after, Cardinality(Busy(before)) <= Slots,
           Busy(after) \subseteq Busy(before)
    PROVE  Cardinality(Busy(after)) <= Slots
  <1>1. Busy(before) \in SUBSET Subs /\ IsFiniteSet(Subs) /\ Slots \in Nat
    BY SubsAssumption DEF Busy
  <1>2. IsFiniteSet(Busy(before)) /\ Busy(after) \in SUBSET Busy(before)
    BY <1>1, FS_Subset
  <1>3. Cardinality(Busy(after)) <= Cardinality(Busy(before)) /\ IsFiniteSet(Busy(after))
    BY <1>2, FS_Subset
  <1> QED
    BY <1>1, <1>2, <1>3, FS_CardinalityType

-----------------------------------------------------------------------------
(* The stages of a pass, one subscription at a time *)

\* The timers repeat an open transaction or fail it.
LEMMA TickedCall ==
    ASSUME NEW subs \in Calls, NEW s \in Subs, subs[s].call \in {"none", "open"}
    PROVE  /\ Ticked(subs)[s] \in Call
           /\ Ticked(subs)[s].active = subs[s].active
           /\ Ticked(subs)[s].requested = subs[s].requested
           /\ Ticked(subs)[s].sent = subs[s].sent
           /\ Ticked(subs)[s].ack = subs[s].ack
           /\ subs[s].call = "none" => Ticked(subs)[s].call = "none"
           /\ subs[s].call = "open" => Ticked(subs)[s].call \in {"open", "failed"}
  <1> DEFINE c == subs[s]
  <1>1. c \in Call
    BY DEF Calls
  <1>2. Ticked(subs)[s] = IF c.call # "open" THEN c
                          ELSE IF c.tries < Retries THEN [c EXCEPT !.tries = c.tries + 1]
                          ELSE [c EXCEPT !.call = "failed"]
    BY DEF Ticked
  <1> HIDE DEF c
  <1>3. c.tries < Retries => c.tries + 1 \in 0 .. Retries
    BY <1>1, SubsAssumption DEF Call
  <1>4. c.call \in {"none", "open"}
    BY DEF c
  <1> QED
    BY <1>1, <1>2, <1>3, <1>4 DEF Call, c

LEMMA MarkedCall ==
    ASSUME NEW subs \in Calls, NEW entries, NEW s \in Subs
    PROVE  /\ Marked(subs, entries)[s] \in Call
           /\ Marked(subs, entries)[s].active = subs[s].active
           /\ Marked(subs, entries)[s].call = subs[s].call
           /\ Marked(subs, entries)[s].sent = subs[s].sent
           /\ Marked(subs, entries)[s].ack = subs[s].ack
           /\ subs[s].requested => Marked(subs, entries)[s].requested
           /\ subs[s].active /\ ObjectOf[s] \in CovChanged(entries) =>
                 Marked(subs, entries)[s].requested
  <1> DEFINE c == subs[s]
  <1>1. c \in Call
    BY DEF Calls
  <1>2. Marked(subs, entries)[s] = IF c.active /\ ObjectOf[s] \in CovChanged(entries)
                                   THEN [c EXCEPT !.requested = TRUE] ELSE c
    BY DEF Marked
  <1> HIDE DEF c
  <1> QED
    BY <1>1, <1>2 DEF Call, c

LEMMA ClosedCall ==
    ASSUME NEW c \in Call
    PROVE  /\ Closed(c) \in Call /\ Closed(c).call = "none"
           /\ Closed(c).active = c.active /\ Closed(c).requested = c.requested
  <1>1. 0 \in 0 .. Retries
    BY SubsAssumption
  <1> QED
    BY <1>1 DEF Closed, Call

LEMMA FreedCall ==
    ASSUME NEW subs \in Calls, NEW s \in Subs
    PROVE  /\ Freed(subs)[s] \in Call
           /\ Freed(subs)[s].active = subs[s].active
           /\ Freed(subs)[s].requested = subs[s].requested
           /\ subs[s].call = "failed" => Freed(subs)[s].call = "none"
           /\ subs[s].call # "failed" => Freed(subs)[s] = subs[s]
  <1> DEFINE c == subs[s]
  <1>1. c \in Call
    BY DEF Calls
  <1>2. Freed(subs)[s] = IF c.call = "failed" THEN Closed(c) ELSE c
    BY DEF Freed
  <1> HIDE DEF c
  <1> QED
    BY <1>1, <1>2, ClosedCall DEF c

LEMMA NotifiedCall ==
    ASSUME Data, NEW subs \in Calls, NEW s \in Subs
    PROVE  /\ Notified(subs)[s] \in Call
           /\ Notified(subs)[s].active = subs[s].active
           /\ Notified(subs)[s].ack = subs[s].ack
           /\ s \in Started(subs) =>
                 /\ subs[s].active /\ subs[s].call = "none"
                 /\ Notified(subs)[s].call = "open"
                 /\ Notified(subs)[s].sent = value[ObjectOf[s]]
           /\ s \notin Started(subs) => Notified(subs)[s] = subs[s]
  <1> DEFINE c == subs[s]
             v == value[ObjectOf[s]]
  <1>1. c \in Call
    BY DEF Calls
  <1>2. v \in {0, 1}
    BY SubsAssumption DEF Data
  <1>3. Notified(subs)[s] = IF s \in Started(subs)
                            THEN [c EXCEPT !.requested = FALSE, !.call = "open", !.sent = v]
                            ELSE c
    BY DEF Notified
  <1>4. s \in Started(subs) => c.active /\ c.call = "none"
    BY DEF Started, Ready
  <1> HIDE DEF c, v
  <1> QED
    BY <1>1, <1>2, <1>3, <1>4 DEF Call, c, v

-----------------------------------------------------------------------------
(* A pass *)

\* An entry is not lost before the objects of notifications are cleared, and a
\* transaction that fails makes one.
LEMMA RecordedEntries ==
    ASSUME Data, NEW elapsed \in BOOLEAN, NEW failed
    PROVE  LET entries == Recorded(IF elapsed THEN Aged(pending) ELSE pending, failed)
           IN /\ entries \in Entries
              /\ \A o \in Objects : pending[o] # "none" \/ o \in failed => entries[o] # "none"
  <1> DEFINE aged == IF elapsed THEN Aged(pending) ELSE pending
  <1>1. aged \in Entries /\ \A o \in Objects : pending[o] # "none" => aged[o] # "none"
    BY DEF Aged, Entries, Data
  <1> HIDE DEF aged
  <1>2. Recorded(aged, failed) \in Entries
    BY <1>1 DEF Recorded, NewEntry, Entries
  <1>3. \A o \in Objects : (aged[o] # "none" \/ o \in failed) => Recorded(aged, failed)[o] # "none"
    BY <1>1 DEF Recorded, NewEntry
  <1> QED
    BY <1>1, <1>2, <1>3 DEF aged

\* What is sent reaches the subscriber or not.
LEMMA TransmitCall ==
    ASSUME NEW before, NEW after, after \in Calls, known \in [Subs -> {0, 1}],
           Transmit(before, after)
    PROVE  /\ sub' \in Calls /\ known' \in [Subs -> {0, 1}]
           /\ \A s \in Subs :
                 /\ sub'[s].active = after[s].active /\ sub'[s].requested = after[s].requested
                 /\ sub'[s].call = after[s].call /\ sub'[s].sent = after[s].sent
                 /\ \/ known'[s] = known[s]
                    \/ after[s].call = "open" /\ known'[s] = after[s].sent
                 /\ \/ /\ sub'[s] = after[s] /\ known'[s] = known[s]
                       /\ after[s].call = "open" => before[s].call = "open" \/ s \in Dead
                    \/ sub'[s].ack => known'[s] = after[s].sent
  <1> DEFINE repeated == {s \in Subs : after[s].call = "open" /\ after[s].tries > before[s].tries}
             started == {s \in Subs : after[s].call = "open" /\ before[s].call # "open"}
             using == (repeated \cup started) \ Dead
  <1>1. PICK fate \in [using -> Fates] :
           /\ sub' = [s \in Subs |-> IF s \in using
                                     THEN [after[s] EXCEPT !.ack = (fate[s] = "acked")]
                                     ELSE after[s]]
           /\ known' = [s \in Subs |-> IF s \in using /\ fate[s] # "lost"
                                       THEN after[s].sent ELSE known[s]]
    BY Zenon DEF Transmit
  <1> HIDE DEF using
  <1>2. ASSUME NEW s \in Subs
        PROVE  /\ sub'[s] \in Call /\ known'[s] \in {0, 1}
               /\ sub'[s].active = after[s].active /\ sub'[s].requested = after[s].requested
               /\ sub'[s].call = after[s].call /\ sub'[s].sent = after[s].sent
               /\ s \notin using => sub'[s] = after[s] /\ known'[s] = known[s]
               /\ s \in using =>
                     /\ known'[s] = known[s] \/ known'[s] = after[s].sent
                     /\ sub'[s].ack => known'[s] = after[s].sent
    <2> DEFINE c == after[s]
    <2>1. c \in Call
      BY DEF Calls
    <2>2. CASE s \in using
      <3> DEFINE acked == (fate[s] = "acked")
      <3>1. acked \in BOOLEAN
        OBVIOUS
      <3>2. sub'[s] = [c EXCEPT !.ack = acked]
        BY <1>1, <2>2
      <3>3. known'[s] = IF fate[s] # "lost" THEN c.sent ELSE known[s]
        BY <1>1, <2>2
      <3>4. acked => known'[s] = c.sent
        BY <3>3
      <3> HIDE DEF acked, c
      <3>5. /\ sub'[s] \in Call /\ sub'[s].ack = acked
            /\ sub'[s].active = c.active /\ sub'[s].requested = c.requested
            /\ sub'[s].call = c.call /\ sub'[s].sent = c.sent
        BY <2>1, <3>1, <3>2 DEF Call
      <3>6. c.sent \in {0, 1}
        BY <2>1 DEF Call
      <3> QED
        BY <2>2, <3>3, <3>4, <3>5, <3>6 DEF c
    <2>3. CASE s \notin using
      BY <1>1, <2>1, <2>3
    <2> QED
      BY <2>2, <2>3
  <1>3. \A s \in using : after[s].call = "open"
    BY DEF using
  <1>4. \A s \in Subs \ using :
           after[s].call = "open" => before[s].call = "open" \/ s \in Dead
    BY DEF using
  <1>5. /\ sub' = [s \in Subs |-> sub'[s]]
        /\ known' = [s \in Subs |-> known'[s]]
    BY <1>1
  <1>6. sub' \in Calls /\ known' \in [Subs -> {0, 1}]
    BY <1>2, <1>5 DEF Calls
  <1>7. ASSUME NEW s \in Subs
        PROVE  /\ \/ known'[s] = known[s]
                  \/ after[s].call = "open" /\ known'[s] = after[s].sent
               /\ \/ /\ sub'[s] = after[s] /\ known'[s] = known[s]
                     /\ after[s].call = "open" => before[s].call = "open" \/ s \in Dead
                  \/ sub'[s].ack => known'[s] = after[s].sent
    <2>1. CASE s \in using
      BY <1>2, <1>3, <2>1
    <2>2. CASE s \notin using
      BY <1>2, <1>4, <2>2
    <2> QED
      BY <2>1, <2>2
  <1> QED
    BY <1>2, <1>6, <1>7

\* A pass keeps what it knows of every subscriber, whatever it received.
LEMMA PassSound ==
    ASSUME Data, NEW received, Sound(received), NEW elapsed \in BOOLEAN, Pass(received, elapsed)
    PROVE  CovInv'
  <1>1. PICK ticked \in {IF elapsed THEN Ticked(received) ELSE received} :
        \E entries \in {Recorded(IF elapsed THEN Aged(pending) ELSE pending,
                                 Failing(received, ticked))} :
        \E marked \in {Marked(ticked, entries)} :
        \E freed \in {Freed(marked)} :
            /\ Transmit([s \in Subs |-> IF ticked[s].call = "failed" THEN freed[s] ELSE received[s]],
                        Notified(freed))
            /\ pending' = Cleared(entries, ToClear(marked))
            /\ changed' = changed \ ToClear(marked)
            /\ missed' = Missed(freed, entries, ToClear(marked))
            /\ UNCHANGED <<value, changes>>
    BY Zenon DEF Pass
  <1> DEFINE entries == Recorded(IF elapsed THEN Aged(pending) ELSE pending,
                                 Failing(received, ticked))
             marked == Marked(ticked, entries)
             freed == Freed(marked)
             before == [s \in Subs |-> IF ticked[s].call = "failed" THEN freed[s] ELSE received[s]]
             after == Notified(freed)
  <1>2. /\ ticked = IF elapsed THEN Ticked(received) ELSE received
        /\ Transmit(before, after)
        /\ pending' = Cleared(entries, ToClear(marked))
        /\ changed' = changed \ ToClear(marked)
        /\ missed' = Missed(freed, entries, ToClear(marked))
        /\ value' = value
    BY <1>1
  <1>3. entries \in Entries /\ \A o \in Objects :
           pending[o] # "none" \/ o \in Failing(received, ticked) => entries[o] # "none"
    BY RecordedEntries
  <1> HIDE DEF entries
  <1>4. received \in Calls /\ \A s \in Subs : received[s] \in Call
    BY DEF Sound, Calls
  <1>5. ASSUME NEW s \in Subs
        PROVE  /\ ticked[s] \in Call
               /\ ticked[s].active = received[s].active
               /\ ticked[s].requested = received[s].requested
               /\ ticked[s].sent = received[s].sent
               /\ ticked[s].ack = received[s].ack
               /\ received[s].call \in {"none", "open"}
               /\ received[s].call = "none" => ticked[s].call = "none"
               /\ received[s].call = "open" => ticked[s].call \in {"open", "failed"}
    <2>1. received[s].call \in {"none", "open"}
      BY DEF Sound, Followed, Follows
    <2>2. CASE elapsed
      BY <1>2, <1>4, <2>1, <2>2, TickedCall
    <2>3. CASE ~elapsed
      BY <1>2, <1>4, <2>1, <2>3
    <2> QED
      BY <2>2, <2>3
  <1>6. ticked \in Calls
    BY <1>2, <1>4, <1>5 DEF Ticked, Calls
  <1> HIDE DEF marked
  <1>7. marked \in Calls
    BY <1>6, MarkedCall DEF marked, Marked, Calls
  <1> HIDE DEF freed
  <1>8. freed \in Calls
    BY <1>7, FreedCall DEF freed, Freed, Calls
  <1> HIDE DEF after
  <1>9. after \in Calls
    BY <1>8, NotifiedCall DEF after, Notified, Calls
  <1>10. \A o \in Objects : pending'[o] = IF o \in ToClear(marked) THEN "none" ELSE entries[o]
    BY <1>2 DEF Cleared
  <1>11. \A o \in Objects : entries[o] = "due" \/ o \in changed => o \in CovChanged(entries)
    BY DEF CovChanged
  <1>12. \A s \in Subs : before[s] = IF ticked[s].call = "failed" THEN freed[s] ELSE received[s]
    OBVIOUS
  <1>13. /\ sub' \in Calls /\ known' \in [Subs -> {0, 1}]
         /\ \A s \in Subs :
               /\ sub'[s].active = after[s].active /\ sub'[s].requested = after[s].requested
               /\ sub'[s].call = after[s].call /\ sub'[s].sent = after[s].sent
               /\ \/ known'[s] = known[s]
                  \/ after[s].call = "open" /\ known'[s] = after[s].sent
               /\ \/ /\ sub'[s] = after[s] /\ known'[s] = known[s]
                     /\ after[s].call = "open" => before[s].call = "open" \/ s \in Dead
                  \/ sub'[s].ack => known'[s] = after[s].sent
    <2> HIDE DEF before
    <2> QED
      BY <1>2, <1>9, TransmitCall DEF Data
  <1> HIDE DEF before
  <1>14. ASSUME NEW s \in Subs
         PROVE  /\ marked[s].active = received[s].active
                /\ marked[s].call = ticked[s].call
                /\ received[s].requested => marked[s].requested
                /\ received[s].active /\ ObjectOf[s] \in CovChanged(entries) => marked[s].requested
                /\ freed[s].active = received[s].active
                /\ freed[s].requested = marked[s].requested
                /\ freed[s].call \in {"none", "open"}
                /\ freed[s].call = "open" =>
                      /\ received[s].call = "open" /\ ticked[s].call = "open"
                      /\ freed[s].sent = received[s].sent /\ freed[s].ack = received[s].ack
                /\ received[s].call = "open" /\ ticked[s].call = "open" => freed[s].call = "open"
                /\ after[s].active = received[s].active
    <2>1. /\ marked[s] \in Call
          /\ marked[s].active = ticked[s].active /\ marked[s].call = ticked[s].call
          /\ marked[s].sent = ticked[s].sent /\ marked[s].ack = ticked[s].ack
          /\ ticked[s].requested => marked[s].requested
          /\ ticked[s].active /\ ObjectOf[s] \in CovChanged(entries) => marked[s].requested
      BY <1>6, MarkedCall DEF marked
    <2>2. /\ freed[s].active = marked[s].active /\ freed[s].requested = marked[s].requested
          /\ marked[s].call = "failed" => freed[s].call = "none"
          /\ marked[s].call # "failed" => freed[s] = marked[s]
      BY <1>7, FreedCall DEF freed
    <2>3. after[s].active = freed[s].active
      BY <1>8, NotifiedCall DEF after
    <2> QED
      BY <1>5, <2>1, <2>2, <2>3
  <1>15. ASSUME NEW s \in Subs
         PROVE  \/ /\ s \in Started(freed) /\ freed[s].active /\ freed[s].call = "none"
                   /\ after[s].call = "open" /\ after[s].sent = value[ObjectOf[s]]
                \/ s \notin Started(freed) /\ after[s] = freed[s]
    BY <1>8, NotifiedCall DEF after
  <1>16. Data'
    <2>1. value' \in [Objects -> {0, 1}] /\ changed' \subseteq Objects /\ known' \in [Subs -> {0, 1}]
      BY <1>2, <1>13 DEF Data
    <2>2. pending' \in Entries
      BY <1>2, <1>3 DEF Cleared, Entries
    <2>3. missed' \subseteq Subs
      BY <1>2 DEF Missed
    <2> QED
      BY <2>1, <2>2, <2>3 DEF Data
  <1>17. Cardinality(Busy(sub')) <= Slots
    <2>1. Busy(freed) \subseteq Busy(received)
      BY <1>5, <1>14 DEF Busy
    <2>2. Cardinality(Busy(freed)) <= Slots
      BY <2>1, BusyFewer DEF Sound
    <2>3. Cardinality(Busy(freed) \cup Started(freed)) <= Slots
      BY <2>2, StartedFits
    <2>4. Busy(sub') = Busy(freed) \cup Started(freed)
      <3>1. \A s \in Subs : sub'[s].call # "none" <=> freed[s].call # "none" \/ s \in Started(freed)
        BY <1>13, <1>15
      <3>2. Started(freed) \subseteq Subs
        BY DEF Started, Ready
      <3> QED
        BY <3>1, <3>2 DEF Busy
    <2> QED
      BY <2>3, <2>4
  <1>18. Followed(sub)'
    <2> SUFFICES ASSUME NEW s \in Subs
                 PROVE  /\ sub'[s].call \in {"none", "open"}
                        /\ sub'[s].call = "open" => sub'[s].active
                        /\ sub'[s].call = "open" /\ sub'[s].sent # value[ObjectOf[s]] =>
                              ObjectOf[s] \in changed' \/ sub'[s].requested
                        /\ sub'[s].call = "open" /\ sub'[s].ack /\ s \notin Dead =>
                              known'[s] = sub'[s].sent
      BY <1>2 DEF Followed, Follows
    <2>1. sub'[s].call = after[s].call /\ sub'[s].sent = after[s].sent
          /\ sub'[s].active = after[s].active /\ sub'[s].requested = after[s].requested
      BY <1>13
    <2>2. /\ received[s].call = "open" => received[s].active
          /\ received[s].call = "open" /\ received[s].sent # value[ObjectOf[s]] =>
                ObjectOf[s] \in changed \/ received[s].requested
          /\ received[s].call = "open" /\ received[s].ack /\ s \notin Dead =>
                known[s] = received[s].sent
      BY DEF Sound, Followed, Follows
    <2>3. ObjectOf[s] \in Objects
      BY SubsAssumption
    <2>4. sub'[s].call \in {"none", "open"} /\ (sub'[s].call = "open" => sub'[s].active)
      BY <1>14, <1>15, <2>1, <2>2
    <2>5. sub'[s].call = "open" /\ sub'[s].sent # value[ObjectOf[s]] => sub'[s].requested
      BY <1>11, <1>14, <1>15, <2>1, <2>2, <2>3
    <2>6. ASSUME sub'[s].call = "open", sub'[s].ack, s \notin Dead
          PROVE  known'[s] = sub'[s].sent
      <3>1. CASE sub'[s].ack => known'[s] = after[s].sent
        BY <2>1, <2>6, <3>1
      <3>2. CASE /\ sub'[s] = after[s] /\ known'[s] = known[s]
                 /\ after[s].call = "open" => before[s].call = "open" \/ s \in Dead
        <4>1. before[s].call = "open"
          BY <2>1, <2>6, <3>2
        <4>2. s \notin Started(freed)
          BY <1>5, <1>12, <1>14, <1>15, <4>1
        <4> QED
          BY <1>14, <1>15, <2>2, <2>6, <3>2, <4>2
      <3> QED
        BY <1>13, <3>1, <3>2
    <2> QED
      BY <2>4, <2>5, <2>6
  <1>19. Remembered(sub)'
    <2> SUFFICES ASSUME NEW s \in Subs \ Dead, sub'[s].active, known'[s] # value[ObjectOf[s]],
                        s \notin missed', ~sub'[s].requested
                 PROVE  \/ sub'[s].call = "open" /\ sub'[s].sent = value[ObjectOf[s]]
                        \/ pending'[ObjectOf[s]] # "none"
      BY <1>2 DEF Remembered, Remembers, Current
    <2> DEFINE o == ObjectOf[s]
    <2>1. o \in Objects
      BY SubsAssumption
    <2>2. sub'[s].call = after[s].call /\ sub'[s].sent = after[s].sent
          /\ received[s].active /\ ~after[s].requested
      BY <1>13, <1>14
    <2>3. CASE s \in Started(freed)
      BY <1>15, <2>2, <2>3
    <2>4. CASE s \notin Started(freed)
      <3>1. after[s] = freed[s]
        BY <1>15, <2>4
      <3>2. ~marked[s].requested /\ ~received[s].requested /\ o \notin CovChanged(entries)
        BY <1>14, <2>2, <3>1
      <3>3. o \notin changed /\ entries[o] # "due"
        BY <1>11, <2>1, <3>2
      <3>4. received[s].call = "open" => received[s].sent = value[o]
        BY <3>2, <3>3 DEF Sound, Followed, Follows
      <3>5. CASE freed[s].call = "open"
        BY <1>14, <2>2, <3>1, <3>4, <3>5
      <3>6. CASE freed[s].call # "open"
        <4>1. /\ known[s] # value[o] /\ s \notin missed
              /\ ~(o \in ToClear(marked) /\ entries[o] = "waiting")
          <5>1. known[s] # value[o]
            BY <1>2, <1>13, <3>1, <3>6
          <5>2. freed[s].active /\ ~freed[s].requested /\ freed[s].call = "none"
            BY <1>14, <2>2, <3>2, <3>6
          <5>3. s \notin Missed(freed, entries, ToClear(marked))
            BY <1>2
          <5> QED
            BY <5>1, <5>2, <5>3 DEF Missed
        <4>2. \/ received[s].call = "open" \/ pending[o] # "none"
          BY <2>2, <3>2, <3>3, <4>1 DEF Sound, Remembered, Remembers, Current
        <4>3. received[s].call = "open" => o \in Failing(received, ticked)
          BY <1>5, <1>14, <3>6 DEF Failing
        <4>4. entries[o] = "waiting"
          BY <1>3, <2>1, <3>3, <4>2, <4>3 DEF Entries
        <4>5. o \notin ToClear(marked)
          BY <4>1, <4>4
        <4> QED
          BY <1>10, <2>1, <4>4, <4>5
      <3> QED
        BY <3>5, <3>6
    <2> QED
      BY <2>3, <2>4
  <1>20. Cardinality(Busy(sub))' <= Slots
    BY <1>17 DEF Busy
  <1> QED
    BY <1>13, <1>16, <1>18, <1>19, <1>20 DEF CovInv, Sound, Calls

-----------------------------------------------------------------------------
(* Steps *)

LEMMA NoSubCall == NoSub \in Call /\ NoSub.call = "none" /\ ~NoSub.active /\ ~NoSub.requested
  BY SubsAssumption DEF NoSub, Call

LEMMA CovInit == Init => CovInv
  <1> SUFFICES ASSUME Init PROVE CovInv
    OBVIOUS
  <1>1. Data
    BY DEF Init, Data, Entries
  <1>2. sub \in Calls /\ \A s \in Subs : sub[s].call = "none" /\ ~sub[s].active
    BY NoSubCall DEF Init, Calls
  <1>3. Busy(sub) = {}
    BY <1>2 DEF Busy
  <1>4. Cardinality(Busy(sub)) <= Slots
    BY <1>3, FS_EmptySet, SubsAssumption
  <1>5. Followed(sub) /\ Remembered(sub)
    BY <1>2 DEF Followed, Follows, Remembered, Remembers
  <1> QED
    BY <1>1, <1>2, <1>4, <1>5 DEF CovInv, Sound

\* What a packet makes of one subscription.
LEMMA ReceivedSound ==
    ASSUME CovInv, NEW s \in Subs, NEW c \in Call, c.call # "none" => sub[s].call # "none",
           Follows(s, c), Remembers(s, c)
    PROVE  Sound([sub EXCEPT ![s] = c])
  <1> DEFINE received == [sub EXCEPT ![s] = c]
  <1>1. received \in Calls /\ \A t \in Subs : received[t] = IF t = s THEN c ELSE sub[t]
    BY DEF CovInv, Sound, Calls
  <1> HIDE DEF received
  <1>2. Busy(received) \subseteq Busy(sub)
    BY <1>1 DEF Busy
  <1>3. Cardinality(Busy(received)) <= Slots
    BY <1>2, BusyFewer DEF CovInv, Sound
  <1>4. Followed(received) /\ Remembered(received)
    BY <1>1 DEF CovInv, Sound, Followed, Remembered
  <1>5. Sound(received)
    BY <1>1, <1>3, <1>4 DEF Sound
  <1> QED
    BY <1>5 DEF received

LEMMA CovStep ==
    ASSUME CovInv, [Next]_vars
    PROVE  CovInv'
  <1>0. /\ Data /\ Sound(sub)
        /\ \A s \in Subs : sub[s] \in Call /\ Follows(s, sub[s]) /\ Remembers(s, sub[s])
    BY DEF CovInv, Sound, Followed, Remembered, Calls
  <1>1. ASSUME NEW elapsed \in BOOLEAN, Idle(elapsed)
        PROVE  CovInv'
    BY <1>0, <1>1, PassSound DEF Idle
  <1>2. ASSUME NEW s \in Subs, HandleAck(s)
        PROVE  CovInv'
    <2> DEFINE c == Closed(sub[s])
    <2>1. /\ sub[s].call = "open" /\ sub[s].ack
          /\ Pass([sub EXCEPT ![s] = c], FALSE)
      BY <1>2 DEF HandleAck
    <2>2. /\ c \in Call /\ c.call = "none"
          /\ c.active = sub[s].active /\ c.requested = sub[s].requested
      BY <1>0, ClosedCall
    <2> HIDE DEF c
    <2>3. Follows(s, c) /\ Remembers(s, c)
      BY <1>0, <2>1, <2>2 DEF Follows, Remembers, Current
    <2>4. Sound([sub EXCEPT ![s] = c])
      BY <2>2, <2>3, ReceivedSound
    <2> QED
      BY <1>0, <2>1, <2>4, PassSound
  <1>3. ASSUME NEW s \in Subs, HandleSubscribe(s)
        PROVE  CovInv'
    <2> DEFINE c == [sub[s] EXCEPT !.active = TRUE, !.requested = TRUE]
    <2>1. [sub EXCEPT ![s].active = TRUE, ![s].requested = TRUE] = [sub EXCEPT ![s] = c]
      BY <1>0 DEF Sound, Calls
    <2>2. Pass([sub EXCEPT ![s] = c], FALSE)
      BY <1>3, <2>1 DEF HandleSubscribe
    <2>3. /\ c \in Call /\ c.active /\ c.requested
          /\ c.call = sub[s].call /\ c.sent = sub[s].sent /\ c.ack = sub[s].ack
      BY <1>0 DEF Call
    <2> HIDE DEF c
    <2>4. Follows(s, c) /\ Remembers(s, c)
      BY <1>0, <2>3 DEF Follows, Remembers
    <2>5. Sound([sub EXCEPT ![s] = c])
      BY <2>3, <2>4, ReceivedSound
    <2> QED
      BY <1>0, <2>2, <2>5, PassSound
  <1>4. ASSUME NEW s \in Subs, HandleCancel(s)
        PROVE  CovInv'
    <2>1. Follows(s, NoSub) /\ Remembers(s, NoSub)
      BY NoSubCall DEF Follows, Remembers
    <2>2. Sound([sub EXCEPT ![s] = NoSub])
      BY <2>1, NoSubCall, ReceivedSound
    <2> QED
      BY <1>0, <1>4, <2>2, PassSound DEF HandleCancel
  <1>5. ASSUME NEW o \in Objects, Change(o)
        PROVE  CovInv'
    <2>1. /\ value' = [value EXCEPT ![o] = 1 - value[o]] /\ changed' = changed \cup {o}
          /\ pending' = pending /\ sub' = sub /\ known' = known /\ missed' = missed
      BY <1>5 DEF Change
    <2>2. Data'
      BY <1>0, <2>1 DEF Data
    <2>3. ASSUME NEW s \in Subs
          PROVE  Follows(s, sub[s])' /\ Remembers(s, sub[s])'
      <3>1. ObjectOf[s] # o => value'[ObjectOf[s]] = value[ObjectOf[s]]
        BY <1>0, <2>1, SubsAssumption DEF Data
      <3> QED
        BY <1>0, <2>1, <3>1 DEF Follows, Remembers, Current
    <2>4. Followed(sub)' /\ Remembered(sub)'
      BY <2>3 DEF Followed, Remembered
    <2> QED
      BY <1>0, <2>1, <2>2, <2>4 DEF CovInv, Sound, Busy
  <1>6. CASE UNCHANGED vars
    BY <1>0, <1>6 DEF vars, CovInv, Data, Sound, Busy, Followed, Follows, Remembered, Remembers,
                      Current
  <1> QED
    BY <1>1, <1>2, <1>3, <1>4, <1>5, <1>6 DEF Next

\* Every subscription is followed up and nothing stale is forgotten.
THEOREM CovInvariant == Spec => []CovInv
  BY CovInit, CovStep, PTL DEF Spec

-----------------------------------------------------------------------------
(* Theorems *)

\* Every variable keeps its type and there are never more transactions than
\* slots, however many notifications become due at once.
THEOREM CovTypeCorrect == Spec => []TypeOK
  <1>1. CovInv => TypeOK
    <2> SUFFICES ASSUME CovInv PROVE TypeOK
      OBVIOUS
    <2>1. sub \in [Subs -> [active : BOOLEAN, requested : BOOLEAN, call : {"none", "open"},
                            tries : 0 .. Retries, sent : {0, 1}, ack : BOOLEAN]]
      BY DEF CovInv, Sound, Calls, Call, Followed, Follows
    <2>2. InUse = Busy(sub)
      BY DEF InUse, Busy
    <2> QED
      BY <2>1, <2>2 DEF CovInv, Data, Entries, Sound, TypeOK
  <1> QED
    BY <1>1, CovInvariant, PTL

\* A subscriber that can be reached and was told an old value is not forgotten,
\* whatever is lost, however many compete for the transactions, and however often
\* they subscribe, renew and cancel, in all but one way: its repeat is cancelled by
\* the notification of another subscriber of its object.
THEOREM StaleIsRememberedCorrect == Spec => []StaleIsRemembered
  <1>1. CovInv => StaleIsRemembered
    BY DEF CovInv, Sound, Remembered, Remembers, StaleIsRemembered
  <1> QED
    BY <1>1, CovInvariant, PTL
=============================================================================
