----------------------- MODULE RestartNotificationProofs -----------------------
(***************************************************************************)
(* Proofs about RestartNotification, for any recipients, any length of the *)
(* list, any number of attempts and any clock.                             *)
(***************************************************************************)
EXTENDS RestartNotification, FiniteSetTheorems, TLAPS

LEMMA RestartStepCases ==
    ASSUME [Next]_vars
    PROVE  \/ \E due, expired, busy \in BOOLEAN : Tick(due, expired, busy)
           \/ \E list \in Lists : \E outcome \in Outcomes(list) : Write(list, outcome)
           \/ PollClock \/ ClockChanges \/ ReadyChanges
           \/ \E stored \in {nvs, Corrupt}, failed \in BOOLEAN : Restart(stored, failed)
           \/ UNCHANGED vars
  BY Zenon DEF Next

-----------------------------------------------------------------------------
(* The chosen restart time                                                 *)

\* A restart time is chosen when, and only when, the attempts begin.
ChoiceInv ==
    /\ clock \in Times \cup {None} /\ snapshot \in Times \cup {None}
    /\ bootReady <=> timestamp # None
    /\ selected <=> timestamp # None
    /\ timestamp # None => deviceTime = timestamp

LEMMA ChoiceInit == Init => ChoiceInv
  BY DEF Init, ChoiceInv

LEMMA TickChoice ==
    ASSUME ChoiceInv, NEW due, NEW expired, NEW busy, Tick(due, expired, busy)
    PROVE  /\ ChoiceInv'
           /\ bootReady => timestamp' = timestamp /\ deviceTime' = timestamp
  <1>1. SelectTimestamp(expired, busy) /\ clock' = clock
    BY DEF Tick, listVars
  <1>2. bootReady' <=> timestamp' # None
    BY <1>1 DEF Tick, targetVars, ChoiceInv, SelectTimestamp
  <1>3. snapshot' \in Times \cup {None}
    BY <1>1 DEF SelectTimestamp, ChoiceInv
  <1>4. CASE selected
    BY <1>1, <1>2, <1>3, <1>4 DEF SelectTimestamp, ChoiceInv
  <1>5. CASE ~selected
    BY <1>1, <1>2, <1>3, <1>5, TimesAssumption DEF SelectTimestamp, ChoiceInv
  <1> QED
    BY <1>4, <1>5

LEMMA ChoiceStep == ChoiceInv /\ [Next]_vars => ChoiceInv'
  <1> SUFFICES ASSUME ChoiceInv, [Next]_vars PROVE ChoiceInv'
    OBVIOUS
  <1>1. ASSUME NEW due \in BOOLEAN, NEW expired \in BOOLEAN, NEW busy \in BOOLEAN,
               Tick(due, expired, busy)
        PROVE  ChoiceInv'
    BY <1>1, TickChoice
  <1>2. ASSUME NEW list \in Lists, NEW outcome \in Outcomes(list), Write(list, outcome)
        PROVE  ChoiceInv'
    BY <1>2 DEF Write, ChoiceInv, clockVars
  <1>3. CASE PollClock \/ ClockChanges \/ ReadyChanges \/ UNCHANGED vars
    BY <1>3 DEF PollClock, ClockChanges, ReadyChanges, vars, ChoiceInv, clockVars, targetVars
  <1>4. ASSUME NEW stored, NEW failed, Restart(stored, failed)
        PROVE  ChoiceInv'
    BY <1>4 DEF Restart, ChoiceInv
  <1> QED
    BY <1>1, <1>2, <1>3, <1>4, RestartStepCases, Zenon

\* All notifications of a boot carry the same restart time.
THEOREM TimestampFrozenCorrect == Spec => TimestampFrozen
  <1> DEFINE Frozen == bootReady /\ bootReady' => timestamp' = timestamp /\ deviceTime' = timestamp
  <1>1. ChoiceInv /\ [Next]_vars => [Frozen]_vars
    <2> SUFFICES ASSUME ChoiceInv, [Next]_vars, bootReady, bootReady', vars' # vars PROVE Frozen
      OBVIOUS
    <2>1. ASSUME NEW due \in BOOLEAN, NEW expired \in BOOLEAN, NEW busy \in BOOLEAN,
                 Tick(due, expired, busy)
          PROVE  Frozen
      BY <2>1, TickChoice
    <2>2. ASSUME NEW list \in Lists, NEW outcome \in Outcomes(list), Write(list, outcome)
          PROVE  Frozen
      BY <2>2 DEF Write, ChoiceInv, clockVars
    <2>3. CASE PollClock \/ ClockChanges \/ ReadyChanges
      BY <2>3 DEF PollClock, ClockChanges, ReadyChanges, ChoiceInv, clockVars
    <2>4. ASSUME NEW stored, NEW failed, Restart(stored, failed)
          PROVE  FALSE
      BY <2>4 DEF Restart
    <2> QED
      BY <2>1, <2>2, <2>3, <2>4, RestartStepCases, Zenon
  <1> QED
    BY <1>1, ChoiceInit, ChoiceStep, PTL DEF Spec, TimestampFrozen

-----------------------------------------------------------------------------
(* The targets of a boot                                                   *)

\* What holds of one target: nobody else is pending than those listed and not done.
TargetOK(target) ==
    /\ target \in Target
    /\ target.pending <=> ~Done(target)
    /\ target.pending => target.recipient \in ToSet(live)

TargetInv ==
    /\ live \in Lists
    /\ targets \in SeqOf(Target, MaxRecipients)
    /\ ~bootReady => targets = <<>> /\ pendingCount = 0
    /\ \A i \in DOMAIN targets : TargetOK(targets[i])

\* A list is a function on an interval.
LEMMA SeqOfIs ==
    ASSUME NEW S, NEW n \in Nat, NEW s
    PROVE  s \in SeqOf(S, n) <=> \E m \in 0 .. n : s \in [1 .. m -> S]
  BY DEF SeqOf

LEMMA ListDomain ==
    ASSUME NEW S, NEW n \in Nat, NEW s \in SeqOf(S, n)
    PROVE  /\ Len(s) \in 0 .. n /\ s \in [1 .. Len(s) -> S]
           /\ DOMAIN s = 1 .. Len(s)
           /\ s \in Seq(S)
  <1>1. PICK m \in 0 .. n : s \in [1 .. m -> S]
    BY SeqOfIs
  <1>2. s \in Seq(S) /\ Len(s) = m
    BY <1>1
  <1> QED
    BY <1>1, <1>2

\* The same places, other elements.
LEMMA ListMapped ==
    ASSUME NEW S, NEW T, NEW n \in Nat, NEW s \in SeqOf(S, n), NEW r,
           r = [i \in DOMAIN s |-> r[i]], \A i \in DOMAIN s : r[i] \in T
    PROVE  r \in SeqOf(T, n) /\ DOMAIN r = DOMAIN s /\ Len(r) = Len(s)
  <1>1. DOMAIN s = 1 .. Len(s) /\ Len(s) \in 0 .. n
    BY ListDomain
  <1>2. r \in [1 .. Len(s) -> T]
    BY <1>1
  <1>3. r \in SeqOf(T, n)
    BY <1>1, <1>2, SeqOfIs
  <1> QED
    BY <1>1, <1>2, <1>3

LEMMA NewTargetOK ==
    ASSUME NEW recipient \in ToSet(live), live \in Lists
    PROVE  TargetOK(NewTarget(recipient))
  <1>1. recipient \in Recipients
    <2>1. live \in Seq(Recipients)
      BY ListDomain, RecipientsAssumption DEF Lists
    <2> QED
      BY <2>1 DEF ToSet
  <1> QED
    BY <1>1, RecipientsAssumption DEF TargetOK, NewTarget, Target, Done

LEMMA AttemptedOK ==
    ASSUME NEW target, TargetOK(target), target.pending, NEW result
    PROVE  TargetOK(Attempted(target, result))
  <1> DEFINE new == Attempted(target, result)
  <1>1. target.attempts \in 0 .. AttemptsMax - 1 /\ ~target.canceled /\ target \in Target
    BY RecipientsAssumption DEF TargetOK, Done, Target
  <1>2. /\ new.attempts = target.attempts + 1 /\ new.canceled = FALSE
        /\ new.recipient = target.recipient
        /\ new.accepted = (result = "accepted")
        /\ new.pending = (result # "accepted" /\ target.attempts + 1 < AttemptsMax)
    BY <1>1 DEF Attempted, Target
  <1>3. new \in Target
    <2>1. /\ new = [target EXCEPT !.attempts = new.attempts, !.accepted = new.accepted,
                                  !.pending = new.pending]
          /\ target \in Target
      BY <1>1, <1>2 DEF Attempted
    <2>2. new.attempts \in 0 .. AttemptsMax
      BY <1>1, <1>2, RecipientsAssumption
    <2>3. new.accepted \in BOOLEAN /\ new.pending \in BOOLEAN
      BY <1>2
    <2> HIDE DEF new
    <2> QED
      BY <2>1, <2>2, <2>3 DEF Target
  <1>4. new.pending <=> ~Done(new)
    <2>1. new.attempts = AttemptsMax <=> ~(target.attempts + 1 < AttemptsMax)
      BY <1>1, <1>2, RecipientsAssumption
    <2> DEFINE more == target.attempts + 1 < AttemptsMax
    <2>2. new.pending = (result # "accepted" /\ more) /\ (new.attempts = AttemptsMax <=> ~more)
      BY <1>2, <2>1
    <2> HIDE DEF new, more
    <2> QED
      BY <1>2, <2>2, Zenon DEF Done
  <1> QED
    BY <1>2, <1>3, <1>4 DEF TargetOK

\* The targets an iteration starts from are those of this boot, all pending at first.
LEMMA TargetsOfBootOK ==
    ASSUME TargetInv
    PROVE  /\ TargetsOfBoot \in SeqOf(Target, MaxRecipients)
           /\ \A i \in DOMAIN TargetsOfBoot : TargetOK(TargetsOfBoot[i])
           /\ ~bootReady => \A i \in DOMAIN TargetsOfBoot : TargetsOfBoot[i].pending
  <1>1. CASE bootReady
    BY <1>1 DEF TargetsOfBoot, TargetInv
  <1>2. CASE ~bootReady
    <2>1. TargetsOfBoot = [i \in DOMAIN live |-> NewTarget(live[i])]
      BY <1>2 DEF TargetsOfBoot
    <2>2. \A i \in DOMAIN live : TargetOK(NewTarget(live[i])) /\ NewTarget(live[i]).pending
      BY NewTargetOK DEF TargetInv, ToSet, NewTarget
    <2>3. \A i \in DOMAIN live : TargetsOfBoot[i] \in Target
      BY <2>1, <2>2 DEF TargetOK
    <2>4. TargetsOfBoot \in SeqOf(Target, MaxRecipients) /\ DOMAIN TargetsOfBoot = DOMAIN live
      <3> HIDE DEF TargetsOfBoot
      <3>1. live \in SeqOf(Recipients, MaxRecipients) /\ MaxRecipients \in Nat
        BY RecipientsAssumption DEF TargetInv, Lists
      <3> QED
        BY <2>1, <2>3, <3>1, ListMapped
    <2> QED
      BY <1>2, <2>1, <2>2, <2>4
  <1> QED
    BY <1>1, <1>2

\* An iteration attempts some of the pending targets and leaves the others alone.
LEMMA TickTargets ==
    ASSUME TargetInv, NEW due, NEW expired, NEW busy, Tick(due, expired, busy), timestamp' # None
    PROVE  /\ bootReady' /\ live' = live
           /\ targets' \in SeqOf(Target, MaxRecipients)
           /\ DOMAIN targets' = DOMAIN TargetsOfBoot
           /\ \A i \in DOMAIN TargetsOfBoot :
                 /\ TargetOK(targets'[i])
                 /\ \/ targets'[i] = TargetsOfBoot[i]
                    \/ TargetsOfBoot[i].pending
           /\ pendingCount' = (IF bootReady THEN pendingCount ELSE Len(TargetsOfBoot))
                - Cardinality({i \in DOMAIN TargetsOfBoot :
                                  TargetsOfBoot[i].pending /\ ~targets'[i].pending})
  <1> DEFINE base == TargetsOfBoot
  <1>1. PICK results :
          /\ bootReady' = TRUE
          /\ targets' = [i \in DOMAIN base |->
                            IF base[i].pending /\ (due \/ ~bootReady)
                            THEN Attempted(base[i], results[i])
                            ELSE base[i]]
          /\ pendingCount' = (IF bootReady THEN pendingCount ELSE Len(base))
               - Cardinality({i \in DOMAIN base : base[i].pending /\ ~targets'[i].pending})
    BY Zenon DEF Tick
  <1>2. live' = live
    BY DEF Tick, listVars
  <1>3. base \in SeqOf(Target, MaxRecipients) /\ \A i \in DOMAIN base : TargetOK(base[i])
    BY TargetsOfBootOK
  <1> HIDE DEF base
  <1>4. \A i \in DOMAIN base : TargetOK(targets'[i])
    BY <1>1, <1>3, AttemptedOK
  <1>5. targets' = [i \in DOMAIN base |-> targets'[i]] /\ \A i \in DOMAIN base : targets'[i] \in Target
    BY <1>1, <1>4 DEF TargetOK
  <1>6. targets' \in SeqOf(Target, MaxRecipients) /\ DOMAIN targets' = DOMAIN base
    BY <1>3, <1>5, ListMapped, RecipientsAssumption
  <1>7. \A i \in DOMAIN base : targets'[i] = base[i] \/ base[i].pending
    BY <1>1
  <1> QED
    BY <1>1, <1>2, <1>4, <1>6, <1>7 DEF base

\* A list that is replaced cancels the pending targets that are no longer on it.
LEMMA WriteTargets ==
    ASSUME TargetInv, NEW list \in Lists, NEW outcome, Write(list, outcome), Persisted(outcome)
    PROVE  /\ live' = list /\ bootReady' = bootReady
           /\ targets' \in SeqOf(Target, MaxRecipients)
           /\ DOMAIN targets' = DOMAIN targets
           /\ \A i \in DOMAIN targets :
                 /\ targets'[i] \in Target
                 /\ targets'[i].pending <=> ~Done(targets'[i])
                 /\ targets'[i].pending => targets'[i].recipient \in ToSet(list)
                 /\ targets'[i].pending = (targets[i].pending /\ ~Canceled(targets[i], list))
                 /\ ~targets[i].pending => targets'[i] = targets[i]
                 /\ targets'[i].attempts = targets[i].attempts
           /\ pendingCount' = pendingCount
                - Cardinality({i \in DOMAIN targets : Canceled(targets[i], list)})
  <1>1. /\ live' = list /\ bootReady' = bootReady
        /\ targets' = [i \in DOMAIN targets |->
              IF Canceled(targets[i], list)
              THEN [targets[i] EXCEPT !.pending = FALSE, !.canceled = TRUE]
              ELSE targets[i]]
        /\ pendingCount' = pendingCount
             - Cardinality({i \in DOMAIN targets : Canceled(targets[i], list)})
    BY DEF Write
  <1>2. ASSUME NEW i \in DOMAIN targets
        PROVE  /\ targets'[i] \in Target
               /\ targets'[i].pending <=> ~Done(targets'[i])
               /\ targets'[i].pending => targets'[i].recipient \in ToSet(list)
               /\ targets'[i].pending = (targets[i].pending /\ ~Canceled(targets[i], list))
               /\ ~targets[i].pending => targets'[i] = targets[i]
               /\ targets'[i].attempts = targets[i].attempts
    <2>0. targets[i] \in Target /\ (targets[i].pending <=> ~Done(targets[i]))
      BY DEF TargetInv, TargetOK
    <2>1. CASE Canceled(targets[i], list)
      <3>1. targets'[i] = [targets[i] EXCEPT !.pending = FALSE, !.canceled = TRUE]
        BY <1>1, <2>1
      <3> QED
        BY <2>0, <2>1, <3>1 DEF Target, Done, Canceled
    <2>2. CASE ~Canceled(targets[i], list)
      BY <1>1, <2>0, <2>2 DEF Canceled, Target
    <2> QED
      BY <2>1, <2>2
  <1>3. targets' \in SeqOf(Target, MaxRecipients) /\ DOMAIN targets' = DOMAIN targets
    <2>1. targets' = [i \in DOMAIN targets |-> targets'[i]] /\ targets \in SeqOf(Target, MaxRecipients)
      BY <1>1 DEF TargetInv
    <2> QED
      BY <1>2, <2>1, ListMapped, RecipientsAssumption
  <1> QED
    BY <1>1, <1>2, <1>3

LEMMA EmptyList ==
    ASSUME NEW S
    PROVE  <<>> \in SeqOf(S, MaxRecipients)
  <1>1. <<>> \in [1 .. 0 -> S] /\ 0 \in 0 .. MaxRecipients
    BY RecipientsAssumption
  <1> QED
    BY <1>1, SeqOfIs, RecipientsAssumption

LEMMA LoadedType ==
    ASSUME NEW stored \in Lists \cup {Missing, Corrupt}
    PROVE  Loaded(stored) \in Lists
  <1>1. <<Broadcast>> \in Lists
    <2>1. <<Broadcast>> \in [1 .. 1 -> Recipients] /\ 1 \in 0 .. MaxRecipients
      BY RecipientsAssumption
    <2> QED
      BY <2>1, SeqOfIs, RecipientsAssumption DEF Lists
  <1> QED
    BY <1>1, EmptyList, RecipientsAssumption DEF Loaded, Lists

LEMMA TargetInit == Init => TargetInv
  <1> SUFFICES ASSUME Init PROVE TargetInv
    OBVIOUS
  <1>1. live \in Lists
    BY LoadedType DEF Init
  <1>2. targets = <<>> /\ targets \in SeqOf(Target, MaxRecipients) /\ DOMAIN targets = {}
    BY EmptyList DEF Init
  <1> QED
    BY <1>1, <1>2 DEF Init, TargetInv

LEMMA TargetStep == TargetInv /\ nvs \in Lists \cup {Missing, Corrupt} /\ [Next]_vars => TargetInv'
  <1> SUFFICES ASSUME TargetInv, nvs \in Lists \cup {Missing, Corrupt}, [Next]_vars
               PROVE  TargetInv'
    OBVIOUS
  <1>1. ASSUME UNCHANGED <<live, targets, pendingCount, bootReady>> PROVE TargetInv'
    BY <1>1 DEF TargetInv, TargetOK, Done
  <1>2. ASSUME NEW due \in BOOLEAN, NEW expired \in BOOLEAN, NEW busy \in BOOLEAN,
               Tick(due, expired, busy)
        PROVE  TargetInv'
    <2>1. CASE timestamp' = None
      <3>1. UNCHANGED <<targets, pendingCount, bootReady, live>>
        BY <1>2, <2>1 DEF Tick, targetVars, listVars
      <3> QED
        BY <1>1, <3>1
    <2>2. CASE timestamp' # None
      <3>1. /\ bootReady' /\ live' = live
            /\ targets' \in SeqOf(Target, MaxRecipients)
            /\ \A i \in DOMAIN targets' : TargetOK(targets'[i])
        BY <1>2, <2>2, TickTargets
      <3> QED
        BY <3>1 DEF TargetInv, TargetOK, Done
    <2> QED
      BY <2>1, <2>2
  <1>3. ASSUME NEW list \in Lists, NEW outcome \in Outcomes(list), Write(list, outcome)
        PROVE  TargetInv'
    <2>1. CASE Persisted(outcome)
      <3>1. /\ live' = list /\ bootReady' = bootReady
            /\ targets' \in SeqOf(Target, MaxRecipients)
            /\ DOMAIN targets' = DOMAIN targets
            /\ \A i \in DOMAIN targets :
                  /\ targets'[i] \in Target
                  /\ targets'[i].pending <=> ~Done(targets'[i])
                  /\ targets'[i].pending => targets'[i].recipient \in ToSet(list)
            /\ pendingCount' = pendingCount
                 - Cardinality({i \in DOMAIN targets : Canceled(targets[i], list)})
        BY <1>3, <2>1, WriteTargets
      <3>2. ~bootReady => targets' = <<>> /\ pendingCount' = 0
        <4> SUFFICES ASSUME ~bootReady PROVE targets' = <<>> /\ pendingCount' = 0
          OBVIOUS
        <4>1. targets = <<>> /\ pendingCount = 0 /\ DOMAIN targets = {}
          BY DEF TargetInv
        <4>2. {i \in DOMAIN targets : Canceled(targets[i], list)} = {}
          BY <4>1
        <4>3. targets' = <<>>
          BY <1>3, <2>1, <4>1 DEF Write
        <4> QED
          BY <3>1, <4>1, <4>2, <4>3, FS_EmptySet
      <3> QED
        BY <3>1, <3>2 DEF TargetInv, TargetOK, Done
    <2>2. CASE ~Persisted(outcome)
      BY <1>1, <1>3, <2>2 DEF Write
    <2> QED
      BY <2>1, <2>2
  <1>4. CASE PollClock \/ ClockChanges \/ ReadyChanges \/ UNCHANGED vars
    BY <1>1, <1>4, Zenon DEF PollClock, ClockChanges, ReadyChanges, vars, listVars, targetVars
  <1>5. ASSUME NEW stored \in {nvs, Corrupt}, NEW failed \in BOOLEAN, Restart(stored, failed)
        PROVE  TargetInv'
    <2>1. live' \in Lists
      BY <1>5, LoadedType, EmptyList DEF Restart, Lists
    <2>2. targets' = <<>> /\ targets' \in SeqOf(Target, MaxRecipients) /\ DOMAIN targets' = {}
      BY <1>5, EmptyList DEF Restart
    <2> QED
      BY <1>5, <2>1, <2>2 DEF Restart, TargetInv
  <1> QED
    BY <1>2, <1>3, <1>4, <1>5, RestartStepCases, Zenon

-----------------------------------------------------------------------------
(* The two copies of the list                                              *)

StoredInv == nvs \in Lists \cup {Missing, Corrupt} /\ LiveIsStored

LEMMA StoredInit == Init => StoredInv
  BY RecipientsAssumption DEF Init, StoredInv, LiveIsStored, Loaded

LEMMA EmptyDomain ==
    ASSUME NEW S, NEW s \in SeqOf(S, MaxRecipients), DOMAIN s = {}
    PROVE  s = <<>>
  <1>1. s \in Seq(S) /\ DOMAIN s = 1 .. Len(s) /\ Len(s) \in 0 .. MaxRecipients
    BY ListDomain, RecipientsAssumption
  <1>2. Len(s) = 0
    BY <1>1, RecipientsAssumption
  <1> QED
    BY <1>1, <1>2

LEMMA StoredStep == TargetInv /\ StoredInv /\ [Next]_vars => StoredInv'
  <1> SUFFICES ASSUME TargetInv, StoredInv, [Next]_vars PROVE StoredInv'
    OBVIOUS
  <1>0. {Missing, Corrupt} \cap Lists = {} /\ Missing # Corrupt
    BY RecipientsAssumption
  <1>1. ASSUME NEW due \in BOOLEAN, NEW expired \in BOOLEAN, NEW busy \in BOOLEAN,
               Tick(due, expired, busy)
        PROVE  StoredInv'
    <2>1. UNCHANGED <<nvs, live, inDoubt, misread>>
      BY <1>1 DEF Tick, listVars
    <2>2. live = <<>> /\ targets = <<>> => targets' = <<>>
      <3> SUFFICES ASSUME live = <<>>, targets = <<>> PROVE targets' = <<>>
        OBVIOUS
      <3>1. CASE timestamp' = None
        BY <1>1, <3>1 DEF Tick, targetVars
      <3>2. CASE timestamp' # None
        <4>1. DOMAIN TargetsOfBoot = {}
          BY DEF TargetsOfBoot
        <4>2. targets' \in SeqOf(Target, MaxRecipients) /\ DOMAIN targets' = {}
          BY <1>1, <3>2, <4>1, TickTargets
        <4> QED
          BY <4>2, EmptyDomain
      <3> QED
        BY <3>1, <3>2
    <2> QED
      BY <2>1, <2>2 DEF StoredInv, LiveIsStored
  <1>2. ASSUME NEW list \in Lists, NEW outcome \in Outcomes(list), Write(list, outcome)
        PROVE  StoredInv'
    <2>1. list # Missing /\ list # Corrupt /\ Loaded(list) = list
      BY <1>0 DEF Loaded
    <2>2. outcome \in {"stored", "failed", "failedStored"}
      BY DEF Outcomes
    <2>3. CASE outcome = "stored"
      BY <1>2, <2>1, <2>3 DEF Write, Persisted, StoredInv, LiveIsStored
    <2>4. CASE outcome = "failed"
      BY <1>2, <2>4 DEF Write, Persisted, StoredInv, LiveIsStored
    <2>5. CASE outcome = "failedStored"
      BY <1>2, <2>1, <2>5 DEF Write, Persisted, StoredInv, LiveIsStored
    <2> QED
      BY <2>2, <2>3, <2>4, <2>5
  <1>3. CASE PollClock \/ ClockChanges \/ ReadyChanges \/ UNCHANGED vars
    BY <1>3 DEF PollClock, ClockChanges, ReadyChanges, vars, listVars, targetVars, StoredInv, LiveIsStored
  <1>4. ASSUME NEW stored \in {nvs, Corrupt}, NEW failed \in BOOLEAN, Restart(stored, failed)
        PROVE  StoredInv'
    BY <1>0, <1>4 DEF Restart, StoredInv, LiveIsStored, Loaded
  <1> QED
    BY <1>1, <1>2, <1>3, <1>4, RestartStepCases, Zenon

LEMMA TargetInvariant == Spec => [](TargetInv /\ StoredInv)
  <1>1. StoredInv => nvs \in Lists \cup {Missing, Corrupt}
    BY DEF StoredInv
  <1> QED
    BY <1>1, TargetInit, StoredInit, TargetStep, StoredStep, PTL DEF Spec

\* The list a client reads back is the one the next boot loads, and a corrupt list
\* leaves nobody to notify.
THEOREM LiveIsStoredCorrect == Spec => []LiveIsStored
  BY TargetInvariant, PTL DEF StoredInv

-----------------------------------------------------------------------------
(* Recipients that are done with                                           *)

PendingTargets(list) == {i \in DOMAIN list : list[i].pending}

\* Cancelling or finishing targets takes them off the pending ones.
LEMMA CountTaken ==
    ASSUME NEW old \in SeqOf(Target, MaxRecipients), NEW new, DOMAIN new = DOMAIN old, NEW taken,
           taken \subseteq PendingTargets(old), PendingTargets(new) = PendingTargets(old) \ taken
    PROVE  /\ Cardinality(PendingTargets(new)) =
                 Cardinality(PendingTargets(old)) - Cardinality(taken)
           /\ IsFiniteSet(PendingTargets(old))
           /\ Cardinality(DOMAIN old) = Len(old)
  <1>1. DOMAIN old = 1 .. Len(old) /\ Len(old) \in Nat
    BY ListDomain, RecipientsAssumption
  <1>2. IsFiniteSet(DOMAIN old) /\ Cardinality(DOMAIN old) = Len(old)
    <2>1. PICK n \in Nat : n = Len(old) /\ DOMAIN old = 1 .. n
      BY <1>1
    <2>2. IsFiniteSet(1 .. n) /\ Cardinality(1 .. n) = IF 1 > n THEN 0 ELSE n - 1 + 1
      BY FS_Interval
    <2>3. Cardinality(1 .. n) = n
      BY <2>2
    <2> QED
      BY <2>1, <2>2, <2>3, Zenon
  <1>3. IsFiniteSet(PendingTargets(old))
    BY <1>2, FS_Subset DEF PendingTargets
  <1>4. PendingTargets(old) \cap taken = taken
    OBVIOUS
  <1> QED
    BY <1>2, <1>3, <1>4, FS_Difference

CountInv == pendingCount = Cardinality(PendingTargets(targets))

LEMMA CountInit == Init => CountInv
  <1> SUFFICES ASSUME Init PROVE CountInv
    OBVIOUS
  <1>1. PendingTargets(targets) = {}
    BY DEF Init, PendingTargets
  <1> QED
    BY <1>1, FS_EmptySet DEF Init, CountInv

LEMMA CountStep == TargetInv /\ CountInv /\ [Next]_vars => CountInv'
  <1> SUFFICES ASSUME TargetInv, CountInv, [Next]_vars PROVE CountInv'
    OBVIOUS
  <1>1. ASSUME UNCHANGED <<targets, pendingCount>> PROVE CountInv'
    BY <1>1 DEF CountInv, PendingTargets
  <1>2. ASSUME NEW due \in BOOLEAN, NEW expired \in BOOLEAN, NEW busy \in BOOLEAN,
               Tick(due, expired, busy), timestamp' # None
        PROVE  CountInv'
    <2> DEFINE base == TargetsOfBoot
               taken == {i \in DOMAIN base : base[i].pending /\ ~targets'[i].pending}
    <2>1. /\ base \in SeqOf(Target, MaxRecipients)
          /\ ~bootReady => \A i \in DOMAIN base : base[i].pending
          /\ bootReady => base = targets
      BY TargetsOfBootOK DEF TargetsOfBoot
    <2>2. /\ DOMAIN targets' = DOMAIN base
          /\ \A i \in DOMAIN base : targets'[i] = base[i] \/ base[i].pending
          /\ pendingCount' = (IF bootReady THEN pendingCount ELSE Len(base)) - Cardinality(taken)
      BY <1>2, TickTargets
    <2> HIDE DEF base
    <2>3. taken \subseteq PendingTargets(base) /\ PendingTargets(targets') = PendingTargets(base) \ taken
      BY <2>2 DEF PendingTargets
    <2>4. /\ Cardinality(PendingTargets(targets')) =
                Cardinality(PendingTargets(base)) - Cardinality(taken)
          /\ Cardinality(DOMAIN base) = Len(base)
      <3> HIDE DEF taken
      <3> QED
        BY <2>1, <2>2, <2>3, CountTaken
    <2>5. Cardinality(PendingTargets(base)) = IF bootReady THEN pendingCount ELSE Len(base)
      <3>1. CASE bootReady
        BY <2>1, <3>1 DEF CountInv
      <3>2. CASE ~bootReady
        <4>1. PendingTargets(base) = DOMAIN base
          BY <2>1, <3>2 DEF PendingTargets
        <4> QED
          BY <2>4, <3>2, <4>1
      <3> QED
        BY <3>1, <3>2
    <2> QED
      BY <2>2, <2>4, <2>5 DEF CountInv
  <1>3. ASSUME NEW list \in Lists, NEW outcome \in Outcomes(list), Write(list, outcome),
               Persisted(outcome)
        PROVE  CountInv'
    <2> DEFINE taken == {i \in DOMAIN targets : Canceled(targets[i], list)}
    <2>1. /\ DOMAIN targets' = DOMAIN targets
          /\ \A i \in DOMAIN targets :
                targets'[i].pending = (targets[i].pending /\ ~Canceled(targets[i], list))
          /\ pendingCount' = pendingCount - Cardinality(taken)
      BY <1>3, WriteTargets
    <2>2. taken \subseteq PendingTargets(targets)
      BY DEF PendingTargets, Canceled
    <2>3. PendingTargets(targets') = PendingTargets(targets) \ taken
      BY <2>1 DEF PendingTargets
    <2> HIDE DEF taken
    <2>4. Cardinality(PendingTargets(targets')) =
             Cardinality(PendingTargets(targets)) - Cardinality(taken)
      BY <2>1, <2>2, <2>3, CountTaken DEF TargetInv
    <2> QED
      BY <2>1, <2>4 DEF CountInv
  <1>4. ASSUME NEW stored, NEW failed, Restart(stored, failed)
        PROVE  CountInv'
    <2>1. targets' = <<>> /\ pendingCount' = 0
      BY <1>4 DEF Restart
    <2>2. PendingTargets(targets') = {}
      BY <2>1 DEF PendingTargets
    <2> QED
      BY <2>1, <2>2, FS_EmptySet DEF CountInv
  <1>5. CASE PollClock \/ ClockChanges \/ ReadyChanges \/ UNCHANGED vars
    BY <1>1, <1>5, Zenon DEF PollClock, ClockChanges, ReadyChanges, vars, targetVars
  <1>6. ASSUME NEW due \in BOOLEAN, NEW expired \in BOOLEAN, NEW busy \in BOOLEAN,
               Tick(due, expired, busy), timestamp' = None
        PROVE  CountInv'
    BY <1>1, <1>6 DEF Tick, targetVars
  <1>7. ASSUME NEW list \in Lists, NEW outcome \in Outcomes(list), Write(list, outcome),
               ~Persisted(outcome)
        PROVE  CountInv'
    BY <1>1, <1>7 DEF Write
  <1> QED
    BY <1>2, <1>3, <1>4, <1>5, <1>6, <1>7, RestartStepCases, Zenon

\* A recipient is pending until it is done with, and the count is that of the
\* pending ones.
THEOREM NoneForgottenCorrect == Spec => []NoneForgotten
  <1>1. TargetInv /\ CountInv => NoneForgotten
    BY DEF TargetInv, TargetOK, CountInv, PendingTargets, NoneForgotten
  <1> QED
    BY <1>1, TargetInvariant, CountInit, CountStep, PTL DEF Spec

\* A recipient that was removed is not tried again.
THEOREM RemovedNotNotifiedCorrect == Spec => RemovedNotNotified
  <1> DEFINE Tried == bootReady /\ bootReady' =>
          \A i \in DOMAIN targets : targets'[i].attempts > targets[i].attempts =>
              ~targets[i].canceled /\ targets[i].recipient \in ToSet(live)
  <1>1. TargetInv /\ [Next]_vars => [Tried]_vars
    <2> SUFFICES ASSUME TargetInv, [Next]_vars, bootReady, bootReady',
                        NEW i \in DOMAIN targets, targets'[i].attempts > targets[i].attempts
                 PROVE  ~targets[i].canceled /\ targets[i].recipient \in ToSet(live)
      OBVIOUS
    <2>1. targets[i].attempts \in Nat
      BY RecipientsAssumption DEF TargetInv, TargetOK, Target
    <2>2. targets' # targets
      BY <2>1
    <2>3. targets[i].pending
      <3>1. ASSUME NEW due \in BOOLEAN, NEW expired \in BOOLEAN, NEW busy \in BOOLEAN,
                   Tick(due, expired, busy)
            PROVE  targets[i].pending
        <4>1. TargetsOfBoot = targets
          BY DEF TargetsOfBoot
        <4>2. timestamp' # None
          BY <2>2, <3>1 DEF Tick, targetVars
        <4>3. targets'[i] = targets[i] \/ targets[i].pending
          BY <3>1, <4>1, <4>2, TickTargets
        <4> QED
          BY <2>1, <4>3
      <3>2. ASSUME NEW list \in Lists, NEW outcome \in Outcomes(list), Write(list, outcome)
            PROVE  FALSE
        <4>1. Persisted(outcome)
          BY <2>2, <3>2 DEF Write
        <4>2. targets'[i].attempts = targets[i].attempts
          BY <3>2, <4>1, WriteTargets
        <4> QED
          BY <2>1, <4>2
      <3>3. CASE PollClock \/ ClockChanges \/ ReadyChanges \/ UNCHANGED vars
        BY <2>2, <3>3, Zenon DEF PollClock, ClockChanges, ReadyChanges, vars, targetVars
      <3>4. ASSUME NEW stored, NEW failed, Restart(stored, failed)
            PROVE  FALSE
        BY <3>4 DEF Restart
      <3> QED
        BY <3>1, <3>2, <3>3, <3>4, RestartStepCases, Zenon
    <2> QED
      BY <2>3 DEF TargetInv, TargetOK, Done
  <1> QED
    BY <1>1, TargetInvariant, PTL DEF Spec, RemovedNotNotified

\* A recipient that is done with stays so until the next boot.
THEOREM OncePerBootCorrect == Spec => OncePerBoot
  <1> DEFINE Once == bootReady /\ bootReady' =>
          /\ DOMAIN targets' = DOMAIN targets
          /\ \A i \in DOMAIN targets : ~targets[i].pending => targets'[i] = targets[i]
  <1>1. TargetInv /\ [Next]_vars => [Once]_vars
    <2> SUFFICES ASSUME TargetInv, [Next]_vars, bootReady, bootReady' PROVE Once
      OBVIOUS
    <2>1. ASSUME NEW due \in BOOLEAN, NEW expired \in BOOLEAN, NEW busy \in BOOLEAN,
                 Tick(due, expired, busy)
          PROVE  Once
      <3>1. TargetsOfBoot = targets
        BY DEF TargetsOfBoot
      <3>2. CASE timestamp' = None
        BY <2>1, <3>2 DEF Tick, targetVars
      <3>3. CASE timestamp' # None
        BY <2>1, <3>1, <3>3, TickTargets
      <3> QED
        BY <3>2, <3>3
    <2>2. ASSUME NEW list \in Lists, NEW outcome \in Outcomes(list), Write(list, outcome)
          PROVE  Once
      <3>1. CASE Persisted(outcome)
        BY <2>2, <3>1, WriteTargets
      <3>2. CASE ~Persisted(outcome)
        BY <2>2, <3>2 DEF Write
      <3> QED
        BY <3>1, <3>2
    <2>3. CASE PollClock \/ ClockChanges \/ ReadyChanges \/ UNCHANGED vars
      BY <2>3 DEF PollClock, ClockChanges, ReadyChanges, vars, targetVars
    <2>4. ASSUME NEW stored, NEW failed, Restart(stored, failed)
          PROVE  FALSE
      BY <2>4 DEF Restart
    <2> QED
      BY <2>1, <2>2, <2>3, <2>4, RestartStepCases, Zenon
  <1> QED
    BY <1>1, TargetInvariant, PTL DEF Spec, OncePerBoot

-----------------------------------------------------------------------------
(* Type correctness                                                        *)

FlagInv ==
    /\ bootReady \in BOOLEAN /\ ready \in BOOLEAN
    /\ waiting \in BOOLEAN /\ selected \in BOOLEAN
    /\ inDoubt \in BOOLEAN /\ misread \in BOOLEAN

LEMMA FlagStep == FlagInv /\ [Next]_vars => FlagInv'
  <1> SUFFICES ASSUME FlagInv, [Next]_vars PROVE FlagInv'
    OBVIOUS
  <1> USE DEF FlagInv, listVars, targetVars, clockVars
  <1>1. ASSUME NEW due \in BOOLEAN, NEW expired \in BOOLEAN, NEW busy \in BOOLEAN,
               Tick(due, expired, busy)
        PROVE  FlagInv'
    <2>1. bootReady' \in BOOLEAN
      BY <1>1, Zenon DEF Tick
    <2>2. selected' \in BOOLEAN /\ waiting' \in BOOLEAN
      BY <1>1, Zenon DEF Tick, SelectTimestamp
    <2> QED
      BY <1>1, <2>1, <2>2, Zenon DEF Tick
  <1>2. ASSUME NEW list \in Lists, NEW outcome \in Outcomes(list), Write(list, outcome)
        PROVE  FlagInv'
    <2>1. inDoubt' \in BOOLEAN
      BY <1>2 DEF Write
    <2> QED
      BY <1>2, <2>1, Zenon DEF Write
  <1>3. CASE PollClock \/ ClockChanges \/ UNCHANGED vars
    BY <1>3, Zenon DEF PollClock, ClockChanges, vars
  <1>4. CASE ReadyChanges
    BY <1>4 DEF ReadyChanges
  <1>5. ASSUME NEW stored, NEW failed \in BOOLEAN, Restart(stored, failed)
        PROVE  FlagInv'
    BY <1>5, Zenon DEF Restart
  <1> QED
    BY <1>1, <1>2, <1>3, <1>4, <1>5, RestartStepCases, Zenon

TimeInv == timestamp \in Times \cup {Fallback, None} /\ deviceTime \in Times \cup {Fallback}

LEMMA TimeStep == ChoiceInv /\ TimeInv /\ [Next]_vars => TimeInv'
  <1> SUFFICES ASSUME ChoiceInv, TimeInv, [Next]_vars PROVE TimeInv'
    OBVIOUS
  <1>1. ASSUME NEW due \in BOOLEAN, NEW expired \in BOOLEAN, NEW busy \in BOOLEAN,
               Tick(due, expired, busy)
        PROVE  TimeInv'
    BY <1>1, TickChoice, TimesAssumption DEF Tick, SelectTimestamp, ChoiceInv, TimeInv
  <1>2. ASSUME NEW list \in Lists, NEW outcome \in Outcomes(list), Write(list, outcome)
        PROVE  TimeInv'
    BY <1>2 DEF Write, TimeInv, clockVars
  <1>3. CASE PollClock \/ ClockChanges \/ ReadyChanges \/ UNCHANGED vars
    BY <1>3 DEF PollClock, ClockChanges, ReadyChanges, vars, TimeInv, clockVars
  <1>4. ASSUME NEW stored, NEW failed, Restart(stored, failed)
        PROVE  TimeInv'
    BY <1>4 DEF Restart, TimeInv
  <1> QED
    BY <1>1, <1>2, <1>3, <1>4, RestartStepCases, Zenon

\* Every variable keeps its type; no recipient is tried more often than allowed.
THEOREM TypeCorrect == Spec => []TypeOK
  <1>1. Init => FlagInv /\ TimeInv
    BY Zenon DEF Init, FlagInv, TimeInv
  <1>2. TargetInv /\ CountInv => pendingCount \in 0 .. MaxRecipients
    <2> SUFFICES ASSUME TargetInv, CountInv PROVE pendingCount \in 0 .. MaxRecipients
      OBVIOUS
    <2>1. targets \in SeqOf(Target, MaxRecipients) /\ Len(targets) \in 0 .. MaxRecipients
      BY ListDomain, RecipientsAssumption DEF TargetInv
    <2>2. PendingTargets(targets) = PendingTargets(targets) \ {}
      OBVIOUS
    <2>3. Cardinality(DOMAIN targets) = Len(targets) /\ IsFiniteSet(PendingTargets(targets))
      BY <2>1, <2>2, CountTaken
    <2>4. IsFiniteSet(DOMAIN targets)
      <3>1. PICK n \in Nat : DOMAIN targets = 1 .. n
        BY <2>1, ListDomain, RecipientsAssumption
      <3> QED
        BY <3>1, FS_Interval
    <2>5. /\ Cardinality(PendingTargets(targets)) <= Cardinality(DOMAIN targets)
          /\ Cardinality(PendingTargets(targets)) \in Nat
      BY <2>3, <2>4, FS_Subset, FS_CardinalityType DEF PendingTargets
    <2> QED
      BY <2>1, <2>3, <2>5, RecipientsAssumption DEF CountInv
  <1>3. TargetInv /\ StoredInv /\ CountInv /\ ChoiceInv /\ FlagInv /\ TimeInv => TypeOK
    <2> SUFFICES ASSUME TargetInv, StoredInv, pendingCount \in 0 .. MaxRecipients, ChoiceInv,
                        FlagInv, TimeInv
                 PROVE  TypeOK
      BY <1>2
    <2> QED
      BY Zenon DEF TargetInv, StoredInv, ChoiceInv, FlagInv, TimeInv, TypeOK
  <1> QED
    BY <1>1, <1>3, TargetInvariant, CountInit, CountStep, ChoiceInit, ChoiceStep, FlagStep, TimeStep,
       PTL DEF Spec
=============================================================================
