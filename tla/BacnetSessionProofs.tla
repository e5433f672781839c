-------------------------- MODULE BacnetSessionProofs --------------------------
(***************************************************************************)
(* Proofs about BacnetSession, for any addresses and any bounds.           *)
(***************************************************************************)
EXTENDS BacnetSession, TLAPS

\* The task is in a session that it has configured.
InSession == {"checkIp", "checkRevision", "body", "leave"}

\* The address that a session runs on is the one it read, and the network has it
\* as long as the revision is the one it read: the revision moves with the
\* address, and the exception, a change between the two reads, is remembered.
SessionInv ==
    /\ seen <= revision
    /\ pc = "readRevision" /\ ~torn => hasIp /\ info = ip
    /\ pc \in {"configure", "bind"} \cup InSession /\ ~torn /\ seen = revision
          => hasIp /\ info = ip
    /\ pc \in {"bind"} \cup InSession => portIp = info

\* A campaign runs only with the service, and one that is pending has attempts left.
CampaignInv ==
    /\ ann.ready => running
    /\ ann.pending => ann.attempts < AttemptsMax

Inv == TypeOK /\ SessionInv /\ CampaignInv

\* A step of Next, one action at a time.
LEMMA StepCases ==
    ASSUME [Next]_vars
    PROVE  \/ LinkUp \/ LinkDown \/ LostIp
           \/ \E address \in Addresses : GotIp(address)
           \/ FinishEvent
           \/ WaitForIp \/ ReadInfo \/ ReadRevision \/ Configure \/ Bind \/ BindFailed
           \/ CheckIp \/ CheckRevision \/ Leave
           \/ \E next \in {"choosing", "ready", "stopped"}, due, accepted \in BOOLEAN :
                 Body(next, due, accepted)
           \/ StartupComplete
           \/ UNCHANGED vars
  BY DEF Next, Event, TaskStep, Iterate

\* The tick of a campaign: what bacnet_announcement_tick does to s_announcement.
Announcement == [ready : BOOLEAN, pending : BOOLEAN, exhausted : BOOLEAN, due : BOOLEAN,
                 attempts : 0 .. AttemptsMax]

LEMMA TickFacts ==
    ASSUME NEW a \in Announcement, a.pending => a.attempts < AttemptsMax,
           NEW ready \in BOOLEAN, NEW due \in BOOLEAN, NEW accepted \in BOOLEAN
    PROVE  LET b == AnnounceTick(a, ready, due, accepted)
           IN /\ b \in Announcement
              /\ b.pending => b.attempts < AttemptsMax
              /\ b.ready <=> ready
              /\ ready /\ ~a.ready => b.attempts = 1
              /\ ready /\ a.ready /\ ~a.pending => b = a
  <1> DEFINE first == [ready |-> TRUE, pending |-> TRUE, exhausted |-> FALSE, due |-> TRUE,
                       attempts |-> 0]
             episode == IF a.ready THEN a ELSE first
             b == AnnounceTick(a, ready, due, accepted)
  <1> SUFFICES /\ b \in Announcement
               /\ b.pending => b.attempts < AttemptsMax
               /\ b.ready <=> ready
               /\ ready /\ ~a.ready => b.attempts = 1
               /\ ready /\ a.ready /\ ~a.pending => b = a
    OBVIOUS
  <1>1. /\ episode \in Announcement /\ episode.ready
        /\ episode.pending => episode.attempts < AttemptsMax
        /\ ~a.ready => episode = first
    BY BoundsAssumption DEF Announcement
  <1>2. CASE ~ready
    <2>1. b = [a EXCEPT !.ready = FALSE, !.pending = FALSE]
      BY <1>2 DEF AnnounceTick
    <2> HIDE DEF b
    <2> QED
      BY <1>2, <2>1 DEF Announcement
  <1>3. CASE ready /\ ~AttemptDue(episode, due)
    <2>1. b = episode
      BY <1>3 DEF AnnounceTick
    <2>2. a.ready
      BY <1>1, <1>3 DEF AttemptDue
    <2> HIDE DEF b, episode
    <2> QED
      BY <1>1, <1>3, <2>1, <2>2 DEF episode
  <1>4. CASE ready /\ AttemptDue(episode, due)
    <2>1. b = Attempted(episode.attempts + 1, accepted)
      BY <1>4 DEF AnnounceTick
    <2>2. episode.pending /\ episode.attempts + 1 \in 0 .. AttemptsMax
      BY <1>1, <1>4, BoundsAssumption DEF AttemptDue, Announcement
    <2>3. ~a.ready => episode.attempts + 1 = 1
      BY <1>1
    <2>4. ~(a.ready /\ ~a.pending)
      BY <2>2
    <2> DEFINE n == episode.attempts + 1
    <2>5. ASSUME NEW m \in 0 .. AttemptsMax, b = Attempted(m, accepted)
          PROVE  b \in Announcement /\ b.ready /\ b.attempts = m
                 /\ (b.pending => b.attempts < AttemptsMax)
      <3> HIDE DEF b
      <3> QED
        BY <2>5 DEF Attempted, Announcement
    <2> HIDE DEF b, episode, n
    <2> QED
      BY <1>4, <2>1, <2>2, <2>3, <2>4, <2>5
  <1> QED
    BY <1>2, <1>3, <1>4

\* The Boolean variables stay Boolean.
Flags ==
    /\ linkUp \in BOOLEAN /\ hasIp \in BOOLEAN /\ ipBit \in BOOLEAN
    /\ running \in BOOLEAN /\ startupComplete \in BOOLEAN /\ pending \in BOOLEAN
    /\ torn \in BOOLEAN

LEMMA FlagsKept ==
    ASSUME Flags, [Next]_vars
    PROVE  Flags'
  <1> USE DEF Flags, etherVars, sessionVars, serviceVars
  <1>1. CASE LinkUp \/ LinkDown \/ LostIp \/ \E address \in Addresses : GotIp(address)
    BY <1>1, Zenon DEF LinkUp, LinkDown, LostIp, GotIp, Publish
  <1>2. CASE FinishEvent \/ StartupComplete \/ UNCHANGED vars
    BY <1>2, Zenon DEF FinishEvent, StartupComplete, vars
  <1>3. CASE WaitForIp \/ ReadInfo \/ ReadRevision \/ Configure \/ Bind \/ BindFailed
    BY <1>3, Zenon DEF WaitForIp, ReadInfo, ReadRevision, Configure, Bind, BindFailed
  <1>4. CASE CheckIp \/ CheckRevision \/ Leave
    BY <1>4, Zenon DEF CheckIp, CheckRevision, Leave
  <1>5. CASE \E next \in {"choosing", "ready", "stopped"}, due, accepted \in BOOLEAN :
                Body(next, due, accepted)
    BY <1>5, Zenon DEF Body
  <1> QED
    BY <1>1, <1>2, <1>3, <1>4, <1>5, StepCases

\* The other variables, and the relations between variables.
DataInv ==
    /\ ip \in Addresses \cup {NoAddress}
    /\ revision \in 0 .. MaxEvents
    /\ handler \in {"idle", "setBit", "clearBit"}
    /\ pc \in TaskLabels
    /\ info \in Addresses \cup {NoAddress} /\ portIp \in Addresses \cup {NoAddress}
    /\ seen \in 0 .. MaxEvents
    /\ instance \in {"choosing", "ready", "stopped"}
    /\ bindFailures \in 0 .. MaxBindFailures
    /\ SessionInv

\* The relations survive every step: the revision moves with the address, and a
\* session learns of it before its next iteration.
LEMMA DataKept ==
    ASSUME Inv, [Next]_vars
    PROVE  DataInv'
  <1> USE DEF Inv, TypeOK, DataInv, SessionInv, InSession, TaskLabels,
              etherVars, sessionVars, serviceVars
  <1>1. CASE LinkUp \/ FinishEvent \/ StartupComplete \/ UNCHANGED vars
    BY <1>1 DEF LinkUp, FinishEvent, StartupComplete, vars
  <1>2. CASE LinkDown \/ LostIp \/ \E address \in Addresses : GotIp(address)
    BY <1>2, BoundsAssumption DEF LinkDown, LostIp, GotIp, Publish, EventArrives
  <1>3. CASE WaitForIp \/ ReadInfo \/ ReadRevision \/ Configure
    BY <1>3 DEF WaitForIp, ReadInfo, ReadRevision, Configure
  <1>4. CASE Bind \/ BindFailed
    BY <1>4, BoundsAssumption DEF Bind, BindFailed
  <1>5. CASE CheckIp \/ CheckRevision \/ Leave
    BY <1>5 DEF CheckIp, CheckRevision, Leave
  <1>6. ASSUME NEW next \in {"choosing", "ready", "stopped"}, NEW due \in BOOLEAN,
               NEW accepted \in BOOLEAN, Body(next, due, accepted)
        PROVE  DataInv'
    BY <1>6 DEF Body
  <1> QED
    BY <1>1, <1>2, <1>3, <1>4, <1>5, <1>6, StepCases

\* The campaign survives every step: it runs within the service, and ends with it.
LEMMA CampaignKept ==
    ASSUME Inv, [Next]_vars
    PROVE  ann' \in Announcement /\ CampaignInv'
  <1>1. /\ ann \in Announcement /\ running \in BOOLEAN /\ startupComplete \in BOOLEAN
        /\ ann.ready => running
        /\ ann.pending => ann.attempts < AttemptsMax
    BY DEF Inv, TypeOK, CampaignInv, Announcement
  <1>2. CASE ann' = ann /\ running' = running
    BY <1>1, <1>2 DEF CampaignInv
  <1>3. CASE Leave
    <2>1. ann' = AnnounceTick(ann, FALSE, FALSE, FALSE)
      BY <1>3 DEF Leave
    <2> QED
      BY <1>1, <2>1, TickFacts DEF CampaignInv
  <1>4. ASSUME NEW next \in {"choosing", "ready", "stopped"}, NEW due \in BOOLEAN,
               NEW accepted \in BOOLEAN, Body(next, due, accepted)
        PROVE  ann' \in Announcement /\ CampaignInv'
    <2> DEFINE ready == startupComplete /\ running' /\ next = "ready"
    <2>1. ready \in BOOLEAN /\ (ready => running')
      OBVIOUS
    <2>2. ann' = AnnounceTick(ann, ready, due, accepted)
      BY <1>4 DEF Body
    <2> HIDE DEF ready
    <2> QED
      BY <1>1, <2>1, <2>2, TickFacts DEF CampaignInv
  <1>5. \/ ann' = ann /\ running' = running
        \/ Leave
        \/ \E next \in {"choosing", "ready", "stopped"}, due, accepted \in BOOLEAN :
              Body(next, due, accepted)
    BY StepCases
       DEF LinkUp, LinkDown, LostIp, GotIp, Publish, FinishEvent, WaitForIp, ReadInfo,
           ReadRevision, Configure, Bind, BindFailed, CheckIp, CheckRevision, StartupComplete,
           vars, serviceVars
  <1> QED
    BY <1>2, <1>3, <1>4, <1>5

\* The controller starts without a network.
LEMMA InitInv == Init => Inv
  <1> SUFFICES ASSUME Init PROVE Inv
    OBVIOUS
  <1>1. Flags
    BY Zenon DEF Init, Flags
  <1>2. DataInv
    BY BoundsAssumption DEF Init, DataInv, SessionInv, TaskLabels, InSession
  <1>3. ann \in Announcement /\ CampaignInv
    BY BoundsAssumption DEF Init, CampaignInv, IdleAnnouncement, Announcement
  <1> QED
    BY <1>1, <1>2, <1>3, Zenon DEF Inv, TypeOK, Flags, DataInv, Announcement

\* Every step keeps types and relations.
LEMMA NextInv == Inv /\ [Next]_vars => Inv'
  <1> SUFFICES ASSUME Inv, [Next]_vars PROVE Inv'
    OBVIOUS
  <1>1. Flags'
    BY FlagsKept, Zenon DEF Inv, TypeOK, Flags
  <1> QED
    BY <1>1, DataKept, CampaignKept, Zenon DEF Inv, TypeOK, Flags, DataInv, Announcement

\* In every reachable state.
LEMMA Invariant == Spec => []Inv
  BY InitInv, NextInv, PTL DEF Spec

\* Every variable has its type, and no campaign makes more than AttemptsMax attempts.
THEOREM TypeCorrect == Spec => []TypeOK
  <1>1. Inv => TypeOK
    BY DEF Inv
  <1> QED
    BY <1>1, Invariant, PTL

\* A session goes on only on the address it was opened with.
THEOREM ServesActiveAddressCorrect == Spec => ServesActiveAddress
  <1>1. ASSUME Inv, [Next]_vars
        PROVE  pc = "checkRevision" /\ pc' = "body" /\ ~torn => hasIp /\ portIp = ip
    <2> SUFFICES ASSUME pc = "checkRevision", pc' = "body", ~torn PROVE hasIp /\ portIp = ip
      OBVIOUS
    <2>1. revision = seen
      BY <1>1, StepCases
         DEF LinkUp, LinkDown, LostIp, GotIp, Publish, FinishEvent, WaitForIp, ReadInfo,
             ReadRevision, Configure, Bind, BindFailed, CheckIp, CheckRevision, SessionUnchanged,
             Leave, Body, StartupComplete, vars
    <2> QED
      BY <1>1, <2>1 DEF Inv, SessionInv, InSession
  <1> QED
    BY <1>1, Invariant, PTL DEF Spec, ServesActiveAddress

\* A service that comes up begins a campaign and makes its first attempt.
THEOREM ServiceIsAnnouncedCorrect == Spec => ServiceIsAnnounced
  <1>1. ASSUME Inv, [Next]_vars
        PROVE  ~running /\ running' => ann'.ready /\ ann'.attempts = 1
    <2> SUFFICES ASSUME ~running, running' PROVE ann'.ready /\ ann'.attempts = 1
      OBVIOUS
    <2>1. PICK next \in {"choosing", "ready", "stopped"}, due \in BOOLEAN, accepted \in BOOLEAN :
             Body(next, due, accepted)
      BY <1>1, StepCases
         DEF LinkUp, LinkDown, LostIp, GotIp, Publish, FinishEvent, WaitForIp, ReadInfo,
             ReadRevision, Configure, Bind, BindFailed, CheckIp, CheckRevision,
             Leave, StartupComplete, vars, serviceVars
    <2>2. ann' = AnnounceTick(ann, TRUE, due, accepted)
      BY <2>1 DEF Body
    <2>3. ~ann.ready /\ ann \in Announcement /\ (ann.pending => ann.attempts < AttemptsMax)
      BY <1>1 DEF Inv, CampaignInv, TypeOK, Announcement
    <2> QED
      BY <2>2, <2>3, TickFacts
  <1> QED
    BY <1>1, Invariant, PTL DEF Spec, ServiceIsAnnounced
=============================================================================
