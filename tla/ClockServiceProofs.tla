--------------------------- MODULE ClockServiceProofs ---------------------------
(***************************************************************************)
(* Proofs about TimeConfig and ClockService, for any configurations and    *)
(* any bounds.                                                             *)
(***************************************************************************)
EXTENDS ClockService, TLAPS

-----------------------------------------------------------------------------
(* The settings                                                            *)

ConfigData ==
    /\ stored \in Configs \cup {NoConfig, Damaged}
    /\ live \in Configs
    /\ saved \in Configs \cup {NoConfig} /\ promised \in Configs \cup {NoConfig}
    /\ updates \in 0 .. MaxUpdates /\ failures \in 0 .. MaxFailures

ConfigFlags == persisted \in BOOLEAN /\ torn \in BOOLEAN

ConfigInv == ConfigData /\ ConfigFlags /\ StoredIsLive

LEMMA ConfigInitInv == ConfigInit => ConfigInv
  <1> SUFFICES ASSUME ConfigInit PROVE ConfigInv
    OBVIOUS
  <1>1. ConfigData
    BY ConfigsAssumption DEF ConfigInit, ConfigData, Loaded
  <1>2. persisted \in BOOLEAN
    BY SMT DEF ConfigInit
  <1>3. torn \in BOOLEAN /\ StoredIsLive
    BY Zenon DEF ConfigInit, StoredIsLive, Loaded
  <1> QED
    BY <1>1, <1>2, <1>3 DEF ConfigInv, ConfigFlags

\* A value is live only once flash has it, but for writes that lied.
LEMMA ConfigNextInv == ConfigInv /\ [ConfigNext]_configVars => ConfigInv'
  <1> SUFFICES ASSUME ConfigInv, [ConfigNext]_configVars PROVE ConfigInv'
    OBVIOUS
  <1>1. ASSUME NEW c \in Configs, NEW ok \in BOOLEAN, Update(c, ok)
        PROVE  ConfigInv'
    <2>1. ConfigData'
      BY <1>1, ConfigsAssumption
         DEF Update, Unneeded, LiveAfter, ConfigInv, ConfigData
    <2>2. ConfigFlags'
      <3>1. CASE Unneeded(c)
        BY <1>1, <3>1, Zenon DEF Update, ConfigInv, ConfigFlags
      <3>2. CASE ~Unneeded(c) /\ ok
        BY <1>1, <3>2, Zenon DEF Update, ConfigInv, ConfigFlags
      <3>3. CASE ~Unneeded(c) /\ ~ok
        BY <1>1, <3>3, Zenon DEF Update, ConfigInv, ConfigFlags
      <3> QED
        BY <3>1, <3>2, <3>3
    <2>3. StoredIsLive'
      <3>1. CASE Unneeded(c)
        BY <1>1, <3>1, Zenon DEF Update, ConfigInv, StoredIsLive
      <3>2. CASE ~Unneeded(c) /\ ok
        BY <1>1, <3>2, Zenon DEF Update, LiveAfter, StoredIsLive
      <3>3. CASE ~Unneeded(c) /\ ~ok
        <4>1. live' = live /\ persisted' = persisted /\ (torn' <=> torn \/ stored' # stored)
          BY <1>1, <3>3, Zenon DEF Update, LiveAfter
        <4> QED
          BY <4>1, Zenon DEF ConfigInv, StoredIsLive
      <3> QED
        BY <3>1, <3>2, <3>3
    <2> QED
      BY <2>1, <2>2, <2>3 DEF ConfigInv
  <1>2. CASE Answer \/ UNCHANGED configVars
    <2>1. ConfigData'
      BY <1>2 DEF Answer, configVars, ConfigInv, ConfigData
    <2>2. persisted' = persisted /\ torn' = torn /\ stored' = stored /\ live' = live
      BY <1>2 DEF Answer, configVars
    <2>3. ConfigFlags' /\ StoredIsLive'
      BY <2>2, Zenon DEF ConfigInv, ConfigFlags, StoredIsLive
    <2> QED
      BY <2>1, <2>3 DEF ConfigInv
  <1>3. CASE Load
    <2>1. ConfigData'
      BY <1>3, ConfigsAssumption DEF Load, Loaded, ConfigInv, ConfigData
    <2>2. persisted' \in BOOLEAN
      BY <1>3, SMT DEF Load
    <2>3. torn' \in BOOLEAN /\ StoredIsLive'
      BY <1>3, Zenon DEF Load, Loaded, StoredIsLive
    <2> QED
      BY <2>1, <2>2, <2>3 DEF ConfigInv, ConfigFlags
  <1> QED
    BY <1>1, <1>2, <1>3 DEF ConfigNext

\* Flash has what is live, except after a write that failed and had an effect.
THEOREM StoredIsLiveCorrect == ConfigSpec => []StoredIsLive
  <1>1. ConfigInv => StoredIsLive
    BY DEF ConfigInv
  <1> QED
    BY <1>1, ConfigInitInv, ConfigNextInv, PTL DEF ConfigSpec

-----------------------------------------------------------------------------
(* The clock                                                               *)

LEMMA ClockStepCases ==
    ASSUME [ClockNext]_allVars
    PROVE  \/ \E c \in Configs, ok \in BOOLEAN : Put(c, ok)
           \/ ConfigChanged \/ NetworkChanges
           \/ ReadRequested \/ ReadRevision \/ Configure \/ Lookup \/ Recheck \/ Start
           \/ RetryDue \/ SetTime \/ AcceptTime \/ TimePasses
           \/ \E software \in BOOLEAN : Restart(software)
           \/ UNCHANGED allVars
  BY DEF ClockNext, OwnerStep

LEMMA ConfigSteps == [ClockNext]_allVars => [ConfigNext]_configVars
  <1> SUFFICES ASSUME [ClockNext]_allVars PROVE [ConfigNext]_configVars
    OBVIOUS
  <1>1. CASE \E c \in Configs, ok \in BOOLEAN : Put(c, ok)
    BY <1>1, Zenon DEF Put, ConfigNext
  <1>2. CASE ConfigChanged \/ \E software \in BOOLEAN : Restart(software)
    BY <1>2, Zenon DEF ConfigChanged, Restart, ConfigNext
  <1>3. CASE \/ NetworkChanges \/ ReadRequested \/ ReadRevision \/ Configure \/ Lookup
             \/ Recheck \/ Start \/ RetryDue \/ SetTime \/ AcceptTime \/ TimePasses
             \/ UNCHANGED allVars
    BY <1>3, Zenon
       DEF NetworkChanges, ReadRequested, ReadRevision, Configure, Lookup, Recheck, Start,
           RetryDue, SetTime, AcceptTime, TimePasses, ReadOnly, allVars
  <1> QED
    BY <1>1, <1>2, <1>3, ClockStepCases

\* The clock uses the settings as TimeConfig specifies.
THEOREM ClockImplementsConfig == ClockSpec => ConfigSpec
  <1>1. ClockInit => ConfigInit
    BY DEF ClockInit
  <1> QED
    BY <1>1, ConfigSteps, PTL DEF ClockSpec, ConfigSpec

\* What a restart may take over was synchronised no longer ago than its marker
\* says, and nothing passes between the two halves of a synchronisation.
AgeInv ==
    /\ retained \in [marked : BOOLEAN, age : Ages] /\ unsynced \in Ages
    /\ retained.marked => unsynced <= retained.age
    /\ syncing => unsynced = 0

LEMMA AgesNat == 0 \in Ages /\ MaxHoldover + 1 \in Ages /\ \A age \in Ages : age \in Nat
  BY ClockAssumption DEF Ages

LEMMA AgeInit == ClockInit => AgeInv
  <1> SUFFICES ASSUME ClockInit PROVE AgeInv
    OBVIOUS
  <1>1. /\ retained = [marked |-> FALSE, age |-> 0]
        /\ syncing = FALSE
        /\ unsynced = MaxHoldover + 1
    BY DEF ClockInit
  <1>2. retained \in [marked : BOOLEAN, age : Ages] /\ ~retained.marked
    BY <1>1, AgesNat
  <1>3. ~syncing
    BY <1>1
  <1> QED
    BY <1>1, <1>2, <1>3, AgesNat DEF AgeInv

\* Ages only grow, together, up to more than can be told apart.
LEMMA OlderFacts ==
    ASSUME NEW a \in Ages, NEW b \in Ages, a <= b
    PROVE  Older(a) \in Ages /\ Older(b) \in Ages /\ Older(a) <= Older(b)
  BY ClockAssumption DEF Ages, Older

LEMMA AgeNext == AgeInv /\ [ClockNext]_allVars => AgeInv'
  <1> SUFFICES ASSUME AgeInv, [ClockNext]_allVars PROVE AgeInv'
    OBVIOUS
  <1>1. CASE UNCHANGED <<retained, syncing, unsynced>>
    BY <1>1 DEF AgeInv
  <1>2. CASE SetTime
    <2>1. PICK age \in Ages : retained' = [retained EXCEPT !.age = age]
      BY <1>2 DEF SetTime
    <2>2. unsynced' = 0
      BY <1>2 DEF SetTime
    <2> QED
      BY <2>1, <2>2, AgesNat DEF AgeInv
  <1>3. CASE AcceptTime
    <2>1. retained' = [marked |-> TRUE, age |-> 0] /\ syncing /\ ~syncing' /\ unsynced' = unsynced
      BY <1>3 DEF AcceptTime
    <2> QED
      BY <2>1, AgesNat DEF AgeInv
  <1>4. CASE TimePasses
    <2>1. /\ retained' = [retained EXCEPT !.age = Older(@)] /\ unsynced' = Older(unsynced)
          /\ ~syncing /\ syncing' = syncing
      BY <1>4 DEF TimePasses
    <2> QED
      BY <2>1, OlderFacts, AgesNat DEF AgeInv
  <1>5. ASSUME NEW software \in BOOLEAN, Restart(software)
        PROVE  AgeInv'
    <2>1. retained' = retained \/ retained' = [retained EXCEPT !.marked = FALSE]
      BY <1>5 DEF Restart, MarkerKept
    <2>2. ~syncing' /\ unsynced' = unsynced
      BY <1>5 DEF Restart
    <2> QED
      BY <2>1, <2>2 DEF AgeInv
  <1>6. \/ UNCHANGED <<retained, syncing, unsynced>> \/ SetTime \/ AcceptTime \/ TimePasses
        \/ \E software \in BOOLEAN : Restart(software)
    BY ClockStepCases
       DEF Put, ConfigChanged, NetworkChanges, ReadRequested, ReadRevision, Configure, Lookup,
           Recheck, Start, RetryDue, ReadOnly, allVars, clockVars
  <1> QED
    BY <1>1, <1>2, <1>3, <1>4, <1>5, <1>6

\* No sequence of restarts makes a clock pass for valid that was synchronised
\* longer than MaxHoldover ago.
THEOREM HoldoverBoundedCorrect == ClockSpec => HoldoverBounded
  <1>1. ASSUME AgeInv, [ClockNext]_allVars, restarts' # restarts, model'.valid
        PROVE  unsynced <= MaxHoldover
    <2>1. PICK software \in BOOLEAN : Restart(software)
      BY <1>1, ClockStepCases
         DEF Put, ConfigChanged, NetworkChanges, ReadRequested, ReadRevision, Configure, Lookup,
             Recheck, Start, RetryDue, SetTime, AcceptTime, TimePasses, ReadOnly, allVars,
             clockVars
    <2>2. HoldoverValid
      BY <1>1, <2>1 DEF Restart
    <2> QED
      BY <1>1, <2>2, AgesNat, ClockAssumption DEF HoldoverValid, AgeInv
  <1>2. AgeInv /\ [ClockNext]_allVars
           => [restarts' # restarts /\ model'.valid => unsynced <= MaxHoldover]_allVars
    BY <1>1
  <1> QED
    BY <1>2, AgeInit, AgeNext, PTL DEF ClockSpec, HoldoverBounded

-----------------------------------------------------------------------------
(* The task that owns the client                                           *)

Owners ==
    [at : Places, requested : Nat, hasIp : BOOLEAN, revision : Nat, resolved : BOOLEAN,
     lastHasIp : BOOLEAN, lastRevision : Nat, configured : Nat, initialized : BOOLEAN]

\* A lookup belongs to the configuration and the network its task has noted, and
\* what changes meanwhile counts up: the task notices before it starts the client.
OwnerInv ==
    /\ owner \in Owners
    /\ network \in [hasIp : BOOLEAN, revision : Nat]
    /\ requested \in Nat /\ outdated \in BOOLEAN
    /\ owner.configured <= owner.requested /\ owner.requested <= requested
    /\ owner.revision <= network.revision
    /\ (At("lookup") \/ At("recheck")) /\ outdated =>
          requested # owner.configured \/ network.revision # owner.revision
    /\ At("start") => ~outdated

LEMMA NewOwnerType == NewOwner \in Owners
  BY DEF NewOwner, Owners, Places

LEMMA OwnerInit == ClockInit => OwnerInv
  <1> SUFFICES ASSUME ClockInit PROVE OwnerInv
    OBVIOUS
  <1>1. /\ owner = NewOwner /\ network = [hasIp |-> FALSE, revision |-> 0]
        /\ requested = 1 /\ outdated = FALSE
    BY DEF ClockInit
  <1>2. network \in [hasIp : BOOLEAN, revision : Nat] /\ network.revision = 0
    BY <1>1
  <1>3. NewOwner.at = "read" /\ NewOwner.configured = 0 /\ NewOwner.requested = 0
        /\ NewOwner.revision = 0
    BY DEF NewOwner
  <1>4. ~outdated /\ outdated \in BOOLEAN
    BY <1>1
  <1> QED
    BY <1>1, <1>2, <1>3, <1>4, NewOwnerType DEF OwnerInv, At

LEMMA OwnerNext == OwnerInv /\ [ClockNext]_allVars => OwnerInv'
  <1> SUFFICES ASSUME OwnerInv, [ClockNext]_allVars PROVE OwnerInv'
    OBVIOUS
  <1> USE DEF OwnerInv, At
  <1>0. /\ network.hasIp \in BOOLEAN /\ network.revision \in Nat
        /\ owner.requested \in Nat /\ owner.hasIp \in BOOLEAN /\ owner.revision \in Nat
        /\ owner.configured \in Nat /\ owner.at \in Places /\ owner.initialized \in BOOLEAN
    BY DEF Owners
  <1>1. CASE UNCHANGED <<owner, network, requested, outdated>>
    BY <1>1
  <1>2. CASE ConfigChanged
    BY <1>0, <1>2 DEF ConfigChanged, NewGeneration
  <1>3. CASE NetworkChanges
    BY <1>0, <1>3 DEF NetworkChanges
  <1>4. CASE ReadRequested
    <2>1. /\ owner' \in Owners /\ owner'.at = "readRevision" /\ owner'.requested = requested
          /\ owner'.configured = owner.configured /\ owner'.revision = owner.revision
      BY <1>0, <1>4 DEF ReadRequested, Owners, Places
    <2> QED
      BY <1>0, <1>4, <2>1 DEF ReadRequested, ReadOnly
  <1>5. CASE ReadRevision
    <2>1. /\ owner' \in Owners /\ owner'.at = "configure"
          /\ owner'.requested = owner.requested
          /\ owner'.configured = owner.configured /\ owner'.revision = network.revision
      BY <1>0, <1>5 DEF ReadRevision, Owners, Places
    <2> QED
      BY <1>0, <1>5, <2>1 DEF ReadRevision, ReadOnly
  <1>6. CASE Configure
    <2>1. PICK ok \in BOOLEAN, looking \in BOOLEAN :
             owner' = [owner EXCEPT !.initialized = Initialized(ok),
                         !.configured = owner.requested,
                         !.lastHasIp = owner.hasIp, !.lastRevision = owner.revision,
                         !.at = IF looking THEN "lookup" ELSE "read"]
      BY <1>6 DEF Configure
    <2>2. Initialized(ok) \in BOOLEAN
      BY <1>0 DEF Initialized
    <2>3. /\ owner' \in Owners /\ owner'.at \in {"lookup", "read"}
          /\ owner'.requested = owner.requested
          /\ owner'.configured = owner.requested /\ owner'.revision = owner.revision
      BY <1>0, <2>1, <2>2 DEF Owners, Places
    <2>4. ~outdated' /\ outdated' \in BOOLEAN
      BY <1>6 DEF Configure
    <2>5. network' = network /\ requested' = requested
      BY <1>6 DEF Configure
    <2> QED
      BY <1>0, <2>3, <2>4, <2>5
  <1>7. CASE Lookup \/ Recheck
    <2>1. /\ owner' \in Owners
          /\ \/ owner.at = "lookup" /\ owner'.at = "recheck"
             \/ owner.at = "recheck" /\ owner'.at = "read"
             \/ owner.at = "recheck" /\ owner'.at = "start"
                /\ GenerationCurrent /\ NetworkCurrent
          /\ owner'.requested = owner.requested
          /\ owner'.configured = owner.configured /\ owner'.revision = owner.revision
      <3>1. CASE Lookup
        BY <1>0, <3>1 DEF Lookup, Owners, Places
      <3>2. CASE Recheck
        BY <1>0, <3>2 DEF Recheck, Owners, Places
      <3> QED
        BY <1>7, <3>1, <3>2
    <2>2. network' = network /\ requested' = requested /\ outdated' = outdated
      BY <1>7 DEF Lookup, Recheck, ReadOnly
    <2> QED
      BY <1>0, <2>1, <2>2 DEF GenerationCurrent, NetworkCurrent
  <1>8. CASE Start
    BY <1>0, <1>8 DEF Start, Owners, Places
  <1>10. ASSUME NEW software \in BOOLEAN, Restart(software)
         PROVE  OwnerInv'
    <2>1. /\ owner' = NewOwner /\ requested' = 1 /\ outdated' = FALSE
          /\ network' = [hasIp |-> FALSE, revision |-> network.revision]
      BY <1>10 DEF Restart
    <2>2. /\ owner' \in Owners /\ owner'.at = "read" /\ owner'.configured = 0
          /\ owner'.requested = 0 /\ owner'.revision = 0
      BY <2>1, NewOwnerType DEF NewOwner
    <2>3. ~outdated' /\ outdated' \in BOOLEAN
      BY <2>1
    <2>4. network' \in [hasIp : BOOLEAN, revision : Nat] /\ network'.revision = network.revision
      BY <1>0, <2>1
    <2> QED
      BY <1>0, <2>1, <2>2, <2>3, <2>4
  <1>9. \/ UNCHANGED <<owner, network, requested, outdated>>
        \/ ConfigChanged \/ NetworkChanges \/ ReadRequested \/ ReadRevision \/ Configure
        \/ Lookup \/ Recheck \/ Start
        \/ \E software \in BOOLEAN : Restart(software)
    BY ClockStepCases DEF Put, RetryDue, SetTime, AcceptTime, TimePasses, allVars, clockVars
  <1> QED
    BY <1>1, <1>2, <1>3, <1>4, <1>5, <1>6, <1>7, <1>8, <1>9, <1>10

\* The client runs on settings, once it has been set up.
ClientInv ==
    /\ runtime \in Configs
    /\ sntp \in [on : BOOLEAN, server : Configs \cup {NoConfig}]
    /\ sntp.on => owner.initialized /\ sntp.server # NoConfig
    /\ owner.at \in {"lookup", "recheck", "start"} => owner.initialized

LEMMA ClientInit == ConfigInv /\ ClockInit => ClientInv
  <1> SUFFICES ASSUME ConfigInv, ClockInit PROVE ClientInv
    OBVIOUS
  <1>1. runtime = live /\ owner = NewOwner /\ sntp = [on |-> FALSE, server |-> NoConfig]
    BY DEF ClockInit
  <1>2. sntp \in [on : BOOLEAN, server : Configs \cup {NoConfig}] /\ ~sntp.on
    BY <1>1
  <1>3. owner.at = "read"
    BY <1>1 DEF NewOwner
  <1> QED
    BY <1>1, <1>2, <1>3 DEF ClientInv, ConfigInv, ConfigData

LEMMA ClientNext ==
    ASSUME ConfigInv, ConfigInv', OwnerInv, ClientInv, [ClockNext]_allVars
    PROVE  ClientInv'
  <1> USE DEF ClientInv
  <1>0. live \in Configs /\ live' \in Configs /\ owner \in Owners
        /\ owner.initialized \in BOOLEAN
    BY DEF ConfigInv, ConfigData, OwnerInv, Owners
  <1>1. CASE UNCHANGED <<runtime, sntp, owner>>
    BY <1>1
  <1>2. CASE ReadRequested \/ ReadRevision
    <2>1. runtime' = runtime /\ sntp' = sntp
      BY <1>2 DEF ReadRequested, ReadRevision, ReadOnly
    <2>2. owner'.initialized = owner.initialized /\ owner'.at \in {"readRevision", "configure"}
      BY <1>0, <1>2 DEF ReadRequested, ReadRevision, Owners
    <2> QED
      BY <2>1, <2>2
  <1>3. CASE Configure
    <2>1. PICK ok \in BOOLEAN, looking \in BOOLEAN :
             /\ owner' = [owner EXCEPT !.initialized = Initialized(ok),
                            !.configured = owner.requested,
                            !.lastHasIp = owner.hasIp, !.lastRevision = owner.revision,
                            !.at = IF looking THEN "lookup" ELSE "read"]
             /\ looking => Initialized(ok)
             /\ sntp' = [sntp EXCEPT !.on = @ /\ ~ConfigDiffers /\ ~NetworkDiffers /\ ~looking]
             /\ runtime' \in {live, runtime}
      BY <1>3 DEF Configure
    <2>2. /\ owner'.initialized = Initialized(ok)
          /\ owner'.at = IF looking THEN "lookup" ELSE "read"
      BY <1>0, <2>1 DEF Owners
    <2>3. Initialized(ok) \in BOOLEAN /\ (owner.initialized => Initialized(ok))
      BY <1>0 DEF Initialized
    <2>4. /\ sntp' \in [on : BOOLEAN, server : Configs \cup {NoConfig}]
          /\ sntp'.on => sntp.on
          /\ sntp'.server = sntp.server
      BY <2>1
    <2> QED
      BY <1>0, <2>1, <2>2, <2>3, <2>4
  <1>4. CASE Lookup \/ Recheck
    <2>1. runtime' = runtime /\ sntp' = sntp /\ owner.at \in {"lookup", "recheck"}
      BY <1>4 DEF Lookup, Recheck, ReadOnly, At
    <2>2. owner'.initialized = owner.initialized
      BY <1>0, <1>4 DEF Lookup, Recheck, Owners
    <2> QED
      BY <2>1, <2>2
  <1>5. CASE Start
    <2>1. PICK ok \in BOOLEAN : sntp' = Started(ok)
      BY <1>5 DEF Start
    <2>2. owner.initialized /\ owner'.initialized = owner.initialized /\ owner'.at = "read"
          /\ runtime' = runtime
      BY <1>0, <1>5 DEF Start, At, Owners
    <2>3. /\ sntp' \in [on : BOOLEAN, server : Configs \cup {NoConfig}]
          /\ sntp'.on => sntp'.server # NoConfig
      BY <2>1, ConfigsAssumption DEF Started
    <2> QED
      BY <2>2, <2>3
  <1>6. ASSUME NEW software \in BOOLEAN, Restart(software)
        PROVE  ClientInv'
    <2>1. runtime' = live' /\ owner' = NewOwner /\ sntp' = [on |-> FALSE, server |-> NoConfig]
      BY <1>6 DEF Restart
    <2>2. sntp' \in [on : BOOLEAN, server : Configs \cup {NoConfig}] /\ ~sntp'.on
      BY <2>1
    <2>3. owner'.at = "read"
      BY <2>1 DEF NewOwner
    <2> QED
      BY <1>0, <2>1, <2>2, <2>3
  <1>7. \/ UNCHANGED <<runtime, sntp, owner>> \/ ReadRequested \/ ReadRevision \/ Configure
        \/ Lookup \/ Recheck \/ Start
        \/ \E software \in BOOLEAN : Restart(software)
    BY ClockStepCases
       DEF Put, ConfigChanged, NetworkChanges, RetryDue, SetTime, AcceptTime, TimePasses,
           allVars, clockVars
  <1> QED
    BY <1>1, <1>2, <1>3, <1>4, <1>5, <1>6, <1>7

\* The invariants of the task, in every reachable state.
TaskInv == ConfigInv /\ OwnerInv /\ ClientInv

LEMMA TaskInvariant == ClockSpec => []TaskInv
  <1>1. ClockInit => TaskInv
    BY ConfigInitInv, OwnerInit, ClientInit DEF ClockInit, TaskInv
  <1>2. TaskInv /\ [ClockNext]_allVars => TaskInv'
    BY ConfigNextInv, ConfigSteps, OwnerNext, ClientNext DEF TaskInv
  <1> QED
    BY <1>1, <1>2, PTL DEF ClockSpec

\* The client is never started on a server or a network that was replaced while
\* it was looked up.
THEOREM DiscardsOutdatedCorrect == ClockSpec => DiscardsOutdated
  <1>1. ASSUME TaskInv, [ClockNext]_allVars, ~sntp.on, sntp'.on
        PROVE  ~outdated
    <2>1. sntp' # sntp
      BY <1>1
    <2>2. ~Configure
      BY <1>1 DEF Configure, TaskInv, ClientInv
    <2>3. ASSUME NEW software \in BOOLEAN, Restart(software)
          PROVE  FALSE
      <3>1. sntp' = [on |-> FALSE, server |-> NoConfig]
        BY <2>3 DEF Restart
      <3> QED
        BY <1>1, <3>1
    <2>4. Start
      BY <1>1, <2>1, <2>2, <2>3, ClockStepCases
         DEF Put, ConfigChanged, NetworkChanges, ReadRequested, ReadRevision, Lookup,
             Recheck, RetryDue, SetTime, AcceptTime, TimePasses, ReadOnly, allVars, clockVars
    <2> QED
      BY <1>1, <2>4 DEF Start, OwnerInv, TaskInv
  <1>2. TaskInv /\ [ClockNext]_allVars => [~sntp.on /\ sntp'.on => ~outdated]_allVars
    BY <1>1
  <1> QED
    BY <1>2, TaskInvariant, PTL DEF ClockSpec, DiscardsOutdated

-----------------------------------------------------------------------------
(* Types                                                                   *)

\* Requests count up once they are saved, so the generation and the bound on
\* requests move together; the other counters have their bounds in the guards.
BoundInv ==
    /\ updates \in 0 .. MaxUpdates /\ failures \in 0 .. MaxFailures
    /\ requested <= updates + (IF saved = NoConfig THEN 1 ELSE 0)
    /\ network.revision <= MaxNetwork
    /\ owner.lastRevision <= network.revision
    /\ lookups \in 0 .. MaxLookups /\ restarts \in 0 .. MaxRestarts

\* Only what fails counts.
LEMMA LookupsSpent ==
    ASSUME NEW free, free \/ lookups < MaxLookups,
           lookups' = IF free THEN lookups ELSE lookups + 1
    PROVE  lookups' = lookups \/ (lookups < MaxLookups /\ lookups' = lookups + 1)
  <1>1. CASE free
    <2>1. lookups' = lookups
      BY <1>1, Zenon
    <2> QED
      BY <2>1, Zenon
  <1>2. CASE ~free
    <2>1. lookups < MaxLookups
      BY <1>2, Zenon
    <2>2. lookups' = lookups + 1
      BY <1>2, Zenon
    <2> QED
      BY <2>1, <2>2, Zenon
  <1> QED
    BY <1>1, <1>2, Zenon

LEMMA BoundStep ==
    ASSUME ConfigData, OwnerInv, BoundInv, [ClockNext]_allVars
    PROVE  BoundInv'
  <1> USE ConfigsAssumption, ClockAssumption DEF BoundInv
  <1>0. /\ network.revision \in Nat /\ owner.revision \in Nat /\ owner.lastRevision \in Nat
        /\ owner.revision <= network.revision /\ requested \in Nat
    BY DEF OwnerInv, Owners
  <1>1. ASSUME NEW c \in Configs, NEW ok \in BOOLEAN, Put(c, ok)
        PROVE  BoundInv'
    <2>1. /\ saved = NoConfig /\ updates < MaxUpdates /\ updates' = updates + 1
          /\ saved' \in Configs \cup {NoConfig}
          /\ failures' \in {failures, failures + 1}
          /\ failures' = failures \/ failures < MaxFailures
      BY <1>1 DEF Put, Update
    <2>2. /\ requested' = requested /\ network' = network /\ owner' = owner
          /\ lookups' = lookups /\ restarts' = restarts
      BY <1>1 DEF Put, clockVars
    <2> QED
      BY <1>0, <2>1, <2>2
  <1>2. CASE ConfigChanged
    BY <1>0, <1>2 DEF ConfigChanged, Answer, NewGeneration
  <1>3. CASE NetworkChanges
    BY <1>0, <1>3 DEF NetworkChanges, configVars
  <1>4. CASE ReadRequested \/ ReadRevision
    <2>1. owner'.lastRevision = owner.lastRevision
      BY <1>4 DEF ReadRequested, ReadRevision, OwnerInv, Owners
    <2> QED
      BY <1>0, <1>4, <2>1 DEF ReadRequested, ReadRevision, ReadOnly, configVars
  <1>5. CASE Configure
    <2>1. owner'.lastRevision = owner.revision
      BY <1>5 DEF Configure, OwnerInv, Owners
    <2>2. PICK ok \in BOOLEAN :
             /\ ok \/ owner.initialized \/ lookups < MaxLookups
             /\ lookups' = IF ok \/ owner.initialized THEN lookups ELSE lookups + 1
      BY <1>5, Zenon DEF Configure
    <2>3. lookups' = lookups \/ (lookups < MaxLookups /\ lookups' = lookups + 1)
      BY <2>2, LookupsSpent, Zenon
    <2>4. /\ updates' = updates /\ failures' = failures /\ saved' = saved
          /\ requested' = requested /\ network' = network /\ restarts' = restarts
      BY <1>5 DEF Configure, configVars
    <2> QED
      BY <1>0, <2>1, <2>3, <2>4
  <1>6. CASE Lookup \/ Recheck
    <2>1. owner'.lastRevision = owner.lastRevision
      BY <1>6 DEF Lookup, Recheck, OwnerInv, Owners
    <2>2. CASE Lookup
      <3>1. lookups' = lookups \/ (lookups < MaxLookups /\ lookups' = lookups + 1)
        <4>1. PICK ok \in BOOLEAN :
                 /\ ok \/ lookups < MaxLookups
                 /\ lookups' = IF ok THEN lookups ELSE lookups + 1
          BY <2>2, Zenon DEF Lookup
        <4> QED
          BY <4>1, LookupsSpent, Zenon
      <3> QED
        BY <1>0, <2>1, <2>2, <3>1 DEF Lookup, ReadOnly, configVars
    <2>3. CASE Recheck
      BY <1>0, <2>1, <2>3 DEF Recheck, ReadOnly, configVars
    <2> QED
      BY <1>6, <2>2, <2>3
  <1>7. CASE Start
    <2>1. owner'.lastRevision = owner.lastRevision
      BY <1>7 DEF Start, OwnerInv, Owners
    <2>2. lookups' = lookups \/ (lookups < MaxLookups /\ lookups' = lookups + 1)
      <3>1. PICK ok \in BOOLEAN :
               /\ ok \/ ~owner.resolved \/ lookups < MaxLookups
               /\ lookups' = IF ok \/ ~owner.resolved THEN lookups ELSE lookups + 1
        BY <1>7, Zenon DEF Start
      <3> QED
        BY <3>1, LookupsSpent, Zenon
    <2> QED
      BY <1>0, <1>7, <2>1, <2>2 DEF Start, configVars
  <1>8. CASE RetryDue \/ SetTime \/ AcceptTime \/ TimePasses \/ UNCHANGED allVars
    BY <1>0, <1>8 DEF RetryDue, SetTime, AcceptTime, TimePasses, configVars, clockVars, allVars
  <1>9. ASSUME NEW software \in BOOLEAN, Restart(software)
        PROVE  BoundInv'
    <2>1. /\ owner' = NewOwner /\ requested' = 1 /\ saved' = NoConfig
          /\ updates' = updates /\ failures' = failures /\ lookups' = lookups
          /\ restarts < MaxRestarts /\ restarts' = restarts + 1
          /\ network' = [hasIp |-> FALSE, revision |-> network.revision]
      BY <1>9 DEF Restart, Load
    <2>2. NewOwner.lastRevision = 0
      BY DEF NewOwner
    <2> QED
      BY <1>0, <2>1, <2>2
  <1> QED
    BY <1>1, <1>2, <1>3, <1>4, <1>5, <1>6, <1>7, <1>8, <1>9, ClockStepCases

\* The Boolean variables stay Boolean.
ClockFlags == due \in BOOLEAN /\ posix \in BOOLEAN /\ syncing \in BOOLEAN

LEMMA FlagStep ==
    ASSUME ClockFlags, [ClockNext]_allVars
    PROVE  ClockFlags'
  <1> USE DEF ClockFlags
  <1>1. CASE \E c \in Configs, ok \in BOOLEAN : Put(c, ok)
    BY <1>1, Zenon DEF Put, clockVars
  <1>2. CASE ConfigChanged \/ NetworkChanges \/ ReadRequested \/ ReadRevision \/ Lookup \/ Recheck
    BY <1>2, Zenon
       DEF ConfigChanged, NetworkChanges, ReadRequested, ReadRevision, Lookup, Recheck, ReadOnly
  <1>3. CASE Configure
    <2>1. posix' = posix /\ syncing' = syncing
      BY <1>3, Zenon DEF Configure
    <2>2. due' = (due \/ ConfigDiffers \/ NetworkDiffers)
      BY <1>3, Zenon DEF Configure
    <2> QED
      BY <2>1, <2>2, Zenon
  <1>4. CASE Start \/ RetryDue
    BY <1>4, Zenon DEF Start, RetryDue
  <1>5. CASE SetTime \/ AcceptTime \/ TimePasses
    BY <1>5, Zenon DEF SetTime, AcceptTime, TimePasses
  <1>6. CASE UNCHANGED allVars
    BY <1>6, Zenon DEF allVars, clockVars
  <1>7. ASSUME NEW software \in BOOLEAN, Restart(software)
        PROVE  ClockFlags'
    <2>1. due' = TRUE /\ syncing' = FALSE
      BY <1>7, Zenon DEF Restart
    <2>2. posix' \in {posix, FALSE}
      <3>1. CASE software
        BY <1>7, <3>1, Zenon DEF Restart
      <3>2. CASE ~software
        BY <1>7, <3>2, Zenon DEF Restart
      <3> QED
        BY <3>1, <3>2
    <2>3. posix' \in BOOLEAN
      BY <2>2
    <2> QED
      BY <2>1, <2>3, Zenon
  <1> QED
    BY <1>1, <1>2, <1>3, <1>4, <1>5, <1>6, <1>7, ClockStepCases, Zenon

LEMMA ModelStep ==
    ASSUME model \in [valid : BOOLEAN, network : BOOLEAN], [ClockNext]_allVars
    PROVE  model' \in [valid : BOOLEAN, network : BOOLEAN]
  <1>1. CASE UNCHANGED model
    BY <1>1
  <1>2. CASE AcceptTime
    <2>1. model' = [valid |-> TRUE, network |-> TRUE]
      BY <1>2, Zenon DEF AcceptTime
    <2> QED
      BY <2>1
  <1>3. ASSUME NEW software \in BOOLEAN, Restart(software)
        PROVE  model' \in [valid : BOOLEAN, network : BOOLEAN]
    <2>1. \E valid \in BOOLEAN : model' = [valid |-> valid, network |-> FALSE]
      BY <1>3, Zenon DEF Restart
    <2> QED
      BY <2>1
  <1>4. UNCHANGED model \/ AcceptTime \/ \E software \in BOOLEAN : Restart(software)
    BY ClockStepCases, Zenon
       DEF Put, ConfigChanged, NetworkChanges, ReadRequested, ReadRevision, Configure, Lookup,
           Recheck, Start, ReadOnly, RetryDue, SetTime, TimePasses, allVars, clockVars
  <1> QED
    BY <1>1, <1>2, <1>3, <1>4

\* Every variable of the clock and of its configuration keeps its type, and the
\* task is never ahead of the requests it serves.
THEOREM ClockTypeCorrect == ClockSpec => []ClockTypeOK
  <1> DEFINE RestInv == BoundInv /\ ClockFlags /\ model \in [valid : BOOLEAN, network : BOOLEAN]
  <1>1. ClockInit => RestInv
    <2> SUFFICES ASSUME ClockInit PROVE RestInv
      OBVIOUS
    <2>1. /\ updates = 0 /\ failures = 0 /\ saved = NoConfig /\ requested = 1
          /\ network = [hasIp |-> FALSE, revision |-> 0] /\ owner = NewOwner
          /\ lookups = 0 /\ restarts = 0 /\ model = [valid |-> FALSE, network |-> FALSE]
      BY DEF ClockInit, ConfigInit
    <2>2. NewOwner.lastRevision = 0
      BY DEF NewOwner
    <2>3. BoundInv
      BY <2>1, <2>2, ConfigsAssumption, ClockAssumption DEF BoundInv
    <2>4. ClockFlags
      BY Zenon DEF ClockInit, ClockFlags
    <2>5. model \in [valid : BOOLEAN, network : BOOLEAN]
      BY <2>1
    <2> QED
      BY <2>3, <2>4, <2>5
  <1>2. TaskInv /\ RestInv /\ [ClockNext]_allVars => RestInv'
    BY BoundStep, FlagStep, ModelStep DEF TaskInv, ConfigInv
  <1>3. ClockSpec => []RestInv
    <2> HIDE DEF RestInv
    <2> QED
      BY <1>1, <1>2, TaskInvariant, PTL DEF ClockSpec
  <1>4. ClockSpec => []AgeInv
    BY AgeInit, AgeNext, PTL DEF ClockSpec
  <1>5. TaskInv /\ RestInv /\ AgeInv => ClockTypeOK
    <2> SUFFICES ASSUME TaskInv, RestInv, AgeInv PROVE ClockTypeOK
      OBVIOUS
    <2>1. ConfigTypeOK
      BY DEF TaskInv, ConfigInv, ConfigData, ConfigFlags, ConfigTypeOK, BoundInv
    <2>2. /\ network \in [hasIp : BOOLEAN, revision : Revisions]
          /\ requested \in Generations
          /\ owner \in [at : Places, requested : Generations, hasIp : BOOLEAN,
                        revision : Revisions, resolved : BOOLEAN, lastHasIp : BOOLEAN,
                        lastRevision : Revisions, configured : Generations,
                        initialized : BOOLEAN]
      BY ConfigsAssumption, ClockAssumption
         DEF TaskInv, OwnerInv, Owners, BoundInv, Revisions, Generations
    <2> QED
      BY <2>1, <2>2
         DEF TaskInv, OwnerInv, ClientInv, ClockFlags, AgeInv, BoundInv, ClockTypeOK
  <1> QED
    BY <1>3, <1>4, <1>5, TaskInvariant, PTL
=============================================================================
