----------------------------- MODULE ClockService -----------------------------
(***************************************************************************)
(* The network clock of src/main/clock_service.c and clock_model.c: a task *)
(* that owns the SNTP client and runs it on the server of TimeConfig, and  *)
(* a clock that survives a software restart for MaxHoldover.  The task     *)
(* takes no lock while it looks a server up; every access to the state it  *)
(* shares is a critical section and a step of its own.  The network and    *)
(* the SNTP client are external; values of the clock are left out, only    *)
(* where they come from and how old they are is kept.                      *)
(***************************************************************************)
EXTENDS TimeConfig

CONSTANTS
    MaxHoldover,    \* CLOCK_HOLDOVER_MAX_US, in ticks
    MaxNetwork,     \* bound on changes of the network
    MaxLookups,     \* bound on lookups and starts that fail
    MaxRestarts     \* bound on restarts

ASSUME ClockAssumption ==
    /\ MaxHoldover \in Nat /\ MaxNetwork \in Nat
    /\ MaxLookups \in Nat /\ MaxRestarts \in Nat

VARIABLES
    network,    \* what ethernet_manager answers: an address, and its revision
    requested,  \* s_requested_generation
    runtime,    \* s_runtime_config
    owner,      \* the variables of clock_task, and where it is
    due,        \* retry_after has passed
    sntp,       \* the SNTP client: on, and the configuration of its server
    model,      \* s_model: valid, from the network, the age of last_sync_unix_us
    retained,   \* s_retained: marked, and the age of its last_sync_us
    posix,      \* the POSIX clock has been set since the power came on
    syncing,    \* sntp_sync_time has set the POSIX clock and not yet the rest
    outdated,   \* history: configuration or network changed during the lookup
    unsynced,   \* history: the age of the last time accepted from the network
    lookups, restarts  \* what is spent of the bounds

clockVars == <<network, requested, runtime, owner, due, sntp, model, retained, posix, syncing,
               outdated, unsynced, lookups, restarts>>
allVars == <<configVars, clockVars>>

Ages == 0 .. MaxHoldover + 1
Older(age) == IF age > MaxHoldover THEN age ELSE age + 1

NewOwner ==
    [at |-> "read", requested |-> 0, hasIp |-> FALSE, revision |-> 0, resolved |-> FALSE,
     lastHasIp |-> FALSE, lastRevision |-> 0, configured |-> 0, initialized |-> FALSE]

ClockInit ==
    /\ ConfigInit
    /\ network = [hasIp |-> FALSE, revision |-> 0]
    /\ requested = 1 /\ runtime = live
    /\ owner = NewOwner /\ due = TRUE
    /\ sntp = [on |-> FALSE, server |-> NoConfig]
    /\ model = [valid |-> FALSE, network |-> FALSE]
    /\ retained = [marked |-> FALSE, age |-> 0]
    /\ posix = FALSE /\ syncing = FALSE /\ outdated = FALSE /\ unsynced = MaxHoldover + 1
    /\ lookups = 0 /\ restarts = 0

-----------------------------------------------------------------------------
(* Requests and the network *)

\* time_put_handler up to the end of time_config_update.
Put(c, ok) == Update(c, ok) /\ UNCHANGED clockVars

\* Slip: the owner is woken and the generation is not counted.
SameGeneration == requested

NewGeneration == requested + 1

\* clock_service_config_changed, and the answer.
ConfigChanged ==
    /\ Answer
    /\ requested' = NewGeneration
    /\ outdated' = (outdated \/ owner.at = "lookup")
    /\ UNCHANGED <<network, runtime, owner, due, sntp, model, retained, posix, syncing,
                   unsynced, lookups, restarts>>

\* The address goes, comes or is replaced.
NetworkChanges ==
    /\ network.revision < MaxNetwork
    /\ \E hasIp \in BOOLEAN :
          /\ network.hasIp \/ hasIp
          /\ network' = [hasIp |-> hasIp, revision |-> network.revision + 1]
    /\ outdated' = (outdated \/ owner.at = "lookup")
    /\ UNCHANGED <<configVars, requested, runtime, owner, due, sntp, model, retained, posix, syncing,
                   unsynced, lookups, restarts>>

-----------------------------------------------------------------------------
(* clock_task *)

At(place) == owner.at = place

\* What a step of the task that only looks around leaves alone.
ReadOnly == UNCHANGED <<configVars, network, requested, runtime, due, sntp, model, retained,
                        posix, syncing, unsynced, restarts>>

\* The generation and has_ip: neither read can tell whether it came first.
ReadRequested ==
    /\ At("read")
    /\ owner' = [owner EXCEPT !.requested = requested, !.hasIp = network.hasIp,
                             !.at = "readRevision"]
    /\ ReadOnly /\ UNCHANGED <<outdated, lookups>>

ReadRevision ==
    /\ At("readRevision")
    /\ owner' = [owner EXCEPT !.revision = network.revision, !.at = "configure"]
    /\ ReadOnly /\ UNCHANGED <<outdated, lookups>>

\* esp_netif_sntp_init may fail and is repeated after 15 s.
Initialized(ok) == owner.initialized \/ ok

ConfigDiffers == owner.requested # owner.configured

NetworkDiffers ==
    owner.hasIp # owner.lastHasIp \/ owner.revision # owner.lastRevision

\* A new generation or network stops the client; then the lookup, if it is due.
\* The configuration is read here, perhaps a newer one than the generation's.
Configure ==
    /\ At("configure")
    /\ \E ok \in BOOLEAN :
          LET again == due \/ ConfigDiffers \/ NetworkDiffers
              looking == Initialized(ok) /\ owner.hasIp /\ again
          IN /\ ok \/ owner.initialized \/ lookups < MaxLookups
             /\ lookups' = IF ok \/ owner.initialized THEN lookups ELSE lookups + 1
             /\ runtime' = IF ConfigDiffers THEN live ELSE runtime
             /\ due' = again
             /\ sntp' = [sntp EXCEPT !.on = @ /\ ~ConfigDiffers /\ ~NetworkDiffers /\ ~looking]
             /\ owner' = [owner EXCEPT !.initialized = Initialized(ok),
                             !.configured = owner.requested,
                             !.lastHasIp = owner.hasIp, !.lastRevision = owner.revision,
                             !.at = IF looking THEN "lookup" ELSE "read"]
    /\ outdated' = FALSE
    /\ UNCHANGED <<configVars, network, requested, model, retained, posix, syncing, unsynced, restarts>>

\* resolve_server, without a lock.
Lookup ==
    /\ At("lookup")
    /\ \E ok \in BOOLEAN :
          /\ ok \/ lookups < MaxLookups
          /\ lookups' = IF ok THEN lookups ELSE lookups + 1
          /\ owner' = [owner EXCEPT !.resolved = ok, !.at = "recheck"]
    /\ ReadOnly /\ UNCHANGED outdated

\* Slip: the configuration is not looked at again.
AnyGeneration == TRUE

GenerationCurrent == requested = owner.configured

NetworkCurrent == network.hasIp /\ network.revision = owner.revision

\* Changes from here on are found by the next iteration.
Recheck ==
    /\ At("recheck")
    /\ owner' = [owner EXCEPT !.at = IF GenerationCurrent /\ NetworkCurrent
                                    THEN "start" ELSE "read"]
    /\ ReadOnly /\ UNCHANGED <<outdated, lookups>>

Started(ok) == IF owner.resolved THEN [on |-> ok, server |-> runtime] ELSE sntp

\* esp_netif_sntp_start; the next attempt is in an hour, or in 30 s.
Start ==
    /\ At("start")
    /\ \E ok \in BOOLEAN :
          /\ ok \/ ~owner.resolved \/ lookups < MaxLookups
          /\ lookups' = IF ok \/ ~owner.resolved THEN lookups ELSE lookups + 1
          /\ sntp' = Started(ok)
    /\ due' = FALSE
    /\ owner' = [owner EXCEPT !.at = "read"]
    /\ UNCHANGED <<configVars, network, requested, runtime, model, retained, posix, syncing,
                   outdated, unsynced, restarts>>

RetryDue ==
    /\ ~due /\ due' = TRUE
    /\ UNCHANGED <<configVars, network, requested, runtime, owner, sntp, model, retained, posix, syncing,
                   outdated, unsynced, lookups, restarts>>

-----------------------------------------------------------------------------
(* Replies, time and restarts *)

\* sntp_sync_time up to settimeofday, for a plausible time; with the step the
\* last marker may look any age.
SetTime ==
    /\ sntp.on /\ network.hasIp /\ ~syncing
    /\ syncing' = TRUE
    /\ posix' = TRUE
    /\ unsynced' = 0
    /\ \E age \in Ages : retained' = [retained EXCEPT !.age = age]
    /\ UNCHANGED <<configVars, network, requested, runtime, owner, due, sntp, model,
                   outdated, lookups, restarts>>

\* Its critical section: clock_model_accept and the new marker.
AcceptTime ==
    /\ syncing /\ syncing' = FALSE
    /\ model' = [valid |-> TRUE, network |-> TRUE]
    /\ retained' = [marked |-> TRUE, age |-> 0]
    /\ UNCHANGED <<configVars, network, requested, runtime, owner, due, sntp, posix,
                   outdated, unsynced, lookups, restarts>>

\* Ticks are days: none passes within sntp_sync_time.
TimePasses ==
    /\ posix /\ ~syncing
    /\ retained' = [retained EXCEPT !.age = Older(@)]
    /\ unsynced' = Older(unsynced)
    /\ UNCHANGED <<configVars, network, requested, runtime, owner, due, sntp, model, posix,
                   syncing, outdated, lookups, restarts>>

\* The conditions of clock_service_init, after a restart by software.
HoldoverValid == retained.marked /\ posix /\ retained.age <= MaxHoldover

\* Slip: a clock that is taken over counts as synchronised again.
MarkedAnew == [marked |-> TRUE, age |-> 0]

MarkerKept == retained

\* A restart up to clock_service_init.  Other resets may keep the clock running,
\* and are not trusted with it.
Restart(software) ==
    /\ restarts < MaxRestarts /\ restarts' = restarts + 1
    /\ Load
    /\ network' = [hasIp |-> FALSE, revision |-> network.revision]
    /\ requested' = 1 /\ runtime' = live'
    /\ owner' = NewOwner /\ due' = TRUE
    /\ sntp' = [on |-> FALSE, server |-> NoConfig]
    /\ IF software /\ HoldoverValid
       THEN model' = [valid |-> TRUE, network |-> FALSE] /\ retained' = MarkerKept
       ELSE /\ model' = [valid |-> FALSE, network |-> FALSE]
            /\ retained' = [retained EXCEPT !.marked = FALSE]
    /\ posix' \in IF software THEN {posix} ELSE {posix, FALSE}
    /\ syncing' = FALSE /\ outdated' = FALSE
    /\ UNCHANGED <<unsynced, lookups>>

-----------------------------------------------------------------------------
OwnerStep ==
    \/ ReadRequested \/ ReadRevision \/ Configure
    \/ Lookup \/ Recheck \/ Start

ClockNext ==
    \/ \E c \in Configs, ok \in BOOLEAN : Put(c, ok)
    \/ ConfigChanged \/ NetworkChanges
    \/ OwnerStep \/ RetryDue
    \/ SetTime \/ AcceptTime \/ TimePasses
    \/ \E software \in BOOLEAN : Restart(software)

ClockSpec == ClockInit /\ [][ClockNext]_allVars

\* The task polls every 250 ms and its timers expire; a request that has been
\* saved is finished.
ClockFairSpec ==
    ClockSpec /\ WF_allVars(OwnerStep) /\ WF_allVars(RetryDue) /\ WF_allVars(ConfigChanged)

-----------------------------------------------------------------------------
(* Properties *)

Places == {"read", "readRevision", "configure", "lookup", "recheck", "start"}

Generations == 0 .. MaxUpdates + 1
Revisions == 0 .. MaxNetwork

\* Every variable keeps its type; the client runs only once it was set up with an
\* address, and the owner is never ahead of the requests.
ClockTypeOK ==
    /\ ConfigTypeOK
    /\ network \in [hasIp : BOOLEAN, revision : Revisions]
    /\ requested \in Generations /\ runtime \in Configs
    /\ owner \in [at : Places, requested : Generations, hasIp : BOOLEAN, revision : Revisions,
                  resolved : BOOLEAN, lastHasIp : BOOLEAN, lastRevision : Revisions,
                  configured : Generations, initialized : BOOLEAN]
    /\ owner.configured <= owner.requested /\ owner.requested <= requested
    /\ due \in BOOLEAN
    /\ sntp \in [on : BOOLEAN, server : Configs \cup {NoConfig}]
    /\ sntp.on => owner.initialized /\ sntp.server # NoConfig
    /\ model \in [valid : BOOLEAN, network : BOOLEAN]
    /\ retained \in [marked : BOOLEAN, age : Ages]
    /\ posix \in BOOLEAN /\ syncing \in BOOLEAN /\ outdated \in BOOLEAN
    /\ unsynced \in Ages
    /\ lookups \in 0 .. MaxLookups /\ restarts \in 0 .. MaxRestarts

\* "It discards results if the configuration or network changed during lookup"
\* (docs/NETWORK_TIME.md:23): the client is not started on what was looked up for
\* a server or a network that had been replaced meanwhile (clock_service.c:235-242).
DiscardsOutdated == [][~sntp.on /\ sntp'.on => ~outdated]_allVars

\* However requests, the network and lookups interleave, the client ends up on
\* the server that is configured, and runs again and again once the controller
\* keeps its address (clock_service.c:201-256).
ServerFollows ==
    /\ <>[](sntp.on => sntp.server = live)
    /\ (<>[]network.hasIp) => []<>(sntp.on)

\* "An age between zero and seven days" (docs/NETWORK_TIME.md:40): no sequence of
\* restarts makes a clock pass for valid that was synchronised longer ago, even
\* when one comes between the two halves of a synchronisation
\* (clock_service.c:57-70, 268-280).
HoldoverBounded ==
    [][restarts' # restarts /\ model'.valid => unsynced <= MaxHoldover]_allVars
=============================================================================
