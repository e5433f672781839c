------------------------------ MODULE TimeConfig ------------------------------
(***************************************************************************)
(* The time server and time zone of src/main/time_config.c: the value in   *)
(* flash, the copy in RAM that everybody reads, and the requests of the    *)
(* HTTP server (src/main/web_admin.c) that replace both.  A configuration  *)
(* is one value; requests that are malformed change nothing and are left   *)
(* out.  Everything here runs under one mutex.                             *)
(***************************************************************************)
EXTENDS Integers

CONSTANTS
    Configs,    \* valid configurations
    Default,    \* the one of a new controller
    NoConfig,   \* no value: none stored, none promised, no request
    Damaged,    \* a stored value that does not decode
    MaxUpdates, \* bound on requests
    MaxFailures \* bound on failed writes

ASSUME ConfigsAssumption ==
    /\ Default \in Configs
    /\ NoConfig \notin Configs /\ Damaged \notin Configs /\ NoConfig # Damaged
    /\ MaxUpdates \in Nat /\ MaxFailures \in Nat

VARIABLES
    stored,     \* the blob in flash
    live,       \* s_config
    persisted,  \* s_persisted
    saved,      \* time_put_handler: the configuration saved, not yet announced
    promised,   \* history: the configuration last answered with "persistent"
    torn,       \* history: a write that was reported as failed has changed flash
    updates, failures  \* what is spent of the bounds

configVars == <<stored, live, persisted, saved, promised, torn, updates, failures>>

Loaded(blob) == IF blob \in Configs THEN blob ELSE Default

\* time_config_init has run.
ConfigInit ==
    /\ stored \in Configs \cup {NoConfig, Damaged}
    /\ live = Loaded(stored) /\ persisted = (stored \in Configs)
    /\ saved = NoConfig /\ promised = NoConfig /\ torn = FALSE
    /\ updates = 0 /\ failures = 0

\* What is live needs no write; that it was persisted does not say that nothing
\* was written since.
Unneeded(c) == persisted /\ c = live

LiveAfter(c, ok) == IF ok THEN c ELSE live

\* time_config_update: the blob is committed before it becomes live.  A write
\* that fails may have stored the blob all the same.
Update(c, ok) ==
    /\ saved = NoConfig
    /\ updates < MaxUpdates /\ updates' = updates + 1
    /\ IF Unneeded(c)
       THEN ok /\ UNCHANGED <<stored, live, persisted, torn, failures>>
       ELSE /\ live' = LiveAfter(c, ok)
            /\ IF ok
               THEN stored' = c /\ persisted' = TRUE /\ torn' = FALSE /\ UNCHANGED failures
               ELSE /\ failures < MaxFailures /\ failures' = failures + 1
                    /\ stored' \in {stored, c}
                    /\ torn' = (torn \/ stored' # stored)
                    /\ UNCHANGED persisted
    /\ saved' = IF ok THEN c ELSE NoConfig
    /\ promised' = NoConfig

\* The rest of time_put_handler: the owner of the clock is told, then the client.
Answer ==
    /\ saved # NoConfig
    /\ saved' = NoConfig
    /\ promised' = saved
    /\ UNCHANGED <<stored, live, persisted, torn, updates, failures>>

\* A restart, up to time_config_init.
Load ==
    /\ live' = Loaded(stored)
    /\ persisted' = (stored \in Configs)
    /\ saved' = NoConfig /\ torn' = FALSE
    /\ promised' = NoConfig
    /\ UNCHANGED <<stored, updates, failures>>

ConfigNext ==
    \/ \E c \in Configs, ok \in BOOLEAN : Update(c, ok)
    \/ Answer \/ Load

ConfigSpec == ConfigInit /\ [][ConfigNext]_configVars

-----------------------------------------------------------------------------
(* Properties *)

ConfigTypeOK ==
    /\ stored \in Configs \cup {NoConfig, Damaged}
    /\ live \in Configs
    /\ persisted \in BOOLEAN /\ torn \in BOOLEAN
    /\ saved \in Configs \cup {NoConfig} /\ promised \in Configs \cup {NoConfig}
    /\ updates \in 0 .. MaxUpdates /\ failures \in 0 .. MaxFailures

\* "Settings are validated and committed before becoming visible"
\* (docs/NETWORK_TIME.md:15): flash has what is live, except after a write that
\* was reported as failed and yet had an effect (time_config.c:250-272).
StoredIsLive == persisted /\ ~torn => stored = live

\* A request answered with "persistent":true, not followed by another, is in
\* force after the restart (web_admin.c:758; "identical saved values do not wear
\* flash", time_config.h:22).
SavedSurvives == [][Load => promised \in {NoConfig, live'}]_configVars
=============================================================================
