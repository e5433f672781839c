------------------------------ MODULE CovRecovery ------------------------------
(***************************************************************************)
(* Confirmed COV notifications that were not acknowledged: the table of    *)
(* src/main/bacnet_cov_recovery.c, the wrappers of src/main/bacnet_app.c   *)
(* that present its entries to bacnet-stack as changes, and the order of   *)
(* timers and state machine in the loop of bacnet_task.  The subscriptions *)
(* and transactions of bacnet-stack are external.  A pass of the loop is   *)
(* one step: it runs under the object mutex.                               *)
(***************************************************************************)
EXTENDS Integers, FiniteSets

CONSTANTS
    Objects,    \* objects that can be subscribed to
    Subs,       \* indices of the table of subscriptions: 1 .. its size
    ObjectOf,   \* the monitored object of each
    Dead,       \* subscriptions whose subscriber never answers
    Slots,      \* MAX_TSM_TRANSACTIONS
    Retries,    \* apdu_retries
    MaxChanges, \* bound on changes of values
    MaxLosses,  \* bound on lost notifications and acknowledgements of others
    MaxRequests \* bound on subscriptions, renewals and cancellations

ASSUME SubsAssumption ==
    /\ Subs \subseteq Nat /\ IsFiniteSet(Subs) /\ Dead \subseteq Subs
    /\ ObjectOf \in [Subs -> Objects]
    /\ Slots \in Nat \ {0} /\ Retries \in Nat

VARIABLES
    value,      \* what a notification of each object would say now
    changed,    \* objects whose Change_Of_Value flag is set
    pending,    \* s_pending: none, waiting for RECOVERY_PAUSE_MS, or due
    sub,        \* COV_Subscriptions, and the transaction of each
    known,      \* what each subscriber was told last
    missed,     \* history: subscribers whose repeat another's notification cancelled
    changes, losses, requests  \* what is spent of the bounds

vars == <<value, changed, pending, sub, known, missed, changes, losses, requests>>

NoSub == [active |-> FALSE, requested |-> FALSE, call |-> "none", tries |-> 0,
          sent |-> 0, ack |-> FALSE]

Init ==
    /\ value = [o \in Objects |-> 0]
    /\ changed = {}
    /\ pending = [o \in Objects |-> "none"]
    /\ sub = [s \in Subs |-> NoSub]
    /\ known = [s \in Subs |-> 0]
    /\ missed = {}
    /\ changes = 0 /\ losses = 0 /\ requests = 0

-----------------------------------------------------------------------------
(* One pass, as functions of the subscriptions and the entries             *)

\* bacnet_cov_recovery_timer_milliseconds, before the timers of transactions.
Aged(entries) == [o \in Objects |-> IF entries[o] = "waiting" THEN "due" ELSE entries[o]]

\* The slot of a transaction is free again.
Closed(r) == [r EXCEPT !.call = "none", !.tries = 0, !.sent = 0, !.ack = FALSE]

\* tsm_timer_milliseconds: a transaction is repeated with the value it had, or
\* fails and keeps its slot until the state machine frees it.
Ticked(subs) ==
    [s \in Subs |->
        IF subs[s].call # "open" THEN subs[s]
        ELSE IF subs[s].tries < Retries THEN [subs[s] EXCEPT !.tries = @ + 1]
        ELSE [subs[s] EXCEPT !.call = "failed"]]

Failing(before, after) ==
    {ObjectOf[s] : s \in {t \in Subs : before[t].call = "open" /\ after[t].call = "failed"}}

\* Slip: a failed subscriber starts again at once.
NewEntryDue == "due"

\* Slip: a failure is not recorded.
NewEntryNone == "none"

NewEntry == "waiting"

\* confirmed_timeout: an entry that exists keeps its time.
Recorded(entries, failed) ==
    [o \in Objects |-> IF o \in failed /\ entries[o] = "none" THEN NewEntry ELSE entries[o]]

\* The wrappers: an entry that is due looks like a change.
CovChanged(entries) == changed \cup {o \in Objects : entries[o] = "due"}

\* MARK
Marked(subs, entries) ==
    [s \in Subs |-> IF subs[s].active /\ ObjectOf[s] \in CovChanged(entries)
                    THEN [subs[s] EXCEPT !.requested = TRUE] ELSE subs[s]]

\* CLEAR calls the wrapper for the object of every notification that is
\* requested, also of one that has been waiting for its turn.
ToClear(subs) == {ObjectOf[s] : s \in {t \in Subs : subs[t].active /\ subs[t].requested}}

\* Slip: an entry is used and kept.
ClearedNever(entries, objects) == entries

Cleared(entries, objects) ==
    [o \in Objects |-> IF o \in objects THEN "none" ELSE entries[o]]

\* FREE
Freed(subs) ==
    [s \in Subs |-> IF subs[s].call = "failed" THEN Closed(subs[s]) ELSE subs[s]]

Ready(subs) == {s \in Subs : subs[s].active /\ subs[s].requested /\ subs[s].call = "none"}

\* Slip: more notifications than transactions.
StartedAll(subs) == Ready(subs)

\* SEND, in the order of the table, while there are slots.
Started(subs) ==
    LET free == Slots - Cardinality({s \in Subs : subs[s].call # "none"})
    IN {s \in Ready(subs) : Cardinality({t \in Ready(subs) : t < s}) < free}

Notified(subs) ==
    [s \in Subs |-> IF s \in Started(subs)
                    THEN [subs[s] EXCEPT !.requested = FALSE, !.call = "open",
                                         !.sent = value[ObjectOf[s]]]
                    ELSE subs[s]]

\* A datagram is lost, delivered without its acknowledgement, or acknowledged.
Fates == {"lost", "delivered", "acked"}

\* What happens to what is sent, by the transactions that were open before.
Transmit(before, after) ==
    LET repeated == {s \in Subs : after[s].call = "open" /\ after[s].tries > before[s].tries}
        started == {s \in Subs : after[s].call = "open" /\ before[s].call # "open"}
        using == (repeated \cup started) \ Dead
    IN \E fate \in [using -> Fates] :
          /\ losses' = losses + Cardinality({s \in using : fate[s] # "acked"})
          /\ losses' <= MaxLosses
          /\ sub' = [s \in Subs |-> IF s \in using
                                    THEN [after[s] EXCEPT !.ack = (fate[s] = "acked")]
                                    ELSE after[s]]
          /\ known' = [s \in Subs |-> IF s \in using /\ fate[s] # "lost"
                                      THEN after[s].sent ELSE known[s]]

\* History.  CLEAR removes the entry of an object before its time for one subscriber
\* of it: another that was told an old value now waits for nothing, until a change,
\* a renewal or another entry requests its notification.
Missed(subs, entries, cleared) ==
    {s \in Subs \ Dead :
        /\ subs[s].active /\ ~subs[s].requested /\ subs[s].call = "none"
        /\ known[s] # value[ObjectOf[s]]
        /\ \/ s \in missed
           \/ ObjectOf[s] \in cleared /\ entries[ObjectOf[s]] = "waiting"}

\* The loop of bacnet_task after it has handled a packet.
Pass(received, elapsed) ==
    \E ticked \in {IF elapsed THEN Ticked(received) ELSE received} :
    \E entries \in {Recorded(IF elapsed THEN Aged(pending) ELSE pending,
                             Failing(received, ticked))} :
    \E marked \in {Marked(ticked, entries)} :
    \E freed \in {Freed(marked)} :
        /\ Transmit([s \in Subs |-> IF ticked[s].call = "failed" THEN freed[s] ELSE received[s]],
                    Notified(freed))
        /\ pending' = Cleared(entries, ToClear(marked))
        /\ changed' = changed \ ToClear(marked)
        /\ missed' = Missed(freed, entries, ToClear(marked))
        /\ UNCHANGED <<value, changes>>

-----------------------------------------------------------------------------
\* Acknowledgements that are not lost arrive within the APDU timeout.
AckOnItsWay == \E s \in Subs : sub[s].call = "open" /\ sub[s].ack

Idle(elapsed) == (elapsed => ~AckOnItsWay) /\ Pass(sub, elapsed) /\ UNCHANGED requests

\* The acknowledgement frees the transaction.
HandleAck(s) ==
    /\ sub[s].call = "open" /\ sub[s].ack
    /\ Pass([sub EXCEPT ![s] = Closed(@)], FALSE)
    /\ UNCHANGED requests

SpendRequest == requests < MaxRequests /\ requests' = requests + 1

\* SubscribeCOV, new or renewed: the current value is sent in any case.
HandleSubscribe(s) ==
    /\ SpendRequest
    /\ Pass([sub EXCEPT ![s].active = TRUE, ![s].requested = TRUE], FALSE)

\* Cancelled or expired: the transaction goes too.
HandleCancel(s) ==
    /\ sub[s].active
    /\ SpendRequest
    /\ Pass([sub EXCEPT ![s] = NoSub], FALSE)

\* An input changes, a command is given, a fault comes or goes.
Change(o) ==
    /\ changes < MaxChanges
    /\ changes' = changes + 1
    /\ value' = [value EXCEPT ![o] = 1 - @]
    /\ changed' = changed \cup {o}
    /\ UNCHANGED <<pending, sub, known, missed, losses, requests>>

Next ==
    \/ \E elapsed \in BOOLEAN : Idle(elapsed)
    \/ \E s \in Subs : HandleAck(s) \/ HandleSubscribe(s) \/ HandleCancel(s)
    \/ \E o \in Objects : Change(o)

Spec == Init /\ [][Next]_vars

\* The loop runs every 20 ms and time passes.
FairSpec ==
    /\ Spec
    /\ WF_vars(Idle(FALSE))
    /\ WF_vars(Idle(TRUE))
    /\ \A s \in Subs : WF_vars(HandleAck(s))

-----------------------------------------------------------------------------
(* Properties *)

InUse == {s \in Subs : sub[s].call # "none"}

\* Every variable keeps its type, and there are never more transactions than slots.
TypeOK ==
    /\ value \in [Objects -> {0, 1}] /\ changed \subseteq Objects
    /\ pending \in [Objects -> {"none", "waiting", "due"}]
    /\ sub \in [Subs -> [active : BOOLEAN, requested : BOOLEAN, call : {"none", "open"},
                         tries : 0 .. Retries, sent : {0, 1}, ack : BOOLEAN]]
    /\ known \in [Subs -> {0, 1}]
    /\ missed \subseteq Subs
    /\ Cardinality(InUse) <= Slots

Current(s) == known[s] = value[ObjectOf[s]]

\* A subscriber that was told an old value is remembered: its object is flagged,
\* its notification is queued or on its way, or the object is in the table.  The
\* exception is real: the entry is the object's, and the notification of another
\* subscriber, new or queued, takes it away before its time although the value did
\* not change (bacnet_cov_recovery.c:111-121, bacnet_app.c:257-261).
StaleIsRemembered ==
    \A s \in Subs \ Dead :
        sub[s].active /\ ~Current(s) /\ s \notin missed =>
            \/ ObjectOf[s] \in changed
            \/ sub[s].requested
            \/ sub[s].call = "open" /\ sub[s].sent = value[ObjectOf[s]]
            \/ pending[ObjectOf[s]] # "none"

\* When values and losses settle, a subscriber that can be reached comes to know
\* the present value, however many notifications and acknowledgements were lost
\* before and although unreachable subscribers compete for the slots, unless its
\* repeat was cancelled by the notification of another subscriber and nothing has
\* requested its own since: that one stays with the old value.
\* docs/BACNET_COMMAND_RECOVERY.md:121-127 knows only the change of the value as a
\* reason to cancel a repeat; the code does not do what it says.
SubscribersLearn ==
    \A s \in Subs \ Dead : <>[](sub[s].active /\ s \notin missed => Current(s))

\* An acknowledgement ends the recovery: with every subscriber of its object
\* reachable, a subscription comes to rest (tests/test_bacnet_delivery.c:186-193).
RecoveryEnds ==
    \A s \in Subs : (\A d \in Dead : ObjectOf[d] # ObjectOf[s]) => <>[](sub[s].call = "none")
=============================================================================
