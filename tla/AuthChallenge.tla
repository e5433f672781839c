----------------------------- MODULE AuthChallenge -----------------------------
(***************************************************************************)
(* The challenges of src/main/auth.c that authorise one request each of    *)
(* the management interface: a ring of Slots challenges in RAM, every      *)
(* operation under its mutex.  Nonces are random in the code; here they    *)
(* are numbered in the order they are issued, which keeps them distinct.   *)
(***************************************************************************)
EXTENDS Integers

CONSTANTS
    Slots,      \* AUTH_CHALLENGE_SLOTS
    Life,       \* FW_AUTH_CHALLENGE_TTL_SECONDS, in ticks
    MaxIssues,  \* bound on challenges
    MaxTime     \* bound on time

ASSUME AuthAssumption ==
    /\ Slots \in Nat \ {0} /\ Life \in Nat
    /\ MaxIssues \in Nat /\ MaxTime \in Nat

VARIABLES
    challenges, \* s_challenges
    next,       \* s_next_slot, modulo Slots
    now,        \* esp_timer_get_time
    issued,     \* challenges issued so far: their nonces are 1 .. issued
    boot,       \* history: challenges issued before this boot
    born,       \* history: when each was issued
    uses        \* history: how many requests each has authorised

authVars == <<challenges, next, now, issued, boot, born, uses>>

Nonces == 1 .. MaxIssues
Ring == 0 .. Slots - 1
Unused == [valid |-> FALSE, nonce |-> 0, issued |-> 0]
Challenge == [valid : BOOLEAN, nonce : 0 .. MaxIssues, issued : 0 .. MaxTime]

Init ==
    /\ challenges = [k \in Ring |-> Unused] /\ next = 0
    /\ now = 0 /\ issued = 0 /\ boot = 0
    /\ born = [n \in Nonces |-> 0] /\ uses = [n \in Nonces |-> 0]

\* The oldest challenge makes room.
SlotToReplace == next

\* auth_challenge_issue
Issue ==
    /\ issued < MaxIssues
    /\ issued' = issued + 1
    /\ challenges' = [challenges EXCEPT ![SlotToReplace] =
                        [valid |-> TRUE, nonce |-> issued + 1, issued |-> now]]
    /\ next' = (next + 1) % Slots
    /\ born' = [born EXCEPT ![issued + 1] = now]
    /\ UNCHANGED <<now, boot, uses>>

Holds(k, n) == challenges[k].valid /\ challenges[k].nonce = n

Expired(k) == now - challenges[k].issued > Life

\* The verdict on a request with nonce n; signed says whether its signature is
\* the HMAC of what was sent.
Authorised(n, signed) ==
    \E k \in Ring : Holds(k, n) /\ ~Expired(k) /\ signed

\* Slip: a wrong guess uses the challenge up.
ConsumedByGuess(k, n, signed) == Holds(k, n)

\* Slip: an authorised request leaves its challenge.
ConsumedByAge(k, n, signed) == Holds(k, n) /\ Expired(k)

\* A challenge ends when it is found expired or has authorised a request.
Consumed(k, n, signed) == Holds(k, n) /\ (Expired(k) \/ signed)

\* auth_request_verify, whatever the request asks for.
Verify(n, signed) ==
    /\ challenges' = [k \in Ring |->
                        IF Consumed(k, n, signed)
                        THEN [challenges[k] EXCEPT !.valid = FALSE] ELSE challenges[k]]
    /\ uses' = IF Authorised(n, signed) THEN [uses EXCEPT ![n] = @ + 1] ELSE uses
    /\ UNCHANGED <<next, now, issued, boot, born>>

Tick ==
    /\ now < MaxTime /\ now' = now + 1
    /\ UNCHANGED <<challenges, next, issued, boot, born, uses>>

\* RAM is cleared and the timer starts anew, in effect: nothing of the last
\* boot is compared with it.
Forget ==
    /\ challenges' = [k \in Ring |-> Unused] /\ next' = 0
    /\ boot' = issued
    /\ UNCHANGED <<now, issued, born, uses>>

Next ==
    \/ Issue
    \/ \E n \in Nonces, signed \in BOOLEAN : n <= issued /\ Verify(n, signed)
    \/ Tick \/ Forget

Spec == Init /\ [][Next]_authVars

-----------------------------------------------------------------------------
(* Properties *)

AuthTypeOK ==
    /\ challenges \in [Ring -> Challenge]
    /\ next \in Ring
    /\ now \in 0 .. MaxTime /\ issued \in 0 .. MaxIssues /\ boot \in 0 .. issued
    /\ born \in [Nonces -> 0 .. MaxTime] /\ uses \in [Nonces -> Nat]

\* "Four challenges can be outstanding" (docs/SECURITY.md:31): one of the last
\* Slots of this boot works until it is used or too old, whatever wrong guesses
\* and other challenges came in between (auth.c:104, 164).
OutstandingWorks ==
    \A n \in Nonces :
        (n > boot /\ n <= issued /\ n > issued - Slots /\ uses[n] = 0 /\ now - born[n] <= Life)
            => Authorised(n, TRUE)

\* A challenge authorises one request at most, also when a client that got no
\* answer sends the request again, before or after a restart, and none when it
\* is too old or of an earlier boot (auth.c:139-166).
AuthorisedOnce ==
    [][\A n \in Nonces : uses'[n] # uses[n] =>
          uses[n] = 0 /\ n > boot /\ now - born[n] <= Life]_authVars
=============================================================================
