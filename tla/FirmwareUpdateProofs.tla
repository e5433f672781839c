------------------------- MODULE FirmwareUpdateProofs -------------------------
(***************************************************************************)
(* Proofs about AuthChallenge and FirmwareUpdate, for any number of slots, *)
(* any images and any bounds: what a challenge is good for; requests use   *)
(* challenges as AuthChallenge specifies; and one of the two partitions    *)
(* always holds an image that can be started and is never given up.        *)
(***************************************************************************)
EXTENDS FirmwareUpdate, TLAPS

-----------------------------------------------------------------------------
(* Challenges                                                              *)

\* The slot that one of the last Slots challenges was written to: next has moved
\* on by as many slots as challenges were issued since, and once around at most.
SlotOf(n) ==
    LET d == issued - n + 1
    IN IF next >= d THEN next - d ELSE next - d + Slots

\* n is one of the last Slots challenges of this boot, unused and not too old.
Outstanding(n) ==
    /\ n > boot /\ n <= issued /\ n > issued - Slots
    /\ uses[n] = 0 /\ now - born[n] <= Life

\* What a valid slot holds: an unused challenge of this boot, with its time.
SlotsInv ==
    \A k \in Ring : challenges[k].valid =>
        /\ challenges[k].nonce \in boot + 1 .. issued
        /\ uses[challenges[k].nonce] = 0
        /\ challenges[k].issued = born[challenges[k].nonce]

\* Only issued challenges are used, and an outstanding one is where it was put.
NoncesInv ==
    /\ \A n \in Nonces : n > issued => uses[n] = 0
    /\ \A n \in Nonces : Outstanding(n) => SlotOf(n) \in Ring /\ Holds(SlotOf(n), n)

AuthInv == AuthTypeOK /\ SlotsInv /\ NoncesInv

\* The index of the ring moves on by one, and around at the end.
LEMMA NextSlot ==
    ASSUME NEW k \in Ring
    PROVE  (k + 1) % Slots = IF k + 1 = Slots THEN 0 ELSE k + 1
  BY AuthAssumption DEF Ring

\* The ring starts empty.
LEMMA AuthInitInv == Init => AuthInv
  BY AuthAssumption
     DEF Init, AuthInv, AuthTypeOK, SlotsInv, NoncesInv, Ring, Unused, Challenge, Nonces,
         Outstanding

\* A new challenge replaces the one that was issued Slots challenges before.
LEMMA IssueInv ==
    ASSUME AuthInv, Issue
    PROVE  AuthInv'
  <1> DEFINE new == issued + 1
             written == [valid |-> TRUE, nonce |-> new, issued |-> now]
  <1>1. /\ issued \in Nat /\ new \in Nonces /\ issued' = new /\ boot' = boot /\ now' = now
        /\ boot \in Nat /\ boot <= issued /\ now \in 0 .. MaxTime /\ next \in Ring
        /\ uses' = uses /\ uses \in [Nonces -> Nat] /\ uses[new] = 0
        /\ born \in [Nonces -> 0 .. MaxTime] /\ born' = [born EXCEPT ![new] = now]
        /\ challenges \in [Ring -> Challenge]
        /\ challenges' = [challenges EXCEPT ![next] = written]
    BY AuthAssumption
       DEF AuthInv, AuthTypeOK, NoncesInv, Issue, SlotToReplace, Nonces
  <1>2. next' = IF next + 1 = Slots THEN 0 ELSE next + 1
    BY <1>1, NextSlot DEF Issue
  <1>3. AuthTypeOK'
    <2>1. written \in Challenge
      BY <1>1, AuthAssumption DEF Challenge, Nonces
    <2>2. next' \in Ring
      BY <1>1, <1>2, AuthAssumption DEF Ring
    <2> HIDE DEF written
    <2> QED
      BY <1>1, <2>1, <2>2, AuthAssumption DEF AuthTypeOK, Nonces
  <1>4. SlotsInv'
    <2> SUFFICES ASSUME NEW k \in Ring, challenges'[k].valid
                 PROVE  /\ challenges'[k].nonce \in boot + 1 .. new
                        /\ uses[challenges'[k].nonce] = 0
                        /\ challenges'[k].issued = born'[challenges'[k].nonce]
      BY <1>1 DEF SlotsInv
    <2>1. CASE k = next
      BY <1>1, <2>1
    <2>2. CASE k # next
      BY <1>1, <2>2 DEF AuthInv, SlotsInv, Nonces
    <2> QED
      BY <2>1, <2>2
  <1>5. NoncesInv'
    <2>1. \A n \in Nonces : n > issued' => uses'[n] = 0
      BY <1>1 DEF AuthInv, NoncesInv, Nonces
    <2>2. ASSUME NEW n \in Nonces, Outstanding(n)'
          PROVE  SlotOf(n)' \in Ring /\ Holds(SlotOf(n), n)'
      <3>1. /\ n > boot /\ n <= new /\ n > new - Slots /\ uses[n] = 0
            /\ now - born'[n] <= Life
        BY <1>1, <2>2 DEF Outstanding
      <3>2. CASE n = new
        <4>1. SlotOf(n)' = next
          BY <1>1, <1>2, <3>2, AuthAssumption DEF SlotOf, Ring
        <4> QED
          BY <1>1, <3>2, <4>1 DEF Holds
      <3>3. CASE n # new
        <4>1. n <= issued /\ n > issued - Slots /\ born'[n] = born[n]
          BY <1>1, <3>1, <3>3, AuthAssumption DEF Nonces
        <4>2. SlotOf(n) \in Ring /\ Holds(SlotOf(n), n)
          BY <1>1, <3>1, <4>1 DEF AuthInv, NoncesInv, Outstanding
        <4>3. SlotOf(n)' = SlotOf(n) /\ SlotOf(n) # next
          BY <1>1, <1>2, <3>1, <3>3, <4>1, AuthAssumption DEF SlotOf, Ring, Nonces
        <4> QED
          BY <1>1, <4>2, <4>3 DEF Holds
      <3> QED
        BY <3>2, <3>3
    <2> QED
      BY <2>1, <2>2 DEF NoncesInv, Nonces, Ring
  <1> QED
    BY <1>3, <1>4, <1>5 DEF AuthInv

\* A request uses up the challenge it names, if it is authorised or the challenge
\* is too old, and no other.
LEMMA VerifyInv ==
    ASSUME AuthInv, NEW n \in Nonces, n <= issued, NEW signed \in BOOLEAN, Verify(n, signed)
    PROVE  AuthInv'
  <1>1. /\ issued' = issued /\ boot' = boot /\ now' = now /\ next' = next /\ born' = born
        /\ uses' = IF Authorised(n, signed) THEN [uses EXCEPT ![n] = @ + 1] ELSE uses
        /\ \A k \in Ring : challenges'[k] = IF Consumed(k, n, signed)
                                            THEN [challenges[k] EXCEPT !.valid = FALSE]
                                            ELSE challenges[k]
        /\ challenges' \in [Ring -> Challenge]
    <2>1. \A k \in Ring : [challenges[k] EXCEPT !.valid = FALSE] \in Challenge
                          /\ challenges[k] \in Challenge
      BY DEF AuthInv, AuthTypeOK, Challenge
    <2> QED
      BY <2>1 DEF Verify
  <1>2. /\ uses \in [Nonces -> Nat] /\ uses' \in [Nonces -> Nat]
        /\ \A m \in Nonces : m # n => uses'[m] = uses[m]
        /\ uses'[n] = IF Authorised(n, signed) THEN uses[n] + 1 ELSE uses[n]
    BY <1>1 DEF AuthInv, AuthTypeOK
  <1>3. AuthTypeOK'
    BY <1>1, <1>2 DEF AuthInv, AuthTypeOK
  <1>4. ASSUME NEW k \in Ring, challenges'[k].valid
        PROVE  challenges'[k] = challenges[k] /\ ~Consumed(k, n, signed)
    <2>1. challenges[k] \in Challenge
      BY DEF AuthInv, AuthTypeOK
    <2> QED
      BY <1>1, <1>4, <2>1 DEF Challenge
  <1>5. ASSUME NEW k \in Ring, Holds(k, n), signed, ~Expired(k)
        PROVE  Authorised(n, signed)
    BY <1>5 DEF Authorised
  <1>6. SlotsInv'
    <2> SUFFICES ASSUME NEW k \in Ring, challenges'[k].valid
                 PROVE  /\ challenges[k].nonce \in boot + 1 .. issued
                        /\ uses'[challenges[k].nonce] = 0
                        /\ challenges[k].issued = born[challenges[k].nonce]
      BY <1>1, <1>4 DEF SlotsInv
    <2>1. /\ challenges[k].valid
          /\ challenges[k].nonce \in boot + 1 .. issued
          /\ uses[challenges[k].nonce] = 0
          /\ challenges[k].issued = born[challenges[k].nonce]
      BY <1>4 DEF AuthInv, SlotsInv
    <2>2. challenges[k].nonce \in Nonces
      BY <2>1, AuthAssumption DEF AuthInv, AuthTypeOK, Nonces
    <2>3. challenges[k].nonce = n => ~Authorised(n, signed)
      <3>1. ~Consumed(k, n, signed)
        BY <1>4
      <3> QED
        BY <2>1, <3>1 DEF Consumed, Holds, Authorised
    <2> QED
      BY <1>2, <2>1, <2>2, <2>3
  <1>7. NoncesInv'
    <2>1. ~Authorised(n, signed) \/ uses'[n] # 0
      BY <1>2
    <2>2. \A m \in Nonces : m > issued => uses'[m] = 0
      BY <1>2 DEF AuthInv, NoncesInv, AuthTypeOK, Nonces
    <2>3. ASSUME NEW m \in Nonces, Outstanding(m)'
          PROVE  SlotOf(m)' \in Ring /\ Holds(SlotOf(m), m)'
      <3>1. uses'[m] = 0 /\ now - born[m] <= Life
        BY <1>1, <2>3 DEF Outstanding
      <3>2. Outstanding(m)
        BY <1>1, <1>2, <2>3, <3>1 DEF Outstanding
      <3>3. SlotOf(m) \in Ring /\ Holds(SlotOf(m), m) /\ SlotOf(m)' = SlotOf(m)
        BY <1>1, <3>2 DEF AuthInv, NoncesInv, SlotOf
      <3>4. ~Expired(SlotOf(m))
        BY <3>1, <3>3, AuthAssumption
           DEF Expired, Holds, AuthInv, SlotsInv, AuthTypeOK
      <3>5. ~Consumed(SlotOf(m), n, signed)
        <4> SUFFICES ASSUME Consumed(SlotOf(m), n, signed) PROVE FALSE
          OBVIOUS
        <4>1. m = n /\ signed
          BY <3>3, <3>4 DEF Consumed, Holds
        <4> QED
          BY <1>5, <2>1, <3>1, <3>3, <3>4, <4>1
      <3> QED
        BY <1>1, <3>3, <3>5 DEF Holds
    <2> QED
      BY <1>1, <2>2, <2>3 DEF NoncesInv
  <1> QED
    BY <1>3, <1>6, <1>7 DEF AuthInv

\* Time makes challenges too old, and a restart forgets them.
LEMMA TickInv ==
    ASSUME AuthInv, Tick
    PROVE  AuthInv'
  <1>1. AuthTypeOK'
    BY AuthAssumption DEF AuthInv, AuthTypeOK, Tick
  <1>2. SlotsInv'
    BY DEF AuthInv, SlotsInv, Tick
  <1>3. ASSUME NEW n \in Nonces, Outstanding(n)'
        PROVE  Outstanding(n)
    BY <1>3, AuthAssumption DEF Outstanding, Tick, AuthInv, AuthTypeOK
  <1>4. NoncesInv'
    BY <1>3 DEF AuthInv, NoncesInv, Tick, SlotOf, Holds
  <1> QED
    BY <1>1, <1>2, <1>4 DEF AuthInv

LEMMA ForgetInv ==
    ASSUME AuthInv, Forget
    PROVE  AuthInv'
  BY AuthAssumption
     DEF Forget, AuthInv, AuthTypeOK, SlotsInv, NoncesInv, Ring, Unused, Challenge, Nonces,
         Outstanding

\* Every step keeps the invariant; stuttering does.
LEMMA AuthNextInv == AuthInv /\ [Next]_authVars => AuthInv'
  <1> SUFFICES ASSUME AuthInv, [Next]_authVars PROVE AuthInv'
    OBVIOUS
  <1>1. CASE UNCHANGED authVars
    BY <1>1
       DEF authVars, AuthInv, AuthTypeOK, SlotsInv, NoncesInv, Outstanding, SlotOf, Holds
  <1> QED
    BY <1>1, IssueInv, VerifyInv, TickInv, ForgetInv DEF Next

\* In every reachable state.
LEMMA AuthInvariant == Spec => []AuthInv
  BY AuthInitInv, AuthNextInv, PTL DEF Spec

\* Every variable of the challenges keeps its type.
THEOREM AuthTypeCorrect == Spec => []AuthTypeOK
  <1>1. AuthInv => AuthTypeOK
    BY DEF AuthInv
  <1> QED
    BY <1>1, AuthInvariant, PTL

\* One of the last Slots challenges of this boot works until it is used or too old.
LEMMA OutstandingFact == AuthInv => OutstandingWorks
  <1> SUFFICES ASSUME AuthInv, NEW n \in Nonces, Outstanding(n) PROVE Authorised(n, TRUE)
    BY DEF OutstandingWorks, Outstanding
  <1>1. SlotOf(n) \in Ring /\ Holds(SlotOf(n), n)
    BY DEF AuthInv, NoncesInv
  <1>2. challenges[SlotOf(n)].issued = born[n]
    BY <1>1 DEF Holds, AuthInv, SlotsInv
  <1>3. now - born[n] <= Life /\ now \in Nat /\ born[n] \in Nat
    BY AuthAssumption DEF Outstanding, AuthInv, AuthTypeOK
  <1>4. ~Expired(SlotOf(n))
    BY <1>2, <1>3, AuthAssumption DEF Expired
  <1> QED
    BY <1>1, <1>4 DEF Authorised

\* Up to Slots challenges can be outstanding, whatever their number.
THEOREM OutstandingWorksCorrect == Spec => []OutstandingWorks
  BY OutstandingFact, AuthInvariant, PTL

\* A request that is authorised uses an unused challenge of this boot in time.
LEMMA AuthorisedFact ==
    ASSUME AuthInv, [Next]_authVars, NEW n \in Nonces, uses'[n] # uses[n]
    PROVE  uses[n] = 0 /\ n > boot /\ now - born[n] <= Life
  <1>1. PICK m \in Nonces, signed \in BOOLEAN : Verify(m, signed)
    BY DEF Next, Issue, Tick, Forget, authVars
  <1>2. n = m /\ Authorised(n, signed)
    BY <1>1 DEF Verify, AuthInv, AuthTypeOK
  <1>3. PICK k \in Ring : Holds(k, n) /\ ~Expired(k)
    BY <1>2 DEF Authorised
  <1>4. n \in boot + 1 .. issued /\ uses[n] = 0 /\ challenges[k].issued = born[n]
    BY <1>3 DEF Holds, AuthInv, SlotsInv
  <1>5. now \in Nat /\ born[n] \in Nat /\ boot \in Nat /\ issued \in Nat
    BY AuthAssumption DEF AuthInv, AuthTypeOK
  <1>6. ~(now - born[n] > Life)
    BY <1>3, <1>4 DEF Expired
  <1> QED
    BY <1>4, <1>5, <1>6, AuthAssumption

\* A challenge authorises at most one request.
THEOREM AuthorisedOnceCorrect == Spec => AuthorisedOnce
  <1>1. ASSUME AuthInv, [Next]_authVars
        PROVE  \A n \in Nonces : uses'[n] # uses[n] =>
                  uses[n] = 0 /\ n > boot /\ now - born[n] <= Life
    BY <1>1, AuthorisedFact
  <1> QED
    BY <1>1, AuthInvariant, PTL DEF Spec, AuthorisedOnce

-----------------------------------------------------------------------------
(* Images                                                                  *)

\* An image that passed every check, or overtook one that did.
Trusted(p) == p \in passed \cup overtaken

\* The boot loader starts a solid image as often as it is asked to.
Solid(p) == mark[p] \in {"undefined", "valid"} /\ image[p] \in Images /\ Trusted(p)

\* A new image during its first start.
OnTrial(p) == mark[p] = "pending" /\ image[p] \in Images /\ Trusted(p)

\* There is always a way back: one of the partitions is solid, and so is what is
\* confirmed; what runs is solid or on trial; the server erases the other
\* partition only under a solid image, and what is selected may be started.
RunsInv ==
    /\ phase # "off" => Solid(running) \/ OnTrial(running)
    /\ phase \in {"starting", "serving"} => (pending <=> mark[running] = "pending")
    /\ phase = "up" => ~pending /\ mark[running] # "pending"
    /\ upload # NoUpload => phase \in {"serving", "up"} /\ Solid(running)
                            /\ Target \notin proven

WayBack ==
    /\ \A p \in Parts : Solid(p) \/ Solid(Other(p))
    /\ \A p \in proven : Solid(p)
    /\ Trusted(selected)

Uploads == [image : Images \cup {Partial}, digest : BOOLEAN,
            place : {"none", "receiving", "written"}]

OtaTypeOK ==
    /\ image \in [Parts -> Images \cup {Partial}]
    /\ mark \in [Parts -> Marks]
    /\ selected \in Parts /\ running \in Parts
    /\ phase \in {"off", "starting", "serving", "up"}
    /\ upload \in Uploads
    /\ passed \subseteq Parts /\ overtaken \subseteq Parts /\ proven \subseteq Parts
    /\ faults \in 0 .. MaxFaults

OtaFlags == pending \in BOOLEAN /\ restartDue \in BOOLEAN

OtaInv == OtaTypeOK /\ RunsInv /\ WayBack

\* The two partitions.
LEMMA OtherFacts ==
    ASSUME NEW p \in Parts
    PROVE  /\ Other(p) \in Parts /\ Other(p) # p /\ Other(Other(p)) = p
           /\ \A q \in Parts : q = p \/ q = Other(p)
  <1>1. PICK q \in Parts : q # FirstPart /\ Parts = {FirstPart, q}
    BY FirmwareAssumption
  <1>2. \A r \in Parts : \E s \in Parts : s # r
    BY <1>1
  <1>3. \A r \in Parts : Other(r) \in Parts /\ Other(r) # r
    BY <1>2 DEF Other
  <1> QED
    BY <1>1, <1>3

\* The record of an upload.
LEMMA UploadFacts ==
    /\ NoUpload \in Uploads
    /\ \A u \in Uploads : u.place # "none" => u # NoUpload
    /\ \A u \in Uploads : u.image \in Images \cup {Partial}
    /\ \A u \in Uploads : [u EXCEPT !.place = "written"] \in Uploads
    /\ \A i \in Images, digest \in BOOLEAN :
          [image |-> i, digest |-> digest, place |-> "receiving"] \in Uploads
  BY DEF Uploads, NoUpload

-----------------------------------------------------------------------------
(* Every step is one of AuthChallenge, or leaves the challenges alone      *)

LEMMA UpdateStepCases ==
    ASSUME [UpdateNext]_allVars
    PROVE  \/ Boot \/ StartServing \/ StartServingFlawed \/ Confirm \/ Complete
           \/ StartFails \/ PowerLost \/ DelayedRestart
           \/ ChallengeRequest
           \/ \E n \in Nonces, signed \in BOOLEAN : RequestRefused(n, signed)
           \/ \E n \in Nonces : RebootRequest(n)
           \/ \E n \in Nonces, i \in Images, digest \in BOOLEAN : OtaBegins(n, i, digest)
           \/ Written \/ Aborted \/ Refused \/ Accepted
           \/ TimePasses
           \/ UNCHANGED allVars
  BY DEF UpdateNext, Startup, Transfer

LEMMA AuthSteps == [UpdateNext]_allVars => [Next]_authVars
  <1> SUFFICES ASSUME [UpdateNext]_allVars PROVE [Next]_authVars
    OBVIOUS
  <1>1. CASE Boot \/ StartServing \/ StartServingFlawed \/ Confirm \/ Complete
             \/ Written \/ Aborted \/ Refused \/ Accepted \/ UNCHANGED allVars
    BY <1>1, Zenon
       DEF Boot, StartServing, StartServingFlawed, Confirm, Complete, Written, Aborted,
           Refused, Accepted, allVars
  <1>2. CASE StartFails \/ PowerLost \/ DelayedRestart
    BY <1>2, Zenon DEF StartFails, PowerLost, DelayedRestart, Reset, Next
  <1>3. CASE ChallengeRequest \/ TimePasses
    BY <1>3, Zenon DEF ChallengeRequest, TimePasses, Next
  <1>4. ASSUME NEW n \in Nonces, NEW signed \in BOOLEAN, Request(n, signed)
        PROVE  [Next]_authVars
    BY <1>4, Zenon DEF Request, Next
  <1>5. CASE \/ \E n \in Nonces, signed \in BOOLEAN : RequestRefused(n, signed)
             \/ \E n \in Nonces : RebootRequest(n)
             \/ \E n \in Nonces, i \in Images, digest \in BOOLEAN : OtaBegins(n, i, digest)
    BY <1>4, <1>5, Zenon DEF RequestRefused, RebootRequest, OtaBegins
  <1> QED
    BY <1>1, <1>2, <1>3, <1>5, UpdateStepCases

\* The management interface uses its challenges as AuthChallenge specifies.
THEOREM UpdateImplementsAuth == UpdateSpec => Spec
  <1>1. UpdateInit => Init
    BY DEF UpdateInit
  <1> QED
    BY <1>1, AuthSteps, PTL DEF UpdateSpec, Spec

\* A challenge authorises at most one request, also across updates and restarts.
THEOREM UpdateAuthorisedOnce == UpdateSpec => AuthorisedOnce
  BY UpdateImplementsAuth, AuthorisedOnceCorrect, PTL

\* Up to Slots challenges can be outstanding while updates and restarts happen.
THEOREM UpdateOutstandingWorks == UpdateSpec => []OutstandingWorks
  BY UpdateImplementsAuth, OutstandingWorksCorrect, PTL

-----------------------------------------------------------------------------
(* The partitions                                                          *)

\* The installed image is solid.
LEMMA UpdateInitInv == UpdateInit => OtaInv /\ OtaFlags
  <1> SUFFICES ASSUME UpdateInit PROVE OtaInv /\ OtaFlags
    OBVIOUS
  <1>1. OtaTypeOK
    BY FirmwareAssumption, UploadFacts DEF UpdateInit, OtaTypeOK, Marks
  <1>2. Solid(FirstPart)
    BY FirmwareAssumption DEF UpdateInit, Solid, Trusted
  <1>3. WayBack
    BY <1>2, OtherFacts, FirmwareAssumption DEF UpdateInit, WayBack, Trusted
  <1>4. RunsInv
    BY DEF UpdateInit, RunsInv
  <1> QED
    BY <1>1, <1>3, <1>4, Zenon DEF OtaInv, OtaFlags, UpdateInit

\* A step that leaves the partitions and what is known of them alone.
Untouched == UNCHANGED <<image, mark, selected, running, passed, overtaken, proven>>

LEMMA UntouchedSolid ==
    ASSUME Untouched
    PROVE  /\ WayBack' <=> WayBack
           /\ Solid(running)' <=> Solid(running)
           /\ OnTrial(running)' <=> OnTrial(running)
           /\ Target' = Target
  BY DEF Untouched, WayBack, Solid, OnTrial, Trusted, Target

\* The boot loader finds an image that can be started.
LEMMA BootInv ==
    ASSUME OtaInv, Boot
    PROVE  /\ OtaInv'
           /\ Trusted(running)'
           /\ selected \in proven => running' = selected
  <1> DEFINE given == [p \in Parts |-> IF mark[p] = "pending" THEN "aborted" ELSE mark[p]]
             choice == IF given[selected] \in Rejected THEN Other(selected) ELSE selected
             after == [given EXCEPT ![choice] = IF @ = "new" THEN "pending" ELSE @]
             fit == IF image[choice] \in Images THEN choice ELSE Other(choice)
  <1>1. /\ image' = image /\ passed' = passed /\ overtaken' = overtaken /\ proven' = proven
        /\ upload' = upload /\ faults' = faults
        /\ phase = "off" /\ phase' = "starting"
        /\ selected' = choice /\ mark' = after /\ running' = fit
        /\ pending' = (after[fit] = "pending")
    BY DEF Boot
  <1>2. /\ selected \in Parts /\ mark \in [Parts -> Marks] /\ upload = NoUpload
        /\ image \in [Parts -> Images \cup {Partial}] /\ proven \subseteq Parts
        /\ \A p \in Parts : Solid(p) \/ Solid(Other(p))
        /\ \A p \in proven : Solid(p)
        /\ Trusted(selected)
    BY <1>1 DEF OtaInv, OtaTypeOK, RunsInv, WayBack
  <1>3. /\ choice \in Parts /\ fit \in Parts
        /\ choice = selected \/ choice = Other(selected)
        /\ fit = choice \/ fit = Other(choice)
    BY <1>2, OtherFacts
  <1>4. given \in [Parts -> Marks] /\ after \in [Parts -> Marks]
    BY <1>2, <1>3 DEF Marks
  <1>5. ASSUME NEW p \in Parts, Solid(p)
        PROVE  given[p] = mark[p] /\ after[p] = mark[p]
    BY <1>2, <1>3, <1>5 DEF Solid
  <1>6. ASSUME NEW p \in Parts, Solid(p)
        PROVE  Solid(p)'
    BY <1>1, <1>5, <1>6 DEF Solid, Trusted
  <1>7. Solid(fit) \/ (fit = selected /\ after[fit] = "pending" /\ image[fit] \in Images)
    <2>1. CASE given[selected] \in Rejected
      <3>1. choice = Other(selected) /\ ~Solid(selected)
        BY <1>2, <1>5, <2>1 DEF Solid, Rejected
      <3> QED
        BY <1>2, <3>1 DEF Solid
    <2>2. CASE given[selected] \notin Rejected /\ image[selected] \notin Images
      <3>1. choice = selected /\ fit = Other(selected) /\ ~Solid(selected)
        BY <2>2 DEF Solid
      <3> QED
        BY <1>2, <3>1
    <2>3. CASE given[selected] \notin Rejected /\ image[selected] \in Images
      <3>1. choice = selected /\ fit = selected
        BY <2>3
      <3>2. mark[selected] \in {"undefined", "new", "valid"} /\ given[selected] = mark[selected]
        BY <1>2, <2>3 DEF Marks, Rejected
      <3>3. mark[selected] = "new" => after[selected] = "pending"
        BY <1>2, <3>1, <3>2, <1>4
      <3> QED
        BY <1>2, <2>3, <3>1, <3>2, <3>3 DEF Solid
    <2> QED
      BY <2>1, <2>2, <2>3
  <1>8. Solid(fit) => Trusted(fit)
    BY DEF Solid
  <1>9. Trusted(running)' /\ (Solid(running)' \/ OnTrial(running)')
    BY <1>1, <1>2, <1>3, <1>6, <1>7, <1>8 DEF Trusted, OnTrial, Solid
  <1>10. Trusted(selected)'
    <2>1. Other(selected) = choice => Trusted(choice)
      BY <1>2, <1>3, <1>5, OtherFacts DEF Solid, Rejected
    <2> QED
      BY <1>1, <1>2, <1>3, <2>1 DEF Trusted
  <1>11. ASSUME selected \in proven
         PROVE  running' = selected
    <2>1. Solid(selected)
      BY <1>2, <1>11
    <2> QED
      BY <1>1, <1>2, <1>5, <2>1 DEF Solid, Rejected
  <1>12. WayBack'
    BY <1>1, <1>2, <1>6, <1>10, OtherFacts DEF WayBack
  <1>13. RunsInv'
    BY <1>1, <1>2, <1>9 DEF RunsInv
  <1>14. OtaTypeOK'
    BY <1>1, <1>3, <1>4 DEF OtaInv, OtaTypeOK
  <1> QED
    BY <1>9, <1>11, <1>12, <1>13, <1>14 DEF OtaInv

\* Startup and restarts that change no partition.
LEMMA PhaseInv ==
    ASSUME OtaInv,
           StartServing \/ StartServingFlawed \/ PowerLost \/ DelayedRestart
    PROVE  OtaInv'
  <1>1. Untouched
    BY DEF Untouched, StartServing, StartServingFlawed, PowerLost, DelayedRestart
  <1>2. /\ faults' = faults \/ (faults' = faults + 1 /\ faults < MaxFaults)
        /\ \/ phase' = "off" /\ upload' = NoUpload
           \/ phase = "starting" /\ phase' = "serving" /\ pending' = pending
              /\ upload' = upload
    BY DEF StartServing, StartServingFlawed, PowerLost, DelayedRestart, Reset
  <1>3. /\ phase' \in {"off", "starting", "serving", "up"}
        /\ upload' = upload \/ upload' = NoUpload
        /\ faults' \in 0 .. MaxFaults
    BY <1>2, FirmwareAssumption DEF OtaInv, OtaTypeOK
  <1>4. OtaTypeOK'
    BY <1>1, <1>3, UploadFacts DEF Untouched, OtaInv, OtaTypeOK
  <1>5. RunsInv'
    <2>1. CASE phase' = "off"
      BY <1>2, <2>1 DEF RunsInv
    <2>2. CASE phase' # "off"
      BY <1>1, <1>2, <2>2, UntouchedSolid DEF OtaInv, RunsInv, Untouched
    <2> QED
      BY <2>1, <2>2
  <1> QED
    BY <1>1, <1>4, <1>5, UntouchedSolid DEF OtaInv

\* A confirmed image was on trial; one that came up unasked was solid before.
LEMMA ConfirmInv ==
    ASSUME OtaInv, OtaFlags, Confirm \/ Complete
    PROVE  OtaInv'
  <1>1. /\ image' = image /\ selected' = selected /\ running' = running /\ upload' = upload
        /\ passed' = passed /\ overtaken' = overtaken /\ faults' = faults
        /\ proven' = proven \cup {running} /\ ~pending' /\ phase = "serving"
        /\ running \in Parts
    BY DEF Confirm, Complete, OtaInv, OtaTypeOK
  <1>2. \/ phase' = phase /\ pending /\ mark' = [mark EXCEPT ![running] = "valid"]
        \/ phase' = "up" /\ ~pending /\ mark' = mark
    BY DEF Confirm, Complete, ConfirmedMark
  <1>3. /\ Solid(running) \/ OnTrial(running)
        /\ pending <=> mark[running] = "pending"
        /\ mark \in [Parts -> Marks]
    BY <1>1 DEF OtaInv, RunsInv, OtaTypeOK
  <1>4. mark' \in [Parts -> Marks] /\ mark'[running] \in {"undefined", "valid"}
        /\ \A p \in Parts \ {running} : mark'[p] = mark[p]
    BY <1>1, <1>2, <1>3 DEF Marks, Solid, OnTrial
  <1>5. Solid(running)'
    BY <1>1, <1>3, <1>4 DEF Solid, OnTrial, Trusted
  <1>6. \A p \in Parts : Solid(p) => Solid(p)'
    BY <1>1, <1>4, <1>5 DEF Solid, Trusted
  <1>7. OtaTypeOK'
    BY <1>1, <1>2, <1>4 DEF OtaInv, OtaTypeOK
  <1>8. WayBack'
    BY <1>1, <1>5, <1>6, OtherFacts DEF OtaInv, WayBack, OtaTypeOK, Trusted
  <1>9. RunsInv'
    <2>1. upload # NoUpload => Target' \notin proven'
      BY <1>1, OtherFacts DEF OtaInv, RunsInv, Target
    <2> QED
      BY <1>1, <1>2, <1>4, <1>5, <2>1 DEF RunsInv
  <1> QED
    BY <1>7, <1>8, <1>9 DEF OtaInv

\* A startup that fails gives the image up only if it was on trial.
LEMMA StartFailsInv ==
    ASSUME OtaInv, OtaFlags, StartFails
    PROVE  OtaInv'
  <1>1. /\ image' = image /\ selected' = selected /\ running' = running
        /\ passed' = passed /\ overtaken' = overtaken /\ proven' = proven
        /\ phase \in {"starting", "serving"} /\ phase' = "off" /\ upload' = NoUpload
        /\ mark' = [mark EXCEPT ![running] = MarkOnFailure]
        /\ running \in Parts /\ mark \in [Parts -> Marks]
    BY DEF StartFails, Reset, OtaInv, OtaTypeOK
  <1>2. faults' = faults \/ (faults' = faults + 1 /\ faults < MaxFaults)
    BY DEF StartFails
  <1>3. MarkOnFailure = IF mark[running] = "pending" THEN "invalid" ELSE mark[running]
    BY <1>1 DEF MarkOnFailure, OtaInv, RunsInv
  <1>4. \A p \in Parts : Solid(p) => Solid(p)'
    BY <1>1, <1>3 DEF Solid, Trusted
  <1>5. OtaTypeOK'
    <2>1. mark' \in [Parts -> Marks]
      BY <1>1, <1>3 DEF Marks
    <2>2. faults' \in 0 .. MaxFaults
      BY <1>2, FirmwareAssumption DEF OtaInv, OtaTypeOK
    <2> QED
      BY <1>1, <2>1, <2>2, UploadFacts DEF OtaInv, OtaTypeOK
  <1>6. WayBack'
    BY <1>1, <1>4, OtherFacts DEF OtaInv, OtaTypeOK, WayBack, Trusted
  <1>7. RunsInv'
    BY <1>1 DEF RunsInv
  <1> QED
    BY <1>5, <1>6, <1>7 DEF OtaInv

\* The server erases the other partition under a solid image.
LEMMA OtaBeginsInv ==
    ASSUME OtaInv, OtaFlags, NEW i \in Images, NEW digest \in BOOLEAN,
           Listening, mark[running] # "pending",
           image' = [image EXCEPT ![Target] = Partial],
           upload' = [image |-> i, digest |-> digest, place |-> "receiving"],
           passed' = passed \ {Target},
           proven' = proven \ {Target},
           overtaken' = IF selected = Target THEN overtaken \cup {Target} ELSE overtaken,
           UNCHANGED <<mark, selected, running, phase, pending, restartDue, faults>>
    PROVE  OtaInv'
  <1>1. /\ running \in Parts /\ Target \in Parts /\ Target # running /\ Target' = Target
        /\ \A p \in Parts : p = running \/ p = Target
        /\ Other(running) = Target /\ Other(Target) = running
        /\ phase \in {"serving", "up"}
    BY OtherFacts DEF Target, OtaInv, OtaTypeOK, Listening
  <1>2. Solid(running)
    BY <1>1 DEF OtaInv, RunsInv, OnTrial
  <1>3. Solid(running)'
    BY <1>1, <1>2 DEF Solid, Trusted, OtaInv, OtaTypeOK
  <1>4. OtaTypeOK'
    <2>1. upload' \in Uploads
      BY UploadFacts
    <2> QED
      BY <1>1, <2>1 DEF OtaInv, OtaTypeOK
  <1>5. WayBack'
    <2>1. \A p \in proven' : Solid(p)'
      BY <1>1, <1>3 DEF OtaInv, OtaTypeOK
    <2>2. Trusted(selected)'
      BY <1>1 DEF OtaInv, WayBack, Trusted
    <2> QED
      BY <1>1, <1>3, <2>1, <2>2 DEF WayBack
  <1>6. RunsInv'
    BY <1>1, <1>3 DEF OtaInv, RunsInv
  <1> QED
    BY <1>4, <1>5, <1>6 DEF OtaInv

\* What follows touches the other partition only.
LEMMA TransferInv ==
    ASSUME OtaInv, Written \/ Aborted \/ Refused \/ Accepted
    PROVE  OtaInv'
  <1>1. /\ running \in Parts /\ Target \in Parts /\ Target # running /\ Target' = Target
        /\ \A p \in Parts : p = running \/ p = Target
        /\ Other(running) = Target /\ Other(Target) = running
        /\ running' = running /\ phase' = phase /\ pending' = pending
        /\ proven' = proven /\ faults' = faults
    BY OtherFacts DEF Target, OtaInv, OtaTypeOK, Written, Aborted, Refused, Accepted
  <1>2. upload \in Uploads /\ upload # NoUpload
    BY UploadFacts DEF Written, Aborted, Refused, Accepted, OtaInv, OtaTypeOK
  <1>3. Solid(running) /\ Target \notin proven /\ phase \in {"serving", "up"}
    BY <1>2 DEF OtaInv, RunsInv
  <1>4. /\ image' \in [Parts -> Images \cup {Partial}] /\ image'[running] = image[running]
        /\ mark' \in [Parts -> Marks] /\ mark'[running] = mark[running]
        /\ \/ selected' = selected /\ passed' = passed /\ overtaken' = overtaken
           \/ selected' = Target /\ passed' = passed \cup {Target}
              /\ overtaken' = overtaken \ {Target}
    <2>1. image \in [Parts -> Images \cup {Partial}] /\ mark \in [Parts -> Marks]
          /\ upload.image \in Images \cup {Partial} /\ "new" \in Marks
      BY <1>2, UploadFacts DEF OtaInv, OtaTypeOK, Marks
    <2>2. CASE Written
      BY <1>1, <2>1, <2>2 DEF Written
    <2>3. CASE Aborted \/ Refused
      BY <2>1, <2>3 DEF Aborted, Refused
    <2>4. CASE Accepted
      BY <1>1, <2>1, <2>4 DEF Accepted, Passes
    <2> QED
      BY <2>2, <2>3, <2>4
  <1>5. upload' \in Uploads
    BY <1>2, UploadFacts DEF Written, Aborted, Refused, Accepted
  <1>6. Solid(running)'
    BY <1>1, <1>3, <1>4 DEF Solid, Trusted
  <1>7. OtaTypeOK'
    BY <1>1, <1>4, <1>5 DEF OtaInv, OtaTypeOK
  <1>8. WayBack'
    <2>1. \A p \in proven' : Solid(p)'
      BY <1>1, <1>3, <1>6 DEF OtaInv, OtaTypeOK
    <2>2. Trusted(selected)'
      BY <1>1, <1>4 DEF OtaInv, WayBack, Trusted
    <2> QED
      BY <1>1, <1>6, <2>1, <2>2 DEF WayBack
  <1>9. RunsInv'
    BY <1>1, <1>3, <1>4, <1>6 DEF OtaInv, RunsInv
  <1> QED
    BY <1>7, <1>8, <1>9 DEF OtaInv

\* The Boolean variables stay Boolean.
LEMMA FlagsKept ==
    ASSUME OtaFlags, [UpdateNext]_allVars
    PROVE  OtaFlags'
  <1> USE DEF OtaFlags, Reset
  <1>1. CASE Boot \/ StartServing \/ StartServingFlawed \/ Confirm \/ Complete
    BY <1>1, Zenon DEF Boot, StartServing, StartServingFlawed, Confirm, Complete
  <1>2. CASE StartFails \/ PowerLost \/ DelayedRestart
    BY <1>2, Zenon DEF StartFails, PowerLost, DelayedRestart
  <1>3. CASE ChallengeRequest \/ TimePasses \/ UNCHANGED allVars
    BY <1>3, Zenon DEF ChallengeRequest, TimePasses, allVars, otaVars
  <1>4. CASE \/ \E n \in Nonces, signed \in BOOLEAN : RequestRefused(n, signed)
             \/ \E n \in Nonces : RebootRequest(n)
             \/ \E n \in Nonces, i \in Images, digest \in BOOLEAN : OtaBegins(n, i, digest)
    BY <1>4, Zenon DEF RequestRefused, RebootRequest, OtaBegins, otaVars
  <1>5. CASE Written \/ Aborted \/ Refused \/ Accepted
    BY <1>5, Zenon DEF Written, Aborted, Refused, Accepted
  <1> QED
    BY <1>1, <1>2, <1>3, <1>4, <1>5, UpdateStepCases

\* Every step keeps the way back.
LEMMA UpdateNextInv == OtaInv /\ OtaFlags /\ [UpdateNext]_allVars => (OtaInv /\ OtaFlags)'
  <1> SUFFICES ASSUME OtaInv, OtaFlags, [UpdateNext]_allVars PROVE OtaInv'
    BY FlagsKept
  <1>1. ASSUME Untouched, UNCHANGED <<phase, pending, upload, faults>>
        PROVE  OtaInv'
    <2>1. OtaTypeOK'
      BY <1>1 DEF Untouched, OtaInv, OtaTypeOK
    <2>2. RunsInv'
      BY <1>1, UntouchedSolid DEF Untouched, OtaInv, RunsInv
    <2> QED
      BY <1>1, <2>1, <2>2, UntouchedSolid DEF OtaInv
  <1>2. CASE UNCHANGED otaVars
    BY <1>1, <1>2 DEF Untouched, otaVars
  <1>3. CASE \/ ChallengeRequest \/ TimePasses \/ UNCHANGED allVars
             \/ \E n \in Nonces, signed \in BOOLEAN : RequestRefused(n, signed)
    BY <1>2, <1>3, Zenon DEF ChallengeRequest, TimePasses, RequestRefused, allVars
  <1>4. CASE \E n \in Nonces : RebootRequest(n)
    BY <1>1, <1>4 DEF RebootRequest, Untouched
  <1>5. ASSUME NEW n \in Nonces, NEW i \in Images, NEW digest \in BOOLEAN,
               OtaBegins(n, i, digest)
        PROVE  OtaInv'
    <2>1. CASE mark[running] = "pending"
      BY <1>2, <1>5, <2>1 DEF OtaBegins
    <2>2. CASE mark[running] # "pending"
      <3>1. /\ Listening
            /\ image' = [image EXCEPT ![Target] = Partial]
            /\ upload' = [image |-> i, digest |-> digest, place |-> "receiving"]
            /\ passed' = passed \ {Target}
            /\ proven' = proven \ {Target}
            /\ overtaken' = IF selected = Target THEN overtaken \cup {Target} ELSE overtaken
            /\ UNCHANGED <<mark, selected, running, phase, pending, restartDue, faults>>
        BY <1>5, <2>2 DEF OtaBegins
      <3> QED
        BY <2>2, <3>1, OtaBeginsInv
    <2> QED
      BY <2>1, <2>2
  <1> QED
    BY <1>3, <1>4, <1>5, BootInv, PhaseInv, ConfirmInv, StartFailsInv, TransferInv,
       UpdateStepCases

LEMMA UpdateInvariant == UpdateSpec => [](OtaInv /\ OtaFlags)
  BY UpdateInitInv, UpdateNextInv, PTL DEF UpdateSpec

\* Every variable keeps its type, and pending_verify says what the OTA data say.
THEOREM UpdateTypeCorrect == UpdateSpec => []UpdateTypeOK
  <1>1. AuthTypeOK /\ OtaInv /\ OtaFlags => UpdateTypeOK
    BY Zenon DEF OtaInv, OtaTypeOK, OtaFlags, RunsInv, Uploads, UpdateTypeOK
  <1> QED
    BY <1>1, UpdateInvariant, UpdateImplementsAuth, AuthTypeCorrect, PTL

\* A restart begins with the step of the boot loader.
LEMMA OnlyBootStarts ==
    ASSUME [UpdateNext]_allVars, phase = "off", phase' = "starting"
    PROVE  Boot
  BY UpdateStepCases
     DEF StartServing, StartServingFlawed, Confirm, Complete, StartFails, PowerLost, Reset,
         DelayedRestart, ChallengeRequest, RequestRefused, RebootRequest, OtaBegins, Written,
         Aborted, Refused, Accepted, TimePasses, allVars, otaVars

\* No image is started that failed a check, except one whose upload rewrote the
\* partition that an accepted image had made the selected one.
THEOREM OnlyPassedStartsCorrect == UpdateSpec => OnlyPassedStarts
  <1>1. ASSUME OtaInv, [UpdateNext]_allVars, phase = "off", phase' = "starting"
        PROVE  running' \in passed \cup overtaken
    <2>1. Boot
      BY <1>1, OnlyBootStarts
    <2>2. Trusted(running)' /\ passed' = passed /\ overtaken' = overtaken
      BY <1>1, <2>1, BootInv DEF Boot
    <2> QED
      BY <2>2 DEF Trusted
  <1>2. OtaInv /\ OtaFlags /\ [UpdateNext]_allVars
           => [phase = "off" /\ phase' = "starting" => running' \in passed \cup overtaken]_allVars
    BY <1>1
  <1> QED
    BY <1>2, UpdateInvariant, PTL DEF UpdateSpec, OnlyPassedStarts

\* A proven image is started again after every restart, until another is accepted.
THEOREM ProvenStartsAgainCorrect == UpdateSpec => ProvenStartsAgain
  <1>1. ASSUME OtaInv, [UpdateNext]_allVars, phase = "off", phase' = "starting",
               selected = running, running \in proven
        PROVE  running' = running
    BY <1>1, OnlyBootStarts, BootInv
  <1>2. OtaInv /\ OtaFlags /\ [UpdateNext]_allVars
           => [(phase = "off" /\ phase' = "starting" /\ selected = running /\ running \in proven)
                  => running' = running]_allVars
    BY <1>1
  <1> QED
    BY <1>2, UpdateInvariant, PTL DEF UpdateSpec, ProvenStartsAgain
=============================================================================
