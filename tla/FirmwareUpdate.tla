---------------------------- MODULE FirmwareUpdate ----------------------------
(***************************************************************************)
(* Updates of the firmware and restarts over HTTP (src/main/web_admin.c),  *)
(* authorised by AuthChallenge, and the start of the new image that        *)
(* confirms or rejects it (src/main/app_main.c).  The HTTP server has one  *)
(* task: while an image is received no other request is handled.  The boot *)
(* loader and the OTA library of ESP-IDF are external.                     *)
(***************************************************************************)
EXTENDS AuthChallenge

CONSTANTS
    Images,     \* complete images
    Working,    \* those whose startup succeeds when the hardware works
    Ours,       \* those with the project name of this firmware
    Factory,    \* the image that was installed over USB
    Partial,    \* what an interrupted write leaves
    Parts,      \* the two application partitions
    FirstPart,  \* the one the installer writes
    MaxFaults   \* bound on failures of the hardware and losses of power

ASSUME FirmwareAssumption ==
    /\ Working \subseteq Images /\ Ours \subseteq Images
    /\ Factory \in Working \cap Ours /\ Partial \notin Images
    /\ FirstPart \in Parts /\ \E q \in Parts \ {FirstPart} : Parts = {FirstPart, q}
    /\ MaxFaults \in Nat

VARIABLES
    image,      \* the content of each partition
    mark,       \* the state of each partition in the OTA data
    selected,   \* the partition the OTA data select
    running,    \* the partition of the running image
    phase,      \* off, starting, serving: HTTP is up, or up: startup complete
    pending,    \* pending_verify of app_main
    upload,     \* ota_handler: the image it receives, whether its digest is right
    restartDue, \* a delayed_restart_task exists
    passed,     \* history: partitions whose image passed every check
    overtaken,  \* history: partitions rewritten after they had been selected
    proven,     \* history: partitions whose image was confirmed or came up
    faults      \* spent of the bound

otaVars == <<image, mark, selected, running, phase, pending, upload, restartDue,
             passed, overtaken, proven, faults>>
allVars == <<authVars, otaVars>>

NoUpload == [image |-> Partial, digest |-> FALSE, place |-> "none"]
Other(p) == CHOOSE q \in Parts : q # p

UpdateInit ==
    /\ Init
    /\ image = [p \in Parts |-> IF p = FirstPart THEN Factory ELSE Partial]
    /\ mark = [p \in Parts |-> "undefined"]
    /\ selected = FirstPart /\ running = FirstPart
    /\ phase = "off" /\ pending = FALSE
    /\ upload = NoUpload /\ restartDue = FALSE
    /\ passed = {FirstPart} /\ overtaken = {} /\ proven = {FirstPart}
    /\ faults = 0

-----------------------------------------------------------------------------
(* Startup *)

Rejected == {"invalid", "aborted"}

\* The boot loader gives up an image that was still to be confirmed at the last
\* restart, and takes the other partition if the image of its choice is unfit.
Boot ==
    LET given == [p \in Parts |-> IF mark[p] = "pending" THEN "aborted" ELSE mark[p]]
        choice == IF given[selected] \in Rejected THEN Other(selected) ELSE selected
        after == [given EXCEPT ![choice] = IF @ = "new" THEN "pending" ELSE @]
        fit == IF image[choice] \in Images THEN choice ELSE Other(choice)
    IN /\ phase = "off"
       /\ image[fit] \in Images
       /\ selected' = choice
       /\ mark' = after
       /\ running' = fit
       /\ pending' = (after[fit] = "pending")
       /\ phase' = "starting"
       /\ UNCHANGED <<authVars, image, upload, restartDue, passed, overtaken, proven, faults>>

\* Whatever is in RAM is lost.
Reset ==
    /\ phase' = "off"
    /\ pending' = FALSE /\ upload' = NoUpload /\ restartDue' = FALSE
    /\ Forget

StartsWell == image[running] \in Working

\* app_main up to web_admin_start.
StartServing ==
    /\ phase = "starting" /\ StartsWell
    /\ phase' = "serving"
    /\ UNCHANGED <<authVars, image, mark, selected, running, pending, upload, restartDue,
                   passed, overtaken, proven, faults>>

\* A flawed image may fail as late as in usb_setup_start.
StartServingFlawed ==
    /\ phase = "starting" /\ ~StartsWell
    /\ phase' = "serving"
    /\ UNCHANGED <<authVars, image, mark, selected, running, pending, upload, restartDue,
                   passed, overtaken, proven, faults>>

\* Slip: the image is confirmed before its startup is complete.
MayConfirmEarly == TRUE

\* usb_setup_start has succeeded.
MayConfirm == StartsWell

ConfirmedMark == "valid"

\* esp_ota_mark_app_valid_cancel_rollback
Confirm ==
    /\ phase = "serving" /\ pending
    /\ MayConfirm
    /\ mark' = [mark EXCEPT ![running] = ConfirmedMark]
    /\ pending' = FALSE
    /\ proven' = proven \cup {running}
    /\ UNCHANGED <<authVars, image, selected, running, phase, upload, restartDue,
                   passed, overtaken, faults>>

\* bacnet_app_startup_complete
Complete ==
    /\ phase = "serving" /\ StartsWell /\ ~pending
    /\ phase' = "up"
    /\ proven' = proven \cup {running}
    /\ UNCHANGED <<authVars, image, mark, selected, running, pending, upload, restartDue,
                   passed, overtaken, faults>>

\* Slip: an image that had been confirmed is given up too.
InvalidOnFailure == "invalid"

MarkOnFailure == IF pending THEN "invalid" ELSE mark[running]

\* fatal_startup_error: a pending image is marked invalid, any other restarts.
StartFails ==
    /\ phase \in {"starting", "serving"}
    /\ \/ ~StartsWell /\ UNCHANGED faults
       \/ StartsWell /\ faults < MaxFaults /\ faults' = faults + 1
    /\ mark' = [mark EXCEPT ![running] = MarkOnFailure]
    /\ Reset
    /\ UNCHANGED <<image, selected, running, passed, overtaken, proven>>

\* The power is lost, or the watchdog resets the chip.
PowerLost ==
    /\ phase # "off"
    /\ faults < MaxFaults /\ faults' = faults + 1
    /\ Reset
    /\ UNCHANGED <<image, mark, selected, running, passed, overtaken, proven>>

-----------------------------------------------------------------------------
(* The HTTP server *)

Listening == phase \in {"serving", "up"} /\ upload = NoUpload

\* challenge_handler
ChallengeRequest ==
    /\ Listening
    /\ Issue
    /\ UNCHANGED otaVars

\* The requests whose challenges were issued, with a right or a wrong signature;
\* none is withdrawn, so a client may repeat them.
Request(n, signed) == n <= issued /\ Verify(n, signed)

RequestRefused(n, signed) ==
    /\ Listening /\ ~Authorised(n, signed)
    /\ Request(n, signed)
    /\ UNCHANGED otaVars

\* reboot_handler; the task may not be created.
RebootRequest(n) ==
    /\ Listening /\ Authorised(n, TRUE)
    /\ Request(n, TRUE)
    /\ restartDue' \in {TRUE, restartDue}
    /\ UNCHANGED <<image, mark, selected, running, phase, pending, upload,
                   passed, overtaken, proven, faults>>

\* esp_ota_get_next_update_partition, and the size check before the signature.
Target == Other(running)

\* esp_ota_begin refuses while the running image is pending; else it erases.
OtaBegins(n, i, digest) ==
    /\ Listening /\ Authorised(n, TRUE)
    /\ Request(n, TRUE)
    /\ IF mark[running] = "pending"
       THEN UNCHANGED otaVars
       ELSE /\ image' = [image EXCEPT ![Target] = Partial]
            /\ upload' = [image |-> i, digest |-> digest, place |-> "receiving"]
            /\ passed' = passed \ {Target}
            /\ proven' = proven \ {Target}
            /\ overtaken' = IF selected = Target THEN overtaken \cup {Target} ELSE overtaken
            /\ UNCHANGED <<mark, selected, running, phase, pending, restartDue, faults>>

Written ==
    /\ upload.place = "receiving"
    /\ image' = [image EXCEPT ![Target] = upload.image]
    /\ upload' = [upload EXCEPT !.place = "written"]
    /\ UNCHANGED <<authVars, mark, selected, running, phase, pending, restartDue,
                   passed, overtaken, proven, faults>>

\* The transfer breaks off or takes too long: esp_ota_abort leaves what it wrote.
Aborted ==
    /\ upload.place = "receiving"
    /\ upload' = NoUpload
    /\ UNCHANGED <<authVars, image, mark, selected, running, phase, pending, restartDue,
                   passed, overtaken, proven, faults>>

\* Slip: the digest is computed and not compared.
DigestIgnored == upload.image \in Ours

\* The digest, esp_ota_end and the project name, in this order.
Passes == upload.digest /\ upload.image \in Ours

Refused ==
    /\ upload.place = "written" /\ ~Passes
    /\ upload' = NoUpload
    /\ UNCHANGED <<authVars, image, mark, selected, running, phase, pending, restartDue,
                   passed, overtaken, proven, faults>>

\* esp_ota_set_boot_partition, then the delayed restart; if its task cannot be
\* created the answer is 500, and the image waits for another restart.
Accepted ==
    /\ upload.place = "written" /\ Passes
    /\ selected' = Target
    /\ mark' = [mark EXCEPT ![Target] = "new"]
    /\ upload' = NoUpload
    /\ restartDue' \in {TRUE, restartDue}
    /\ passed' = IF upload.digest /\ upload.image \in Ours THEN passed \cup {Target} ELSE passed
    /\ overtaken' = overtaken \ {Target}
    /\ UNCHANGED <<authVars, image, running, phase, pending, proven, faults>>

\* delayed_restart_task, a second later, whatever the server is doing.
DelayedRestart ==
    /\ restartDue
    /\ Reset
    /\ UNCHANGED <<image, mark, selected, running, passed, overtaken, proven, faults>>

TimePasses == Tick /\ UNCHANGED otaVars

-----------------------------------------------------------------------------
Startup == Boot \/ StartServing \/ Confirm \/ Complete \/ StartFails

Transfer == Written \/ Aborted \/ Refused \/ Accepted

UpdateNext ==
    \/ Startup \/ StartServingFlawed \/ PowerLost
    \/ ChallengeRequest
    \/ \E n \in Nonces, signed \in BOOLEAN : RequestRefused(n, signed)
    \/ \E n \in Nonces : RebootRequest(n)
    \/ \E n \in Nonces, i \in Images, digest \in BOOLEAN : OtaBegins(n, i, digest)
    \/ Transfer \/ DelayedRestart \/ TimePasses

UpdateSpec == UpdateInit /\ [][UpdateNext]_allVars

\* The loader and app_main run on, a transfer ends by its deadline, and a delayed
\* restart happens.
UpdateFairSpec ==
    /\ UpdateSpec
    /\ WF_allVars(Startup) /\ WF_allVars(Transfer) /\ WF_allVars(DelayedRestart)

-----------------------------------------------------------------------------
(* Properties *)

Marks == {"undefined", "new", "pending", "valid", "invalid", "aborted"}

\* Every variable keeps its type, and pending_verify is what the OTA data say.
UpdateTypeOK ==
    /\ AuthTypeOK
    /\ image \in [Parts -> Images \cup {Partial}]
    /\ mark \in [Parts -> Marks]
    /\ selected \in Parts /\ running \in Parts
    /\ phase \in {"off", "starting", "serving", "up"}
    /\ pending \in BOOLEAN /\ restartDue \in BOOLEAN
    /\ upload \in [image : Images \cup {Partial}, digest : BOOLEAN,
                   place : {"none", "receiving", "written"}]
    /\ passed \subseteq Parts /\ overtaken \subseteq Parts /\ proven \subseteq Parts
    /\ faults \in 0 .. MaxFaults
    /\ phase \in {"starting", "serving"} => (pending <=> mark[running] = "pending")

\* No image is started that failed a check, as docs/SECURITY.md:86-93 demands, with
\* one exception the document does not make: an upload that begins in the second
\* before the restart rewrites the partition that is already selected, and is
\* started although its digest or its project failed (web_admin.c:945-970).
OnlyPassedStarts ==
    [][phase = "off" /\ phase' = "starting" => running' \in passed \cup overtaken]_allVars

\* An image that has come up is started again after every restart until another
\* one is accepted (app_main.c:123-126).
ProvenStartsAgain ==
    [][(phase = "off" /\ phase' = "starting" /\ selected = running /\ running \in proven)
          => running' = running]_allVars

\* The controller comes up again and again, with the new image or, if that is
\* flawed, with the one before (app_main.c:34-50, 123).
ComesUp == []<>(phase = "up")
=============================================================================
