# Formal models of the ESP32-S3-PoE-ETH-8DI-8RO-C BACnet/IP firmware

TLA+ modules of the firmware in `src/main`, the TLC configurations that
model-check them, and theorems about them checked by TLAPS. `PROJECT.json` maps
every definition to the source lines it stands for.

    tlc -workers 2 -config PriorityCommand.cfg MCPriorityCommand.tla
    tlapm PriorityCommandProofs.tla

Contents: 1 the system, 2 the modules, 3 the runs, 4 the proofs, 5 findings,
6 what is not modelled, 7 plan.

## 1. The system

A controller with eight digital inputs and eight relays, on Ethernet. It serves
its points as BACnet/IP objects and over an HTTP interface. These tasks run:

| Task | Created in | Does |
|---|---|---|
| main task | `app_main.c` | startup in order: flash, configuration, relays off, network, BACnet, HTTP; then confirms the image |
| `input_and_health_task` | `board_io.c` | debounces inputs; once a second applies and verifies the relay mask; saves it after a quiet period |
| `bacnet_task` | `bacnet_app.c` | waits for an address, binds the socket, answers packets, chooses the Device instance, announces, COV |
| event loop task | ESP-IDF | runs the Ethernet and IP event handlers of `ethernet_manager.c` |
| HTTP server task | `web_admin.c` | status, configuration, relay commands, firmware upload |
| clock owner task | `clock_service.c` | SNTP, holdover of the time over a warm reset |
| USB setup task | `usb_setup.c` | line protocol of the USB console, release of the admin key by a button |

### Components

For each: **state**, **operations**, **interactions**, what is **hard**, and what
makes it **correct**.

**Relay driver** (`board_io.c`). State: the desired mask, the last verified mask,
health, the diagnostics, the save bookkeeping (dirty, time and counter of the last
change), a mutex; outside the ESP32 the registers of the TCA9554 and the `relays`
key of the flash. Operations: `board_io_init`, `board_io_relay_set`, the health
pass, the delayed save, the getters. Called by `bacnet_task` and the HTTP task.
Hard: a waiting command overtaken by another, a mutex timeout, a write the expander
acknowledged and lost in a reset, a failure between the writes of a recovery, a
save that races a change, a restart while the expander stays powered. Correct:
healthy means the outputs are as commanded; nothing is energised that was not
commanded; the latest command is applied and saved in the end.

**Digital inputs and RTC probe** (`board_io.c`). Three samples per input, one bit
for the RTC; local to one task.

**Network state** (`ethernet_manager.c`). State: link, address, a revision counter
under a spinlock, and an event bit. Operations: two event handlers, the getters and
`network_wait_for_ip`. Hard: state and bit change in two steps; the address and the
revision are read in two critical sections. Correct: a waiter never misses an
address that stays.

**BACnet session** (`bacnet_app.c`, loop of `bacnet_task`). State: the copies of
the address and the revision, `s_running`, the startup flag. Hard: address changes
between any two steps, also away and back; bind failures. Correct: packets are
served on the active address only; service resumes after every outage.

**I-Am campaign** (`bacnet_announcement.c`). State: ready, pending, exhausted,
attempts, next attempt. Correct: each service start announces itself, at most
`BACNET_ANNOUNCEMENT_ATTEMPTS_MAX` times.

**Instance selection** (`bacnet_instance.c`, driven by `bacnet_app.c`). State of
one controller: phase, candidate, instances heard, deadlines, conflict flag. Peers
interact by Who-Is and I-Am broadcasts. Hard: simultaneous claims, late and lost
packets, outages, a full range, a save that fails with or without storing. Correct:
locked instances are unique when the network is; a lock is not given up while NVS can be
read; duplicates are reported.

**Configuration model and store** (`config_model.c`, `config_store.c`). State: the
blob in flash, the copy in memory, a mutex; the copy of `bacnet_app.c`. Operations:
load, migrate, `config_store_update` (refused unless the revision is current),
`config_store_assign_instance`, the relay mask. Hard: two writers with copies of
different ages, writes that fail with or without effect, reads that fail at boot, power
cuts. Correct: memory and flash agree; an instance in use is saved; user and assignment do not overwrite
each other.

**Configuration endpoint** (`web_admin.c`, `PUT /api/v1/config`, reboot). Edits a
copy of the configuration and hands it to the store.

**Relay commands** (`bacnet_app.c`, `web_admin.c`). State: the priority array of each
Binary Output and its Relinquish_Default, Reliability, `s_running`, the object mutex.
Operations: `PUT /api/v1/relay`, WriteProperty, the refresh of the outputs, the sessions
of `bacnet_task`. Interactions: the effective value of an output goes to the
relay driver while the object mutex is held. Hard: `s_running` is read before the mutex
is taken, and governs HTTP only: BACnet commands need a READY instance; the driver's timeout is reported although the command stays recorded; two
clients at different priorities. Correct: the driver is asked for what the arrays say;
success is answered only for what was verified; a stale flag lets one HTTP command
through at most.

**COV recovery** (`bacnet_cov_recovery.c`, wrappers and loop order in `bacnet_app.c`).
State: for 32 objects whether a confirmed notification timed out, and when it is due
again (after 1 s). Interactions: bacnet-stack reports the failure and, in its COV state
machine, asks the wrappers whether an object changed and tells them when it has been
notified. Hard: subscribers share objects and transactions; values change while a
notification is repeated. Correct: a subscriber with an old value stays remembered, and
learns the present one when the losses end; the code misses this in one case (section 5).

**Restart notification** (`bacnet_restart.c`, `bacnet_restart_clock_select` of
`bacnet_announcement.c`). State: the list of recipients in flash and in memory, the
targets of this boot with their attempts, the chosen restart time. Operations: load,
write and read of the list over BACnet, the choice of the time, the tick of
`bacnet_task`; all under the object mutex. Hard: a write that fails after it stored
its list, a corrupt list, edits during the attempts, a clock that becomes valid late
or is corrected, a network that comes and goes. Correct: the live list is the stored
one; one restart time per boot; every recipient is tried until accepted, removed or
exhausted, and never begun anew.

**Clock** (`clock_service.c`, `clock_model.c`). State: the requested and the configured
generation, the SNTP client, the clock model, the marker that survives a warm reset.
Operations: the loop of `clock_task`, `clock_service_config_changed`, `sntp_sync_time`,
`clock_service_init`. Hard: a lookup takes long and holds no lock; a restart may fall
between the two halves of a synchronisation. Correct: results of a replaced
configuration are discarded; the client ends up on the configured server; no clock
passes for valid that was synchronised more than seven days ago.

**Time configuration** (`time_config.c`, `PUT /api/v1/time`). State: the blob in flash
and the live copy. Hard: a write that fails after it stored. Correct: what was
answered as persistent is in force after a restart.

**Firmware update and startup confirmation** (`web_admin.c`, `app_main.c`). State: the
two partitions, the OTA data, the image being received, the pending restart. Upload to
the free partition, restart a second later, confirmation once startup is complete,
rollback by the boot loader or on a startup failure. Hard: transfers that break off,
losses of power, a second upload before the restart, an image whose startup fails late.
Correct: no image is started that failed a check (one case apart, section 5); one that
has come up starts again; the controller always comes up.

**Authentication** (`auth.c`). State: a ring of four challenges, each valid for 60 s
and for one request. Hard: a fifth challenge, wrong guesses, repeated requests,
restarts. Correct: one of the last four works until it is used or too old; none works
twice.

**USB setup** (`usb_setup.c`, `usb_setup_model.c`), **command trace**
(`bacnet_command_trace.c`), **BACnet/IP datalink** (`bip_esp32.c`), **web pages**,
**installer**, **host tools**: see section 6.

The hazards, each at its line and with the properties that cover it, are listed in
`PROJECT.json`.

## 2. The modules

| Module | Models | Role |
|---|---|---|
| `RelayOutput` | what `board_io.c` promises its callers | abstract specification |
| `RelayDriver` | `board_io.c`, relay part | specification |
| `RelayDriverOutput` | | refinement mapping of `RelayDriver` to `RelayOutput` |
| `PriorityCommand` | relay commands of `bacnet_app.c` and `web_admin.c` | composition: HTTP task and `bacnet_task` over `RelayDriver` |
| `BacnetSession` | `ethernet_manager.c`, session loop of `bacnet_app.c`, `bacnet_announcement.c` | composition of the event loop task and `bacnet_task` |
| `ConfigStore` | `config_store.c`, `config_model.c` with their two writers | composition of HTTP task and `bacnet_task` over one store |
| `InstanceClaim` | `bacnet_instance.c` on several controllers | composition over a broadcast network |
| `RestartNotification` | `bacnet_restart.c`, the clock selection of `bacnet_announcement.c`, their callbacks in `bacnet_app.c`, the list in `config_store.c` | specification |
| `CovRecovery` | `bacnet_cov_recovery.c`, its wrappers and the loop order in `bacnet_app.c` | composition with the COV and transaction machines of bacnet-stack (external) |
| `AuthChallenge` | `auth.c` | specification |
| `FirmwareUpdate` | OTA, reboot and challenge handlers of `web_admin.c`, `app_main.c` | composition: `AuthChallenge` with the HTTP server, startup and the boot loader (external) |
| `TimeConfig` | `time_config.c`, `PUT /api/v1/time` | specification |
| `ClockService` | `clock_service.c`, `clock_model.c` | composition: `TimeConfig` with `clock_task` |
| `PriorityCommandProofs` (with those of `RelayDriver`), `BacnetSessionProofs`, `ConfigStoreProofs`, `InstanceClaimProofs`, `RestartNotificationProofs`, `CovRecoveryProofs`, `FirmwareUpdateProofs` (with those of `AuthChallenge`), `ClockServiceProofs` (with those of `TimeConfig`) | | theorems (section 4) |
| `MC*` | | symmetry sets and small constants of the runs |

Three compositions extend the module they use (`PriorityCommand`, `FirmwareUpdate`,
`ClockService`): the actions of the lower module are conjoined with what the caller
does in the same step, and a theorem says that every behaviour of the composition is
one of the lower module (`CommandImplementsDriver`, `UpdateImplementsAuth`,
`ClockImplementsConfig`), so its theorems carry over.

Next to the definitions a module has a few operators commented as a *slip*: the
same step with a plausible mistake. They are not part of `Next`. `PROJECT.json`
("mutants") pairs each property with such a slip, which TLC must find violating it.

### RelayDriver

A register is the set of its bits that are 1, so a mask is a subset of `Relays`.
`chip` is the expander: latch and pin directions. The polarity register is a step
that may fail but has no state: a relay reads back through the latch.
`relay_mask_write_locked` is one step per I2C transaction (`WriteOutput`,
`ReadConfig`, `ReadOutput`, then `VerifyFailed`, `EnterRecovery` or `Commit`;
`WritePolarity`, `WriteConfig` in a recovery, then the reads again), because the
expander can reset and other tasks can publish a command between any two. `frame` is
the locals of a task in it, `owner` the mutex. `MarkChanged` is the tail of the
function and part of `Finish`. `RelaySet` publishes the command; `TakeMutex` is the
mutex obtained, `RelaySetTimeout` the 250 ms expired, `HealthPassSkipped` the same in
the health pass.

The save is `BeginSave` (mutex taken and returned around the copy), `NvsWrite`
(no mutex), `SaveDone` (mutex taken again or timed out). Its quiet period is one
flag: `settled` says that it has passed since the last change, and `eligible` whether
the `now_us` of this iteration, sampled before the pass, is late enough.

`board_io_init` runs before other tasks exist: `stage` is "off" until all relays off
is verified, "restore" until the saved mask is, then "running". `ChipReset` returns
the expander to its power-on registers (pins are inputs), `Restart` restarts the
ESP32 with or without the expander, at any step.

Every transaction may fail (`BusError`), and a write may be acknowledged and lost.
Each such fault costs one of `MaxFaults`, as does `ChipReset` and a failing flash
access.

### RelayOutput and RelayDriverOutput

`RelayOutput` is the driver as its callers see it: `desired` changes at once by a
command; a write begins with the mask that is desired then, and ends verified
(`applied` is the mask, `healthy`) or failed (`healthy` is false); startup verifies off,
then perhaps a restored mask, before it serves. `RelayDriverOutput` maps `serving` to
`stage = "running"` and `writing` to the tasks that are between the choice of a mask
and its verdict, with that mask; the other variables have the same names.
`ImplementsOutput` is `Output!Spec` under this mapping.

### PriorityCommand

Each output has a priority array; `Effective` are the relays whose present value is
active. The object mutex is `holder`. `WriteSlot` sets or relinquishes a slot and, in the
same step, publishes the effective value to the driver (the first critical section of
`board_io_relay_set`); `DriverReturns` is the driver's answer, which is the driver's own
`Finish` or `RelaySetTimeout` together with the update of Reliability and the HTTP answer.
The HTTP request reads `s_running` (`WebRequest`) before it waits for the mutex
(`WebTakes`, `WebTimeout`). `bacnet_task` has a session (`SessionOpens`, `SessionEnds`), in
which the instance is READY at once or after a claim; each iteration takes the mutex
(`IterationBegins`), dispatches a WriteProperty only if the instance is READY, whatever
`s_running` says, and at its end the claim may be complete and `s_running` go up
(`IterationEnds`), once startup is (`StartupCompletes`). So any number of BACnet commands can
come before the flag is up. `late` counts the HTTP commands since the session ended, until
the flag is up again. `InitializeObjects` makes a restored mask the default of the boot.

### BacnetSession

The handlers update link, address and revision in one step (the spinlock) and the
event bit in a second (`FinishEvent`). `bacnet_task` is: `WaitForIp`, `ReadInfo`,
`ReadRevision`, `Configure`, `Bind` or `BindFailed`, and per iteration `CheckIp`,
`CheckRevision`, `Body`. The body is one step: everything in it happens on the
task itself. It advances the instance selection (here only "choosing", "ready" or
"stopped"; the details are in `InstanceClaim` and `ConfigStore`), the service flag
and the campaign (`AnnounceTick`). The length of a session is in no way bounded.

### ConfigStore

A configuration is mode and number of the instance and its revision; every other
setting only moves the revision. `nvs`, `ram` and `task` are the three copies.
`Boot` loads and migrates; a read that fails counts as no configuration (`Found`), so the
defaults are written over what was there (`BootWrites`), and `PartitionErased` is
`app_main` erasing a partition that cannot be used. `misread` remembers a boot of either
kind. `RequestArrives` is the HTTP task taking and editing its
copy, `Update` and `UpdateRefused` the store's answer; `SessionStart`, `SessionEnd`,
`Assign` and `AssignRefused` are `bacnet_task`; `PowerOff` comes at any time. A write
succeeds, fails without effect, or fails after the blob was stored (`Outcomes`). Each
operation of the store is one step, because it runs under the store's mutex.

### InstanceClaim

Each controller is a record, the static `s_instance`. The operators `Discovering`,
`Started`, `Observed`, `Ticked` translate the functions of `bacnet_instance.c` on such
a record; `Choices` is the set of instances a random choice can return. `Iterate` is
one iteration of the loop in `bacnet_task`: at most one packet (`HandlePacket`), then
the timers, then what they send. `TimePasses` counts timers and the remaining
lifetimes of packets down, and waits until all that is due was done (the loop runs
every 20 ms, the shortest timer is 500 ms). The network of a controller comes and goes
(`Join`, `Leave`) and packets are late by up to `MaxDelay`, reordered and lost. `saved` is
the locked instance in memory, `flash` the one in NVS: a save may be stored and still be
reported as failed (`Stored`), and then only `flash` has it. If the network returns the
controller chooses again and writes over it; a `Restart` takes over what `flash` has,
or nothing if it cannot be read.

### RestartNotification

Each operation is one step, because all run under the object mutex. `nvs` and `live`
are the two copies of the list, `targets` the `s_destinations` of this boot. `Write` is
`bacnet_restart_write_property` for a list that decodes (one that does not changes
nothing), with the store's outcome; a list equal to the stored one is not written, so
it cannot fail after storing. `PollClock` is the refresh of the snapshot once a second
and `ClockChanges` the clock service behind it; what a clock tells is only its boot
time. `Tick` is one iteration of the loop in which startup is complete, with
`select_restart_timestamp` in it; its parameters say whether the next attempt is due,
the wait for the clock has expired, and the snapshot was busy. Pending targets fall
due together because they were always attempted in the same iterations. What an
attempt results in is free, except that only a Device identifier can lack a binding.
`Restart` comes at any time and may find a corrupt list or a read that fails; one in
the middle of a write leaves what a failed write followed by a restart leaves. `inDoubt` and `misread` remember that a failed write
or read left flash and memory apart.

### CovRecovery

A pass of the loop is one step (object mutex): age the entries, the transaction timers
with their failures (`Recorded`), then the COV machine: mark what changed or is due,
clear it, free failed transactions, send in table order while slots are free. A
notification carries the value of its start. `Transmit` chooses what becomes of each
datagram: lost, delivered without its acknowledgement, or acknowledged; subscribers in
`Dead` never answer. `HandleAck`, `HandleSubscribe`, `HandleCancel` are passes that begin
with a packet. `missed` remembers the subscribers with an old value whose repeat was
cancelled by the notification of another subscriber of their object, until something
requests their own again (see section 5).

### AuthChallenge and FirmwareUpdate

Nonces are numbered as issued, which stands for their being random and distinct; the
HMAC is one bit, signed or not. `Issue`, `Verify`, and `Forget` for a restart.
`FirmwareUpdate` adds the requests that use challenges: `ChallengeRequest`,
`RequestRefused`, `RebootRequest`, `OtaBegins`, then the transfer `Written` or `Aborted`,
`Refused` or `Accepted`, and a second later `DelayedRestart`, which a new upload may
precede. `Boot` is the boot loader, `StartServing`, `Confirm`, `Complete` and
`StartFails` are `app_main`. An image is a value: complete, working or not, of this
project or not; a flawed one may fail at any point of startup, and a good one when the
hardware fails (`MaxFaults`, shared with losses of power).

### TimeConfig and ClockService

A configuration is one value. `Update` is the store with its outcomes (failed without
and with effect), `Answer` the rest of the request, `Load` a restart. `ClockService`
adds `clock_task` with one step per critical section (`ReadRequested`, `ReadRevision`,
`Configure`, `Lookup` without a lock, `Recheck`, `Start`), the network, the SNTP
callback in its two halves (`SetTime`, `AcceptTime`) and restarts by software or
otherwise. Of the clock only the age of the last synchronisation is kept, in ticks up
to one past the holdover; `unsynced` is the true age.

## 3. The runs

| Run | Shows | Bounds |
|---|---|---|
| `driver_safety` (`PriorityCommand.cfg`) | `ArraysAreDesired`, `AcceptedIsVerified`, `OneLateCommand`; `HealthyMeansDriven`, `EnergiseOnlyCommanded` of the driver below | 2 relays, HTTP and BACnet client, priorities 8 and 16, 2 commands, 1 fault, the end of 1 session, restore off |
| `driver_restore` | `SavedIsApplied`, `ImplementsOutput`: saves and restored masks against commands, faults and a restart; `CommandsApplied`, `CommandsSaved` under fairness | 1 relay, 2 callers, 2 commands, 2 faults, 1 restart |
| `driver_diagnostics` | finding: `DiagnosticsConsistent` is violated | 1 relay, 1 command, 1 fault |
| `session` | `ServesActiveAddress`, `ServiceIsAnnounced`; `CampaignEnds`, `ServiceResumes` under fairness | 2 addresses, 5 network events, 3 attempts, 1 bind failure |
| `session_port` | finding: `PortIsActive` is violated | 2 addresses, 3 events, 2 attempts, 1 bind failure |
| `config_store` | `ReadyMeansSaved`, `StoreCoherent`, `SettledStays`, `AssignmentYields` | 3 automatic instances and another one, revisions up to 4 |
| `claim` | `TypeOK`, `UniqueInstances` (unless something was lost), `LockKept` (unless NVS cannot be read); `DuplicatesDetected`, `RangeFullRecovers` under fairness | 2 controllers, 1 instance, packets up to one unit late, 1 outage or restart, 1 lost packet, 1 failing save or read |
| `restart` | `LiveIsStored`, `NoneForgotten`, `TimestampFrozen`, `RemovedNotNotified`, `OncePerBoot`; `RecipientsSettle` under fairness | lists of up to 2 out of 2 recipients, 2 attempts, a boot time or none |
| `cov` | `TypeOK`, `StaleIsRemembered`; `SubscribersLearn`, `RecoveryEnds` under fairness; the first two up to an exception (section 5) | 2 objects, 3 subscriptions (1 dead), 1 transaction, 1 retry, 2 changes, 2 losses, 4 requests |
| `web` (`FirmwareUpdate.cfg`) | `OutstandingWorks`, `AuthorisedOnce`, `OnlyPassedStarts`, `ProvenStartsAgain`; `ComesUp` under fairness | 2 slots of life 1, 3 challenges, 2 ticks, 3 images, 1 fault |
| `clock` | `DiscardsOutdated`, `HoldoverBounded`; `ServerFollows` under fairness | 2 configurations, 2 requests, 1 failed write, 2 network changes, 1 failed lookup, holdover of 1 tick, 2 restarts |
| `time_saved` | finding: `SavedSurvives` is violated | 2 configurations, 3 requests, 1 failed write |

Why these bounds are enough:

- *Relay commands and driver.* Relays are only distinguished by being in a mask: two
  show a bit overwritten by another task's mask. Two priorities are the higher and the
  lower; a third adds no other order. Two faults are a fault during the recovery from
  the first. The proofs lift the safety results to all values.
- *Session.* Two addresses are "the same" and "another". Three events are an address
  lost and found between two steps of the task; five leave two for the next session.
- *Store.* Two instances of the range are the kept and another one; the third and
  the fourth are the default and one that only a user sets. Four revisions are an
  assignment, two updates and a stale third one. Proved for all values.
- *Claims.* With one instance every claim is contested and the loser finds the range
  full, which is where the code has to come back by itself. What matters is the order of timers and
  packets and not their ratio, so a discovery lasts 3 units with three questions, a claim 2
  and a packet up to 1; the retry (30 s) and watch (60 s) periods are 3 units. `UniqueInstances` was also checked
  with two instances in units of 500 ms, where the times of the code are exact (query
  1 s, discovery and claim 3 s, jitter 500 ms), with packets 1.5 s late, and with three
  controllers and coarser times, in each case without outages; those runs are too long to repeat
  routinely. `DelayAssumption` cannot be weakened: with two instances, `UniqueInstances` holds
  with a delay of 2, a discovery of 2 and a claim of 3 units, and TLC
  finds it violated with a delay equal to the claim (1 and 1, or 2 and 2, after a discovery of 3) and
  with a discovery and claim that together last two delays (0 and 2, or 1 and 3). Uniqueness needs the network to deliver: after an outage or a lost packet
  duplicates exist, and the other properties say what happens then.
- *Restart notification.* One recipient is the broadcast, which needs no binding, the
  other a Device, which does; a list of two has one removed next to one kept, and may
  hold the same one twice. Two attempts are one with a retry and the last. A valid boot
  time next to the fallback tells a chosen from a corrected one. Writes, restarts and
  changes of clock and network are unbounded: the state is finite without.
- *COV.* One transaction for three subscriptions is the full table; a dead subscriber
  and a living one share an object, the third has its own. Two losses are a
  notification and its repetition: without them no entry for a living subscriber is made.
- *Update.* Two outstanding challenges and a third one that replaces the first; three
  images are one that works, one whose startup fails and one of another project. One
  fault is a loss of power at any point, or a working image whose startup fails once.
- *Clock.* Two generations are the one being resolved and the next; the holdover is one
  tick, so that every age is before, at or past it; two restarts are one that takes the
  clock over from one that took it over.

The two cfgs of `BacnetSession` say `CHECK_DEADLOCK FALSE`: a controller without a
network waits for ever once the bound on events is spent, as it should. All other runs
check for deadlock.

### Fairness

- `RelayDriver`: weak fairness of every task's next step (FreeRTOS schedules them, and
  no task here holds the processor), of the passing of the quiet period (`Settle`) and
  of the restart after a failed startup (`fatal_startup_error` in `app_main.c`).
  Strong fairness only of a health loop in which the pass is due, `HealthLoop(TRUE)`:
  the loop runs far more often than once a second, so most iterations are not due, but
  one is due again and again. No fairness of faults, commands or restarts.
- `BacnetSession`: weak fairness of the event handler's second step, of `bacnet_task`
  and of the end of startup. Strong fairness of an iteration of the body in which the
  next announcement is due: the clock passes any instant. Whether the stack accepts an
  announcement is left open.
- `InstanceClaim`: weak fairness of the loop, the network and time together. None of
  joining, leaving or losing.
- `RestartNotification`: strong fairness of a tick with the deadlines behind it, since
  time passes whether or not the network is there. `RecipientsSettle` assumes that
  the network comes back again and again and that restarts end.
- `CovRecovery`: weak fairness of a pass with and of one without timers expiring (the
  loop runs every 20 ms, and time passes) and of the handling of an acknowledgement
  that has arrived. Losses are bounded: a network that loses everything informs nobody.
- `FirmwareUpdate`: weak fairness of startup, of a transfer (the handler has a
  deadline) and of the delayed restart. None of requests or faults.
- `ClockService`: weak fairness of `clock_task` (it polls every 250 ms), of the expiry of
  its timer and of the end of a request. None of the network or of replies.

## 4. The proofs

All theorems are about the specification of their module and hold for every value of the constants that satisfies
the named assumptions of the module: the task names are different (`TasksAssumption`,
`CallersAssumption`), the bounds are numbers (`BoundsAssumption`); the default instance is in the range,
`None` is neither an instance nor a configuration, the range and other instances are
disjoint, there is a revision, times and delays are numbers (`InstanceAssumption`, `TimeAssumption`, `NoneAssumption`,
`RevisionAssumption`); a packet arrives within a claim, and a question and its answer take less than a
discovery with the claim after it (`DelayAssumption`: less than 3 s for a packet, on a network segment);
subscriptions are a finite table in some order (`SubsAssumption`); the placeholders are no proper values (`AddressAssumption`,
`RecipientsAssumption`, `TimesAssumption`, `ConfigsAssumption`); there is a slot
(`AuthAssumption`); there are two partitions and the installed image works
(`FirmwareAssumption`).

`PriorityCommandProofs`, about `RelayDriver`:

| Theorem | Argument |
|---|---|
| `TypeCorrect` | `DataOK` and `FlagsOK` are inductive, apart, because Boolean variables need another prover than sets |
| `HealthyMeansDrivenCorrect` | `DriverInv`. The property says nothing of a write under way; `OwnerInv` ties the mutex to the tasks at the expander, `ReadsInv` says that what the holder has read is still there, `HealthInv` extends the property to a write that has not touched the expander yet |
| `EnergiseOnlyCommandedCorrect` | a consequence of `DriverInv` for each step: pins are enabled only at "writeConfig", where `ReadsInv` gives the latch |
| `SavedIsAppliedCorrect` | `InitInv` and `SaveInv` on top: a change is in the frame of the writer ("changed") before it is in `dirty`, and startup leaves a clean driver only with the mask it read |
| `StartupOrderCorrect` | `StartInv` (in the proof module): before callers exist nobody clears the health flag or changes what is asked for |
| `ImplementsOutputCorrect` | `AskedInv`: the mask startup writes is the one it asks for. The mutex makes the writes under way at most one pair (`WritingOne`, `WritingNone`); each step of the driver is then a step of `RelayOutput` or a stutter (`OutputStep`) |

`PriorityCommandProofs`, about `PriorityCommand`:

| Theorem | Argument |
|---|---|
| `CommandImplementsDriver`, and with it `CommandHealthyMeansDriven`, `CommandEnergiseOnlyCommanded` | every step is a step of the driver or leaves it alone |
| `ArraysAreDesiredCorrect` | `CallInv`: a caller is in the driver exactly if it holds the object mutex for a command; `BootInv`: before the objects exist nobody commands, so the default they take over is what is desired; `ArrayInv`: one bit of `desired` moves with one present value |
| `AcceptedIsVerifiedCorrect` | `MaskInv`: the mask being written for the holder of the object mutex is what is desired, since nobody else can command meanwhile |
| `OneLateCommandCorrect` | a late HTTP command holds the only ticket: after it the request needs the flag again. The flag goes up only at the end of an iteration, and down only at the end of a session; commands over BACnet do not depend on it and are not counted |
| `CommandTypeCorrect` | follows from `ArrayInv`, `LateInv` and the type of the driver; `RestInv` and `SignInv` add the variables none of them speaks of (holder of the object mutex, answer, counts, flags) |

`ConfigStoreProofs`:

| Theorem | Argument |
|---|---|
| `TypeCorrect`, `ReadyMeansSavedCorrect`, `StoreCoherentCorrect` | `StoreInv` is inductive. The properties relate two copies each; `CopiesInv` orders the revisions of all three (task at most memory, equal revisions are equal copies, flash one ahead of memory after a doubtful write) and `WebInv` does the same with the copy of a request |
| `AssignmentYieldsCorrect` | a step property: `userSaved` puts `bacnet_task` behind, and the store compares revisions |
| `SettledStaysCorrect` | a step property: without doubt flash and memory are equal, and a request that is not about the instance has not touched it; only a boot with `misread` writes something else |

`BacnetSessionProofs`:

| Theorem | Argument |
|---|---|
| `ServesActiveAddressCorrect` | `SessionInv`: as long as the revision is the one a session read, the network still has the session's address, unless it changed between the two reads, which is remembered |
| `ServiceIsAnnouncedCorrect` | `CampaignInv`: outside a ready service the campaign is reset, so the first tick of the next one begins it |
| `TypeCorrect` | no campaign exceeds its attempts |

`FirmwareUpdateProofs` (it proves the invariants of `AuthChallenge` too, and then that the update implements it):

| Theorem | Argument |
|---|---|
| `OutstandingWorksCorrect` | `AuthInv`: challenge `n` sits in the slot `SlotOf(n)`, as far behind `next` in the ring as challenges were issued since, so it is not replaced before `Slots` more were |
| `AuthorisedOnceCorrect` | `AuthInv`: what is valid is of this boot, unused, and carries its own time |
| `UpdateImplementsAuth`, `UpdateAuthorisedOnce`, `UpdateOutstandingWorks` | every step of the update is a step of the challenges or leaves them alone |
| `OnlyPassedStartsCorrect` | `OtaInv`: whatever the loader may choose has passed, was overtaken, or is rejected |
| `ProvenStartsAgainCorrect` | `RunsInv` and `WayBack`: one of the two partitions always holds an image that starts, is marked neither pending nor rejected, and is not written to |

`ClockServiceProofs`:

| Theorem | Argument |
|---|---|
| `StoredIsLiveCorrect`, `ClockImplementsConfig` | `ConfigInv`; every step of the clock is a step of the configuration or leaves it alone |
| `DiscardsOutdatedCorrect` | `OwnerInv`: if configuration or network changed during the lookup, a generation or a revision differs at the recheck, because both only grow; `ClientInv`: the client is off from the start of a lookup until `Start` |
| `HoldoverBoundedCorrect` | `AgeInv`: the marker is never younger than the last synchronisation, except between the two halves of one |
| `ClockTypeCorrect` | `BoundInv`: a generation and the request that counts it move together, so neither outruns its bound; `ClockFlags` for the Boolean part |

`InstanceClaimProofs`:

| Theorem | Argument |
|---|---|
| `TypeCorrect` | `ClaimInv`: every controller is `Sound`, which bounds its timers by the periods they are set to (`InTime`), and every packet is well formed |
| `LockKeptCorrect` | `FlashInv`: what a controller knows to be saved is in NVS, because only one without a lock saves (`StoredSound`). `Locked`, a part of `Sound`: a controller chooses only while nothing is saved and it is automatic, and is ready only under what is saved; a conflict makes an automatic controller choose again, and leaves a locked one where it is |
| `UniqueInstancesCorrect` | `UniqueInv`. `UniqueInstances` says nothing before two controllers are ready, so it is strengthened to `Contested`: whenever one controller holds an instance (claims it, or is ready under it) and another holds it too or may still choose it, one of the two *will hear* of the other before it saves: an I-Am is on its way to it, or a Who-Is to the other that will be answered, or the first Who-Is of its discovery is yet to be sent, each early enough for what is left of discovery and claim (`TimeLeft`). Whoever is ready has no time left, so two ready ones are impossible. A new claim keeps `Contested` by its announcement (to those still in discovery) and by its question (to those who hold); a packet received either ends the claim or is answered; time passes for packets and timers alike |

`RestartNotificationProofs`:

| Theorem | Argument |
|---|---|
| `TimestampFrozenCorrect` | `ChoiceInv`: before the choice nobody was tried, after it the time is set |
| `LiveIsStoredCorrect` | `StoredInv`, with the doubt after a failed write or read |
| `NoneForgottenCorrect` | `CountInv`: the counter of pending targets is the number of the pending ones; with lemmas about the cardinality of what a tick or a new list takes from that set |
| `RemovedNotNotifiedCorrect`, `OncePerBootCorrect` | step properties from `TargetInv`: targets are the live list's, and done ones keep their state |

`CovRecoveryProofs`:

| Theorem | Argument |
|---|---|
| `CovTypeCorrect` | `CovInv`: every transaction is well formed (`Calls`) and no more are in use than there are (`Busy`). A pass starts transactions in table order while slots are free (`StartedFits`); `FirstMembers` shows, with an injection by rank, that the first `k` members of a finite set of numbers are at most `k` |
| `StaleIsRememberedCorrect` | `Remembers` is the property for a subscription in the midst of a pass, and is carried through the stages of a pass in turn (`PassSound`): timers and failures, marking, clearing, freeing, sending. Whom a cleared entry leaves behind is in `Missed`, which is the exception. It needs `Follows`: a transaction under way that carries an old value is followed by another, and one that was acknowledged has told its subscriber |

Only model-checked is liveness: `CommandsApplied`, `CommandsSaved`, `CampaignEnds`,
`ServiceResumes`, `DuplicatesDetected`, `RangeFullRecovers`, `RecipientsSettle`,
`SubscribersLearn`, `RecoveryEnds`, `ComesUp`, `ServerFollows` (temporal reasoning under
fairness is out of the prover's reach). Every other property of a passing run is a
theorem.

## 5. Findings

1. `session_port` / `PortIsActive`: `bacnet_task` copies the address
   (`bacnet_app.c:895`) before the revision (`:898`). If another address arrives
   between the two, the session runs on the old one with the new revision and nothing
   ends it before the next network event. Reading the revision first would close the
   gap. `ServesActiveAddress` states what holds otherwise.
2. `driver_diagnostics` / `DiagnosticsConsistent`: `docs/RELAY_OUTPUT_RECOVERY.md`
   promises an internally consistent snapshot, but the registers are published when
   read and judged afterwards: a status request in between shows `healthy` next to
   registers that contradict the applied mask.
3. `time_saved` / `SavedSurvives`: `time_config_update` skips the write when the request
   equals what is live (`time_config.c:250`), although an earlier write that was reported
   as failed may have stored something else. A request answered with
   `"persistent":true` is then not in force after a restart. Comparing with what is
   in flash, or writing after any failed write, would close the gap.

Three more divergences show as exceptions of properties. Each property holds only with the
exception: without it TLC finds a violation in the same run.

- *An image that failed its check is started.* An upload that begins in the second between
  the acceptance of another one and its restart rewrites the partition that is already
  selected (`web_admin.c:970`). If it is complete when its digest or project check fails,
  the restart starts it all the same; if it is cut short, the loader finds an incomplete
  image and takes the other partition. `docs/SECURITY.md:86-93` says an Ethernet update must
  pass all its checks. `OnlyPassedStarts` excepts it (`overtaken`); the rollback covers an
  image that does not come up. Refusing uploads while a restart is pending, or restoring
  the boot partition when one begins, would close the gap.
- *A repeat is cancelled by somebody else's notification.* The entry of an object is
  cleared whenever any of its subscribers is notified, new or queued, also when the entry
  was made by another subscriber, is not due and the value has not changed
  (`bacnet_cov_recovery.c:111`). The other subscriber keeps the old value until a change or a
  renewal. `docs/BACNET_COMMAND_RECOVERY.md:121-127` promises the current value again after
  one second unless a real change supersedes it. `StaleIsRemembered` and `SubscribersLearn`
  except it (`missed`). An entry that is not due should survive.
- *A failed read gives up a settled instance.* If `nvs_open` or `nvs_get_blob` fails at boot,
  `config_store_init` writes the defaults over a valid configuration
  (`config_store.c:73-96`), and `app_main` erases a partition it cannot use
  (`app_main.c:61-65`); a new instance is then chosen. `docs/AUTOMATIC_INSTANCE.md:5` and
  `:41` say power cycles do not change a locked instance and only a user a manual one;
  `docs/BACNET_COMMAND_RECOVERY.md:16` limits what survives to an intact NVS. `SettledStays`
  (`misread`) and `LockKept` (`Restart(n, FALSE)`) except it. Writing the defaults only when
  the blob is missing or invalid would close the gap for failed reads.

## 6. What is not modelled, and assumptions

- A restart loses a relay change that is not saved yet. This is documented behaviour,
  so `CommandsSaved` is about runs whose restarts end.
- A saved relay mask that cannot be read at boot is taken for zero without the driver
  being dirty. The failing read is modelled; `SavedIsApplied` and `CommandsSaved` except
  boots in which it happened (`restoreRead`).
- A boot that cannot read the configuration, or erases the partition, is modelled in
  `ConfigStore` and `InstanceClaim` as an event of its own; how likely it is, is not.
- `BacnetSession` and `InstanceClaim` assume that startup completes. A claim made
  before is not announced (`bacnet_app.c:961`); startup is shorter than a discovery.
- Whether repeated conflicting claims end depends on random choices; no liveness is
  claimed of it.
- `ConfigStore` caps revisions (`MaxRevision`); the wrap of a 32-bit counter is
  not reached in the life of the flash.
- `RelayDriver` with restore and `PriorityCommand` are checked in separate runs: with
  restore off the saved mask is never read. The theorems of `PriorityCommand` hold
  for both.
- `CovRecovery` supposes that an acknowledgement that is not lost arrives within the
  APDU timeout, and has an entry for every object: the table has 32, and 26 objects of
  the device report COV.
- `FirmwareUpdate`: the signature of a request cannot be forged, and challenges are
  distinct; the flash keeps what was written.
- Digital inputs and RTC probe: a debounce of three samples, sequential and local to one
  task, whose tests drive every sequence.
- USB setup: one task reads a line and answers it; whether the admin key is released is
  known to that task alone.
- Command trace: a ring of the last requests under one lock, on which nothing depends.
- Admin key and boot counter of `config_store.c`: written by the main task before others
  run, and only read afterwards.
- Wording and layout of HTTP and BACnet messages, parsers of names, time zones and
  addresses: data, not state. UDP sockets and BVLC frames of `bip_esp32.c`: an
  operation of `BacnetSession` that may fail. The browser pages, the installer (a sequential
  browser tool around a vendor library), the host tools and the tests are outside
  of the firmware.

## 7. Plan

Done: all modules of section 2 and the theorems of section 4.

Left, the most important first:

1. A composition of `ConfigStore` with the selection of `InstanceClaim` on one controller.
2. `UsbSetup`, `CommandTrace` and `InputDebounce`.
