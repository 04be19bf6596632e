# Formal models of the Friend or Foe badge firmware

Friend or Foe is a wearable drone and tracker detector. This directory holds
TLA+ models of its firmware, model-checked with TLC and proved about with TLAPS.
Source paths below are relative to the repository's `esp32/`: `uplink/main`,
`scanner/main` and `shared` hold the code modelled; `fw_store.c` and the like are
in `uplink/main` unless a directory is given. `PROJECT.json` gives for every
definition the source lines it stands for.

1. The system
2. Modules, and how they correspond to the code
3. Runs: what each checks, bounds, fairness
4. Proofs
5. Findings and observations
6. What is not modelled, and why
7. Plan

## 1. The system

The badge is three microcontrollers. The *uplink* (`uplink`) drives the display,
the USB-C port and the optional game radio; two *scanners* (`scanner`) listen for
BLE and Wi-Fi. Scanner slot 0 is the BLE-primary one, slot 1 the Wi-Fi-primary
one, each on a UART of the uplink. The same uplink program can be built as a
*networked node* that posts what it hears to a backend. A host (a browser
flasher, an Android phone or a Python tool) talks to the uplink over USB-C.
Policies shared by the firmwares, most of them pure state machines, are in
`shared`; the adapters around them own the locks, tasks and hardware.

Three ways through the system order the models. On the *transfer path* firmware
images and results are carried over in pieces: nobody can attach a debugger to a
badge in the field, an update that goes wrong is a brick, and every step of it
competes with tasks that know nothing of it. On the *command path* something is
asked for on one controller and done on another, which may restart in between. On
the *detection path* what is heard goes through queues, limiters and tables to the
screen and the backend.

### Components of the update path

| component | state it keeps | operations | interacts with | hard behaviour | correct when |
|---|---|---|---|---|---|
| firmware operation token (`shared/firmware_operation_token.c`; begin and end in `fw_store.c`) | one record under a spinlock: active, owner, generation, epoch, lease flag, inhibit, preemption, restart reservation | begin, begin quiesced, attach lease, end, reserve restart, inhibit, preempt, clear | every task that mutates firmware; the radio reads the epoch | a task waits 2 s for the lease with the token claimed; copies of tokens outlive them | one task at a time; a stale copy ends nothing; a restart and an operation exclude each other |
| scanner UART lease (`comms/uart_rx.c`) | a recursive mutex; a pause request with a generation | take with timeout, give; pause, acknowledge, resume | staging, relay, identity fence, every JSON line to a scanner | recursion, timeouts, error paths, requests that overtake the receiver | never leaked, never given early; no line inside a binary stream; one reader |
| game radio (`game/badge_con_vhci.c`, `shared/badge_con_vhci_policy.c`) | HCI state machine, retry and deadline, uncertainty, epoch gate, one-event mailbox | init, apply policy, request quiescence, poll, receive event | display loop, firmware operations, the BLE controller | commands and replies are lost; an inhibit may come at any point; one slot for events | "quiet" means silent; no start while inhibited |
| radio quiescence (`fw_store.c`, `main.c`) | coordinator's record and mutex, worker lifecycle, preemption latch | sample, apply, begin quiesced, save, start and stop worker, request preemption | all of the above | check, then act, at every unlock | no operation while the radio is on; a grant stays true; a request is granted |
| maintenance session (`shared/badge_update_maintenance_policy.c`, `core/serial_config.c`) | a marker in RTC memory that survives resets; the session being prepared | prepare, keepalive, abort, finish, commit, clear | USB commands, boot code, supervisor | crashes and power loss at every step, rival hosts, hosts that leave | only its own reboot admits a session; bounded boots; an abort holds |
| expected reboot (`core/badge_runtime.c`, `shared/badge_runtime_policy.c`, `shared/badge_runtime_rtc_policy.c`, `core/badge_usb_recovery.c`) | RTC token and generation; a lease on the one reboot in progress | arm, publish, release, boot classification | three tasks that restart the badge; the game's hook | arming is two critical sections with an unlocked hook between | a ready token belongs to a task that goes through with its reboot |
| uplink OTA over USB (`shared/uplink_ota_policy.c`, `shared/badge_usb_uplink_ota.c`, `core/uplink_usb_ota.c`, `core/badge_usb_transport.c`) | session, flow credits, receipts, five owned resources | begin, write, finish, abort, retry, cleanup | host, flash, operation token, uploader, scanner UARTs | cleanup that fails half-way; host stops reading | everything acquired is released once; nothing undoes a selected image |
| scanner staging (`fw_store.c`, `core/badge_usb_transport.c`, `network/http_status.c`, `network/fw_auto_check.c`) | manifest and its shadow, upload state, credit policy; one inactive flash partition | begin, chunk, receipt, finish, abort, arm; HTTP store; release check | host, operation token, relay | three machines count the same bytes; writers that do not ask for the token | armed, relayed and accepted only whole |
| relay (`fw_store.c`, `scanner/main/comms/uart_ota.c`, `shared/firmware_relay_policy.c`) | relay window, session; the receiver's sequence and buffer | offer, begin, chunk, checkpoint, NACK, finish, abort | scanners, operation token | lines lost and damaged; scanner reboots; an image that does not work | success means the image runs and stays; it ends |
| update coordinator (`fw_store.c`, `shared/firmware_auto_policy.c`, `shared/firmware_coordinator_migration.c`) | per-slot campaign in NVS, worker | offer, ready, reserve, relay, recover, restore, reopen, preempt | scanners, operation token, radio | saved state and action are two steps; identities go stale | bounded attempts; fails closed; a campaign ends |
| scanner identity (`comms/uart_rx.c`, fence in `fw_store.c`) | identity and live records under two locks, generation floor | publish, clear, fence | scanner lines, relay, HTTP handlers | old lines in the UART, cut lines, restarts, two locks | what is told as fresh was sent whole after the fence |
| scanner rollback (`scanner/main/core/scanner_rollback.c`) | crash counts in RTC and NVS, forced safe mode | note boot stage, mark valid, safe mode, clear | bootloader | a reset between two writes | no endless crash loop; a safe mode asked for stays |

### Components beside it

| component | state and operations | correct when |
|---|---|---|
| BLE investigation, scanner (`scanner/main/detection/ble_investigator.c`) | runtime fence, GATT procedure, deadline, clean-up on either of two tasks | no connection left behind, every begin has its end, scanning resumes |
| BLE investigation, badge (`shared/badge_ble_investigation_state.c`, `core/badge_ble_investigation.c`) | request, result chunks, expiry, terminal replay queue | no end is lost, every request ends |
| power and quiet mode (`shared/badge_power_state.c`, `core/badge_power_runtime.c`) | a desired state and its generation, two scanners' acknowledgements | taken for converged only on proof of this request; the proof is found again |
| scanner radios (`scanner/main/main.c`, `ble_remote_id.c`, `wifi_scanner.c`, `calibration_mode.c`) | two stacks, quiet, profile, probe, lock-on | quiet is silent; back on the air afterwards |
| calibration (`network/http_status.c`, `calibration_mode.c`) | a session on the node, one on each scanner | "started" is true; it can be ended |
| Badge-Con game (`shared/badge_con_*.c`, `core/badge_con_runtime.c`, scanner's observer) | roles, decay, factory seed, mutation claim; encounters; the self handshake | playable, seed as stored, one effect a window, the badge never meets itself |
| command ingress and schemas (`shared/*_schema*`, the registries, `scanner_uart_line_framer.c`) | tables of members; the framer's buffer | a line means to its reader what its writer meant; only whole lines run, each once |
| threat, evil twin and display policies (`shared/badge_threat_policy.c`, `shared/detection_policy.c`) | tables of what was heard, fading scores, alerts | heat only with a drone; a clone is told, and is one; the highest first |
| detection flow (`scanner/main/comms/uart_tx.c`, `comms/uart_rx.c`) | queue, limiter, gate, backpressure, counters of a status | a stopped scanner is silent and is started again; a sighting becomes evidence once |
| Wi-Fi reports (`scanner/main/detection/wifi_scanner.c`) | limiter ring, budgets, movement slots | what is held back was told |
| networking and uploader (`network/*.c`, `comms/http_upload.c`, `wifi_sta.c`, `wifi_ap.c`) | modes, credentials, timers; batches, offline ring, health watchdog | a known network is joined again; what is held is kept until the backend has it |
| display, LEDs, battery, GPS | peripherals; the OK button restarts the badge, the display loop polls the radio | |
| other firmware images, Android application, backend, dashboards, host tools | separate programs | |

### How the parts interact

```
   host --USB--> serial_config / usb_transport ---prepare, abort, finish---+
                      |                                                    v
                      | upload                                    maintenance marker (RTC)
                      v                                                    |
   begin/end --> operation token --epoch--> radio gate --> VHCI      arm/publish/release
     ^   ^            |      ^                  ^                          |
     |   |          lease    | inhibit,         | permit                   v
  relay staging       |      | preempt          |                   reset, boot decision
     |   |            v      |                  |
     +---+-----> scanner UARTs  coordinator   display loop (main.c)
                   |    ^
      commands, offers  detections, status, identities, acknowledgements
                   v    |
            framer -> command task -> radios, calibration, investigation
            Wi-Fi callback, scan task, BLE host -> limiters -> transmit queue
```

## 2. Modules, and how they correspond to the code

Update path:

| module | models | composed of |
|---|---|---|
| `OperationToken` | `shared/firmware_operation_token.c`: each function as operators from a token record to the next | |
| `FirmwareOperation` | tasks that begin, stream and end operations; the lease; scanner lines; preemption, reservation, reconciliation | `OperationToken` |
| `ExclusiveUse` | abstract: what the token and lease promise | |
| `VhciPolicy` | the advertising machine, its mailbox, a controller | |
| `RadioQuiescence` | begin protocol, display loop, coordinator, worker, maintenance preemption | `OperationToken`, `VhciPolicy` |
| `UpdateMaintenance` | marker, expected reboot, boot decision, USB commands, supervisor, button, flash slots, crashes | |
| `UplinkSession` | the adapter's session of one image and the transport's flow, its own account of the transfer, as values | |
| `UplinkOta` | host, the byte queues of USB, the transport task with its latches and retries | `UplinkSession` |
| `ScannerUpload` | an image for the scanners over USB: host, stream, credit policy, store, manifest | |
| `NodeUpdates` | an image over HTTP, the node's own update, the release check, the relay's reader; the receiver's pause | |
| `ScannerOta` | the scanner's receiver of an image, as operators on its record | |
| `ScannerRelay` | the relay and the UART between | `ScannerOta` |
| `AutoCoordinator` | the campaign with its journal in NVS | |
| `ScannerIdentity` | identity lines, the two records, the fence | |
| `ScannerBoot` | crash counters, confirmation, rollback, safe mode | |

Commands, results and detections:

| module | models |
|---|---|
| `MessageWriters`, `MessageContracts` | every JSON line a program of the repository writes; the tables of every line, and what the readers make of it |
| `LineIngress` | the scanner's line framer, its hand-over to binary, the partial line's timeout |
| `ScannerRadios` | the scanner's two stacks under role, quiet, probe and lock-on |
| `PowerConvergence` | the badge's quiet mode and the scanners' proofs of it |
| `Calibration` | the calibration session of a node |
| `InvestigationScanner`, `InvestigationBadge` | the two sides of a BLE investigation |
| `BadgeConGame`, `GameEncounter`, `GameHandshake` | the game's state, how a badge in the air becomes a packet of it, how the scanners learn whom to ignore |
| `WifiReports`, `EvilTwin` | what Wi-Fi frames become reports; the clone detector |
| `DetectionFlow`, `StatusEvidence` | transmit queue, limiter, start, stop and backpressure; the counters of a status |
| `ThreatClassify`, `ThreatTable` | what a detection is taken for; the table, its fading and its list |
| `BadgeNetwork`, `Uploader` | network sessions; the upload task |

For TLC: `MCAutoCoordinator` (scenarios) and the three roots `MCDetectionPath`,
`MCCommandPath`, `MCTransferPath`; example detections for the threat models are at the
end of `ThreatClassify`. The theorems about a module `M` are in `M_proofs`, those about the
components of a root in `CommandPath_proofs`, `DetectionPath_proofs` and `TransferPath_proofs` (section 4).

`PROJECT.json` maps every definition that models code to its lines, except a helper
whose lines lie inside those of the definition that uses it.

**The roots.** Each of the three roots holds small instances of several component
modules. The components of one root share no state: a behaviour of the root is a
behaviour of one component, `part`, chosen initially, and the components take turns with
the variables `x1`, `x2`, ..., each its own in its own order (`FirmwareOperation` and
`UplinkOta`, which are also proved about or checked by name, keep their own
variables). So a root is the disjoint union of its components' state graphs, and a
property of the root is the conjunction of `part = p => property of p`. The roots leave
the parameters of the components that are proved about open, as constants with the
assumptions the proofs need; their values are in `CommandPath.cfg`, `DetectionPath.cfg` and
`TransferPath.cfg`. (`MessageContracts` and `LineIngress`, in `MCCommandPath`, are only
model-checked and have their values there.) What a
component assumes as fairness is assumed in the root: its k-th assumption is joined
with the other components' k-th, which in a behaviour of one component says the
same, or less where two of its actions share an assumption. Where
components do meet in the code, the module that has both is
named in the sections below; a component not in the same module is there as an
environment that may do at any time what the code lets it do.

**OperationToken.** A guard of a function is a `Can...` operator, its effect an
operator without it; the spinlock makes each function atomic. Generations are
counted to `GenMax` (the code's `UINT32_MAX`, where it refuses: modelled), epochs
wrap after `EpochLast` and skip zero as in the code; `Room` is the one state-space
bound, it stops a behaviour at `EpochMax` epochs.

**FirmwareOperation.** `pc[t]` is where a task stands in `fw_store_operation_try_begin`
or `_end`: every unlock between two critical sections is a step boundary. `tok[t]`
is the copy the caller keeps, on the stack or in a session structure, and is not
cleared when the operation ends: `EndAgain` lets a task present it again, as
error paths do. `Attach` has the code's refusal too, which is never taken: it needs a token
that somebody else ended, and `OneOwner` is why that cannot be. Owners
differ in who takes the lease: staging in begin itself, relay after it, the uplink
image never.

**VhciPolicy.** One poll of the display loop is one step (`PollRadio`): deliver the
event in the mailbox, expire the deadline, steer toward what is wanted, attempt a
command. Time is whether a deadline has passed. The BLE controller is external:
it answers with success or failure, loses commands or answers, and speaks
unasked, as far as `Explored` says; with `LateReplies` an answer may outlive the
250 ms deadline of its command (no run has it, see observation 1).

**RadioQuiescence.** The four parties named in the module's header, one step per
critical section. The token record, the gate and the policy are the variables
they share; `client[c].epoch` and `loop.seen` are what a task read earlier and
uses later, which is what the properties are about. Try-locks may fail.

**UpdateMaintenance.** `rtc` is the retained record, `flash` the partition
table with the bootloader's rollback, `boot` this boot's classification, `run`
`badge_runtime`'s volatile state, `arm` and `task` the reboot in progress, `usb`
the statics of `serial_config.c` and the transport, `fw` what the restarts see of
the operation token. A restart is the sequence `Arm`, `Publish` (or
`PublishFails`), `ReserveFirmware` (or `FirmwareBusy`), `ClearMarker`, `RollBack`,
`Restart`, or `ReleaseToken` and `ReleaseArm`; a crash or a power loss may come
between any two. The USB task, the main task (supervisor or watchdog) and the button
task each walk through it. `boot.cause`, `boot.aborted` and `boot.streak` are history
variables. Simplifications:

- the retained layout is the current one; the conversion of what older firmwares
  left in RTC memory is not modelled, except the v0.78 token word, `Legacy`;
- boards whose USB transport cannot start are not modelled;
- time is flags (`due`, `idle`) that may be raised when their clock runs;
- an aborted upload always frees the operation here (cleanup that has to be
  retried is in `UplinkOta`);
- campaigns are the two states of `fw.op`, and begin nothing once the host has left;
- whether `esp_ota_mark_app_invalid_rollback_and_reboot` succeeds is external;
- the poll also drops a noted abort once nothing is being prepared; here preparing
  ends only by the poll itself or by a restart, which clears the note too.

**UplinkOta.** One task runs the badge's part, so a step is one pass of its loop
through one handler, and a handler is a function from the state of the badge to
the set of states it may leave: the C functions call one another in their tails,
and so do these (`Receipt` ends in `AbortOta`, that in `CompleteAbort`, that in
`DeliverTerminal`). `badge.session` is `s_session`, `badge.flow` is `s_uplink_flow`,
`badge.latch` the `s_uplink_...pending` statics in the order the loop looks at them,
`badge.pending` the chunk kept for a retry. Against `session.owns`, what the adapter
believes it owns, stands `badge.held`, what is really taken; `gaveUp`, `pure` and
`terminals` are history. Data is counted in units; image bytes and command lines are
the two kinds of what the host sends, and a stale chunk of one read as the other is
possible, as in the code. Every acquisition, write, emission, verification,
summary and restart may fail. Simplifications:

- the manifest, partition, identity and marker checks are one answer each for begin,
  write and finish; a digest matches exactly the bytes the host sent as its image;
- the restart into a selected image keeps the badge's state only as far as `Boot`
  says; crashes and what the next boot makes of them are in `UpdateMaintenance`;
- another caller inside the adapter (`adapter_busy`) and a refused end of the operation
  cannot happen as the badge is wired, since one task calls the adapter with the token it was
  given; the code retries both and the adapter's tests produce them. `MaxBusy` and
  `MaxRefusals` say how many there may be, so the run has the badge as wired (none of them
  is spent) and the retries. `gaveUp` records that every retry of the operation's release was
  refused and the recovery restart too, the one way in which the badge goes on with it held.

**ScannerUpload.** The host sends a window and waits for its receipt; `stream`,
`policy` and `store` are the three accounts of the same bytes, `manifest` and
`shadow` what is in flash and what the store believes. Any write, save or emission may
fail, the host may give up and come back, and another run of the tool may intrude. A
begin whose ready line cannot be emitted is given up in the same pass, with the store and the
token (`Unheard`). The badge does not reset here: what a reset leaves of a committed manifest,
valid but unarmed, is told under observation 15 only.

**NodeUpdates.** Requests of the HTTP server, the release check and the relay worker
each walk through their handler; `flash` is the one inactive partition,
written by all. The relay's pause of the receiver carries a generation, which the
receiver acknowledges when it polls.

**ScannerRelay, ScannerOta.** `relay` is the uplink's loop with its window and the
checkpoint it waits for, `scanner` the receiver's record; lines and frames travel
on two wires that lose and damage. A frame arrives whole, with a wrong checksum, cut
short or with a length no frame has. The scanner may lose power at any step, and
the new image may be one that does not work: success must wait for its READY.

**AutoCoordinator.** `nvs` and `ram` are the two copies of the record; every change is saved
under the mutex before it is used, and each critical section is an action. Identities
are abstracted to the marks a publication has followed. A relay is one step with
its possible outcomes. A scenario is a first boot with its budgets of resets, NVS
failures, stale identities, board swaps, preemptions and new images.

**ScannerIdentity.** A line travels as two halves, so a flush, a reset or a
relay's own reads can cut it, and halves of two lines of a kind make a line the schema takes. The
two records are published under two locks, one after the other.

**ScannerBoot.** The steps between two writes of the crash words are actions; the
boot loader starts a new image once on trial.

**MessageWriters, MessageContracts.** A message is its members with
their types and bounds. The writers are read from their `printf` formats and
guards (uplink, scanner, `fof_badge_flash.py` and `recover_fof_badge.py`), the
schemas from the registries, the decisions from the handlers; so a member
renamed, widened or dropped on one side shows. A line may be damaged on
the way: one member lost, doubled, added, of another type or out of range.

**LineIngress.** The C code's consumption of a byte, with reads of any size.

**ScannerRadios, InvestigationScanner.** A task's pending calls are a sequence of
steps, so that what the C code does between two unlocks or two calls into the BLE host or
Wi-Fi driver is one step, and every other task may come between two of them. An image for the
scanner itself stops both stacks at its begin (`OtaBegin`), and its end applies the profile
again (`FirmwareEnds`); the image is in `ScannerOta`.

**PowerConvergence.** A scanner says who it is at its start and every ten seconds. The first of these
lines may be lost, then the badge does not know yet that its scanner has restarted (`unsaid`), and
neither does what it believes of it: `ProofIsCurrent` is about scanners whose restart is said.

**DetectionFlow.** Two tasks write detections: the transmit task, through filters and limiter,
and the BLE task, which writes a drone's identity itself (`DirectBegins`, `DirectLocks`,
`DirectWrites`); both look at the gate twice, the second time with the UART held. The networked node is modelled.
The half of the gate that looks at quiet mode is only reached on a badge and is left out; what
quiet mode does to transmission is in `ScannerRadios`.

**WifiReports, EvilTwin.** The look-up of a key in the limiter ring, the writing of an
entry and the advance of the ring are separate steps of two tasks; each is atomic, which
the C code's `memcpy`s are not. An observation of `EvilTwin` is one step.

**ThreatClassify, ThreatTable.** Scores in hundredths, decay in the code's halves
and tenths, texts as the set of the words in them the code looks for.

**Uploader, BadgeNetwork.** The loop of `http_upload_task` with the outcomes of
a post; a batch that is neither full nor old may be passed over (`AfterCollect`). What was stored is drained a batch a round and put
back at the tail, so the backend does not get it in the order of the ring; no property says so. `AllSent`
asks that nothing whole is left in the ring either; the callers of the network session, which set the mode and apply it in two
steps without a lock, against the driver's events and two timers.

**Game.** `BadgeConGame` has the claim, the copy and the commit as separate steps;
`GameEncounter` times in two-second units; `GameHandshake` the poll of the display task
and both UARTs.

## 3. Runs

Distinct states of the passing runs; two workers, each within five minutes.

| run | states | what it shows |
|---|---|---|
| `command_path` | 530,998 | three tasks that begin, stream and end firmware operations while lines are sent and restarts asked for exclude each other, balance the lease, leave streams alone, and implement `ExclusiveUse`; for the radio, the scanner's boots, its stacks, quiet mode, calibration and the handshake: what is acknowledged is so, nothing is changed behind the back of who asked, and commands settle; for line ingress and message contracts: a line is understood as meant |
| `radio_yields` | 3,258,745 | no operation runs while the game's radio is on or about to be |
| `radio_granted` | 124,306 | a host that keeps asking is granted the maintenance reboot, and a grant stays true |
| `update_maintenance` | 268,188 | reboot tokens belong to their owner, maintenance boots are bounded and are the reboots their session armed, aborts hold, what is abandoned ends |
| `maintenance_abort` | violation | finding 1 |
| `transfer_path` | 295,066 | the image over USB: everything taken is released, a selected image is whole and stands, the accounts agree, one outcome is told, every transfer ends; for scanner images, identities, node updates and investigations: what is used is whole and fresh, nothing stays behind, transfers settle |
| `relay` | 860,213 | a relay's success means that the image runs for good; relays end, and scanners return to service |
| `coordinator` | 3,075,352 | the journal restores to a sound campaign, what is announced is durable, what is done stays done |
| `coordinator_ends` | 166,872 | a campaign taken up ends while the scanners publish |
| `coordinator_silent` | violation | finding 2 |
| `detection_path` | 509,862 | evidence is of something heard, the game stays sound, limiters and queues keep their promises, the list shows the highest first, stopped flows return |
| `threat_memory` | violation | finding 3 |

**Bounds, and why they are enough.**

*`command_path`*: three tasks are one to own the token, one to wait with it for the
lease and one to interfere; three owners cover the three lease styles. Three
generations give a stale copy two later operations to confuse and reach the refusal at
the last one; epochs are bounded at 7 of 20. The advertising machine has the code's two retries and three
queued commands, with controllers that answer in time or not at all. The other
parts are one scanner or two, with one fault more than the number of steps the code
guards with one check: threshold 2 and 4 faults for the crash counters, one
command for the stacks, one scanner, two requests, one fault and two lines
under way for quiet mode, two starts with one loss, one reset and one busy answer for
calibration, one loss and a reset of each side for the handshake. Reads of the framer are up to
three bytes.

*`radio_yields`, `radio_granted`*: the hazard is a permit one epoch old, and each
operation or preemption makes at most two epochs, so four let the display loop be
overtaken twice. Retries of the policy are explored in `command_path`; here they are zero, which
sends the machine to FAILED sooner and takes nothing from the interleavings. Sample
attempts are two where the code has three: one failed comparison and none left.
`Explored` names the faults the environment may show; between them the runs use all.

*`update_maintenance`*: two maintenance boots (the code's limit is eight) are one
allowed and one to be refused after it; three generations make the count wrap and meet
the legacy word within two reboots; every fault is on.

*`transfer_path`*: an image of four units is one full credit and a short last one, one of
seven two full credits and a short one; the identity is complete in the middle of the first
credit; chunks of one and two cut every credit in every way. Two begins are one transfer
and one after its failure or over its remains. One refusal and one contention are below
the two tries (the code's limit is four), the case the retries are for. Scanner images
have five units in credits of two, with one restart, three faults and one intruding run of the tool;
the identity's lines two halves each, two boots, one fence; the node's requests two with one
check, one relay and one fault; investigations two or three requests with two faults.

*`relay`*: two chunks are one that is not last and one that is; two relays are one and
its remains; one retry and one beyond it; two faults are one and another while it is being mended.

*`coordinator`, `coordinator_ends`*: each scenario is a first boot with the one or two kinds of
mishap that can meet in it; all together in one behaviour have too many states, and each campaign takes one
relay per slot more than the code's limit needs to be passed (`MaxAttempts`, 3 in the code). The first scenario has
both slots, for the gate that puts BLE first.

*`detection_path`*: tables, rings and queues of two or three places, one key more than places,
times up to just past each limit; of the kinds of detections two that the limiter looks at and
one that the BLE task writes itself.

**Deadlock** is checked except in the three roots, whose components stop when their
environment's budgets are spent, and in `threat_memory`, whose clock is bounded.

**Fairness and why it is justified.** Tasks, wires and timers are weakly fair: FreeRTOS
runs every task, the loops wait with time-outs, and what a UART does not lose arrives. Hosts,
users, faults and resets are never fair. Strong fairness is assumed only for what is tried again and again
until it succeeds:

- the acquisition of a mutex that others take and give (FreeRTOS hands it to
  a waiting task): the preparation's coordinator mutex, the UART lease's poll, the
  display's snapshot of the game;
- the worker's safe point, the supervisor's arm of a restart, retried each round until the arm is free
  (`update_maintenance`);
- what a task sends periodically whatever else is sent: READY every 30 seconds
  (`relay`), a scanner's status and identity (`coordinator_ends`, `detection_path`);
- an operator who repeats a stop until it is answered (calibration).

`radio_granted` assumes besides that the coordinator does not save for ever, and
`update_maintenance` that mishaps stop: a badge that crashes for ever ends nothing. In
`transfer_path` weak fairness is of each branch of the transport's loop under its own guard.

**What the properties say.** Each is stated in a comment above its definition. The
ones to read first: `OneOwner`, `LeaseBalanced`, `StreamUndisturbed`
(`FirmwareOperation`), `OperationRadioSilent`, `GrantStays` (`RadioQuiescence`), `AdmittedByItsArm`,
`AbortHolds`, `AbandonedMaintenanceEnds` (`UpdateMaintenance`), `ReleasedAtRest`, `SelectionStands`,
`WindowsAgree` (`UplinkOta`), `JournalSound`, `DurableFirst` (`AutoCoordinator`) and
`OkMeansRunning` (`ScannerRelay`). Each property of a passing run has a mutant in
`PROJECT.json`: a bug put into a definition that models code, which TLC finds with it.

## 4. Proofs

A module `M_proofs` extends `M` (those of the roots: `MCCommandPath`, `MCDetectionPath`, `MCTransferPath`) and proves theorems of `M`'s
specification for every value of the constants that `M`'s assumptions admit. Each follows one plan: an inductive
invariant (first model-checked on a
small instance), one lemma per action that the action preserves it, a lemma that collects them over `Next`, and
then each property from the invariant. The lemmas about operators (token, policy, session, handlers, tables) are stated
once and cited. For a root, `PartInv` is the conjunction of `part = p => invariant of p`, and `PartStep` says that a step of
the root is one of the component whose behaviour it is; the invariants of the components are defined at the ends of their
modules.

| module | theorem | establishes |
|---|---|---|
| `CommandPath_proofs` | `TypeCorrect`, `OperationsExclude`, `LeaseIsBalanced`, `StreamsUndisturbed`, `RestartIsSafe` | `TypeOK`, `OneOwner`, `LeaseBalanced`, `StreamUndisturbed`, `RestartInterruptsNothing`, always |
| | `Refinement` | `Spec => ImplementsExclusiveUse` |
| | `AcknowledgedHolds`, `NothingBehindHolds` | `AcknowledgedIsSo`, always; the action property `NothingBehindTheBack` |
| | `ForcedHolds`, `QuietHolds`, `ProofHolds`, `FilteredHolds`, `StartedIsArmed` | the same of single components: `ForcedStays`, `QuietIsSilent`, `ProofIsCurrent`, `ReadyIsFiltered`, `StartedMeansArmed` |
| `DetectionPath_proofs` | `EvidenceHolds`, `GameSoundHolds` | `EvidenceIsReal`, `GameStaysSound`, always |
| | `PromisesKept` | the action property `PromisesHold` |
| `VhciPolicy_proofs` | `QuietIsSilent`, `NothingStartsInhibited` | a radio called quiet is off and no queued command starts it; nothing is asked to advertise while inhibited |
| `RadioQuiescence_proofs` | `RadioYields`, `GrantIsKept` | `OperationRadioSilent`, `GrantStays`, always |
| `UpdateMaintenance_proofs` | `TokenOwned`, `BootsAreBounded`, `CommittedImageRuns` | `TokenHasItsOwner`, `BootsBounded`, `CommittedRuns`, always |
| | `OnlyItsArmAdmits`, `AbortsHold` | the action properties `AdmittedByItsArm`, `AbortHolds` |
| `TransferPath_proofs` | `TakenIsReleased`, `SelectionIsFinal`, `SelectionIsWhole`, `AccountsAgree`, `OutcomeToldOnce` | of `UplinkOta`: `ReleasedAtRest`, `SelectionStands`, `SelectedIsWhole`, `WindowsAgree`, `OneTerminal`, always |
| | `WholeAndFreshHolds` | of the other parts: `WholeAndFresh`, always |
| | `NothingBehindStays` | `NothingStaysBehind`: an invariant and an action property |
| `ScannerRelay_proofs` | `RelayInvariant`, `SuccessMeansRunning` | `OkMeansRunning`, always |
| `AutoCoordinator_proofs` | `CoordinatorInvariant`, `JournalIsSound`, `FlashFirst`, `DoneStays` | `JournalSound`, `DurableFirst`, always; the action property `DoneStaysDone` |

**The operation token.** `OneOwner` is not inductive: a task that ends an operation with a copy
of its token must be known to be the one inside. `CopiesAreOld` says why: a copy
not in use belongs to an earlier generation, and generations are never reused.
`LeaseFlag` relates the record's lease flag to how far its owner got, which decides
whether `End` gives the mutex back; without it `LeaseBalanced` breaks when the
attach step is interleaved with a time-out. `LinePlace` keeps a task from writing
a line inside begin or end. Together with `TypeOK`, `OneOwner`, `LeaseBalanced` and
`RestartInterruptsNothing` they are `OperationInv`. `StreamUndisturbed` follows from it: two holders of one
mutex.

*Refinement.* The abstract owner is the task whose copy the token answers to, the
abstract stream is whether some task streams, the abstract door is closed when a
restart is reserved or preemption requested. Claiming maps to `Enter`, the lease to
`StartStream`, the end to `Leave`; the rest stutters.

**The radio.** `RadioInv` says what the policy knows: the advertiser is on, or about to be,
only if the policy says so or is in doubt, and the controller holds at most the command the policy waits
for; and an answer in the mailbox is the one it waits for and still true. That needs a
controller whose answers do not outlive the 250 ms after which the command is retried: both modules have the
hypothesis `~LateReplies`, and without it the theorem is false (observation 1).

For quiescence, `QInv` adds the epochs. Every edge of the token counts one up, so copies are
never ahead of it (`EpochOrder`), and a party acting on a copy with the token's own epoch acts
on the token itself: a permit of that epoch is one the token gives (`PermitIsCurrent`), the quiet a claimant has
seen at that epoch still holds (`ClaimIsQuiet`), and no permit on its way to the gate is newer than the inhibit there
(`ActiveIsQuiet`). The gate compares epochs in the code's wrapping order; `SpanAssumption`
(`2 * EpochMax + 4 <= EpochLast`) says that one boot makes fewer epochs than half the 32-bit range, in which that order is the
order of counting (observation 5). `GrantShape` says which fields are frozen from each step of a preparation on.

**The way of a command.** One invariant per component, and why the property alone does not do:

- *Safe mode* (`BootInv`): the request is a flag in NVS that outlives every reset, but a clear armed before it is taken up by a later boot
  in several writes; `ForcedInv` says at which steps of a boot one may still be armed, and that none is once safe mode was asked for.
- *The game radio* is an instance of `VhciPolicy`, so `RadioInv` of `VhciPolicy_proofs` is used as it is, with `LateReplies` false.
- *The scanner's stacks* (`StackInv`): quiet is answered when the command task has run out of steps, while the boot task, the listener,
  the BLE host, the Wi-Fi scan and an investigation may each be between looking at the mode and starting a radio. A task puts its mark
  up before it looks, and has a start among its next steps only behind the mark (`MarkedOf`); quiet is acknowledged with no mark up and the
  host ended, and from then on no task has a step left that starts a radio (`SilentInv`).
- *Quiet mode* (`PowerInv`): a scanner counts as converged on an acknowledgement of the wanted mode that may be one of an
  earlier request for it. Generations in a wire never fall (`InOrder`), and an acknowledgement that would prove anything is behind
  every line of another generation (`AcksAreProofs`), so either the scanner is in the mode, or the identity of its restart is on its way
  or has yet to be said again.
- *Calibration* (`CalInv`): "started" is answered when every awaited scanner has been heard to say so; `StartedInv`
  says that a line or a record that says so is about a scanner that is armed, or has reset since.
- *The handshake* (`HandInv`): what a badge may advertise is filtered by its scanner. The self lines of one boot of the badge
  come before those of the next (`SentInOrder`), a scanner's boots are known in order (`BootsKnown`), and an acknowledgement of
  the present identity means that the scanner knows it, or has reset and its new status is still to be read (`AcksAreOurs`).

Assumed is `PartsAssumption`: bounds are numbers, the advertising machine's queue has a place, and no scanner is called "none".

**The way of a detection.** Here most of the work is in the tables, which are sequences and functions the code searches, shifts
and overwrites; each has lemmas for what its operators return.

- *Wi-Fi reports* (`ReportsInv`): a frame that is due is held back because a ring entry says that it was told. Two contexts share a
  ring, and an entry is written before its report is made; so an entry that can hold back stands for a report made, or for
  one that the context which wrote it has yet to make, at this very time (`Vouched`, `Telling`). The tracker has one slot for a
  name, and in it a suffix of that name's signals (`TrackerInv`), so a "movement" is in the last of the signals heard.
- *Clones* (`TwinInv`): every point in the table is as last heard, once (`TableInv`); as long as the table was never full,
  it has all that was heard and knows when each was last told (`KeptInv`). Without the first a clone might be told of an access
  point that had changed; without the second one kept quiet.
- *The scanner's counters* (`EchoInv`): sightings are numbered, in the model only; what was told since the badge's last restart is
  named only by counters it has acted on (`Acted`), and a frame under way is never of a newer sighting than the scanner (`SightingInv`).
  A restart of the badge, which forgets the counter, is why a sighting may be told once more for each of them.
- *The stopped scanner* (`SilenceInv`): the stop acknowledgement waits for the UART's mutex, which either writer holds while it
  writes; behind it both find the gate closed, and the transmit task has nothing but the identity in its hands.
- *The offline ring* (`RingInv`): what is put back after a failed post finds room, because the ring never held more than its size.
- *Encounters* (`PeersInv`): what was felt of a peer within the window is remembered by the peer's entry, whose newest sample is no older
  (`Remembered`); the entry is forgotten with its samples, so only after the window, and for the identity that turned out to be the own one.
  That needs the window to be shorter than the rate limit, as it is in `shared/badge_con_encounter.h`.
- *The game* (`GameInv`): a commit may come late, after others have claimed and committed; a claim's copy is always a game
  that can be played, of the seed of the game it will replace or of the one just stored.

Assumed are one assumption per component (`MCDetectionPath`): sizes and periods are positive numbers, the frames of the air
have a level, a lane and a key that says within its lane whether it is a drone's, the sights are finitely many, `Window < Rate`.

**Maintenance.** The argument is about the armed marker. Once a boot has read the retained
memory, only the owner of the reboot arm publishes a marker, with a generation that is never the
legacy word, and goes through with that restart (`ArmShape`, `ReasonShape`, `TokenShape`,
`MarkerShape`); so a boot that finds a marker with the generation of its token comes from that arm
(`AdmissionShape`). `StreakCounted` relates the history of maintenance boots to the count in the marker, `UploadShape` the
upload to the flash slots, `AbortShape` an accepted abort to what can still restart. No hypotheses: every
mishap may be explored, any number of sessions, boots and generations.

**The uplink's own image.** Handlers end by calling one another, so the lemmas are about
handlers: from a badge that satisfies the handler's precondition (`Cleaning`, `Abortable`, `Settled`,
...) every badge it may leave satisfies the invariant between two passes of the loop, `Sound`: what is
held is what the session owns (`Owned`), one outcome is told or still to be told (`Answered`), and
the badge has either selected an image and only restarts, or has a live session on the line with agreeing
accounts, or is about to abort it (`Resting`). Images, credits, chunks, transfers, retries and
refusals are any number. The hypothesis is `MaxBusy < RetryLimit`: other callers find the adapter's mutex taken fewer times
than a handler tries. In the firmware only the transport task calls the adapter's begin, write, finish and abort, so there
`MaxBusy` is 0; with as many contentions as tries a cleanup would be given up, and TLC finds `ReleasedAtRest` and
`SelectionStands` false (observation 3).

**What else is carried over.** One invariant per component:

- *Scanner images* (`StagingInv`): the parser, the credit policy and the store each count the same bytes. A window is spent and
  renewed in three calls that may each fail, so the accounts agree (`CountersAgree`) only because every failure takes the upload
  away from all three. Armed is whole because while bytes come there is no manifest, and a committed one waits, unarmed,
  for its last receipt to leave the badge (`StagedInv`); what a host was told after it lost touch rests on a status that is certain of an image only with
  its campaign armed (`ToldInv`).
- *Node updates* (`NodeInv`): others may write the partition while an image is stored or relayed, so the image in flash says nothing;
  a manifest's CRC is of the bytes received, hence of one whole image, and so is what a scanner accepts (`AlikeInv`). One job
  holds the guard, the request is its own (`GuardInv`), and an acknowledgement is of the present request of a
  receiver that stands still (`PauseInv`): an older one is withdrawn before the next is seen.
- *Identities* (`IdentityInv`): a fence waits until what was under way has arrived, drains it, and sets the floor. So whatever
  the receiver reads or holds outside a pause was sent behind the floor (`EraInv`); and a framer that was not reset since it
  took a head is given the half that follows it, because the halves it holds, the wire and what the scanner has yet to send
  are one chain (`Halves`, `PairInv`). Between the publication of a line and its entry in the second record the line
  waits with the generation it was given, which is still the newest (`GenInv`).
- *Investigations, the scanner's side* (`BehindInv`): two tasks clean up, and the BLE host answers late. Whoever holds the emission
  mutex cleans up the current investigation, not an earlier one (`MutexInv`); until it is launched nothing of it is known to the host (`LaunchInv`);
  while there is a connection nobody holds the news that it is gone (`LinkInv`); begins and ends balance (`EndsInv`).
- *Investigations, the badge's side* (`EndInv`): the end in the UART task's hands is that of the current request (`PhaseInv`), and a start that may
  still be taken back has no chunk (`FenceInv`), so an end is always told, queued, in a task's hands or marked for replay.

Assumed are `StagingAssumption`, `IdentityAssumption` and `InvestigationAssumption`: sizes, reads and budgets are numbers, and an image has a byte.

**The relay.** A relay succeeds when the scanner's identity line says the new image, confirmed, with another boot
than the relay began with (`scanner_post_update_converged`). What could go wrong is a begin still under way to the scanner,
which would start another session on it, or an old identity line read late. `IInv` says why neither can: a begin goes
out only on an empty wire, so it precedes every frame of its session (`BeginFirst`), and the receipt that lets the relay go on to its end is
sent after the last frame; so from there on no begin is on the wire (`Ending`). Sessions only count up, so
the scanner can take no frame for one of this relay before the relay's begin (`SessionsPast`, `Beginning`). While the relay
streams, everything said of the scanner is of the old image; afterwards an identity that reads converged means that the scanner
is `Settled`: it runs the image, will boot it again and needs no confirmation, which only a begin undoes (`Evidence`). There are
lemmas for one end of the link moving (`MoveStep`) and for steps that leave sessions and wires (`MinorStep`). Chunks, relays, retries and
faults are any number; no hypotheses.

**The campaign.** The property hard to believe is the budget: no sequence of resets, refused saves, restagings and reopened slots makes
one staged generation send an image to a scanner more than `MaxAttempts` times. The relays made (`hist.sent`)
must be covered by the attempts counted, in RAM and on flash, *plus one* that the worker has reserved and not
begun (`Due`, `Covers`): between the save of a reservation and the relay it is for, the worker drops the lock and can be
preempted, refused or overtaken by a new image, and some of these paths give the attempt back. `Reserved` says when it may: the manifest is still the one reserved
for; `Staged` says what staging has done to record and manifest at each of its steps, so that a reservation of the campaign before can
be neither claimed nor given back to the one after. `Records` has the rest of a journal's soundness: what is on flash is none, or valid, or a record of
the older schema that migrates to a valid one (`Readable`); RAM is a valid record and equals flash unless it knows that it may not; a slot
that is relaying has an attempt counted (`Sound`), which `auto_coordinator_blob_valid` does not check. `Generations` relates manifest, record and the newest generation,
`Controls` the radio's inhibit to what is left to relay. A handler changes a record in one of two ways: an amended slot of the same campaign
(`Amends`), or the record closed (`Closed`); `Put` is what a save may leave of it, and `PutKeeps`, `PutCovers` and `StillKeeps` carry
the invariant over it, so that each action's lemma is about its own record only. `KeepsDone`, proved of the same steps, is `DoneStaysDone`. Assumed are
`BudgetAssumption`, `SlotAssumption` and `ScenarioAssumption`: at least one attempt, masks of the two scanners, first boots as the
firmware leaves them.

**Only model-checked.** Liveness (`CommandsSettle`, `MaintenanceGranted`, `PreparingResolves`,
`AbandonedMaintenanceEnds`, `TransferEnds`, `TransfersSettle`, `RelayPasses`, `CampaignEnds`,
`FlowReturns`), which needs rules for fairness and ENABLED that the prover has not. What folds, selections and recursive functions
compute over data, which would need induction with an operator as parameter, that the installed provers lack: `ThreatsAreShown` (the list
is a fold over the table, the class the first of a selection of rules) and `UnderstoodAsMeant` (lines are sequences that are parsed).
Every other safety and action property of a passing run is proved. No module declares a RECURSIVE
operator.

## 5. Findings and observations

**Findings** are shown by a run.

1. **An accepted abort can be followed by the maintenance boot it was to prevent**
   (`maintenance_abort`, `EveryAbortHolds`). A prepare that could not have its
   restart leaves the request latched; the response to the next command, also to
   the abort itself, tries it again (`core/serial_config.c:3248`), into maintenance.
   `AbortHolds` is what does hold: an abort accepted with no restart
   already asked for is not followed by a maintenance boot.
2. **A campaign with a silent scanner never ends** (`coordinator_silent`, `CampaignEnds`). The
   worker's identity prompts go through `fw_store_request_scanner_checks`, which refuses while the worker
   runs (`fw_store.c:5451`, `4330-4367`); the wait is rolled back each pass and its
   deadline never runs. The slot, the campaign and the radio's inhibit stay, with two NVS saves a pass.
3. **The display erases what was heard a minute ago** (`threat_memory`,
   `MemoryOutlivesActiveWindow`). Each snapshot stores the faded score and the next fades it from the last
   sighting again (`shared/badge_threat_policy.c:2137`).

**Observations** were met while modelling; no run shows them. Some are unreachable as the badge is wired.

*Radio and operation*

1. HCI replies are matched by opcode alone (`shared/badge_con_vhci_policy.c:366`), and enable and
   disable share one: after a timeout the retry's answer may be the abandoned
   command's, and the policy reports quiet while the controller advertises. It takes a controller slower than 250 ms.
2. After an enable whose answer was lost, an inhibit leaves the policy OFF with the radio's
   state uncertain (`badge_con_vhci_policy.c:403-414`); no operation can begin until the inhibit is lifted.
3. The uplink's transfer, if another caller held the adapter's mutex, which none does: a chunk kept over the idle
   timeout makes each later pass abort again (`core/badge_usb_transport.c:1271`), as does a finish put off;
   `badge_usb_uplink_ota_flow_finish_result` (`shared/badge_usb_uplink_ota.c:225`) does not look at `aborted`.
4. When every retry of the operation's release is refused and the recovery restart finds the reboot owned,
   the operation stays held until the next begin, which only retries the release
   (`core/badge_usb_transport.c:863`), where the design
   (`docs/superpowers/specs/2026-07-21-badge-usb-uplink-ota-design.md:56`) accepts no input until cleanup is terminal.
5. The gate of epochs compares within half the range (`badge_con_vhci_policy.c:25`): a boot with more than
   2^31 edges would misorder them. A begin that fails after raising the inhibit leaves it to the coordinator's
   reconciliation (`fw_store.c:108`). `badge_con_vhci.c` has one slot for events (line 74) and a window between init and the first poll (line 155).
6. The BLE host's handle is stored after `xTaskCreate` returns, and its end clears the two words one after the other.

*Campaign, relay, scanner*

7. A crash on the HTTP path between the manifest's commit and `begin_generation`, with an older coordinator
   record, makes restore refuse (`fw_store.c` about 7022). A failed slot reopened by a check while the worker rests starts no worker
   (5311). Failed revalidations spend no budget.
8. The scanner's check for an offer already armed is dead; READY every 30 s races with its `fw_ready` latch
   (then `offer_manifest_mismatch`). `ota_relay_handler` always answers 403; its `ota_begin` line would be refused by the scanner's schema (`network/http_status.c:1623`).
9. A scanner that crashes between `esp_ota_set_boot_partition` and `esp_restart` rolls back a good image;
   mark-valid withheld after 180 s leaves an image pending for ever; safe mode confirms a pending image at once; a clean reset
   leaves crash-loop safe mode.
10. `s_radios_ready` is computed once at boot (scanner `main.c:2381`): quiet before the first START is answered
    `ok=false` until wake; wake is refused `firmware_update_active` while the firmware state is "ready". An ack of wake can be sent while flags still look active.
11. The scanner's 30 s automatic start in the transmit task (`uart_tx.c:1763`) and in the badge
    scanner's main loop (`main.c:1892`) re-enables transmission after an acknowledged STOP. "A stopped scanner still emits identity/status"
    (`uart_rx.c:1766`): a paused transmit task emits nothing, and the READY every 30 s does not clear the backpressure flag.
12. Noise that joins two lines into one that the schema takes is not modelled. A status frame without a complete identity leaves the older one
    in both records although comments say "clearing missing fields fail-closed"; the identity's generation wraps to 1 while floors compare
    with `>`; `scanner_info`'s branch "no published generation" is dead.
13. The line's age is not restarted when an empty CRLF line is split between reads (scanner
    `main.c:1965`); no writer in the repository sends CRLF.

*Uploads and the node*

14. `ota_post_handler` and `fw_auto_check` write the inactive partition without the operation token and
    without withdrawing the manifest; the relay's CRC catches a mixture, but a download that chases a post's writes could leave a whole
    scanner image when `esp_ota_end` verifies it, or a torn one between `set_boot` and the restart 1 s later.
15. A scanner upload whose terminal's drain times out although the host received it leaves a host that believes in
    an upload the badge has withdrawn; after a reset between manifest commit and terminal the manifest is valid but unarmed. The store's
    check of a second begin cannot fire in line mode.
16. `recover_fof_badge.py` also sends lines that the current ingress refuses; scanner commands `reboot` and `ble_investigate_cancel`
    have no writer in the uplink; `uplink_ota_abort` is in no registry (the transport's session handles it).
17. The uploader clears its backlog when no *live* post succeeds for 30 s, contrary to `http_upload.h:8-9`; 400 and 422 are retried despite the comment; a stored
    payload cut at 4095 bytes is rotated for ever; the lock-on poll reads after `esp_http_client_perform`; a changed backend URL keeps
    the open socket.
18. "Force AP-only standalone" (`wifi_sta.h:27`) neither disconnects a joined station nor stops `STA_START`;
    BACKEND, LOCAL_AP, BACKEND finds the radio "already started" and never connects; mode and application are two steps without a lock; a
    late DISCONNECTED after `stop_all` arms the timer again.
19. A calibration's failed start waits on stale "normal" information and ignores the result of its undo; a posted stop before the
    status arrives is answered ok with nothing sent; a stop with no scanner answers 503 and stays in calibration; scanners have no timeout of their own.

*Game, investigation, detection*

20. The game's single mutation claim (`core/badge_con_runtime.c:208`): the activation at the easter egg's end is silently lost if a
    snapshot or a peer's packet holds it, as is a peer's effect. "One effect per eight seconds" is undercut after 6 s of silence (`badge_con_encounter.c:12`).
21. A GATT result before `runtime_finish_gatt_procedure` is dropped; a USB progress chunk can follow a replayed END; the
    badge never cancels at the scanner; the clean-up's bound of 4 steps never binds. After a failed connect outside the
    pairing window a bonded phone gets no advertisement.
22. `badge_power_state_still_matches` is trivially true after the second snapshot.
23. `claim_entity_slot` evicts without regard to class; `BADGE_SKIMMER_DETECTION_ENABLED` is 0; DJI elements are
    neither evidence nor heat; `active_counts[META]` counts listed items only.
24. The transmit limiter judges a new key in a full table by the evicted key's slot (`uart_tx.c:481`), and notes a detection as sent
    before pressure or a closed gate drops it (1868). The Wi-Fi limiter stamps a probe before the budget refuses it and a report before `xQueueSend` fails.
25. Status counters carry no boot id, so a reset scanner that reaches the number told before goes unnoticed; a restarted uplink tells an
    old SSID once more; counters are reset although the line may not be sent (`wifi_scanner.c:2146`, `uart_tx.c:1365`). "More than 5 deauth in
    10 s" (`wifi_scanner.c:187`) counts within one status interval.
26. The hot-channel table is written by two tasks without a lock; a lock-on can be cleared by its predecessor's expiry;
    `s_current_channel` follows only lock-ons, so beacons heard while a scan hops are attributed to it. Channel heat, adaptive dwell and others are unused.
27. Beacons report RSN as 3 and scan records as 4, 6 or 7, so one access point heard both ways differs in
    security; the evil twin's 30 s throttle is forgotten with an evicted entry.

## 6. What is not modelled, and why

`PROJECT.json` lists every component with its status. Left out of the components modelled: the JSON tokenizer
and UTF-8, the protocol parsers (Remote ID, DJI, trackers), the fusion of confidences, deauthentication and beacon flood tables, channel
schedules: they compute on bytes and numbers and meet no one. The phone's GATT server
(`core/badge_ble_control.c`), status pages and peripherals are I/O; other firmware images, the Android application, the
backend, the dashboards and the host tools are other programs, and the models let a host do
anything at any time, or what the tools' lines say where a line's meaning is the question.

## 7. Plan

Done: the update path, from the token to the campaign, and the transfer, command and detection paths, each with its safety proved; the
refinement of `ExclusiveUse`. Left, in this order:

1. An abstract campaign (each scanner done once, or given up) that `AutoCoordinator` implements; `Done` and `KeepsDone` are its step.
2. The meaning of a line over unbounded lines, once the provers can do induction over data.
