------------------------- MODULE UpdateMaintenance -------------------------
(***************************************************************************)
(* The update-maintenance session of the badge uplink and the reboots it   *)
(* goes through.  A host asks for maintenance, the badge parks its radio   *)
(* and its coordinator, reboots into a boot that does nothing but updates, *)
(* takes a new image over USB, reboots into it and is sent home.  What     *)
(* carries a session across a reboot is retained in RTC memory: a marker   *)
(* (esp32/shared/badge_update_maintenance_policy.c) and the token that     *)
(* tells a planned reboot from any other (arm, publish, release in         *)
(* esp32/uplink/main/core/badge_runtime.c, one lease over it in            *)
(* esp32/shared/badge_runtime_policy.c).                                   *)
(*                                                                         *)
(* Three tasks restart the badge: the USB task (host commands, the poll of *)
(* a session being prepared, the image upload), the main task (supervisor  *)
(* or watchdog) and the button task.  Any of them may be interrupted by a  *)
(* crash or by the loss of power, at any step.  A timer is a flag that     *)
(* time may raise; the firmware-operation token, modelled in               *)
(* FirmwareOperation and RadioQuiescence, is here what the restarts see of *)
(* it.  The retained layout is the current one: what older firmwares left  *)
(* in the memory is not modelled.                                          *)
(***************************************************************************)
EXTENDS Naturals

CONSTANTS
    Sessions,   \* session identifiers hosts choose
    NoSession,
    MaxBoots,   \* BADGE_UPDATE_MAINTENANCE_MAX_BOOTS
    GenLast,    \* UINT32_MAX: the generation after which the count wraps
    Legacy,     \* BADGE_RUNTIME_EXPECTED_REBOOT_MAGIC used as a generation
    Explored    \* what the environment may do, beside what a host asks for

ASSUME SessionsAssumption == NoSession \notin Sessions
ASSUME BootsAssumption == MaxBoots \in Nat \ {0}
ASSUME GenAssumption == GenLast \in Nat /\ Legacy \in 2..GenLast - 1
\* hook: the game's hook fails.  contended: the coordinator does not suspend
\* at once.  fault: something the boot or a restart needs fails.
ASSUME ExploredAssumption ==
    Explored \subseteq {"crash", "power", "hook", "contended", "fault", "leave"}

VARIABLES
    rtc,   \* g_fof_badge_rtc_state, retained over every reset but power loss
    flash, \* the partition table: what runs, what boots, what is unproven
    boot,  \* this boot: its reset, its stage, what it read from rtc
    run,   \* badge_runtime's volatile state
    arm,   \* s_expected_reboot_arm_state
    task,  \* each task: where it is in a restart, and for what reason
    usb,   \* serial_config's and the USB transport's static state
    fw     \* the firmware-operation token, as the restarts see it
vars == <<rtc, flash, boot, run, arm, task, usb, fw>>

Tasks == {"usb", "main", "button"}
Slots == {"ota_0", "ota_1"}
Other(slot) == CHOOSE s \in Slots : s # slot

-----------------------------------------------------------------------------
(* The retained memory.                                                    *)

\* committed: the slot whose image the session says it has installed.
NoMarker == [phase |-> "none", session |-> NoSession, generation |-> 0,
             boots |-> 0, committed |-> "none"]
Marker ==
    {NoMarker} \cup
    [phase : {"preparing", "armed", "active"}, session : Sessions,
     generation : 0..GenLast, boots : 0..MaxBoots, committed : Slots \cup {"none"}]

Valid(m) == m # NoMarker

\* expected_reboot_magic, expected_reboot_generation, usb_recovery_once_magic.
BlankRtc == [magic |-> FALSE, generation |-> 0, once |-> FALSE, marker |-> NoMarker]

NextGeneration(g) ==
    LET n == IF g = GenLast THEN 1 ELSE g + 1
    IN  IF n = Legacy THEN n + 1 ELSE n

\* What a software reset finds: a token of this firmware, one that v0.78 left,
\* or none.
ExpectedAfterAnyReset == rtc.magic \/ rtc.generation = Legacy
Expected == boot.reset = "sw" /\ (rtc.magic \/ rtc.generation = Legacy)
Consumed == IF ~Expected THEN 0 ELSE IF rtc.magic THEN rtc.generation ELSE 1
\* The token is spent: the magic goes, and a generation nobody may count on.
\* What stands beyond a token of v0.78 is not its own.
Spent ==
    [rtc EXCEPT !.magic = FALSE,
                !.generation = IF Expected /\ rtc.magic /\ @ # Legacy THEN @ ELSE 0,
                !.marker = IF Expected /\ ~rtc.magic THEN NoMarker ELSE @]
\* The transition is made once a boot, by whoever comes first.
BootRead ==
    IF boot.cached THEN boot
    ELSE [boot EXCEPT !.cached = TRUE, !.expected = Expected, !.consumed = Consumed]
RtcRead == IF boot.cached THEN rtc ELSE Spent
\* badge_runtime_reset_reason_was_expected_software, which only looks.
WasExpected == IF boot.cached THEN boot.expected ELSE Expected
\* How a reset counts against the image that suffered it.
Unhealthy == boot.reset = "crash" \/ (boot.reset = "sw" /\ ~WasExpected)

-----------------------------------------------------------------------------
(* Reasons of restarts.                                                    *)

Lifecycle ==
    {"update_finish", "update_abort", "update_inactivity",
     "update_terminal_failure", "update_health_rollback"}
Reasons ==
    Lifecycle \cup
    {"none", "update_maintenance", "usb_uplink_ota", "abort_preparing",
     "usb_safe_once", "usb_reboot", "usb_bootloader", "watchdog",
     "usb_rollback", "boot_health_rollback"}
\* Reboots the marker has to survive.
Binding == {"update_maintenance", "usb_uplink_ota"}
\* Restarts that a firmware operation holds off.
Prepared(t, reason) ==
    reason \in Lifecycle \cup {"watchdog"} \/ (t = "main" /\ reason = "usb_safe_once")
\* Restarts that throw the running image away when they can.
RollsBack(reason) ==
    \/ reason \in {"update_health_rollback", "usb_rollback", "boot_health_rollback"}
    \/ reason = "watchdog" /\ flash.pending
\* Restarts into the minimal USB surface, for one boot.
SafeOnce == {"usb_safe_once", "watchdog", "update_health_rollback", "boot_health_rollback"}

\* A rollback may land on v0.78, which knows only the Legacy word.
GenerationFor(reason) ==
    IF RollsBack(reason) THEN Legacy ELSE NextGeneration(RtcRead.generation)

-----------------------------------------------------------------------------
IdleTask == [pc |-> "idle", reason |-> "none"]
IdleArm == [phase |-> "idle", owner |-> "none", generation |-> 0]
FreeFw == [op |-> "free", preempted |-> FALSE]
\* responding: a command was handled, its restart request is looked at next;
\* abort, retry: s_update_abort_session and s_update_restart_reason; gone: the
\* host has left.
IdleUsb == [responding |-> FALSE, abort |-> NoSession, retry |-> FALSE,
            upload |-> "none", gone |-> FALSE]
\* active: s_update_maintenance_active; seen: s_update_prepare_seen; due: the
\* grace of a prepare has passed; idle: the inactivity limit has.
InitRun == [safe |-> FALSE, active |-> FALSE, seen |-> FALSE, hooked |-> FALSE,
            due |-> FALSE, idle |-> FALSE]
\* cause: the restart that led here; aborted, streak: history, the abort that
\* was accepted ("late" with a restart into maintenance already asked for) and
\* the maintenance boots in a row.
BootAt(reset, cause, aborted, streak) ==
    [reset |-> reset, stage |-> "start", cached |-> FALSE, expected |-> FALSE,
     consumed |-> 0, cause |-> cause, aborted |-> aborted, streak |-> streak]

TypeOK ==
    /\ rtc \in [magic : BOOLEAN, generation : 0..GenLast, once : BOOLEAN,
                marker : Marker]
    /\ flash \in [running : Slots, selected : Slots, pending : BOOLEAN]
    /\ boot \in [reset : {"sw", "crash", "clean"},
                 stage : {"start", "init", "startup", "ready", "supervising", "recovery"},
                 cached : BOOLEAN, expected : BOOLEAN, consumed : 0..GenLast,
                 cause : Reasons, aborted : {"no", "late", "yes"}, streak : 0..MaxBoots + 1]
    /\ run \in [safe : BOOLEAN, active : BOOLEAN, seen : BOOLEAN,
                hooked : BOOLEAN, due : BOOLEAN, idle : BOOLEAN]
    /\ arm \in [phase : {"idle", "preparing", "owned"},
                owner : Tasks \cup {"none"}, generation : 0..GenLast]
    /\ task \in [Tasks -> [pc : {"idle", "arming", "publish", "reserve", "clear",
                                 "rollback", "restart", "release", "released"},
                           reason : Reasons]]
    /\ usb \in [responding : BOOLEAN, abort : Sessions \cup {NoSession},
                retry : BOOLEAN, gone : BOOLEAN,
                upload : {"none", "receiving", "finishing", "committed", "recovery"}]
    /\ fw \in [op : {"free", "busy", "upload", "reserved"}, preempted : BOOLEAN]

Init ==
    /\ rtc = BlankRtc
    /\ flash = [running |-> "ota_0", selected |-> "ota_0", pending |-> FALSE]
    /\ boot = BootAt("clean", "none", "no", 0)
    /\ run = InitRun
    /\ arm = IdleArm
    /\ task = [t \in Tasks |-> IdleTask]
    /\ usb = IdleUsb
    /\ fw = FreeFw

-----------------------------------------------------------------------------
(* Resets.                                                                 *)

\* The bootloader gives up an image that a reset finds unproven, and starts a
\* newly selected one as unproven; away: the image has given itself up.
Reset(reset, cause, kept, away) ==
    LET next == IF away \/ flash.pending THEN Other(flash.running) ELSE flash.selected
    IN  /\ flash' = [running |-> next, selected |-> next,
                     pending |-> ~away /\ ~flash.pending /\ next # flash.running]
        /\ rtc' = kept
        /\ boot' = BootAt(reset, cause, boot.aborted, boot.streak)
        /\ run' = InitRun
        /\ arm' = IdleArm
        /\ task' = [t \in Tasks |-> IdleTask]
        /\ usb' = [IdleUsb EXCEPT !.gone = usb.gone]
        /\ fw' = FreeFw

Crash == "crash" \in Explored /\ Reset("crash", "none", rtc, FALSE)
PowerLoss == "power" \in Explored /\ Reset("clean", "none", BlankRtc, FALSE)

-----------------------------------------------------------------------------
(* A planned restart: reserve the arm, publish the token, keep firmware    *)
(* operations out where the reason asks for it, act, reset.  Each step is  *)
(* one critical section of the code.                                       *)

At(t, pc) == task[t].pc = pc
GoTo(t, pc) == task' = [task EXCEPT ![t].pc = pc]

\* The first half of badge_runtime_arm_expected_reboot: any earlier token is
\* invalidated before the hook is called, unlocked.
Arm(t, reason) ==
    /\ arm.phase = "idle"
    /\ boot' = BootRead
    /\ rtc' = [RtcRead EXCEPT !.magic = FALSE]
    /\ arm' = [phase |-> "preparing", owner |-> t, generation |-> GenerationFor(reason)]
    /\ task' = [task EXCEPT ![t] = [pc |-> "publish", reason |-> reason]]

\* Whether the marker can be bound to this reboot, when it has to be.
CanBind(reason) ==
    CASE reason = "update_maintenance" -> run.hooked /\ rtc.marker.phase = "preparing"
      [] reason = "usb_uplink_ota" ->
            run.hooked /\ run.active /\ rtc.marker.phase = "active"
      [] OTHER -> TRUE

\* The marker is bound and the generation written before the magic.
Published(reason) ==
    [rtc EXCEPT !.magic = TRUE, !.generation = arm.generation,
                !.marker = IF reason \in Binding
                           THEN [@ EXCEPT !.phase = "armed",
                                          !.generation = arm.generation]
                           ELSE @]

AfterPublish(t, reason) ==
    IF Prepared(t, reason) THEN "reserve"
    ELSE IF RollsBack(reason) THEN "rollback"
    ELSE IF reason = "abort_preparing" THEN "clear"
    ELSE "restart"

\* The second half.
Publish(t) ==
    LET reason == task[t].reason
    IN  /\ At(t, "publish")
        /\ CanBind(reason)
        /\ rtc' = Published(reason)
        /\ arm' = [arm EXCEPT !.phase = "owned"]
        /\ GoTo(t, AfterPublish(t, reason))
        /\ UNCHANGED <<flash, boot, run, usb, fw>>

\* The hook fails, or the marker is not there to be bound.  An automatic
\* restart that cannot be armed leaves the badge in safe mode.
PublishFails(t) ==
    /\ At(t, "publish")
    /\ ~CanBind(task[t].reason) \/ (run.hooked /\ "hook" \in Explored)
    /\ arm' = IdleArm
    /\ task' = [task EXCEPT ![t] = IdleTask]
    /\ run' = [run EXCEPT !.safe = @ \/ task[t].reason = "watchdog"]
    /\ UNCHANGED <<rtc, flash, boot, usb, fw>>

\* fw_store_try_reserve_recovery_restart, which nothing undoes.
ReserveFirmware(t) ==
    /\ At(t, "reserve")
    /\ fw.op = "free" /\ ~fw.preempted
    /\ fw' = [fw EXCEPT !.op = "reserved"]
    /\ GoTo(t, IF task[t].reason \in Lifecycle THEN "clear"
               ELSE IF RollsBack(task[t].reason) THEN "rollback" ELSE "restart")
    /\ UNCHANGED <<rtc, flash, boot, run, arm, usb>>

FirmwareAwaited(t) ==
    /\ At(t, "reserve")
    /\ fw.op # "free" \/ fw.preempted
    /\ UNCHANGED vars
\* Never wait for the firmware while holding the reboot.
FirmwareBusy(t) ==
    /\ At(t, "reserve")
    /\ fw.op # "free" \/ fw.preempted
    /\ GoTo(t, "release")
    /\ UNCHANGED <<rtc, flash, boot, run, arm, usb, fw>>

\* badge_runtime_clear_update_maintenance or _abort_update_session.
ClearMarker(t) ==
    /\ At(t, "clear")
    /\ rtc' = [rtc EXCEPT !.marker = NoMarker]
    /\ run' = [run EXCEPT !.active = FALSE, !.seen = FALSE, !.due = FALSE, !.idle = FALSE]
    /\ GoTo(t, IF RollsBack(task[t].reason) THEN "rollback" ELSE "restart")
    /\ UNCHANGED <<flash, boot, arm, usb, fw>>

\* esp_ota_mark_app_invalid_rollback_and_reboot returns only when it fails.
RollBack(t) == At(t, "rollback") /\ Reset("sw", task[t].reason, rtc, TRUE)
RollBackReturns(t) ==
    /\ At(t, "rollback") /\ "fault" \in Explored
    /\ GoTo(t, IF task[t].reason = "usb_rollback" THEN "release" ELSE "restart")
    /\ UNCHANGED <<rtc, flash, boot, run, arm, usb, fw>>

\* esp_restart, into the application or into the ROM loader, which starts the
\* application afresh.
Restart(t) ==
    /\ At(t, "restart")
    /\ Reset(IF task[t].reason = "usb_bootloader" THEN "clean" ELSE "sw", task[t].reason,
             [rtc EXCEPT !.once = @ \/ task[t].reason \in SafeOnce], FALSE)

ReleaseNoToken(t) ==
    /\ At(t, "release")
    /\ GoTo(t, "released")
    /\ UNCHANGED <<rtc, flash, boot, run, arm, usb, fw>>
\* badge_runtime_release_expected_reboot: the token first, the ownership after
\* the durable reason has been erased.
ReleaseToken(t) ==
    /\ At(t, "release")
    /\ rtc' = [rtc EXCEPT !.magic = FALSE, !.generation = IF @ = Legacy THEN 0 ELSE @]
    /\ GoTo(t, "released")
    /\ UNCHANGED <<flash, boot, run, arm, usb, fw>>
ReleaseArm(t) ==
    /\ At(t, "released")
    /\ arm' = IdleArm
    /\ task' = [task EXCEPT ![t] = IF @.reason = "watchdog" THEN [@ EXCEPT !.pc = "arming"]
                                   ELSE IdleTask]
    /\ UNCHANGED <<rtc, flash, boot, run, usb, fw>>

-----------------------------------------------------------------------------
(* The main task: boot, then the supervisor of a maintenance boot or the   *)
(* watchdog of a normal one.                                               *)

Idle(t) == At(t, "idle")
MainAt(stage) == boot.stage = stage /\ Idle("main")

\* rollback_check_at_boot.
BootChecked ==
    /\ MainAt("start")
    /\ ~(flash.pending /\ Unhealthy)
    /\ boot' = [boot EXCEPT !.stage = "init"]
    /\ UNCHANGED <<rtc, flash, run, arm, task, usb, fw>>
BootRollback ==
    /\ MainAt("start")
    /\ flash.pending /\ Unhealthy
    /\ Arm("main", "boot_health_rollback")
    /\ UNCHANGED <<flash, run, usb, fw>>

\* badge_update_maintenance_boot_decide: is a marker there to be honoured?
Enters(read, safe) ==
    /\ RtcRead.marker.phase = "armed"
    /\ read.expected
    /\ ~safe
    /\ RtcRead.marker.generation = read.consumed
    /\ RtcRead.marker.boots < MaxBoots

ActivatedUncounted(m) == [m EXCEPT !.phase = "active"]
\* badge_update_maintenance_marker_activate.
Activated(m) == [m EXCEPT !.phase = "active", !.boots = @ + 1]

\* badge_runtime_init, and badge_con_runtime_init, which registers the hook.
\* crashed: the crash count has reached its threshold.
RuntimeInit ==
    /\ MainAt("init")
    /\ \E crashed \in BOOLEAN :
        LET read == BootRead
            once == rtc.once /\ read.expected
            enters == Enters(read, once \/ crashed)
        IN  /\ crashed => Unhealthy /\ ~flash.pending
            /\ rtc' = [RtcRead EXCEPT
                         !.once = FALSE,
                         !.marker = IF enters THEN Activated(@) ELSE NoMarker]
            /\ run' = [InitRun EXCEPT !.safe = once \/ crashed, !.active = enters,
                                      !.hooked = TRUE]
            /\ boot' = [read EXCEPT !.stage = IF once THEN "recovery" ELSE "startup",
                                    !.aborted = "no",
                                    !.streak = IF ~enters THEN 0
                                               ELSE IF @ > MaxBoots THEN @ ELSE @ + 1]
    /\ UNCHANGED <<flash, arm, task, usb, fw>>

\* Dispatch opens; a part that does not start leaves only USB recovery.
Startup ==
    /\ MainAt("startup")
    /\ boot' = [boot EXCEPT !.stage = "ready"]
    /\ UNCHANGED <<rtc, flash, run, arm, task, usb, fw>>
StartupFails ==
    /\ MainAt("startup") /\ "fault" \in Explored
    /\ boot' = [boot EXCEPT !.stage = "recovery"]
    /\ run' = [run EXCEPT !.safe = TRUE]
    /\ UNCHANGED <<rtc, flash, arm, task, usb, fw>>

\* A maintenance boot gives way to its supervisor, as long as it is not safe.
Supervise ==
    /\ MainAt("ready")
    /\ run.active
    /\ boot' = [boot EXCEPT !.stage = "supervising"]
    /\ UNCHANGED <<rtc, flash, run, arm, task, usb, fw>>

\* badge_automatic_restart_when_firmware_idle: a worker that does not start,
\* the heap of a normal boot.  It waits for both owners.
AutomaticRestart ==
    /\ MainAt("ready") /\ "fault" \in Explored
    /\ ~run.safe
    /\ task' = [task EXCEPT !["main"] = [pc |-> "arming", reason |-> "watchdog"]]
    /\ UNCHANGED <<rtc, flash, boot, run, arm, usb, fw>>
ArmAutomaticRestart ==
    /\ At("main", "arming")
    /\ Arm("main", "watchdog")
    /\ UNCHANGED <<flash, run, usb, fw>>

\* The USB health policy of a normal boot.
UsbHealthRestart ==
    /\ MainAt("ready")
    /\ ~run.safe /\ ~run.active
    /\ Arm("main", "usb_safe_once")
    /\ UNCHANGED <<flash, run, usb, fw>>

\* rollback_mark_valid, by either loop.
MarkValid ==
    /\ Idle("main") /\ flash.pending /\ ~run.safe
    /\ boot.stage = "supervising" \/ (boot.stage = "ready" /\ ~run.active)
    /\ flash' = [flash EXCEPT !.pending = FALSE]
    /\ UNCHANGED <<rtc, boot, run, arm, task, usb, fw>>

\* The supervisor's three ways out.
HealthRollback ==
    /\ MainAt("supervising")
    /\ flash.pending
    /\ Arm("main", "update_health_rollback")
    /\ UNCHANGED <<flash, run, usb, fw>>
TerminalFailure ==
    /\ MainAt("supervising")
    /\ ~flash.pending
    /\ fw.op = "free"
    /\ Arm("main", "update_terminal_failure")
    /\ UNCHANGED <<flash, run, usb, fw>>
Inactivity ==
    /\ MainAt("supervising")
    /\ run.active /\ Valid(rtc.marker) /\ run.idle
    /\ fw.op = "free"
    /\ Arm("main", "update_inactivity")
    /\ UNCHANGED <<flash, run, usb, fw>>

-----------------------------------------------------------------------------
(* The USB task: commands, the poll of a session being prepared, uploads.  *)

Dispatching == boot.stage \in {"ready", "supervising"}
\* The task is at the top of its loop, or at the end of a command.
Looping == Idle("usb") /\ ~usb.responding
\* A command can arrive: the stream is not in binary mode.
Listening == Looping /\ Dispatching /\ usb.upload = "none" /\ ~usb.gone

Preparing == rtc.marker.phase = "preparing"
\* badge_runtime_update_maintenance_active.
Active == run.active /\ rtc.marker.phase = "active"

\* fw_store_request_update_preemption closes the token at once; the reboot is
\* safe when nobody holds it and the coordinator has suspended.
Preempted == [fw EXCEPT !.preempted = TRUE]
Suspending == IF "contended" \in Explored THEN BOOLEAN ELSE {TRUE}
RebootSafe(suspended) == suspended /\ fw.op = "free"

\* prepare_update, for a session nobody else's marker stands against.
Prepare(s) ==
    /\ Listening
    /\ rtc.marker.session \in {s, NoSession}
    /\ usb.abort = NoSession
    /\ ~Active /\ ~run.safe
    /\ \E suspended \in Suspending :
        usb' = [usb EXCEPT !.responding = TRUE, !.retry = @ \/ RebootSafe(suspended)]
    /\ rtc' = [rtc EXCEPT !.marker = IF Valid(@) THEN @
                                     ELSE [NoMarker EXCEPT !.phase = "preparing",
                                                           !.session = s]]
    /\ run' = [run EXCEPT !.seen = TRUE, !.due = FALSE]
    /\ fw' = Preempted
    /\ UNCHANGED <<flash, boot, arm, task>>

\* A command that an active session answers keeps it alive; so do the bytes of
\* an upload and the progress of an operation.
KeepAlive ==
    /\ Active /\ run.idle
    /\ \/ Listening
       \/ Looping /\ usb.upload = "receiving" /\ ~usb.gone
       \/ fw.op = "busy"
    /\ run' = [run EXCEPT !.idle = FALSE]
    /\ UNCHANGED <<rtc, flash, boot, arm, task, usb, fw>>

\* abort_update of a session being prepared is only noted.
AbortPreparing(s) ==
    /\ Listening /\ Preparing
    /\ rtc.marker.session = s
    /\ usb' = [usb EXCEPT !.responding = TRUE, !.abort = s]
    /\ boot' = [boot EXCEPT !.aborted = IF usb.retry \/ @ = "late" THEN "late" ELSE "yes"]
    /\ UNCHANGED <<rtc, flash, run, arm, task, fw>>

\* finish_update and abort_update of an active session: own the restart first.
FinishUpdate ==
    /\ Listening /\ Active /\ ~flash.pending /\ fw.op = "free"
    /\ Arm("usb", "update_finish")
    /\ run' = [run EXCEPT !.idle = FALSE]
    /\ UNCHANGED <<flash, usb, fw>>
AbortActive ==
    /\ Listening /\ Active
    /\ Arm("usb", "update_abort")
    /\ run' = [run EXCEPT !.idle = FALSE]
    /\ UNCHANGED <<flash, usb, fw>>

\* Any other command has its response, and looks at the request as well.
OtherCommand ==
    /\ Listening /\ usb.retry
    /\ usb' = [usb EXCEPT !.responding = TRUE]
    /\ UNCHANGED <<rtc, flash, boot, run, arm, task, fw>>

\* The end of a command: a restart that was asked for and not had is tried
\* (again).
Respond ==
    /\ Idle("usb") /\ usb.responding
    /\ usb' = [usb EXCEPT !.responding = FALSE]
    /\ \/ /\ usb.retry
          /\ Arm("usb", "update_maintenance")
       \/ /\ ~usb.retry \/ arm.phase # "idle"
          /\ UNCHANGED <<rtc, boot, arm, task>>
    /\ UNCHANGED <<flash, run, fw>>

\* rollback, reboot and bootloader, which wait for nothing.
UsbRollback ==
    /\ Listening /\ flash.pending
    /\ Arm("usb", "usb_rollback")
    /\ UNCHANGED <<flash, run, usb, fw>>
UsbReboot ==
    /\ Idle("usb") /\ ~usb.responding /\ usb.upload = "none" /\ ~usb.gone
    /\ boot.stage \in {"ready", "supervising", "recovery"}
    /\ \E reason \in {"usb_reboot", "usb_bootloader"} : Arm("usb", reason)
    /\ UNCHANGED <<flash, run, usb, fw>>

\* serial_config_poll_update_preparation, at the head of every loop.  The code
\* also drops a noted abort once nothing is being prepared; here preparing ends
\* only by this poll or by a restart, which clears the note as well.
PollUnsafe ==
    /\ Looping /\ Preparing /\ run.seen /\ run.due
    /\ \E suspended \in Suspending : ~RebootSafe(suspended)
    /\ fw' = Preempted
    /\ UNCHANGED <<rtc, flash, boot, run, arm, task, usb>>
PollRestartsForward ==
    /\ Looping /\ Preparing /\ run.seen /\ run.due
    /\ \E suspended \in Suspending : RebootSafe(suspended)
    /\ fw' = Preempted
    /\ Arm("usb", "update_maintenance")
    /\ UNCHANGED <<flash, run, usb>>
PollRestartsForHost ==
    /\ Looping /\ Preparing /\ run.seen /\ run.due /\ ~usb.gone
    /\ \E suspended \in Suspending : RebootSafe(suspended)
    /\ fw' = Preempted
    /\ Arm("usb", IF usb.abort = NoSession THEN "update_maintenance" ELSE "abort_preparing")
    /\ UNCHANGED <<flash, run, usb>>
PollRestarts ==
    /\ Looping /\ Preparing /\ run.seen /\ run.due
    /\ \E suspended \in Suspending : RebootSafe(suspended)
    /\ fw' = Preempted
    /\ Arm("usb", IF usb.abort = NoSession THEN "update_maintenance" ELSE "abort_preparing")
    /\ UNCHANGED <<flash, run, usb>>

-----------------------------------------------------------------------------
(* The upload of an image.                                                 *)

UploadBegins ==
    /\ Listening /\ ~flash.pending
    /\ fw = FreeFw
    /\ fw' = [fw EXCEPT !.op = "upload"]
    /\ usb' = [usb EXCEPT !.upload = "receiving"]
    /\ run' = [run EXCEPT !.idle = FALSE]
    /\ UNCHANGED <<rtc, flash, boot, arm, task>>

\* The session's summary is written before the image is selected.
CommitSummary ==
    /\ Looping /\ usb.upload = "receiving"
    /\ run.active /\ Valid(rtc.marker)
    /\ rtc' = [rtc EXCEPT !.marker.committed = Other(flash.running)]
    /\ run' = [run EXCEPT !.idle = FALSE]
    /\ usb' = [usb EXCEPT !.upload = "finishing"]
    /\ UNCHANGED <<flash, boot, arm, task, fw>>

\* The host breaks off or falls silent, the image is not the one announced, or
\* no session is there to be summarised.
UploadAborts ==
    /\ Looping /\ usb.upload = "receiving"
    /\ fw' = [fw EXCEPT !.op = "free"]
    /\ \E next \in {"none", "recovery"} : usb' = [usb EXCEPT !.upload = next]
    /\ UNCHANGED <<rtc, flash, boot, run, arm, task>>

ImageSelected ==
    /\ Looping /\ usb.upload = "finishing"
    /\ flash' = [flash EXCEPT !.selected = Other(flash.running)]
    /\ usb' = [usb EXCEPT !.upload = "committed"]
    /\ UNCHANGED <<rtc, boot, run, arm, task, fw>>

ImageRefusedSummarised ==
    /\ Looping /\ usb.upload = "finishing"
    /\ fw' = [fw EXCEPT !.op = "free"]
    /\ \E next \in {"none", "recovery"} : usb' = [usb EXCEPT !.upload = next]
    /\ UNCHANGED <<rtc, flash, boot, run, arm, task>>
\* The summary is taken back; where it cannot be, USB recovers.
ImageRefused ==
    /\ Looping /\ usb.upload = "finishing"
    /\ rtc' = [rtc EXCEPT !.marker.committed = IF Active THEN "none" ELSE @]
    /\ fw' = [fw EXCEPT !.op = "free"]
    /\ \E next \in {"none", "recovery"} :
        /\ Active \/ next = "recovery"
        /\ usb' = [usb EXCEPT !.upload = next]
    /\ UNCHANGED <<flash, boot, run, arm, task>>

\* Retried for as long as somebody else holds the arm.
CommittedRestart ==
    /\ Looping /\ usb.upload = "committed"
    /\ Arm("usb", "usb_uplink_ota")
    /\ UNCHANGED <<flash, run, usb, fw>>

\* Tried once.
Recover ==
    /\ Looping /\ usb.upload = "recovery"
    /\ usb' = [usb EXCEPT !.upload = "none"]
    /\ \/ Arm("usb", "usb_safe_once")
       \/ arm.phase # "idle" /\ UNCHANGED <<rtc, boot, arm, task>>
    /\ UNCHANGED <<flash, run, fw>>

-----------------------------------------------------------------------------
(* The button, the firmware operations of other owners, time, the host.    *)

ButtonRestart ==
    /\ Idle("button") /\ boot.stage \notin {"start", "init"}
    /\ \E reason \in {"usb_reboot", "usb_bootloader"} : Arm("button", reason)
    /\ UNCHANGED <<flash, run, usb, fw>>

\* A campaign starts nothing more once its host has left and it has ended.
OperationBegins ==
    /\ Dispatching /\ fw = FreeFw /\ ~usb.gone
    /\ fw' = [fw EXCEPT !.op = "busy"]
    /\ UNCHANGED <<rtc, flash, boot, run, arm, task, usb>>
OperationEnds ==
    /\ fw.op = "busy"
    /\ fw' = [fw EXCEPT !.op = "free"]
    /\ UNCHANGED <<rtc, flash, boot, run, arm, task, usb>>

GracePasses ==
    /\ run.seen /\ Preparing /\ ~run.due
    /\ run' = [run EXCEPT !.due = TRUE]
    /\ UNCHANGED <<rtc, flash, boot, arm, task, usb, fw>>
ActivityStops ==
    /\ Active /\ ~run.idle
    /\ run' = [run EXCEPT !.idle = TRUE]
    /\ UNCHANGED <<rtc, flash, boot, arm, task, usb, fw>>
HostLeaves ==
    /\ "leave" \in Explored /\ ~usb.gone
    /\ usb' = [usb EXCEPT !.gone = TRUE]
    /\ UNCHANGED <<rtc, flash, boot, run, arm, task, fw>>

-----------------------------------------------------------------------------
RestartStep(t) ==
    \/ Publish(t) \/ PublishFails(t) \/ ReserveFirmware(t) \/ FirmwareBusy(t)
    \/ ClearMarker(t) \/ RollBack(t) \/ RollBackReturns(t) \/ Restart(t)
    \/ ReleaseToken(t) \/ ReleaseArm(t)
MainStep ==
    \/ BootChecked \/ BootRollback \/ RuntimeInit \/ Startup \/ StartupFails
    \/ Supervise \/ AutomaticRestart \/ ArmAutomaticRestart \/ UsbHealthRestart
    \/ MarkValid \/ HealthRollback \/ TerminalFailure \/ Inactivity
Command ==
    \/ \E s \in Sessions : Prepare(s) \/ AbortPreparing(s)
    \/ KeepAlive \/ FinishUpdate \/ AbortActive \/ OtherCommand
    \/ UsbRollback \/ UsbReboot \/ UploadBegins
Upload ==
    \/ CommitSummary \/ UploadAborts \/ ImageSelected \/ ImageRefused
    \/ CommittedRestart \/ Recover
Poll == PollUnsafe \/ PollRestarts
Environment ==
    \/ ButtonRestart \/ OperationBegins \/ OperationEnds \/ GracePasses
    \/ ActivityStops \/ HostLeaves \/ Crash \/ PowerLoss

Next ==
    \/ \E t \in Tasks : RestartStep(t)
    \/ MainStep \/ Command \/ Respond \/ Poll \/ Upload \/ Environment

Spec == Init /\ [][Next]_vars

\* What goes wrong by chance: it may strike at any step, but not for ever.
Mishap ==
    \/ Crash \/ PowerLoss
    \/ \E t \in Tasks : RollBackReturns(t) \/ (PublishFails(t) /\ CanBind(task[t].reason))

\* Fairness: the tasks run.  A task that meets the arm in another's hands tries
\* again in its next round, so what it tries needs strong fairness.  Time
\* passes; an operation has a bounded transaction; a host that has left lets
\* an upload run into the USB idle timeout.
Fairness ==
    /\ \A t \in Tasks : WF_vars(RestartStep(t))
    /\ WF_vars(BootChecked \/ BootRollback \/ RuntimeInit \/ Startup \/ Supervise)
    /\ SF_vars(ArmAutomaticRestart)
    /\ SF_vars(Inactivity)
    /\ WF_vars(Respond)
    /\ SF_vars(PollRestarts)
    /\ SF_vars(CommittedRestart)
    /\ WF_vars(Recover)
    /\ WF_vars(UploadAborts) /\ WF_vars(ImageSelected \/ ImageRefused)
    /\ WF_vars(OperationEnds) /\ WF_vars(GracePasses) /\ WF_vars(ActivityStops)
FairSpec == Spec /\ Fairness /\ <>[][~Mishap]_vars

-----------------------------------------------------------------------------
(* Properties.                                                             *)

\* A maintenance boot is only ever the reboot that its session armed: the one
\* into maintenance, or the one into the image it has just installed.  Not a
\* crash in the 120 ms before that reboot, and nobody else's restart.
AdmittedByItsArm ==
    [][~run.active /\ run'.active => boot.reset = "sw" /\ boot.cause \in Binding]_vars

\* The token that tells a planned reset from a crash is ready only in the hands
\* of a task that goes through with it: it is the owner's, with the owner's
\* generation, and it vouches for a bound marker, also one that an earlier boot
\* left, only if the owner bound it.
TokenHasItsOwner ==
    rtc.magic /\ boot.cached =>
        /\ arm.phase = "owned" /\ rtc.generation = arm.generation
        /\ task[arm.owner].pc # "released"
        /\ rtc.marker.phase = "armed" =>
              (rtc.marker.generation = rtc.generation <=> task[arm.owner].reason \in Binding)

\* A session cannot keep the badge in maintenance for more boots in a row than
\* its marker allows, whatever crashes and uploads it goes through.
BootsBounded == boot.streak <= MaxBoots

\* An image that an active session reports as installed is the one that runs.
CommittedRuns ==
    Active /\ rtc.marker.committed # "none"
        /\ usb.upload \notin {"finishing", "committed"}
        => rtc.marker.committed = flash.running

\* An abort that has been accepted is not followed by the maintenance boot it
\* was to prevent, unless the restart into it was already asked for.
AbortHolds == [][~run.active /\ run'.active => boot.aborted # "yes"]_vars

\* What the comment on the accepted abort says of every one of them: it is kept
\* and polled until the reboot that ends the session.  It is not: the response
\* of the abort command itself retries a restart into maintenance that an
\* earlier prepare asked for and could not have.
EveryAbortHolds == [][~run.active /\ run'.active => boot.aborted = "no"]_vars

\* A session that is being prepared gets its reboot, into maintenance or out of
\* it, also when the host that asked for it has left (with FairSpec).
PreparingResolves == Preparing /\ usb.gone ~> ~Preparing

\* A maintenance boot whose host has left ends by itself (with FairSpec); one
\* whose startup failed stays in USB recovery.
AbandonedMaintenanceEnds ==
    run.active /\ usb.gone ~> ~run.active \/ boot.stage = "recovery"
=============================================================================
