---------------------------- MODULE ScannerRadios ----------------------------
(***************************************************************************)
(* A badge scanner's radios: who may start and stop them.  The boot task   *)
(* (main.c, app_main) brings up the radio of the slot, the command         *)
(* listener answers quiet, start, profile, calibration and firmware        *)
(* commands (calibration_mode.c), and the BLE host (ble_remote_id.c), the  *)
(* Wi-Fi scan task (wifi_scanner.c) and an investigation's end run beside  *)
(* them.  A task's pending calls are a sequence of steps; each step is     *)
(* atomic, a call that is not is several; a library call and the flag set  *)
(* from its result are one.  A wait that gives up after a time may end at  *)
(* any time.                                                               *)
(***************************************************************************)
EXTENDS Naturals, Sequences

CONSTANT Commands       \* commands of the uplink besides the power requests

VARIABLES slot,         \* which socket the scanner sits in
          mode,         \* calibration_mode.c and the flags of main.c
          lock,         \* s_transition_mutex
          todo,         \* per task, the steps it still has to take
          ble, host, wifi, scan, probe,
          link,         \* the uplink: what it wants, what it was told
          left          \* commands left
vars == <<slot, mode, lock, todo, ble, host, wifi, scan, probe, link, left>>

BootSteps == <<"await_role">>

Init ==
    /\ slot \in {"ble", "wifi"}
    /\ mode \in [role : BOOLEAN, quiet : {FALSE}, active : {FALSE}, runtime : {FALSE},
                 ready : {FALSE}, window : {TRUE}, late : {FALSE}, complete : {FALSE},
                 tx : {TRUE}, restore : {TRUE}, firmware : {FALSE}, ota : {FALSE}]
    /\ lock = "free"
    /\ todo = [main |-> BootSteps, cmd |-> <<>>]
    /\ ble = [init |-> FALSE, scanning |-> FALSE, active |-> FALSE,
              requested |-> FALSE, synced |-> FALSE, handle |-> FALSE, inflight |-> {},
              enabled |-> TRUE, gatt |-> FALSE, resume |-> FALSE]
    /\ host = [pc |-> "none", stop |-> FALSE, air |-> FALSE, reset |-> "no"]
    /\ wifi = [paused |-> FALSE, init |-> FALSE, promisc |-> FALSE, inflight |-> {}]
    /\ scan = "none"
    /\ probe = "none"
    /\ link \in [wants : {"awake", "quiet"}, acked : {FALSE}, silent : {FALSE}, ok : {FALSE}]
    /\ left = Commands

Then(task, steps) == todo' = [todo EXCEPT ![task] = steps \o Tail(@)]
Ready(task, step) == todo[task] # <<>> /\ Head(todo[task]) = step
Idle(task) == todo[task] = <<>>

-----------------------------------------------------------------------------
(* What is on the air, and what the code takes for it.                     *)

QuiescedButScan == wifi.paused /\ wifi.inflight = {} /\ (wifi.init => ~wifi.promisc)

\* wifi_scanner_is_quiesced, wifi_scanner_is_active.
WifiQuiesced ==
    /\ wifi.paused /\ scan \notin {"armed", "go", "scan"} /\ wifi.inflight = {}
    /\ wifi.init => ~wifi.promisc
WifiActive == wifi.init /\ ~wifi.paused /\ wifi.inflight = {} /\ wifi.promisc

\* ble_remote_id_is_quiesced, ble_remote_id_is_active.
BleQuiesced == ~ble.scanning /\ ~ble.active /\ ~ble.requested /\ ~ble.synced
               /\ ble.inflight = {} /\ ~ble.handle
BleActive == ble.scanning /\ ble.active /\ ble.synced /\ ble.inflight = {} /\ ble.handle

Silent == ~host.air /\ ~wifi.promisc /\ scan # "scan"

\* normal_profile_radios_ready_locked, scanner_quiet_mode_radios_ready.
NormalReady ==
    IF mode.active \/ slot = "ble" THEN WifiQuiesced /\ BleActive
    ELSE WifiActive /\ BleQuiesced
RadiosReady == IF mode.quiet THEN WifiQuiesced /\ BleQuiesced ELSE NormalReady

-----------------------------------------------------------------------------
(* The calls, each a sequence of steps.                                    *)
WifiPause == <<"wifi_pause", "wifi_wait">>
WifiResume == <<"resume_enter", "resume_unpause", "resume_promisc", "resume_leave">>
BleStart == <<"start_enter", "start_check", "start_leave">>
BleStop == <<"stop", "stop_wait">>
BleOff == IF ~ble.enabled /\ BleQuiesced THEN <<>> ELSE BleStop \o <<"ble_disabled">>
BleOn ==
    IF ble.enabled THEN IF ble.scanning THEN <<>> ELSE BleStart
    ELSE BleStart \o <<"ble_enabled">>

\* apply_quiet_radios and apply_normal_profile_radios_locked.
QuietRadios == WifiPause \o <<"ble_off">>
ApplyProfile ==
    CASE mode.quiet -> QuietRadios
      [] ~mode.quiet /\ mode.active -> <<>>
      [] ~mode.quiet /\ ~mode.active /\ slot = "ble" -> WifiPause \o <<"ble_on">>
      [] OTHER -> <<"ble_off">> \o WifiResume

Apply == <<"lock", "apply", "unlock">>
NoteReady == <<"note_ready">>

Lock(task) ==
    /\ Ready(task, "lock") /\ lock = "free"
    /\ lock' = task
    /\ Then(task, <<>>)
    /\ UNCHANGED <<slot, mode, ble, host, wifi, scan, probe, link, left>>

Unlock(task) ==
    /\ Ready(task, "unlock")
    /\ lock' = "free"
    /\ Then(task, <<>>)
    /\ UNCHANGED <<slot, mode, ble, host, wifi, scan, probe, link, left>>

\* The calls that only choose what comes next; scanner_scan_profile_apply
\* does nothing before the boot task is through.
Expand(task) ==
    /\ \/ Ready(task, "apply") /\ Then(task, IF mode.runtime THEN ApplyProfile ELSE <<>>)
       \/ Ready(task, "ble_off") /\ Then(task, BleOff)
       \/ Ready(task, "ble_on") /\ Then(task, BleOn)
       \/ /\ Ready(task, "start_radio")
          /\ Then(task, CASE slot = "ble" /\ ble.init /\ ~mode.quiet -> BleStart
                          [] slot = "wifi" /\ wifi.init /\ ~mode.quiet -> WifiResume
                          [] slot = "wifi" /\ wifi.init /\ mode.quiet -> WifiPause
                          [] OTHER -> <<>>)
    /\ UNCHANGED <<slot, mode, lock, ble, host, wifi, scan, probe, link, left>>

\* s_radios_ready.
Noted(task) ==
    /\ Ready(task, "note_ready") /\ lock = "free"
    /\ mode' = [mode EXCEPT !.ready = RadiosReady]
    /\ Then(task, <<>>)
    /\ UNCHANGED <<slot, lock, ble, host, wifi, scan, probe, link, left>>

-----------------------------------------------------------------------------
(* wifi_scanner.c.                                                         *)
WifiStep(task) ==
    /\ \/ Ready(task, "wifi_pause") /\ wifi' = [wifi EXCEPT !.paused = TRUE, !.promisc = FALSE]
       \/ Ready(task, "wifi_wait") /\ wifi' = [wifi EXCEPT !.promisc = FALSE]
       \/ Ready(task, "resume_enter") /\ wifi' = [wifi EXCEPT !.inflight = @ \cup {task}]
       \/ Ready(task, "resume_leave") /\ wifi' = [wifi EXCEPT !.inflight = @ \ {task}]
       \/ /\ Ready(task, "resume_unpause")
          /\ wifi' = [wifi EXCEPT !.paused = mode.quiet \/ ~wifi.init]
       \* A quiet request in between is seen here and rolled back.
       \/ /\ Ready(task, "resume_promisc")
          /\ LET back == mode.quiet \/ ~wifi.init
             IN wifi' = [wifi EXCEPT !.paused = @ \/ back, !.promisc = ~back]
    /\ Then(task, <<>>)
    /\ UNCHANGED <<slot, mode, lock, ble, host, scan, probe, link, left>>

\* wifi_scanner_init: the driver may fail, and a pause during it is seen.
WifiInit(task) ==
    /\ Ready(task, "wifi_init")
    /\ \/ wifi' = [wifi EXCEPT !.init = TRUE, !.promisc = ~wifi.paused]
       \/ wifi' = [wifi EXCEPT !.paused = TRUE, !.promisc = FALSE]
    /\ Then(task, <<>>)
    /\ UNCHANGED <<slot, mode, lock, ble, host, scan, probe, link, left>>

\* wifi_scanner_start.
WifiStart(task) ==
    /\ Ready(task, "wifi_start")
    /\ scan' = IF wifi.init THEN "idle" ELSE scan
    /\ Then(task, <<>>)
    /\ UNCHANGED <<slot, mode, lock, ble, host, wifi, probe, link, left>>

\* wifi_scan_task, do_full_scan, do_fast_rescan: the pause is looked at
\* before the work is marked, after it, and after the scan.
ScanStep ==
    /\ \/ scan = "idle" /\ ~wifi.paused /\ scan' = "found"
       \/ scan = "found" /\ scan' = "armed"
       \/ scan = "armed" /\ scan' = IF wifi.paused THEN "idle" ELSE "go"
       \/ scan = "go" /\ scan' = "scan"
       \/ scan = "scan" /\ scan' = "idle"
    /\ UNCHANGED <<slot, mode, lock, todo, ble, host, wifi, probe, link, left>>

-----------------------------------------------------------------------------
(* ble_remote_id.c.                                                        *)
HostRuns == host.pc \in {"run", "sync", "check"}
ScanAllowed(resumes) == (~ble.gatt /\ ~ble.resume) \/ resumes

\* ble_gap_ext_disc fails when the host does not run or has lost its controller.
Discovers == HostRuns /\ ble.synced
Discover ==
    /\ host' = [host EXCEPT !.air = Discovers]
    /\ ble' = [ble EXCEPT !.scanning = Discovers]

\* The end of ble_remote_id_start_scan_internal: quiet is looked at again.
Recheck(resumes) ==
    IF mode.quiet
    THEN /\ host' = [host EXCEPT !.air = FALSE]
         /\ ble' = [ble EXCEPT !.scanning = FALSE]
    ELSE /\ ble' = [ble EXCEPT !.resume = FALSE, !.gatt = @ /\ ~resumes]
         /\ UNCHANGED host

\* ble_remote_id_start_impl after its first guards.
StartCheck(task) ==
    /\ Ready(task, "start_check")
    /\ LET may == ~mode.quiet /\ (~ble.gatt \/ ble.resume) /\ ble.init
       IN /\ may => ~(ble.active /\ ~ble.synced /\ host.reset = "deaf")
          /\ IF ~may \/ (ble.requested /\ ~ble.active)
             THEN Then(task, <<>>)
             ELSE CASE ~ble.active -> Then(task, <<"create">>)
                    [] ble.active /\ ~ble.scanning /\ ble.synced /\ ScanAllowed(FALSE) ->
                          Then(task, <<"discover">>)
                    [] OTHER -> Then(task, <<>>)
    /\ UNCHANGED <<slot, mode, lock, ble, host, wifi, scan, probe, link, left>>

\* An active host that is unsynced five seconds after its start, here one
\* that was reset, is stopped and created again.
HostRestart(task) ==
    /\ Ready(task, "start_check") /\ ~mode.quiet /\ ble.init
    /\ ~ble.gatt \/ ble.resume
    /\ ble.active /\ ~ble.scanning /\ ~ble.synced /\ host.reset # "no"
    /\ Then(task, <<"stop_wait", "restart">>)
    /\ UNCHANGED <<slot, mode, lock, ble, host, wifi, scan, probe, link, left>>

Restarted(task) ==
    /\ Ready(task, "restart")
    /\ Then(task, IF ble.active \/ ble.handle THEN <<>> ELSE <<"create">>)
    /\ UNCHANGED <<slot, mode, lock, ble, host, wifi, scan, probe, link, left>>

BleStep(task) ==
    /\ \/ /\ Ready(task, "start_enter")
          /\ ble' = [ble EXCEPT !.inflight = @ \cup {task}] /\ UNCHANGED host
       \/ /\ Ready(task, "create") /\ host.pc = "none"
          /\ ble' = [ble EXCEPT !.requested = TRUE, !.synced = FALSE, !.scanning = FALSE,
                                !.handle = TRUE]
          /\ host' = [host EXCEPT !.pc = "created", !.reset = "no"]
       \/ Ready(task, "recheck") /\ Recheck(FALSE)
       \/ /\ Ready(task, "start_exit")
          /\ ble' = [ble EXCEPT !.inflight = @ \ {task}] /\ UNCHANGED host
       \/ /\ Ready(task, "ble_disabled")
          /\ ble' = [ble EXCEPT !.enabled = FALSE] /\ UNCHANGED host
       \/ /\ Ready(task, "ble_enabled")
          /\ ble' = [ble EXCEPT !.enabled = TRUE] /\ UNCHANGED host
       \/ /\ Ready(task, "ble_init")
          /\ \E works \in BOOLEAN : ble' = [ble EXCEPT !.init = works]
          /\ UNCHANGED host
    /\ Then(task, <<>>)
    /\ UNCHANGED <<slot, mode, lock, wifi, scan, probe, link, left>>

Discovered(task) ==
    /\ Ready(task, "discover")
    /\ Discover
    /\ Then(task, IF Discovers THEN <<"recheck">> ELSE <<>>)
    /\ UNCHANGED <<slot, mode, lock, wifi, scan, probe, link, left>>

\* The end of ble_remote_id_start: a start the quiet edge overtook is undone.
StartLeave(task) ==
    /\ Ready(task, "start_leave")
    /\ Then(task, (IF mode.quiet THEN BleStop ELSE <<>>) \o <<"start_exit">>)
    /\ UNCHANGED <<slot, mode, lock, ble, host, wifi, scan, probe, link, left>>

\* ble_remote_id_stop and ble_wait_host_stopped: a stop reaches a host only
\* once it runs, so the wait repeats it; a created host runs before it ends.
Stop(task) ==
    /\ Ready(task, "stop")
    /\ IF BleQuiesced
       THEN UNCHANGED <<ble, host>>
       ELSE /\ ble' = [ble EXCEPT !.requested = FALSE, !.gatt = FALSE, !.resume = FALSE,
                                  !.scanning = FALSE]
            /\ host' = [host EXCEPT !.air = FALSE, !.stop = @ \/ HostRuns]
    /\ Then(task, <<>>)
    /\ UNCHANGED <<slot, mode, lock, wifi, scan, probe, link, left>>

StopWait(task) ==
    /\ Ready(task, "stop_wait") /\ host.pc # "created"
    /\ host' = [host EXCEPT !.stop = @ \/ HostRuns]
    /\ Then(task, <<>>)
    /\ UNCHANGED <<slot, mode, lock, ble, wifi, scan, probe, link, left>>

\* ble_host_task with ble_on_sync and ble_on_reset.
HostStep ==
    /\ \/ /\ host.pc = "created"
          /\ host' = [host EXCEPT !.pc = "run"]
          /\ ble' = [ble EXCEPT !.requested = FALSE, !.active = TRUE]
       \/ /\ host.pc = "run" /\ ~ble.synced /\ ~host.stop /\ host.reset # "deaf"
          /\ host' = [host EXCEPT !.pc = "sync"]
          /\ ble' = [ble EXCEPT !.synced = TRUE]
       \/ /\ host.pc = "sync"
          /\ IF mode.quiet \/ ~ScanAllowed(FALSE)
             THEN /\ host' = [host EXCEPT !.pc = "run"]
                  /\ ble' = [ble EXCEPT !.scanning = @ /\ ~mode.quiet]
             ELSE /\ host' = [host EXCEPT !.pc = "check", !.air = TRUE]
                  /\ ble' = [ble EXCEPT !.scanning = TRUE]
       \/ /\ host.pc = "check"
          /\ host' = [host EXCEPT !.pc = "run", !.air = @ /\ ~mode.quiet]
          /\ ble' = IF mode.quiet THEN [ble EXCEPT !.scanning = FALSE]
                    ELSE [ble EXCEPT !.resume = FALSE]
       \/ /\ host.pc = "run" /\ host.stop
          /\ host' = [host EXCEPT !.pc = "ended", !.stop = FALSE, !.air = FALSE]
          /\ UNCHANGED ble
       \/ /\ host.pc = "ended"
          /\ host' = [host EXCEPT !.pc = "none"]
          /\ ble' = [ble EXCEPT !.active = FALSE, !.requested = FALSE, !.synced = FALSE,
                                !.scanning = FALSE, !.handle = FALSE]
    /\ UNCHANGED <<slot, mode, lock, todo, wifi, scan, probe, link, left>>

\* ble_on_reset: the controller is lost, and may not come back.
HostReset ==
    /\ host.pc = "run" /\ ble.synced /\ left > 0
    /\ left' = left - 1
    /\ \E reset \in {"yes", "deaf"} : host' = [host EXCEPT !.air = FALSE, !.reset = reset]
    /\ ble' = [ble EXCEPT !.synced = FALSE, !.scanning = FALSE]
    /\ UNCHANGED <<slot, mode, lock, todo, wifi, scan, probe, link>>

\* ble_remote_id_pause_for_investigation and
\* ble_remote_id_resume_after_investigation.
Investigate ==
    /\ probe = "none" /\ ~mode.ota /\ left > 0
    /\ ~ble.gatt /\ ~ble.resume /\ ble.active /\ ble.synced /\ ~mode.quiet /\ ~mode.active
    /\ left' = left - 1
    /\ ble' = [ble EXCEPT !.gatt = TRUE, !.scanning = FALSE]
    /\ host' = [host EXCEPT !.air = FALSE]
    /\ probe' = "busy"
    /\ UNCHANGED <<slot, mode, lock, todo, wifi, scan, link>>

ProbeEnds ==
    /\ \/ /\ probe = "busy"
          /\ IF mode.quiet \/ ble.scanning
             THEN /\ probe' = "none"
                  /\ ble' = [ble EXCEPT !.gatt = FALSE, !.resume = FALSE]
             ELSE /\ probe' = IF HostRuns /\ ble.synced THEN "disc" ELSE "pending"
                  /\ ble' = [ble EXCEPT !.resume = TRUE]
          /\ UNCHANGED host
       \/ /\ probe = "pending"              \* tried again while it is pending
          /\ probe' = "busy"
          /\ UNCHANGED <<ble, host>>
       \/ /\ probe = "disc" /\ ~mode.quiet
          /\ Discover /\ probe' = IF Discovers THEN "check" ELSE "pending"
       \/ /\ probe = "disc" /\ mode.quiet
          /\ ble' = [ble EXCEPT !.scanning = FALSE] /\ probe' = "none" /\ UNCHANGED host
       \/ probe = "check" /\ Recheck(TRUE) /\ probe' = "none"
    /\ UNCHANGED <<slot, mode, lock, todo, wifi, scan, link, left>>

-----------------------------------------------------------------------------
(* main.c: the boot task, and the late recovery of a scanner that was not  *)
(* told its slot in time.                                                  *)
Bring == (IF slot = "ble" THEN <<"ble_init">> ELSE <<"wifi_init">>)
         \o <<"start_radio">> \o (IF slot = "wifi" THEN <<"wifi_start">> ELSE <<>>)
         \o <<"runtime">> \o Apply \o NoteReady

\* badge_wait_for_radio_boot_order and scanner_slot_role_boot_window_close.
AwaitRole ==
    /\ Ready("main", "await_role") /\ lock = "free"
    /\ mode' = [mode EXCEPT !.window = FALSE, !.late = ~mode.role]
    /\ Then("main", (IF mode.role THEN Bring ELSE WifiPause) \o <<"complete">>)
    /\ UNCHANGED <<slot, lock, ble, host, wifi, scan, probe, link, left>>

Runtime(task) ==
    /\ \/ Ready(task, "runtime") /\ mode' = [mode EXCEPT !.runtime = TRUE]
       \/ Ready(task, "complete") /\ mode' = [mode EXCEPT !.complete = TRUE]
    /\ Then(task, <<>>)
    /\ UNCHANGED <<slot, lock, ble, host, wifi, scan, probe, link, left>>

\* scanner_initialize_late_badge_radio.
LateRadio ==
    /\ Ready("cmd", "late") /\ mode.complete
    /\ Then("cmd", IF ble.init \/ wifi.init THEN <<>> ELSE Bring)
    /\ UNCHANGED <<slot, mode, lock, ble, host, wifi, scan, probe, link, left>>

\* A role that comes after the boot window, for a boot that closed without.
LateRecovery == ~mode.window /\ mode.late

\* scanner_slot_role_command_apply: the role is stored once and never
\* changed; only the first that comes late brings the radio up.
SlotRole ==
    /\ Idle("cmd") /\ lock = "free" /\ left > 0
    /\ left' = left - 1
    /\ LET late == LateRecovery
       IN /\ mode' = [mode EXCEPT !.role = TRUE, !.late = @ /\ ~late,
                                  !.runtime = @ /\ ~late]
          /\ todo' = [todo EXCEPT !["cmd"] = IF late THEN <<"late">> ELSE Apply]
    /\ UNCHANGED <<slot, lock, ble, host, wifi, scan, probe, link>>

-----------------------------------------------------------------------------
(* The listener's commands.                                                *)
Wants(power) ==
    /\ link.wants # power /\ left > 0
    /\ left' = left - 1
    /\ link' = [link EXCEPT !.wants = power, !.acked = FALSE]
    /\ UNCHANGED <<slot, mode, lock, todo, ble, host, wifi, scan, probe>>

\* handle_scanner_quiet_command, sent until it is acknowledged; an update
\* under way refuses to wake.
PowerRequest ==
    /\ Idle("cmd") /\ ~link.acked
    /\ link.wants = "awake" => ~mode.firmware /\ ~mode.ota
    /\ todo' = [todo EXCEPT !["cmd"] =
                  <<"lock", IF link.wants = "quiet" THEN "quiet" ELSE "wake">>]
    /\ UNCHANGED <<slot, mode, lock, ble, host, wifi, scan, probe, link, left>>

\* scanner_quiet_mode_set(true): the guard is published before anything is
\* switched off; a calibration ends.
Quiet ==
    /\ Ready("cmd", "quiet")
    /\ mode' = [mode EXCEPT !.quiet = TRUE, !.active = @ /\ mode.quiet,
                            !.restore = IF mode.quiet THEN @ ELSE mode.tx, !.tx = FALSE]
    /\ Then("cmd", QuietRadios \o <<"result", "unlock", "calm", "ack">>)
    /\ UNCHANGED <<slot, lock, ble, host, wifi, scan, probe, link, left>>

Wake ==
    /\ Ready("cmd", "wake")
    /\ mode' = [mode EXCEPT !.quiet = FALSE]
    /\ link' = [link EXCEPT !.silent = FALSE]
    /\ Then("cmd", (IF mode.runtime THEN <<"apply">> ELSE <<>>)
                   \o <<"restore", "result", "unlock", "ack">>)
    /\ UNCHANGED <<slot, lock, ble, host, wifi, scan, probe, left>>

RestoreTx ==
    /\ Ready("cmd", "restore")
    /\ mode' = [mode EXCEPT !.tx = mode.restore]
    /\ Then("cmd", <<>>)
    /\ UNCHANGED <<slot, lock, ble, host, wifi, scan, probe, link, left>>

Result ==
    /\ Ready("cmd", "result")
    /\ link' = [link EXCEPT !.ok = RadiosReady /\ (mode.quiet => ~mode.tx)]
    /\ Then("cmd", <<>>)
    /\ UNCHANGED <<slot, mode, lock, ble, host, wifi, scan, probe, left>>

\* ble_investigator_runtime_quiesce: its end no longer restarts the scan.
Calm ==
    /\ Ready("cmd", "calm")
    /\ probe' = IF probe \in {"busy", "pending"} THEN "none" ELSE probe
    /\ Then("cmd", <<>>)
    /\ UNCHANGED <<slot, mode, lock, ble, host, wifi, scan, link, left>>

\* The acknowledgement looks at every fact again.
Ack ==
    /\ Ready("cmd", "ack") /\ lock = "free"
    /\ LET ok == link.ok /\ mode.ready /\ RadiosReady
                 /\ mode.quiet = (link.wants = "quiet")
       IN link' = [link EXCEPT !.acked = ok, !.silent = ok /\ mode.quiet]
    /\ Then("cmd", <<>>)
    /\ UNCHANGED <<slot, mode, lock, ble, host, wifi, scan, probe, left>>

\* READY, which the uplink repeats, and START are ignored in quiet mode; they
\* put an update off.  The listener starts by itself after half a minute
\* without them.  One that would change nothing is left out.
StartTx ==
    /\ Idle("cmd") /\ ~mode.quiet
    /\ ~mode.tx \/ ~mode.ready \/ mode.firmware \/ ~RadiosReady
    /\ mode' = [mode EXCEPT !.tx = TRUE, !.firmware = FALSE]
    /\ todo' = [todo EXCEPT !["cmd"] = Apply \o NoteReady]
    /\ UNCHANGED <<slot, lock, ble, host, wifi, scan, probe, link, left>>

\* STOP, and a firmware offer that is taken up.
StopTx(firmware) ==
    /\ Idle("cmd") /\ left > 0
    /\ left' = left - 1
    /\ mode' = [mode EXCEPT !.tx = FALSE, !.firmware = @ \/ firmware]
    /\ UNCHANGED <<slot, lock, todo, ble, host, wifi, scan, probe, link>>

\* uart_ota_begin, refused during an investigation: both radios are halted past
\* the profile's lock, the BLE profile still counts as enabled.  A begin over
\* another gives that one up first.  An image that works restarts the scanner.
OtaBegin ==
    /\ Idle("cmd") /\ probe = "none"
    /\ IF mode.firmware /\ ~mode.ota THEN left' = left ELSE left > 0 /\ left' = left - 1
    /\ mode' = [mode EXCEPT !.firmware = TRUE, !.ota = TRUE]
    /\ todo' = [todo EXCEPT !["cmd"] =
                  (IF mode.ota THEN Apply ELSE <<>>) \o WifiPause \o BleStop]
    /\ UNCHANGED <<slot, lock, ble, host, wifi, scan, probe, link>>

\* The update is given up; cleanup_and_idle resumes what a begin halted.
FirmwareEnds ==
    /\ Idle("cmd")
    /\ mode.firmware \/ mode.ota
    /\ mode' = [mode EXCEPT !.firmware = FALSE, !.ota = FALSE]
    /\ todo' = [todo EXCEPT !["cmd"] = IF mode.ota THEN Apply ELSE <<>>]
    /\ UNCHANGED <<slot, lock, ble, host, wifi, scan, probe, link, left>>

\* scanner_calibration_mode_start, scanner_calibration_mode_stop.
Calibrate ==
    /\ Idle("cmd") /\ lock = "free" /\ left > 0
    /\ ~mode.quiet /\ probe = "none"
    /\ left' = left - 1
    /\ lock' = "cmd"
    /\ mode' = [mode EXCEPT !.active = TRUE]
    /\ todo' = [todo EXCEPT !["cmd"] = WifiPause \o <<"ble_on", "unlock">>]
    /\ UNCHANGED <<slot, ble, host, wifi, scan, probe, link>>

CalibrationEnds ==
    /\ Idle("cmd") /\ lock = "free" /\ mode.active
    /\ lock' = "cmd"
    /\ mode' = [mode EXCEPT !.active = FALSE]
    /\ todo' = [todo EXCEPT !["cmd"] = <<"apply_now", "unlock">>]
    /\ UNCHANGED <<slot, ble, host, wifi, scan, probe, link, left>>

\* The profile is applied whether the boot task is through or not.
ApplyNow ==
    /\ Ready("cmd", "apply_now")
    /\ Then("cmd", ApplyProfile)
    /\ UNCHANGED <<slot, mode, lock, ble, host, wifi, scan, probe, link, left>>

-----------------------------------------------------------------------------
TaskStep(task) ==
    \/ Lock(task) \/ Unlock(task) \/ Expand(task) \/ Noted(task)
    \/ WifiStep(task) \/ WifiInit(task) \/ WifiStart(task)
    \/ StartCheck(task) \/ HostRestart(task) \/ Restarted(task)
    \/ BleStep(task) \/ Discovered(task) \/ StartLeave(task) \/ Stop(task) \/ StopWait(task)
    \/ Runtime(task)
Main == AwaitRole \/ TaskStep("main")
Cmd == TaskStep("cmd") \/ LateRadio \/ Quiet \/ Wake \/ RestoreTx \/ Result
       \/ Calm \/ Ack \/ ApplyNow

Next ==
    \/ Main \/ Cmd \/ ScanStep \/ HostStep \/ HostReset
    \/ Investigate \/ ProbeEnds
    \/ SlotRole \/ (\E power \in {"quiet", "awake"} : Wants(power)) \/ PowerRequest
    \/ StartTx \/ (\E firmware \in BOOLEAN : StopTx(firmware)) \/ OtaBegin \/ FirmwareEnds
    \/ Calibrate \/ CalibrationEnds

Spec == Init /\ [][Next]_vars
FairSpec ==
    /\ Spec
    /\ WF_vars(Main) /\ WF_vars(Cmd) /\ WF_vars(ScanStep) /\ WF_vars(HostStep)
    /\ WF_vars(ProbeEnds) /\ SF_vars(PowerRequest) /\ SF_vars(StartTx)
    /\ WF_vars(FirmwareEnds)

-----------------------------------------------------------------------------
\* From the acknowledgement of a quiet request until the next wake command
\* nothing is on the air and nothing is sent, whichever task was starting a
\* radio when the request came.
QuietIsSilent == link.silent => Silent /\ ~mode.tx

\* A scanner that is to be awake and has its role ends up on the air, if the
\* driver came up.
BackOnAir == link.wants = "awake" /\ mode.complete /\ ~mode.active
                /\ (ble.init \/ wifi.init) => NormalReady /\ ~Silent
WakeReturns == <>[]BackOnAir
-----------------------------------------------------------------------------
(* Why an acknowledged quiet is silent: a task that may still start a host  *)
(* is in flight and seen by the acknowledgement, and what it finds pending  *)
(* later looks at the quiet edge first.                                     *)
BothTasks == {"main", "cmd"}
Critical == {"create", "discover", "recheck", "restart"}
Harmless ==
    {"await_role", "lock", "unlock", "apply", "ble_off", "ble_on", "start_radio", "note_ready",
     "wifi_pause", "wifi_wait", "resume_enter", "resume_leave", "resume_unpause",
     "resume_promisc", "wifi_init", "wifi_start", "start_enter", "start_check", "start_leave",
     "start_exit", "stop", "stop_wait", "ble_disabled", "ble_enabled", "ble_init", "runtime",
     "complete", "late", "restore", "result", "calm", "ack", "apply_now"}
PowerSteps == {"quiet", "wake"}

TypeOK ==
    /\ mode \in [role : BOOLEAN, quiet : BOOLEAN, active : BOOLEAN, runtime : BOOLEAN,
                 ready : BOOLEAN, window : BOOLEAN, late : BOOLEAN, complete : BOOLEAN,
                 tx : BOOLEAN, restore : BOOLEAN, firmware : BOOLEAN, ota : BOOLEAN]
    /\ todo \in [BothTasks -> Seq(Harmless \cup Critical \cup PowerSteps)]
    /\ ble \in [init : BOOLEAN, scanning : BOOLEAN, active : BOOLEAN, requested : BOOLEAN,
                synced : BOOLEAN, handle : BOOLEAN, inflight : SUBSET BothTasks,
                enabled : BOOLEAN, gatt : BOOLEAN, resume : BOOLEAN]
    /\ host \in [pc : {"none", "created", "run", "sync", "check", "ended"}, stop : BOOLEAN,
                 air : BOOLEAN, reset : {"no", "yes", "deaf"}]
    /\ wifi \in [paused : BOOLEAN, init : BOOLEAN, promisc : BOOLEAN, inflight : SUBSET BothTasks]
    /\ scan \in {"none", "idle", "found", "armed", "go", "scan"}
    /\ link \in [wants : {"awake", "quiet"}, acked : BOOLEAN, silent : BOOLEAN, ok : BOOLEAN]

\* A start's check follows its mark; what it leads to stands first.
Clean(q) ==
    \A i \in DOMAIN q : /\ q[i] \notin Critical
                        /\ q[i] = "start_check" => i > 1 /\ q[i - 1] = "start_enter"
Starting(q) ==
    q # <<>> /\ Head(q) \in Critical \cup {"start_check"} /\ Clean(Tail(q))
Restarting(q) == q # <<>> /\ Head(q) = "stop_wait" /\ Starting(Tail(q))
MarkedOf(task) ==
    \/ Clean(todo[task])
    \/ task \in ble.inflight /\ (Starting(todo[task]) \/ Restarting(todo[task]))

\* A power command is pending alone, and its end only while it is to wake.
CommandPending ==
    \/ todo["cmd"] \in {<<"lock", "quiet">>, <<"quiet">>, <<"lock", "wake">>, <<"wake">>}
    \/ todo["cmd"] \in Seq(Harmless \cup Critical)
       /\ (mode.quiet => todo["cmd"] \in Seq((Harmless \cup Critical) \ {"restore"}))

SilentInv ==
    /\ MarkedOf("main") /\ MarkedOf("cmd") /\ CommandPending
    /\ wifi.promisc => wifi.init
    /\ host.air => HostRuns
    /\ host.pc # "none" => ble.handle
    /\ mode.quiet => ~mode.tx
    /\ link.silent =>
        /\ mode.quiet /\ wifi.paused /\ ~wifi.promisc /\ scan \notin {"go", "scan"}
        /\ host.pc = "none"
        /\ \A task \in BothTasks : todo[task] \in Seq(Harmless \cup PowerSteps)
=============================================================================
