----------------------------- MODULE ScannerBoot -----------------------------
(***************************************************************************)
(* The scanner's way out of a broken image: scanner_rollback.c with the    *)
(* tasks of the scanner's main.c that confirm an image, watch the command  *)
(* listener and carry out the recovery commands.  Two images are flashed,  *)
(* the old one valid, the new one installed by an update; the boot loader  *)
(* (external) takes an image that was reset before it was confirmed for a  *)
(* bad one.  NVS survives everything, the RTC word everything but a loss   *)
(* of power.                                                               *)
(***************************************************************************)
EXTENDS Naturals

CONSTANTS Threshold,    \* CRASH_LOOP_THRESHOLD
          FaultMax      \* power cuts, resets and commands of the operator

VARIABLES broken,       \* images that crash soon after they are up
          device,       \* images, boot loader, NVS, RTC: what survives
          ram,          \* what the running image holds
          forced,       \* the operator has asked for safe mode, not for its end
          faults
vars == <<broken, device, ram, forced, faults>>

NoNvs == [count |-> 0, force |-> FALSE, clear |-> FALSE]
NoRam == [pc |-> "off", pending |-> FALSE, safe |-> FALSE, count |-> 0,
          told |-> FALSE, task |-> "none"]

Init ==
    /\ broken \in SUBSET {"old", "new"}
    /\ device = [image |-> "old", new |-> "none", nvs |-> NoNvs, rtc |-> FALSE,
                 reset |-> "power"]
    /\ ram = NoRam
    /\ forced = FALSE
    /\ faults = 0

Up == ram.pc = "up"
Fault == faults < FaultMax /\ faults' = faults + 1
Other(image) == IF image = "old" THEN "new" ELSE "old"

Off(reason) == [device EXCEPT !.reset = reason]
Halt(reason) == device' = Off(reason) /\ ram' = NoRam

-----------------------------------------------------------------------------
(* The boot loader (external): a new image is started once on trial.       *)
Load ==
    LET d == device IN
    CASE d.new = "written" -> [d EXCEPT !.image = "new", !.new = "pending"]
      [] d.new = "pending" -> [d EXCEPT !.image = "old", !.new = "aborted"]
      [] OTHER -> d

Boot ==
    /\ ram.pc = "off"
    /\ device' = Load
    /\ ram' = [NoRam EXCEPT !.pc = "init"]
    /\ UNCHANGED <<broken, forced, faults>>

-----------------------------------------------------------------------------
(* scanner_rollback_init.                                                  *)

ClearArmed == device.rtc \/ device.nvs.clear

NvsErasedButFlag == [NoNvs EXCEPT !.clear = device.nvs.clear]

\* recovery_nvs_erase_all.
NvsErased == NoNvs

\* An armed clear is used up: the words of the RTC first, then NVS.
InitClear ==
    /\ ram.pc = "init"
    /\ IF ClearArmed
       THEN /\ device' = [device EXCEPT !.rtc = FALSE]
            /\ ram' = [ram EXCEPT !.pc = "erase"]
       ELSE /\ ram' = [ram EXCEPT !.pc = "decide"]
            /\ UNCHANGED device
    /\ UNCHANGED <<broken, forced, faults>>

InitErase ==
    /\ ram.pc = "erase"
    /\ device' = [device EXCEPT !.nvs = NvsErased]
    /\ ram' = [ram EXCEPT !.pc = "decide"]
    /\ UNCHANGED <<broken, forced, faults>>

CrashLoopOnce(count) == count = Threshold

\* scanner_rollback_decide, for a crash of an image already confirmed.
CrashLoop(count) == count >= Threshold

\* The count is stored before the decision is acted on; a crash on trial is
\* rolled back, and safe mode confirms the image that runs it.
Decide ==
    /\ ram.pc = "decide"
    /\ LET crashed == device.reset = "crash"
           pending == device.image = "new" /\ device.new = "pending"
           count   == device.nvs.count + IF crashed THEN 1 ELSE 0
           bad     == crashed /\ pending
           safe    == device.nvs.force \/ (crashed /\ ~pending /\ CrashLoop(count))
       IN /\ device' = [device EXCEPT !.nvs.count = count,
                          !.new = IF safe /\ pending /\ ~bad THEN "valid" ELSE @]
          /\ ram' = [ram EXCEPT !.pc = IF bad THEN "rollback" ELSE "up",
                       !.pending = pending /\ ~safe, !.safe = safe, !.count = count,
                       !.task = IF safe THEN "none" ELSE "waiting"]
    /\ UNCHANGED <<broken, forced, faults>>

\* esp_ota_mark_app_invalid_rollback_and_reboot, half a second later.
RollBack ==
    /\ ram.pc = "rollback"
    /\ device' = [Off("soft") EXCEPT !.image = "old", !.new = "aborted"]
    /\ ram' = NoRam
    /\ UNCHANGED <<broken, forced, faults>>

-----------------------------------------------------------------------------
(* The running image.                                                      *)

\* An image that is broken crashes when it runs its radios, which safe mode
\* leaves alone.
Crash ==
    /\ Up /\ ~ram.safe /\ device.image \in broken
    /\ Halt("crash")
    /\ UNCHANGED <<broken, forced, faults>>

\* Any authorized command proves the way in.
Told ==
    /\ Up /\ ~ram.told
    /\ ram' = [ram EXCEPT !.told = TRUE]
    /\ UNCHANGED <<broken, device, forced, faults>>

\* scanner_rollback_mark_valid.
MarkValid ==
    /\ device' = [device EXCEPT !.nvs.count = IF ram.count # 0 THEN 0 ELSE @,
                    !.new = IF ram.pending THEN "valid" ELSE @]
    /\ ram' = [ram EXCEPT !.pending = FALSE, !.count = 0, !.task = "done"]

\* scanner_mark_valid_when_healthy_task, after a minute: a command has come,
\* or none is needed, and the radios work.
Healthy ==
    /\ Up /\ ram.task = "waiting" /\ device.image \notin broken
    /\ ram.told \/ ~ram.pending
    /\ MarkValid
    /\ UNCHANGED <<broken, forced, faults>>

\* After three minutes an image on trial is left unconfirmed.
GiveUp ==
    /\ Up /\ ram.task = "waiting" /\ device.image \notin broken
    /\ IF ram.pending
       THEN ram' = [ram EXCEPT !.task = "done"] /\ UNCHANGED device
       ELSE MarkValid
    /\ UNCHANGED <<broken, forced, faults>>

\* scanner_rollback_reboot_or_restart, for the reboot command and for a
\* listener that has not looped for half a minute.
RebootOrRestart ==
    /\ Up /\ Fault
    /\ IF ram.pending
       THEN device' = [Off("soft") EXCEPT !.image = "old", !.new = "aborted"]
       ELSE device' = Off("soft")
    /\ ram' = NoRam
    /\ UNCHANGED <<broken, forced>>

\* uart_ota.c: another image is written and chosen for the next boot, then
\* the scanner restarts; safe mode can do it too.  A crash in between is the
\* reset the new image starts from.
Update ==
    /\ Up /\ device.image = "old" /\ device.new # "valid" /\ Fault
    /\ device' = [device EXCEPT !.new = "written"]
    /\ ram' = [ram EXCEPT !.pc = "flashed"]
    /\ UNCHANGED <<broken, forced>>

UpdateEnds(reason) ==
    /\ ram.pc = "flashed"
    /\ reason = "crash" => ~ram.safe /\ device.image \in broken
    /\ Halt(reason)
    /\ UNCHANGED <<broken, forced, faults>>

-----------------------------------------------------------------------------
(* The safe-mode command of the operator; the listener that runs it takes  *)
(* no other and restarts when it is done.                                  *)
ForceSafe ==
    /\ Up /\ Fault
    /\ device' = [device EXCEPT !.nvs.force = TRUE]
    /\ forced' = TRUE
    /\ ram' = [ram EXCEPT !.pc = "forcing", !.safe = TRUE]
    /\ UNCHANGED broken

ForceSafeEnds ==
    /\ ram.pc = "forcing"
    /\ device' = [Off("soft") EXCEPT !.rtc = FALSE]
    /\ ram' = NoRam
    /\ UNCHANGED <<broken, forced, faults>>

\* scanner_rollback_clear_crash_state: the RTC, then NVS twice, so that one
\* of them is there whenever the power goes.
ClearRtc ==
    /\ Up /\ Fault
    /\ device' = [device EXCEPT !.rtc = TRUE]
    /\ forced' = FALSE
    /\ ram' = [ram EXCEPT !.pc = "clear_nvs"]
    /\ UNCHANGED broken

ClearNvs ==
    /\ ram.pc = "clear_nvs"
    /\ device' = [device EXCEPT !.nvs = NoNvs]
    /\ ram' = [ram EXCEPT !.pc = "clear_once"]
    /\ UNCHANGED <<broken, forced, faults>>

ClearOnce ==
    /\ ram.pc = "clear_once"
    /\ device' = [Off("soft") EXCEPT !.nvs.clear = TRUE,
                    !.new = IF ram.pending THEN "valid" ELSE @]
    /\ ram' = NoRam
    /\ UNCHANGED <<broken, forced, faults>>

-----------------------------------------------------------------------------
PowerCut ==
    /\ ram.pc # "off" /\ Fault
    /\ device' = [Off("power") EXCEPT !.rtc = FALSE]
    /\ ram' = NoRam
    /\ UNCHANGED <<broken, forced>>

Next ==
    \/ Boot \/ InitClear \/ InitErase \/ Decide \/ RollBack
    \/ Crash \/ Told \/ Healthy \/ GiveUp \/ RebootOrRestart \/ Update
    \/ (\E reason \in {"soft", "crash"} : UpdateEnds(reason))
    \/ ForceSafe \/ ForceSafeEnds \/ ClearRtc \/ ClearNvs \/ ClearOnce
    \/ PowerCut

Program == Boot \/ InitClear \/ InitErase \/ Decide \/ RollBack \/ Crash
           \/ UpdateEnds("soft") \/ ForceSafeEnds \/ ClearNvs \/ ClearOnce
Spec == Init /\ [][Next]_vars
FairSpec == Spec /\ WF_vars(Program)

-----------------------------------------------------------------------------
\* Whatever images there are and whenever the power goes, the scanner stops
\* crashing: it stays up in an image that works or in safe mode, where it can
\* be told to take another.
Sound == Up /\ (ram.safe \/ device.image \notin broken)
StopsCrashing == <>[]Sound

\* Safe mode an operator asked for outlasts every reset, update and earlier
\* clear, until the operator ends it.
ForcedStays == Up /\ forced => ram.safe
-----------------------------------------------------------------------------
(* Why safe mode stays: once an image runs, no clear is armed that a later  *)
(* reset could carry out, and the steps of a clear run only when the        *)
(* operator has asked for one since.                                        *)
TypeOK ==
    /\ device \in [image : {"old", "new"}, nvs : [count : Nat, force : BOOLEAN, clear : BOOLEAN],
                   new : {"none", "written", "pending", "aborted", "valid"},
                   rtc : BOOLEAN, reset : {"power", "soft", "crash"}]
    /\ ram \in [pc : {"off", "init", "erase", "decide", "rollback", "up", "flashed",
                      "forcing", "clear_nvs", "clear_once"},
                pending : BOOLEAN, safe : BOOLEAN, count : Nat, told : BOOLEAN,
                task : {"none", "waiting", "done"}]
    /\ forced \in BOOLEAN
ForcedInv ==
    /\ ram.pc \in {"decide", "rollback", "up", "flashed", "forcing"} => ~ClearArmed
    /\ ram.pc = "erase" => ~device.rtc
    /\ ram.pc \in {"erase", "clear_nvs", "clear_once"} => ~forced
    /\ forced => device.nvs.force /\ ~ClearArmed
    /\ ForcedStays
=============================================================================
