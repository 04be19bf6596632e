----------------------- MODULE UpdateMaintenance_proofs -----------------------
(***************************************************************************)
(* What is proved of the maintenance sessions, for any sessions, any limit *)
(* of boots, any span of generations and every kind of mishap: who is      *)
(* admitted to a maintenance boot, for how many boots, on which image.     *)
(* The argument is about the armed marker.  Once a boot has read the       *)
(* memory, only the owner of the arm publishes one, with a generation that *)
(* is never the Legacy word, and goes through with that restart; so a boot *)
(* that finds a marker with the generation of its token comes from it.     *)
(***************************************************************************)
EXTENDS UpdateMaintenance, TLAPS

\* The types of the parts.
Rtc == [magic : BOOLEAN, generation : 0..GenLast, once : BOOLEAN, marker : Marker]
Flash == [running : Slots, selected : Slots, pending : BOOLEAN]
Boot ==
    [reset : {"sw", "crash", "clean"},
     stage : {"start", "init", "startup", "ready", "supervising", "recovery"},
     cached : BOOLEAN, expected : BOOLEAN, consumed : 0..GenLast, cause : Reasons,
     aborted : {"no", "late", "yes"}, streak : 0..MaxBoots + 1]
Run == [safe : BOOLEAN, active : BOOLEAN, seen : BOOLEAN, hooked : BOOLEAN,
        due : BOOLEAN, idle : BOOLEAN]
ArmState == [phase : {"idle", "preparing", "owned"}, owner : Tasks \cup {"none"},
             generation : 0..GenLast]
Task == [pc : {"idle", "arming", "publish", "reserve", "clear", "rollback",
               "restart", "release", "released"}, reason : Reasons]
Usb == [responding : BOOLEAN, abort : Sessions \cup {NoSession}, retry : BOOLEAN,
        gone : BOOLEAN,
        upload : {"none", "receiving", "finishing", "committed", "recovery"}]
Fw == [op : {"free", "busy", "upload", "reserved"}, preempted : BOOLEAN]
Typed ==
    /\ rtc \in Rtc /\ flash \in Flash /\ boot \in Boot /\ run \in Run
    /\ arm \in ArmState /\ task \in [Tasks -> Task] /\ usb \in Usb /\ fw \in Fw

\* Before badge_runtime_init has read the memory.
Unread == boot.stage \in {"start", "init"}

\* Nobody but the rollback check acts before the memory is read.
BootShape ==
    /\ boot.cached <=> ~Unread \/ arm.phase # "idle"
    /\ Unread =>
         /\ run = InitRun /\ fw = FreeFw
         /\ usb = [IdleUsb EXCEPT !.gone = usb.gone]
         /\ \A t \in Tasks : \/ task[t] = IdleTask
                             \/ /\ t = "main" /\ boot.stage = "start"
                                /\ task[t].reason = "boot_health_rollback"

\* The one task that is restarting the badge holds the arm.
ArmShape ==
    /\ arm.phase = "idle" <=> arm.owner = "none"
    /\ \A t \in Tasks : arm.owner = t <=> task[t].pc \notin {"idle", "arming"}
    /\ \A t \in Tasks : arm.owner = t => (arm.phase = "preparing" <=> task[t].pc = "publish")

\* How far a restart gets, by its reason.
ReasonShape ==
    \A t \in Tasks :
       /\ task[t].pc = "idle" => task[t].reason = "none"
       /\ task[t].pc = "arming" => task[t].reason = "watchdog"
       /\ task[t].pc = "clear" => task[t].reason \in Lifecycle \cup {"abort_preparing"}
       /\ task[t].reason \in Binding =>
            t = "usb" /\ task[t].pc \in {"publish", "restart"} /\ arm.generation # Legacy
       /\ task[t].reason = "boot_health_rollback" =>
            task[t].pc \in {"publish", "rollback", "restart"} /\ arm.generation = Legacy
       /\ task[t].reason = "abort_preparing" => boot.streak = 0
       /\ task[t].reason = "usb_uplink_ota" =>
            usb.upload = "committed" /\ (task[t].pc = "restart" => run.active)
       /\ task[t].reason = "update_maintenance" /\ task[t].pc = "restart" => ~run.active

TokenShape ==
    rtc.magic /\ boot.cached =>
        /\ arm.phase = "owned" /\ rtc.generation = arm.generation
        /\ task[arm.owner].pc # "released"

MarkerShape ==
    /\ rtc.marker.phase = "armed" => rtc.marker.generation # Legacy
    /\ ~Unread /\ rtc.marker.phase = "armed" =>
         /\ arm.owner = "usb" /\ task["usb"].pc = "restart" /\ task["usb"].reason \in Binding
         /\ rtc.marker.generation = arm.generation
         /\ ~run.active => rtc.marker.committed = "none"
    /\ rtc.marker.phase = "preparing" => rtc.marker.committed = "none"
    /\ run.active => rtc.marker.phase \in {"active", "armed"}

Leaving ==
    \E t \in Tasks : task[t].pc \in {"rollback", "restart"} /\ task[t].reason \in Lifecycle
StreakCounted ==
    /\ boot.streak <= MaxBoots
    /\ rtc.marker.phase = "armed" => boot.streak <= rtc.marker.boots
    /\ ~Unread => \/ boot.streak = 0
                  \/ rtc.marker.phase \in {"active", "armed"} /\ boot.streak <= rtc.marker.boots
                  \/ Leaving

UploadShape ==
    /\ usb.upload \in {"receiving", "finishing", "committed"} => ~flash.pending
    /\ usb.upload = "committed" => flash.selected = Other(flash.running)
    /\ run.active =>
         IF usb.upload \in {"finishing", "committed"}
         THEN rtc.marker.committed = Other(flash.running)
         ELSE rtc.marker.committed \in {"none", flash.running}

Admissible ==
    /\ Unread /\ ~boot.cached
    /\ rtc.marker.phase = "armed" /\ boot.reset = "sw"
    /\ rtc.magic /\ rtc.generation = rtc.marker.generation
AdmissionShape ==
    Admissible =>
        /\ boot.cause \in Binding /\ boot.aborted # "yes"
        /\ rtc.marker.committed \in {"none", flash.running}

AbortShape ==
    ~Unread /\ boot.aborted = "yes" =>
        /\ usb.abort # NoSession /\ ~usb.retry /\ ~run.active
        /\ task["usb"].reason # "update_maintenance"

IInv ==
    /\ Typed /\ BootShape /\ ArmShape /\ ReasonShape /\ TokenShape /\ MarkerShape
    /\ StreakCounted /\ UploadShape /\ AdmissionShape /\ AbortShape

-----------------------------------------------------------------------------
(* The parts.                                                              *)
LEMMA MarkerFields ==
    ASSUME NEW m \in Marker
    PROVE  /\ m.phase \in {"none", "preparing", "armed", "active"}
           /\ m.generation \in 0..GenLast /\ m.boots \in 0..MaxBoots
           /\ m.committed \in Slots \cup {"none"}
           /\ m.session \in Sessions \cup {NoSession}
           /\ m.phase = "none" <=> m = NoMarker
           /\ m.phase # "none" => m.session \in Sessions
<1>1. 0 \in 0..GenLast /\ 0 \in 0..MaxBoots
  BY GenAssumption, BootsAssumption DEF GenAssumption, BootsAssumption
<1> QED BY <1>1 DEF Marker, NoMarker

\* A generation that names a maintenance boot is never the Legacy word.
LEMMA NextIsNotLegacy ==
    ASSUME NEW g \in 0..GenLast
    PROVE  NextGeneration(g) \in 0..GenLast /\ NextGeneration(g) # Legacy
BY GenAssumption DEF GenAssumption, NextGeneration

LEMMA OtherSlot ==
    ASSUME NEW slot \in Slots
    PROVE  Other(slot) \in Slots /\ Other(slot) # slot
<1>1. \E s \in Slots : s # slot
  BY DEF Slots
<1> QED BY <1>1 DEF Other

LEMMA TaskMoves ==
    ASSUME task \in [Tasks -> Task], NEW t \in Tasks, NEW r \in Task,
           task' = [task EXCEPT ![t] = r]
    PROVE  /\ task' \in [Tasks -> Task] /\ task'[t] = r
           /\ \A u \in Tasks : u # t => task'[u] = task[u]
OBVIOUS

LEMMA TaskGoes ==
    ASSUME task \in [Tasks -> Task], NEW t \in Tasks, NEW pc, GoTo(t, pc),
           pc \in {"idle", "arming", "publish", "reserve", "clear", "rollback",
                   "restart", "release", "released"}
    PROVE  /\ task' \in [Tasks -> Task]
           /\ task'[t].pc = pc /\ task'[t].reason = task[t].reason
           /\ \A u \in Tasks : u # t => task'[u] = task[u]
BY DEF GoTo, Task

-----------------------------------------------------------------------------
(* Steps that restart nothing, once the memory has been read.              *)

\* The marker stays, begins to be prepared, or has its summary written.
MarkerStep ==
    \/ rtc'.marker = rtc.marker
    \/ /\ rtc.marker.phase = "none" /\ rtc'.marker.phase = "preparing"
       /\ rtc'.marker.committed = "none"
    \/ /\ rtc.marker.phase = "active" /\ rtc'.marker.phase = "active"
       /\ rtc'.marker.boots = rtc.marker.boots

LEMMA QuietKeeps ==
    ASSUME IInv, Typed', ~Unread, ~Unread', UNCHANGED <<arm, task>>,
           boot'.cached = boot.cached, boot'.streak = boot.streak,
           rtc'.magic = rtc.magic, rtc'.generation = rtc.generation,
           run'.active = run.active, MarkerStep, UploadShape', AbortShape',
           usb.upload = "committed" => usb'.upload = "committed"
    PROVE  IInv'
<1>1. BootShape'
  BY DEF IInv, BootShape
<1>2. ArmShape'
  BY DEF IInv, ArmShape
<1>3. ReasonShape'
  BY DEF IInv, ReasonShape
<1>4. TokenShape'
  BY DEF IInv, TokenShape
<1>5. MarkerShape'
  BY DEF IInv, MarkerShape, MarkerStep
<1>6. StreakCounted'
  BY DEF IInv, StreakCounted, MarkerStep, Leaving
<1>7. AdmissionShape'
  BY DEF AdmissionShape, Admissible
<1> QED BY <1>1, <1>2, <1>3, <1>4, <1>5, <1>6, <1>7 DEF IInv

\* Commands are heard, and a boot goes on, only after the memory is read.
LEMMA Reading ==
    ASSUME IInv
    PROVE  /\ boot.stage \in {"startup", "ready", "supervising", "recovery"} => ~Unread
           /\ run.seen \/ run.active \/ usb.upload # "none" \/ usb.responding => ~Unread
           /\ fw # FreeFw => ~Unread
BY DEF IInv, BootShape, Unread, InitRun, IdleUsb, FreeFw

\* With the USB task idle no marker is armed.
LEMMA NotArmed ==
    ASSUME IInv, ~Unread, Idle("usb")
    PROVE  rtc.marker.phase # "armed" /\ task["usb"].reason = "none"
BY DEF IInv, MarkerShape, ReasonShape, Idle, At, Tasks

LEMMA KeepsBootGoesOn ==
    ASSUME IInv, Startup \/ StartupFails \/ Supervise \/ MarkValid
    PROVE  IInv'
<1>1. ~Unread /\ ~Unread'
  BY DEF IInv, Typed, Boot, Startup, StartupFails, Supervise, MarkValid, MainAt, Unread
<1>2. UNCHANGED <<arm, task, rtc, usb, fw>>
  BY DEF Startup, StartupFails, Supervise, MarkValid
<1>3. /\ boot' \in Boot /\ boot'.cached = boot.cached /\ boot'.streak = boot.streak
      /\ boot'.aborted = boot.aborted
  BY DEF IInv, Typed, Boot, Startup, StartupFails, Supervise, MarkValid
<1>4. run' \in Run /\ run'.active = run.active
  BY DEF IInv, Typed, Run, Startup, StartupFails, Supervise, MarkValid
<1>5. /\ flash' \in Flash /\ flash'.running = flash.running
      /\ flash'.selected = flash.selected
      /\ flash'.pending => flash.pending
  BY DEF IInv, Typed, Flash, Startup, StartupFails, Supervise, MarkValid
<1>6. Typed'
  BY <1>2, <1>3, <1>4, <1>5 DEF IInv, Typed
<1>7. UploadShape' /\ AbortShape'
  BY <1>1, <1>2, <1>3, <1>4, <1>5 DEF IInv, UploadShape, AbortShape
<1> QED BY <1>1, <1>2, <1>3, <1>4, <1>6, <1>7, QuietKeeps DEF MarkerStep

LEMMA KeepsPrepare ==
    ASSUME IInv, NEW s \in Sessions, Prepare(s)
    PROVE  IInv'
<1>1. ~Unread /\ ~Unread' /\ Idle("usb") /\ UNCHANGED <<flash, boot, arm, task>>
  BY DEF Prepare, Listening, Dispatching, Looping, Unread
<1>2. ~run.active
  <2>1. rtc.marker.phase # "armed"
    BY <1>1, NotArmed
  <2> QED BY <2>1 DEF Prepare, Active, IInv, MarkerShape
<1>3. /\ run' \in Run /\ run'.active = run.active
      /\ fw' \in Fw
      /\ usb' \in Usb /\ usb'.upload = usb.upload /\ usb.abort = NoSession
  <2>1. run' \in Run /\ run'.active = run.active
    BY DEF Prepare, IInv, Typed, Run
  <2>2. fw' \in Fw
    BY DEF Prepare, IInv, Typed, Fw, Preempted
  <2>3. usb' \in Usb /\ usb'.upload = usb.upload
    <3>1. PICK suspended \in Suspending :
            usb' = [usb EXCEPT !.responding = TRUE, !.retry = @ \/ RebootSafe(suspended)]
      BY DEF Prepare
    <3>2. (usb.retry \/ RebootSafe(suspended)) \in BOOLEAN
      BY DEF RebootSafe
    <3> QED BY <3>1, <3>2 DEF IInv, Typed, Usb
  <2> QED BY <2>1, <2>2, <2>3 DEF Prepare
<1>4. /\ rtc' \in Rtc /\ rtc'.magic = rtc.magic /\ rtc'.generation = rtc.generation
      /\ MarkerStep
  <2>1. CASE rtc.marker # NoMarker
    <3>1. rtc' = [rtc EXCEPT !.marker = rtc.marker]
      BY <2>1 DEF Prepare, Valid
    <3> QED BY <3>1 DEF IInv, Typed, Rtc, MarkerStep
  <2>2. CASE rtc.marker = NoMarker
    <3> DEFINE m == [NoMarker EXCEPT !.phase = "preparing", !.session = s]
    <3>1. 0 \in 0..GenLast /\ 0 \in 0..MaxBoots
      BY GenAssumption, BootsAssumption DEF GenAssumption, BootsAssumption
    <3>2. m \in Marker
      BY <3>1 DEF Marker, NoMarker
    <3>3. m.phase = "preparing" /\ m.committed = "none"
      BY DEF NoMarker
    <3>4. rtc' = [rtc EXCEPT !.marker = m]
      BY <2>2 DEF Prepare, Valid
    <3> HIDE DEF m
    <3>5. /\ rtc' \in Rtc /\ rtc'.marker = m
          /\ rtc'.magic = rtc.magic /\ rtc'.generation = rtc.generation
      BY <3>2, <3>4 DEF IInv, Typed, Rtc
    <3> QED BY <2>2, <3>3, <3>5 DEF MarkerStep, NoMarker
  <2> QED BY <2>1, <2>2
<1>5. Typed'
  BY <1>1, <1>3, <1>4 DEF IInv, Typed
<1>6. UploadShape' /\ AbortShape'
  BY <1>1, <1>2, <1>3 DEF IInv, UploadShape, AbortShape
<1> QED BY <1>1, <1>3, <1>4, <1>5, <1>6, QuietKeeps

LEMMA KeepsAbortPreparing ==
    ASSUME IInv, NEW s \in Sessions, AbortPreparing(s)
    PROVE  IInv'
<1>1. ~Unread /\ ~Unread' /\ Idle("usb") /\ UNCHANGED <<rtc, flash, run, arm, task, fw>>
  BY DEF AbortPreparing, Listening, Dispatching, Looping, Unread, IInv, Typed
<1>2. Typed'
  <2>1. usb' \in Usb
    BY DEF AbortPreparing, IInv, Typed, Usb
  <2>2. boot' \in Boot
    BY DEF AbortPreparing, IInv, Typed, Boot
  <2> QED BY <1>1, <2>1, <2>2 DEF IInv, Typed
<1>3. ~run.active /\ task["usb"].reason = "none"
  BY <1>1, NotArmed DEF AbortPreparing, Preparing, IInv, MarkerShape
<1>4. /\ usb'.abort # NoSession /\ usb'.retry = usb.retry /\ usb'.upload = usb.upload
      /\ boot'.cached = boot.cached /\ boot'.streak = boot.streak
      /\ boot'.aborted = "yes" => ~usb.retry
  BY SessionsAssumption DEF SessionsAssumption, AbortPreparing, IInv, Typed, Usb, Boot
<1>5. UploadShape' /\ AbortShape'
  BY <1>1, <1>3, <1>4 DEF IInv, UploadShape, AbortShape
<1> QED BY <1>1, <1>2, <1>4, <1>5, QuietKeeps DEF MarkerStep

\* What changes only the fields the invariant does not look at.
LEMMA KeepsUnseen ==
    ASSUME IInv, KeepAlive \/ OtherCommand \/ GracePasses \/ ActivityStops
    PROVE  IInv'
<1>1. ~Unread /\ ~Unread' /\ UNCHANGED <<rtc, flash, boot, arm, task, fw>>
  BY Reading DEF KeepAlive, OtherCommand, GracePasses, ActivityStops, Active, Listening,
     Dispatching, Unread
<1>2. run' \in Run /\ run'.active = run.active
  BY DEF KeepAlive, OtherCommand, GracePasses, ActivityStops, IInv, Typed, Run
<1>3. /\ usb' \in Usb /\ usb'.upload = usb.upload
      /\ usb'.abort = usb.abort /\ usb'.retry = usb.retry
  BY DEF KeepAlive, OtherCommand, GracePasses, ActivityStops, IInv, Typed, Usb
<1>4. Typed'
  BY <1>1, <1>2, <1>3 DEF IInv, Typed
<1>5. UploadShape' /\ AbortShape'
  BY <1>1, <1>2, <1>3 DEF IInv, UploadShape, AbortShape
<1> QED BY <1>1, <1>2, <1>3, <1>4, <1>5, QuietKeeps DEF MarkerStep

LEMMA KeepsOperation ==
    ASSUME IInv, OperationBegins \/ OperationEnds \/ PollUnsafe
    PROVE  IInv'
<1>1. ~Unread /\ ~Unread' /\ UNCHANGED <<rtc, flash, boot, run, arm, task, usb>>
  BY Reading DEF OperationBegins, OperationEnds, PollUnsafe, Dispatching, Unread, FreeFw
<1>2. Typed'
  <2>1. fw' \in Fw
    BY DEF OperationBegins, OperationEnds, PollUnsafe, Preempted, IInv, Typed, Fw
  <2> QED BY <1>1, <2>1 DEF IInv, Typed
<1>3. UploadShape' /\ AbortShape'
  BY <1>1 DEF IInv, UploadShape, AbortShape
<1> QED BY <1>1, <1>2, <1>3, QuietKeeps DEF MarkerStep

LEMMA KeepsHostLeaves ==
    ASSUME IInv, HostLeaves
    PROVE  IInv'
<1>1. UNCHANGED <<rtc, flash, boot, run, arm, task, fw>> /\ usb' = [usb EXCEPT !.gone = TRUE]
  BY DEF HostLeaves
<1>2. Typed' /\ (Unread' <=> Unread)
  <2>1. usb' \in Usb
    BY <1>1 DEF IInv, Typed, Usb
  <2> QED BY <1>1, <2>1 DEF IInv, Typed, Unread
<1>3. BootShape'
  <2>1. usb = [IdleUsb EXCEPT !.gone = usb.gone] => usb' = [IdleUsb EXCEPT !.gone = usb'.gone]
    BY <1>1 DEF IdleUsb
  <2> QED BY <1>1, <2>1 DEF IInv, BootShape, Unread
<1>4. /\ ArmShape' /\ ReasonShape' /\ TokenShape' /\ MarkerShape' /\ StreakCounted'
      /\ UploadShape' /\ AdmissionShape' /\ AbortShape'
  BY <1>1, <1>2 DEF IInv, Typed, Usb, ArmShape, ReasonShape, TokenShape, MarkerShape,
     StreakCounted, UploadShape, AdmissionShape, Admissible, AbortShape, Leaving
<1> QED BY <1>2, <1>3, <1>4 DEF IInv

-----------------------------------------------------------------------------
(* The upload.                                                             *)
LEMMA UploadReading ==
    ASSUME IInv, usb.upload # "none"
    PROVE  ~Unread
BY Reading

LEMMA KeepsUploadBegins ==
    ASSUME IInv, UploadBegins
    PROVE  IInv'
<1>1. /\ ~Unread /\ ~Unread' /\ UNCHANGED <<rtc, flash, boot, arm, task>>
      /\ ~flash.pending /\ usb.upload = "none"
  BY DEF UploadBegins, Listening, Dispatching, Unread
<1>2. run' \in Run /\ run'.active = run.active
  BY DEF UploadBegins, IInv, Typed, Run
<1>3. /\ usb' \in Usb /\ usb'.upload = "receiving"
      /\ usb'.abort = usb.abort /\ usb'.retry = usb.retry
  BY DEF UploadBegins, IInv, Typed, Usb
<1>4. fw' \in Fw
  BY DEF UploadBegins, IInv, Typed, Fw
<1>5. Typed'
  BY <1>1, <1>2, <1>3, <1>4 DEF IInv, Typed
<1>6. UploadShape' /\ AbortShape'
  BY <1>1, <1>2, <1>3 DEF IInv, UploadShape, AbortShape
<1> QED BY <1>1, <1>2, <1>3, <1>5, <1>6, QuietKeeps DEF MarkerStep

LEMMA KeepsCommitSummary ==
    ASSUME IInv, CommitSummary
    PROVE  IInv'
<1>1. /\ UNCHANGED <<flash, boot, arm, task, fw>> /\ Idle("usb")
      /\ usb.upload = "receiving" /\ run.active /\ ~flash.pending
  BY DEF CommitSummary, Looping, IInv, UploadShape
<1>2. ~Unread /\ ~Unread'
  BY <1>1, UploadReading DEF Unread
<1>3. rtc.marker.phase = "active"
  BY <1>1, <1>2, NotArmed DEF IInv, MarkerShape
<1>4. run' \in Run /\ run'.active = run.active
  BY DEF CommitSummary, IInv, Typed, Run
<1>5. /\ usb' \in Usb /\ usb'.upload = "finishing"
      /\ usb'.abort = usb.abort /\ usb'.retry = usb.retry
  BY DEF CommitSummary, IInv, Typed, Usb
<1>6. /\ rtc' \in Rtc /\ rtc'.magic = rtc.magic /\ rtc'.generation = rtc.generation
      /\ MarkerStep /\ rtc'.marker.committed = Other(flash.running)
  <2> DEFINE m == [rtc.marker EXCEPT !.committed = Other(flash.running)]
  <2>1. Other(flash.running) \in Slots
    BY OtherSlot DEF IInv, Typed, Flash
  <2>2. rtc.marker \in [phase : {"preparing", "armed", "active"}, session : Sessions,
          generation : 0..GenLast, boots : 0..MaxBoots, committed : Slots \cup {"none"}]
    BY <1>3 DEF IInv, Typed, Rtc, Marker, NoMarker
  <2>3. /\ m \in Marker /\ m.phase = "active" /\ m.boots = rtc.marker.boots
        /\ m.committed = Other(flash.running)
    BY <1>3, <2>1, <2>2 DEF Marker
  <2>4. rtc' = [rtc EXCEPT !.marker = m]
    BY DEF CommitSummary
  <2> HIDE DEF m
  <2>5. /\ rtc' \in Rtc /\ rtc'.marker = m
        /\ rtc'.magic = rtc.magic /\ rtc'.generation = rtc.generation
    BY <2>3, <2>4 DEF IInv, Typed, Rtc
  <2> QED BY <1>3, <2>3, <2>5 DEF MarkerStep
<1>7. Typed'
  BY <1>1, <1>4, <1>5, <1>6 DEF IInv, Typed
<1>8. UploadShape' /\ AbortShape'
  BY <1>1, <1>2, <1>4, <1>5, <1>6 DEF IInv, UploadShape, AbortShape
<1> QED BY <1>1, <1>2, <1>4, <1>5, <1>6, <1>7, <1>8, QuietKeeps

LEMMA KeepsUploadAborts ==
    ASSUME IInv, UploadAborts
    PROVE  IInv'
<1>1. UNCHANGED <<rtc, flash, boot, run, arm, task>> /\ usb.upload = "receiving"
  BY DEF UploadAborts
<1>2. ~Unread /\ ~Unread'
  BY <1>1, UploadReading DEF Unread
<1>3. /\ usb' \in Usb /\ usb'.upload \in {"none", "recovery"}
      /\ usb'.abort = usb.abort /\ usb'.retry = usb.retry
  BY DEF UploadAborts, IInv, Typed, Usb
<1>4. fw' \in Fw
  BY DEF UploadAborts, IInv, Typed, Fw
<1>5. Typed'
  BY <1>1, <1>3, <1>4 DEF IInv, Typed
<1>6. UploadShape' /\ AbortShape'
  BY <1>1, <1>2, <1>3 DEF IInv, UploadShape, AbortShape
<1> QED BY <1>1, <1>2, <1>3, <1>5, <1>6, QuietKeeps DEF MarkerStep

LEMMA KeepsImageSelected ==
    ASSUME IInv, ImageSelected
    PROVE  IInv'
<1>1. UNCHANGED <<rtc, boot, run, arm, task, fw>> /\ usb.upload = "finishing"
  BY DEF ImageSelected
<1>2. ~Unread /\ ~Unread'
  BY <1>1, UploadReading DEF Unread
<1>3. /\ usb' \in Usb /\ usb'.upload = "committed"
      /\ usb'.abort = usb.abort /\ usb'.retry = usb.retry
  BY DEF ImageSelected, IInv, Typed, Usb
<1>4. /\ flash' \in Flash /\ flash'.running = flash.running
      /\ flash'.selected = Other(flash.running) /\ flash'.pending = flash.pending
  BY OtherSlot DEF ImageSelected, IInv, Typed, Flash
<1>5. Typed'
  BY <1>1, <1>3, <1>4 DEF IInv, Typed
<1>6. UploadShape' /\ AbortShape'
  BY <1>1, <1>2, <1>3, <1>4 DEF IInv, UploadShape, AbortShape
<1> QED BY <1>1, <1>2, <1>3, <1>5, <1>6, QuietKeeps DEF MarkerStep

LEMMA KeepsImageRefused ==
    ASSUME IInv, ImageRefused
    PROVE  IInv'
<1>1. /\ UNCHANGED <<flash, boot, run, arm, task>> /\ usb.upload = "finishing"
      /\ Idle("usb")
  BY DEF ImageRefused, Looping
<1>2. ~Unread /\ ~Unread'
  BY <1>1, UploadReading DEF Unread
<1>3. /\ usb' \in Usb /\ usb'.upload \in {"none", "recovery"}
      /\ usb'.abort = usb.abort /\ usb'.retry = usb.retry
  BY DEF ImageRefused, IInv, Typed, Usb
<1>4. fw' \in Fw
  BY DEF ImageRefused, IInv, Typed, Fw
<1>5. /\ rtc' \in Rtc /\ rtc'.magic = rtc.magic /\ rtc'.generation = rtc.generation
      /\ MarkerStep
      /\ run.active => rtc'.marker.committed = "none"
  <2>1. CASE Active
    <3> DEFINE m == [rtc.marker EXCEPT !.committed = "none"]
    <3>1. rtc.marker \in [phase : {"preparing", "armed", "active"}, session : Sessions,
            generation : 0..GenLast, boots : 0..MaxBoots, committed : Slots \cup {"none"}]
      BY <2>1 DEF IInv, Typed, Rtc, Marker, NoMarker, Active
    <3>2. /\ m \in Marker /\ m.phase = "active" /\ m.boots = rtc.marker.boots
          /\ m.committed = "none" /\ rtc.marker.phase = "active"
      BY <2>1, <3>1 DEF Marker, Active
    <3>3. rtc' = [rtc EXCEPT !.marker = m]
      BY <2>1 DEF ImageRefused
    <3> HIDE DEF m
    <3>4. /\ rtc' \in Rtc /\ rtc'.marker = m
          /\ rtc'.magic = rtc.magic /\ rtc'.generation = rtc.generation
      BY <3>2, <3>3 DEF IInv, Typed, Rtc
    <3> QED BY <3>2, <3>4 DEF MarkerStep
  <2>2. CASE ~Active
    <3>1. rtc' = [rtc EXCEPT !.marker = [rtc.marker EXCEPT !.committed = rtc.marker.committed]]
      BY <2>2 DEF ImageRefused
    <3>2. [rtc.marker EXCEPT !.committed = rtc.marker.committed] = rtc.marker
      BY DEF IInv, Typed, Rtc, Marker, NoMarker
    <3>3. rtc' = rtc
      BY <3>1, <3>2 DEF IInv, Typed, Rtc
    <3>4. ~run.active
      BY <1>1, <1>2, <2>2, NotArmed DEF Active, IInv, MarkerShape
    <3> QED BY <3>3, <3>4 DEF MarkerStep, IInv, Typed
  <2> QED BY <2>1, <2>2
<1>6. Typed'
  BY <1>1, <1>3, <1>4, <1>5 DEF IInv, Typed
<1>7. UploadShape' /\ AbortShape'
  BY <1>1, <1>2, <1>3, <1>5 DEF IInv, UploadShape, AbortShape
<1> QED BY <1>1, <1>2, <1>3, <1>5, <1>6, <1>7, QuietKeeps

-----------------------------------------------------------------------------
(* The arm is taken.                                                       *)
LEMMA ArmTypes ==
    ASSUME IInv, NEW t \in Tasks, NEW reason \in Reasons, Arm(t, reason)
    PROVE  /\ boot' \in Boot /\ rtc' \in Rtc /\ arm' \in ArmState
           /\ task' \in [Tasks -> Task]
           /\ arm'.phase = "preparing" /\ arm'.owner = t
           /\ arm'.generation = Legacy <=> RollsBack(reason)
           /\ task'[t].pc = "publish" /\ task'[t].reason = reason
           /\ \A u \in Tasks : u # t => task'[u] = task[u]
           /\ ~rtc'.magic /\ boot'.cached
           /\ boot'.stage = boot.stage
           /\ boot.cached => boot' = boot /\ rtc'.marker = rtc.marker
<1>1. rtc \in Rtc /\ boot \in Boot /\ task \in [Tasks -> Task]
  BY DEF IInv, Typed
<1>2. 0 \in 0..GenLast /\ 1 \in 0..GenLast /\ Legacy \in 0..GenLast /\ NoMarker \in Marker
  BY GenAssumption DEF GenAssumption, Marker
<1>3. Consumed \in 0..GenLast /\ Expected \in BOOLEAN
  BY <1>1, <1>2 DEF Consumed, Expected, Rtc
<1>4. Spent \in Rtc
  <2> DEFINE g == IF Expected /\ rtc.magic /\ rtc.generation # Legacy THEN rtc.generation ELSE 0
             m == IF Expected /\ ~rtc.magic THEN NoMarker ELSE rtc.marker
  <2>1. g \in 0..GenLast /\ m \in Marker
    BY <1>1, <1>2 DEF Rtc
  <2>2. Spent = [rtc EXCEPT !.magic = FALSE, !.generation = g, !.marker = m]
    BY DEF Spent
  <2> HIDE DEF g, m
  <2> QED BY <1>1, <2>1, <2>2 DEF Rtc
<1>5. RtcRead \in Rtc /\ (boot.cached => RtcRead = rtc)
  BY <1>1, <1>4 DEF RtcRead
<1>6. /\ BootRead \in Boot /\ BootRead.cached /\ BootRead.stage = boot.stage
      /\ boot.cached => BootRead = boot
  BY <1>1, <1>3 DEF BootRead, Boot
<1>7. rtc' \in Rtc /\ ~rtc'.magic /\ rtc'.marker = RtcRead.marker
  BY <1>5 DEF Arm, Rtc
<1>8. GenerationFor(reason) \in 0..GenLast /\ (GenerationFor(reason) = Legacy <=> RollsBack(reason))
  <2>1. RtcRead.generation \in 0..GenLast
    BY <1>5 DEF Rtc
  <2>2. NextGeneration(RtcRead.generation) \in 0..GenLast
        /\ NextGeneration(RtcRead.generation) # Legacy
    BY <2>1, NextIsNotLegacy
  <2> QED BY <1>2, <2>2 DEF GenerationFor
<1>9. arm' = [phase |-> "preparing", owner |-> t, generation |-> GenerationFor(reason)]
  BY DEF Arm
<1>10. arm' \in ArmState /\ arm'.phase = "preparing" /\ arm'.owner = t
       /\ (arm'.generation = Legacy <=> RollsBack(reason))
  BY <1>8, <1>9 DEF ArmState
<1>11. /\ task' \in [Tasks -> Task] /\ task'[t] = [pc |-> "publish", reason |-> reason]
       /\ \A u \in Tasks : u # t => task'[u] = task[u]
  <2>1. [pc |-> "publish", reason |-> reason] \in Task
    BY DEF Task
  <2> QED BY <1>1, <2>1, TaskMoves DEF Arm
<1> QED BY <1>5, <1>6, <1>7, <1>10, <1>11 DEF Arm

\* After the memory is read.
LEMMA ArmKeeps ==
    ASSUME IInv, ~Unread, NEW t \in Tasks, NEW reason \in Reasons, Arm(t, reason),
           task[t].pc \in {"idle", "arming"},
           flash' = flash, run' \in Run, usb' \in Usb, fw' \in Fw,
           run'.active = run.active,
           usb'.abort = usb.abort, usb'.retry = usb.retry,
           usb'.upload = usb.upload \/ (usb.upload = "recovery" /\ usb'.upload = "none"),
           reason \notin {"none", "boot_health_rollback"},
           reason \in Binding => t = "usb",
           reason = "abort_preparing" => rtc.marker.phase = "preparing",
           reason = "usb_uplink_ota" => usb.upload = "committed",
           reason = "update_maintenance" => usb.retry \/ usb.abort = NoSession
    PROVE  IInv'
<1>1. /\ boot' = boot /\ rtc' \in Rtc /\ rtc'.marker = rtc.marker /\ ~rtc'.magic
      /\ arm' \in ArmState /\ arm'.phase = "preparing" /\ arm'.owner = t
      /\ arm'.generation = Legacy <=> RollsBack(reason)
      /\ task' \in [Tasks -> Task] /\ task'[t].pc = "publish" /\ task'[t].reason = reason
      /\ \A u \in Tasks : u # t => task'[u] = task[u]
      /\ boot.cached
  <2>1. boot.cached
    BY DEF IInv, BootShape
  <2> QED BY <2>1, ArmTypes
<1>2. arm.phase = "idle" /\ arm.owner = "none" /\ \A u \in Tasks : task[u].pc \in {"idle", "arming"}
  BY DEF Arm, IInv, ArmShape, Tasks
<1>3. Typed' /\ ~Unread'
  BY <1>1 DEF IInv, Typed, Unread
<1>4. BootShape'
  BY <1>1, <1>3 DEF BootShape
<1>5. ArmShape'
  BY <1>1, <1>2 DEF ArmShape, Tasks
<1>6. ~Leaving /\ rtc.marker.phase # "armed"
  <2>1. ~Leaving
    BY <1>2 DEF Leaving
  <2>2. rtc.marker.phase # "armed"
    BY <1>2 DEF IInv, MarkerShape, Tasks
  <2> QED BY <2>1, <2>2
<1>7. ReasonShape'
  <2>1. reason = "abort_preparing" => boot.streak = 0
    BY <1>6 DEF IInv, StreakCounted
  <2>2. reason \in Binding => arm'.generation # Legacy
    BY <1>1 DEF Binding, RollsBack
  <2>3. \A u \in Tasks :
          task[u].reason \notin Binding \cup {"boot_health_rollback", "abort_preparing"}
    BY <1>2 DEF IInv, ReasonShape, Binding
  <2> QED BY <1>1, <1>2, <2>1, <2>2, <2>3 DEF IInv, ReasonShape, Binding
<1>8. TokenShape' /\ AdmissionShape'
  BY <1>1, <1>3 DEF TokenShape, AdmissionShape, Admissible
<1>9. MarkerShape' /\ StreakCounted'
  BY <1>1, <1>3, <1>6 DEF IInv, MarkerShape, StreakCounted
<1>10. UploadShape'
  BY <1>1 DEF IInv, UploadShape
<1>11. AbortShape'
  BY <1>1, <1>3 DEF IInv, AbortShape, Tasks, Binding
<1> QED BY <1>3, <1>4, <1>5, <1>7, <1>8, <1>9, <1>10, <1>11 DEF IInv

\* A restart the main task or the button decides on changes nothing else.
LEMMA ArmAlone ==
    ASSUME IInv, ~Unread, NEW t \in Tasks, NEW reason \in Reasons, Arm(t, reason),
           task[t].pc \in {"idle", "arming"}, UNCHANGED <<flash, run, usb, fw>>,
           reason \notin Binding \cup {"none", "boot_health_rollback", "abort_preparing"}
    PROVE  IInv'
BY ArmKeeps DEF IInv, Typed, Binding

LEMMA KeepsMainArms ==
    ASSUME IInv,
           \/ ArmAutomaticRestart \/ UsbHealthRestart \/ HealthRollback
           \/ TerminalFailure \/ Inactivity
    PROVE  IInv'
<1>1. /\ UNCHANGED <<flash, run, usb, fw>> /\ task["main"].pc \in {"idle", "arming"}
      /\ ~Unread
  <2>1. task["main"].pc = "arming" => ~Unread
    BY DEF IInv, BootShape, IdleTask, ReasonShape, Tasks
  <2> QED BY <2>1 DEF ArmAutomaticRestart, UsbHealthRestart, HealthRollback, TerminalFailure,
        Inactivity, MainAt, Idle, At, Unread
<1>2. \E reason \in Lifecycle \cup {"watchdog", "usb_safe_once"} : Arm("main", reason)
  BY DEF ArmAutomaticRestart, UsbHealthRestart, HealthRollback, TerminalFailure,
     Inactivity, Lifecycle
<1> QED BY <1>1, <1>2, ArmAlone DEF Tasks, Reasons, Lifecycle, Binding

LEMMA KeepsButtonRestart ==
    ASSUME IInv, ButtonRestart
    PROVE  IInv'
<1>1. ~Unread /\ task["button"].pc = "idle" /\ UNCHANGED <<flash, run, usb, fw>>
  BY DEF ButtonRestart, Unread, Idle, At
<1>2. \E reason \in {"usb_reboot", "usb_bootloader"} : Arm("button", reason)
  BY DEF ButtonRestart
<1> QED BY <1>1, <1>2, ArmAlone DEF Tasks, Reasons, Binding

LEMMA KeepsUsbCommandArms ==
    ASSUME IInv, FinishUpdate \/ AbortActive \/ UsbRollback \/ UsbReboot
    PROVE  IInv'
<1>1. /\ ~Unread /\ task["usb"].pc = "idle" /\ UNCHANGED <<flash, usb, fw>>
  BY DEF FinishUpdate, AbortActive, UsbRollback, UsbReboot, Listening, Dispatching, Looping,
     Unread, Idle, At
<1>2. run' \in Run /\ run'.active = run.active
  BY DEF FinishUpdate, AbortActive, UsbRollback, UsbReboot, IInv, Typed, Run
<1>3. \E reason \in {"update_finish", "update_abort", "usb_rollback", "usb_reboot",
                     "usb_bootloader"} : Arm("usb", reason)
  BY DEF FinishUpdate, AbortActive, UsbRollback, UsbReboot
<1>4. PICK reason \in {"update_finish", "update_abort", "usb_rollback", "usb_reboot",
                       "usb_bootloader"} : Arm("usb", reason)
  BY <1>3
<1>5. reason \in Reasons /\ "usb" \in Tasks
      /\ reason \notin Binding \cup {"none", "boot_health_rollback", "abort_preparing"}
  BY DEF Reasons, Lifecycle, Tasks, Binding
<1>6. flash' \in Flash /\ usb' \in Usb /\ fw' \in Fw
  BY <1>1 DEF IInv, Typed
<1> QED BY <1>1, <1>2, <1>4, <1>5, <1>6, ArmKeeps DEF Binding

LEMMA KeepsRespond ==
    ASSUME IInv, Respond
    PROVE  IInv'
<1>1. ~Unread /\ ~Unread' /\ task["usb"].pc = "idle" /\ UNCHANGED <<flash, run, fw>>
  <2>1. ~Unread
    BY Reading DEF Respond
  <2>2. boot'.stage = boot.stage
    <3>1. boot \in Boot /\ (boot' = boot \/ boot' = BootRead)
      BY DEF Respond, Arm, IInv, Typed
    <3> QED BY <3>1 DEF BootRead, Boot
  <2> QED BY <2>1, <2>2 DEF Respond, Idle, At, Unread
<1>2. /\ usb' \in Usb /\ usb'.upload = usb.upload
      /\ usb'.abort = usb.abort /\ usb'.retry = usb.retry
  BY DEF Respond, IInv, Typed, Usb
<1>3. CASE usb.retry /\ Arm("usb", "update_maintenance")
  <2>1. "update_maintenance" \in Reasons /\ "usb" \in Tasks /\ run' \in Run /\ fw' \in Fw
    BY <1>1 DEF Reasons, Tasks, IInv, Typed
  <2> QED BY <1>1, <1>2, <1>3, <2>1, ArmKeeps
<1>4. CASE UNCHANGED <<rtc, boot, arm, task>>
  <2>1. Typed'
    BY <1>1, <1>2, <1>4 DEF IInv, Typed
  <2>2. UploadShape' /\ AbortShape'
    BY <1>1, <1>2, <1>4 DEF IInv, UploadShape, AbortShape
  <2> QED BY <1>1, <1>2, <1>4, <2>1, <2>2, QuietKeeps DEF MarkerStep
<1> QED BY <1>3, <1>4 DEF Respond

LEMMA KeepsPollRestarts ==
    ASSUME IInv, PollRestarts
    PROVE  IInv'
<1>1. ~Unread /\ task["usb"].pc = "idle" /\ UNCHANGED <<flash, run, usb>>
  BY Reading DEF PollRestarts, Looping, Idle, At
<1>2. fw' \in Fw
  BY DEF PollRestarts, IInv, Typed, Fw, Preempted
<1>3. /\ rtc.marker.phase = "preparing"
      /\ \/ usb.abort = NoSession /\ Arm("usb", "update_maintenance")
         \/ usb.abort # NoSession /\ Arm("usb", "abort_preparing")
  BY DEF PollRestarts, Preparing
<1>4. /\ {"update_maintenance", "abort_preparing"} \subseteq Reasons
      /\ "usb" \in Tasks /\ run' \in Run /\ usb' \in Usb
  BY <1>1 DEF Reasons, Tasks, IInv, Typed
<1> QED BY <1>1, <1>2, <1>3, <1>4, ArmKeeps

LEMMA KeepsUploadArms ==
    ASSUME IInv, CommittedRestart \/ Recover
    PROVE  IInv'
<1>1. /\ usb.upload \in {"committed", "recovery"} /\ task["usb"].pc = "idle"
      /\ UNCHANGED <<flash, run, fw>>
  BY DEF CommittedRestart, Recover, Looping, Idle, At
<1>2. ~Unread
  BY <1>1, UploadReading
<1>3. run' \in Run /\ fw' \in Fw /\ "usb" \in Tasks
  BY <1>1 DEF IInv, Typed, Tasks
<1>4. CASE CommittedRestart
  <2>1. /\ usb' = usb /\ usb' \in Usb /\ usb.upload = "committed"
        /\ "usb_uplink_ota" \in Reasons
    BY <1>4 DEF CommittedRestart, IInv, Typed, Reasons
  <2> QED BY <1>1, <1>2, <1>3, <1>4, <2>1, ArmKeeps DEF CommittedRestart
<1>5. CASE Recover
  <2>1. /\ usb' \in Usb /\ usb.upload = "recovery" /\ usb'.upload = "none"
        /\ usb'.abort = usb.abort /\ usb'.retry = usb.retry
    BY <1>5 DEF Recover, IInv, Typed, Usb
  <2>2. CASE Arm("usb", "usb_safe_once")
    <3>1. "usb_safe_once" \in Reasons \ Binding
      BY DEF Reasons, Binding
    <3> QED BY <1>1, <1>2, <1>3, <2>1, <2>2, <3>1, ArmKeeps DEF Binding
  <2>3. CASE UNCHANGED <<rtc, boot, arm, task>>
    <3>1. Typed' /\ ~Unread'
      BY <1>1, <1>2, <2>1, <2>3 DEF IInv, Typed, Unread
    <3>2. UploadShape' /\ AbortShape'
      BY <1>1, <2>1, <2>3, <3>1, <1>2 DEF IInv, UploadShape, AbortShape
    <3> QED BY <1>1, <1>2, <2>1, <2>3, <3>1, <3>2, QuietKeeps DEF MarkerStep
  <2> QED BY <1>5, <2>2, <2>3 DEF Recover
<1> QED BY <1>4, <1>5

-----------------------------------------------------------------------------
(* Resets.                                                                 *)
LEMMA ResetKeeps ==
    ASSUME IInv, NEW reset \in {"sw", "crash", "clean"}, NEW cause \in Reasons,
           NEW kept \in Rtc, NEW away, away \in BOOLEAN, Reset(reset, cause, kept, away),
           kept.marker.phase = "armed" => kept.marker = rtc.marker,
           reset = "sw" /\ kept.marker.phase = "armed" /\ kept.magic
             /\ kept.generation = kept.marker.generation =>
               /\ cause \in Binding /\ boot.aborted # "yes"
               /\ kept.marker.committed \in {"none", flash'.running},
           kept.marker.phase = "preparing" => kept.marker.committed = "none"
    PROVE  IInv'
<1>1. flash \in Flash /\ boot \in Boot /\ usb \in Usb
  BY DEF IInv, Typed
<1>2. flash' \in Flash
  <2> DEFINE next == IF away \/ flash.pending THEN Other(flash.running) ELSE flash.selected
  <2>1. next \in Slots
    BY <1>1, OtherSlot DEF Flash
  <2>2. flash' = [running |-> next, selected |-> next,
                  pending |-> ~away /\ ~flash.pending /\ next # flash.running]
    BY DEF Reset
  <2> HIDE DEF next
  <2> QED BY <2>1, <2>2 DEF Flash
<1>3. /\ rtc' = kept /\ run' = InitRun /\ arm' = IdleArm /\ fw' = FreeFw
      /\ task' = [t \in Tasks |-> IdleTask]
      /\ usb' = [IdleUsb EXCEPT !.gone = usb.gone]
      /\ boot' = [reset |-> reset, stage |-> "start", cached |-> FALSE, expected |-> FALSE,
                  consumed |-> 0, cause |-> cause, aborted |-> boot.aborted,
                  streak |-> boot.streak]
  BY DEF Reset, BootAt
<1>4. 0 \in 0..GenLast
  BY GenAssumption DEF GenAssumption
<1>5. boot' \in Boot
  BY <1>1, <1>3, <1>4 DEF Boot
<1>6. run' \in Run /\ arm' \in ArmState /\ fw' \in Fw
  BY <1>3, <1>4 DEF InitRun, Run, IdleArm, ArmState, FreeFw, Fw
<1>7. task' \in [Tasks -> Task] /\ \A t \in Tasks : task'[t] = IdleTask
  <2>1. IdleTask \in Task
    BY DEF IdleTask, Task, Reasons
  <2> QED BY <1>3, <2>1
<1>8. /\ usb' \in Usb /\ usb'.upload = "none"
      /\ usb' = [IdleUsb EXCEPT !.gone = usb'.gone]
  BY <1>1, <1>3 DEF IdleUsb, Usb
<1>9. Typed'
  BY <1>2, <1>3, <1>5, <1>6, <1>7, <1>8 DEF Typed
<1>10. Unread' /\ ~boot'.cached /\ arm'.phase = "idle" /\ arm'.owner = "none" /\ ~run'.active
  BY <1>3 DEF Unread, IdleArm, InitRun
<1>11. BootShape'
  BY <1>3, <1>7, <1>8, <1>10 DEF BootShape
<1>12. ArmShape' /\ ReasonShape'
  BY <1>7, <1>10 DEF ArmShape, ReasonShape, IdleTask, Binding, Tasks
<1>13. TokenShape' /\ AbortShape'
  BY <1>10 DEF TokenShape, AbortShape
<1>14. MarkerShape' /\ StreakCounted'
  BY <1>3, <1>10 DEF IInv, MarkerShape, StreakCounted
<1>15. UploadShape'
  BY <1>8, <1>10 DEF UploadShape
<1>16. AdmissionShape'
  BY <1>3 DEF AdmissionShape, Admissible
<1> QED BY <1>9, <1>11, <1>12, <1>13, <1>14, <1>15, <1>16 DEF IInv

LEMMA KeepsMishaps ==
    ASSUME IInv, Crash \/ PowerLoss
    PROVE  IInv'
<1>1. rtc \in Rtc /\ "none" \in Reasons
  BY DEF IInv, Typed, Reasons
<1>2. CASE Crash
  BY <1>1, <1>2, ResetKeeps DEF Crash, IInv, MarkerShape
<1>3. CASE PowerLoss
  <2>1. NoMarker \in Marker /\ 0 \in 0..GenLast
    BY GenAssumption DEF GenAssumption, Marker
  <2>2. BlankRtc \in Rtc /\ BlankRtc.marker.phase = "none"
    BY <2>1 DEF BlankRtc, Rtc, NoMarker
  <2> QED BY <1>1, <1>3, <2>2, ResetKeeps DEF PowerLoss
<1> QED BY <1>2, <1>3

LEMMA KeepsRollBack ==
    ASSUME IInv, NEW t \in Tasks, RollBack(t)
    PROVE  IInv'
<1>1. /\ task[t].pc = "rollback" /\ arm.owner = t /\ task[t].reason \in Reasons /\ rtc \in Rtc
      /\ arm.phase # "idle" /\ boot.cached
  BY DEF RollBack, At, IInv, Typed, Task, ArmShape, BootShape, Tasks
<1>2. ~(rtc.marker.phase = "armed" /\ rtc.magic /\ rtc.generation = rtc.marker.generation)
  <2>1. CASE Unread
    <3>1. task[t].reason = "boot_health_rollback"
      BY <1>1, <2>1 DEF IInv, BootShape, IdleTask
    <3> QED BY <1>1, <3>1 DEF IInv, ReasonShape, TokenShape, MarkerShape
  <2>2. CASE ~Unread
    BY <1>1, <2>2 DEF IInv, MarkerShape
  <2> QED BY <2>1, <2>2
<1>3. Reset("sw", task[t].reason, rtc, TRUE)
  BY DEF RollBack
<1>4. rtc.marker.phase = "preparing" => rtc.marker.committed = "none"
  BY DEF IInv, MarkerShape
<1> QED BY <1>1, <1>2, <1>3, <1>4, ResetKeeps

LEMMA KeepsRestart ==
    ASSUME IInv, NEW t \in Tasks, Restart(t)
    PROVE  IInv'
<1>1. /\ task[t].pc = "restart" /\ arm.owner = t /\ task[t].reason \in Reasons /\ rtc \in Rtc
      /\ arm.phase # "idle" /\ boot.cached /\ flash \in Flash
  BY DEF Restart, At, IInv, Typed, Task, ArmShape, BootShape, Tasks
<1> DEFINE kept == [rtc EXCEPT !.once = @ \/ task[t].reason \in SafeOnce]
           reset == IF task[t].reason = "usb_bootloader" THEN "clean" ELSE "sw"
<1>2. /\ kept \in Rtc /\ kept.marker = rtc.marker /\ kept.magic = rtc.magic
      /\ kept.generation = rtc.generation
  BY <1>1 DEF Rtc
<1>3. Reset(reset, task[t].reason, kept, FALSE) /\ reset \in {"sw", "crash", "clean"}
  BY DEF Restart
<1> HIDE DEF kept, reset
<1>4. flash'.running = IF flash.pending THEN Other(flash.running) ELSE flash.selected
  BY <1>3 DEF Reset
<1>5. ASSUME rtc.marker.phase = "armed", rtc.magic, rtc.generation = rtc.marker.generation
      PROVE  /\ task[t].reason \in Binding /\ boot.aborted # "yes"
             /\ rtc.marker.committed \in {"none", flash'.running}
  <2>1. ~Unread
    <3>1. Unread => task[t].reason = "boot_health_rollback"
      BY <1>1 DEF IInv, BootShape, IdleTask
    <3> QED BY <1>1, <1>5, <3>1 DEF IInv, ReasonShape, TokenShape, MarkerShape
  <2>2. t = "usb" /\ task[t].reason \in Binding
    BY <1>1, <1>5, <2>1 DEF IInv, MarkerShape
  <2>3. CASE task[t].reason = "update_maintenance"
    <3>1. ~run.active /\ rtc.marker.committed = "none"
      BY <1>1, <1>5, <2>1, <2>3 DEF IInv, ReasonShape, MarkerShape
    <3> QED BY <2>1, <2>2, <2>3, <3>1 DEF IInv, AbortShape
  <2>4. CASE task[t].reason = "usb_uplink_ota"
    <3>1. run.active /\ usb.upload = "committed"
      BY <1>1, <2>4 DEF IInv, ReasonShape
    <3>2. /\ ~flash.pending /\ flash.selected = Other(flash.running)
          /\ rtc.marker.committed = Other(flash.running)
      BY <3>1 DEF IInv, UploadShape
    <3> QED BY <1>4, <2>1, <2>2, <3>1, <3>2 DEF IInv, AbortShape
  <2> QED BY <2>2, <2>3, <2>4 DEF Binding
<1>6. rtc.marker.phase = "preparing" => rtc.marker.committed = "none"
  BY DEF IInv, MarkerShape
<1> QED BY <1>1, <1>2, <1>3, <1>5, <1>6, ResetKeeps

-----------------------------------------------------------------------------
(* The boot.                                                               *)
LEMMA MainIdleUnread ==
    ASSUME IInv, Unread, Idle("main")
    PROVE  /\ \A t \in Tasks : task[t] = IdleTask
           /\ arm.phase = "idle" /\ arm.owner = "none" /\ ~boot.cached
<1>1. \A t \in Tasks : task[t].pc = "idle"
  BY DEF IInv, BootShape, Idle, At, IdleTask
<1>2. \A t \in Tasks : task[t] = IdleTask
  BY <1>1 DEF IInv, Typed, Task, ReasonShape, IdleTask
<1> QED BY <1>1, <1>2 DEF IInv, Typed, ArmState, ArmShape, BootShape

LEMMA KeepsBootChecked ==
    ASSUME IInv, BootChecked
    PROVE  IInv'
<1>1. /\ Unread /\ Idle("main") /\ UNCHANGED <<rtc, flash, run, arm, task, usb, fw>>
      /\ boot' \in Boot /\ boot' = [boot EXCEPT !.stage = "init"]
  BY DEF BootChecked, MainAt, Unread, IInv, Typed, Boot
<1>2. /\ \A t \in Tasks : task[t] = IdleTask
      /\ arm.phase = "idle" /\ ~boot.cached
  BY <1>1, MainIdleUnread
<1>3. /\ boot'.stage = "init" /\ boot'.cached = boot.cached /\ boot'.reset = boot.reset
      /\ boot'.cause = boot.cause /\ boot'.aborted = boot.aborted
      /\ boot'.streak = boot.streak /\ Unread'
  BY <1>1 DEF IInv, Typed, Boot, Unread
<1>4. Typed' /\ BootShape'
  BY <1>1, <1>2, <1>3 DEF IInv, Typed, BootShape, Unread
<1>5. ArmShape' /\ ReasonShape' /\ TokenShape'
  BY <1>1, <1>3 DEF IInv, ArmShape, ReasonShape, TokenShape
<1>6. MarkerShape' /\ StreakCounted' /\ UploadShape'
  BY <1>1, <1>3 DEF IInv, MarkerShape, StreakCounted, UploadShape
<1>7. AdmissionShape' /\ AbortShape'
  BY <1>1, <1>3 DEF IInv, AdmissionShape, Admissible, AbortShape
<1> QED BY <1>4, <1>5, <1>6, <1>7 DEF IInv

LEMMA KeepsBootRollback ==
    ASSUME IInv, BootRollback
    PROVE  IInv'
<1>1. /\ Unread /\ Idle("main") /\ boot.stage = "start" /\ UNCHANGED <<flash, run, usb, fw>>
      /\ Arm("main", "boot_health_rollback")
  BY DEF BootRollback, MainAt, Unread
<1>2. /\ \A t \in Tasks : task[t] = IdleTask
      /\ arm.phase = "idle" /\ arm.owner = "none" /\ ~boot.cached
  BY <1>1, MainIdleUnread
<1>3. "main" \in Tasks /\ "boot_health_rollback" \in Reasons
      /\ RollsBack("boot_health_rollback")
  BY DEF Tasks, Reasons, RollsBack
<1>4. /\ boot' \in Boot /\ rtc' \in Rtc /\ arm' \in ArmState /\ task' \in [Tasks -> Task]
      /\ arm'.phase = "preparing" /\ arm'.owner = "main" /\ arm'.generation = Legacy
      /\ task'["main"].pc = "publish" /\ task'["main"].reason = "boot_health_rollback"
      /\ \A u \in Tasks : u # "main" => task'[u] = task[u]
      /\ ~rtc'.magic /\ boot'.cached /\ boot'.stage = boot.stage
  BY <1>1, <1>3, ArmTypes
<1>5. /\ boot'.streak = boot.streak /\ boot'.aborted = boot.aborted
  BY <1>1 DEF Arm, BootRead, IInv, Typed, Boot
<1>6. rtc'.marker = rtc.marker \/ rtc'.marker = NoMarker
  BY <1>1, <1>2 DEF Arm, RtcRead, Spent, IInv, Typed, Rtc
<1>7. Typed' /\ Unread'
  BY <1>1, <1>4 DEF IInv, Typed, Unread
<1>8. BootShape'
  BY <1>1, <1>2, <1>4, <1>7 DEF IInv, BootShape
<1>9. ArmShape' /\ ReasonShape'
  BY <1>2, <1>3, <1>4 DEF ArmShape, ReasonShape, IdleTask, Binding
<1>10. TokenShape' /\ AdmissionShape' /\ AbortShape'
  BY <1>4, <1>7 DEF TokenShape, AdmissionShape, Admissible, AbortShape
<1>11. MarkerShape' /\ StreakCounted' /\ UploadShape'
  <2>1. ~run.active /\ usb.upload = "none"
    BY <1>1 DEF IInv, BootShape, InitRun, IdleUsb
  <2> QED BY <1>1, <1>5, <1>6, <1>7, <2>1
        DEF IInv, MarkerShape, StreakCounted, UploadShape, NoMarker
<1> QED BY <1>7, <1>8, <1>9, <1>10, <1>11 DEF IInv

\* badge_runtime_init admits the boot only of an armed marker whose
\* generation is its token's.
LEMMA EntersAdmissible ==
    ASSUME IInv, Unread, Idle("main"), NEW safe, Enters(BootRead, safe)
    PROVE  /\ Admissible /\ rtc.marker.boots < MaxBoots /\ RtcRead.marker = rtc.marker
<1>1. ~boot.cached
  BY MainIdleUnread
<1>2. /\ RtcRead = Spent /\ BootRead.expected = Expected /\ BootRead.consumed = Consumed
  BY <1>1 DEF RtcRead, BootRead, IInv, Typed, Boot
<1>3. Expected /\ Spent.marker.phase = "armed" /\ Spent.marker.generation = Consumed
      /\ Spent.marker.boots < MaxBoots
  BY <1>2 DEF Enters
<1>4. Spent.marker = IF Expected /\ ~rtc.magic THEN NoMarker ELSE rtc.marker
  BY DEF Spent, IInv, Typed, Rtc
<1>5. rtc.magic /\ Spent.marker = rtc.marker
  BY <1>3, <1>4 DEF NoMarker, IInv, Typed, Rtc
<1>6. Consumed = rtc.generation
  BY <1>3, <1>5 DEF Consumed
<1> QED BY <1>1, <1>2, <1>3, <1>5, <1>6 DEF Admissible, Expected

LEMMA KeepsRuntimeInit ==
    ASSUME IInv, RuntimeInit
    PROVE  IInv'
<1>1. Unread /\ Idle("main") /\ UNCHANGED <<flash, arm, task, usb, fw>>
  BY DEF RuntimeInit, MainAt, Unread
<1>2. /\ \A t \in Tasks : task[t] = IdleTask
      /\ arm.phase = "idle" /\ arm.owner = "none" /\ ~boot.cached
  BY <1>1, MainIdleUnread
<1>3. /\ usb = [IdleUsb EXCEPT !.gone = usb.gone] /\ usb.upload = "none"
  BY <1>1 DEF IInv, BootShape, IdleUsb
<1>4. PICK crashed \in BOOLEAN :
        LET once == rtc.once /\ BootRead.expected
            enters == Enters(BootRead, once \/ crashed)
        IN  /\ rtc' = [RtcRead EXCEPT
                         !.once = FALSE,
                         !.marker = IF enters THEN Activated(@) ELSE NoMarker]
            /\ run' = [InitRun EXCEPT !.safe = once \/ crashed, !.active = enters,
                                      !.hooked = TRUE]
            /\ boot' = [BootRead EXCEPT !.stage = IF once THEN "recovery" ELSE "startup",
                                    !.aborted = "no",
                                    !.streak = IF ~enters THEN 0
                                               ELSE IF @ > MaxBoots THEN @ ELSE @ + 1]
  BY DEF RuntimeInit
<1> DEFINE once == rtc.once /\ BootRead.expected
           enters == Enters(BootRead, once \/ crashed)
           marker == IF enters THEN Activated(RtcRead.marker) ELSE NoMarker
           streak == IF ~enters THEN 0
                     ELSE IF BootRead.streak > MaxBoots THEN BootRead.streak
                          ELSE BootRead.streak + 1
<1>5. rtc' = [RtcRead EXCEPT !.once = FALSE, !.marker = marker]
  BY <1>4
<1>6. run' = [InitRun EXCEPT !.safe = once \/ crashed, !.active = enters, !.hooked = TRUE]
  BY <1>4
<1>7. boot' = [BootRead EXCEPT !.stage = IF once THEN "recovery" ELSE "startup",
                               !.aborted = "no", !.streak = streak]
  BY <1>4
<1>8. /\ rtc.once \in BOOLEAN /\ rtc.magic \in BOOLEAN /\ rtc.marker \in Marker
      /\ rtc.generation \in 0..GenLast
      /\ boot \in Boot /\ MaxBoots \in Nat /\ boot.streak \in 0..MaxBoots
  BY BootsAssumption DEF BootsAssumption, IInv, Typed, Rtc, Boot, StreakCounted
<1>9. /\ BootRead \in Boot /\ BootRead.cached /\ BootRead.streak = boot.streak
      /\ BootRead.expected \in BOOLEAN
  <2>1. Consumed \in 0..GenLast /\ Expected \in BOOLEAN
    BY <1>8, GenAssumption DEF GenAssumption, Consumed, Expected
  <2> QED BY <1>2, <1>8, <2>1 DEF BootRead, Boot
<1>10. RtcRead \in Rtc /\ RtcRead.magic = FALSE
  <2> DEFINE g == IF Expected /\ rtc.magic /\ rtc.generation # Legacy THEN rtc.generation ELSE 0
             m == IF Expected /\ ~rtc.magic THEN NoMarker ELSE rtc.marker
  <2>1. g \in 0..GenLast /\ m \in Marker
    BY <1>8, GenAssumption DEF GenAssumption, Marker
  <2>2. RtcRead = [rtc EXCEPT !.magic = FALSE, !.generation = g, !.marker = m]
    BY <1>2 DEF RtcRead, Spent
  <2> HIDE DEF g, m
  <2> QED BY <2>1, <2>2 DEF IInv, Typed, Rtc
<1>11. /\ enters \in BOOLEAN /\ once \in BOOLEAN
  BY <1>8, <1>9 DEF Enters
<1>12. ASSUME enters
       PROVE  /\ marker \in Marker /\ marker.phase = "active"
              /\ marker.boots = rtc.marker.boots + 1 /\ streak = boot.streak + 1
              /\ boot.streak <= rtc.marker.boots /\ rtc.marker.boots < MaxBoots
              /\ marker.committed \in {"none", flash.running}
  <2>1. Admissible /\ rtc.marker.boots < MaxBoots /\ RtcRead.marker = rtc.marker
    BY <1>1, <1>12, EntersAdmissible
  <2>2. rtc.marker \in [phase : {"preparing", "armed", "active"}, session : Sessions,
          generation : 0..GenLast, boots : 0..MaxBoots, committed : Slots \cup {"none"}]
    BY <1>8, <2>1 DEF Admissible, Marker, NoMarker
  <2>3. rtc.marker.boots + 1 \in 0..MaxBoots
    BY <1>8, <2>1, <2>2
  <2>4. marker = [rtc.marker EXCEPT !.phase = "active", !.boots = rtc.marker.boots + 1]
    BY <1>12, <2>1 DEF Activated
  <2>5. /\ marker \in Marker /\ marker.phase = "active"
        /\ marker.boots = rtc.marker.boots + 1 /\ marker.committed = rtc.marker.committed
    BY <2>2, <2>3, <2>4 DEF Marker
  <2>6. boot.streak <= rtc.marker.boots
    BY <2>1 DEF IInv, StreakCounted, Admissible
  <2>7. streak = boot.streak + 1
    BY <1>8, <1>9, <1>12
  <2>8. rtc.marker.committed \in {"none", flash.running}
    BY <2>1 DEF IInv, AdmissionShape
  <2> QED BY <2>1, <2>5, <2>6, <2>7, <2>8
<1>13. ASSUME ~enters
       PROVE  marker = NoMarker /\ marker \in Marker /\ streak = 0
  BY <1>13 DEF Marker
<1>14. streak \in 0..MaxBoots /\ marker \in Marker
  <2>1. rtc.marker.boots \in 0..MaxBoots
    BY <1>8, MarkerFields
  <2> QED BY <1>8, <1>12, <1>13, <2>1
<1> HIDE DEF once, enters, marker, streak
<1>15. /\ rtc' \in Rtc /\ rtc'.marker = marker /\ ~rtc'.magic
  BY <1>5, <1>10, <1>14 DEF Rtc
<1>16. /\ boot' \in Boot /\ boot'.stage \in {"startup", "recovery"} /\ boot'.cached
       /\ boot'.aborted = "no" /\ boot'.streak = streak
  <2>1. streak \in 0..MaxBoots + 1
    BY <1>8, <1>14
  <2>2. (IF once THEN "recovery" ELSE "startup") \in {"startup", "recovery"}
    OBVIOUS
  <2> QED BY <1>7, <1>9, <2>1, <2>2 DEF Boot
<1>17. run' \in Run /\ run'.active = enters
  BY <1>6, <1>11 DEF InitRun, Run
<1>18. Typed' /\ ~Unread'
  BY <1>1, <1>15, <1>16, <1>17 DEF IInv, Typed, Unread
<1>19. BootShape' /\ ArmShape' /\ ReasonShape'
  BY <1>1, <1>2, <1>16, <1>18
  DEF IInv, BootShape, ArmShape, ReasonShape, IdleTask, Binding
<1>20. TokenShape' /\ AdmissionShape' /\ AbortShape'
  BY <1>15, <1>16, <1>18 DEF TokenShape, AdmissionShape, Admissible, AbortShape
<1>21. MarkerShape'
  BY <1>12, <1>13, <1>15, <1>17, <1>18 DEF MarkerShape, NoMarker
<1>22. StreakCounted'
  <2>1. rtc.marker.boots \in 0..MaxBoots
    BY <1>8, MarkerFields
  <2> QED BY <1>8, <1>12, <1>13, <1>14, <1>15, <1>16, <2>1 DEF StreakCounted, NoMarker
<1>23. UploadShape'
  BY <1>1, <1>3, <1>12, <1>15, <1>17 DEF UploadShape
<1> QED BY <1>18, <1>19, <1>20, <1>21, <1>22, <1>23 DEF IInv

LEMMA KeepsAutomaticRestart ==
    ASSUME IInv, AutomaticRestart
    PROVE  IInv'
<1>1. /\ ~Unread /\ ~Unread' /\ task["main"].pc = "idle"
      /\ UNCHANGED <<rtc, flash, boot, run, arm, usb, fw>>
  BY DEF AutomaticRestart, MainAt, Unread, Idle, At
<1>2. "main" \in Tasks /\ [pc |-> "arming", reason |-> "watchdog"] \in Task
  BY DEF Tasks, Task, Reasons
<1>3. /\ task' \in [Tasks -> Task]
      /\ task'["main"] = [pc |-> "arming", reason |-> "watchdog"]
      /\ \A u \in Tasks : u # "main" => task'[u] = task[u]
  BY <1>2, TaskMoves DEF AutomaticRestart, IInv, Typed
<1>4. Typed' /\ BootShape'
  BY <1>1, <1>3 DEF IInv, Typed, BootShape
<1>5. arm.owner # "main"
  BY <1>1, <1>2 DEF IInv, ArmShape
<1>6. ArmShape'
  BY <1>1, <1>3, <1>5 DEF IInv, ArmShape
<1>7. ReasonShape'
  BY <1>1, <1>3 DEF IInv, ReasonShape, Binding
<1>8. TokenShape'
  BY <1>1, <1>3, <1>5 DEF IInv, TokenShape, Typed, ArmState, ArmShape
<1>9. MarkerShape' /\ UploadShape' /\ AdmissionShape' /\ AbortShape'
  BY <1>1, <1>3 DEF IInv, MarkerShape, UploadShape, AdmissionShape, Admissible, AbortShape, Tasks
<1>10. Leaving => Leaving'
  BY <1>1, <1>3 DEF Leaving
<1>11. StreakCounted'
  BY <1>1, <1>10 DEF IInv, StreakCounted
<1> QED BY <1>4, <1>6, <1>7, <1>8, <1>9, <1>11 DEF IInv

-----------------------------------------------------------------------------
(* The steps of a restart.                                                 *)

\* A step of the owner that leaves the token alone, or takes it back.
LEMMA OwnerKeeps ==
    ASSUME IInv, NEW t \in Tasks, NEW pc,
           pc \in {"clear", "rollback", "restart", "release", "released"},
           task[t].pc \in {"reserve", "clear", "rollback", "release"},
           GoTo(t, pc), UNCHANGED <<flash, boot, arm, usb>>,
           rtc' \in Rtc, run' \in Run, fw' \in Fw,
           Unread => UNCHANGED <<rtc, run, fw>> /\ pc \in {"rollback", "restart"},
           rtc'.generation = rtc.generation \/ ~rtc'.magic, rtc'.magic => rtc.magic,
           pc = "released" => ~rtc'.magic,
           \/ /\ rtc'.marker = rtc.marker
              /\ run'.active = run.active
           \/ /\ rtc'.marker.phase = "none" /\ ~run'.active
              /\ task[t].reason \in Lifecycle => pc \in {"rollback", "restart"}
              /\ task[t].reason \in Lifecycle \cup {"abort_preparing"},
           task[t].pc = "rollback" => pc = "restart" \/ task[t].reason = "usb_rollback",
           pc = "clear" => task[t].reason \in Lifecycle,
           task[t].reason = "boot_health_rollback" => pc \in {"rollback", "restart"}
    PROVE  IInv'
<1>1. /\ task' \in [Tasks -> Task]
      /\ task'[t].pc = pc /\ task'[t].reason = task[t].reason
      /\ \A u \in Tasks : u # t => task'[u] = task[u]
  BY TaskGoes DEF IInv, Typed
<1>2. /\ arm.owner = t /\ arm.phase = "owned"
      /\ task[t].reason \notin Binding
      /\ \A u \in Tasks : u # t => task[u].pc \in {"idle", "arming"}
  BY DEF IInv, Typed, ArmState, ArmShape, ReasonShape, Binding, Tasks
<1>3. Typed' /\ (Unread' <=> Unread)
  BY <1>1 DEF IInv, Typed, Unread
<1>4. BootShape'
  <2>1. Unread => task[t].reason = "boot_health_rollback"
    BY DEF IInv, BootShape, IdleTask
  <2> QED BY <1>1, <1>3, <2>1 DEF IInv, BootShape, IdleTask
<1>5. ArmShape'
  BY <1>1, <1>2 DEF IInv, ArmShape
<1>6. ReasonShape'
  BY <1>1, <1>2 DEF IInv, ReasonShape, Binding
<1>7. TokenShape'
  BY <1>1, <1>2 DEF IInv, TokenShape
<1>8. ~Unread => rtc.marker.phase # "armed"
  BY <1>2 DEF IInv, MarkerShape
<1>9. MarkerShape'
  BY <1>3, <1>8 DEF IInv, MarkerShape
<1>10. StreakCounted'
  <2>1. task[t].reason = "abort_preparing" => boot.streak = 0
    BY DEF IInv, ReasonShape
  <2>2. task[t].reason \in Lifecycle /\ pc \in {"rollback", "restart"} => Leaving'
    BY <1>1 DEF Leaving
  <2>3. Leaving => Leaving'
    <3>1. ASSUME Leaving PROVE task[t].reason \in Lifecycle /\ task[t].pc = "rollback"
      BY <1>2, <3>1 DEF Leaving
    <3> QED BY <2>2, <3>1 DEF Lifecycle
  <2> QED BY <1>3, <1>8, <2>1, <2>2, <2>3 DEF IInv, StreakCounted
<1>11. UploadShape'
  BY DEF IInv, MarkerShape, UploadShape
<1>12. AdmissionShape'
  BY <1>3 DEF IInv, AdmissionShape, Admissible
<1>13. AbortShape'
  BY <1>1, <1>2, <1>3 DEF IInv, AbortShape, Binding, Tasks
<1> QED BY <1>3, <1>4, <1>5, <1>6, <1>7, <1>9, <1>10, <1>11, <1>12, <1>13 DEF IInv

LEMMA KeepsPublish ==
    ASSUME IInv, NEW t \in Tasks, Publish(t)
    PROVE  IInv'
<1> DEFINE reason == task[t].reason
           pc == AfterPublish(t, reason)
<1>1. /\ task[t].pc = "publish" /\ CanBind(reason) /\ rtc' = Published(reason)
      /\ arm' = [arm EXCEPT !.phase = "owned"] /\ GoTo(t, pc)
      /\ UNCHANGED <<flash, boot, run, usb, fw>>
  BY DEF Publish, At
<1>2. /\ arm.owner = t /\ arm.phase = "preparing" /\ boot.cached
      /\ \A u \in Tasks : u # t => task[u].pc \in {"idle", "arming"}
  BY <1>1 DEF IInv, ArmShape, BootShape
<1>3. /\ arm' \in ArmState /\ arm'.phase = "owned" /\ arm'.owner = t
      /\ arm'.generation = arm.generation /\ arm.generation \in 0..GenLast
  BY <1>1, <1>2 DEF IInv, Typed, ArmState
<1>4. /\ pc \in {"reserve", "rollback", "clear", "restart"}
      /\ reason \in Binding => pc = "restart"
      /\ reason = "boot_health_rollback" => pc = "rollback"
      /\ pc = "clear" => reason = "abort_preparing"
  BY DEF AfterPublish, Prepared, RollsBack, Binding, Lifecycle
<1>5. /\ task' \in [Tasks -> Task] /\ task'[t].pc = pc /\ task'[t].reason = reason
      /\ \A u \in Tasks : u # t => task'[u] = task[u]
  BY <1>1, <1>4, TaskGoes DEF IInv, Typed
<1>6. Unread => reason = "boot_health_rollback"
  BY <1>1 DEF IInv, BootShape, IdleTask
<1>7. /\ ~Unread => rtc.marker.phase # "armed"
      /\ ~Leaving
  BY <1>1, <1>2 DEF IInv, MarkerShape, Leaving
<1>8. /\ reason \in Binding => reason \in {"update_maintenance", "usb_uplink_ota"} /\ t = "usb"
      /\ reason = "update_maintenance" => rtc.marker.phase = "preparing" /\ ~run.active
      /\ reason = "usb_uplink_ota" => rtc.marker.phase = "active" /\ run.active
  <2>1. rtc.marker.phase = "preparing" => ~run.active
    BY DEF IInv, MarkerShape
  <2>2. reason \in Binding => t = "usb"
    BY DEF IInv, ReasonShape
  <2> QED BY <1>1, <2>1, <2>2 DEF Binding, CanBind
<1> DEFINE m == IF reason \in Binding
                THEN [rtc.marker EXCEPT !.phase = "armed", !.generation = arm.generation]
                ELSE rtc.marker
<1>9. /\ m \in Marker
      /\ reason \in Binding =>
           /\ m.phase = "armed" /\ m.generation = arm.generation
           /\ m.committed = rtc.marker.committed /\ m.boots = rtc.marker.boots
      /\ reason \notin Binding => m = rtc.marker
  <2>1. rtc.marker \in Marker
    BY DEF IInv, Typed, Rtc
  <2>2. CASE reason \in Binding
    <3>1. rtc.marker \in [phase : {"preparing", "armed", "active"}, session : Sessions,
            generation : 0..GenLast, boots : 0..MaxBoots, committed : Slots \cup {"none"}]
      BY <1>8, <2>1, <2>2 DEF Marker, NoMarker
    <3>2. m = [rtc.marker EXCEPT !.phase = "armed", !.generation = arm.generation]
      BY <2>2
    <3> HIDE DEF m
    <3> QED BY <1>3, <2>2, <3>1, <3>2 DEF Marker
  <2>3. CASE reason \notin Binding
    BY <2>1, <2>3
  <2> QED BY <2>2, <2>3
<1>10. rtc' = [rtc EXCEPT !.magic = TRUE, !.generation = arm.generation, !.marker = m]
  BY <1>1 DEF Published
<1> HIDE DEF m, pc
<1>11. /\ rtc' \in Rtc /\ rtc'.marker = m /\ rtc'.magic /\ rtc'.generation = arm.generation
  BY <1>3, <1>9, <1>10 DEF IInv, Typed, Rtc
<1>12. Typed' /\ (Unread' <=> Unread)
  BY <1>1, <1>3, <1>5, <1>11 DEF IInv, Typed, Unread
<1>13. BootShape'
  BY <1>1, <1>2, <1>3, <1>5, <1>6, <1>12 DEF IInv, BootShape, IdleTask
<1>14. ArmShape'
  BY <1>1, <1>2, <1>3, <1>4, <1>5 DEF IInv, ArmShape
<1>15. ReasonShape'
  BY <1>1, <1>2, <1>3, <1>4, <1>5, <1>8 DEF IInv, ReasonShape, Binding
<1>16. TokenShape'
  BY <1>3, <1>4, <1>5, <1>11 DEF TokenShape
<1>17. MarkerShape'
  <2>1. reason \in Binding => arm.generation # Legacy
    BY DEF IInv, ReasonShape
  <2>2. CASE reason \in Binding
    <3>1. ~run.active => rtc.marker.committed = "none"
      BY <1>8, <2>2 DEF IInv, MarkerShape
    <3> QED BY <1>1, <1>3, <1>4, <1>5, <1>8, <1>9, <1>11, <2>1, <2>2, <3>1 DEF MarkerShape
  <2>3. CASE reason \notin Binding
    BY <1>1, <1>7, <1>9, <1>11, <1>12, <2>3 DEF IInv, MarkerShape
  <2> QED BY <2>2, <2>3
<1>18. StreakCounted'
  <2>1. rtc.marker.boots \in 0..MaxBoots
    BY MarkerFields DEF IInv, Typed, Rtc
  <2>2. reason \in Binding => ~Unread /\ boot.streak <= rtc.marker.boots
    BY <1>6, <1>7, <1>8, <2>1 DEF IInv, StreakCounted, Binding
  <2> QED BY <1>1, <1>7, <1>9, <1>11, <1>12, <2>2 DEF IInv, StreakCounted
<1>19. UploadShape'
  BY <1>1, <1>9, <1>11 DEF IInv, UploadShape
<1>20. AdmissionShape'
  BY <1>1, <1>2 DEF AdmissionShape, Admissible
<1>21. AbortShape'
  BY <1>1, <1>5, <1>12 DEF IInv, AbortShape, Tasks
<1> QED BY <1>12, <1>13, <1>14, <1>15, <1>16, <1>17, <1>18, <1>19, <1>20, <1>21 DEF IInv

\* The arm is given up: by a restart that could not be published, or after
\* its release.
LEMMA GivesUpKeeps ==
    ASSUME IInv, ~Unread, NEW t \in Tasks, NEW r \in Task,
           \/ r.pc = "idle" /\ r.reason = "none"
           \/ r.pc = "arming" /\ r.reason = "watchdog",
           task[t].pc \in {"publish", "released"}, task' = [task EXCEPT ![t] = r],
           arm' = IdleArm, UNCHANGED <<rtc, flash, boot, usb, fw>>,
           run' \in Run, run'.active = run.active
    PROVE  IInv'
<1>1. /\ task' \in [Tasks -> Task] /\ task'[t] = r
      /\ \A u \in Tasks : u # t => task'[u] = task[u]
  BY TaskMoves DEF IInv, Typed
<1>2. /\ arm.owner = t /\ boot.cached
      /\ \A u \in Tasks : u # t => task[u].pc \in {"idle", "arming"}
  BY DEF IInv, ArmShape, BootShape
<1>3. 0 \in 0..GenLast
  BY GenAssumption DEF GenAssumption
<1>4. arm' \in ArmState /\ arm'.phase = "idle" /\ arm'.owner = "none"
  BY <1>3 DEF IdleArm, ArmState
<1>5. Typed' /\ ~Unread'
  BY <1>1, <1>4 DEF IInv, Typed, Unread
<1>6. BootShape'
  BY <1>2, <1>5 DEF BootShape
<1>7. ArmShape'
  BY <1>1, <1>2, <1>4 DEF ArmShape, Tasks
<1>8. ReasonShape'
  BY <1>1, <1>2 DEF IInv, ReasonShape, Binding
<1>9. ~rtc.magic /\ rtc.marker.phase # "armed" /\ ~Leaving
  BY <1>2 DEF IInv, ArmShape, TokenShape, MarkerShape, Leaving
<1>10. TokenShape' /\ MarkerShape' /\ StreakCounted'
  BY <1>5, <1>9 DEF IInv, TokenShape, MarkerShape, StreakCounted
<1>11. UploadShape' /\ AdmissionShape'
  BY <1>5 DEF IInv, UploadShape, AdmissionShape, Admissible
<1>12. AbortShape'
  BY <1>1, <1>5 DEF IInv, AbortShape, Tasks
<1> QED BY <1>5, <1>6, <1>7, <1>8, <1>10, <1>11, <1>12 DEF IInv

LEMMA KeepsPublishFails ==
    ASSUME IInv, NEW t \in Tasks, PublishFails(t)
    PROVE  IInv'
<1>1. /\ task[t].pc = "publish" /\ task' = [task EXCEPT ![t] = IdleTask] /\ arm' = IdleArm
      /\ UNCHANGED <<rtc, flash, boot, usb, fw>>
  BY DEF PublishFails, At
<1>2. ~Unread
  <2>1. Unread => task[t].reason = "boot_health_rollback" /\ ~run.hooked
    BY <1>1 DEF IInv, BootShape, IdleTask, InitRun
  <2> QED BY <2>1 DEF PublishFails, CanBind
<1>3. run' \in Run /\ run'.active = run.active
  BY DEF PublishFails, IInv, Typed, Run
<1>4. IdleTask \in Task /\ IdleTask.pc = "idle" /\ IdleTask.reason = "none"
  BY DEF IdleTask, Task, Reasons
<1> QED BY <1>1, <1>2, <1>3, <1>4, GivesUpKeeps

LEMMA KeepsReleaseArm ==
    ASSUME IInv, NEW t \in Tasks, ReleaseArm(t)
    PROVE  IInv'
<1>1. /\ task[t].pc = "released" /\ arm' = IdleArm
      /\ UNCHANGED <<rtc, flash, boot, run, usb, fw>>
  BY DEF ReleaseArm, At
<1>2. ~Unread
  BY <1>1 DEF IInv, BootShape, ReasonShape, IdleTask
<1> DEFINE r == IF task[t].reason = "watchdog" THEN [task[t] EXCEPT !.pc = "arming"] ELSE IdleTask
<1>3. /\ task' = [task EXCEPT ![t] = r] /\ run' \in Run
  BY <1>1 DEF ReleaseArm, IInv, Typed
<1>4. /\ r \in Task
      /\ \/ r.pc = "idle" /\ r.reason = "none"
         \/ r.pc = "arming" /\ r.reason = "watchdog"
  BY DEF IInv, Typed, Task, IdleTask, Reasons
<1> HIDE DEF r
<1> QED BY <1>1, <1>2, <1>3, <1>4, GivesUpKeeps

\* The reasons of the tasks that wait for the firmware or release.
LEMMA OwnerReason ==
    ASSUME IInv, NEW t \in Tasks, task[t].pc \in {"reserve", "clear", "release"}
    PROVE  /\ ~Unread /\ task[t].reason # "boot_health_rollback"
           /\ task[t].pc = "clear" => task[t].reason \in Lifecycle \cup {"abort_preparing"}
BY DEF IInv, BootShape, ReasonShape, IdleTask

LEMMA KeepsReserve ==
    ASSUME IInv, NEW t \in Tasks, ReserveFirmware(t) \/ FirmwareBusy(t) \/ RollBackReturns(t)
    PROVE  IInv'
<1>1. /\ task[t].pc \in {"reserve", "rollback"} /\ UNCHANGED <<rtc, flash, boot, run, arm, usb>>
      /\ rtc' \in Rtc /\ run' \in Run
  BY DEF ReserveFirmware, FirmwareBusy, RollBackReturns, At, IInv, Typed
<1>2. fw' \in Fw
  BY DEF ReserveFirmware, FirmwareBusy, RollBackReturns, IInv, Typed, Fw
<1>3. CASE ReserveFirmware(t) \/ FirmwareBusy(t)
  <2>1. ~Unread /\ task[t].pc = "reserve" /\ task[t].reason # "boot_health_rollback"
    BY <1>3, OwnerReason DEF ReserveFirmware, FirmwareBusy, At
  <2>2. \E pc \in {"clear", "rollback", "restart", "release"} :
          /\ GoTo(t, pc) /\ (pc = "clear" => task[t].reason \in Lifecycle)
    BY <1>3 DEF ReserveFirmware, FirmwareBusy
  <2> QED BY <1>1, <1>2, <2>1, <2>2, OwnerKeeps
<1>4. CASE RollBackReturns(t)
  <2>1. /\ task[t].pc = "rollback" /\ fw' = fw
        /\ \/ GoTo(t, "release") /\ task[t].reason = "usb_rollback"
           \/ GoTo(t, "restart") /\ task[t].reason # "usb_rollback"
    BY <1>4 DEF RollBackReturns, At
  <2>2. Unread => task[t].reason = "boot_health_rollback"
    BY <2>1 DEF IInv, BootShape, IdleTask
  <2> QED BY <1>1, <1>2, <2>1, <2>2, OwnerKeeps
<1> QED BY <1>3, <1>4

LEMMA KeepsReleaseToken ==
    ASSUME IInv, NEW t \in Tasks, ReleaseToken(t)
    PROVE  IInv'
<1>1. /\ task[t].pc = "release" /\ UNCHANGED <<flash, boot, run, arm, usb, fw>>
      /\ GoTo(t, "released") /\ run' \in Run /\ fw' \in Fw
  BY DEF ReleaseToken, At, IInv, Typed
<1>2. ~Unread /\ task[t].reason # "boot_health_rollback"
  BY <1>1, OwnerReason
<1>3. rtc' \in Rtc /\ ~rtc'.magic /\ rtc'.marker = rtc.marker
  <2>1. 0 \in 0..GenLast
    BY GenAssumption DEF GenAssumption
  <2> DEFINE g == IF rtc.generation = Legacy THEN 0 ELSE rtc.generation
  <2>2. rtc' = [rtc EXCEPT !.magic = FALSE, !.generation = g] /\ g \in 0..GenLast
    BY <2>1 DEF ReleaseToken, IInv, Typed, Rtc
  <2> HIDE DEF g
  <2> QED BY <2>2 DEF IInv, Typed, Rtc
<1> QED BY <1>1, <1>2, <1>3, OwnerKeeps

LEMMA KeepsClearMarker ==
    ASSUME IInv, NEW t \in Tasks, ClearMarker(t)
    PROVE  IInv'
<1>1. /\ task[t].pc = "clear" /\ UNCHANGED <<flash, boot, arm, usb, fw>> /\ fw' \in Fw
      /\ GoTo(t, IF RollsBack(task[t].reason) THEN "rollback" ELSE "restart")
  BY DEF ClearMarker, At, IInv, Typed
<1>2. /\ ~Unread /\ task[t].reason # "boot_health_rollback"
      /\ task[t].reason \in Lifecycle \cup {"abort_preparing"}
  BY <1>1, OwnerReason
<1>3. /\ rtc' \in Rtc /\ rtc'.marker.phase = "none"
      /\ rtc'.magic = rtc.magic /\ rtc'.generation = rtc.generation
  <2>1. NoMarker \in Marker /\ NoMarker.phase = "none"
    BY DEF Marker, NoMarker
  <2> QED BY <2>1 DEF ClearMarker, IInv, Typed, Rtc
<1>4. run' \in Run /\ ~run'.active
  BY DEF ClearMarker, IInv, Typed, Run
<1>5. \E pc \in {"rollback", "restart"} : GoTo(t, pc)
  BY <1>1
<1> QED BY <1>1, <1>2, <1>3, <1>4, <1>5, OwnerKeeps

-----------------------------------------------------------------------------
(* The invariant, and what it says of every behaviour.                     *)
LEMMA InitialMaintenance == Init => IInv
<1> SUFFICES ASSUME Init PROVE IInv
  OBVIOUS
<1>1. 0 \in 0..GenLast /\ 0 \in 0..MaxBoots + 1 /\ 0 <= MaxBoots
  BY GenAssumption, BootsAssumption DEF GenAssumption, BootsAssumption
<1>2. rtc \in Rtc /\ rtc.marker.phase = "none" /\ ~rtc.magic
  BY <1>1 DEF Init, BlankRtc, Rtc, Marker, NoMarker
<1>3. /\ boot \in Boot /\ Unread /\ boot.stage = "start" /\ ~boot.cached /\ boot.streak = 0
      /\ boot.aborted = "no"
  BY <1>1 DEF Init, BootAt, Boot, Reasons, Unread
<1>4. /\ run = InitRun /\ run \in Run /\ arm \in ArmState /\ fw = FreeFw /\ fw \in Fw
      /\ arm.phase = "idle" /\ arm.owner = "none" /\ ~run.active
  BY <1>1 DEF Init, InitRun, Run, IdleArm, ArmState, FreeFw, Fw
<1>5. task \in [Tasks -> Task] /\ \A t \in Tasks : task[t] = IdleTask
  <2>1. IdleTask \in Task
    BY DEF IdleTask, Task, Reasons
  <2> QED BY <2>1 DEF Init
<1>6. /\ usb \in Usb /\ usb = [IdleUsb EXCEPT !.gone = usb.gone] /\ usb.upload = "none"
      /\ flash \in Flash
  BY DEF Init, IdleUsb, Usb, Flash, Slots
<1>7. Typed
  BY <1>2, <1>3, <1>4, <1>5, <1>6 DEF Typed
<1>8. BootShape /\ ArmShape /\ ReasonShape
  BY <1>3, <1>4, <1>5, <1>6 DEF BootShape, ArmShape, ReasonShape, IdleTask, Binding, Tasks
<1>9. TokenShape /\ MarkerShape /\ StreakCounted /\ UploadShape /\ AdmissionShape /\ AbortShape
  BY <1>1, <1>2, <1>3, <1>4, <1>6
  DEF TokenShape, MarkerShape, StreakCounted, UploadShape, AdmissionShape, Admissible, AbortShape
<1> QED BY <1>7, <1>8, <1>9 DEF IInv

LEMMA NextMaintenance ==
    ASSUME IInv, [Next]_vars
    PROVE  IInv'
<1>1. ASSUME NEW t \in Tasks, RestartStep(t) PROVE IInv'
  BY <1>1, KeepsPublish, KeepsPublishFails, KeepsReserve, KeepsClearMarker, KeepsRollBack,
     KeepsRestart, KeepsReleaseToken, KeepsReleaseArm DEF RestartStep
<1>2. CASE MainStep
  BY <1>2, KeepsBootChecked, KeepsBootRollback, KeepsRuntimeInit, KeepsBootGoesOn,
     KeepsAutomaticRestart, KeepsMainArms DEF MainStep
<1>3. CASE Command
  BY <1>3, KeepsPrepare, KeepsAbortPreparing, KeepsUnseen, KeepsUsbCommandArms,
     KeepsUploadBegins DEF Command
<1>4. CASE Respond \/ Poll
  BY <1>4, KeepsRespond, KeepsOperation, KeepsPollRestarts DEF Poll
<1>5. CASE Upload
  BY <1>5, KeepsCommitSummary, KeepsUploadAborts, KeepsImageSelected, KeepsImageRefused,
     KeepsUploadArms DEF Upload
<1>6. CASE Environment
  BY <1>6, KeepsButtonRestart, KeepsOperation, KeepsUnseen, KeepsHostLeaves, KeepsMishaps
  DEF Environment
<1>7. CASE UNCHANGED vars
  BY <1>7 DEF vars, IInv, Typed, BootShape, ArmShape, ReasonShape, TokenShape, MarkerShape,
     StreakCounted, UploadShape, AdmissionShape, Admissible, AbortShape, Unread, Leaving
<1> QED BY <1>1, <1>2, <1>3, <1>4, <1>5, <1>6, <1>7 DEF Next

LEMMA InvariantMaintenance == Spec => []IInv
<1>1. Init => IInv
  BY InitialMaintenance
<1>2. IInv /\ [Next]_vars => IInv'
  BY NextMaintenance
<1> QED BY <1>1, <1>2, PTL DEF Spec

\* The types of the retained memory, the boot, the arm and the tasks.
THEOREM TypesKept == Spec => []TypeOK
<1>1. IInv => TypeOK
  BY DEF IInv, Typed, TypeOK, Rtc, Flash, Boot, Run, ArmState, Task, Usb, Fw
<1> QED BY <1>1, InvariantMaintenance, PTL

\* The token of a planned reboot is ready only in the hands of a task that
\* goes through with it, and vouches for a marker only if that task bound it.
THEOREM TokenOwned == Spec => []TokenHasItsOwner
<1>1. IInv => TokenHasItsOwner
  <2>1. SUFFICES ASSUME IInv, rtc.magic, boot.cached
        PROVE  /\ arm.phase = "owned" /\ rtc.generation = arm.generation
               /\ task[arm.owner].pc # "released"
               /\ rtc.marker.phase = "armed" =>
                     (rtc.marker.generation = rtc.generation <=>
                        task[arm.owner].reason \in Binding)
    BY DEF TokenHasItsOwner
  <2>2. /\ arm.phase = "owned" /\ rtc.generation = arm.generation
        /\ task[arm.owner].pc # "released"
    BY <2>1 DEF IInv, TokenShape
  <2>3. CASE ~Unread
    BY <2>1, <2>2, <2>3 DEF IInv, MarkerShape
  <2>4. CASE Unread
    <3>1. arm.owner \in Tasks
      <4>1. arm.owner \in Tasks \cup {"none"}
        BY <2>1 DEF IInv, Typed, ArmState
      <4>2. arm.owner # "none"
        BY <2>1, <2>2 DEF IInv, ArmShape
      <4> QED BY <4>1, <4>2
    <3>2. task[arm.owner].reason = "boot_health_rollback" /\ arm.generation = Legacy
      BY <2>1, <2>4, <3>1 DEF IInv, ArmShape, BootShape, IdleTask, ReasonShape
    <3> QED BY <2>1, <2>2, <3>2 DEF IInv, MarkerShape, Binding
  <2> QED BY <2>2, <2>3, <2>4
<1> QED BY <1>1, InvariantMaintenance, PTL

\* No session keeps the badge in maintenance for more boots in a row than
\* BADGE_UPDATE_MAINTENANCE_MAX_BOOTS, whatever crashes and uploads it meets.
THEOREM BootsAreBounded == Spec => []BootsBounded
<1>1. IInv => BootsBounded
  BY DEF IInv, StreakCounted, BootsBounded
<1> QED BY <1>1, InvariantMaintenance, PTL

\* An image that an active session reports as installed is the one that runs.
THEOREM CommittedImageRuns == Spec => []CommittedRuns
<1>1. IInv => CommittedRuns
  BY DEF IInv, UploadShape, CommittedRuns, Active
<1> QED BY <1>1, InvariantMaintenance, PTL

\* Only badge_runtime_init admits a boot to maintenance, and only one that its
\* session's own restart led to, with no abort accepted before.
LEMMA AdmissionStep ==
    ASSUME IInv, [Next]_vars, ~run.active, run'.active
    PROVE  boot.reset = "sw" /\ boot.cause \in Binding /\ boot.aborted # "yes"
<1>1. CASE RuntimeInit
  <2>1. Unread /\ Idle("main")
    BY <1>1 DEF RuntimeInit, MainAt, Unread
  <2>2. \E safe : Enters(BootRead, safe)
    BY <1>1 DEF RuntimeInit, InitRun
  <2>3. Admissible
    BY <2>1, <2>2, EntersAdmissible
  <2> QED BY <2>3 DEF IInv, AdmissionShape, Admissible
<1>2. CASE ~RuntimeInit
  <2>1. run' = run \/ run'.active = run.active \/ ~run'.active
    <3>1. run \in Run
      BY DEF IInv, Typed
    <3>2. ASSUME NEW t \in Tasks, RestartStep(t)
          PROVE  run' = run \/ run'.active = run.active \/ ~run'.active
      <4>1. CASE RollBack(t) \/ Restart(t)
        BY <4>1 DEF RollBack, Restart, Reset, InitRun
      <4>2. CASE PublishFails(t) \/ ClearMarker(t)
        BY <3>1, <4>2 DEF PublishFails, ClearMarker, Run
      <4> QED BY <3>2, <4>1, <4>2 DEF RestartStep, Publish, ReserveFirmware, FirmwareBusy,
            RollBackReturns, ReleaseToken, ReleaseArm
    <3>3. CASE MainStep
      BY <1>2, <3>1, <3>3 DEF MainStep, BootChecked, BootRollback, Startup, StartupFails,
         Supervise, AutomaticRestart, ArmAutomaticRestart, UsbHealthRestart, MarkValid,
         HealthRollback, TerminalFailure, Inactivity, Run
    <3>4. CASE Command
      BY <3>1, <3>4 DEF Command, Prepare, AbortPreparing, KeepAlive, FinishUpdate, AbortActive,
         OtherCommand, UsbRollback, UsbReboot, UploadBegins, Run
    <3>5. CASE Respond \/ Poll \/ Upload
      BY <3>1, <3>5 DEF Respond, Poll, PollUnsafe, PollRestarts, Upload, CommitSummary,
         UploadAborts, ImageSelected, ImageRefused, CommittedRestart, Recover, Run
    <3>6. CASE Environment
      BY <3>1, <3>6 DEF Environment, ButtonRestart, OperationBegins, OperationEnds,
         GracePasses, ActivityStops, HostLeaves, Crash, PowerLoss, Reset, InitRun, Run
    <3>7. CASE UNCHANGED vars
      BY <3>7 DEF vars
    <3> QED BY <3>2, <3>3, <3>4, <3>5, <3>6, <3>7 DEF Next
  <2> QED BY <2>1
<1> QED BY <1>1, <1>2

\* A maintenance boot is only ever the reboot that its session armed.
THEOREM OnlyItsArmAdmits == Spec => AdmittedByItsArm
<1>1. IInv /\ [Next]_vars =>
        [~run.active /\ run'.active => boot.reset = "sw" /\ boot.cause \in Binding]_vars
  BY AdmissionStep
<1> QED BY <1>1, InvariantMaintenance, PTL DEF Spec, AdmittedByItsArm

\* An accepted abort is not followed by the maintenance boot it was to
\* prevent, unless the restart into it was asked for before.
THEOREM AbortsHold == Spec => AbortHolds
<1>1. IInv /\ [Next]_vars => [~run.active /\ run'.active => boot.aborted # "yes"]_vars
  BY AdmissionStep
<1> QED BY <1>1, InvariantMaintenance, PTL DEF Spec, AbortHolds
=============================================================================
