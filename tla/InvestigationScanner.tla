------------------------ MODULE InvestigationScanner ------------------------
(***************************************************************************)
(* A bounded BLE investigation as a scanner runs it (ble_investigator.c):  *)
(* the command listener starts, times and cancels it, the BLE host         *)
(* delivers connections and GATT results, and either of them may run the   *)
(* clean-up that ends it, under the emission mutex.  A task's pending      *)
(* calls are a sequence of steps; each critical section and each call into *)
(* the BLE host is a step, and a chunk's reservation, write and completion *)
(* are one, because the emission mutex covers them.  Services,             *)
(* characteristics and reads are counted by nobody here: a procedure goes  *)
(* on or is over.                                                          *)
(***************************************************************************)
EXTENDS Naturals, Sequences

CONSTANTS Requests,     \* investigations the badge asks for
          Faults        \* calls into the BLE host that fail

VARIABLES core,         \* ble_investigator_t
          fence,        \* runtime fence
          chunks,       \* chunk fence
          todo,         \* per task, the steps it still has to take
          mutex,        \* s_emission_mutex, where it is held over several steps
          backoff,      \* cleanup_retry_after_ms is ahead
          link, events, \* the host's connection, connection events not delivered
          proc,         \* generation of the GATT procedure in flight, 0: none
          scan, quiet,  \* the advertisement scan runs; quiet mode is active
          begun, ended, \* BEGIN and END chunks written to the badge
          left
vars == <<core, fence, chunks, todo, mutex, backoff, link, events, proc, scan,
          quiet, begun, ended, left>>

Rest == [mode |-> "gatt", st |-> "idle", busy |-> FALSE, pending |-> FALSE,
         resume |-> FALSE, late |-> FALSE]
NoFence(generation) ==
    [gen |-> generation, active |-> FALSE, cleanup |-> FALSE, resume |-> FALSE,
     op |-> FALSE, deferred |-> FALSE, radio |-> "idle", conn |-> FALSE, end |-> FALSE]

Init ==
    /\ core = Rest /\ fence = NoFence(0)
    /\ chunks = [active |-> FALSE, begin |-> FALSE, end |-> FALSE]
    /\ todo = [cmd |-> <<>>, host |-> <<>>]
    /\ mutex = "free" /\ backoff = FALSE
    /\ link = "down" /\ events = <<>> /\ proc = 0
    /\ scan = TRUE /\ quiet = FALSE
    /\ begun = 0 /\ ended = 0
    /\ left = [requests |-> Requests, faults |-> Faults]

Current(generation) == fence.active /\ fence.gen = generation
Then(task, steps) == todo' = [todo EXCEPT ![task] = steps \o Tail(@)]
First(task, steps) == todo' = [todo EXCEPT ![task] = steps \o @]
At(task, step) == todo[task] # <<>> /\ Head(todo[task])[1] = step
GenOf(task) == Head(todo[task])[2]
Step(name, generation) == <<name, generation>>
CleanUp == <<Step("cleanup", 0)>>
Spend == left.faults > 0 /\ left' = [left EXCEPT !.faults = @ - 1]
Radio == <<link, events, proc, scan, quiet>>
Wire == <<chunks, begun, ended>>

-----------------------------------------------------------------------------
(* The core's events.                                                      *)

Finish(c, state) == [c EXCEPT !.st = state, !.busy = FALSE, !.pending = TRUE, !.resume = TRUE]

\* ble_investigator_tick past the deadline.
Expire(c) == Finish(c, IF c.mode = "gatt" THEN "failed" ELSE "complete")

\* ble_investigator_handle_event: an event past the deadline only expires.
Handle(c, from, to) ==
    IF ~c.busy THEN c
    ELSE IF c.late THEN Expire(c)
    ELSE IF c.st \notin from THEN c
    ELSE IF to \in {"failed", "complete"} THEN Finish(c, to) ELSE [c EXCEPT !.st = to]

\* ble_investigator_prepare_procedure: whether it may go on, and the core after it.
Prepared(c, state) == c.busy /\ c.mode = "gatt" /\ ~c.late /\ c.st = state
AfterPrepare(c) == IF c.busy /\ c.mode = "gatt" /\ c.late THEN Expire(c) ELSE c

\* runtime_fail on the core: a failure of a connection or of a procedure.
Failed(generation) ==
    IF Current(generation) /\ ~fence.cleanup
    THEN Handle(core, {"connecting", "discovering", "reading"}, "failed") ELSE core

AcceptsGatt(generation) ==
    Current(generation) /\ ~fence.cleanup /\ ~fence.op /\ fence.radio = "connected"

-----------------------------------------------------------------------------
(* Commands: start, tick, cancel, quiesce.                                 *)

\* handle_ble_investigate_command and ble_investigator_runtime_start up to the
\* first progress chunk.  A request of a busy runtime is rejected with chunks
\* of its own.
Start ==
    /\ todo.cmd = <<>> /\ left.requests > 0 /\ ~quiet
    /\ left' = [left EXCEPT !.requests = @ - 1]
    /\ IF fence.active THEN UNCHANGED <<core, fence, Wire, todo, backoff>>
       ELSE \E mode \in {"gatt"} \cup (IF scan THEN {"passive"} ELSE {}) :
            /\ core' = [Rest EXCEPT !.mode = mode, !.busy = TRUE,
                                    !.st = IF mode = "gatt" THEN "connecting" ELSE "scanning"]
            /\ fence' = [NoFence(fence.gen + 1) EXCEPT !.active = TRUE]
            /\ chunks' = [active |-> TRUE, begin |-> TRUE, end |-> FALSE]
            /\ begun' = begun + 1 /\ ended' = ended
            /\ backoff' = FALSE
            /\ todo' = IF mode = "gatt"
                       THEN [todo EXCEPT !.cmd = <<Step("pause", fence.gen + 1),
                                                   Step("launch", fence.gen + 1)>>]
                       ELSE todo
    /\ UNCHANGED <<mutex, Radio>>

\* ble_remote_id_pause_for_investigation within its reservation.  No other task
\* touches the runtime before there is a connection.
Pause ==
    /\ At("cmd", "pause")
    /\ LET go == Current(GenOf("cmd")) /\ ~fence.cleanup /\ Prepared(core, "connecting") IN
       \/ ~go /\ core' = AfterPrepare(core) /\ todo' = [todo EXCEPT !.cmd = CleanUp]
          /\ UNCHANGED <<scan, left>>
       \/ go /\ scan' = FALSE /\ Then("cmd", CleanUp) /\ UNCHANGED <<core, left>>
       \/ go /\ Spend /\ core' = Failed(GenOf("cmd")) /\ todo' = [todo EXCEPT !.cmd = CleanUp]
          /\ scan' = scan
    /\ UNCHANGED <<fence, Wire, mutex, backoff, link, events, proc, quiet>>

\* The local address, the reservation of the connection, ble_gap_connect.
Launch ==
    /\ At("cmd", "launch")
    /\ LET g == GenOf("cmd")
           go == Current(g) /\ ~fence.cleanup /\ Prepared(core, "connecting") IN
       \/ Spend /\ core' = Failed(g) /\ Then("cmd", CleanUp) /\ UNCHANGED <<fence, link>>
       \/ ~go /\ core' = AfterPrepare(core) /\ Then("cmd", CleanUp) /\ UNCHANGED <<fence, link, left>>
       \/ go /\ fence' = [fence EXCEPT !.op = TRUE, !.radio = "connecting"]
          /\ core' = core
          /\ \/ link' = "connecting" /\ Then("cmd", <<Step("connected", g)>>) /\ UNCHANGED left
             \/ link' = link /\ Spend /\ Then("cmd", <<Step("refused", g)>>)
    /\ UNCHANGED <<Wire, mutex, backoff, events, proc, scan, quiet>>

\* After ble_gap_connect: the reservation ends, a discovery that the host had
\* to put off is started, or what came meanwhile is cleaned up.
AfterConnect ==
    \E refused \in BOOLEAN :
    /\ At("cmd", IF refused THEN "refused" ELSE "connected")
    /\ LET g == GenOf("cmd")
           f == [fence EXCEPT !.op = FALSE, !.deferred = FALSE,
                     !.radio = IF refused /\ @ \in {"connecting", "cancelling"} THEN "idle" ELSE @]
           wanted == fence.deferred /\ ~fence.cleanup /\ core.busy
           c == IF wanted THEN AfterPrepare(core) ELSE core
           launch == wanted /\ Prepared(core, "discovering") /\ f.radio = "connected" IN
       /\ fence' = IF Current(g) THEN f ELSE fence
       /\ core' = IF Current(g) THEN c ELSE core
       /\ Then("cmd", IF ~Current(g) THEN <<>>
                      ELSE IF refused /\ ~fence.cleanup /\ c.busy THEN <<Step("fail", g)>>
                      ELSE IF launch THEN <<Step("discover", g)>>
                      ELSE IF fence.cleanup \/ c.pending THEN CleanUp ELSE <<>>)
    /\ UNCHANGED <<Wire, mutex, backoff, Radio, left>>

Fail(task) ==
    /\ At(task, "fail")
    /\ core' = Failed(GenOf(task))
    /\ Then(task, CleanUp)
    /\ UNCHANGED <<fence, Wire, mutex, backoff, Radio, left>>

\* ble_investigator_runtime_tick, from every pass of the listener.
Tick ==
    /\ todo.cmd = <<>> /\ fence.active
    /\ core' = IF ~core.busy THEN core
               ELSE IF core.mode = "passive" /\ ~scan THEN Finish(core, "failed")
               ELSE IF core.late THEN Expire(core) ELSE core
    /\ todo' = [todo EXCEPT !.cmd = CleanUp]
    /\ core'.pending
    /\ UNCHANGED <<fence, Wire, mutex, backoff, Radio, left>>

\* ble_investigator_runtime_cancel for the running request.
Cancel ==
    /\ todo.cmd = <<>> /\ fence.active /\ ~fence.cleanup /\ core.busy
    /\ core' = IF core.late THEN Expire(core) ELSE Finish(core, "cancelled")
    /\ todo' = [todo EXCEPT !.cmd = CleanUp]
    /\ UNCHANGED <<fence, Wire, mutex, backoff, Radio, left>>

\* A quiet command: ble_investigator_runtime_quiesce takes the restart of the
\* scan away from the clean-up; the scan is stopped by the quiet mode.
Quiesce ==
    /\ todo.cmd = <<>> /\ ~quiet /\ quiet' = TRUE /\ scan' = FALSE
    /\ IF fence.active
       THEN LET c == IF fence.cleanup \/ ~core.busy THEN core
                     ELSE IF core.late THEN Expire(core) ELSE Finish(core, "cancelled") IN
            /\ core' = [c EXCEPT !.resume = FALSE]
            /\ fence' = [fence EXCEPT !.resume = FALSE]
            /\ todo' = IF c.pending \/ fence.cleanup THEN [todo EXCEPT !.cmd = CleanUp] ELSE todo
       ELSE UNCHANGED <<core, fence, todo>>
    /\ UNCHANGED <<Wire, mutex, backoff, link, events, proc, left>>

-----------------------------------------------------------------------------
(* The BLE host.                                                           *)

\* The connection comes up, fails or is lost.
LinkUp ==
    /\ link = "connecting" /\ link' = "up"
    /\ events' = Append(events, <<"up", fence.gen>>)
    /\ UNCHANGED <<core, fence, Wire, todo, mutex, backoff, proc, scan, quiet, left>>
LinkDown ==
    /\ link # "down" /\ link' = "down"
    /\ events' = Append(events, <<IF link = "up" THEN "lost" ELSE "failed", fence.gen>>)
    /\ proc' = 0
    /\ UNCHANGED <<core, fence, Wire, todo, mutex, backoff, scan, quiet, left>>

\* runtime_gap_event: a connection failed.
ConnectFailed ==
    /\ todo.host = <<>> /\ events # <<>> /\ Head(events)[1] = "failed"
    /\ events' = Tail(events)
    /\ LET g == Head(events)[2]
           mine == Current(g) /\ fence.radio \in {"connecting", "cancelling"} IN
       /\ fence' = IF mine THEN [fence EXCEPT !.radio = "idle", !.conn = FALSE] ELSE fence
       /\ backoff' = IF mine THEN FALSE ELSE backoff
       /\ todo' = [todo EXCEPT !.host = IF ~mine THEN <<>>
                                        ELSE IF fence.cleanup THEN CleanUp ELSE <<Step("fail", g)>>]
    /\ UNCHANGED <<core, Wire, mutex, link, proc, scan, quiet, left>>

\* ...succeeded: while ble_gap_connect has not returned, the discovery waits.
ConnectDone ==
    /\ todo.host = <<>> /\ events # <<>> /\ Head(events)[1] = "up"
    /\ events' = Tail(events)
    /\ LET g == Head(events)[2]
           mine == Current(g) /\ fence.radio \in {"connecting", "cancelling"}
           c == IF mine /\ ~fence.cleanup THEN Handle(core, {"connecting"}, "discovering") ELSE core
           ready == mine /\ ~fence.cleanup /\ c.busy /\ c.st = "discovering" IN
       /\ core' = c
       /\ backoff' = IF mine THEN FALSE ELSE backoff
       /\ fence' = IF mine THEN [fence EXCEPT !.radio = "connected", !.conn = TRUE,
                                              !.deferred = @ \/ (ready /\ fence.op)] ELSE fence
       /\ todo' = [todo EXCEPT !.host = IF ~mine \/ (ready /\ fence.op) THEN <<>>
                                        ELSE IF ready THEN <<Step("discover", g)>> ELSE CleanUp]
    /\ UNCHANGED <<Wire, mutex, link, proc, scan, quiet, left>>

\* ...was lost.
Disconnected ==
    /\ todo.host = <<>> /\ events # <<>> /\ Head(events)[1] = "lost"
    /\ events' = Tail(events)
    /\ LET mine == Current(Head(events)[2]) /\ fence.conn
                   /\ fence.radio \in {"connected", "terminating"} IN
       /\ fence' = IF mine THEN [fence EXCEPT !.radio = "idle", !.conn = FALSE] ELSE fence
       /\ core' = IF mine /\ ~fence.cleanup
                  THEN Handle(core, {"discovering", "reading"}, "failed") ELSE core
       /\ backoff' = IF mine THEN FALSE ELSE backoff
       /\ todo' = [todo EXCEPT !.host = IF mine THEN CleanUp ELSE <<>>]
    /\ UNCHANGED <<Wire, mutex, link, proc, scan, quiet, left>>

\* runtime_start_service_discovery, start_next_characteristic_discovery and
\* start_next_read: reserve, call the host.  "after" is what ends the
\* reservation; the result may be delivered before it.
Procedure(task) ==
    /\ At(task, "discover") \/ At(task, "read")
    /\ LET g == GenOf(task)
           state == IF At(task, "read") THEN "reading" ELSE "discovering"
           c == IF state = "reading" /\ AcceptsGatt(g) THEN Handle(core, {"discovering"}, "reading")
                ELSE core
           go == AcceptsGatt(g) /\ Prepared(c, state) IN
       \/ /\ ~go
          /\ core' = IF AcceptsGatt(g) THEN AfterPrepare(c) ELSE core
          /\ Then(task, CleanUp)
          /\ UNCHANGED <<fence, proc, left>>
       \/ /\ go /\ core' = c /\ fence' = [fence EXCEPT !.op = TRUE]
          /\ \/ proc' = (IF link = "up" THEN g ELSE 0) /\ Then(task, <<Step("after", g)>>)
                /\ UNCHANGED left
             \/ Spend /\ proc' = proc /\ Then(task, <<Step("after_error", g)>>)
    /\ UNCHANGED <<Wire, mutex, backoff, link, events, scan, quiet>>

\* runtime_finish_gatt_procedure.
AfterProcedure(task) ==
    /\ At(task, "after") \/ At(task, "after_error")
    /\ LET g == GenOf(task)
           mine == Current(g) /\ fence.op IN
       /\ fence' = IF mine THEN [fence EXCEPT !.op = FALSE] ELSE fence
       /\ Then(task, IF ~mine THEN <<>>
                     ELSE IF At(task, "after_error") /\ ~fence.cleanup /\ core.busy
                     THEN <<Step("fail", g)>>
                     ELSE IF fence.cleanup \/ core.pending THEN CleanUp ELSE <<>>)
    /\ UNCHANGED <<core, Wire, mutex, backoff, Radio, left>>

\* runtime_service_cb, runtime_characteristic_cb, runtime_read_cb: an item, the
\* end of a procedure, an error or a need to authenticate.  A result that comes
\* while the reservation is held is dropped.
Callback ==
    /\ todo.host = <<>> /\ proc # 0
    /\ LET g == proc IN
       \E result \in {"item", "next", "read", "over", "error"} :
       /\ proc' = IF result = "item" THEN proc ELSE 0
       /\ result = "next" => core.st # "reading"
       /\ IF ~AcceptsGatt(g) THEN UNCHANGED <<core, todo>>
          ELSE /\ core' = CASE result = "item" ->
                               (IF core.busy /\ core.late THEN Expire(core) ELSE core)
                            [] result = "over" -> Handle(core, {"discovering", "reading"}, "complete")
                            [] result = "error" -> Handle(core, {"discovering", "reading"}, "failed")
                            [] OTHER -> core
               /\ todo' = [todo EXCEPT !.host =
                     CASE result = "next" -> <<Step("discover", g)>>
                       [] result = "read" -> <<Step("read", g)>>
                       [] OTHER -> CleanUp]
    /\ UNCHANGED <<fence, Wire, mutex, backoff, link, events, scan, quiet, left>>

\* ble_investigator_runtime_note_advertisement: a passive capture listens.
Advertisement ==
    /\ todo.host = <<>> /\ scan /\ fence.active
    /\ core' = IF core.busy /\ ~fence.cleanup /\ core.mode = "passive" /\ core.late
               THEN Expire(core) ELSE core
    /\ todo' = [todo EXCEPT !.host = CleanUp]
    /\ core'.pending
    /\ UNCHANGED <<fence, Wire, mutex, backoff, Radio, left>>

-----------------------------------------------------------------------------
(* runtime_cleanup.                                                        *)

\* The END chunk, then the radio.
CleanupBegins(task) ==
    /\ At(task, "cleanup") /\ mutex = "free"
    /\ IF fence.active /\ core.pending
       THEN LET resume == core.resume /\ ~quiet IN
            /\ core' = [core EXCEPT !.resume = resume]
            /\ fence' = [fence EXCEPT !.cleanup = TRUE, !.end = TRUE,
                                      !.resume = (@ /\ ~quiet) \/ resume]
            /\ chunks' = IF fence.end THEN chunks ELSE [chunks EXCEPT !.active = FALSE, !.end = TRUE]
            /\ ended' = IF fence.end THEN ended ELSE ended + 1
            /\ mutex' = task /\ Then(task, <<Step("act", fence.gen)>>)
       ELSE Then(task, <<>>) /\ UNCHANGED <<core, fence, chunks, ended, mutex>>
    /\ UNCHANGED <<begun, backoff, Radio, left>>

CanRelease ==
    ~fence.op /\ ~fence.deferred /\ fence.radio = "idle" /\ ~fence.conn /\ ~fence.resume

\* ble_investigator_runtime_fence_next_cleanup_action, or the release.
CleanupActs(task) ==
    /\ At(task, "act")
    /\ LET g == GenOf(task)
           done == Then(task, <<>>) /\ mutex' = "free" IN
       \/ (~Current(g) \/ backoff \/ fence.op) /\ done /\ UNCHANGED <<core, fence>>
       \/ /\ Current(g) /\ ~backoff /\ ~fence.op
          /\ \/ /\ fence.radio = "connecting"
                /\ fence' = [fence EXCEPT !.radio = "cancelling"]
                /\ Then(task, <<Step("cancel", g)>>) /\ UNCHANGED <<core, mutex>>
             \/ /\ fence.radio = "connected"
                /\ fence' = [fence EXCEPT !.radio = "terminating"]
                /\ Then(task, <<Step("terminate", g)>>) /\ UNCHANGED <<core, mutex>>
             \/ /\ fence.radio = "idle" /\ fence.resume
                /\ Then(task, <<Step("resume", g)>>) /\ UNCHANGED <<core, fence, mutex>>
             \/ /\ fence.radio \in {"cancelling", "terminating"} \/ (fence.radio = "idle" /\ ~fence.resume)
                /\ done
                /\ IF CanRelease THEN fence' = NoFence(fence.gen) /\ core' = Rest
                   ELSE UNCHANGED <<core, fence>>
    /\ UNCHANGED <<Wire, backoff, Radio, left>>

\* ble_gap_conn_cancel, and what the host knows of the peer when it is too late.
CancelConnect(task) ==
    /\ At(task, "cancel")
    /\ \/ /\ link = "connecting" /\ link' = "down"
          /\ events' = Append(events, <<"failed", fence.gen>>)
          /\ Then(task, <<>>) /\ mutex' = "free" /\ UNCHANGED left
       \/ /\ link # "connecting"
          /\ Then(task, <<Step(IF link = "up" THEN "is_up" ELSE "is_down", GenOf(task))>>)
          /\ UNCHANGED <<link, events, mutex, left>>
       \/ Spend /\ Then(task, <<Step("unknown", GenOf(task))>>) /\ UNCHANGED <<link, events, mutex>>
    /\ UNCHANGED <<core, fence, Wire, backoff, proc, scan, quiet>>

\* ble_investigator_runtime_fence_reconcile_cancel, or the failed cancellation:
\* both go back to connecting when nothing is known.
Reconcile(task) ==
    \E found \in {"is_up", "is_down", "unknown"} :
    /\ At(task, found)
    /\ LET mine == Current(GenOf(task)) /\ fence.radio = "cancelling" IN
       fence' = IF ~mine THEN fence
                ELSE [fence EXCEPT !.conn = found = "is_up",
                          !.radio = CASE found = "is_up" -> "connected"
                                      [] found = "is_down" -> "idle" [] OTHER -> "connecting"]
    /\ IF found = "unknown" THEN backoff' = TRUE /\ mutex' = "free" /\ Then(task, <<>>)
       ELSE backoff' = FALSE /\ UNCHANGED mutex /\ Then(task, <<Step("act", GenOf(task))>>)
    /\ UNCHANGED <<core, Wire, Radio, left>>

\* ble_gap_terminate.
Terminate(task) ==
    /\ At(task, "terminate")
    /\ \/ /\ link = "up" /\ link' = "down" /\ proc' = 0
          /\ events' = Append(events, <<"lost", fence.gen>>)
          /\ Then(task, <<>>) /\ mutex' = "free" /\ UNCHANGED left
       \/ link = "down" /\ Then(task, <<Step("absent", GenOf(task))>>)
          /\ UNCHANGED <<link, events, proc, mutex, left>>
       \/ Spend /\ Then(task, <<Step("stays", GenOf(task))>>)
          /\ UNCHANGED <<link, events, proc, mutex>>
    /\ UNCHANGED <<core, fence, Wire, backoff, scan, quiet>>

TerminateFailed(task) ==
    \E absent \in BOOLEAN :
    /\ At(task, IF absent THEN "absent" ELSE "stays")
    /\ fence' = IF ~Current(GenOf(task)) \/ fence.radio # "terminating" THEN fence
                ELSE IF absent THEN [fence EXCEPT !.radio = "idle", !.conn = FALSE]
                ELSE [fence EXCEPT !.radio = "connected"]
    /\ backoff' = ~absent
    /\ IF absent THEN Then(task, <<Step("act", GenOf(task))>>) /\ UNCHANGED mutex
       ELSE Then(task, <<>>) /\ mutex' = "free"
    /\ UNCHANGED <<core, Wire, Radio, left>>

\* ble_remote_id_resume_after_investigation, or nothing in quiet mode.
ResumeScan(task) ==
    /\ At(task, "resume")
    /\ \/ /\ fence' = [fence EXCEPT !.resume = FALSE]
          /\ scan' = (scan \/ ~quiet) /\ backoff' = FALSE
          /\ Then(task, <<Step("act", GenOf(task))>>) /\ UNCHANGED <<mutex, left>>
       \/ /\ ~quiet /\ ~scan /\ Spend /\ backoff' = TRUE /\ scan' = scan
          /\ Then(task, <<>>) /\ mutex' = "free" /\ UNCHANGED fence
    /\ UNCHANGED <<core, Wire, link, events, proc, quiet>>

-----------------------------------------------------------------------------
(* Time: the deadline passes, a retry falls due.                           *)

Deadline ==
    /\ core.busy /\ ~core.late /\ core' = [core EXCEPT !.late = TRUE]
    /\ UNCHANGED <<fence, Wire, todo, mutex, backoff, Radio, left>>
RetryDue ==
    /\ backoff /\ backoff' = FALSE
    /\ UNCHANGED <<core, fence, Wire, todo, mutex, Radio, left>>

CleanupStep(task) ==
    \/ CleanupBegins(task) \/ CleanupActs(task) \/ CancelConnect(task) \/ Reconcile(task)
    \/ Terminate(task) \/ TerminateFailed(task) \/ ResumeScan(task)
Command == Pause \/ Launch \/ AfterConnect \/ Tick
Host == ConnectFailed \/ ConnectDone \/ Disconnected
Shared(task) == Fail(task) \/ Procedure(task) \/ AfterProcedure(task) \/ CleanupStep(task)

Next ==
    \/ Start \/ Cancel \/ Quiesce
    \/ Command \/ Host \/ Callback \/ Advertisement
    \/ \E task \in {"cmd", "host"} : Shared(task)
    \/ LinkUp \/ LinkDown \/ Deadline \/ RetryDue

Spec == Init /\ [][Next]_vars

\* Each task takes its steps, the host delivers its events, time passes; the
\* emission mutex goes to the task that waits for it, so neither is starved.
Fairness ==
    /\ WF_vars(Command \/ Shared("cmd")) /\ WF_vars(Host \/ Shared("host"))
    /\ SF_vars(CleanupBegins("cmd")) /\ SF_vars(CleanupBegins("host"))
    /\ WF_vars(Deadline) /\ WF_vars(RetryDue)
FairSpec == Spec /\ Fairness

-----------------------------------------------------------------------------
\* A finished investigation has left nothing behind: the badge was told the end
\* of everything it was told the beginning of, once, and no connection is up or
\* on its way, whichever of the two tasks cleaned up and whatever the BLE host
\* answered late (ble_investigator.c, runtime_cleanup and the runtime fence).
NothingLeftBehind ==
    /\ ended <= begun /\ begun <= ended + 1
    /\ ~fence.active => begun = ended /\ link = "down" /\ proc = 0

\* Inductive: who holds the mutex cleans up the current investigation; until it is
\* launched nothing of it is known to the host; while there is a connection nobody
\* holds the news that it is gone.
Tasks == {"cmd", "host"}
Cleaning == {"act", "cancel", "is_up", "is_down", "unknown", "terminate", "absent", "stays", "resume"}
Working == {"cleanup", "fail", "discover", "read", "after", "after_error"} \cup Cleaning
Commanding == {"pause", "launch", "connected", "refused"} \cup Working
FenceSet == [gen : Nat, active : BOOLEAN, cleanup : BOOLEAN, resume : BOOLEAN, op : BOOLEAN,
           deferred : BOOLEAN, radio : {"idle", "connecting", "connected", "cancelling", "terminating"},
           conn : BOOLEAN, end : BOOLEAN]
ShapeInv == /\ fence \in FenceSet /\ DOMAIN todo = Tasks
            /\ events \in Seq({"up", "failed", "lost"} \X Nat)
            /\ todo.host = <<>> \/ \E s \in Working \X (0..fence.gen) : todo.host = <<s>>
            /\ \/ todo.cmd = <<>> \/ \E s \in Commanding \X (0..fence.gen) : todo.cmd = <<s>>
               \/ \E s \in {"pause", "cleanup"} \X (0..fence.gen) :
                    todo.cmd = <<s, Step("launch", fence.gen)>>
            /\ fence.active => fence.gen # 0
            /\ \A i \in DOMAIN events : events[i][2] <= fence.gen
MutexInv == /\ mutex \in Tasks \cup {"free"}
            /\ \A task \in Tasks :
                 /\ mutex = task <=> todo[task] # <<>> /\ Head(todo[task])[1] \in Cleaning
                 /\ mutex = task => GenOf(task) = fence.gen /\ fence.active /\ fence.cleanup
Launching == Len(todo.cmd) = 2 \/ At("cmd", "launch") \/ At("cmd", "pause")
LaunchInv == Launching =>
    /\ At("cmd", "launch") \/ At("cmd", "pause") => GenOf("cmd") = fence.gen
    /\ fence.active /\ ~fence.cleanup /\ fence.radio = "idle" /\ link = "down"
    /\ ~core.pending /\ core.mode = "gatt"
    /\ core \in [mode : {"gatt"}, st : {"connecting"}, busy : BOOLEAN, pending : BOOLEAN,
                 resume : BOOLEAN, late : BOOLEAN]
    /\ \A i \in DOMAIN events : events[i][2] # fence.gen
    /\ todo.host # <<>> => GenOf("host") # fence.gen
LinkInv == /\ link \in {"down", "connecting", "up"}
           /\ link # "down" =>
                /\ fence.active /\ fence.radio # "idle"
                /\ \A i \in DOMAIN events : events[i][2] = fence.gen => events[i][1] = "up"
                /\ \A task \in Tasks :
                     todo[task] # <<>> /\ GenOf(task) = fence.gen =>
                       ~At(task, "is_down") /\ ~At(task, "absent") /\ ~At(task, "refused")
           /\ proc # 0 => link = "up"
EndsInv == /\ ended \in Nat /\ begun = ended + (IF fence.active /\ ~fence.end THEN 1 ELSE 0)
           /\ fence.cleanup => fence.end
BehindInv == ShapeInv /\ MutexInv /\ LaunchInv /\ LinkInv /\ EndsInv

\* Every investigation ends, and the scan that it stopped runs again unless the
\* scanner was made quiet (ble_investigator.c, ble_investigator_runtime_tick).
Investigates == fence.active
Resumed == ~fence.active /\ (scan \/ quiet)
InvestigationEnds == Investigates ~> Resumed
=============================================================================
