-------------------------- MODULE RadioQuiescence --------------------------
(***************************************************************************)
(* How the game radio yields to firmware work on the uplink MCU.  Four     *)
(* parties share the operation token, the epoch gate of the radio, the     *)
(* coordinator's mutex and the radio's policy:                             *)
(*   - the display loop (badge_con_radio_runtime_poll in main.c), the only *)
(*     one that polls the radio, and that may permit it;                   *)
(*   - the clients of fw_store_operation_try_begin, one of them the auto   *)
(*     worker, which the coordinator starts and suspends;                  *)
(*   - the coordinator's durable record, saved under its mutex;            *)
(*   - the preparation of a maintenance reboot                             *)
(*     (fw_store_request_update_preemption), repeated until it is granted. *)
(* Each step ends where the code releases a lock or a spinlock, so every   *)
(* check-then-act gap of the protocol is open to the others.               *)
(***************************************************************************)
EXTENDS OperationToken, VhciPolicy

CONSTANTS
    Clients, Worker,  \* the operation's callers; one is the auto worker
    SampleAttempts    \* tries of fw_store_campaign_state_sample (3)

ASSUME ClientsAssumption ==
    /\ Worker \in Owners /\ Clients \subseteq Owners
    /\ SampleAttempts \in Nat \ {0}
\* A boot counts few edges: also the two that may come past the bound (an
\* operation's end, a preemption) stay within half of the counter's span.
ASSUME SpanAssumption == 2 * EpochMax + 4 <= EpochLast

VARIABLES
    op,        \* s_operation
    gate,      \* s_epoch_gate
    startup,   \* of the radio: "absent", "starting" (s_init_in_progress), "done"
    loop,      \* the display loop: [pc, seen, tries, safe, epoch, yield]
    client,    \* per client [pc, epoch, token]
    holder,    \* who holds s_auto_coordinator_mutex across steps, or "free"
    safe,      \* the coordinator's record allows the radio
    suspend,   \* s_auto_preempt_requested
    worker,    \* s_auto_coordinator_lifecycle
    prepare    \* [pc, active, epoch, accepted, result]

opVars == <<op, holder, safe, suspend, worker>>
vars == <<pol, slot, overflow, cmds, radioOn, op, gate, startup, loop, client,
          holder, safe, suspend, worker, prepare>>

NoSnapshot == InitOperation
LoopPcs == {"idle", "sampled", "compare", "final", "apply", "start", "wait", "poll"}
ClientPcs == {"idle", "request", "check", "claim", "own", "reconcile"}
PreparePcs ==
    {"idle", "request", "suspend", "resample", "confirm", "verify", "ask"}

QTypeOK ==
    /\ TypeOK
    /\ op \in OperationState
    /\ gate \in [observed : BOOLEAN, epoch : 0..EpochLast, inhibited : BOOLEAN]
    /\ startup \in {"absent", "starting", "done"}
    /\ loop \in [pc : LoopPcs, seen : OperationState, tries : 0..SampleAttempts,
                 safe : BOOLEAN, epoch : 0..EpochLast, yield : BOOLEAN]
    /\ client \in [Clients -> [pc : ClientPcs, epoch : 0..EpochLast, token : Token]]
    /\ holder \in {"free", "save"}
    /\ safe \in BOOLEAN /\ suspend \in BOOLEAN
    /\ worker \in {"IDLE", "RUNNING", "QUIESCING", "SUSPENDED"}
    /\ prepare \in
         [pc : PreparePcs, active : BOOLEAN, epoch : 0..EpochLast,
          accepted : BOOLEAN, result : {"none", "safe", "quiesced"}]

IdleLoop ==
    [pc |-> "idle", seen |-> NoSnapshot, tries |-> 0, safe |-> FALSE,
     epoch |-> 0, yield |-> TRUE]
IdleClient == [pc |-> "idle", epoch |-> 0, token |-> NoToken]

IdlePrepare ==
    [pc |-> "idle", active |-> FALSE, epoch |-> 0, accepted |-> FALSE,
     result |-> "none"]

QInit ==
    /\ InitRadio
    /\ op = InitOperation
    /\ gate = [observed |-> FALSE, epoch |-> 0, inhibited |-> FALSE]
    /\ startup = "absent"
    /\ loop = IdleLoop
    /\ client = [c \in Clients |-> IdleClient]
    /\ holder = "free" /\ safe \in BOOLEAN /\ suspend = FALSE /\ worker = "IDLE"
    /\ prepare = IdlePrepare

-----------------------------------------------------------------------------
(* The epoch gate.                                                         *)
Distance(from, to) ==
    IF to >= from THEN to - from ELSE to - from + EpochLast + 1

IsNewer(candidate, current) ==
    /\ candidate # current
    /\ IF current = 0 THEN candidate # 0
       ELSE /\ candidate # 0
            /\ 2 * Distance(current, candidate) < EpochLast + 1

GateAccepts(epoch, inhibit) ==
    \/ ~gate.observed
    \/ IsNewer(epoch, gate.epoch)
    \/ epoch = gate.epoch /\ (gate.inhibited => inhibit)

GateAfter(epoch, inhibit) ==
    [observed |-> TRUE, epoch |-> epoch, inhibited |-> inhibit]

\* badge_con_vhci_epoch_gate_apply, then the policy is told (once it exists).
ApplyGate(epoch, inhibit) ==
    IF GateAccepts(epoch, inhibit)
    THEN /\ gate' = GateAfter(epoch, inhibit)
         /\ pol' = IF startup = "absent" THEN pol
                   ELSE [pol EXCEPT !.inhibited = inhibit]
    ELSE UNCHANGED <<gate, pol>>

\* badge_con_vhci_radio_quiesced_for_epoch
RadioQuietAt(epoch) ==
    /\ gate.observed /\ gate.inhibited /\ gate.epoch = epoch
    /\ startup # "starting"
    /\ startup = "absent" \/ Quiesced(pol)

\* A change of the token, within the bound on its edges.
Bounded(s) == s = op \/ Room(op)
SetOp(s) == Bounded(s) /\ op' = s

-----------------------------------------------------------------------------
(* The display loop, one badge_con_radio_runtime_poll per round.           *)

\* The fields of a snapshot that fw_store_campaign_state_sample compares.
Visible(s) == [s EXCEPT !.generation = 0, !.lease = FALSE]

Sample ==
    /\ loop.pc = "idle"
    /\ loop' = [loop EXCEPT !.pc = "sampled", !.seen = Visible(op), !.tries = @ + 1]
    /\ UNCHANGED <<radioVars, opVars, gate, startup, client, prepare>>

\* The sample is decided: the loop goes on to the gate with it.
Decide(epoch, yield) ==
    loop' = [IdleLoop EXCEPT !.pc = "apply", !.epoch = epoch, !.yield = yield]

\* The mutex may also be held for the moment of another's step.
ReadCoordinator ==
    /\ loop.pc = "sampled"
    /\ \/ Decide(loop.seen.epoch, TRUE)
       \/ /\ holder = "free"
          /\ loop' = [loop EXCEPT !.pc = "compare", !.safe = safe]
    /\ UNCHANGED <<radioVars, opVars, gate, startup, client, prepare>>

Compare ==
    /\ loop.pc = "compare"
    /\ IF Visible(op) # loop.seen
       THEN loop' = [loop EXCEPT !.pc = IF loop.tries < SampleAttempts
                                        THEN "idle" ELSE "final",
                                 !.seen = NoSnapshot, !.safe = FALSE]
       ELSE Decide(op.epoch, ~loop.safe \/ op.active \/ op.inhibited)
    /\ UNCHANGED <<radioVars, opVars, gate, startup, client, prepare>>

SampleFinally ==
    /\ loop.pc = "final"
    /\ Decide(op.epoch, TRUE)
    /\ UNCHANGED <<radioVars, opVars, gate, startup, client, prepare>>

ApplyPolicy ==
    /\ loop.pc = "apply"
    /\ ApplyGate(loop.epoch, loop.yield)
    /\ loop' = [loop EXCEPT !.pc = "start", !.epoch = 0,
                  !.yield = @ \/ ~GateAccepts(loop.epoch, loop.yield)]
    /\ UNCHANGED <<slot, overflow, cmds, radioOn, opVars, startup, client, prepare>>

\* badge_con_vhci_init up to its first unlock.  The identity, the game and a
\* pending OTA verification may forbid it; the sequence store may fail.
StartRadio ==
    /\ loop.pc = "start"
    /\ \/ /\ loop' = [loop EXCEPT !.pc = "poll"]
          /\ UNCHANGED <<pol, startup>>
       \/ /\ "game" \in Explored /\ ~loop.yield /\ startup = "absent"
          /\ gate.observed /\ ~gate.inhibited
          /\ \/ /\ startup' = "starting" /\ loop' = [loop EXCEPT !.pc = "wait"]
                /\ pol' = [InitPolicy EXCEPT !.inhibited = gate.inhibited]
             \/ /\ startup' = "done" /\ loop' = [loop EXCEPT !.pc = "poll"]
                /\ pol' = Fail(InitPolicy)
    /\ UNCHANGED <<slot, overflow, cmds, radioOn, opVars, gate, client, prepare>>

\* The rest of it: the controller comes up, or fail_initialization.
RadioStarted ==
    /\ loop.pc = "wait"
    /\ startup' = "done" /\ loop' = [loop EXCEPT !.pc = "poll"]
    /\ \/ pol' = [ControllerUp(pol) EXCEPT !.inhibited = gate.inhibited]
       \/ pol' = Fail(pol)
    /\ UNCHANGED <<slot, overflow, cmds, radioOn, opVars, gate, client, prepare>>

\* The inputs of the round (a game that runs and whose self-delivery is
\* acknowledged, or not), then badge_con_vhci_poll.
PollRound ==
    /\ loop.pc = "poll" /\ loop' = IdleLoop
    /\ \E expired, due, room, ready \in BOOLEAN :
         LET told == IF startup = "absent" THEN pol
                     ELSE [pol EXCEPT !.game = ready,
                                      !.ready = ~loop.yield /\ ready]
         IN  Poll(told, expired, due, room)
    /\ UNCHANGED <<opVars, gate, startup, client, prepare>>

ControllerStep ==
    /\ Controller
    /\ UNCHANGED <<opVars, gate, startup, loop, client, prepare>>

DisplayLoop ==
    \/ Sample \/ ReadCoordinator \/ Compare \/ SampleFinally
    \/ ApplyPolicy \/ StartRadio \/ RadioStarted \/ PollRound

-----------------------------------------------------------------------------
(* A firmware operation: fw_store_operation_try_begin on a game boot,      *)
(* then fw_store_operation_end.  Every refusal just returns.               *)
Goto(c, pc) == client' = [client EXCEPT ![c].pc = pc]
GiveUp(c) == client' = [client EXCEPT ![c] = IdleClient]

RequestBegin(c) ==
    /\ client[c].pc = "idle"
    /\ c = Worker => worker \in {"RUNNING", "QUIESCING"}
    /\ SetOp(RequestInhibit(op))
    /\ client' = [client EXCEPT ![c].pc = "request", ![c].epoch = op'.epoch]
    /\ UNCHANGED <<radioVars, holder, safe, suspend, worker, gate, startup, loop,
                   prepare>>

\* The try-lock of the policy's mutex may fail.
RequestQuiescence(c) ==
    /\ client[c].pc = "request"
    /\ \/ GiveUp(c) /\ UNCHANGED <<gate, pol>>
       \/ /\ GateAccepts(client[c].epoch, TRUE)
          /\ ApplyGate(client[c].epoch, TRUE) /\ Goto(c, "check")
    /\ UNCHANGED <<slot, overflow, cmds, radioOn, opVars, startup, loop, prepare>>

CheckQuiet(c) ==
    /\ client[c].pc = "check"
    /\ \/ GiveUp(c)
       \/ RadioQuietAt(client[c].epoch) /\ Goto(c, "claim")
    /\ UNCHANGED <<radioVars, opVars, gate, startup, loop, prepare>>

ClaimAtAnyEpoch(c) ==
    /\ client[c].pc = "claim"
    /\ IF CanBegin(op)
       THEN /\ Room(op) /\ op' = Begin(op, c)
            /\ client' = [client EXCEPT ![c].pc = "own", ![c].epoch = 0,
                                        ![c].token = IssuedToken(op, c)]
       ELSE GiveUp(c) /\ UNCHANGED op
    /\ UNCHANGED <<radioVars, holder, safe, suspend, worker, gate, startup, loop,
                   prepare>>

Claim(c) ==
    /\ client[c].pc = "claim"
    /\ IF CanBeginQuiesced(op, client[c].epoch)
       THEN /\ Room(op) /\ op' = Begin(op, c)
            /\ client' = [client EXCEPT ![c].pc = "own", ![c].epoch = 0,
                                        ![c].token = IssuedToken(op, c)]
       ELSE GiveUp(c) /\ UNCHANGED op
    /\ UNCHANGED <<radioVars, holder, safe, suspend, worker, gate, startup, loop,
                   prepare>>

EndOperation(c) ==
    /\ client[c].pc = "own" /\ CanEnd(op, client[c].token)
    /\ op' = End(op)
    /\ client' = [client EXCEPT ![c] = [IdleClient EXCEPT !.pc = "reconcile"]]
    /\ UNCHANGED <<radioVars, holder, safe, suspend, worker, gate, startup, loop,
                   prepare>>

Reconciled(s) ==
    IF safe /\ ~suspend THEN ClearInhibit(s) ELSE RequestInhibit(s)

\* auto_coordinator_reconcile_radio_inhibit; the lock may time out.
ReconcileAfterEnd(c) ==
    /\ client[c].pc = "reconcile"
    /\ \/ holder = "free" /\ SetOp(Reconciled(op))
       \/ holder # "free" /\ SetOp(RequestInhibit(op))
    /\ GiveUp(c)
    /\ UNCHANGED <<radioVars, holder, safe, suspend, worker, gate, startup, loop,
                   prepare>>

ClientStep(c) ==
    \/ RequestBegin(c) \/ RequestQuiescence(c) \/ CheckQuiet(c) \/ Claim(c)
    \/ EndOperation(c) \/ ReconcileAfterEnd(c)

-----------------------------------------------------------------------------
(* The coordinator and its worker.                                         *)
unchangedByCoordinator == <<radioVars, gate, startup, loop, client, prepare>>

\* The record changes in memory and is then written to flash, mutex held.
BeginSave ==
    /\ holder = "free" /\ holder' = "save"
    /\ safe' \in BOOLEAN
    /\ UNCHANGED <<unchangedByCoordinator, op, suspend, worker>>

\* A record that could not be written is uncertain: never safe.
EndSave ==
    /\ holder = "save" /\ holder' = "free"
    /\ \/ SetOp(Reconciled(op)) /\ UNCHANGED safe
       \/ SetOp(RequestInhibit(op)) /\ safe' = FALSE
    /\ UNCHANGED <<unchangedByCoordinator, suspend, worker>>

StartWorkerRegardless ==
    /\ holder = "free" /\ ~safe /\ worker \in {"IDLE", "SUSPENDED"}
    /\ worker' = "RUNNING"
    /\ UNCHANGED <<unchangedByCoordinator, op, holder, safe, suspend>>

StartWorker ==
    /\ holder = "free" /\ ~safe /\ worker \in {"IDLE", "SUSPENDED"}
    /\ IF suspend
       THEN worker' = "SUSPENDED" /\ SetOp(RequestInhibit(op))
       ELSE worker' = "RUNNING" /\ UNCHANGED op
    /\ UNCHANGED <<unchangedByCoordinator, holder, safe, suspend>>

\* The worker reaches its safe point, or runs out of work.
StopWorker ==
    /\ holder = "free" /\ worker \in {"RUNNING", "QUIESCING"}
    /\ Worker \in Clients => client[Worker].pc = "idle"
    /\ worker' = IF suspend THEN "SUSPENDED" ELSE "IDLE"
    /\ SetOp(Reconciled(op))
    /\ UNCHANGED <<unchangedByCoordinator, holder, safe, suspend>>

\* fw_store_try_reserve_recovery_restart, by the health supervisor.
ReserveRecovery ==
    /\ "recovery" \in Explored
    /\ CanReserveRestart(op) /\ Room(op)
    /\ op' = ReserveRestart(op)
    /\ UNCHANGED <<unchangedByCoordinator, holder, safe, suspend, worker>>

Coordinator == BeginSave \/ EndSave \/ StartWorker \/ StopWorker

-----------------------------------------------------------------------------
(* fw_store_request_update_preemption; the host asks again after every     *)
(* refusal and restarts the badge on a grant.                              *)
Refused == prepare' = IdlePrepare

RequestPreempt ==
    /\ "maintenance" \in Explored
    /\ prepare.pc = "idle" /\ prepare.result = "none"
    /\ op' = RequestPreemption(op)
    /\ IF op.reserved THEN UNCHANGED prepare
       ELSE prepare' = [prepare EXCEPT !.pc = "request", !.active = op'.active,
                                       !.epoch = op'.epoch]
    /\ UNCHANGED <<radioVars, holder, safe, suspend, worker, gate, startup, loop,
                   client>>

RequestOff(from, to, before) ==
    /\ prepare.pc = from
    /\ \/ UNCHANGED <<gate, pol>>
          /\ prepare' = [prepare EXCEPT !.pc = to, !.accepted = FALSE]
       \/ /\ ApplyGate(prepare.epoch, TRUE)
          /\ prepare' = [prepare EXCEPT !.pc = to,
               !.accepted = before /\ GateAccepts(prepare.epoch, TRUE)]
    /\ UNCHANGED <<slot, overflow, cmds, radioOn, opVars, startup, loop, client>>

PrepareRequest == RequestOff("request", "suspend", TRUE)

\* The mutex is taken: the worker is told to suspend, or is suspended.
PrepareLocked ==
    /\ prepare.pc = "suspend" /\ holder = "free"
    /\ suspend' = TRUE
    /\ IF worker \in {"RUNNING", "QUIESCING"}
       THEN worker' = "QUIESCING" /\ Refused
       ELSE /\ worker' = "SUSPENDED"
            /\ IF prepare.active THEN Refused
               ELSE prepare' = [prepare EXCEPT !.pc = "resample", !.epoch = 0]
    /\ UNCHANGED <<radioVars, op, holder, safe, gate, startup, loop, client>>

PrepareSuspend ==
    \/ PrepareLocked
    \/ /\ prepare.pc = "suspend" /\ Refused
       /\ UNCHANGED <<radioVars, opVars, gate, startup, loop, client>>

PrepareResample ==
    /\ prepare.pc = "resample"
    /\ IF op.active THEN Refused
       ELSE prepare' = [prepare EXCEPT !.pc = "confirm", !.epoch = op.epoch]
    /\ UNCHANGED <<radioVars, opVars, gate, startup, loop, client>>

PrepareConfirm == RequestOff("confirm", "verify", prepare.accepted)

PrepareVerify ==
    /\ prepare.pc = "verify"
    /\ IF op.epoch # prepare.epoch \/ ~op.inhibited \/ ~op.preempt THEN Refused
       ELSE prepare' = [prepare EXCEPT !.pc = "ask", !.active = op.active]
    /\ UNCHANGED <<radioVars, opVars, gate, startup, loop, client>>

\* badge_update_prepare_decide: quiet, or at least safe to restart.
PrepareDecide ==
    /\ prepare.pc = "ask"
    /\ IF prepare.active THEN Refused
       ELSE \/ prepare' = [IdlePrepare EXCEPT !.result = "safe"]
            \/ /\ prepare.accepted /\ RadioQuietAt(prepare.epoch)
               /\ prepare' = [IdlePrepare EXCEPT !.result = "quiesced"]
    /\ UNCHANGED <<radioVars, opVars, gate, startup, loop, client>>

Preparation ==
    \/ RequestPreempt \/ PrepareRequest \/ PrepareSuspend \/ PrepareResample
    \/ PrepareConfirm \/ PrepareVerify \/ PrepareDecide

-----------------------------------------------------------------------------
QNext ==
    \/ DisplayLoop \/ ControllerStep
    \/ \E c \in Clients : ClientStep(c)
    \/ Coordinator \/ ReserveRecovery \/ Preparation

QSpec == QInit /\ [][QNext]_vars

\* Tasks run; the mutex, asked for again and again, is got in the end; an
\* operation and a save in progress end.
FairQSpec ==
    /\ QSpec
    /\ WF_vars(DisplayLoop) /\ WF_vars(ControllerStep)
    /\ WF_vars(Preparation) /\ SF_vars(PrepareLocked)
    /\ WF_vars(EndSave) /\ SF_vars(StopWorker)
    /\ \A c \in Clients :
         WF_vars(RequestQuiescence(c) \/ CheckQuiet(c) \/ Claim(c)
                 \/ EndOperation(c) \/ ReconcileAfterEnd(c))

-----------------------------------------------------------------------------
\* What the inhibit epoch is for: while a firmware operation is active the
\* radio is off, and no command the controller holds can start it.
OperationRadioSilent ==
    op.active => ~radioOn /\ \A i \in DOMAIN cmds : cmds[i] # "ENABLE"

\* A grant to the maintenance reboot stays true until the reboot: no
\* operation begins, the worker stays at its safe point, and a grant that
\* said "quiesced" keeps the radio off.
GrantStays ==
    /\ prepare.result # "none" => ~op.active /\ worker = "SUSPENDED"
    /\ prepare.result = "quiesced" => ~radioOn

\* A host that keeps asking for the maintenance reboot gets its grant: a
\* running operation ends, the worker stops at its safe point and is not
\* started again, and no race loses the request.  Only a coordinator that
\* saves for ever can refuse for ever: each request tries its mutex once.
MaintenanceGranted ==
    <>[](holder = "free") => (op.preempt ~> prepare.result # "none")
=============================================================================
