------------------------- MODULE FirmwareOperation -------------------------
(***************************************************************************)
(* The tasks of the uplink that mutate firmware, the token that admits one *)
(* of them at a time, and the recursive mutex that gives one task the      *)
(* scanner UARTs (fw_store_operation_try_begin / fw_store_operation_end of *)
(* network/fw_store.c, fw_relay_prepare_adapter.c, the lease of            *)
(* comms/uart_rx.c, the startup gate).  This is the begin path of a        *)
(* maintenance boot and of builds without the game radio; RadioQuiescence  *)
(* has the other one.                                                      *)
(***************************************************************************)
EXTENDS OperationToken

CONSTANTS
    Tasks,          \* FreeRTOS tasks: USB, HTTP server, relay worker, main
    NoTask,
    LeasedOwners,   \* owners whose begin also takes the UART lease (staging)
    PreparedOwners  \* owners that take the lease themselves, after the token
                    \* (relay); the others stream nothing to a scanner

ASSUME TasksAssumption == NoTask \notin Tasks
ASSUME StylesAssumption ==
    /\ LeasedOwners \subseteq Owners /\ PreparedOwners \subseteq Owners
    /\ LeasedOwners \cap PreparedOwners = {}

VARIABLES
    op,     \* s_operation, the token record
    pc,     \* where each task is in its operation
    tok,    \* each task's copy of its token
    lease,  \* s_uart_tx_lock: the holder and the depth of the recursion
    line    \* line[t]: t is writing one JSON line to a scanner
vars == <<op, pc, tok, lease, line>>

TypeOK ==
    /\ op \in OperationState
    /\ pc \in [Tasks -> {"idle", "claimed", "leased", "preparing", "running",
                         "released", "dropping", "reconciling"}]
    /\ tok \in [Tasks -> Token]
    /\ lease \in [holder : Tasks \cup {NoTask}, depth : Nat]
    /\ line \in [Tasks -> BOOLEAN]

Init ==
    /\ op = InitOperation
    /\ pc = [t \in Tasks |-> "idle"]
    /\ tok = [t \in Tasks |-> NoToken]
    /\ lease = [holder |-> NoTask, depth |-> 0]
    /\ line = [t \in Tasks |-> FALSE]

-----------------------------------------------------------------------------
(* The lease: xSemaphoreTakeRecursive and xSemaphoreGiveRecursive.         *)
CanTake(t) == lease.holder \in {NoTask, t}
Taken(t) == [holder |-> t, depth |-> lease.depth + 1]

\* A give by a task that does not hold the mutex is refused and ignored.
Given(t) ==
    IF lease.holder # t THEN lease
    ELSE IF lease.depth = 1 THEN [holder |-> NoTask, depth |-> 0]
    ELSE [lease EXCEPT !.depth = @ - 1]

Goto(t, where) == pc' = [pc EXCEPT ![t] = where]

-----------------------------------------------------------------------------
(* fw_store_operation_try_begin, and what each caller does next.           *)
BeginOperation(t, o) ==
    /\ pc[t] = "idle" /\ ~line[t]
    /\ Room(op) /\ CanBegin(op)
    /\ op' = Begin(op, o)
    /\ tok' = [tok EXCEPT ![t] = IssuedToken(op, o)]
    /\ Goto(t, IF o \in LeasedOwners THEN "claimed"
               ELSE IF o \in PreparedOwners THEN "preparing" ELSE "running")
    /\ UNCHANGED <<lease, line>>

AcquireLease(t) ==
    /\ pc[t] \in {"claimed", "preparing"}
    /\ CanTake(t)
    /\ lease' = Taken(t)
    /\ Goto(t, IF pc[t] = "claimed" THEN "leased" ELSE "running")
    /\ UNCHANGED <<op, tok, line>>

\* The two-second wait for the lease ends without it: the token goes back.
LeaseTimeout(t) ==
    /\ pc[t] \in {"claimed", "preparing"}
    /\ ~CanTake(t) /\ Room(op)
    /\ op' = IF CanEnd(op, tok[t]) THEN End(op) ELSE op
    /\ tok' = [tok EXCEPT ![t] = NoToken]
    /\ Goto(t, "reconciling")
    /\ UNCHANGED <<lease, line>>

Attach(t) ==
    /\ pc[t] = "leased"
    /\ IF CanAttachLease(op, tok[t])
       THEN /\ op' = AttachLease(op)
            /\ Goto(t, "running")
            /\ UNCHANGED <<tok, lease>>
       ELSE /\ Room(op)
            /\ lease' = Given(t)
            /\ op' = IF CanEnd(op, tok[t]) THEN End(op) ELSE op
            /\ tok' = [tok EXCEPT ![t] = NoToken]
            /\ Goto(t, "reconciling")
    /\ UNCHANGED line

EndCallKeepsLease(t) ==
    IF CanEnd(op, tok[t])
    THEN /\ Room(op)
         /\ op' = End(op)
         /\ Goto(t, "reconciling")
         /\ UNCHANGED <<tok, lease, line>>
    ELSE UNCHANGED vars

\* fw_store_operation_end up to the unlock: refused for a token that is not
\* the active one; the caller keeps its copy either way.
EndCall(t) ==
    IF CanEnd(op, tok[t])
    THEN /\ Room(op)
         /\ op' = End(op)
         /\ Goto(t, IF op.lease THEN "dropping" ELSE "reconciling")
         /\ UNCHANGED <<tok, lease, line>>
    ELSE UNCHANGED vars

EndOperation(t) ==
    /\ ~line[t]
    /\ \/ pc[t] = "running" /\ tok[t].owner \notin PreparedOwners
       \/ pc[t] = "released"
    /\ EndCall(t)

\* A second release with a copy kept from an operation that has ended.
EndAgain(t) ==
    /\ pc[t] = "idle" /\ ~line[t] /\ tok[t] # NoToken
    /\ EndCall(t)

\* fw_relay_prepared_release gives the lease back before the token.
ReleasePrepared(t) ==
    /\ pc[t] = "running" /\ ~line[t]
    /\ tok[t].owner \in PreparedOwners
    /\ lease' = Given(t)
    /\ Goto(t, "released")
    /\ UNCHANGED <<op, tok, line>>

DropLease(t) ==
    /\ pc[t] = "dropping"
    /\ lease' = Given(t)
    /\ Goto(t, "reconciling")
    /\ UNCHANGED <<op, tok, line>>

\* auto_coordinator_reconcile_radio_inhibit: the coordinator finds the radio
\* safe, or it does not, or its mutex is not free in time.
Reconcile(t) ==
    /\ pc[t] = "reconciling" /\ Room(op)
    /\ op' \in {ClearInhibit(op), RequestInhibit(op)}
    /\ Goto(t, "idle")
    /\ UNCHANGED <<tok, lease, line>>

-----------------------------------------------------------------------------
(* A JSON line to a scanner: by an idle task, or by the operation's own.   *)
LineStartUnlocked(t) ==
    /\ pc[t] \in {"idle", "running"} /\ ~line[t]
    /\ lease' = IF CanTake(t) THEN Taken(t) ELSE lease
    /\ line' = [line EXCEPT ![t] = TRUE]
    /\ UNCHANGED <<op, pc, tok>>

LineStart(t) ==
    /\ pc[t] \in {"idle", "running"} /\ ~line[t]
    /\ CanTake(t)
    /\ lease' = Taken(t)
    /\ line' = [line EXCEPT ![t] = TRUE]
    /\ UNCHANGED <<op, pc, tok>>

LineEnd(t) ==
    /\ line[t]
    /\ lease' = Given(t)
    /\ line' = [line EXCEPT ![t] = FALSE]
    /\ UNCHANGED <<op, pc, tok>>

-----------------------------------------------------------------------------
(* The USB watchdog's restart and the host's request for maintenance.      *)
ReserveRecoveryRestart ==
    /\ Room(op) /\ CanReserveRestart(op)
    /\ op' = ReserveRestart(op)
    /\ UNCHANGED <<pc, tok, lease, line>>

RequestUpdatePreemption ==
    /\ Room(op) /\ RequestPreemption(op) # op
    /\ op' = RequestPreemption(op)
    /\ UNCHANGED <<pc, tok, lease, line>>

\* The restart either of them ends in: every variable is RAM.
Restart ==
    /\ op.reserved \/ (op.preempt /\ ~op.active) \/ ~Room(op)
    /\ op' = InitOperation
    /\ pc' = [t \in Tasks |-> "idle"]
    /\ tok' = [t \in Tasks |-> NoToken]
    /\ lease' = [holder |-> NoTask, depth |-> 0]
    /\ line' = [t \in Tasks |-> FALSE]

TaskStep(t) ==
    \/ \E o \in Owners : BeginOperation(t, o)
    \/ AcquireLease(t) \/ LeaseTimeout(t) \/ Attach(t)
    \/ EndOperation(t) \/ EndAgain(t) \/ ReleasePrepared(t)
    \/ DropLease(t) \/ Reconcile(t)
    \/ LineStart(t) \/ LineEnd(t)

Next ==
    \/ \E t \in Tasks : TaskStep(t)
    \/ ReserveRecoveryRestart \/ RequestUpdatePreemption \/ Restart

Spec == Init /\ [][Next]_vars

-----------------------------------------------------------------------------
Owning(t) ==
    pc[t] \in {"claimed", "leased", "preparing", "running", "released"}

\* t is sending a firmware image to a scanner.
Streaming(t) ==
    pc[t] = "running" /\ tok[t].owner \in LeasedOwners \cup PreparedOwners

\* The uses task t makes of the lease: for its operation, and for a line.
LeaseUses(t) ==
    (IF pc[t] \in {"leased", "dropping"} \/ Streaming(t) THEN 1 ELSE 0)
        + (IF line[t] THEN 1 ELSE 0)

\* However begins, lease timeouts, double releases and preemption interleave,
\* the token is active exactly while one task is inside an operation, and
\* that task's copy is the one the token answers to: no second owner, and no
\* token left active with nobody to end it (fw_operation_state_end).
OneOwner ==
    /\ \A t, u \in Tasks : Owning(t) /\ Owning(u) => t = u
    /\ \A t \in Tasks : Owning(t) => TokenMatches(op, tok[t])
    /\ op.active => \E t \in Tasks : Owning(t)

\* The mutex is held to the depth its holder uses, and by nobody when nobody
\* uses it: no path of begin, timeout, attach, release and end leaks a lease
\* or gives back one that is still in use (uart_rx_scanner_tx_lease_*).
LeaseBalanced ==
    /\ \A t \in Tasks :
         LeaseUses(t) = IF lease.holder = t THEN lease.depth ELSE 0
    /\ lease.holder = NoTask => lease.depth = 0

\* While a task streams an image to a scanner no other task is in the middle
\* of a JSON line on those UARTs: the lease covers the whole binary session.
StreamUndisturbed ==
    \A t, u \in Tasks : Streaming(t) /\ line[u] => u = t

\* The restart the USB watchdog has committed to never interrupts a firmware
\* operation, neither one that ran when it decided nor one begun afterwards
\* (fw_store_try_reserve_recovery_restart: "reopen the TOCTOU race").
RestartInterruptsNothing ==
    op.reserved => \A t \in Tasks : ~Owning(t)

-----------------------------------------------------------------------------
(* The token and the lease seen as exclusive use of the firmware path.     *)
TheOwner ==
    IF \E t \in Tasks : Owning(t) THEN CHOOSE t \in Tasks : Owning(t) ELSE NoTask

Exclusive ==
    INSTANCE ExclusiveUse WITH
        owner <- TheOwner,
        stream <- \E t \in Tasks : Streaming(t),
        closed <- op.reserved \/ op.preempt

\* Every step of the begin, end, lease, preemption and restart code is a step
\* that a caller of one exclusive resource may see, or none at all; the lease
\* outliving its token for a moment (DropLease) is not visible to the callers.
ImplementsExclusiveUse == Exclusive!Spec
=============================================================================
