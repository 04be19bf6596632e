-------------------------- MODULE AutoCoordinator --------------------------
(***************************************************************************)
(* The automatic scanner-update campaign of the uplink (the                *)
(* s_auto_coordinator part of network/fw_store.c, firmware_auto_policy.c,  *)
(* firmware_coordinator_migration.c).  One permanent worker relays the     *)
(* staged image to each requested scanner, the BLE slot first; the RX task *)
(* of each scanner records what the scanner reports; the main task         *)
(* restores the campaign at boot and stages the next image.  They share a  *)
(* record in RAM whose every change is saved to NVS under one mutex; each  *)
(* action below is one critical section with the reads that precede it.    *)
(*                                                                         *)
(* Identity generations are abstracted to the marks a publication has      *)
(* followed: "floor" the campaign's identity floor, "offer" and "ready"    *)
(* the two bindings, "reserve" the snapshot of the last reservation.       *)
(***************************************************************************)
EXTENDS Naturals, FiniteSets

CONSTANTS
    MaxAttempts, MaxProbes,  \* FW_AUTO_RELAY_MAX_ATTEMPTS, _READY_MAX_PROBES
    Masks,                   \* the target masks a stage may request
    Silent,                  \* scanners that never say anything
    Channels,                \* how an image may be staged
    Scenarios                \* first boots, each with its budgets (InitNvs, Init)

ASSUME BudgetAssumption == MaxAttempts \in Nat \ {0} /\ MaxProbes \in Nat

Slots == {"ble", "wifi"}
ASSUME SlotAssumption == Masks \subseteq (SUBSET Slots) \ {{}} /\ Silent \subseteq Slots
Older == {"old", "legacy"}       \* the staged image is newer than these
Tasks == Slots \cup {"worker", "main"}
Marks == {"floor", "offer", "ready", "reserve"}
Versions == Older \cup {"target", "ahead", "alien"}
Boards == Nat                    \* hardware ids; 0 is none
ASSUME ScenarioAssumption ==
    /\ Channels \subseteq {"usb", "http"}
    /\ \A how \in Scenarios :
         /\ how.boot \in {"empty", "journal", "staged", "schema2"}
         /\ how.mask \in (SUBSET Slots) \ {{}}
         /\ how.boot = "schema2" => "wifi" \in how.mask
         /\ how.versions \subseteq [Slots -> Versions]
         /\ {how.crashes, how.faults, how.lapses, how.stages, how.swaps, how.preempts}
               \subseteq Nat

VARIABLES
    nvs,    \* manifest [gen, mask] (gen 0: none) and coordinator record
    ram,    \* s_auto_coordinator, _loaded, _persistence_uncertain
    vol,    \* per slot: marks, deadline, bindings, recovery clock
    ident,  \* last published identity of a slot
    world,  \* the scanner itself: board and version
    pc, ask, job,
    ctl,    \* operation, radio inhibit, preemption, worker life, notification
    hist    \* what is left of the budgets, and the relays of this generation
vars == <<nvs, ram, vol, ident, world, pc, ask, job, ctl, hist>>

Terminal == {"excluded", "converged", "current", "refused", "failed", "newer"}
Slot(st) == [state |-> st, pending |-> FALSE, attempts |-> 0, probes |-> 0,
             wait |-> "none", bound |-> 0]
NoBlob == [gen |-> 0, schema |-> 3, mask |-> {}, closed |-> FALSE,
           slot |-> [s \in Slots |-> Slot("excluded")]]
NoManifest == [gen |-> 0, mask |-> {}]
Unbound == [heard |-> {}, deadline |-> "none", offer |-> "none",
            ready |-> "none", legacy |-> FALSE, recover |-> "unset"]
NoAsk == [ident |-> {}, gen |-> 0]
NoJob == [slot |-> "none", gen |-> 0, result |-> "none"]

\* auto_coordinator_set_fail_closed_locked.
Closed(g) ==
    [gen |-> g, schema |-> 3, mask |-> {}, closed |-> TRUE,
     slot |-> [s \in Slots |-> [Slot("failed") EXCEPT !.attempts = MaxAttempts,
                                                      !.probes = MaxProbes]]]
\* auto_coordinator_begin_generation, the record it builds.
Fresh(g, mask) ==
    [gen |-> g, schema |-> 3, mask |-> mask, closed |-> FALSE,
     slot |-> [s \in Slots |-> Slot(IF s \in mask THEN "awaiting" ELSE "excluded")]]

\* auto_coordinator_blob_valid.
ValidSlot(b, s) ==
    LET r == b.slot[s] IN
    /\ r.attempts <= MaxAttempts /\ r.probes <= MaxProbes
    /\ r.wait = "active" => r.state \in {"awaiting", "offered"}
    /\ r.wait = "exhausted" => s \in b.mask /\ r.state = "failed"
    /\ (r.bound # 0) = (r.state \in {"ready", "relaying", "recovering"})
    /\ IF b.closed THEN r.state = "failed"
       ELSE /\ (s \in b.mask) = (r.state # "excluded")
            /\ r.pending = (r.state = "ready")
Valid(b) ==
    /\ b.gen # 0
    /\ b.closed = (b.mask = {})
    /\ \A s \in Slots : ValidSlot(b, s)

-----------------------------------------------------------------------------
(* Gates and the radio permit.                                             *)
GateOpen(b, s) ==
    s = "wifi" /\ "ble" \in b.mask => b.slot["ble"].state \in Terminal
Requested(g, s) == ram.loaded /\ ram.blob.gen = g /\ s \in ram.blob.mask
Live(b) == {s \in b.mask : b.slot[s].state \notin Terminal}
\* The slots the worker may work on: at most one, for the Wi-Fi gate is shut
\* while the BLE slot is live.
Turn == {s \in Live(ram.blob) : GateOpen(ram.blob, s)}
AllTerminal(r) == r.loaded /\ Live(r.blob) = {}

ReconcileTrusting(r, c) ==
    IF (~r.loaded \/ AllTerminal(r)) /\ ~c.preempt
    THEN [c EXCEPT !.inhibit = @ /\ c.op # "none"]
    ELSE [c EXCEPT !.inhibit = TRUE]
\* auto_coordinator_reconcile_radio_inhibit_locked, once ram is r; a clear is
\* refused while an operation is active.
Reconcile(r, c) ==
    IF ~r.uncertain /\ (~r.loaded \/ AllTerminal(r)) /\ ~c.preempt
    THEN [c EXCEPT !.inhibit = @ /\ c.op # "none"]
    ELSE [c EXCEPT !.inhibit = TRUE]

(* auto_coordinator_save_locked: a failed nvs_set_blob leaves the old      *)
(* record, a failed commit may have left the new one.                      *)
Outcomes(b) ==
    {[ok |-> TRUE, blob |-> b, faults |-> 0]} \cup
    (IF hist.faults = 0 THEN {}
     ELSE {[ok |-> FALSE, blob |-> n, faults |-> 1] : n \in {nvs.blob, b}})
StoredUnmarked(w, r, c, m) ==
    /\ nvs' = [manifest |-> m, blob |-> w.blob]
    /\ ram' = [r EXCEPT !.uncertain = FALSE]
    /\ ctl' = IF w.ok THEN Reconcile(ram', c) ELSE [c EXCEPT !.inhibit = TRUE]
    /\ hist' = [hist EXCEPT !.faults = @ - w.faults]
\* The write w happened; r is what RAM holds, c the controls, m the manifest.
StoredUnder(w, r, c, m) ==
    /\ nvs' = [manifest |-> m, blob |-> w.blob]
    /\ ram' = [r EXCEPT !.uncertain = ~w.ok]
    /\ ctl' = IF w.ok THEN Reconcile(ram', c) ELSE [c EXCEPT !.inhibit = TRUE]
    /\ hist' = [hist EXCEPT !.faults = @ - w.faults]
Stored(w, r, c) == StoredUnder(w, r, c, nvs.manifest)
Holding(b) == [ram EXCEPT !.loaded = TRUE, !.blob = b]
\* A handler saves b; when that fails it puts back what RAM held.
SaveOrRevert(w, b) == Stored(w, IF w.ok THEN Holding(b) ELSE ram, ctl)

\* auto_coordinator_fail_closed_after_save_failure_locked: RAM fails closed;
\* the retries save that record, or fail as the first write did (the deadlines
\* it clears no longer matter to a closed record).
Closings(w, g) == {[w EXCEPT !.ok = TRUE, !.blob = Closed(g)], w,
                   [w EXCEPT !.blob = Closed(g)]}
CloseAfter(w, c) ==
    \E v \in Closings(w, ram.blob.gen) :
        Stored(v, Holding(Closed(ram.blob.gen)), [c EXCEPT !.running = FALSE])
SaveOrClose(w, b) == IF w.ok THEN Stored(w, Holding(b), ctl) ELSE CloseAfter(w, ctl)

Goto(t, where) == pc' = [pc EXCEPT ![t] = where]

-----------------------------------------------------------------------------
(* The clocks of firmware_auto_policy.c                                    *)
IsFresh(s, mark) == mark \in vol[s].heard
Forget(v, marks) == [v EXCEPT !.heard = @ \ marks]
ClearBindings(v) == [v EXCEPT !.offer = "none", !.ready = "none",
                              !.legacy = FALSE, !.heard = @ \cap {"floor"}]
\* auto_set_identity_floors_locked
NoFloors == [s \in Slots |-> [Unbound EXCEPT !.heard = vol[s].heard \cap {"floor"}]]
Floored == [s \in Slots |-> Unbound]
Change(b, s, st) ==
    [b EXCEPT !.slot[s] = [@ EXCEPT !.state = st, !.pending = (st = "ready"),
                                    !.wait = "none", !.bound = 0]]
WithDeadline(s, d) == [vol EXCEPT ![s].deadline = d]

AcquireUncounted(b, s) ==
    LET r == b.slot[s] IN
    IF IsFresh(s, "floor")
    THEN [what |-> "probe", blob |-> [b EXCEPT !.slot[s].wait = "none"], deadline |-> "none"]
    ELSE IF r.wait # "active"
         THEN [what |-> "ask", blob |-> [b EXCEPT !.slot[s].wait = "active"],
               deadline |-> "open"]
         ELSE [what |-> "wait", blob |-> b, deadline |-> vol[s].deadline]
\* fof_auto_identity_acquisition_decide then fof_auto_readiness_probe_decide:
\* what slot s of b needs next, and the record that remembers it.
Step(what, b, d) == [what |-> what, blob |-> b, deadline |-> d]
Acquire(b, s) ==
    LET r == b.slot[s] IN
    IF IsFresh(s, "floor")
    THEN IF r.probes >= MaxProbes
         THEN Step("over", Change(b, s, "failed"), "none")
         ELSE Step("probe", [b EXCEPT !.slot[s].wait = "none",
                                      !.slot[s].probes = @ + 1], "none")
    ELSE IF r.wait # "active"
         THEN Step("ask", [b EXCEPT !.slot[s].wait = "active"], "open")
    ELSE IF vol[s].deadline # "open"
         THEN Step("over", [Change(b, s, "failed") EXCEPT
                                !.slot[s].wait = "exhausted"], "none")
    ELSE Step("wait", b, "open")

-----------------------------------------------------------------------------
(* Shared tails: auto_coordinator_reprompt_requested, which looks at the    *)
(* slots in order (the second one sees what the first became), then         *)
(* auto_deliver_identity_prompts and auto_coordinator_start_worker.         *)
After(t) == IF t = "worker" THEN "top" ELSE "kick"
Waits(b, s) ==
    s \in b.mask /\ GateOpen(b, s) /\ b.slot[s].state \in {"awaiting", "offered"}
Considered(b, s) ==
    IF Waits(b, s) THEN Acquire(b, s) ELSE Step("none", b, vol[s].deadline)

\* What follows from what the slots need.
Prompt(t, does, b) ==
    LET asked == {s \in Slots : does[s].what = "ask"}
        next == [s \in Slots |-> IF does[s].what = "over"
                                 THEN ClearBindings([vol[s] EXCEPT !.deadline = "none"])
                                 ELSE [vol[s] EXCEPT !.deadline = does[s].deadline]]
    IN \E w \in Outcomes(b) :
         /\ SaveOrClose(w, b)
         /\ vol' = IF w.ok THEN next
                   ELSE [s \in Slots |-> [vol[s] EXCEPT !.deadline = "none"]]
         /\ ask' = [ask EXCEPT ![t] = IF w.ok /\ asked # {}
                                      THEN [ident |-> asked, gen |-> ram.blob.gen]
                                      ELSE NoAsk]
         /\ Goto(t, IF w.ok /\ asked # {} THEN "deliver" ELSE After(t))

Reprompt(t) ==
    /\ pc[t] = "reprompt"
    /\ \E first \in {Considered(ram.blob, "ble")} :
       \E second \in {Considered(first.blob, "wifi")} :
         IF ~ram.loaded \/ second.blob = ram.blob
         THEN Goto(t, After(t)) /\ UNCHANGED <<nvs, ram, vol, ask, ctl, hist>>
         ELSE Prompt(t, [s \in Slots |-> IF s = "ble" THEN first ELSE second], second.blob)
    /\ UNCHANGED <<ident, world, job>>

\* fw_store_is_relay_active: also true while the worker merely runs.
RelayActive == ctl.op # "none" \/ ctl.life \in {"running", "quiescing"}

\* Identity prompts; the readiness prompts follow only when every one of them
\* went out (a UART that refuses them counts as a fault).  No state follows from
\* one that was sent: a scanner may check at any time.
Deliver(t) ==
    /\ pc[t] = "deliver"
    /\ \E sent \in (IF RelayActive THEN {{}}
                     ELSE {ask[t].ident} \cup (IF hist.faults = 0 THEN {} ELSE {{}})) :
         /\ IF sent = ask[t].ident
            THEN Goto(t, After(t)) /\ ask' = [ask EXCEPT ![t] = NoAsk]
            ELSE /\ Goto(t, "rollback")
                 /\ ask' = [ask EXCEPT ![t].ident = @ \ sent]
    /\ UNCHANGED <<nvs, ram, vol, ident, world, job, ctl, hist>>

\* Prompts that were not sent give their wait back.
Rollback(t) ==
    /\ pc[t] = "rollback"
    /\ LET undone == {s \in ask[t].ident :
                        /\ ram.loaded /\ ram.blob.gen = ask[t].gen
                        /\ ram.blob.slot[s].state \notin Terminal
                        /\ ram.blob.slot[s].wait = "active"}
           b == [ram.blob EXCEPT !.slot =
                   [s \in Slots |-> IF s \in undone THEN [@[s] EXCEPT !.wait = "none"]
                                    ELSE @[s]]]
       IN /\ vol' = [s \in Slots |-> IF s \in undone
                        THEN [vol[s] EXCEPT !.deadline = "none"] ELSE vol[s]]
          /\ IF undone = {} THEN UNCHANGED <<nvs, ram, ctl, hist>>
             ELSE \E w \in Outcomes(b) : SaveOrClose(w, b)
    /\ ask' = [ask EXCEPT ![t] = NoAsk]
    /\ Goto(t, After(t))
    /\ UNCHANGED <<ident, world, job>>

Kicked(c) == [c EXCEPT !.running = TRUE, !.life = "running", !.notified = TRUE]
Kick(t) ==
    /\ pc[t] = "kick"
    /\ ctl' = IF ~ram.loaded \/ Live(ram.blob) = {} \/ ctl.running THEN ctl
              ELSE IF ctl.preempt THEN [ctl EXCEPT !.life = "suspended", !.inhibit = TRUE]
              ELSE Kicked(ctl)
    /\ Goto(t, "idle")
    /\ UNCHANGED <<nvs, ram, vol, ident, world, ask, job, hist>>

-----------------------------------------------------------------------------
(* Boot: fw_store_restore_auto_update_coordinator.                         *)
NotedInvalid == [loaded |-> FALSE, uncertain |-> FALSE, blob |-> NoBlob]

\* fof_fw_coordinator_migrate_v2: the old schema has no bound hardware.
Migrated(b) ==
    [b EXCEPT !.schema = 3, !.slot = [s \in Slots |->
        LET st == b.slot[s].state IN
        [b.slot[s] EXCEPT !.state = CASE st \in {"offered", "ready"} -> "awaiting"
                                      [] st = "relaying" -> "failed"
                                      [] OTHER -> st,
                          !.pending = FALSE]]]

RestoredBound(b) ==
    [b EXCEPT !.slot = [s \in Slots |->
        CASE s \notin b.mask \/ @[s].state \in Terminal \cup {"recovering"} -> @[s]
          [] @[s].state = "relaying" ->
                [@[s] EXCEPT !.state = "recovering", !.probes = 0]
          [] OTHER -> [@[s] EXCEPT !.state = "awaiting", !.pending = FALSE,
                                   !.probes = 0]]]
RestoredWithBudget(b) ==
    [b EXCEPT !.slot = [s \in Slots |->
        CASE s \notin b.mask \/ @[s].state \in Terminal \cup {"recovering"} -> @[s]
          [] @[s].state = "relaying" ->
                [@[s] EXCEPT !.state = "recovering", !.probes = 0,
                             !.attempts = @ - 1]
          [] OTHER -> [@[s] EXCEPT !.state = "awaiting", !.pending = FALSE,
                                   !.probes = 0, !.bound = 0]]]
\* An interrupted relay is recovered; readiness is asked for again.
Restored(b) ==
    [b EXCEPT !.slot = [s \in Slots |->
        CASE s \notin b.mask \/ @[s].state \in Terminal \cup {"recovering"} -> @[s]
          [] @[s].state = "relaying" ->
                [@[s] EXCEPT !.state = "recovering", !.probes = 0]
          [] OTHER -> [@[s] EXCEPT !.state = "awaiting", !.pending = FALSE,
                                   !.probes = 0, !.bound = 0]]]

Booted(where) == Goto("main", where) /\ UNCHANGED <<ident, world, ask, job>>
Refuse ==
    /\ ram' = [ram EXCEPT !.uncertain = TRUE]
    /\ ctl' = [ctl EXCEPT !.inhibit = TRUE]
    /\ Booted("failed") /\ UNCHANGED <<nvs, vol>>

Matches(b) ==
    b.gen = nvs.manifest.gen /\ (b.closed \/ b.mask = nvs.manifest.mask)

RestoreNothing ==
    /\ pc["main"] = "boot" /\ nvs.manifest.gen = 0
    /\ ram' = NotedInvalid
    /\ ctl' = Reconcile(ram', ctl)
    /\ vol' = NoFloors
    /\ Booted("idle") /\ UNCHANGED <<nvs, hist>>

\* The manifest or the record cannot be read, or a scanner's UART cannot be
\* fenced; or the record is of another campaign.
RestoreRefused ==
    /\ pc["main"] = "boot" /\ nvs.manifest.gen # 0
    /\ \/ /\ nvs.blob.gen # 0 /\ ~Matches(nvs.blob)
          /\ UNCHANGED hist
       \/ /\ hist.faults > 0
          /\ hist' = [hist EXCEPT !.faults = @ - 1]
    /\ Refuse

\* No record: the committed manifest is the journal of the campaign.  An
\* image that no longer validates closes it instead.
RestoreFromManifest ==
    LET g == nvs.manifest.gen IN
    /\ pc["main"] = "boot" /\ g # 0 /\ nvs.blob.gen = 0
    /\ vol' = Floored
    /\ \E w \in Outcomes(Fresh(g, nvs.manifest.mask)) :
         IF w.ok THEN Stored(w, Holding(w.blob), ctl) /\ Booted("reprompt")
         ELSE \/ /\ \E v \in Closings(w, g) : Stored(v, Holding(Closed(g)), ctl)
                 /\ Booted("failed")
              \/ /\ StoredUnder([w EXCEPT !.ok = TRUE, !.blob = Closed(g)],
                                 Holding(Closed(g)), ctl, NoManifest)
                 /\ Booted("idle")

RestoreRecord ==
    \E b \in {IF nvs.blob.schema = 2 THEN Migrated(nvs.blob) ELSE Restored(nvs.blob)} :
    /\ pc["main"] = "boot" /\ nvs.manifest.gen # 0
    /\ nvs.blob.gen # 0 /\ Matches(nvs.blob)
    /\ vol' = Floored
    /\ \E w \in (IF b # nvs.blob THEN Outcomes(b)
                 ELSE {[ok |-> TRUE, blob |-> b, faults |-> 0]}) :
         /\ Stored(w, IF ~w.ok /\ nvs.blob.schema = 2 THEN NotedInvalid ELSE Holding(b),
                   [ctl EXCEPT !.running = FALSE])
         /\ Booted(IF ~w.ok THEN "failed" ELSE IF b.closed THEN "idle" ELSE "abort")

\* auto_begin_recovery_after_restore: abort frames, then the cool-down.
BeginRecovery ==
    /\ pc["main"] = "abort"
    /\ vol' = [s \in Slots |-> IF ram.blob.slot[s].state = "recovering"
                               THEN [vol[s] EXCEPT !.recover = "cooling"] ELSE vol[s]]
    /\ Goto("main", "reprompt")
    /\ UNCHANGED <<nvs, ram, ident, world, ask, job, ctl, hist>>

-----------------------------------------------------------------------------
(* The worker: fw_auto_relay_task.                                         *)
Working == UNCHANGED <<ident, world, ask>>

WorkerWakes ==
    /\ pc["worker"] = "blocked" /\ ctl.notified
    /\ ctl' = IF ctl.preempt
              THEN Reconcile(ram, [ctl EXCEPT !.notified = FALSE, !.running = FALSE,
                                              !.life = "suspended"])
              ELSE [ctl EXCEPT !.notified = FALSE, !.running = TRUE, !.life = "running"]
    /\ Goto("worker", IF ctl.preempt THEN "blocked" ELSE "top")
    /\ Working /\ UNCHANGED <<nvs, ram, vol, job, hist>>

Leave(c) == ctl' = [c EXCEPT !.running = FALSE] /\ Goto("worker", "leaving")

WorkerStops ==
    /\ pc["worker"] = "top"
    /\ \/ /\ ctl.preempt
          /\ Leave(Reconcile(ram, [ctl EXCEPT !.life = "suspended"]))
       \/ /\ ~ctl.preempt /\ ctl.op = "none"
          /\ ~ram.loaded \/ {s \in Turn : ram.blob.slot[s].state # "relaying"} = {}
          /\ Leave(ctl)
    /\ Working /\ UNCHANGED <<nvs, ram, vol, job, hist>>

WorkerRests ==
    /\ pc["worker"] = "leaving"
    /\ ctl' = Reconcile(ram, [ctl EXCEPT !.running = FALSE, !.life =
                                 IF ctl.preempt THEN "suspended" ELSE "idle"])
    /\ Goto("worker", "blocked")
    /\ Working /\ UNCHANGED <<nvs, ram, vol, job, hist>>

AtTop(s, states) ==
    /\ pc["worker"] = "top" /\ ~ctl.preempt /\ ctl.op = "none"
    /\ ram.loaded /\ s \in Turn /\ ram.blob.slot[s].state \in states

\* An interrupted relay: probe the scanner once its clock allows, then give up.
WorkerRecovers(s) ==
    /\ AtTop(s, {"recovering"}) /\ vol[s].recover = "due"
    /\ LET over == ram.blob.slot[s].probes >= MaxProbes
           b == IF over THEN Change(ram.blob, s, "failed")
                ELSE [ram.blob EXCEPT !.slot[s].probes = @ + 1]
       IN \E w \in Outcomes(b) :
            /\ SaveOrClose(w, b)
            /\ vol' = IF ~w.ok THEN vol
                      ELSE [vol EXCEPT ![s] =
                              IF over THEN [ClearBindings(@) EXCEPT !.recover = "unset"]
                              ELSE [@ EXCEPT !.recover = "spaced"]]
            /\ Goto("worker", IF over THEN "reprompt" ELSE "top")
    /\ Working /\ UNCHANGED job

\* Identity acquisition and readiness probes of the slot whose turn it is.
WorkerAcquires(s) ==
    /\ AtTop(s, {"awaiting", "offered"})
    /\ \E a \in {Acquire(ram.blob, s)} :
         /\ a.what # "wait"
         /\ \E w \in Outcomes(a.blob) :
              /\ SaveOrClose(w, a.blob)
              /\ vol' = [vol EXCEPT ![s] =
                           IF w.ok /\ a.what = "over"
                           THEN ClearBindings([@ EXCEPT !.deadline = "none"])
                           ELSE [@ EXCEPT !.deadline = IF w.ok THEN a.deadline ELSE "none"]]
              /\ ask' = IF w.ok /\ a.what = "ask"
                        THEN [ask EXCEPT !["worker"] =
                                [ident |-> {s}, gen |-> ram.blob.gen]]
                        ELSE ask
              /\ Goto("worker", IF ~w.ok THEN "top"
                                ELSE IF a.what = "ask" THEN "deliver"
                                ELSE IF a.what = "over" THEN "reprompt" ELSE "top")
    /\ UNCHANGED <<ident, world, job>>

WorkerSelects(s) ==
    /\ AtTop(s, {"ready"})
    /\ job' = [slot |-> s, gen |-> ram.blob.gen, result |-> "none"]
    /\ Goto("worker", "second")
    /\ Working /\ UNCHANGED <<nvs, ram, vol, ctl, hist>>

\* What the scanner last published still asks for this relay.
Proves(s) ==
    /\ IsFresh(s, "ready") /\ ident[s].hw = ram.blob.slot[s].bound
    /\ ident[s].ver \in (IF vol[s].legacy THEN {"legacy"} ELSE Older)
Confirmed(s) == nvs.manifest.gen = job.gen /\ Proves(s)

\* auto_reset_ready_queue_after_revalidation_failure, then the loop again.
ResetQueue(s) ==
    /\ IF ram.loaded /\ ram.blob.gen = job.gen /\ ram.blob.slot[s].state = "ready"
       THEN \E b \in {Change(ram.blob, s, "awaiting")} : \E w \in Outcomes(b) :
              /\ SaveOrClose(w, b)
              /\ vol' = IF w.ok THEN [vol EXCEPT ![s] =
                                        ClearBindings([@ EXCEPT !.deadline = "none"])]
                        ELSE vol
       ELSE UNCHANGED <<nvs, ram, vol, ctl, hist>>
    /\ job' = NoJob
    /\ Goto("worker", "top")

WorkerConfirms ==
    /\ pc["worker"] = "second" /\ Confirmed(job.slot)
    /\ Goto("worker", "reserve")
    /\ Working /\ UNCHANGED <<nvs, ram, vol, job, ctl, hist>>

\* Twenty seconds without a second identity of the bound scanner; no handler
\* of its RX task takes that long.
WorkerUnconfirmed ==
    /\ pc["worker"] = "second" /\ ~Confirmed(job.slot) /\ pc[job.slot] = "idle"
    /\ ResetQueue(job.slot)
    /\ Working

ReservationValid(s) ==
    /\ Requested(job.gen, s) /\ GateOpen(ram.blob, s)
    /\ ram.blob.slot[s].state = "ready"
    /\ ram.blob.slot[s].attempts < MaxAttempts
    /\ vol[s].ready = "recent" /\ Proves(s)

\* The attempt is spent, durably, before the first byte.
Reserve(s) ==
    [ram.blob EXCEPT !.slot[s].pending = FALSE, !.slot[s].state = "relaying",
                     !.slot[s].attempts = @ + 1]
WorkerReserves ==
    LET s == job.slot IN
    /\ pc["worker"] = "reserve"
    /\ IF ctl.op # "none"
       THEN /\ Goto("worker", "top") /\ job' = NoJob
            /\ UNCHANGED <<nvs, ram, vol, ctl, hist>>
       ELSE IF ~ReservationValid(s) THEN ResetQueue(s)
       ELSE \E b \in {Reserve(s)} : \E w \in Outcomes(b) :
              /\ SaveOrClose(w, b)
              /\ vol' = [vol EXCEPT ![s] = Forget(@, {"reserve"})]
              /\ Goto("worker", IF w.ok THEN "reserved" ELSE "top")
              /\ job' = IF w.ok THEN job ELSE NoJob
    /\ Working

Relaying == ram.loaded /\ ram.blob.gen = job.gen
            /\ ram.blob.slot[job.slot].state = "relaying"
GiveBack(s) ==
    [ram.blob EXCEPT !.slot[s].attempts = @ - 1, !.slot[s].state = "ready",
                     !.slot[s].pending = TRUE]

\* A preemption before the first byte returns the attempt.
WorkerChecksPreemption ==
    /\ pc["worker"] = "reserved"
    /\ IF ~ctl.preempt
       THEN Goto("worker", "claim") /\ UNCHANGED <<nvs, ram, ctl, hist, job>>
       ELSE /\ LET c == [ctl EXCEPT !.running = FALSE, !.life = "suspended"] IN
               IF ~Relaying THEN ctl' = c /\ UNCHANGED <<nvs, ram, hist>>
               ELSE \E b \in {GiveBack(job.slot)} : \E w \in Outcomes(b) :
                      IF w.ok THEN Stored(w, Holding(b), c) ELSE CloseAfter(w, c)
            /\ job' = NoJob /\ Goto("worker", "top")
    /\ Working /\ UNCHANGED vol

\* fw_relay_stored_to_scanner up to its first byte: another operation or a
\* preemption holds the token, or the scanner is no longer the bound one.
WorkerClaims ==
    LET s == job.slot IN
    /\ pc["worker"] = "claim"
    /\ IF ctl.op # "none" \/ ctl.preempt \/ nvs.manifest.gen # job.gen
          \/ ident[s].hw # ram.blob.slot[s].bound
       THEN /\ job' = [job EXCEPT !.result =
                         IF ctl.op # "none" \/ ctl.preempt THEN "busy"
                         ELSE IF nvs.manifest.gen # job.gen THEN "refused" ELSE "changed"]
            /\ Goto("worker", "result") /\ UNCHANGED <<ctl, hist>>
       ELSE /\ ctl' = [ctl EXCEPT !.op = "relay", !.inhibit = TRUE]
            /\ hist' = [hist EXCEPT !.sent[s] = @ + 1]
            /\ Goto("worker", "relay") /\ UNCHANGED job
    /\ Working /\ UNCHANGED <<nvs, ram, vol>>

\* The transfer ends; a failed one may have left the target running.
RelayEnds(result, ver) ==
    LET s == job.slot IN
    /\ pc["worker"] = "relay"
    /\ job' = [job EXCEPT !.result = result]
    /\ world' = [world EXCEPT ![s].ver = ver]
    /\ ctl' = Reconcile(ram, [ctl EXCEPT !.op = "none"])
    /\ Goto("worker", "result")
    /\ UNCHANGED <<nvs, ram, vol, ident, ask, hist>>

Resulting(s) ==
    LET r == job.result
        left == ram.blob.slot[s].attempts < MaxAttempts
    IN CASE r = "busy" -> GiveBack(s)
         [] r = "changed" ->
              [Change(ram.blob, s, "awaiting") EXCEPT !.slot[s].attempts = @ - 1]
         [] r = "ok" -> Change(ram.blob, s, "converged")
         [] r = "retry" /\ left ->
              [ram.blob EXCEPT !.slot[s].state = "ready", !.slot[s].pending = TRUE]
         [] r = "retry" /\ ~left -> Change(ram.blob, s, "failed")
         [] r = "refused" -> Change(ram.blob, s, "refused")

WorkerRecords ==
    LET s == job.slot IN
    /\ pc["worker"] = "result"
    /\ IF ~Relaying
       THEN Goto("worker", "top") /\ UNCHANGED <<nvs, ram, vol, ctl, hist>>
       ELSE \E b \in {Resulting(s)} : \E w \in Outcomes(b) :
              /\ SaveOrClose(w, b)
              /\ vol' = IF ~w.ok THEN vol
                        ELSE IF b.slot[s].state # "ready"
                        THEN [vol EXCEPT ![s] = ClearBindings(@)]
                        ELSE [vol EXCEPT ![s].ready = "recent", ![s].heard =
                                IF IsFresh(s, "reserve") THEN @ ELSE @ \ {"ready"}]
              /\ Goto("worker", IF b.slot[s].state \in Terminal THEN "reprompt" ELSE "top")
    /\ job' = NoJob
    /\ Working

-----------------------------------------------------------------------------
(* The RX task of a scanner, paused while an image is staged.              *)
Receiving(s) == s \notin Silent /\ pc[s] = "idle" /\ ctl.op \notin {"usb", "http"}
Handled(s) == UNCHANGED <<ident, world, ask, job>>

\* The marks something still looks at.
Tracked(s) ==
    {"floor"} \cup (IF vol[s].offer = "none" THEN {} ELSE {"offer"})
    \cup (IF vol[s].ready = "none" THEN {} ELSE {"ready"})
    \cup (IF job.slot = s /\ pc["worker"] \in {"reserved", "claim", "relay", "result"}
          THEN {"reserve"} ELSE {})

\* A complete identity, timestamped: it is newer than every mark.
Publish(s) ==
    /\ Receiving(s)
    /\ ident' = [ident EXCEPT ![s] = [hw |-> world[s].hw, ver |-> world[s].ver]]
    /\ vol' = [vol EXCEPT ![s].heard = Tracked(s)]
    /\ UNCHANGED <<nvs, ram, world, pc, ask, job, ctl, hist>>

\* auto_coordinator_record_scanner_check, for a scanner that is no target or
\* is already past it; the result of a reserved relay is the worker's.
RecordCheck(s, st) ==
    LET now == ram.blob.slot[s].state IN
    IF now \in Terminal THEN Goto(s, "kick") /\ UNCHANGED <<nvs, ram, vol, ctl, hist>>
    ELSE IF now \in {"ready", "relaying", "recovering"}
    THEN UNCHANGED <<nvs, ram, vol, pc, ctl, hist>>
    ELSE \E b \in {Change(ram.blob, s, st)} : \E w \in Outcomes(b) :
           /\ SaveOrRevert(w, b)
           /\ vol' = IF w.ok THEN [vol EXCEPT ![s] = [@ EXCEPT
                                     !.deadline = "none", !.offer = "none", !.legacy = FALSE]]
                     ELSE [vol EXCEPT ![s].deadline = "none"]
           /\ Goto(s, IF w.ok THEN "reprompt" ELSE "idle")

\* auto_coordinator_record_current_identity.
RecordCurrent(s) ==
    IF ~IsFresh(s, "floor") \/ ident[s].ver # "target"
       \/ ram.blob.slot[s].state \notin {"awaiting", "offered"}
    THEN UNCHANGED <<nvs, ram, vol, pc, ctl, hist>>
    ELSE RecordCheck(s, "current")

\* auto_coordinator_record_fresh_offer and _record_legacy_offer.
RecordOffer(s, reason) ==
    IF ~IsFresh(s, "floor") \/ ident[s].ver # world[s].ver
       \/ ram.blob.slot[s].state \notin {"awaiting", "offered"}
       \/ (world[s].ver = "legacy" /\ reason # "manual")
    THEN Goto(s, "idle") /\ UNCHANGED <<nvs, ram, vol, ctl, hist>>
    ELSE \E b \in {Change(ram.blob, s, "offered")} : \E w \in Outcomes(b) :
           /\ SaveOrRevert(w, b)
           /\ vol' = [vol EXCEPT ![s] =
                IF ~w.ok THEN [@ EXCEPT !.deadline = "none"]
                ELSE IF world[s].ver = "legacy"
                THEN [Forget(@, {"offer"}) EXCEPT !.deadline = "none",
                                                  !.offer = "recent", !.legacy = FALSE]
                ELSE ClearBindings([@ EXCEPT !.deadline = "none"])]
           /\ Goto(s, "idle")

\* auto_reopen_terminal_for_newer_check: saved before the offer is.
MayReopenAny(s, reason) ==
    /\ reason \in {"manual", "boot"}
    /\ ram.blob.slot[s].state \in {"refused", "failed", "current", "newer", "converged"}
    /\ ram.blob.slot[s].attempts < MaxAttempts
MayReopen(s, reason) ==
    /\ reason \in {"manual", "boot"}
    /\ ram.blob.slot[s].state \in {"refused", "failed"}
    /\ ram.blob.slot[s].wait # "exhausted"
    /\ ram.blob.slot[s].attempts < MaxAttempts
Offering(reason) == IF reason = "manual" THEN "manual" ELSE "offer"
Reopen(s, reason) ==
    \E b \in {[Change(ram.blob, s, "awaiting") EXCEPT !.slot[s].probes = 0]} :
    \E w \in Outcomes(b) :
        /\ SaveOrRevert(w, b)
        /\ vol' = [vol EXCEPT ![s] = IF w.ok THEN ClearBindings([@ EXCEPT !.deadline = "none"])
                                     ELSE [@ EXCEPT !.deadline = "none"]]
        /\ Goto(s, Offering(reason))

\* fof_auto_recovery_decide and what auto_coordinator_handle_recovery_check
\* makes of it; healthy: the scanner's own report of its roles and radios.
RecoveryVerdict(s, reason, healthy) ==
    LET proof == /\ reason = "manual" /\ vol[s].recover \in {"due", "spaced"}
                 /\ IsFresh(s, "floor") /\ ident[s].hw = ram.blob.slot[s].bound
                 /\ ident[s] = [hw |-> world[s].hw, ver |-> world[s].ver]
        left == ram.blob.slot[s].attempts < MaxAttempts
    IN CASE ~proof \/ (world[s].ver = "target" /\ ~healthy) -> "hold"
         [] proof /\ world[s].ver = "target" /\ healthy -> "converged"
         [] proof /\ world[s].ver = "legacy" -> IF left THEN "offered" ELSE "failed"
         [] OTHER -> "refused"

CheckRecovery(s, reason) ==
    \E verdict \in {RecoveryVerdict(s, reason, h) : h \in BOOLEAN} :
      IF verdict = "hold" THEN UNCHANGED <<nvs, ram, vol, pc, ctl, hist>>
      ELSE \E b \in {Change(ram.blob, s, verdict)} : \E w \in Outcomes(b) :
             /\ SaveOrClose(w, b)
             /\ vol' = IF ~w.ok THEN vol
                       ELSE [vol EXCEPT ![s] =
                               [ClearBindings(Forget(@, {"offer"})) EXCEPT
                                  !.recover = "unset", !.offer =
                                     IF verdict = "offered" THEN "recent" ELSE "none"]]
             /\ Goto(s, IF w.ok /\ verdict # "offered" THEN "reprompt" ELSE "idle")

\* fw_store_handle_scanner_check.
Check(s, reason) ==
    LET v == world[s].ver
        recovering == ram.blob.slot[s].state = "recovering"
    IN
    /\ Receiving(s)
    /\ nvs.manifest.gen # 0 /\ Requested(nvs.manifest.gen, s) /\ GateOpen(ram.blob, s)
    /\ CASE v = "alien" -> RecordCheck(s, "refused")
         [] v # "alien" /\ recovering -> CheckRecovery(s, reason)
         [] v = "target" /\ ~recovering -> RecordCurrent(s)
         [] v = "ahead" /\ ~recovering -> RecordCheck(s, "newer")
         [] v \in Older /\ ~recovering ->
              IF MayReopen(s, reason) THEN Reopen(s, reason)
              ELSE Goto(s, Offering(reason)) /\ UNCHANGED <<nvs, ram, vol, ctl, hist>>
    /\ Handled(s)

CheckOffers(s) ==
    /\ pc[s] \in {"manual", "offer"}
    /\ RecordOffer(s, pc[s])
    /\ Handled(s)

\* fw_store_handle_scanner_ready and _legacy_scanner_ready: a receipt the queue
\* already owns is only acknowledged, any other one is queued when the offer
\* still stands.  A scanner may send its receipt late, twice or unasked.
OwnsReceipt(s) ==
    /\ ram.blob.slot[s].state \in {"ready", "relaying"}
    /\ ~vol[s].legacy /\ vol[s].ready # "none"
    /\ ram.blob.slot[s].bound = ident[s].hw
MayQueue(s) ==
    /\ ram.blob.slot[s].state = "offered"
    /\ ram.blob.slot[s].attempts < MaxAttempts
    /\ IsFresh(s, "floor")
    /\ world[s].ver = "legacy" => vol[s].offer = "recent" /\ ~IsFresh(s, "offer")
Queued(v, legacy) ==
    [Forget(v, {"ready"}) EXCEPT !.deadline = "none", !.ready = "recent",
                                 !.legacy = legacy,
                                 !.offer = IF legacy THEN @ ELSE "none"]
Queue(s) ==
    \E b \in {[Change(ram.blob, s, "ready") EXCEPT !.slot[s].bound = ident[s].hw]} :
    \E w \in Outcomes(b) :
        /\ SaveOrRevert(w, b)
        /\ vol' = [vol EXCEPT ![s] = IF w.ok THEN Queued(@, world[s].ver = "legacy")
                                     ELSE [@ EXCEPT !.deadline = "none"]]
        /\ Goto(s, IF w.ok THEN "kick" ELSE "idle")
Ready(s) ==
    /\ Receiving(s) /\ world[s].ver \in Older
    /\ ident[s].ver = world[s].ver
    /\ Requested(nvs.manifest.gen, s) /\ GateOpen(ram.blob, s)
    /\ \/ /\ OwnsReceipt(s) /\ world[s].ver # "legacy"
          /\ Goto(s, "kick") /\ UNCHANGED <<nvs, ram, vol, ctl, hist>>
       \/ MayQueue(s) /\ Queue(s)
    /\ Handled(s)

-----------------------------------------------------------------------------
(* Staging an image.  Over USB the record is closed before the manifest is *)
(* valid and armed once the host has the terminal reply; over HTTP the     *)
(* manifest is committed first.                                            *)
Staging(where) == Goto("main", where) /\ UNCHANGED <<ident, ask, job>>
Invalidated == [nvs EXCEPT !.manifest = NoManifest]

\* invalidate_fw_metadata and auto_coordinator_note_manifest_invalidated.
StageBegins(channel) ==
    /\ pc["main"] = "idle" /\ hist.stages > 0
    /\ ctl.op = "none" /\ ~ctl.preempt /\ \A s \in Slots : pc[s] = "idle"
    /\ nvs' = Invalidated
    /\ ram' = NotedInvalid
    /\ vol' = NoFloors
    /\ ctl' = Reconcile(ram', [ctl EXCEPT !.op = channel, !.inhibit = TRUE])
    /\ hist' = [hist EXCEPT !.stages = @ - 1, !.gen = @ + 1]
    /\ Staging("staging") /\ UNCHANGED world

\* The first of the two writes landed, the second failed: no manifest, and a
\* coordinator that was not told.
StageBeginFails ==
    /\ pc["main"] = "idle" /\ hist.faults > 0
    /\ ctl.op = "none" /\ ~ctl.preempt /\ \A s \in Slots : pc[s] = "idle"
    /\ nvs' \in {nvs, Invalidated}
    /\ ctl' = Reconcile(ram, [ctl EXCEPT !.inhibit = TRUE])
    /\ hist' = [hist EXCEPT !.faults = @ - 1]
    /\ Staging("idle") /\ UNCHANGED <<ram, vol, world>>

StageAborts ==
    /\ pc["main"] = "staging"
    /\ ctl' = Reconcile(ram, [ctl EXCEPT !.op = "none"])
    /\ Staging("idle") /\ UNCHANGED <<nvs, ram, vol, hist, world>>

\* The image was refused after all: no manifest, and a record closed for it.
Discard(g, w) ==
    /\ \E v \in Closings(w, g) :
         StoredUnder(v, Holding(Closed(g)), [ctl EXCEPT !.op = "none"], NoManifest)
    /\ Staging("idle")
Failing == [ok |-> FALSE, blob |-> nvs.blob, faults |-> 1]
NextGen == hist.gen

\* What the scanners run, seen from the image now staged.
Aged == [s \in Slots |-> IF world[s].ver = "target"
                         THEN [world[s] EXCEPT !.ver = "old"] ELSE world[s]]

\* persist_validated_metadata up to its last write.
StageCloses ==
    /\ pc["main"] = "staging" /\ ctl.op = "usb"
    /\ \E w \in Outcomes(Closed(NextGen)) :
         IF w.ok THEN Stored(w, Holding(Closed(NextGen)), ctl) /\ Staging("gated")
         ELSE Discard(NextGen, w)
    /\ vol' = NoFloors
    /\ UNCHANGED world

\* FW_MANIFEST_COMMITTED_MAGIC is written.
StageCommits(mask) ==
    /\ \/ pc["main"] = "gated"
       \/ pc["main"] = "staging" /\ ctl.op = "http" /\ mask = Slots
    /\ \/ /\ nvs' = [nvs EXCEPT !.manifest = [gen |-> NextGen, mask |-> mask]]
          /\ Staging("final") /\ world' = Aged /\ UNCHANGED <<ram, ctl, hist>>
       \/ /\ hist.faults > 0
          /\ Discard(NextGen, Failing) /\ UNCHANGED world
    /\ UNCHANGED vol

\* fw_store_serial_upload_complete_terminal, or the end of the HTTP handler.
StageArms ==
    LET g == nvs.manifest.gen
        w0 == [ctl EXCEPT !.op = "none"]
    IN
    /\ pc["main"] = "final"
    /\ \E w \in Outcomes(Fresh(g, nvs.manifest.mask)) :
         IF w.ok
         THEN /\ nvs' = [nvs EXCEPT !.blob = w.blob]
              /\ ram' = [Holding(w.blob) EXCEPT !.uncertain = FALSE]
              /\ ctl' = Reconcile(ram', w0)
              /\ hist' = [hist EXCEPT !.sent = [s \in Slots |-> 0]]
              /\ Staging("reprompt")
         ELSE Discard(g, w)
    /\ vol' = Floored
    /\ UNCHANGED world

\* The host did not take the terminal reply, or a scanner could not be fenced.
StageUndelivered ==
    /\ pc["main"] = "final" /\ ctl.op = "usb"
    /\ Discard(nvs.manifest.gen, [Failing EXCEPT !.ok = TRUE, !.faults = 0,
                                                 !.blob = Closed(nvs.manifest.gen)])
    /\ vol' = NoFloors
    /\ UNCHANGED world

-----------------------------------------------------------------------------
(* fw_store_request_update_preemption: it stays until the reboot.          *)
Preempt ==
    /\ ~ctl.preempt /\ pc["main"] # "boot" /\ hist.preempts > 0
    /\ LET busy == ctl.running \/ ctl.life \in {"running", "quiescing"} IN
       ctl' = [ctl EXCEPT !.preempt = TRUE, !.inhibit = TRUE, !.notified = TRUE,
                          !.life = IF busy THEN "quiescing" ELSE "suspended",
                          !.running = @ /\ busy]
    /\ UNCHANGED <<nvs, ram, vol, ident, world, pc, ask, job, hist>>

InitCtl == [op |-> "none", inhibit |-> FALSE, preempt |-> FALSE, life |-> "idle",
            running |-> FALSE, notified |-> FALSE]
InitPc == [t \in Tasks |-> CASE t = "main" -> "boot" [] t = "worker" -> "blocked"
                             [] OTHER -> "idle"]

\* A reset at any point; one in the middle of a relay leaves either image.
Crash ==
    /\ hist.crashes > 0
    /\ hist' = [hist EXCEPT !.crashes = @ - 1]
    /\ ram' = NotedInvalid
    /\ vol' = [s \in Slots |-> Unbound]
    /\ ident' = [s \in Slots |-> [hw |-> 0, ver |-> "old"]]
    /\ \/ UNCHANGED world
       \/ /\ ctl.op = "relay"
          /\ world' = [world EXCEPT ![job.slot].ver = "target"]
    /\ pc' = InitPc /\ ctl' = InitCtl
    /\ ask' = [t \in Tasks |-> NoAsk] /\ job' = NoJob
    /\ UNCHANGED nvs

-----------------------------------------------------------------------------
(* Time and the scanners.                                                  *)
Elsewhere == UNCHANGED <<nvs, ram, pc, ask, job, ctl>>
DeadlinePasses(s) ==
    /\ vol[s].deadline = "open"
    /\ vol' = WithDeadline(s, "passed")
    /\ Elsewhere /\ UNCHANGED <<ident, world, hist>>
RecoveryDue(s) ==
    /\ vol[s].recover \in {"cooling", "spaced"}
    /\ vol' = [vol EXCEPT ![s].recover = "due"]
    /\ Elsewhere /\ UNCHANGED <<ident, world, hist>>
\* A minute without a word: the identity and the bindings are too old.
Faded(v) ==
    [v EXCEPT !.heard = {}, !.offer = IF @ = "recent" THEN "old" ELSE @,
              !.ready = IF @ = "recent" THEN "old" ELSE @]
Lapse(s) ==
    /\ hist.lapses > 0
    /\ hist' = [hist EXCEPT !.lapses = @ - 1]
    /\ vol' = [vol EXCEPT ![s] = Faded(@)]
    /\ Elsewhere /\ UNCHANGED <<ident, world>>
\* Another board is plugged into the slot.
Swap(s) ==
    /\ hist.swaps > 0
    /\ hist' = [hist EXCEPT !.swaps = @ - 1]
    /\ \E v \in {"old", "target"} : world' = [world EXCEPT ![s] =
                              [hw |-> world[s].hw + 1, ver |-> v]]
    /\ Elsewhere /\ UNCHANGED <<vol, ident>>

InitNvs(how, mask) ==
    LET g == IF how = "empty" THEN 0 ELSE 1
        m == [gen |-> g, mask |-> IF g = 0 THEN {} ELSE mask]
    IN [manifest |-> m, blob |->
          CASE how \in {"empty", "journal"} -> NoBlob
            [] how = "staged" -> Fresh(1, mask)
            [] how = "schema2" ->
                 [Fresh(1, mask) EXCEPT
                    !.schema = 2, !.slot["wifi"].state = "relaying",
                    !.slot["wifi"].attempts = 1,
                    !.slot["ble"] = Slot(IF "ble" \in mask THEN "converged" ELSE "excluded")]]

Init ==
    \E how \in Scenarios :
    /\ nvs = InitNvs(how.boot, how.mask)
    /\ ram = NotedInvalid
    /\ vol = [s \in Slots |-> Unbound]
    /\ ident = [s \in Slots |-> [hw |-> 0, ver |-> "old"]]
    /\ world \in {[s \in Slots |-> [hw |-> 1, ver |-> v[s]]] : v \in how.versions}
    /\ pc = InitPc
    /\ ask = [t \in Tasks |-> NoAsk] /\ job = NoJob
    /\ ctl = InitCtl
    /\ hist = [crashes |-> how.crashes, faults |-> how.faults, lapses |-> how.lapses,
               stages |-> how.stages, swaps |-> how.swaps, preempts |-> how.preempts,
               gen |-> 1, sent |-> [s \in Slots |-> 0]]

Boot == RestoreNothing \/ RestoreRefused \/ RestoreFromManifest \/ RestoreRecord
        \/ BeginRecovery
Worker ==
    \/ WorkerWakes \/ WorkerStops \/ WorkerRests
    \/ \E s \in Slots : WorkerRecovers(s) \/ WorkerAcquires(s) \/ WorkerSelects(s)
    \/ WorkerConfirms \/ WorkerReserves \/ WorkerChecksPreemption \/ WorkerClaims
    \/ WorkerRecords
Tail(t) == Reprompt(t) \/ Deliver(t) \/ Rollback(t) \/ Kick(t)
Relay ==
    \/ RelayEnds("ok", "target")
    \/ \E result \in {"retry", "refused"} : \E v \in {world[s].ver : s \in {job.slot} \cap Slots}
                                                     \cup {"target"} : RelayEnds(result, v)
Reports(s) == \E reason \in {"manual", "boot", "periodic"} : Check(s, reason)
Stage ==
    \/ \E channel \in Channels : StageBegins(channel)
    \/ StageBeginFails \/ StageAborts \/ StageCloses
    \/ \E mask \in Masks : StageCommits(mask)
    \/ StageArms \/ StageUndelivered
Next ==
    \/ Boot \/ Worker \/ Relay \/ Stage \/ Preempt \/ Crash \/ WorkerUnconfirmed
    \/ \E t \in Tasks : Tail(t)
    \/ \E s \in Slots :
         \/ Publish(s) \/ Reports(s) \/ CheckOffers(s) \/ Ready(s)
         \/ DeadlinePasses(s) \/ RecoveryDue(s) \/ Lapse(s) \/ Swap(s)
Spec == Init /\ [][Next]_vars

-----------------------------------------------------------------------------
(* Fairness: the worker and the tails run, time passes, a scanner that is  *)
(* not silent goes on publishing, also while the worker waits for a second *)
(* identity (it publishes more often than the 20 s of that wait), and does *)
(* not for ever ask again for what was refused to it.  Nothing is asked of *)
(* its other checks and its receipts, of the host, or of faults.           *)
Reopening ==
    \E s \in Live(ram'.blob) :
        ram.blob.gen = ram'.blob.gen /\ ram.blob.slot[s].state \in Terminal
FairSpec ==
    /\ Spec /\ <>[][~Reopening]_vars
    /\ WF_vars(Boot) /\ WF_vars(Worker) /\ WF_vars(Relay) /\ SF_vars(WorkerUnconfirmed)
    /\ WF_vars(StageAborts) /\ WF_vars(StageCommits(Slots)) /\ WF_vars(StageArms)
    /\ \A t \in Tasks : WF_vars(Tail(t))
    /\ \A s \in Slots : SF_vars(Publish(s) /\ pc["worker"] = "second")
    /\ \A s \in Slots : SF_vars(Publish(s)) /\ WF_vars(CheckOffers(s))
                       /\ WF_vars(DeadlinePasses(s)) /\ WF_vars(RecoveryDue(s))

-----------------------------------------------------------------------------
SlotState == Terminal \cup {"awaiting", "offered", "ready", "relaying", "recovering"}
TypeOK ==
    /\ \A b \in {nvs.blob, ram.blob} : \A s \in Slots :
         /\ b.slot[s].state \in SlotState /\ b.slot[s].wait \in {"none", "active", "exhausted"}
         /\ b.slot[s].attempts \in 0..MaxAttempts /\ b.slot[s].bound \in Boards
    /\ \A s \in Slots : vol[s].heard \subseteq Marks
    /\ ctl.op \in {"none", "relay"} \cup Channels
    /\ ctl.life \in {"idle", "running", "quiescing", "suspended"}

\* No sequence of checks, receipts, relays, crashes and restores builds a
\* record auto_coordinator_save_locked refuses to write (it would leave the
\* radio inhibited for good) or the next boot refuses to read, nor one whose
\* count forgets a relay: image bytes are sent to a scanner at most MaxAttempts
\* times for one staged generation, whatever resets and re-armings come in
\* between.
JournalSound ==
    /\ ram.loaded => Valid(ram.blob)
    /\ nvs.blob.gen # 0 /\ nvs.blob.schema = 3 => Valid(nvs.blob)
    /\ \A s \in Slots : hist.sent[s] <= MaxAttempts

\* What is acted on is on flash first: the coordinator acts on what the next
\* boot will read unless it knows that it is uncertain, and once the campaign
\* is restored the radio is permitted only when a reset at this very moment
\* would find nothing left to relay.
DurableFirst ==
    /\ ram.loaded /\ ~ram.uncertain => nvs.blob = ram.blob
    /\ pc["main"] \notin {"boot", "failed"} /\ ~ctl.inhibit =>
           nvs.manifest.gen = 0 \/ (Live(nvs.blob) = {} /\ Matches(nvs.blob))

\* A scanner found current, newer or converged is never taken up again in the
\* same generation, not even across a reset.
DoneStaysDone ==
    [][\A s \in Slots :
         /\ ~ram.uncertain /\ nvs.blob.slot[s].state \in {"converged", "current", "newer"}
         /\ nvs'.blob.gen = nvs.blob.gen /\ ~nvs'.blob.closed
         => nvs'.blob.slot[s].state = nvs.blob.slot[s].state]_vars

\* A campaign the worker has taken up comes to a terminal state of all its
\* slots: each scanner is waited for, probed and relayed to a bounded number of
\* times, and no wake-up is lost while the worker leaves.
CampaignEnds ==
    (ctl.running /\ ram.loaded /\ Live(ram.blob) # {}) ~>
        (~ram.loaded \/ Live(ram.blob) = {} \/ ctl.preempt)
=============================================================================
