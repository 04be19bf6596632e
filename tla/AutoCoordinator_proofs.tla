----------------------- MODULE AutoCoordinator_proofs -----------------------
(***************************************************************************)
(* What is proved of the update campaign, for any budgets, masks and first *)
(* boots: the journal is always one the next boot accepts, no scanner is   *)
(* sent an image more often than it has attempts, and what the coordinator *)
(* acts on is on flash first.                                              *)
(*                                                                         *)
(* The attempts a record counts cover the relays made and the one that is  *)
(* reserved but not begun, in RAM and on flash alike; a reservation whose  *)
(* campaign is replaced under it can no longer be claimed nor given back.  *)
(***************************************************************************)
EXTENDS AutoCoordinator, Integers, TLAPS

\* The types of the parts.
Places ==
    {"boot", "failed", "idle", "abort", "staging", "gated", "final", "reprompt",
     "deliver", "rollback", "kick", "blocked", "top", "leaving", "second", "reserve",
     "reserved", "claim", "relay", "result", "manual", "offer"}
SlotType ==
    [state : SlotState, pending : BOOLEAN, attempts : Nat, probes : Nat,
     wait : {"none", "active", "exhausted"}, bound : Nat]
Blob ==
    [gen : Nat, schema : {2, 3}, mask : SUBSET Slots, closed : BOOLEAN,
     slot : [Slots -> SlotType]]
VolType ==
    [heard : SUBSET Marks, deadline : {"none", "open", "passed"},
     offer : {"none", "recent", "old"}, ready : {"none", "recent", "old"},
     legacy : BOOLEAN, recover : {"unset", "cooling", "due", "spaced"}]
CtlType ==
    [op : {"none", "relay"} \cup Channels, inhibit : BOOLEAN, preempt : BOOLEAN,
     life : {"idle", "running", "quiescing", "suspended"},
     running : BOOLEAN, notified : BOOLEAN]
HistType ==
    [crashes : Int, faults : Int, lapses : Int, stages : Int, swaps : Int,
     preempts : Int, gen : Nat \ {0}, sent : [Slots -> Nat]]
RamType == [loaded : BOOLEAN, uncertain : BOOLEAN, blob : Blob]
NvsType == [manifest : [gen : Nat, mask : SUBSET Slots], blob : Blob]
Results == {"none", "busy", "changed", "ok", "retry", "refused"}
Typed ==
    /\ nvs \in NvsType /\ ram \in RamType /\ vol \in [Slots -> VolType]
    /\ ident \in [Slots -> [hw : Nat, ver : Versions]]
    /\ world \in [Slots -> [hw : Nat \ {0}, ver : Versions]]
    /\ pc \in [Tasks -> Places]
    /\ ask \in [Tasks -> [ident : SUBSET Slots, gen : Nat]]
    /\ job \in [slot : Slots \cup {"none"}, gen : Nat, result : Results]
    /\ ctl \in CtlType /\ hist \in HistType

\* A record the worker may work with: a relay that is under way is counted.
Sound(b) ==
    /\ b.schema = 3 /\ Valid(b)
    /\ \A s \in Slots : b.slot[s].state = "relaying" => b.slot[s].attempts # 0
\* A record the next boot can restore.
Readable(b) == b.gen # 0 => Sound(IF b.schema = 2 THEN Migrated(b) ELSE b)

Records ==
    /\ Readable(nvs.blob)
    /\ IF ram.loaded THEN Sound(ram.blob) ELSE ram.blob = NoBlob
    /\ ram.loaded /\ ~ram.uncertain => nvs.blob = ram.blob
    /\ nvs.manifest.gen # 0 => nvs.manifest.mask # {}

\* While an image is staged there is no campaign to work on.
Stages == {"staging", "gated", "final"}
ClosedFor(g) == ram.loaded /\ ram.blob = Closed(g) /\ nvs.blob = Closed(g)
Unarmed == ~ram.loaded /\ nvs.blob.gen < hist.gen
Staged ==
    /\ pc["main"] = "staging" => nvs.manifest.gen = 0 /\ Unarmed
    /\ pc["main"] = "gated" => /\ ctl.op = "usb" /\ nvs.manifest.gen = 0
                               /\ ClosedFor(hist.gen)
    /\ pc["main"] = "final" => /\ nvs.manifest.gen = hist.gen
                               /\ IF ctl.op = "usb" THEN ClosedFor(hist.gen) ELSE Unarmed
Generations ==
    /\ nvs.manifest.gen <= hist.gen /\ nvs.blob.gen <= hist.gen /\ ram.blob.gen <= hist.gen
    /\ ram.loaded => nvs.manifest.gen = 0 \/ Matches(ram.blob)
    /\ ~ram.loaded => nvs.manifest.gen = 0 \/ pc["main"] \in {"boot", "failed", "final"}
    /\ pc["main"] = "boot" => ~ram.loaded
    /\ Staged

\* A reserved attempt the worker may still claim or give back, and the relays
\* a record has to account for.
Unspent ==
    \/ pc["worker"] \in {"reserved", "claim"}
    \/ pc["worker"] = "result" /\ job.result \in {"busy", "changed"}
Reserved(s) == Unspent /\ job.slot = s /\ job.gen = nvs.manifest.gen
Due(s) == hist.sent[s] + (IF Reserved(s) THEN 1 ELSE 0)
Covers(b) == \A s \in Slots : Due(s) <= b.slot[s].attempts
Sending ==
    /\ \A s \in Slots : hist.sent[s] <= MaxAttempts
    /\ nvs.blob.gen = 0 => \A s \in Slots : hist.sent[s] = 0
    /\ nvs.manifest.gen # 0 /\ nvs.blob.gen = nvs.manifest.gen => Covers(nvs.blob)
    /\ nvs.manifest.gen # 0 /\ ram.loaded => Covers(ram.blob)
    /\ \A s \in Slots : Reserved(s) /\ nvs.manifest.gen # 0 =>
                            ram.loaded /\ nvs.blob.gen = nvs.manifest.gen

\* The radio is permitted only when RAM has nothing to relay and no doubts.
Permitted ==
    /\ ram.uncertain => ctl.inhibit
    /\ ~ctl.inhibit => ~ram.loaded \/ Live(ram.blob) = {}
Controls ==
    /\ Permitted
    /\ pc["worker"] = "relay" <=> ctl.op = "relay"
    /\ pc["main"] \in Stages <=> ctl.op \in Channels
    /\ pc["main"] \in Stages => ctl.inhibit

Held == {"second", "reserve", "reserved", "claim", "relay", "result"}
Jobs ==
    /\ pc["worker"] \in Held => job.slot \in Slots /\ job.gen # 0
    /\ pc["worker"] = "result" => job.result # "none"
    /\ job.gen <= hist.gen
    /\ pc["main"] \in Stages => job.gen < hist.gen

\* What was heard of a scanner came with its board.
Heard == \A s \in Slots : vol[s].heard # {} => ident[s].hw # 0

IInv == Typed /\ Records /\ Generations /\ Sending /\ Controls /\ Jobs /\ Heard

-----------------------------------------------------------------------------
(* The records.                                                            *)
Done == {"converged", "current", "newer"}

\* A requested slot of an open record that is as auto_coordinator_blob_valid
\* wants it.
Proper(r) ==
    /\ r.attempts <= MaxAttempts /\ r.probes <= MaxProbes
    /\ r.wait = "active" => r.state \in {"awaiting", "offered"}
    /\ r.wait = "exhausted" => r.state = "failed"
    /\ (r.bound # 0) = (r.state \in {"ready", "relaying", "recovering"})
    /\ r.state # "excluded" /\ r.pending = (r.state = "ready")
    /\ r.state = "relaying" => r.attempts # 0

\* c is b but for the slots of a set.
Touches(b, c, some) ==
    /\ c \in Blob
    /\ c.gen = b.gen /\ c.schema = b.schema /\ c.mask = b.mask /\ c.closed = b.closed
    /\ \A s \in Slots \ some : c.slot[s] = b.slot[s]

\* c follows b in the same campaign.
Amends(b, c) ==
    /\ c \in Blob /\ Sound(c)
    /\ c.gen = b.gen /\ c.mask = b.mask /\ c.closed = b.closed
    /\ \A s \in Slots : b.slot[s].state \in Done => c.slot[s].state = b.slot[s].state

\* A requested slot of a sound record is proper.
LEMMA RequestedIsProper ==
    ASSUME NEW b \in Blob, Sound(b), NEW s \in b.mask
    PROVE  /\ s \in Slots /\ b.slot[s] \in SlotType /\ Proper(b.slot[s]) /\ ~b.closed
           /\ b.gen # 0
<1>1. s \in Slots /\ b.slot[s] \in SlotType /\ b.closed \in BOOLEAN
  BY DEF Blob
<1>2. ~b.closed
  BY DEF Sound, Valid
<1> QED BY <1>1, <1>2 DEF Sound, Valid, ValidSlot, Proper

\* A sound record stays so when requested slots are replaced by proper ones.
LEMMA AmendedSlots ==
    ASSUME NEW b \in Blob, Sound(b), NEW some \in SUBSET b.mask, NEW c,
           Touches(b, c, some),
           \A s \in some : Proper(c.slot[s]) /\ b.slot[s].state \notin Done
    PROVE  Amends(b, c)
<1>1. /\ c.gen # 0 /\ c.schema = 3 /\ c.closed = (c.mask = {})
      /\ c.mask = b.mask /\ c.closed = b.closed /\ c \in Blob
  BY DEF Touches, Sound, Valid
<1>2. ASSUME NEW s \in Slots
      PROVE  /\ ValidSlot(c, s)
             /\ c.slot[s].state = "relaying" => c.slot[s].attempts # 0
  <2>1. CASE s \in some
    <3>1. s \in c.mask /\ Proper(c.slot[s]) /\ ~c.closed
      BY <1>1, <2>1, RequestedIsProper
    <3> QED BY <3>1 DEF Proper, ValidSlot
  <2>2. CASE s \notin some
    <3>1. c.slot[s] = b.slot[s] /\ ValidSlot(b, s)
          /\ (b.slot[s].state = "relaying" => b.slot[s].attempts # 0)
      BY <2>2 DEF Touches, Sound, Valid
    <3> QED BY <1>1, <3>1 DEF ValidSlot
  <2> QED BY <2>1, <2>2
<1>3. Sound(c)
  BY <1>1, <1>2 DEF Sound, Valid
<1>4. \A s \in Slots : b.slot[s].state \in Done => c.slot[s].state = b.slot[s].state
  BY DEF Touches
<1> QED BY <1>1, <1>3, <1>4 DEF Amends, Touches

\* The records of a closed campaign and of a new one.
LEMMA ClosedSound ==
    ASSUME NEW g \in Nat \ {0}
    PROVE  /\ Closed(g) \in Blob /\ Sound(Closed(g)) /\ Readable(Closed(g))
           /\ Closed(g).gen = g /\ Closed(g).mask = {} /\ Closed(g).closed
           /\ Live(Closed(g)) = {}
           /\ \A s \in Slots : /\ Closed(g).slot[s].attempts = MaxAttempts
                               /\ Closed(g).slot[s].state = "failed"
<1> DEFINE c == Closed(g)
           r == [Slot("failed") EXCEPT !.attempts = MaxAttempts, !.probes = MaxProbes]
<1>1. /\ r \in SlotType /\ r.state = "failed" /\ r.attempts = MaxAttempts
      /\ r.probes = MaxProbes /\ r.wait = "none" /\ r.bound = 0 /\ r.pending = FALSE
  BY BudgetAssumption DEF SlotType, Slot, SlotState, Terminal
<1> HIDE DEF r
<1>2. /\ c.gen = g /\ c.schema = 3 /\ c.mask = {} /\ c.closed = TRUE
      /\ c.slot = [s \in Slots |-> r] /\ c \in Blob
  BY <1>1 DEF r, Closed, Blob
<1> HIDE DEF c
<1>3. \A s \in Slots : c.slot[s] = r
  BY <1>2
<1>4. ASSUME NEW s \in Slots PROVE ValidSlot(c, s)
  BY <1>1, <1>2, <1>3, BudgetAssumption DEF ValidSlot
<1>5. Sound(c)
  BY <1>1, <1>2, <1>3, <1>4 DEF Sound, Valid
<1> QED BY <1>1, <1>2, <1>3, <1>5 DEF c, Readable, Live

LEMMA FreshSound ==
    ASSUME NEW g \in Nat \ {0}, NEW mask \in (SUBSET Slots) \ {{}}
    PROVE  /\ Fresh(g, mask) \in Blob /\ Sound(Fresh(g, mask)) /\ Readable(Fresh(g, mask))
           /\ Fresh(g, mask).gen = g /\ Fresh(g, mask).mask = mask
           /\ ~Fresh(g, mask).closed /\ Fresh(g, mask).schema = 3
           /\ \A s \in Slots : Fresh(g, mask).slot[s].attempts = 0
<1> DEFINE c == Fresh(g, mask)
           r(s) == Slot(IF s \in mask THEN "awaiting" ELSE "excluded")
<1>1. ASSUME NEW s \in Slots
      PROVE  /\ r(s) \in SlotType /\ r(s).attempts = 0 /\ r(s).probes = 0
             /\ r(s).state = (IF s \in mask THEN "awaiting" ELSE "excluded")
             /\ r(s).wait = "none" /\ r(s).bound = 0 /\ r(s).pending = FALSE
  BY BudgetAssumption DEF SlotType, Slot, SlotState, Terminal
<1> HIDE DEF r
<1>2. /\ c.gen = g /\ c.schema = 3 /\ c.mask = mask /\ c.closed = FALSE
      /\ c.slot = [s \in Slots |-> r(s)] /\ c \in Blob
  BY <1>1 DEF r, Fresh, Blob
<1> HIDE DEF c
<1>3. \A s \in Slots : c.slot[s] = r(s)
  BY <1>2
<1>4. ASSUME NEW s \in Slots PROVE ValidSlot(c, s)
  <2>1. c.slot[s] = r(s) /\ ~c.closed /\ c.mask = mask
    BY <1>2, <1>3
  <2>2. 0 <= MaxAttempts /\ 0 <= MaxProbes
    BY BudgetAssumption
  <2> DEFINE q == r(s)
  <2>3. /\ q.attempts = 0 /\ q.probes = 0 /\ q.wait = "none" /\ q.bound = 0
        /\ q.pending = FALSE /\ q.state = (IF s \in mask THEN "awaiting" ELSE "excluded")
    BY <1>1
  <2>4. c.slot[s] = q
    BY <2>1
  <2> HIDE DEF q
  <2>5. CASE s \in mask
    <3>1. /\ q.attempts <= MaxAttempts /\ q.probes <= MaxProbes
          /\ q.wait \notin {"active", "exhausted"}
      BY <2>2, <2>3
    <3>2. (q.bound # 0) = (q.state \in {"ready", "relaying", "recovering"})
      BY <2>3, <2>5
    <3>3. (s \in c.mask) = (q.state # "excluded")
      BY <2>1, <2>3, <2>5
    <3>4. q.pending = (q.state = "ready")
      BY <2>3, <2>5
    <3> QED BY <2>1, <2>4, <3>1, <3>2, <3>3, <3>4 DEF ValidSlot
  <2>6. CASE s \notin mask
    <3>1. /\ q.attempts <= MaxAttempts /\ q.probes <= MaxProbes
          /\ q.wait \notin {"active", "exhausted"}
      BY <2>2, <2>3
    <3>2. (q.bound # 0) = (q.state \in {"ready", "relaying", "recovering"})
      BY <2>3, <2>6
    <3>3. (s \in c.mask) = (q.state # "excluded")
      BY <2>1, <2>3, <2>6
    <3>4. q.pending = (q.state = "ready")
      BY <2>3, <2>6
    <3> QED BY <2>1, <2>4, <3>1, <3>2, <3>3, <3>4 DEF ValidSlot
  <2> QED BY <2>5, <2>6
<1>5. \A s \in Slots : c.slot[s].state # "relaying" /\ c.slot[s].attempts = 0
  BY <1>1, <1>3
<1>6. c.gen # 0 /\ c.closed = (c.mask = {})
  <2>1. c.closed = FALSE /\ c.mask # {} /\ c.gen # 0
    BY <1>2
  <2> QED BY <2>1
<1>7. Sound(c)
  BY <1>2, <1>4, <1>5, <1>6 DEF Sound, Valid
<1> QED BY <1>2, <1>5, <1>7 DEF c, Readable

\* What fof_fw_coordinator_migrate_v2 and the restore make of a record.
LEMMA MigratedKeeps ==
    ASSUME NEW b \in Blob
    PROVE  /\ Migrated(b) \in Blob /\ Migrated(b).schema = 3
           /\ Migrated(b).gen = b.gen /\ Migrated(b).mask = b.mask
           /\ Migrated(b).closed = b.closed
           /\ \A s \in Slots :
                /\ Migrated(b).slot[s].attempts = b.slot[s].attempts
                /\ b.slot[s].state \in Done => Migrated(b).slot[s].state = b.slot[s].state
<1> DEFINE c == Migrated(b)
           st(x) == CASE x \in {"offered", "ready"} -> "awaiting"
                      [] x = "relaying" -> "failed"
                      [] OTHER -> x
           r(s) == [b.slot[s] EXCEPT !.state = st(@), !.pending = FALSE]
<1>1. ASSUME NEW x \in SlotState
      PROVE  st(x) \in SlotState /\ (x \in Done => st(x) = x)
  BY DEF SlotState, Terminal, Done
<1> HIDE DEF st
<1>2. ASSUME NEW s \in Slots
      PROVE  /\ r(s) \in SlotType /\ r(s).attempts = b.slot[s].attempts
             /\ b.slot[s].state \in Done => r(s).state = b.slot[s].state
  <2>1. b.slot[s] \in SlotType
    BY DEF Blob
  <2> QED BY <1>1, <2>1 DEF SlotType
<1>3. c = [b EXCEPT !.schema = 3, !.slot = [s \in Slots |-> r(s)]]
  BY DEF Migrated, st
<1> HIDE DEF r, c
<1>4. /\ c \in Blob /\ c.schema = 3 /\ c.gen = b.gen /\ c.mask = b.mask
      /\ c.closed = b.closed /\ c.slot = [s \in Slots |-> r(s)]
  BY <1>2, <1>3 DEF Blob
<1>5. \A s \in Slots : c.slot[s] = r(s)
  BY <1>4
<1> QED BY <1>2, <1>4, <1>5 DEF c

LEMMA RestoredAmends ==
    ASSUME NEW b \in Blob, Sound(b)
    PROVE  /\ Amends(b, Restored(b))
           /\ \A s \in Slots : Restored(b).slot[s].attempts = b.slot[s].attempts
<1> DEFINE c == Restored(b)
           kept(s) == s \notin b.mask \/ b.slot[s].state \in Terminal \cup {"recovering"}
           lost(s) == ~kept(s) /\ b.slot[s].state = "relaying"
           ra(s) == [b.slot[s] EXCEPT !.state = "recovering", !.probes = 0]
           rb(s) == [b.slot[s] EXCEPT !.state = "awaiting", !.pending = FALSE,
                                      !.probes = 0, !.bound = 0]
           r(s) == CASE kept(s) -> b.slot[s]
                     [] b.slot[s].state = "relaying" -> ra(s)
                     [] OTHER -> rb(s)
<1>1. ASSUME NEW s \in Slots
      PROVE  /\ b.slot[s] \in SlotType
             /\ ra(s) \in SlotType /\ rb(s) \in SlotType
             /\ ra(s).attempts = b.slot[s].attempts /\ rb(s).attempts = b.slot[s].attempts
             /\ ra(s).probes = 0 /\ ra(s).wait = b.slot[s].wait
             /\ ra(s).bound = b.slot[s].bound /\ ra(s).state = "recovering"
             /\ ra(s).pending = b.slot[s].pending
             /\ rb(s).probes = 0 /\ rb(s).wait = b.slot[s].wait
             /\ rb(s).bound = 0 /\ rb(s).state = "awaiting" /\ rb(s).pending = FALSE
  <2>1. b.slot[s] \in SlotType
    BY DEF Blob
  <2> QED BY <2>1 DEF SlotType, SlotState, Terminal
<1> HIDE DEF ra, rb
<1>2. ASSUME NEW s \in Slots
      PROVE  /\ r(s) \in SlotType /\ r(s).attempts = b.slot[s].attempts
             /\ kept(s) => r(s) = b.slot[s]
             /\ ~kept(s) => Proper(r(s))
  <2>1. CASE kept(s)
    <3>1. b.slot[s].state # "relaying"
      BY <2>1 DEF Sound, Valid, ValidSlot, Terminal
    <3>2. r(s) = b.slot[s]
      BY <2>1, <3>1
    <3> QED BY <1>1, <2>1, <3>2
  <2>2. CASE ~kept(s)
    <3>1. Proper(b.slot[s]) /\ b.slot[s].state \notin Terminal
      BY <2>2, RequestedIsProper
    <3>2. 0 <= MaxProbes
      BY BudgetAssumption
    <3>3. CASE b.slot[s].state = "relaying"
      <4>1. r(s) = ra(s)
        BY <2>2, <3>3
      <4>2. Proper(ra(s))
        BY <1>1, <3>1, <3>2, <3>3 DEF Proper
      <4> QED BY <1>1, <2>2, <4>1, <4>2
    <3>4. CASE b.slot[s].state # "relaying"
      <4>1. r(s) = rb(s)
        BY <2>2, <3>4
      <4>2. Proper(rb(s))
        <5>1. /\ rb(s).attempts <= MaxAttempts /\ rb(s).probes <= MaxProbes
              /\ rb(s).wait # "exhausted"
          BY <1>1, <3>1, <3>2 DEF Proper, Terminal
        <5>2. rb(s).bound = 0 /\ rb(s).state = "awaiting" /\ rb(s).pending = FALSE
          BY <1>1
        <5>3. (rb(s).bound # 0) = (rb(s).state \in {"ready", "relaying", "recovering"})
          BY <5>2
        <5> QED BY <5>1, <5>2, <5>3 DEF Proper
      <4> QED BY <1>1, <2>2, <4>1, <4>2
    <3> QED BY <3>3, <3>4
  <2> QED BY <2>1, <2>2
<1>3. c = [b EXCEPT !.slot = [s \in Slots |-> r(s)]]
  BY DEF Restored, ra, rb
<1> HIDE DEF r, c
<1>4. /\ c \in Blob /\ c.schema = b.schema /\ c.gen = b.gen /\ c.mask = b.mask
      /\ c.closed = b.closed /\ c.slot = [s \in Slots |-> r(s)]
  BY <1>2, <1>3 DEF Blob
<1>5. \A s \in Slots : c.slot[s] = r(s)
  BY <1>4
<1> DEFINE some == {s \in Slots : ~kept(s)}
<1>6. some \in SUBSET b.mask /\ \A s \in some : b.slot[s].state \notin Done
  BY DEF Done, Terminal
<1>7. Touches(b, c, some) /\ \A s \in some : Proper(c.slot[s])
  BY <1>2, <1>4, <1>5 DEF Touches
<1> HIDE DEF some
<1>8. Amends(b, c)
  BY <1>6, <1>7, AmendedSlots
<1> QED BY <1>2, <1>5, <1>8 DEF c

\* The field updates of one slot.
LEMMA ChangeTouches ==
    ASSUME NEW b \in Blob, NEW s \in Slots, NEW st \in SlotState
    PROVE  LET c == Change(b, s, st) IN
           /\ Touches(b, c, {s}) /\ c.slot[s] \in SlotType
           /\ c.slot[s].state = st /\ c.slot[s].pending = (st = "ready")
           /\ c.slot[s].wait = "none" /\ c.slot[s].bound = 0
           /\ c.slot[s].attempts = b.slot[s].attempts /\ c.slot[s].probes = b.slot[s].probes
<1> DEFINE r == [b.slot[s] EXCEPT !.state = st, !.pending = (st = "ready"),
                                  !.wait = "none", !.bound = 0]
           c == Change(b, s, st)
<1>1. b.slot[s] \in SlotType
  BY DEF Blob
<1>2. /\ r \in SlotType /\ r.state = st /\ r.pending = (st = "ready") /\ r.wait = "none"
      /\ r.bound = 0 /\ r.attempts = b.slot[s].attempts /\ r.probes = b.slot[s].probes
  BY <1>1 DEF SlotType
<1>3. c = [b EXCEPT !.slot[s] = r]
  BY DEF Change
<1> HIDE DEF r, c
<1>4. Touches(b, c, {s}) /\ c.slot[s] = r
  BY <1>2, <1>3 DEF Touches, Blob
<1> QED BY <1>2, <1>4 DEF c

With(b, s, r) == [b EXCEPT !.slot[s] = r]
LEMMA SlotTouches ==
    ASSUME NEW b \in Blob, NEW s \in Slots, NEW r \in SlotType
    PROVE  Touches(b, With(b, s, r), {s}) /\ With(b, s, r).slot[s] = r
BY DEF With, Touches, Blob

-----------------------------------------------------------------------------
(* The writes.                                                             *)
LEMMA ReconcileKeeps ==
    ASSUME NEW r \in RamType, NEW c \in CtlType
    PROVE  LET d == Reconcile(r, c) IN
           /\ d \in CtlType /\ d.op = c.op /\ (r.uncertain => d.inhibit)
           /\ ~d.inhibit => ~r.loaded \/ Live(r.blob) = {}
           /\ c.inhibit /\ c.op # "none" => d.inhibit
<1> DEFINE i == c.inhibit /\ c.op # "none"
           still == ~r.uncertain /\ (~r.loaded \/ AllTerminal(r)) /\ ~c.preempt
           d == Reconcile(r, c)
<1>1. CASE still
  <2>1. d = [c EXCEPT !.inhibit = i]
    BY <1>1 DEF Reconcile
  <2>2. i \in BOOLEAN
    OBVIOUS
  <2> HIDE DEF i, d
  <2>3. d \in CtlType /\ d.op = c.op /\ d.inhibit = i
    BY <2>1, <2>2 DEF CtlType
  <2> QED BY <1>1, <2>3 DEF i, d, AllTerminal
<1>2. CASE ~still
  <2>1. d = [c EXCEPT !.inhibit = TRUE]
    BY <1>2 DEF Reconcile
  <2> HIDE DEF d
  <2>2. d \in CtlType /\ d.op = c.op /\ d.inhibit = TRUE
    BY <2>1 DEF CtlType
  <2> QED BY <2>2 DEF d
<1> QED BY <1>1, <1>2

WriteType == [ok : BOOLEAN, blob : Blob, faults : {0, 1}]

\* What a write leaves behind.
Left(w, r, k, m) ==
    /\ nvs' \in NvsType /\ nvs'.manifest = m /\ nvs'.blob = w.blob
    /\ ram' \in RamType /\ ram'.loaded = r.loaded /\ ram'.blob = r.blob
    /\ ram'.uncertain = ~w.ok
    /\ ctl' \in CtlType /\ ctl'.op = k.op /\ Permitted'
    /\ k.inhibit /\ k.op # "none" => ctl'.inhibit
    /\ hist' \in HistType /\ hist'.gen = hist.gen /\ hist'.sent = hist.sent

LEMMA StoredLeaves ==
    ASSUME Typed, NEW w \in WriteType, NEW r \in RamType, NEW k \in CtlType,
           NEW m \in [gen : Nat, mask : SUBSET Slots], StoredUnder(w, r, k, m)
    PROVE  Left(w, r, k, m)
<1>1. w.ok \in BOOLEAN /\ w.blob \in Blob /\ w.faults \in {0, 1}
  BY DEF WriteType
<1>2. nvs' \in NvsType /\ nvs'.manifest = m /\ nvs'.blob = w.blob
  BY <1>1 DEF StoredUnder, NvsType
<1>3. /\ ram' \in RamType /\ ram'.loaded = r.loaded /\ ram'.blob = r.blob
      /\ ram'.uncertain = ~w.ok
  BY <1>1 DEF StoredUnder, RamType
<1>4. /\ ctl' \in CtlType /\ ctl'.op = k.op /\ Permitted'
      /\ k.inhibit /\ k.op # "none" => ctl'.inhibit
  <2>1. CASE w.ok
    <3>1. ctl' = Reconcile(ram', k)
      BY <2>1 DEF StoredUnder
    <3> QED BY <1>3, <3>1, ReconcileKeeps DEF Permitted
  <2>2. CASE ~w.ok
    <3>1. ctl' = [k EXCEPT !.inhibit = TRUE]
      BY <2>2 DEF StoredUnder
    <3>2. ctl' \in CtlType /\ ctl'.op = k.op /\ ctl'.inhibit = TRUE
      BY <3>1 DEF CtlType
    <3> QED BY <3>2 DEF Permitted
  <2> QED BY <2>1, <2>2
<1>5. hist' \in HistType /\ hist'.gen = hist.gen /\ hist'.sent = hist.sent
  <2>1. hist.faults - w.faults \in Int
    BY <1>1 DEF Typed, HistType
  <2>2. hist' = [hist EXCEPT !.faults = hist.faults - w.faults]
    BY DEF StoredUnder
  <2>3. hist \in HistType
    BY DEF Typed
  <2> QED BY <2>1, <2>2, <2>3 DEF HistType
<1> QED BY <1>2, <1>3, <1>4, <1>5 DEF Left

LEMMA OutcomeOf ==
    ASSUME Typed, NEW c \in Blob, NEW w \in Outcomes(c)
    PROVE  /\ w \in WriteType /\ w.blob \in {nvs.blob, c}
           /\ w.ok => w.blob = c
<1>1. nvs.blob \in Blob
  BY DEF Typed, NvsType
<1>2. CASE w = [ok |-> TRUE, blob |-> c, faults |-> 0]
  BY <1>2 DEF WriteType
<1>3. CASE \E n \in {nvs.blob, c} : w = [ok |-> FALSE, blob |-> n, faults |-> 1]
  <2>1. PICK n \in {nvs.blob, c} : w = [ok |-> FALSE, blob |-> n, faults |-> 1]
    BY <1>3
  <2> QED BY <1>1, <2>1 DEF WriteType
<1> QED BY <1>2, <1>3 DEF Outcomes

LEMMA ClosingOf ==
    ASSUME NEW w \in WriteType, NEW g \in Nat \ {0}, NEW v \in Closings(w, g)
    PROVE  /\ v \in WriteType /\ v.blob \in {w.blob, Closed(g)}
           /\ v.ok /\ ~w.ok => v.blob = Closed(g)
BY ClosedSound DEF Closings, WriteType

LEMMA HoldingOf ==
    ASSUME Typed, NEW b \in Blob
    PROVE  Holding(b) \in RamType /\ Holding(b).loaded /\ Holding(b).blob = b
BY DEF Typed, RamType, Holding

\* A task's write of the record c, or of the closed one in its place.
Put(c) ==
    /\ nvs' \in NvsType /\ ram' \in RamType /\ ctl' \in CtlType /\ hist' \in HistType
    /\ nvs'.manifest = nvs.manifest /\ ram'.loaded
    /\ nvs'.blob \in {nvs.blob, c, Closed(ram.blob.gen)}
    /\ ram'.blob \in {ram.blob, c, Closed(ram.blob.gen)}
    /\ ~ram'.uncertain => nvs'.blob = ram'.blob
    /\ ctl'.op = ctl.op /\ Permitted' /\ (ctl.inhibit /\ ctl.op # "none" => ctl'.inhibit)
    /\ hist'.gen = hist.gen /\ hist'.sent = hist.sent

LEMMA SavePuts ==
    ASSUME Typed, ram.loaded, ram.blob.gen # 0,
           NEW c \in Blob, NEW w \in Outcomes(c),
           NEW k \in CtlType, k.op = ctl.op, k.inhibit = ctl.inhibit,
           \/ w.ok /\ Stored(w, Holding(c), k)
           \/ ~w.ok /\ CloseAfter(w, k)
           \/ ~w.ok /\ Stored(w, ram, k)
    PROVE  Put(c) /\ (w.ok => nvs'.blob = c /\ ram'.blob = c)
<1> DEFINE g == ram.blob.gen
           m == nvs.manifest
<1>1. /\ w \in WriteType /\ w.blob \in {nvs.blob, c} /\ (w.ok => w.blob = c)
      /\ g \in Nat \ {0} /\ m \in [gen : Nat, mask : SUBSET Slots] /\ ram \in RamType
  BY OutcomeOf, SMTT(60) DEF Typed, RamType, NvsType, Blob
<1>2. Holding(c) \in RamType /\ Holding(c).loaded /\ Holding(c).blob = c
  BY HoldingOf
<1>3. CASE w.ok /\ Stored(w, Holding(c), k)
  <2>1. Left(w, Holding(c), k, m)
    BY <1>1, <1>2, <1>3, StoredLeaves DEF Stored
  <2> QED BY <1>1, <1>2, <1>3, <2>1 DEF Left, Put
<1>4. CASE ~w.ok /\ Stored(w, ram, k)
  <2>1. Left(w, ram, k, m)
    BY <1>1, <1>4, StoredLeaves DEF Stored
  <2> QED BY <1>1, <1>4, <2>1 DEF Left, Put
<1>5. CASE ~w.ok /\ CloseAfter(w, k)
  <2> DEFINE h == Holding(Closed(g))
             j == [k EXCEPT !.running = FALSE]
  <2>1. h \in RamType /\ h.loaded /\ h.blob = Closed(g)
    BY <1>1, HoldingOf, ClosedSound
  <2>2. j \in CtlType /\ j.op = ctl.op /\ j.inhibit = ctl.inhibit
    BY DEF CtlType
  <2>3. PICK v \in Closings(w, g) : Stored(v, h, j)
    BY <1>5 DEF CloseAfter
  <2>4. v \in WriteType /\ v.blob \in {w.blob, Closed(g)} /\ (v.ok => v.blob = Closed(g))
    BY <1>1, <1>5, ClosingOf
  <2> HIDE DEF h, j
  <2>5. Left(v, h, j, m)
    BY <1>1, <2>1, <2>2, <2>3, <2>4, StoredLeaves DEF Stored
  <2>6. (v.ok = TRUE \/ v.ok = FALSE) /\ (ram'.uncertain = ~v.ok)
    BY <2>4, <2>5 DEF WriteType, Left
  <2> QED BY <1>1, <1>5, <2>1, <2>2, <2>4, <2>5, <2>6 DEF Left, Put
<1> QED BY <1>3, <1>4, <1>5

-----------------------------------------------------------------------------
(* What the kinds of step keep.                                            *)
KeepsDone ==
    \A s \in Slots :
        /\ ~ram.uncertain /\ nvs.blob.slot[s].state \in Done
        /\ nvs'.blob.gen = nvs.blob.gen /\ ~nvs'.blob.closed
        => nvs'.blob.slot[s].state = nvs.blob.slot[s].state

\* There is a campaign to work on.
Active == ram.loaded /\ ram.blob.mask # {}

LEMMA ActiveMain ==
    ASSUME IInv, Active
    PROVE  pc["main"] \notin Stages \cup {"boot"}
<1>1. hist.gen \in Nat \ {0}
  BY DEF IInv, Typed, HistType
<1>2. ~Unarmed /\ ~ClosedFor(hist.gen)
  BY <1>1, ClosedSound DEF Active, Unarmed, ClosedFor
<1> QED BY <1>2 DEF IInv, Generations, Staged, Stages, Active

LEMMA SoundCounts ==
    ASSUME NEW b \in Blob, Sound(b), NEW s \in Slots
    PROVE  b.slot[s].attempts \in Nat /\ b.slot[s].attempts <= MaxAttempts
BY DEF Sound, Valid, ValidSlot, Blob, SlotType

LEMMA DueIsCount ==
    ASSUME Typed, NEW s \in Slots
    PROVE  Due(s) \in Nat /\ hist.sent[s] \in Nat /\ hist.sent[s] <= Due(s)
<1>1. hist.sent[s] \in Nat
  BY DEF Typed, HistType
<1> QED BY <1>1 DEF Due

LEMMA DueFalls ==
    ASSUME Typed, Typed', hist'.sent = hist.sent, NEW s \in Slots,
           Reserved(s)' => Reserved(s)
    PROVE  Due(s)' <= Due(s) /\ Due(s) \in Nat /\ Due(s)' \in Nat
<1>1. hist.sent[s] \in Nat /\ hist'.sent[s] = hist.sent[s]
  BY DEF Typed, HistType
<1> QED BY <1>1 DEF Due

LEMMA CampaignGen ==
    ASSUME IInv, ram.loaded
    PROVE  ram.blob \in Blob /\ ram.blob.gen \in Nat \ {0} /\ Sound(ram.blob)
<1>1. ram.blob \in Blob
  BY DEF IInv, Typed, RamType
<1> QED BY <1>1 DEF IInv, Records, Sound, Valid, Blob

LEMMA PutKeeps ==
    ASSUME IInv, Active, NEW c, Amends(ram.blob, c), Put(c),
           pc'["main"] \notin Stages \cup {"boot"}
    PROVE  Records' /\ Generations' /\ KeepsDone
<1> DEFINE g == ram.blob.gen
<1>1. ram.loaded /\ g \in Nat \ {0} /\ ram.blob \in Blob /\ Sound(ram.blob)
  BY CampaignGen DEF Active
<1>2. /\ Closed(g) \in Blob /\ Sound(Closed(g)) /\ Readable(Closed(g)) /\ Closed(g).gen = g
      /\ Closed(g).mask = {} /\ Closed(g).closed
  BY <1>1, ClosedSound
<1>3. /\ c \in Blob /\ Sound(c) /\ Readable(c) /\ c.gen = g
      /\ c.mask = ram.blob.mask /\ c.closed = ram.blob.closed
  BY DEF Amends, Readable, Sound
<1>4. Records'
  <2>1. Readable(nvs.blob) /\ Readable(nvs'.blob)
    BY <1>2, <1>3 DEF IInv, Records, Put
  <2>2. Sound(ram'.blob) /\ ram'.loaded
    BY <1>1, <1>2, <1>3 DEF Put
  <2>3. nvs'.manifest = nvs.manifest /\ (~ram'.uncertain => nvs'.blob = ram'.blob)
    BY DEF Put
  <2> QED BY <2>1, <2>2, <2>3 DEF IInv, Records
<1>5. Generations'
  <2>1. /\ nvs'.manifest = nvs.manifest /\ hist'.gen = hist.gen /\ ram'.loaded
        /\ nvs'.blob.gen \in {nvs.blob.gen, g} /\ ram'.blob.gen = g
    BY <1>2, <1>3 DEF Put
  <2>2. nvs.manifest.gen = 0 \/ Matches(ram.blob)
    BY <1>1 DEF IInv, Generations
  <2>3. nvs'.manifest.gen = 0 \/ Matches(ram.blob)'
    BY <1>2, <1>3, <2>1, <2>2 DEF Put, Matches
  <2>4. Staged'
    BY DEF Staged, Stages
  <2> QED BY <2>1, <2>3, <2>4 DEF IInv, Generations
<1>6. KeepsDone
  <2> SUFFICES ASSUME NEW s \in Slots, ~ram.uncertain, nvs.blob.slot[s].state \in Done,
                      ~nvs'.blob.closed
               PROVE  nvs'.blob.slot[s].state = nvs.blob.slot[s].state
    BY DEF KeepsDone
  <2>1. nvs.blob = ram.blob
    BY <1>1 DEF IInv, Records
  <2>2. nvs'.blob # Closed(g)
    BY <1>2
  <2> QED BY <2>1, <2>2 DEF Put, Amends
<1> QED BY <1>4, <1>5, <1>6

\* A write that no relay is owed more than.
LEMMA PutCovers ==
    ASSUME IInv, Typed', Active, NEW c, Amends(ram.blob, c), Put(c),
           \A s \in Slots : Reserved(s)' => Reserved(s),
           nvs.manifest.gen # 0 => \A s \in Slots : Due(s)' <= c.slot[s].attempts
    PROVE  Sending'
<1> DEFINE g == ram.blob.gen
           m == nvs.manifest.gen
<1>1. ram.loaded /\ g \in Nat \ {0} /\ ram.blob \in Blob /\ Sound(ram.blob)
  BY CampaignGen DEF Active
<1>2. /\ Closed(g).gen = g /\ c.gen = g /\ c.slot \in [Slots -> SlotType]
      /\ \A s \in Slots : Closed(g).slot[s].attempts = MaxAttempts
  BY <1>1, ClosedSound DEF Amends, Blob
<1>3. /\ nvs'.manifest.gen = m /\ ram'.loaded /\ hist'.sent = hist.sent
      /\ nvs'.blob \in {nvs.blob, c, Closed(g)} /\ ram'.blob \in {ram.blob, c, Closed(g)}
  BY DEF Put
<1>4. \A s \in Slots : Due(s)' <= Due(s) /\ Due(s) \in Nat /\ Due(s)' \in Nat
  BY <1>3, DueFalls DEF IInv
<1>5. ASSUME m # 0, NEW s \in Slots
      PROVE  /\ Due(s)' <= ram.blob.slot[s].attempts /\ Due(s)' <= MaxAttempts
             /\ nvs.blob.gen = m => Due(s)' <= nvs.blob.slot[s].attempts
  <2>1. Due(s) <= ram.blob.slot[s].attempts
    BY <1>1, <1>5 DEF IInv, Sending, Covers
  <2>2. nvs.blob.gen = m => Due(s) <= nvs.blob.slot[s].attempts
    BY <1>5 DEF IInv, Sending, Covers
  <2>3. ram.blob.slot[s].attempts \in Nat /\ ram.blob.slot[s].attempts <= MaxAttempts
    BY <1>1, SoundCounts
  <2>4. nvs.blob.slot[s].attempts \in Nat
    BY DEF IInv, Typed, NvsType, Blob, SlotType
  <2>5. Due(s)' <= Due(s) /\ Due(s) \in Nat /\ Due(s)' \in Nat /\ MaxAttempts \in Nat
    BY <1>4, BudgetAssumption
  <2> HIDE DEF m
  <2>6. Due(s)' <= ram.blob.slot[s].attempts
    BY <2>1, <2>3, <2>5
  <2>7. Due(s)' <= MaxAttempts
    BY <2>3, <2>5, <2>6
  <2>8. nvs.blob.gen = m => Due(s)' <= nvs.blob.slot[s].attempts
    BY <2>2, <2>4, <2>5
  <2> QED BY <2>6, <2>7, <2>8
<1>6. m # 0 => Covers(ram.blob)'
  BY <1>2, <1>3, <1>5 DEF Covers
<1>7. m # 0 /\ nvs'.blob.gen = m => Covers(nvs.blob)'
  BY <1>2, <1>3, <1>5 DEF Covers
<1>8. nvs'.blob.gen = 0 => nvs.blob.gen = 0
  BY <1>1, <1>2, <1>3
<1>9. ASSUME NEW s \in Slots, Reserved(s)', m # 0
      PROVE  nvs'.blob.gen = m
  <2>1. Reserved(s)
    BY <1>9
  <2>2. nvs.blob.gen = m
    BY <1>9, <2>1 DEF IInv, Sending
  <2>3. g = m
    BY <1>1, <1>9 DEF IInv, Generations, Matches
  <2> QED BY <1>2, <1>3, <2>2, <2>3
<1> QED BY <1>3, <1>6, <1>7, <1>8, <1>9 DEF IInv, Sending

\* A step that leaves records and counts alone.
Still == UNCHANGED <<nvs, ram>> /\ hist'.gen = hist.gen /\ hist'.sent = hist.sent
MainStays ==
    \/ pc'["main"] = pc["main"] /\ ctl'.op = ctl.op
    \/ pc["main"] \notin {"boot", "failed"} \cup Stages
       /\ pc'["main"] \notin {"boot"} \cup Stages
    \/ pc'["main"] = pc["main"] /\ pc["main"] \notin Stages
LEMMA StillKeeps ==
    ASSUME IInv, Typed', Still, MainStays,
           \A s \in Slots : Reserved(s)' => Reserved(s)
    PROVE  Records' /\ Generations' /\ Sending' /\ KeepsDone
<1>1. nvs' = nvs /\ ram' = ram /\ hist'.gen = hist.gen /\ hist'.sent = hist.sent
  BY DEF Still
<1>2. Records'
  BY <1>1 DEF IInv, Records
<1>3. Staged'
  BY <1>1 DEF IInv, Generations, Staged, Stages, MainStays, ClosedFor, Unarmed
<1>4. Generations'
  BY <1>1, <1>3 DEF IInv, Generations, Stages, MainStays, Matches
<1>5. Sending'
  <2>1. \A s \in Slots : Due(s)' <= Due(s) /\ Due(s) \in Nat /\ Due(s)' \in Nat
    BY <1>1, DueFalls DEF IInv
  <2>2. \A s \in Slots : /\ nvs.blob.slot[s].attempts \in Nat
                         /\ ram.blob.slot[s].attempts \in Nat
    BY DEF IInv, Typed, NvsType, RamType, Blob, SlotType
  <2>3. Covers(nvs.blob) => Covers(nvs.blob)'
    BY <1>1, <2>1, <2>2 DEF Covers
  <2>4. Covers(ram.blob) => Covers(ram.blob)'
    BY <1>1, <2>1, <2>2 DEF Covers
  <2> QED BY <1>1, <2>3, <2>4 DEF IInv, Sending
<1>6. KeepsDone
  BY <1>1 DEF KeepsDone
<1> QED BY <1>2, <1>4, <1>5, <1>6

-----------------------------------------------------------------------------
(* The steps of the tasks that leave job and stages alone.                 *)
TailPlaces == {"reprompt", "deliver", "rollback", "kick"}
Frame ==
    /\ pc' \in [Tasks -> Places] /\ job' = job
    /\ \/ pc'["worker"] = pc["worker"]
       \/ pc["worker"] \notin Held /\ pc'["worker"] \notin Held
    /\ \/ pc'["main"] = pc["main"]
       \/ /\ pc["main"] \notin {"boot", "failed"} \cup Stages
          /\ pc'["main"] \notin {"boot", "failed"} \cup Stages
Calm ==
    /\ ctl'.op = ctl.op /\ Permitted'
    /\ ctl.inhibit /\ ctl.op # "none" => ctl'.inhibit

LEMMA FrameKeeps ==
    ASSUME IInv, Typed', Frame, Calm, hist'.gen = hist.gen,
           nvs'.manifest.gen = nvs.manifest.gen
    PROVE  /\ Controls' /\ Jobs' /\ MainStays
           /\ Active => pc'["main"] \notin Stages \cup {"boot"}
           /\ \A s \in Slots : Reserved(s)' => Reserved(s)
<1>1. Controls'
  <2>1. pc'["worker"] = "relay" <=> pc["worker"] = "relay"
    BY DEF Frame, Held
  <2>2. pc'["main"] \in Stages <=> pc["main"] \in Stages
    BY DEF Frame
  <2>3. pc["main"] \in Stages => ctl.op # "none" /\ ctl.inhibit
    BY ScenarioAssumption DEF IInv, Controls
  <2> QED BY <2>1, <2>2, <2>3 DEF IInv, Controls, Calm
<1>2. Jobs'
  BY DEF IInv, Jobs, Frame, Held
<1>3. MainStays
  BY DEF Frame, MainStays, Calm
<1>4. Active => pc'["main"] \notin Stages \cup {"boot"}
  BY ActiveMain DEF Frame
<1>5. \A s \in Slots : Reserved(s)' => Reserved(s)
  BY DEF Reserved, Unspent, Frame, Held
<1> QED BY <1>1, <1>2, <1>3, <1>4, <1>5

VolFalls ==
    /\ vol' \in [Slots -> VolType] /\ ident' = ident
    /\ \A s \in Slots : vol'[s].heard \subseteq vol[s].heard
LEMMA VolKeeps ==
    ASSUME IInv, VolFalls
    PROVE  Heard'
BY DEF IInv, Heard, VolFalls

Good == IInv' /\ KeepsDone

LEMMA AsideStill ==
    ASSUME IInv, Typed', Frame, Calm, Still, VolFalls
    PROVE  Good
<1>1. hist'.gen = hist.gen /\ nvs'.manifest.gen = nvs.manifest.gen
  BY DEF Still
<1>2. /\ Controls' /\ Jobs' /\ MainStays /\ \A s \in Slots : Reserved(s)' => Reserved(s)
  BY <1>1, FrameKeeps
<1>3. Records' /\ Generations' /\ Sending' /\ KeepsDone
  BY <1>2, StillKeeps
<1> QED BY <1>2, <1>3, VolKeeps DEF IInv, Good

\* Attempts are neither spent nor returned.
SameAttempts(b, c) == \A s \in Slots : c.slot[s].attempts = b.slot[s].attempts

LEMMA AsidePut ==
    ASSUME IInv, Typed', Frame, Active, NEW c, Put(c), Amends(ram.blob, c),
           SameAttempts(ram.blob, c), VolFalls
    PROVE  Good
<1>1. hist'.gen = hist.gen /\ nvs'.manifest.gen = nvs.manifest.gen /\ Calm
      /\ hist'.sent = hist.sent
  BY DEF Put, Calm
<1>2. /\ Controls' /\ Jobs' /\ pc'["main"] \notin Stages \cup {"boot"}
      /\ \A s \in Slots : Reserved(s)' => Reserved(s)
  BY <1>1, FrameKeeps
<1>3. Records' /\ Generations' /\ KeepsDone
  BY <1>2, PutKeeps
<1>4. ASSUME nvs.manifest.gen # 0, NEW s \in Slots
      PROVE  Due(s)' <= c.slot[s].attempts
  <2>1. Due(s)' <= Due(s) /\ Due(s) \in Nat /\ Due(s)' \in Nat
    BY <1>1, <1>2, DueFalls DEF IInv
  <2>2. Due(s) <= ram.blob.slot[s].attempts
    BY <1>4 DEF IInv, Sending, Covers, Active
  <2>3. c.slot[s].attempts = ram.blob.slot[s].attempts /\ c.slot[s].attempts \in Nat
    BY DEF SameAttempts, Amends, Blob, SlotType
  <2> QED BY <2>1, <2>2, <2>3
<1>5. Sending'
  BY <1>2, <1>4, PutCovers
<1> QED BY <1>2, <1>3, <1>5, VolKeeps DEF IInv, Good

-----------------------------------------------------------------------------
(* Identity acquisition.                                                   *)
LEMMA TouchesOne ==
    ASSUME NEW b \in Blob, Sound(b), NEW s \in b.mask, NEW c, Touches(b, c, {s}),
           b.slot[s].state \notin Done, Proper(c.slot[s])
    PROVE  /\ Amends(b, c)
           /\ c.slot[s].attempts = b.slot[s].attempts => SameAttempts(b, c)
<1>1. {s} \in SUBSET b.mask
  OBVIOUS
<1>2. \A t \in {s} : Proper(c.slot[t]) /\ b.slot[t].state \notin Done
  OBVIOUS
<1>3. Amends(b, c)
  BY <1>1, <1>2, AmendedSlots
<1> QED BY <1>3 DEF Touches, SameAttempts

\* A change of state that binds no hardware.
LEMMA ChangeAmends ==
    ASSUME NEW b \in Blob, Sound(b), NEW s \in b.mask, b.slot[s].state \notin Done,
           NEW st \in {"awaiting", "offered", "converged", "current", "refused", "failed",
                       "newer"}
    PROVE  /\ Change(b, s, st) \in Blob
           /\ Amends(b, Change(b, s, st)) /\ SameAttempts(b, Change(b, s, st))
<1> DEFINE c == Change(b, s, st)
<1>1. s \in Slots /\ st \in SlotState
  BY DEF Blob, SlotState, Terminal
<1>2. /\ Touches(b, c, {s}) /\ c.slot[s].state = st /\ c.slot[s].pending = (st = "ready")
      /\ c.slot[s].wait = "none" /\ c.slot[s].bound = 0
      /\ c.slot[s].attempts = b.slot[s].attempts /\ c.slot[s].probes = b.slot[s].probes
  BY <1>1, ChangeTouches
<1> HIDE DEF c
<1>3. b.slot[s].attempts <= MaxAttempts /\ b.slot[s].probes <= MaxProbes
  BY RequestedIsProper DEF Proper
<1>4. (c.slot[s].bound # 0) = (c.slot[s].state \in {"ready", "relaying", "recovering"})
  BY <1>2
<1>5. Proper(c.slot[s])
  BY <1>2, <1>3, <1>4 DEF Proper
<1> QED BY <1>2, <1>5, TouchesOne DEF c, Amends

LEMMA AmendsTrans ==
    ASSUME NEW a, NEW b, NEW c, Amends(a, b), Amends(b, c),
           SameAttempts(a, b), SameAttempts(b, c)
    PROVE  Amends(a, c) /\ SameAttempts(a, c)
<1>1. SameAttempts(a, c)
  BY DEF SameAttempts
<1>2. \A s \in Slots : a.slot[s].state \in Done => c.slot[s].state = a.slot[s].state
  BY DEF Amends
<1> QED BY <1>1, <1>2 DEF Amends

LEMMA AcquireAmends ==
    ASSUME Typed, NEW b \in Blob, Sound(b), NEW s \in b.mask,
           b.slot[s].state \in {"awaiting", "offered"}
    PROVE  LET a == Acquire(b, s) IN
           /\ Amends(b, a.blob) /\ SameAttempts(b, a.blob)
           /\ a.deadline \in {"none", "open"}
<1> DEFINE a == Acquire(b, s)
           r == b.slot[s]
<1>1. s \in Slots /\ r \in SlotType /\ Proper(r) /\ r.state \notin Done
  BY RequestedIsProper DEF Done
<1>2. CASE a = Step("over", Change(b, s, "failed"), "none")
  BY <1>1, <1>2, ChangeAmends DEF Step
<1>3. CASE a = Step("wait", b, "open")
  <2>1. Amends(b, b) /\ SameAttempts(b, b)
    BY DEF Amends, SameAttempts
  <2> QED BY <1>3, <2>1 DEF Step
<1>4. CASE a = Step("ask", [b EXCEPT !.slot[s].wait = "active"], "open")
  <2> DEFINE c == [b EXCEPT !.slot[s].wait = "active"]
             q == [r EXCEPT !.wait = "active"]
  <2>1. q \in SlotType /\ q.wait = "active" /\ q.state = r.state /\ q.attempts = r.attempts
        /\ q.probes = r.probes /\ q.bound = r.bound /\ q.pending = r.pending
    BY <1>1 DEF SlotType
  <2>2. Proper(q)
    BY <1>1, <2>1 DEF Proper
  <2>3. c = With(b, s, q)
    BY DEF With
  <2> HIDE DEF q, c
  <2>4. Touches(b, c, {s}) /\ c.slot[s] = q
    BY <1>1, <2>1, <2>3, SlotTouches
  <2>5. Amends(b, c) /\ SameAttempts(b, c)
    BY <1>1, <2>1, <2>2, <2>4, TouchesOne
  <2> QED BY <1>4, <2>5 DEF c, Step
<1>5. CASE /\ r.probes < MaxProbes
           /\ a = Step("probe", [b EXCEPT !.slot[s].wait = "none",
                                          !.slot[s].probes = @ + 1], "none")
  <2> DEFINE c == [b EXCEPT !.slot[s].wait = "none", !.slot[s].probes = @ + 1]
             n == r.probes + 1
             q == [r EXCEPT !.wait = "none", !.probes = n]
  <2>1. n \in Nat /\ n <= MaxProbes
    BY <1>1, <1>5, BudgetAssumption DEF SlotType
  <2> HIDE DEF n
  <2>2. q \in SlotType /\ q.wait = "none" /\ q.state = r.state /\ q.attempts = r.attempts
        /\ q.probes = n /\ q.bound = r.bound /\ q.pending = r.pending
    BY <1>1, <2>1 DEF SlotType
  <2>3. Proper(q)
    BY <1>1, <2>1, <2>2 DEF Proper
  <2>4. c = With(b, s, q)
    BY <1>1 DEF n, With, Blob, SlotType
  <2> HIDE DEF q, c
  <2>5. Touches(b, c, {s}) /\ c.slot[s] = q
    BY <1>1, <2>2, <2>4, SlotTouches
  <2>6. Amends(b, c) /\ SameAttempts(b, c)
    BY <1>1, <2>2, <2>3, <2>5, TouchesOne
  <2> QED BY <1>5, <2>6 DEF c, Step
<1>6. CASE a = Step("over", [Change(b, s, "failed") EXCEPT !.slot[s].wait = "exhausted"],
                    "none")
  <2> DEFINE d == Change(b, s, "failed")
             c == [d EXCEPT !.slot[s].wait = "exhausted"]
             q == [d.slot[s] EXCEPT !.wait = "exhausted"]
  <2>1. "failed" \in SlotState
    BY DEF SlotState, Terminal
  <2>2. /\ Touches(b, d, {s}) /\ d.slot[s] \in SlotType /\ d.slot[s].state = "failed"
        /\ d.slot[s].pending = ("failed" = "ready") /\ d.slot[s].bound = 0
        /\ d.slot[s].attempts = r.attempts /\ d.slot[s].probes = r.probes
    BY <1>1, <2>1, ChangeTouches
  <2> HIDE DEF d
  <2>3. q \in SlotType /\ q.wait = "exhausted" /\ q.state = "failed"
        /\ q.attempts = r.attempts /\ q.probes = r.probes /\ q.bound = 0
        /\ q.pending = ("failed" = "ready")
    BY <2>2 DEF SlotType
  <2>4. (q.bound # 0) = (q.state \in {"ready", "relaying", "recovering"})
    BY <2>3
  <2>5. Proper(q)
    BY <1>1, <2>3, <2>4 DEF Proper
  <2>6. c = With(d, s, q) /\ d \in Blob
    BY <2>2 DEF Touches, With
  <2> HIDE DEF q, c
  <2>7. Touches(d, c, {s}) /\ c.slot[s] = q
    BY <1>1, <2>3, <2>6, SlotTouches
  <2>8. Touches(b, c, {s})
    BY <2>2, <2>7 DEF Touches
  <2>9. Amends(b, c) /\ SameAttempts(b, c)
    BY <1>1, <2>3, <2>5, <2>7, <2>8, TouchesOne
  <2> QED BY <1>6, <2>9 DEF c, d, Step
<1>7. r.probes < MaxProbes \/ r.probes >= MaxProbes
  BY <1>1, BudgetAssumption DEF SlotType
<1> QED BY <1>2, <1>3, <1>4, <1>5, <1>6, <1>7 DEF Acquire

-----------------------------------------------------------------------------
(* The shared tails.                                                       *)
LEMMA SavedPuts ==
    ASSUME Typed, ram.loaded, ram.blob.gen # 0,
           NEW c \in Blob, NEW w \in Outcomes(c), SaveOrClose(w, c) \/ SaveOrRevert(w, c)
    PROVE  Put(c) /\ w.ok \in BOOLEAN
<1>1. ctl \in CtlType /\ w.ok \in BOOLEAN
  BY OutcomeOf DEF Typed, WriteType
<1>2. \/ w.ok /\ Stored(w, Holding(c), ctl)
      \/ ~w.ok /\ CloseAfter(w, ctl)
      \/ ~w.ok /\ Stored(w, ram, ctl)
  BY <1>1 DEF SaveOrClose, SaveOrRevert
<1> QED BY <1>1, <1>2, SavePuts

LEMMA VolFields ==
    ASSUME NEW v \in VolType
    PROVE  /\ ClearBindings(v) \in VolType /\ ClearBindings(v).heard \subseteq v.heard
           /\ \A d \in {"none", "open", "passed"} :
                /\ [v EXCEPT !.deadline = d] \in VolType
                /\ [v EXCEPT !.deadline = d].heard = v.heard
           /\ \A r \in {"unset", "cooling", "due", "spaced"} :
                /\ [v EXCEPT !.recover = r] \in VolType
                /\ [v EXCEPT !.recover = r].heard = v.heard
           /\ \A marks \in SUBSET Marks :
                /\ Forget(v, marks) \in VolType /\ Forget(v, marks).heard \subseteq v.heard
<1>1. ClearBindings(v) \in VolType /\ ClearBindings(v).heard \subseteq v.heard
  <2> DEFINE h == v.heard \cap {"floor"}
  <2>1. h \in SUBSET Marks /\ h \subseteq v.heard
    BY DEF VolType
  <2> HIDE DEF h
  <2>2. ClearBindings(v) = [v EXCEPT !.offer = "none", !.ready = "none", !.legacy = FALSE,
                                     !.heard = h]
    BY DEF ClearBindings, h
  <2> QED BY <2>1, <2>2 DEF VolType
<1>2. ASSUME NEW marks \in SUBSET Marks
      PROVE  Forget(v, marks) \in VolType /\ Forget(v, marks).heard \subseteq v.heard
  <2> DEFINE h == v.heard \ marks
  <2>1. h \in SUBSET Marks /\ h \subseteq v.heard
    BY DEF VolType
  <2> HIDE DEF h
  <2>2. Forget(v, marks) = [v EXCEPT !.heard = h]
    BY DEF Forget, h
  <2> QED BY <2>1, <2>2 DEF VolType
<1>3. \A d \in {"none", "open", "passed"} :
        [v EXCEPT !.deadline = d] \in VolType /\ [v EXCEPT !.deadline = d].heard = v.heard
  BY DEF VolType
<1>4. \A r \in {"unset", "cooling", "due", "spaced"} :
        [v EXCEPT !.recover = r] \in VolType /\ [v EXCEPT !.recover = r].heard = v.heard
  BY DEF VolType
<1> QED BY <1>1, <1>2, <1>3, <1>4

\* Every slot is replaced, or one is.
LEMMA VolAll ==
    ASSUME Typed, ident' = ident, NEW f, vol' = [s \in Slots |-> f[s]],
           \A s \in Slots : f[s] \in VolType /\ f[s].heard \subseteq vol[s].heard
    PROVE  VolFalls
BY DEF VolFalls, Typed

LEMMA VolOne ==
    ASSUME Typed, ident' = ident, NEW s \in Slots, NEW r \in VolType,
           r.heard \subseteq vol[s].heard, vol' = [vol EXCEPT ![s] = r]
    PROVE  VolFalls
BY DEF VolFalls, Typed

LEMMA LiveRequested ==
    ASSUME NEW b \in Blob, Sound(b), NEW s \in Slots, b.slot[s].state \notin Terminal
    PROVE  s \in b.mask
BY DEF Sound, Valid, ValidSlot, Terminal, Blob

LEMMA ConsideredAmends ==
    ASSUME Typed, NEW b \in Blob, Sound(b), NEW s \in Slots
    PROVE  LET a == Considered(b, s) IN
           /\ Amends(b, a.blob) /\ SameAttempts(b, a.blob)
           /\ a.deadline \in {"none", "open", "passed"}
           /\ b.mask = {} => a.blob = b
<1>1. CASE Waits(b, s)
  <2>1. s \in b.mask /\ b.slot[s].state \in {"awaiting", "offered"}
    BY <1>1 DEF Waits
  <2> QED BY <1>1, <2>1, AcquireAmends DEF Considered
<1>2. CASE ~Waits(b, s)
  <2>1. Considered(b, s) = Step("none", b, vol[s].deadline)
    BY <1>2 DEF Considered
  <2>2. Amends(b, b) /\ SameAttempts(b, b)
    BY DEF Amends, SameAttempts
  <2>3. vol[s].deadline \in {"none", "open", "passed"}
    BY DEF Typed, VolType
  <2> QED BY <2>1, <2>2, <2>3 DEF Step
<1> QED BY <1>1, <1>2

\* A tail of a task changes its place only; another task's handler too.
LEMMA TailFrame ==
    ASSUME Typed, NEW t \in Tasks, pc[t] \in TailPlaces,
           NEW where \in TailPlaces \cup {"top", "idle"}, Goto(t, where), job' = job
    PROVE  Frame
<1>1. pc' \in [Tasks -> Places] /\ pc'[t] = where /\ \A u \in Tasks \ {t} : pc'[u] = pc[u]
  BY DEF Typed, Goto, Places, TailPlaces
<1>2. "worker" \in Tasks /\ "main" \in Tasks
  BY DEF Tasks
<1>3. pc[t] \notin Held \cup Stages \cup {"boot", "failed"}
      /\ where \notin Held \cup Stages \cup {"boot", "failed"}
  BY DEF TailPlaces, Held, Stages
<1> QED BY <1>1, <1>2, <1>3 DEF Frame

LEMMA CalmHere ==
    ASSUME IInv, UNCHANGED <<ctl, ram>>
    PROVE  Calm
BY DEF IInv, Controls, Permitted, Calm

LEMMA StoppedVol ==
    ASSUME Typed, ident' = ident,
           vol' = [s \in Slots |-> [vol[s] EXCEPT !.deadline = "none"]]
    PROVE  VolFalls
<1>1. ASSUME NEW s \in Slots
      PROVE  /\ [vol[s] EXCEPT !.deadline = "none"] \in VolType
             /\ [vol[s] EXCEPT !.deadline = "none"].heard = vol[s].heard
  <2>1. vol[s] \in VolType
    BY DEF Typed
  <2> QED BY <2>1, VolFields
<1> QED BY <1>1 DEF VolFalls

LEMMA RepromptGood ==
    ASSUME IInv, NEW t \in Tasks, Reprompt(t)
    PROVE  Good
<1>1. /\ Typed /\ pc[t] \in TailPlaces /\ ident' = ident /\ world' = world /\ job' = job
      /\ After(t) \in TailPlaces \cup {"top", "idle"}
  BY DEF IInv, Reprompt, TailPlaces, After
<1>2. CASE Goto(t, After(t)) /\ UNCHANGED <<nvs, ram, vol, ask, ctl, hist>>
  <2>1. Frame /\ Calm /\ Still
    BY <1>1, <1>2, TailFrame, CalmHere DEF Still
  <2>2. Typed'
    BY <1>1, <1>2, <2>1 DEF Typed, Frame
  <2>3. VolFalls
    BY <1>1, <1>2 DEF VolFalls, Typed
  <2> QED BY <2>1, <2>2, <2>3, AsideStill
<1>3. CASE ram.loaded /\ ~(Goto(t, After(t)) /\ UNCHANGED <<nvs, ram, vol, ask, ctl, hist>>)
  <2> DEFINE first == Considered(ram.blob, "ble")
             second == Considered(first.blob, "wifi")
             does == [s \in Slots |-> IF s = "ble" THEN first ELSE second]
             asked == {s \in Slots : does[s].what = "ask"}
             next == [s \in Slots |->
                            IF does[s].what = "over"
                            THEN ClearBindings([vol[s] EXCEPT !.deadline = "none"])
                            ELSE [vol[s] EXCEPT !.deadline = does[s].deadline]]
             c == second.blob
  <2>1. c # ram.blob /\ Prompt(t, does, c)
    BY <1>3 DEF Reprompt
  <2>2. PICK w \in Outcomes(c) :
          /\ SaveOrClose(w, c)
          /\ vol' = (IF w.ok THEN next
                     ELSE [s \in Slots |-> [vol[s] EXCEPT !.deadline = "none"]])
          /\ ask' = [ask EXCEPT ![t] =
               IF w.ok /\ asked # {} THEN [ident |-> asked, gen |-> ram.blob.gen]
               ELSE NoAsk]
          /\ Goto(t, IF w.ok /\ asked # {} THEN "deliver" ELSE After(t))
    BY <2>1 DEF Prompt
  <2>3. ram.blob \in Blob /\ ram.blob.gen \in Nat \ {0} /\ Sound(ram.blob)
    BY <1>3, CampaignGen
  <2>4. "ble" \in Slots /\ "wifi" \in Slots
    BY DEF Slots
  <2>5. /\ Amends(ram.blob, first.blob) /\ SameAttempts(ram.blob, first.blob)
        /\ first.deadline \in {"none", "open", "passed"}
        /\ ram.blob.mask = {} => first.blob = ram.blob
    BY <1>1, <2>3, <2>4, ConsideredAmends
  <2> HIDE DEF first
  <2>6. first.blob \in Blob /\ Sound(first.blob)
    BY <2>5 DEF Amends
  <2>7. /\ Amends(first.blob, c) /\ SameAttempts(first.blob, c)
        /\ second.deadline \in {"none", "open", "passed"}
        /\ first.blob.mask = {} => c = first.blob
    BY <1>1, <2>4, <2>6, ConsideredAmends
  <2> HIDE DEF second
  <2>8. Amends(ram.blob, c) /\ SameAttempts(ram.blob, c) /\ Active
    <3>1. ram.blob.mask # {}
      BY <2>1, <2>5, <2>7
    <3> QED BY <1>3, <2>5, <2>7, <3>1, AmendsTrans DEF Active
  <2>9. Put(c) /\ w.ok \in BOOLEAN
    BY <1>1, <1>3, <2>2, <2>3, <2>7, SavedPuts DEF Amends
  <2>10. VolFalls
    <3>1. CASE ~w.ok
      BY <1>1, <2>2, <3>1, StoppedVol
    <3>2. CASE w.ok
      <4>1. ASSUME NEW s \in Slots
            PROVE  next[s] \in VolType /\ next[s].heard \subseteq vol[s].heard
        <5> DEFINE v == vol[s]
                   u == [v EXCEPT !.deadline = "none"]
                   d == does[s].deadline
        <5>1. v \in VolType
          BY <1>1 DEF Typed
        <5>2. d \in {"none", "open", "passed"}
          BY <2>5, <2>7
        <5> HIDE DEF d, v
        <5>3. u \in VolType /\ u.heard = v.heard
          BY <5>1, VolFields
        <5> HIDE DEF u
        <5>4. ClearBindings(u) \in VolType /\ ClearBindings(u).heard \subseteq v.heard
          BY <5>3, VolFields
        <5>5. [v EXCEPT !.deadline = d] \in VolType /\ [v EXCEPT !.deadline = d].heard = v.heard
          BY <5>1, <5>2, VolFields
        <5>6. next[s] \in {ClearBindings(u), [v EXCEPT !.deadline = d]}
          BY DEF u, v, d
        <5> QED BY <5>4, <5>5, <5>6 DEF v
      <4>2. vol' = next /\ vol' = [s \in Slots |-> next[s]]
        BY <2>2, <3>2
      <4> HIDE DEF next
      <4> QED BY <1>1, <4>1, <4>2, VolAll
    <3> QED BY <2>9, <3>1, <3>2
  <2>11. Frame
    BY <1>1, <2>2, TailFrame DEF TailPlaces
  <2>12. ask' \in [Tasks -> [ident : SUBSET Slots, gen : Nat]]
    <3>1. asked \in SUBSET Slots /\ NoAsk \in [ident : SUBSET Slots, gen : Nat]
      BY DEF NoAsk
    <3> HIDE DEF asked
    <3>2. (IF w.ok /\ asked # {} THEN [ident |-> asked, gen |-> ram.blob.gen] ELSE NoAsk)
            \in [ident : SUBSET Slots, gen : Nat]
      BY <2>3, <3>1
    <3> QED BY <1>1, <2>2, <3>2 DEF Typed
  <2>13. Typed'
    BY <1>1, <2>9, <2>10, <2>11, <2>12 DEF Typed, Put, VolFalls, Frame
  <2> HIDE DEF c
  <2> QED BY <2>8, <2>9, <2>10, <2>11, <2>13, AsidePut
<1> QED BY <1>2, <1>3 DEF Reprompt

LEMMA DeliverGood ==
    ASSUME IInv, NEW t \in Tasks, Deliver(t)
    PROVE  Good
<1>1. /\ Typed /\ pc[t] \in TailPlaces /\ UNCHANGED <<nvs, ram, vol, ident, world, job, ctl, hist>>
      /\ After(t) \in TailPlaces \cup {"top", "idle"} /\ "rollback" \in TailPlaces
  BY DEF IInv, Deliver, TailPlaces, After
<1>2. PICK sent : \/ Goto(t, After(t)) /\ ask' = [ask EXCEPT ![t] = NoAsk]
                  \/ Goto(t, "rollback") /\ ask' = [ask EXCEPT ![t].ident = @ \ sent]
  BY DEF Deliver
<1>3. Frame /\ Calm /\ Still
  BY <1>1, <1>2, TailFrame, CalmHere DEF Still
<1>4. ask' \in [Tasks -> [ident : SUBSET Slots, gen : Nat]]
  <2>1. NoAsk \in [ident : SUBSET Slots, gen : Nat]
    BY DEF NoAsk
  <2>2. CASE ask' = [ask EXCEPT ![t] = NoAsk]
    BY <1>1, <2>1, <2>2 DEF Typed
  <2>3. CASE ask' = [ask EXCEPT ![t].ident = @ \ sent]
    <3>1. ask[t].ident \ sent \in SUBSET Slots
      BY <1>1 DEF Typed
    <3> QED BY <1>1, <2>3, <3>1 DEF Typed
  <2> QED BY <1>2, <2>2, <2>3
<1>5. Typed'
  BY <1>1, <1>3, <1>4 DEF Typed, Frame
<1>6. VolFalls
  BY <1>1 DEF VolFalls, Typed
<1> QED BY <1>3, <1>5, <1>6, AsideStill

LEMMA RollbackGood ==
    ASSUME IInv, NEW t \in Tasks, Rollback(t)
    PROVE  Good
<1> DEFINE undone == {s \in ask[t].ident :
                        /\ ram.loaded /\ ram.blob.gen = ask[t].gen
                        /\ ram.blob.slot[s].state \notin Terminal
                        /\ ram.blob.slot[s].wait = "active"}
           q(s) == [ram.blob.slot[s] EXCEPT !.wait = "none"]
           c == [ram.blob EXCEPT !.slot =
                   [s \in Slots |-> IF s \in undone THEN [@[s] EXCEPT !.wait = "none"]
                                    ELSE @[s]]]
<1>1. /\ Typed /\ pc[t] \in TailPlaces /\ UNCHANGED <<ident, world, job>>
      /\ After(t) \in TailPlaces \cup {"top", "idle"}
      /\ Goto(t, After(t)) /\ ask' = [ask EXCEPT ![t] = NoAsk]
      /\ vol' = [s \in Slots |-> IF s \in undone
                        THEN [vol[s] EXCEPT !.deadline = "none"] ELSE vol[s]]
      /\ IF undone = {} THEN UNCHANGED <<nvs, ram, ctl, hist>>
         ELSE \E w \in Outcomes(c) : SaveOrClose(w, c)
  BY DEF IInv, Rollback, TailPlaces, After
<1>2. undone \subseteq Slots
  BY <1>1 DEF Typed
<1>3. Frame
  BY <1>1, TailFrame
<1>4. ask' \in [Tasks -> [ident : SUBSET Slots, gen : Nat]]
  BY <1>1 DEF Typed, NoAsk
<1>5. VolFalls
  <2>1. ASSUME NEW s \in Slots
        PROVE  /\ [vol[s] EXCEPT !.deadline = "none"] \in VolType /\ vol[s] \in VolType
               /\ [vol[s] EXCEPT !.deadline = "none"].heard = vol[s].heard
    <3>1. vol[s] \in VolType
      BY <1>1 DEF Typed
    <3> QED BY <3>1, VolFields
  <2> HIDE DEF undone
  <2> QED BY <1>1, <2>1 DEF VolFalls
<1>6. CASE undone = {}
  <2>1. Calm /\ Still
    BY <1>1, <1>6, CalmHere DEF Still
  <2>2. Typed'
    BY <1>1, <1>3, <1>4, <1>5, <1>6 DEF Typed, Frame, VolFalls
  <2> QED BY <1>3, <1>5, <2>1, <2>2, AsideStill
<1>7. CASE undone # {}
  <2>1. PICK w \in Outcomes(c) : SaveOrClose(w, c)
    BY <1>1, <1>7
  <2>2. ram.loaded
    BY <1>7
  <2>3. ram.blob \in Blob /\ ram.blob.gen \in Nat \ {0} /\ Sound(ram.blob)
    BY <2>2, CampaignGen
  <2>4. undone \in SUBSET ram.blob.mask
    BY <1>2, <2>3, LiveRequested
  <2>5. ASSUME NEW s \in undone
        PROVE  /\ q(s) \in SlotType /\ Proper(q(s)) /\ ram.blob.slot[s].state \notin Done
               /\ q(s).attempts = ram.blob.slot[s].attempts
    <3>1. Proper(ram.blob.slot[s]) /\ ram.blob.slot[s] \in SlotType
      BY <2>3, <2>4, RequestedIsProper
    <3>2. /\ q(s) \in SlotType /\ q(s).wait = "none"
          /\ q(s).state = ram.blob.slot[s].state /\ q(s).attempts = ram.blob.slot[s].attempts
          /\ q(s).probes = ram.blob.slot[s].probes /\ q(s).bound = ram.blob.slot[s].bound
          /\ q(s).pending = ram.blob.slot[s].pending
      BY <3>1 DEF SlotType
    <3>3. ram.blob.slot[s].state \notin Done
      BY DEF Done, Terminal
    <3> HIDE DEF q
    <3> QED BY <3>1, <3>2, <3>3 DEF Proper
  <2>6. c = [ram.blob EXCEPT !.slot = [s \in Slots |-> IF s \in undone THEN q(s)
                                                      ELSE ram.blob.slot[s]]]
    OBVIOUS
  <2>7. Active
    BY <1>7, <2>2, <2>4 DEF Active
  <2> HIDE DEF c, q, undone
  <2>8. Touches(ram.blob, c, undone) /\ \A s \in undone : c.slot[s] = q(s)
    BY <1>2, <2>3, <2>5, <2>6 DEF Touches, Blob
  <2>9. Amends(ram.blob, c)
    BY <2>3, <2>4, <2>5, <2>8, AmendedSlots
  <2>10. SameAttempts(ram.blob, c)
    BY <2>5, <2>8 DEF Touches, SameAttempts
  <2>11. Put(c)
    BY <1>1, <2>1, <2>2, <2>3, <2>9, SavedPuts DEF Amends
  <2>12. Typed'
    BY <1>1, <1>3, <1>4, <1>5, <2>11 DEF Typed, Put, VolFalls, Frame
  <2> QED BY <1>3, <1>5, <2>7, <2>9, <2>10, <2>11, <2>12, AsidePut
<1> QED BY <1>6, <1>7

LEMMA KickGood ==
    ASSUME IInv, NEW t \in Tasks, Kick(t)
    PROVE  Good
<1>1. /\ Typed /\ pc[t] \in TailPlaces /\ UNCHANGED <<nvs, ram, vol, ident, world, ask, job, hist>>
      /\ Goto(t, "idle")
      /\ \/ ctl' = ctl
         \/ ctl' = [ctl EXCEPT !.life = "suspended", !.inhibit = TRUE]
         \/ ctl' = Kicked(ctl)
  BY DEF IInv, Kick, TailPlaces
<1>2. ctl' \in CtlType /\ ctl'.op = ctl.op /\ (ctl'.inhibit = ctl.inhibit \/ ctl'.inhibit)
  <2>1. ctl \in CtlType
    BY <1>1 DEF Typed
  <2>2. CASE ctl' = [ctl EXCEPT !.life = "suspended", !.inhibit = TRUE]
    BY <2>1, <2>2 DEF CtlType
  <2>3. CASE ctl' = Kicked(ctl)
    BY <2>1, <2>3 DEF CtlType, Kicked
  <2> QED BY <1>1, <2>1, <2>2, <2>3
<1>3. Calm /\ Still
  BY <1>1, <1>2 DEF Calm, Still, IInv, Controls, Permitted
<1>4. Frame
  BY <1>1, TailFrame
<1>5. Typed' /\ VolFalls
  BY <1>1, <1>2, <1>4 DEF Typed, Frame, VolFalls
<1> QED BY <1>3, <1>4, <1>5, AsideStill

-----------------------------------------------------------------------------
(* The RX tasks, time and the scanners.                                    *)
AskType == [Tasks -> [ident : SUBSET Slots, gen : Nat]]
Worlds == [Slots -> [hw : Nat \ {0}, ver : Versions]]

LEMMA TaskWrites ==
    ASSUME IInv, Active, NEW c, Amends(ram.blob, c), SameAttempts(ram.blob, c),
           NEW w \in Outcomes(c), SaveOrClose(w, c) \/ SaveOrRevert(w, c),
           Frame, VolFalls, world' = world, ask' \in AskType
    PROVE  Good
<1>1. ram.loaded /\ ram.blob.gen # 0 /\ c \in Blob
  BY CampaignGen DEF Active, Amends
<1>2. Put(c)
  BY <1>1, SavedPuts DEF IInv
<1>3. Typed'
  BY <1>2 DEF IInv, Typed, Put, Frame, VolFalls, AskType
<1> QED BY <1>2, <1>3, AsidePut

LEMMA TaskRests ==
    ASSUME IInv, UNCHANGED <<nvs, ram, ctl>>, hist' \in HistType, hist'.gen = hist.gen,
           hist'.sent = hist.sent, Frame, VolFalls, world' \in Worlds, ask' \in AskType
    PROVE  Good
<1>1. Typed'
  BY DEF IInv, Typed, Frame, VolFalls, AskType, Worlds
<1>2. Calm /\ Still
  BY CalmHere DEF Still
<1> QED BY <1>1, <1>2, AsideStill

LEMMA SlotFrame ==
    ASSUME Typed, NEW s \in Slots, job' = job,
           pc' = pc \/ \E where \in Places : Goto(s, where)
    PROVE  Frame
<1>1. pc' \in [Tasks -> Places] /\ \A u \in Tasks \ {s} : pc'[u] = pc[u]
  BY DEF Typed, Goto
<1>2. {"worker", "main"} \subseteq Tasks \ {s}
  BY DEF Tasks, Slots
<1> QED BY <1>1, <1>2 DEF Frame

LEMMA VolStays ==
    ASSUME Typed, UNCHANGED <<vol, ident>>
    PROVE  VolFalls
BY DEF Typed, VolFalls

\* A handler that only moves on.
LEMMA HandlerRests ==
    ASSUME IInv, NEW s \in Slots, UNCHANGED <<nvs, ram, vol, ctl, hist>>, Handled(s),
           pc' = pc \/ \E where \in Places : Goto(s, where)
    PROVE  Good
<1>1. Typed /\ Frame /\ VolFalls
  BY SlotFrame, VolStays DEF IInv, Handled
<1>2. hist' \in HistType /\ world' \in Worlds /\ ask' \in AskType
  BY DEF IInv, Typed, Handled, AskType, Worlds
<1> QED BY <1>1, <1>2, TaskRests

\* A handler that records a change of its slot.
LEMMA HandlerWrites ==
    ASSUME IInv, Active, NEW s \in Slots, NEW c, Amends(ram.blob, c),
           SameAttempts(ram.blob, c), NEW w \in Outcomes(c),
           SaveOrClose(w, c) \/ SaveOrRevert(w, c), Handled(s),
           NEW r \in VolType, r.heard \subseteq vol[s].heard, vol' = [vol EXCEPT ![s] = r],
           \E where \in Places : Goto(s, where)
    PROVE  Good
<1>1. Typed /\ Frame
  BY SlotFrame DEF IInv, Handled
<1>2. VolFalls
  BY <1>1, VolOne DEF Handled
<1>3. world' = world /\ ask' \in AskType
  BY DEF IInv, Typed, Handled, AskType
<1> QED BY <1>1, <1>2, <1>3, TaskWrites

\* What a requested slot is when one of its handlers runs.
LEMMA RequestedSlot ==
    ASSUME IInv, ram.loaded, NEW s \in ram.blob.mask
    PROVE  /\ Active /\ ram.blob \in Blob /\ Sound(ram.blob) /\ s \in Slots
           /\ ram.blob.slot[s] \in SlotType /\ Proper(ram.blob.slot[s])
           /\ vol[s] \in VolType
<1>1. Active /\ ram.blob \in Blob /\ Sound(ram.blob)
  BY CampaignGen DEF Active
<1>2. s \in Slots /\ ram.blob.slot[s] \in SlotType /\ Proper(ram.blob.slot[s])
  BY <1>1, RequestedIsProper
<1> QED BY <1>1, <1>2 DEF IInv, Typed

LEMMA RecordCheckGood ==
    ASSUME IInv, ram.loaded, NEW s \in ram.blob.mask,
           NEW st \in {"refused", "newer", "current"}, RecordCheck(s, st), Handled(s)
    PROVE  Good
<1> DEFINE now == ram.blob.slot[s].state
           c == Change(ram.blob, s, st)
           u == [vol[s] EXCEPT !.deadline = "none", !.offer = "none", !.legacy = FALSE]
           d == [vol[s] EXCEPT !.deadline = "none"]
<1>1. /\ Active /\ ram.blob \in Blob /\ Sound(ram.blob) /\ s \in Slots
      /\ vol[s] \in VolType /\ now \in SlotState
  BY RequestedSlot DEF SlotType
<1>2. {"kick", "idle", "reprompt"} \subseteq Places
  BY DEF Places
<1>3. CASE now \in Terminal \cup {"ready", "relaying", "recovering"}
  <2>1. UNCHANGED <<nvs, ram, vol, ctl, hist>>
        /\ (pc' = pc \/ \E where \in Places : Goto(s, where))
    BY <1>2, <1>3 DEF RecordCheck
  <2> QED BY <1>1, <2>1, HandlerRests
<1>4. CASE now \notin Terminal \cup {"ready", "relaying", "recovering"}
  <2>1. PICK w \in Outcomes(c) :
          /\ SaveOrRevert(w, c)
          /\ vol' = (IF w.ok THEN [vol EXCEPT ![s] = u] ELSE [vol EXCEPT ![s] = d])
          /\ Goto(s, IF w.ok THEN "reprompt" ELSE "idle")
    BY <1>4 DEF RecordCheck
  <2>2. now \notin Done
    BY <1>4 DEF Done, Terminal
  <2>3. Amends(ram.blob, c) /\ SameAttempts(ram.blob, c)
    BY <1>1, <2>2, ChangeAmends
  <2>4. /\ u \in VolType /\ d \in VolType
        /\ u.heard \subseteq vol[s].heard /\ d.heard \subseteq vol[s].heard
    BY <1>1 DEF VolType
  <2>5. PICK r \in {u, d} : vol' = [vol EXCEPT ![s] = r]
    BY <2>1
  <2>6. \E where \in Places : Goto(s, where)
    BY <1>2, <2>1
  <2> HIDE DEF c, u, d
  <2> QED BY <1>1, <2>1, <2>3, <2>4, <2>5, <2>6, HandlerWrites
<1> QED BY <1>3, <1>4

LEMMA RecordOfferGood ==
    ASSUME IInv, NEW s \in Slots, NEW reason, RecordOffer(s, reason), Handled(s)
    PROVE  Good
<1> DEFINE now == ram.blob.slot[s].state
           c == Change(ram.blob, s, "offered")
           d == [vol[s] EXCEPT !.deadline = "none"]
           u == [Forget(vol[s], {"offer"}) EXCEPT !.deadline = "none",
                                                  !.offer = "recent", !.legacy = FALSE]
<1>1. {"idle"} \subseteq Places
  BY DEF Places
<1>2. CASE Goto(s, "idle") /\ UNCHANGED <<nvs, ram, vol, ctl, hist>>
  BY <1>1, <1>2, HandlerRests
<1>3. CASE ~(Goto(s, "idle") /\ UNCHANGED <<nvs, ram, vol, ctl, hist>>)
  <2>1. /\ now \in {"awaiting", "offered"}
        /\ \E w \in Outcomes(c) :
             /\ SaveOrRevert(w, c)
             /\ vol' = [vol EXCEPT ![s] = IF ~w.ok THEN d
                                          ELSE IF world[s].ver = "legacy" THEN u
                                          ELSE ClearBindings(d)]
             /\ Goto(s, "idle")
    BY <1>3 DEF RecordOffer
  <2>2. ram.loaded
    <3>1. NoBlob.slot[s].state = "excluded"
      BY DEF NoBlob, Slot
    <3> QED BY <2>1, <3>1 DEF IInv, Records
  <2>3. ram.blob \in Blob /\ Sound(ram.blob)
    BY <2>2, CampaignGen
  <2>4. now \notin Terminal /\ now \notin Done
    BY <2>1 DEF Terminal, Done
  <2>5. s \in ram.blob.mask
    BY <2>3, <2>4, LiveRequested
  <2>6. Active /\ vol[s] \in VolType
    BY <2>2, <2>5, RequestedSlot
  <2>7. Amends(ram.blob, c) /\ SameAttempts(ram.blob, c)
    BY <2>3, <2>4, <2>5, ChangeAmends
  <2>8. d \in VolType /\ d.heard \subseteq vol[s].heard
    BY <2>6, VolFields
  <2>9. ClearBindings(d) \in VolType /\ ClearBindings(d).heard \subseteq vol[s].heard
    BY <2>8, VolFields
  <2>10. u \in VolType /\ u.heard \subseteq vol[s].heard
    <3>1. {"offer"} \in SUBSET Marks
      BY DEF Marks
    <3>2. Forget(vol[s], {"offer"}) \in VolType
          /\ Forget(vol[s], {"offer"}).heard \subseteq vol[s].heard
      BY <2>6, <3>1, VolFields
    <3> QED BY <3>2 DEF VolType
  <2>11. PICK w \in Outcomes(c) :
           /\ SaveOrRevert(w, c) /\ Goto(s, "idle")
           /\ \E r \in {d, u, ClearBindings(d)} : vol' = [vol EXCEPT ![s] = r]
    BY <2>1
  <2>12. PICK r \in {d, u, ClearBindings(d)} : vol' = [vol EXCEPT ![s] = r]
    BY <2>11
  <2>13. r \in VolType /\ r.heard \subseteq vol[s].heard
    BY <2>8, <2>9, <2>10, <2>12
  <2> HIDE DEF c, d, u
  <2> QED BY <1>1, <2>6, <2>7, <2>11, <2>12, <2>13, HandlerWrites
<1> QED BY <1>2, <1>3

LEMMA CheckRecoveryGood ==
    ASSUME IInv, ram.loaded, NEW s \in ram.blob.mask, NEW reason,
           ram.blob.slot[s].state = "recovering", CheckRecovery(s, reason), Handled(s)
    PROVE  Good
<1>1. /\ Active /\ ram.blob \in Blob /\ Sound(ram.blob) /\ s \in Slots
      /\ vol[s] \in VolType
  BY RequestedSlot
<1>2. {"reprompt", "idle"} \subseteq Places
  BY DEF Places
<1>3. PICK verdict \in {RecoveryVerdict(s, reason, h) : h \in BOOLEAN} :
        IF verdict = "hold" THEN UNCHANGED <<nvs, ram, vol, pc, ctl, hist>>
        ELSE \E b \in {Change(ram.blob, s, verdict)} : \E w \in Outcomes(b) :
               /\ SaveOrClose(w, b)
               /\ vol' = IF ~w.ok THEN vol
                         ELSE [vol EXCEPT ![s] =
                                 [ClearBindings(Forget(@, {"offer"})) EXCEPT
                                    !.recover = "unset", !.offer =
                                       IF verdict = "offered" THEN "recent" ELSE "none"]]
               /\ Goto(s, IF w.ok /\ verdict # "offered" THEN "reprompt" ELSE "idle")
  BY Zenon DEF CheckRecovery
<1> DEFINE c == Change(ram.blob, s, verdict)
           offer == IF verdict = "offered" THEN "recent" ELSE "none"
           f == ClearBindings(Forget(vol[s], {"offer"}))
           u == [f EXCEPT !.recover = "unset", !.offer = offer]
<1>4. verdict \in {"hold", "converged", "offered", "failed", "refused"}
  BY <1>3 DEF RecoveryVerdict
<1>5. CASE verdict = "hold"
  <2>1. UNCHANGED <<nvs, ram, vol, pc, ctl, hist>>
    BY <1>3, <1>5
  <2> QED BY <1>1, <2>1, HandlerRests
<1>6. CASE verdict # "hold"
  <2>1. PICK w \in Outcomes(c) :
          /\ SaveOrClose(w, c)
          /\ vol' = (IF ~w.ok THEN vol ELSE [vol EXCEPT ![s] = u])
          /\ Goto(s, IF w.ok /\ verdict # "offered" THEN "reprompt" ELSE "idle")
    BY <1>3, <1>6
  <2>2. ram.blob.slot[s].state \notin Done
    BY DEF Done
  <2>3. Amends(ram.blob, c) /\ SameAttempts(ram.blob, c)
    BY <1>1, <1>4, <1>6, <2>2, ChangeAmends
  <2>4. f \in VolType /\ f.heard \subseteq vol[s].heard
    <3>1. {"offer"} \in SUBSET Marks
      BY DEF Marks
    <3>2. Forget(vol[s], {"offer"}) \in VolType
          /\ Forget(vol[s], {"offer"}).heard \subseteq vol[s].heard
      BY <1>1, <3>1, VolFields
    <3> QED BY <3>2, VolFields
  <2> HIDE DEF f
  <2>5. u \in VolType /\ u.heard \subseteq vol[s].heard
    BY <2>4 DEF VolType
  <2>6. \E where \in Places : Goto(s, where)
    BY <1>2, <2>1
  <2>7. vol' = [vol EXCEPT ![s] = u] \/ vol' = [vol EXCEPT ![s] = vol[s]]
    BY <1>1, <2>1 DEF IInv, Typed
  <2>8. PICK r \in {u, vol[s]} : vol' = [vol EXCEPT ![s] = r]
    BY <2>7
  <2>9. r \in VolType /\ r.heard \subseteq vol[s].heard
    BY <1>1, <2>5, <2>8
  <2> HIDE DEF c, u
  <2> QED BY <1>1, <2>1, <2>3, <2>6, <2>8, <2>9, HandlerWrites
<1> QED BY <1>5, <1>6

LEMMA ReopenGood ==
    ASSUME IInv, ram.loaded, NEW s \in ram.blob.mask, NEW reason,
           MayReopen(s, reason), Reopen(s, reason), Handled(s)
    PROVE  Good
<1> DEFINE r == ram.blob.slot[s]
           e == Change(ram.blob, s, "awaiting")
           q == [e.slot[s] EXCEPT !.probes = 0]
           c == [e EXCEPT !.slot[s].probes = 0]
           d == [vol[s] EXCEPT !.deadline = "none"]
<1>1. /\ Active /\ ram.blob \in Blob /\ Sound(ram.blob) /\ s \in Slots
      /\ vol[s] \in VolType /\ Proper(r)
  BY RequestedSlot
<1>2. Offering(reason) \in Places
  BY DEF Places, Offering
<1>3. r.state \notin Done
  BY DEF MayReopen, Done
<1>4. PICK w \in Outcomes(c) :
        /\ SaveOrRevert(w, c) /\ Goto(s, Offering(reason))
        /\ vol' = [vol EXCEPT ![s] = IF w.ok THEN ClearBindings(d) ELSE d]
  BY DEF Reopen
<1>5. "awaiting" \in SlotState
  BY DEF SlotState
<1>6. /\ Touches(ram.blob, e, {s}) /\ e.slot[s] \in SlotType /\ e.slot[s].state = "awaiting"
      /\ e.slot[s].pending = ("awaiting" = "ready") /\ e.slot[s].wait = "none"
      /\ e.slot[s].bound = 0 /\ e.slot[s].attempts = r.attempts
  <2>1. ram.blob \in Blob /\ s \in Slots /\ "awaiting" \in SlotState
    BY <1>1, <1>5
  <2> QED BY <2>1, ChangeTouches
<1> HIDE DEF e
<1>7. /\ q \in SlotType /\ q.state = "awaiting" /\ q.pending = ("awaiting" = "ready")
      /\ q.wait = "none" /\ q.bound = 0 /\ q.attempts = r.attempts /\ q.probes = 0
  BY <1>6 DEF SlotType
<1>8. (q.bound # 0) = (q.state \in {"ready", "relaying", "recovering"})
  BY <1>7
<1>9. Proper(q)
  <2>1. 0 <= MaxProbes
    BY BudgetAssumption
  <2> QED BY <1>1, <1>7, <1>8, <2>1 DEF Proper
<1>10. c = With(e, s, q) /\ e \in Blob
  BY <1>6 DEF Touches, With
<1> HIDE DEF q, c
<1>11. Touches(e, c, {s}) /\ c.slot[s] = q
  BY <1>1, <1>7, <1>10, SlotTouches
<1>12. Touches(ram.blob, c, {s})
  BY <1>6, <1>11 DEF Touches
<1>13. Amends(ram.blob, c) /\ SameAttempts(ram.blob, c)
  BY <1>1, <1>3, <1>7, <1>9, <1>11, <1>12, TouchesOne
<1>14. d \in VolType /\ d.heard \subseteq vol[s].heard
  BY <1>1, VolFields
<1> HIDE DEF d
<1>15. ClearBindings(d) \in VolType /\ ClearBindings(d).heard \subseteq vol[s].heard
  BY <1>14, VolFields
<1>16. PICK v \in {d, ClearBindings(d)} : vol' = [vol EXCEPT ![s] = v]
  BY <1>4
<1>17. v \in VolType /\ v.heard \subseteq vol[s].heard
  BY <1>14, <1>15, <1>16
<1> QED BY <1>1, <1>2, <1>4, <1>13, <1>16, <1>17, HandlerWrites

LEMMA QueueGood ==
    ASSUME IInv, ram.loaded, NEW s \in ram.blob.mask, MayQueue(s), Queue(s), Handled(s)
    PROVE  Good
<1> DEFINE r == ram.blob.slot[s]
           hw == ident[s].hw
           e == Change(ram.blob, s, "ready")
           q == [e.slot[s] EXCEPT !.bound = hw]
           c == [e EXCEPT !.slot[s].bound = hw]
           d == [vol[s] EXCEPT !.deadline = "none"]
           f == Forget(vol[s], {"ready"})
           legacy == world[s].ver = "legacy"
           offer == IF legacy THEN f.offer ELSE "none"
           u == Queued(vol[s], legacy)
<1>1. /\ Active /\ ram.blob \in Blob /\ Sound(ram.blob) /\ s \in Slots
      /\ vol[s] \in VolType /\ Proper(r)
  BY RequestedSlot
<1>2. {"kick", "idle"} \subseteq Places
  BY DEF Places
<1>3. r.state = "offered" /\ r.state \notin Done
  BY DEF MayQueue, Done
<1>4. hw \in Nat \ {0}
  <2>1. vol[s].heard # {}
    BY DEF MayQueue, IsFresh
  <2> QED BY <1>1, <2>1 DEF IInv, Typed, Heard
<1>5. PICK w \in Outcomes(c) :
        /\ SaveOrRevert(w, c) /\ Goto(s, IF w.ok THEN "kick" ELSE "idle")
        /\ vol' = [vol EXCEPT ![s] = IF w.ok THEN u ELSE d]
  BY DEF Queue
<1>6. "ready" \in SlotState
  BY DEF SlotState
<1>7. /\ Touches(ram.blob, e, {s}) /\ e.slot[s] \in SlotType /\ e.slot[s].state = "ready"
      /\ e.slot[s].pending = ("ready" = "ready") /\ e.slot[s].wait = "none"
      /\ e.slot[s].attempts = r.attempts /\ e.slot[s].probes = r.probes
  BY <1>1, <1>6, ChangeTouches
<1> HIDE DEF e, hw
<1>8. /\ q \in SlotType /\ q.state = "ready" /\ q.pending = ("ready" = "ready")
      /\ q.wait = "none" /\ q.bound = hw /\ q.attempts = r.attempts /\ q.probes = r.probes
  BY <1>4, <1>7 DEF SlotType
<1>9. Proper(q)
  BY <1>1, <1>4, <1>8 DEF Proper
<1>10. c = With(e, s, q) /\ e \in Blob
  BY <1>7 DEF Touches, With
<1> HIDE DEF q, c
<1>11. Touches(e, c, {s}) /\ c.slot[s] = q
  BY <1>1, <1>8, <1>10, SlotTouches
<1>12. Touches(ram.blob, c, {s})
  BY <1>7, <1>11 DEF Touches
<1>13. Amends(ram.blob, c) /\ SameAttempts(ram.blob, c)
  BY <1>1, <1>3, <1>8, <1>9, <1>11, <1>12, TouchesOne
<1>14. d \in VolType /\ d.heard \subseteq vol[s].heard
  BY <1>1, VolFields
<1>15. f \in VolType /\ f.heard \subseteq vol[s].heard
  <2>1. {"ready"} \in SUBSET Marks
    BY DEF Marks
  <2> QED BY <1>1, <2>1, VolFields
<1> HIDE DEF d, f
<1>16. offer \in {"none", "recent", "old"} /\ legacy \in BOOLEAN
  BY <1>15 DEF VolType
<1>17. u \in VolType /\ u.heard = f.heard
  <2>1. u = [f EXCEPT !.deadline = "none", !.ready = "recent", !.legacy = legacy,
                      !.offer = offer]
    BY DEF Queued, f
  <2> HIDE DEF u, offer, legacy
  <2> QED BY <1>15, <1>16, <2>1 DEF VolType
<1> HIDE DEF u
<1>18. PICK v \in {d, u} : vol' = [vol EXCEPT ![s] = v]
  BY <1>5
<1>19. v \in VolType /\ v.heard \subseteq vol[s].heard
  BY <1>14, <1>15, <1>17, <1>18
<1>20. \E where \in Places : Goto(s, where)
  BY <1>2, <1>5
<1> QED BY <1>1, <1>5, <1>13, <1>18, <1>19, <1>20, HandlerWrites

LEMMA ReadyGood ==
    ASSUME IInv, NEW s \in Slots, Ready(s)
    PROVE  Good
<1>1. ram.loaded /\ s \in ram.blob.mask /\ Handled(s)
  BY DEF Ready, Requested
<1>2. CASE Goto(s, "kick") /\ UNCHANGED <<nvs, ram, vol, ctl, hist>>
  <2>1. "kick" \in Places
    BY DEF Places
  <2> QED BY <1>1, <1>2, <2>1, HandlerRests
<1>3. CASE MayQueue(s) /\ Queue(s)
  BY <1>1, <1>3, QueueGood
<1> QED BY <1>2, <1>3 DEF Ready

LEMMA CheckGood ==
    ASSUME IInv, NEW s \in Slots, NEW reason, Check(s, reason)
    PROVE  Good
<1> DEFINE v == world[s].ver
           recovering == ram.blob.slot[s].state = "recovering"
<1>1. ram.loaded /\ s \in ram.blob.mask /\ Handled(s)
  BY DEF Check, Requested
<1>2. v \in {"old", "legacy", "target", "ahead", "alien"}
  BY DEF IInv, Typed, Versions, Older
<1>3. CASE v = "alien"
  <2>1. RecordCheck(s, "refused")
    BY <1>3 DEF Check, Older
  <2> QED BY <1>1, <2>1, RecordCheckGood
<1>4. CASE v # "alien" /\ recovering
  <2>1. CheckRecovery(s, reason)
    BY <1>4 DEF Check, Older
  <2> QED BY <1>1, <1>4, <2>1, CheckRecoveryGood
<1>5. CASE v = "target" /\ ~recovering
  <2>1. RecordCurrent(s)
    BY <1>5 DEF Check, Older
  <2>2. CASE UNCHANGED <<nvs, ram, vol, pc, ctl, hist>>
    BY <1>1, <2>2, HandlerRests
  <2>3. CASE RecordCheck(s, "current")
    BY <1>1, <2>3, RecordCheckGood
  <2> QED BY <2>1, <2>2, <2>3 DEF RecordCurrent
<1>6. CASE v = "ahead" /\ ~recovering
  <2>1. RecordCheck(s, "newer")
    BY <1>6 DEF Check, Older
  <2> QED BY <1>1, <2>1, RecordCheckGood
<1>7. CASE v \in Older /\ ~recovering
  <2>1. IF MayReopen(s, reason) THEN Reopen(s, reason)
        ELSE Goto(s, Offering(reason)) /\ UNCHANGED <<nvs, ram, vol, ctl, hist>>
    BY <1>7 DEF Check, Older
  <2>2. CASE MayReopen(s, reason)
    BY <1>1, <2>1, <2>2, ReopenGood
  <2>3. CASE ~MayReopen(s, reason)
    <3>1. Offering(reason) \in Places
      BY DEF Offering, Places
    <3> QED BY <1>1, <2>1, <2>3, <3>1, HandlerRests
  <2> QED BY <2>2, <2>3
<1> QED BY <1>2, <1>3, <1>4, <1>5, <1>6, <1>7 DEF Older

LEMMA CheckOffersGood ==
    ASSUME IInv, NEW s \in Slots, CheckOffers(s)
    PROVE  Good
BY RecordOfferGood DEF CheckOffers

LEMMA PublishGood ==
    ASSUME IInv, NEW s \in Slots, Publish(s)
    PROVE  Good
<1>1. Typed /\ UNCHANGED <<nvs, ram, world, pc, ask, job, ctl, hist>>
      /\ ident' = [ident EXCEPT ![s] = [hw |-> world[s].hw, ver |-> world[s].ver]]
      /\ vol' = [vol EXCEPT ![s].heard = Tracked(s)]
  BY DEF IInv, Publish
<1>2. Tracked(s) \in SUBSET Marks
  BY DEF Tracked, Marks
<1>3. vol' \in [Slots -> VolType]
  <2> DEFINE T == Tracked(s)
             v == [vol[s] EXCEPT !.heard = T]
  <2>1. vol' = [vol EXCEPT ![s] = v]
    BY <1>1
  <2>2. T \in SUBSET Marks /\ vol[s] \in VolType
    BY <1>1, <1>2 DEF Typed
  <2> HIDE DEF T
  <2>3. v \in VolType
    BY <2>2 DEF VolType
  <2> HIDE DEF v
  <2> QED BY <1>1, <2>1, <2>3 DEF Typed
<1>4. ident' \in [Slots -> [hw : Nat, ver : Versions]] /\ ident'[s].hw # 0
  BY <1>1 DEF Typed
<1>5. Typed'
  BY <1>1, <1>3, <1>4 DEF Typed
<1>6. Frame /\ Calm /\ Still
  BY <1>1, CalmHere DEF Still, Frame, Typed
<1>7. MainStays /\ Controls' /\ Jobs' /\ \A t \in Slots : Reserved(t)' => Reserved(t)
  BY <1>1, <1>5, <1>6, FrameKeeps
<1>8. Records' /\ Generations' /\ Sending' /\ KeepsDone
  BY <1>5, <1>6, <1>7, StillKeeps
<1>9. Heard'
  <2>1. \A t \in Slots \ {s} : vol'[t] = vol[t] /\ ident'[t] = ident[t]
    BY <1>1 DEF Typed
  <2> QED BY <1>4, <2>1 DEF IInv, Heard
<1> QED BY <1>5, <1>7, <1>8, <1>9 DEF Good, IInv

LEMMA TimeGood ==
    ASSUME IInv, NEW s \in Slots,
           DeadlinePasses(s) \/ RecoveryDue(s) \/ Lapse(s) \/ Swap(s)
    PROVE  Good
<1>1. /\ Typed /\ UNCHANGED <<nvs, ram, pc, ask, job, ctl>> /\ ident' = ident
      /\ vol[s] \in VolType /\ hist \in HistType /\ world \in Worlds
  BY DEF IInv, Typed, DeadlinePasses, RecoveryDue, Lapse, Swap, Elsewhere, Worlds
<1>2. Frame /\ ask' \in AskType
  BY <1>1 DEF Frame, Typed, AskType
<1>3. CASE DeadlinePasses(s)
  <2>1. vol' = [vol EXCEPT ![s] = [vol[s] EXCEPT !.deadline = "passed"]]
        /\ UNCHANGED <<world, hist>>
    BY <1>3 DEF DeadlinePasses, WithDeadline
  <2>2. VolFalls
    <3> DEFINE v == [vol[s] EXCEPT !.deadline = "passed"]
    <3>1. v \in VolType /\ v.heard \subseteq vol[s].heard
      BY <1>1, VolFields
    <3> HIDE DEF v
    <3> QED BY <1>1, <2>1, <3>1, VolOne DEF v
  <2> QED BY <1>1, <1>2, <2>1, <2>2, TaskRests
<1>4. CASE RecoveryDue(s)
  <2>1. vol' = [vol EXCEPT ![s] = [vol[s] EXCEPT !.recover = "due"]]
        /\ UNCHANGED <<world, hist>>
    BY <1>4 DEF RecoveryDue
  <2>2. VolFalls
    <3> DEFINE v == [vol[s] EXCEPT !.recover = "due"]
    <3>1. v \in VolType /\ v.heard \subseteq vol[s].heard
      BY <1>1, VolFields
    <3> HIDE DEF v
    <3> QED BY <1>1, <2>1, <3>1, VolOne DEF v
  <2> QED BY <1>1, <1>2, <2>1, <2>2, TaskRests
<1>5. CASE Lapse(s)
  <2> DEFINE o == IF vol[s].offer = "recent" THEN "old" ELSE vol[s].offer
             r == IF vol[s].ready = "recent" THEN "old" ELSE vol[s].ready
             v == [vol[s] EXCEPT !.heard = {}, !.offer = o, !.ready = r]
  <2>1. vol' = [vol EXCEPT ![s] = v] /\ world' = world
        /\ hist' = [hist EXCEPT !.lapses = @ - 1]
    BY <1>5 DEF Lapse, Faded
  <2>2. VolFalls
    <3>1. {o, r} \subseteq {"none", "recent", "old"}
      BY <1>1 DEF VolType
    <3> HIDE DEF o, r
    <3>2. v \in VolType /\ v.heard = {}
      BY <1>1, <3>1 DEF VolType
    <3> HIDE DEF v
    <3>3. v.heard \subseteq vol[s].heard
      BY <3>2
    <3> QED BY <1>1, <2>1, <3>2, <3>3, VolOne
  <2>3. hist' \in HistType /\ hist'.gen = hist.gen /\ hist'.sent = hist.sent
    BY <1>1, <2>1 DEF HistType
  <2> QED BY <1>1, <1>2, <2>1, <2>2, <2>3, TaskRests
<1>6. CASE Swap(s)
  <2>1. PICK v \in {"old", "target"} :
          world' = [world EXCEPT ![s] = [hw |-> world[s].hw + 1, ver |-> v]]
    BY <1>6 DEF Swap
  <2>2. UNCHANGED <<vol, ident>> /\ hist' = [hist EXCEPT !.swaps = @ - 1]
    BY <1>6 DEF Swap
  <2>3. world' \in Worlds
    <3>1. world[s].hw + 1 \in Nat \ {0} /\ v \in Versions
      BY <1>1 DEF Worlds, Versions, Older
    <3> QED BY <1>1, <2>1, <3>1 DEF Worlds
  <2>4. hist' \in HistType /\ hist'.gen = hist.gen /\ hist'.sent = hist.sent
    BY <1>1, <2>2 DEF HistType
  <2>5. VolFalls
    BY <1>1, <2>2, VolStays
  <2> QED BY <1>1, <1>2, <2>3, <2>4, <2>5, TaskRests
<1> QED BY <1>3, <1>4, <1>5, <1>6

LEMMA PreemptGood ==
    ASSUME IInv, Preempt
    PROVE  Good
<1> DEFINE busy == ctl.running \/ ctl.life \in {"running", "quiescing"}
           life == IF busy THEN "quiescing" ELSE "suspended"
           run == ctl.running /\ busy
<1>1. /\ Typed /\ UNCHANGED <<nvs, ram, vol, ident, world, pc, ask, job, hist>>
      /\ ctl' = [ctl EXCEPT !.preempt = TRUE, !.inhibit = TRUE, !.notified = TRUE,
                            !.life = life, !.running = run]
  BY DEF IInv, Preempt
<1>2. life \in {"quiescing", "suspended"} /\ run \in BOOLEAN /\ ctl \in CtlType
  BY <1>1 DEF Typed, CtlType
<1> HIDE DEF life, run
<1>3. ctl' \in CtlType /\ ctl'.op = ctl.op /\ ctl'.inhibit = TRUE
  BY <1>1, <1>2 DEF CtlType
<1>4. Calm /\ Still
  BY <1>1, <1>3 DEF Calm, Still, Permitted
<1>5. Frame /\ VolFalls /\ Typed'
  BY <1>1, <1>3 DEF Frame, VolFalls, Typed
<1> QED BY <1>4, <1>5, AsideStill

-----------------------------------------------------------------------------
(* The worker.                                                             *)
Worked ==
    /\ pc' \in [Tasks -> Places] /\ pc'["main"] = pc["main"]
    /\ "relay" \notin {pc["worker"], pc'["worker"]}
    /\ \/ pc'["worker"] \notin Held /\ job' \in {job, NoJob}
       \/ /\ pc["worker"] \in Held /\ job'.slot = job.slot /\ job'.gen = job.gen
          /\ pc'["worker"] = "result" => job'.result # "none"

LEMMA WorkedKeeps ==
    ASSUME IInv, Typed', Worked, Calm, hist'.gen = hist.gen,
           nvs'.manifest.gen = nvs.manifest.gen
    PROVE  /\ Controls' /\ Jobs' /\ MainStays
           /\ Active => pc'["main"] \notin Stages \cup {"boot"}
           /\ (Unspent' => Unspent) => \A s \in Slots : Reserved(s)' => Reserved(s)
<1>1. Controls'
  <2>1. pc["main"] \in Stages => ctl.op # "none" /\ ctl.inhibit
    BY ScenarioAssumption DEF IInv, Controls
  <2> QED BY <2>1 DEF IInv, Controls, Calm, Worked
<1>2. Jobs'
  <2>1. CASE pc'["worker"] \notin Held /\ job' \in {job, NoJob}
    <3>1. NoJob.gen = 0 /\ hist.gen \in Nat \ {0}
      BY DEF NoJob, IInv, Typed, HistType
    <3>2. NoJob.gen < hist.gen /\ NoJob.gen <= hist.gen
      BY <3>1
    <3> QED BY <2>1, <3>2 DEF IInv, Jobs, Worked, Held
  <2>2. CASE pc["worker"] \in Held /\ job'.slot = job.slot /\ job'.gen = job.gen
    BY <2>2 DEF IInv, Jobs, Worked, Held
  <2> QED BY <2>1, <2>2 DEF Worked
<1>3. MainStays
  BY DEF Worked, MainStays, Calm
<1>4. Active => pc'["main"] \notin Stages \cup {"boot"}
  BY ActiveMain DEF Worked
<1>5. (Unspent' => Unspent) => \A s \in Slots : Reserved(s)' => Reserved(s)
  BY DEF Reserved, Unspent, Worked, Held
<1> QED BY <1>1, <1>2, <1>3, <1>4, <1>5

LEMMA WorkStill ==
    ASSUME IInv, Typed', Worked, Calm, Still, VolFalls, Unspent' => Unspent
    PROVE  Good
<1>1. hist'.gen = hist.gen /\ nvs'.manifest.gen = nvs.manifest.gen
  BY DEF Still
<1>2. /\ Controls' /\ Jobs' /\ MainStays /\ \A s \in Slots : Reserved(s)' => Reserved(s)
  BY <1>1, WorkedKeeps
<1>3. Records' /\ Generations' /\ Sending' /\ KeepsDone
  BY <1>2, StillKeeps
<1> QED BY <1>2, <1>3, VolKeeps DEF IInv, Good

\* The worker records c, which owes no relay.
LEMMA WorkPut ==
    ASSUME IInv, Typed', Worked, Active, NEW c, Put(c), Amends(ram.blob, c), VolFalls,
           Unspent' => Unspent,
           nvs.manifest.gen # 0 => \A s \in Slots : Due(s)' <= c.slot[s].attempts
    PROVE  Good
<1>1. hist'.gen = hist.gen /\ nvs'.manifest.gen = nvs.manifest.gen /\ Calm
  BY DEF Put, Calm
<1>2. /\ Controls' /\ Jobs' /\ pc'["main"] \notin Stages \cup {"boot"}
      /\ \A s \in Slots : Reserved(s)' => Reserved(s)
  BY <1>1, WorkedKeeps
<1>3. Records' /\ Generations' /\ KeepsDone
  BY <1>2, PutKeeps
<1>4. Sending'
  BY <1>2, PutCovers
<1> QED BY <1>2, <1>3, <1>4, VolKeeps DEF IInv, Good

LEMMA WorkSame ==
    ASSUME IInv, Typed', Worked, Active, NEW c, Put(c), Amends(ram.blob, c), VolFalls,
           Unspent' => Unspent, SameAttempts(ram.blob, c)
    PROVE  Good
<1>1. hist'.gen = hist.gen /\ nvs'.manifest.gen = nvs.manifest.gen /\ Calm
      /\ hist'.sent = hist.sent
  BY DEF Put, Calm
<1>2. \A s \in Slots : Reserved(s)' => Reserved(s)
  BY <1>1, WorkedKeeps
<1>3. ASSUME nvs.manifest.gen # 0, NEW s \in Slots
      PROVE  Due(s)' <= c.slot[s].attempts
  <2>1. Due(s)' <= Due(s) /\ Due(s) \in Nat /\ Due(s)' \in Nat
    BY <1>1, <1>2, DueFalls DEF IInv
  <2>2. Due(s) <= ram.blob.slot[s].attempts
    BY <1>3 DEF IInv, Sending, Covers, Active
  <2>3. c.slot[s].attempts = ram.blob.slot[s].attempts /\ c.slot[s].attempts \in Nat
    BY DEF SameAttempts, Amends, Blob, SlotType
  <2> QED BY <2>1, <2>2, <2>3
<1> QED BY <1>3, WorkPut

\* The controls as the worker changes them: its life and its notification.
LEMMA Reconciled ==
    ASSUME IInv, ram' = ram, NEW k \in CtlType, k.op = ctl.op, k.inhibit = ctl.inhibit,
           NEW d \in {k, Reconcile(ram, k)},
           ctl' = d \/ ctl' = [d EXCEPT !.running = FALSE]
    PROVE  ctl' \in CtlType /\ Calm
<1>1. /\ d \in CtlType /\ d.op = ctl.op
      /\ (ram.uncertain => d.inhibit) /\ (~d.inhibit => ~ram.loaded \/ Live(ram.blob) = {})
      /\ (ctl.inhibit /\ ctl.op # "none" => d.inhibit)
  <2>1. ram \in RamType
    BY DEF IInv, Typed
  <2>2. CASE d = k
    BY <2>2 DEF IInv, Controls, Permitted
  <2>3. CASE d = Reconcile(ram, k)
    BY <2>1, <2>3, ReconcileKeeps
  <2> QED BY <2>2, <2>3
<1>2. ctl' \in CtlType /\ ctl'.op = d.op /\ ctl'.inhibit = d.inhibit
  BY <1>1 DEF CtlType
<1> QED BY <1>1, <1>2 DEF Calm, Permitted

\* A step of the worker that changes nothing but its place and controls.
LEMMA WorkerMoves ==
    ASSUME IInv, Working, UNCHANGED <<nvs, ram, vol, job, hist>>,
           NEW where \in {"blocked", "top", "leaving"}, Goto("worker", where),
           pc["worker"] \notin Held, ctl' \in CtlType, Calm
    PROVE  Good
<1>1. "worker" \in Tasks /\ "main" \in Tasks
  BY DEF Tasks
<1>2. pc' \in [Tasks -> Places] /\ pc'["worker"] = where /\ pc'["main"] = pc["main"]
  BY <1>1 DEF IInv, Typed, Goto, Places
<1>3. where \notin Held
  BY DEF Held
<1>4. Worked /\ ~Unspent' /\ Still
  BY <1>2, <1>3 DEF Worked, Unspent, Held, Still
<1>5. VolFalls /\ Typed'
  BY <1>2 DEF Working, VolFalls, IInv, Typed
<1> QED BY <1>4, <1>5, WorkStill

LEMMA WakesGood ==
    ASSUME IInv, WorkerWakes
    PROVE  Good
<1> DEFINE k == [ctl EXCEPT !.notified = FALSE, !.running = FALSE, !.life = "suspended"]
           l == [ctl EXCEPT !.notified = FALSE, !.running = TRUE, !.life = "running"]
<1>1. ctl \in CtlType
  BY DEF IInv, Typed
<1>2. /\ k \in CtlType /\ k.op = ctl.op /\ k.inhibit = ctl.inhibit
      /\ l \in CtlType /\ l.op = ctl.op /\ l.inhibit = ctl.inhibit
  BY <1>1 DEF CtlType
<1>3. /\ ctl' = Reconcile(ram, k) \/ ctl' = l
      /\ ram' = ram /\ pc["worker"] \notin Held
      /\ \E where \in {"blocked", "top", "leaving"} : Goto("worker", where)
      /\ Working /\ UNCHANGED <<nvs, ram, vol, job, hist>>
  BY DEF WorkerWakes, Held
<1> HIDE DEF k, l
<1>4. ctl' \in CtlType /\ Calm
  BY <1>2, <1>3, Reconciled
<1> QED BY <1>3, <1>4, WorkerMoves

LEMMA StopsGood ==
    ASSUME IInv, WorkerStops
    PROVE  Good
<1> DEFINE k == [ctl EXCEPT !.life = "suspended"]
<1>1. ctl \in CtlType
  BY DEF IInv, Typed
<1>2. k \in CtlType /\ k.op = ctl.op /\ k.inhibit = ctl.inhibit
  BY <1>1 DEF CtlType
<1>3. /\ \/ ctl' = [Reconcile(ram, k) EXCEPT !.running = FALSE]
         \/ ctl' = [ctl EXCEPT !.running = FALSE]
      /\ ram' = ram /\ pc["worker"] \notin Held
      /\ \E where \in {"blocked", "top", "leaving"} : Goto("worker", where)
      /\ Working /\ UNCHANGED <<nvs, ram, vol, job, hist>>
  BY DEF WorkerStops, Held, Leave
<1> HIDE DEF k
<1>4. ctl' \in CtlType /\ Calm
  BY <1>1, <1>2, <1>3, Reconciled
<1> QED BY <1>3, <1>4, WorkerMoves

LEMMA RestsGood ==
    ASSUME IInv, WorkerRests
    PROVE  Good
<1> DEFINE life == IF ctl.preempt THEN "suspended" ELSE "idle"
           k == [ctl EXCEPT !.running = FALSE, !.life = life]
<1>1. ctl \in CtlType
  BY DEF IInv, Typed
<1>2. k \in CtlType /\ k.op = ctl.op /\ k.inhibit = ctl.inhibit
  BY <1>1 DEF CtlType
<1>3. /\ ctl' = Reconcile(ram, k)
      /\ ram' = ram /\ pc["worker"] \notin Held
      /\ \E where \in {"blocked", "top", "leaving"} : Goto("worker", where)
      /\ Working /\ UNCHANGED <<nvs, ram, vol, job, hist>>
  BY DEF WorkerRests, Held
<1> HIDE DEF k
<1>4. ctl' \in CtlType /\ Calm
  BY <1>2, <1>3, Reconciled
<1> QED BY <1>3, <1>4, WorkerMoves

\* A write of the worker at the top of its loop, or on its way back there.
LEMMA WorkerWrites ==
    ASSUME IInv, Active, NEW c, Amends(ram.blob, c), SameAttempts(ram.blob, c),
           NEW w \in Outcomes(c), SaveOrClose(w, c), pc["worker"] # "relay",
           NEW where \in {"top", "deliver", "reprompt"}, Goto("worker", where),
           job' \in {job, NoJob}, VolFalls, world' = world, ask' \in AskType
    PROVE  Good
<1>1. ram.loaded /\ ram.blob.gen # 0 /\ c \in Blob
  BY CampaignGen DEF Active, Amends
<1>2. Put(c)
  BY <1>1, SavedPuts DEF IInv
<1>3. "worker" \in Tasks /\ "main" \in Tasks
  BY DEF Tasks
<1>4. pc' \in [Tasks -> Places] /\ pc'["worker"] = where /\ pc'["main"] = pc["main"]
  BY <1>3 DEF IInv, Typed, Goto, Places
<1>5. where \notin Held /\ "relay" \in Held
  BY DEF Held
<1>6. Worked /\ ~Unspent'
  BY <1>4, <1>5 DEF Worked, Unspent, Held
<1>7. job' \in [slot : Slots \cup {"none"}, gen : Nat, result : Results]
  BY DEF IInv, Typed, NoJob, Results
<1>8. Typed'
  BY <1>2, <1>4, <1>7 DEF IInv, Typed, Put, VolFalls, AskType
<1> QED BY <1>2, <1>6, <1>8, WorkSame

LEMMA AtTopSlot ==
    ASSUME IInv, NEW s \in Slots, NEW states, AtTop(s, states)
    PROVE  /\ ram.loaded /\ s \in ram.blob.mask /\ pc["worker"] = "top"
           /\ ram.blob.slot[s].state \in states
           /\ Active /\ ram.blob \in Blob /\ Sound(ram.blob)
           /\ ram.blob.slot[s] \in SlotType /\ Proper(ram.blob.slot[s])
           /\ vol[s] \in VolType /\ ram.blob.slot[s].state \notin Terminal
<1>1. /\ ram.loaded /\ s \in ram.blob.mask /\ pc["worker"] = "top"
      /\ ram.blob.slot[s].state \in states /\ ram.blob.slot[s].state \notin Terminal
  BY DEF AtTop, Turn, Live
<1> QED BY <1>1, RequestedSlot

\* One more probe of a scanner in recovery.
LEMMA ProbedAmends ==
    ASSUME NEW b \in Blob, Sound(b), NEW s \in b.mask, b.slot[s].state \notin Done,
           b.slot[s].probes < MaxProbes
    PROVE  LET c == [b EXCEPT !.slot[s].probes = @ + 1] IN
           Amends(b, c) /\ SameAttempts(b, c)
<1> DEFINE r == b.slot[s]
           n == r.probes + 1
           q == [r EXCEPT !.probes = n]
           c == [b EXCEPT !.slot[s].probes = @ + 1]
<1>1. s \in Slots /\ r \in SlotType /\ Proper(r)
  BY RequestedIsProper
<1>2. n \in Nat /\ n <= MaxProbes
  BY <1>1, BudgetAssumption DEF SlotType
<1>3. c = With(b, s, q)
  BY <1>1 DEF With, Blob, SlotType
<1> HIDE DEF n
<1>4. /\ q \in SlotType /\ q.wait = r.wait /\ q.state = r.state /\ q.attempts = r.attempts
      /\ q.probes = n /\ q.bound = r.bound /\ q.pending = r.pending
  BY <1>1, <1>2 DEF SlotType
<1>5. Proper(q)
  BY <1>1, <1>2, <1>4 DEF Proper
<1> HIDE DEF q, c
<1>6. Touches(b, c, {s}) /\ c.slot[s] = q
  BY <1>1, <1>3, <1>4, SlotTouches
<1>7. Amends(b, c) /\ SameAttempts(b, c)
  BY <1>4, <1>5, <1>6, TouchesOne
<1> QED BY <1>7 DEF c

LEMMA RecoversGood ==
    ASSUME IInv, NEW s \in Slots, WorkerRecovers(s)
    PROVE  Good
<1> DEFINE r == ram.blob.slot[s]
           over == r.probes >= MaxProbes
           c == IF over THEN Change(ram.blob, s, "failed")
                ELSE [ram.blob EXCEPT !.slot[s].probes = @ + 1]
           f == ClearBindings(vol[s])
           u == [f EXCEPT !.recover = "unset"]
           v == [vol[s] EXCEPT !.recover = "spaced"]
<1>1. AtTop(s, {"recovering"}) /\ Working /\ job' = job
  BY DEF WorkerRecovers
<1>2. /\ s \in ram.blob.mask /\ pc["worker"] = "top" /\ r.state \in {"recovering"}
      /\ Active /\ ram.blob \in Blob /\ Sound(ram.blob) /\ r \in SlotType
      /\ vol[s] \in VolType
  BY <1>1, AtTopSlot
<1>3. PICK w \in Outcomes(c) :
        /\ SaveOrClose(w, c)
        /\ vol' = (IF ~w.ok THEN vol
                   ELSE [vol EXCEPT ![s] = IF over THEN u ELSE v])
        /\ Goto("worker", IF over THEN "reprompt" ELSE "top")
  BY DEF WorkerRecovers
<1>4. r.state \notin Done
  BY <1>2 DEF Done
<1>5. r.probes >= MaxProbes \/ r.probes < MaxProbes
  BY <1>2, BudgetAssumption DEF SlotType
<1>6. Amends(ram.blob, c) /\ SameAttempts(ram.blob, c)
  BY <1>2, <1>4, <1>5, ChangeAmends, ProbedAmends
<1>7. /\ u \in VolType /\ u.heard \subseteq vol[s].heard
      /\ v \in VolType /\ v.heard \subseteq vol[s].heard
  <2>1. f \in VolType /\ f.heard \subseteq vol[s].heard
    BY <1>2, VolFields
  <2> HIDE DEF f
  <2> QED BY <1>2, <2>1, VolFields
<1>8. vol' = vol \/ \E x \in {u, v} : vol' = [vol EXCEPT ![s] = x]
  BY <1>3
<1>9. VolFalls
  <2>1. Typed /\ ident' = ident
    BY <1>1 DEF IInv, Working
  <2> HIDE DEF u, v
  <2>2. CASE vol' = vol
    BY <2>1, <2>2, VolStays
  <2>3. CASE \E x \in {u, v} : vol' = [vol EXCEPT ![s] = x]
    BY <1>7, <2>1, <2>3, VolOne
  <2> QED BY <1>8, <2>2, <2>3
<1>10. world' = world /\ ask' \in AskType
  BY <1>1 DEF Working, IInv, Typed, AskType
<1> DEFINE where == IF over THEN "reprompt" ELSE "top"
<1>11. where \in {"top", "deliver", "reprompt"} /\ Goto("worker", where)
  BY <1>3
<1> HIDE DEF c, u, v, where
<1> QED BY <1>1, <1>2, <1>3, <1>6, <1>9, <1>10, <1>11, WorkerWrites

LEMMA AcquiresGood ==
    ASSUME IInv, NEW s \in Slots, WorkerAcquires(s)
    PROVE  Good
<1> DEFINE r == ram.blob.slot[s]
           a == Acquire(ram.blob, s)
           d == [vol[s] EXCEPT !.deadline = "none"]
           e == [vol[s] EXCEPT !.deadline = a.deadline]
           new == [ident |-> {s}, gen |-> ram.blob.gen]
<1>1. AtTop(s, {"awaiting", "offered"}) /\ UNCHANGED <<ident, world, job>>
  BY DEF WorkerAcquires
<1>2. /\ s \in ram.blob.mask /\ pc["worker"] = "top" /\ r.state \in {"awaiting", "offered"}
      /\ Active /\ ram.blob \in Blob /\ Sound(ram.blob) /\ vol[s] \in VolType
  BY <1>1, AtTopSlot
<1>3. PICK w \in Outcomes(a.blob) :
        /\ SaveOrClose(w, a.blob)
        /\ vol' = [vol EXCEPT ![s] =
                     IF w.ok /\ a.what = "over" THEN ClearBindings(d)
                     ELSE [vol[s] EXCEPT !.deadline = IF w.ok THEN a.deadline ELSE "none"]]
        /\ ask' = (IF w.ok /\ a.what = "ask" THEN [ask EXCEPT !["worker"] = new] ELSE ask)
        /\ Goto("worker", IF ~w.ok THEN "top"
                          ELSE IF a.what = "ask" THEN "deliver"
                          ELSE IF a.what = "over" THEN "reprompt" ELSE "top")
  BY DEF WorkerAcquires
<1>4. /\ Amends(ram.blob, a.blob) /\ SameAttempts(ram.blob, a.blob)
      /\ a.deadline \in {"none", "open"}
  BY <1>2, AcquireAmends DEF IInv
<1> HIDE DEF a
<1>5. d \in VolType /\ d.heard \subseteq vol[s].heard
      /\ e \in VolType /\ e.heard \subseteq vol[s].heard
  BY <1>2, <1>4, VolFields
<1>6. \E x \in {d, e, ClearBindings(d)} : vol' = [vol EXCEPT ![s] = x]
  BY <1>3
<1> HIDE DEF d, e
<1>7. ClearBindings(d) \in VolType /\ ClearBindings(d).heard \subseteq vol[s].heard
  BY <1>5, VolFields
<1>8. VolFalls
  BY <1>1, <1>5, <1>6, <1>7, VolOne DEF IInv
<1>9. ask' \in AskType
  <2>1. new \in [ident : SUBSET Slots, gen : Nat]
    BY <1>2 DEF Blob
  <2> HIDE DEF new
  <2>2. ask \in AskType
    BY DEF IInv, Typed, AskType
  <2> QED BY <1>3, <2>1, <2>2 DEF AskType
<1> DEFINE where == IF ~w.ok THEN "top"
                    ELSE IF a.what = "ask" THEN "deliver"
                    ELSE IF a.what = "over" THEN "reprompt" ELSE "top"
<1>10. where \in {"top", "deliver", "reprompt"} /\ Goto("worker", where)
  BY <1>3
<1> HIDE DEF where
<1> QED BY <1>1, <1>2, <1>3, <1>4, <1>8, <1>9, <1>10, WorkerWrites

LEMMA SelectsGood ==
    ASSUME IInv, NEW s \in Slots, WorkerSelects(s)
    PROVE  Good
<1>1. /\ AtTop(s, {"ready"}) /\ Working /\ UNCHANGED <<nvs, ram, vol, ctl, hist>>
      /\ job' = [slot |-> s, gen |-> ram.blob.gen, result |-> "none"]
      /\ Goto("worker", "second")
  BY DEF WorkerSelects
<1>2. ram.loaded /\ Active /\ ram.blob \in Blob /\ pc["worker"] = "top"
  BY <1>1, AtTopSlot
<1>3. "worker" \in Tasks /\ "main" \in Tasks
  BY DEF Tasks
<1>4. pc' \in [Tasks -> Places] /\ pc'["worker"] = "second" /\ pc'["main"] = pc["main"]
  BY <1>1, <1>3 DEF IInv, Typed, Goto, Places
<1>5. job' \in [slot : Slots \cup {"none"}, gen : Nat, result : Results]
      /\ job'.slot = s /\ job'.gen = ram.blob.gen
  BY <1>1, <1>2 DEF Results, Blob
<1>6. Typed' /\ VolFalls
  BY <1>1, <1>4, <1>5 DEF IInv, Typed, Working, VolFalls
<1>7. pc["main"] \notin Stages
  BY <1>2, ActiveMain
<1>8. ram.blob.gen # 0 /\ ram.blob.gen <= hist.gen
  BY <1>2, CampaignGen DEF IInv, Generations
<1>9. Jobs'
  BY <1>1, <1>4, <1>5, <1>7, <1>8 DEF Jobs, Held
<1>10. Controls'
  BY <1>1, <1>2, <1>4 DEF IInv, Controls, Permitted
<1>11. Still /\ MainStays /\ \A t \in Slots : Reserved(t)' => Reserved(t)
  BY <1>1, <1>4 DEF Still, MainStays, Reserved, Unspent
<1>12. Records' /\ Generations' /\ Sending' /\ KeepsDone
  BY <1>6, <1>11, StillKeeps
<1> QED BY <1>6, <1>9, <1>10, <1>12, VolKeeps DEF IInv, Good

LEMMA ConfirmsGood ==
    ASSUME IInv, WorkerConfirms
    PROVE  Good
<1>1. /\ Working /\ UNCHANGED <<nvs, ram, vol, job, ctl, hist>>
      /\ pc["worker"] = "second" /\ Goto("worker", "reserve")
  BY DEF WorkerConfirms
<1>2. "worker" \in Tasks /\ "main" \in Tasks
  BY DEF Tasks
<1>3. pc' \in [Tasks -> Places] /\ pc'["worker"] = "reserve" /\ pc'["main"] = pc["main"]
  BY <1>1, <1>2 DEF IInv, Typed, Goto, Places
<1>4. Worked /\ ~Unspent' /\ Still /\ Calm
  BY <1>1, <1>3, CalmHere DEF Worked, Unspent, Held, Still
<1>5. VolFalls /\ Typed'
  BY <1>1, <1>3 DEF Working, VolFalls, IInv, Typed
<1> QED BY <1>4, <1>5, WorkStill

\* The worker leaves a job.
LEMMA WorkerDrops ==
    ASSUME IInv, Working, UNCHANGED <<nvs, ram, vol, hist>>, job' = NoJob,
           Goto("worker", "top"), pc["worker"] # "relay", ctl' \in CtlType, Calm
    PROVE  Good
<1>1. "worker" \in Tasks /\ "main" \in Tasks
  BY DEF Tasks
<1>2. pc' \in [Tasks -> Places] /\ pc'["worker"] = "top" /\ pc'["main"] = pc["main"]
  BY <1>1 DEF IInv, Typed, Goto, Places
<1>3. Worked /\ ~Unspent' /\ Still
  BY <1>2 DEF Worked, Unspent, Held, Still
<1>4. job' \in [slot : Slots \cup {"none"}, gen : Nat, result : Results]
  BY DEF NoJob, Results
<1>5. VolFalls /\ Typed'
  BY <1>2, <1>4 DEF Working, VolFalls, IInv, Typed
<1> QED BY <1>3, <1>5, WorkStill

\* The record of a job whose relay is reserved or being made.
LEMMA JobSlot ==
    ASSUME IInv, pc["worker"] \in Held, ram.loaded,
           ram.blob.slot[job.slot].state \in {"ready", "relaying"}
    PROVE  /\ Active /\ ram.blob \in Blob /\ Sound(ram.blob) /\ job.slot \in ram.blob.mask
           /\ job.slot \in Slots /\ ram.blob.slot[job.slot] \in SlotType
           /\ Proper(ram.blob.slot[job.slot]) /\ vol[job.slot] \in VolType
           /\ ram.blob.slot[job.slot].state \notin Done
<1>1. job.slot \in Slots
  BY DEF IInv, Jobs
<1>2. ram.blob.slot[job.slot].state \notin Terminal \cup Done
  BY DEF Terminal, Done
<1>3. ram.blob \in Blob /\ Sound(ram.blob)
  BY CampaignGen
<1>4. job.slot \in ram.blob.mask
  BY <1>1, <1>2, <1>3, LiveRequested
<1> QED BY <1>1, <1>2, <1>4, RequestedSlot

LEMMA ResetQueueGood ==
    ASSUME IInv, pc["worker"] \in {"second", "reserve"}, ResetQueue(job.slot), Working
    PROVE  Good
<1> DEFINE s == job.slot
           c == Change(ram.blob, s, "awaiting")
           d == [vol[s] EXCEPT !.deadline = "none"]
<1>1. pc["worker"] \in Held /\ pc["worker"] # "relay"
  BY DEF Held
<1>2. job' = NoJob /\ Goto("worker", "top")
  BY DEF ResetQueue
<1>3. CASE UNCHANGED <<nvs, ram, vol, ctl, hist>>
  <2>1. ctl' \in CtlType /\ Calm
    BY <1>3, CalmHere DEF IInv, Typed
  <2> QED BY <1>1, <1>2, <1>3, <2>1, WorkerDrops
<1>4. CASE ram.loaded /\ ram.blob.gen = job.gen /\ ram.blob.slot[s].state = "ready"
  <2>1. PICK w \in Outcomes(c) :
          /\ SaveOrClose(w, c)
          /\ vol' = IF w.ok THEN [vol EXCEPT ![s] = ClearBindings(d)] ELSE vol
    BY <1>4 DEF ResetQueue
  <2>2. /\ Active /\ ram.blob \in Blob /\ Sound(ram.blob) /\ s \in ram.blob.mask
        /\ s \in Slots /\ vol[s] \in VolType /\ ram.blob.slot[s].state \notin Done
    BY <1>1, <1>4, JobSlot
  <2>3. Amends(ram.blob, c) /\ SameAttempts(ram.blob, c)
    BY <2>2, ChangeAmends
  <2>4. VolFalls
    <3>1. d \in VolType /\ d.heard \subseteq vol[s].heard
      BY <2>2, VolFields
    <3> HIDE DEF d
    <3>2. ClearBindings(d) \in VolType /\ ClearBindings(d).heard \subseteq vol[s].heard
      BY <3>1, VolFields
    <3>3. Typed /\ ident' = ident
      BY DEF IInv, Working
    <3>4. CASE vol' = vol
      BY <3>3, <3>4, VolStays
    <3>5. CASE vol' = [vol EXCEPT ![s] = ClearBindings(d)]
      BY <2>2, <3>2, <3>3, <3>5, VolOne
    <3> QED BY <2>1, <3>4, <3>5
  <2>5. world' = world /\ ask' \in AskType
    BY DEF Working, IInv, Typed, AskType
  <2> HIDE DEF c
  <2> QED BY <1>1, <1>2, <2>1, <2>2, <2>3, <2>4, <2>5, WorkerWrites
<1> QED BY <1>3, <1>4 DEF ResetQueue

LEMMA UnconfirmedGood ==
    ASSUME IInv, WorkerUnconfirmed
    PROVE  Good
BY ResetQueueGood DEF WorkerUnconfirmed

\* What a return of the worker with its write done leaves.
LEMMA WorkerReturns ==
    ASSUME IInv, NEW c, Put(c), pc["worker"] # "relay",
           NEW where \in {"top", "reprompt"}, Goto("worker", where), job' = NoJob,
           VolFalls, Working
    PROVE  Typed' /\ Worked /\ ~Unspent'
<1>1. "worker" \in Tasks /\ "main" \in Tasks
  BY DEF Tasks
<1>2. pc' \in [Tasks -> Places] /\ pc'["worker"] = where /\ pc'["main"] = pc["main"]
  BY <1>1 DEF IInv, Typed, Goto, Places
<1>3. Worked /\ ~Unspent'
  BY <1>2 DEF Worked, Unspent, Held
<1>4. job' \in [slot : Slots \cup {"none"}, gen : Nat, result : Results]
  BY DEF NoJob, Results
<1>5. Typed'
  BY <1>2, <1>4 DEF IInv, Typed, Put, VolFalls, Working
<1> QED BY <1>3, <1>5

\* An attempt that was reserved and not begun is returned.
LEMMA ReturnGood ==
    ASSUME IInv, Relaying, Unspent, NEW c, Put(c), Amends(ram.blob, c),
           c.slot[job.slot].attempts = ram.blob.slot[job.slot].attempts - 1,
           \A t \in Slots \ {job.slot} :
               c.slot[t].attempts = ram.blob.slot[t].attempts,
           NEW where \in {"top", "reprompt"}, Goto("worker", where), job' = NoJob,
           VolFalls, Working
    PROVE  Good
<1>1. pc["worker"] # "relay" /\ pc["worker"] \in Held
  BY DEF Unspent, Held
<1>2. Typed' /\ Worked /\ ~Unspent'
  BY <1>1, WorkerReturns
<1>3. Active /\ ram.loaded /\ job.slot \in Slots
  BY <1>1, JobSlot DEF Relaying
<1>4. ASSUME nvs.manifest.gen # 0, NEW t \in Slots
      PROVE  Due(t)' <= c.slot[t].attempts
  <2>1. hist.sent[t] \in Nat /\ hist'.sent = hist.sent /\ Due(t)' = hist'.sent[t] + 0
    BY <1>2 DEF IInv, Typed, HistType, Put, Due, Reserved
  <2>2. Due(t) <= ram.blob.slot[t].attempts
    BY <1>3, <1>4 DEF IInv, Sending, Covers
  <2>3. ram.blob.slot[t].attempts \in Nat /\ c.slot[t].attempts \in Nat
    BY DEF IInv, Typed, RamType, Amends, Blob, SlotType
  <2>4. CASE t = job.slot
    <3>1. job.gen = nvs.manifest.gen
      BY <1>3, <1>4 DEF IInv, Generations, Matches, Relaying
    <3>2. Due(t) = hist.sent[t] + 1
      BY <2>4, <3>1 DEF Due, Reserved
    <3>3. c.slot[t].attempts = ram.blob.slot[t].attempts - 1
      BY <2>4
    <3> QED BY <2>1, <2>2, <2>3, <3>2, <3>3
  <2>5. CASE t # job.slot
    <3>1. Due(t) \in Nat /\ hist.sent[t] <= Due(t)
      BY DueIsCount DEF IInv
    <3>2. c.slot[t].attempts = ram.blob.slot[t].attempts
      BY <2>5
    <3> QED BY <2>1, <2>2, <2>3, <3>1, <3>2
  <2> QED BY <2>4, <2>5
<1> QED BY <1>2, <1>3, <1>4, WorkPut

\* The record in which a relay is no longer under way.
LEMMA GivenBack ==
    ASSUME NEW b \in Blob, Sound(b), NEW s \in b.mask, b.slot[s].state = "relaying",
           NEW n \in {b.slot[s].attempts, b.slot[s].attempts - 1}
    PROVE  LET c == [b EXCEPT !.slot[s].attempts = n, !.slot[s].state = "ready",
                              !.slot[s].pending = TRUE] IN
           /\ Amends(b, c) /\ c.slot[s].attempts = n
           /\ \A t \in Slots \ {s} : c.slot[t].attempts = b.slot[t].attempts
<1> DEFINE r == b.slot[s]
           q == [r EXCEPT !.attempts = n, !.state = "ready", !.pending = TRUE]
           c == [b EXCEPT !.slot[s].attempts = n, !.slot[s].state = "ready",
                          !.slot[s].pending = TRUE]
<1>1. s \in Slots /\ r \in SlotType /\ Proper(r)
  BY RequestedIsProper
<1>2. n \in Nat /\ n <= MaxAttempts
  BY <1>1, BudgetAssumption DEF SlotType, Proper
<1>3. c = With(b, s, q)
  BY <1>1 DEF With, Blob, SlotType
<1>4. /\ q \in SlotType /\ q.wait = r.wait /\ q.state = "ready" /\ q.attempts = n
      /\ q.probes = r.probes /\ q.bound = r.bound /\ q.pending = TRUE
  BY <1>1, <1>2 DEF SlotType, SlotState
<1>5. /\ r.wait \notin {"active", "exhausted"} /\ r.bound # 0 /\ r.probes <= MaxProbes
  BY <1>1 DEF Proper
<1>6. (q.bound # 0) = (q.state \in {"ready", "relaying", "recovering"})
      /\ q.pending = (q.state = "ready")
  BY <1>4, <1>5
<1>7. Proper(q)
  BY <1>2, <1>4, <1>5, <1>6 DEF Proper
<1>8. r.state \notin Done
  BY DEF Done
<1> HIDE DEF q, c
<1>9. Touches(b, c, {s}) /\ c.slot[s] = q
  BY <1>1, <1>3, <1>4, SlotTouches
<1>10. Amends(b, c)
  BY <1>7, <1>8, <1>9, TouchesOne
<1>11. \A t \in Slots \ {s} : c.slot[t].attempts = b.slot[t].attempts
  BY <1>9 DEF Touches
<1> QED BY <1>4, <1>9, <1>10, <1>11 DEF c

\* The worker keeps a slot ready after a relay that may be repeated.
LEMMA KeptAmends ==
    ASSUME NEW b \in Blob, Sound(b), NEW s \in b.mask, b.slot[s].state = "relaying"
    PROVE  LET c == [b EXCEPT !.slot[s].state = "ready", !.slot[s].pending = TRUE] IN
           Amends(b, c) /\ SameAttempts(b, c)
<1> DEFINE r == b.slot[s]
           n == r.attempts
           q == [r EXCEPT !.state = "ready", !.pending = TRUE]
           u == [r EXCEPT !.attempts = n, !.state = "ready", !.pending = TRUE]
           c == [b EXCEPT !.slot[s].state = "ready", !.slot[s].pending = TRUE]
           e == [b EXCEPT !.slot[s].attempts = n, !.slot[s].state = "ready",
                          !.slot[s].pending = TRUE]
<1>1. s \in Slots /\ r \in SlotType
  BY RequestedIsProper
<1>2. u = q
  BY <1>1 DEF SlotType
<1>3. c = With(b, s, q)
  BY <1>1 DEF With, Blob, SlotType
<1>4. e = With(b, s, u)
  BY <1>1 DEF With, Blob, SlotType
<1>5. n \in {b.slot[s].attempts, b.slot[s].attempts - 1}
  OBVIOUS
<1>6. n = b.slot[s].attempts
  BY SMTT(60)
<1> HIDE DEF n
<1>7. /\ Amends(b, e) /\ e.slot[s].attempts = n
      /\ \A t \in Slots \ {s} : e.slot[t].attempts = b.slot[t].attempts
  BY <1>5, GivenBack, ZenonT(60)
<1> HIDE DEF c, e, q, u
<1>8. c = e
  BY <1>2, <1>3, <1>4
<1>9. SameAttempts(b, e)
  BY <1>6, <1>7 DEF SameAttempts
<1> QED BY <1>7, <1>8, <1>9 DEF c

LEMMA GiveBackAmends ==
    ASSUME IInv, pc["worker"] \in Held, Relaying
    PROVE  LET s == job.slot
               c == GiveBack(s) IN
           /\ Amends(ram.blob, c)
           /\ c.slot[s].attempts = ram.blob.slot[s].attempts - 1
           /\ \A t \in Slots \ {s} : c.slot[t].attempts = ram.blob.slot[t].attempts
<1> DEFINE s == job.slot
           b == ram.blob
           n == b.slot[s].attempts - 1
           c == [b EXCEPT !.slot[s].attempts = n, !.slot[s].state = "ready",
                          !.slot[s].pending = TRUE]
<1>1. b \in Blob /\ Sound(b) /\ s \in b.mask /\ s \in Slots /\ b.slot[s].state = "relaying"
  BY JobSlot DEF Relaying
<1>2. GiveBack(s) = c
  BY <1>1 DEF GiveBack, Blob, SlotType
<1>3. n \in {b.slot[s].attempts, b.slot[s].attempts - 1}
  BY SMTT(60)
<1> HIDE DEF n, s, b
<1>4. /\ Amends(b, c) /\ c.slot[s].attempts = n
      /\ \A t \in Slots \ {s} : c.slot[t].attempts = b.slot[t].attempts
  BY <1>1, <1>3, GivenBack, ZenonT(60)
<1> QED BY <1>2, <1>4, ZenonT(60) DEF n, s, b

LEMMA ChecksPreemptionGood ==
    ASSUME IInv, WorkerChecksPreemption
    PROVE  Good
<1> DEFINE k == [ctl EXCEPT !.running = FALSE, !.life = "suspended"]
           c == GiveBack(job.slot)
<1>1. Working /\ vol' = vol /\ pc["worker"] = "reserved" /\ Unspent
      /\ pc["worker"] \in Held /\ pc["worker"] # "relay"
  BY DEF WorkerChecksPreemption, Unspent, Held
<1>2. CASE Goto("worker", "claim") /\ UNCHANGED <<nvs, ram, ctl, hist, job>>
  <2>1. "worker" \in Tasks /\ "main" \in Tasks
    BY DEF Tasks
  <2>2. pc' \in [Tasks -> Places] /\ pc'["worker"] = "claim" /\ pc'["main"] = pc["main"]
    BY <1>2, <2>1 DEF IInv, Typed, Goto, Places
  <2>3. Worked /\ Still /\ Calm
    BY <1>1, <1>2, <2>2, CalmHere DEF Worked, Held, Still
  <2>4. VolFalls /\ Typed'
    BY <1>1, <1>2, <2>2 DEF Working, VolFalls, IInv, Typed
  <2> QED BY <1>1, <2>3, <2>4, WorkStill
<1>3. CASE ctl.preempt
  <2>1. /\ job' = NoJob /\ Goto("worker", "top")
        /\ IF ~Relaying THEN ctl' = k /\ UNCHANGED <<nvs, ram, hist>>
           ELSE \E w \in Outcomes(c) :
                  IF w.ok THEN Stored(w, Holding(c), k) ELSE CloseAfter(w, k)
    BY <1>3 DEF WorkerChecksPreemption
  <2>2. k \in CtlType /\ k.op = ctl.op /\ k.inhibit = ctl.inhibit
    <3>1. ctl \in CtlType
      BY DEF IInv, Typed
    <3> QED BY <3>1 DEF CtlType
  <2> HIDE DEF k
  <2>3. CASE ~Relaying
    <3>1. ctl' = k /\ ram' = ram /\ UNCHANGED <<nvs, ram, hist>>
      BY <2>1, <2>3
    <3>2. ctl' \in CtlType /\ Calm
      BY <2>2, <3>1, Reconciled
    <3> QED BY <1>1, <2>1, <3>1, <3>2, WorkerDrops
  <2>4. CASE Relaying
    <3>1. PICK w \in Outcomes(c) :
            IF w.ok THEN Stored(w, Holding(c), k) ELSE CloseAfter(w, k)
      BY <2>1, <2>4
    <3>2. /\ Amends(ram.blob, c)
          /\ c.slot[job.slot].attempts = ram.blob.slot[job.slot].attempts - 1
          /\ \A t \in Slots \ {job.slot} : c.slot[t].attempts = ram.blob.slot[t].attempts
      BY <1>1, <2>4, GiveBackAmends
    <3>3. c \in Blob /\ ram.loaded /\ ram.blob.gen # 0 /\ Typed
      BY <2>4, <3>2, CampaignGen DEF Amends, Relaying, IInv
    <3> HIDE DEF c
    <3>4. w.ok \in BOOLEAN
      BY <3>3, OutcomeOf DEF WriteType
    <3>5. (w.ok /\ Stored(w, Holding(c), k)) \/ (~w.ok /\ CloseAfter(w, k))
      BY <3>1, <3>4
    <3>6. Put(c)
      BY <2>2, <3>3, <3>5, SavePuts
    <3>7. VolFalls
      BY <1>1, VolStays DEF IInv, Working
    <3> QED BY <1>1, <2>1, <2>4, <3>2, <3>6, <3>7, ReturnGood
  <2> QED BY <2>3, <2>4
<1> QED BY <1>2, <1>3 DEF WorkerChecksPreemption

LEMMA ReserveAmends ==
    ASSUME NEW b \in Blob, Sound(b), NEW s \in b.mask, b.slot[s].state = "ready",
           b.slot[s].attempts < MaxAttempts, NEW n \in {b.slot[s].attempts + 1}
    PROVE  LET c == [b EXCEPT !.slot[s].pending = FALSE, !.slot[s].state = "relaying",
                              !.slot[s].attempts = n] IN
           /\ Amends(b, c) /\ c.slot[s].attempts = n
           /\ \A t \in Slots \ {s} : c.slot[t].attempts = b.slot[t].attempts
<1> DEFINE r == b.slot[s]
           q == [r EXCEPT !.pending = FALSE, !.state = "relaying", !.attempts = n]
           c == [b EXCEPT !.slot[s].pending = FALSE, !.slot[s].state = "relaying",
                          !.slot[s].attempts = n]
<1>1. s \in Slots /\ r \in SlotType /\ Proper(r)
  BY RequestedIsProper
<1>2. n \in Nat /\ n <= MaxAttempts /\ n # 0
  BY <1>1, BudgetAssumption DEF SlotType
<1>3. c = With(b, s, q)
  BY <1>1 DEF With, Blob, SlotType
<1>4. /\ q \in SlotType /\ q.wait = r.wait /\ q.state = "relaying" /\ q.attempts = n
      /\ q.probes = r.probes /\ q.bound = r.bound /\ q.pending = FALSE
  BY <1>1, <1>2 DEF SlotType, SlotState
<1>5. /\ r.wait \notin {"active", "exhausted"} /\ r.bound # 0 /\ r.probes <= MaxProbes
  BY <1>1 DEF Proper
<1>6. (q.bound # 0) = (q.state \in {"ready", "relaying", "recovering"})
      /\ q.pending = (q.state = "ready")
  BY <1>4, <1>5
<1>7. Proper(q)
  BY <1>2, <1>4, <1>5, <1>6 DEF Proper
<1>8. r.state \notin Done
  BY DEF Done
<1> HIDE DEF q, c
<1>9. Touches(b, c, {s}) /\ c.slot[s] = q
  BY <1>1, <1>3, <1>4, SlotTouches
<1>10. Amends(b, c)
  BY <1>7, <1>8, <1>9, TouchesOne
<1>11. \A t \in Slots \ {s} : c.slot[t].attempts = b.slot[t].attempts
  BY <1>9 DEF Touches
<1> QED BY <1>4, <1>9, <1>10, <1>11 DEF c

LEMMA ReservesGood ==
    ASSUME IInv, WorkerReserves
    PROVE  Good
<1> DEFINE s == job.slot
           b == ram.blob
           n == b.slot[s].attempts + 1
           c == [b EXCEPT !.slot[s].pending = FALSE, !.slot[s].state = "relaying",
                          !.slot[s].attempts = n]
<1>1. Working /\ pc["worker"] = "reserve" /\ pc["worker"] \in Held
      /\ pc["worker"] # "relay" /\ ~Unspent
  BY DEF WorkerReserves, Held, Unspent
<1>2. CASE /\ Goto("worker", "top") /\ job' = NoJob
           /\ UNCHANGED <<nvs, ram, vol, ctl, hist>>
  <2>1. ctl' \in CtlType /\ Calm
    BY <1>2, CalmHere DEF IInv, Typed
  <2> QED BY <1>1, <1>2, <2>1, WorkerDrops
<1>3. CASE ResetQueue(s)
  BY <1>1, <1>3, ResetQueueGood
<1>4. CASE /\ ReservationValid(s)
           /\ \E w \in Outcomes(Reserve(s)) :
                /\ SaveOrClose(w, Reserve(s))
                /\ vol' = [vol EXCEPT ![s] = Forget(@, {"reserve"})]
                /\ Goto("worker", IF w.ok THEN "reserved" ELSE "top")
                /\ job' = IF w.ok THEN job ELSE NoJob
  <2>1. ram.loaded /\ b.gen = job.gen /\ b.slot[s].state = "ready"
        /\ b.slot[s].attempts < MaxAttempts
    BY <1>4 DEF ReservationValid, Requested
  <2>2. /\ Active /\ b \in Blob /\ Sound(b) /\ s \in b.mask /\ s \in Slots
        /\ b.slot[s] \in SlotType /\ vol[s] \in VolType
    BY <1>1, <2>1, JobSlot
  <2>3. Reserve(s) = c
    BY <2>2, SMTT(60) DEF Reserve, Blob, SlotType
  <2>4. PICK w \in Outcomes(c) :
          /\ SaveOrClose(w, c)
          /\ vol' = [vol EXCEPT ![s] = Forget(@, {"reserve"})]
          /\ Goto("worker", IF w.ok THEN "reserved" ELSE "top")
          /\ job' = IF w.ok THEN job ELSE NoJob
    BY <1>4, <2>3
  <2>5. n = b.slot[s].attempts + 1 /\ n \in {b.slot[s].attempts + 1}
    BY SMTT(60)
  <2> HIDE DEF n, s, b
  <2>6. /\ Amends(b, c) /\ c.slot[s].attempts = n
        /\ \A t \in Slots \ {s} : c.slot[t].attempts = b.slot[t].attempts
    BY <2>1, <2>2, <2>5, ReserveAmends
  <2> HIDE DEF c
  <2>7. c \in Blob /\ c.gen = b.gen /\ b.gen # 0 /\ Typed /\ ctl \in CtlType
    BY <2>1, <2>6, CampaignGen DEF Amends, b, IInv, Typed
  <2>8. w.ok \in BOOLEAN
    BY <2>7, OutcomeOf DEF WriteType
  <2>9. (w.ok /\ Stored(w, Holding(c), ctl)) \/ (~w.ok /\ CloseAfter(w, ctl))
    BY <2>4, <2>8 DEF SaveOrClose
  <2>10. Put(c) /\ (w.ok => nvs'.blob = c /\ ram'.blob = c)
    BY <2>1, <2>7, <2>9, SavePuts DEF b
  <2>11. VolFalls
    <3>1. {"reserve"} \in SUBSET Marks
      BY DEF Marks
    <3>2. Forget(vol[s], {"reserve"}) \in VolType
          /\ Forget(vol[s], {"reserve"}).heard \subseteq vol[s].heard
      BY <2>2, <3>1, VolFields
    <3> QED BY <1>1, <2>2, <2>4, <2>7, <3>2, VolOne DEF Working
  \* What each slot is owed, but for the reservation itself.
  <2>12. ASSUME nvs.manifest.gen # 0, NEW t \in Slots
         PROVE  /\ hist.sent[t] \in Nat /\ hist'.sent[t] = hist.sent[t]
                /\ hist.sent[t] <= b.slot[t].attempts
                /\ b.slot[t].attempts \in Nat /\ c.slot[t].attempts \in Nat
    <3>1. Due(t) <= b.slot[t].attempts
      BY <2>1, <2>12 DEF IInv, Sending, Covers, b
    <3>2. /\ b.slot[t].attempts \in Nat /\ c.slot[t].attempts \in Nat
          /\ hist.sent[t] \in Nat /\ hist'.sent[t] = hist.sent[t]
      BY <2>2, <2>7, <2>10 DEF Typed, HistType, Blob, SlotType, Put
    <3>3. Due(t) = hist.sent[t] + 0
      BY <1>1 DEF Due, Reserved
    <3> QED BY <3>1, <3>2, <3>3
  <2>13. CASE ~w.ok
    <3>1. job' = NoJob /\ Goto("worker", "top")
      BY <2>4, <2>13
    <3>2. Typed' /\ Worked /\ ~Unspent'
      BY <1>1, <2>10, <2>11, <3>1, WorkerReturns
    <3>3. ASSUME nvs.manifest.gen # 0, NEW t \in Slots
          PROVE  Due(t)' <= c.slot[t].attempts
      <4>1. Due(t)' = hist'.sent[t] + 0
        BY <3>2 DEF Due, Reserved
      <4>2. c.slot[t].attempts \in {n, b.slot[t].attempts} /\ n = b.slot[s].attempts + 1
            /\ (c.slot[t].attempts = n => t = s \/ c.slot[t].attempts = b.slot[t].attempts)
        BY <2>5, <2>6
      <4>3. /\ hist.sent[t] \in Nat /\ hist'.sent[t] = hist.sent[t]
            /\ hist.sent[t] <= b.slot[t].attempts /\ b.slot[t].attempts \in Nat
        BY <2>12, <3>3
      <4> QED BY <4>1, <4>2, <4>3
    <3> QED BY <2>2, <2>6, <2>10, <2>11, <3>2, <3>3, WorkPut DEF b
  <2>14. CASE w.ok
    <3>1. job' = job /\ Goto("worker", "reserved")
      BY <2>4, <2>14
    <3>2. "worker" \in Tasks /\ "main" \in Tasks
      BY DEF Tasks
    <3>3. pc' \in [Tasks -> Places] /\ pc'["worker"] = "reserved" /\ pc'["main"] = pc["main"]
      BY <3>1, <3>2 DEF IInv, Typed, Goto, Places
    <3>4. Typed'
      BY <1>1, <2>7, <2>10, <2>11, <3>1, <3>3 DEF Typed, Put, VolFalls, Working
    <3>5. Worked /\ Calm /\ hist'.gen = hist.gen /\ hist'.sent = hist.sent
          /\ nvs'.manifest = nvs.manifest /\ ram'.loaded
      BY <1>1, <2>10, <3>1, <3>3 DEF Worked, Held, Put, Calm
    <3>6. Controls' /\ Jobs' /\ pc'["main"] \notin Stages \cup {"boot"}
      BY <2>2, <3>4, <3>5, WorkedKeeps
    <3>7. Records' /\ Generations' /\ KeepsDone
      BY <2>2, <2>6, <2>10, <3>6, PutKeeps DEF b
    <3>8. ASSUME nvs.manifest.gen # 0, NEW t \in Slots
          PROVE  Due(t)' <= c.slot[t].attempts
      <4>1. /\ hist.sent[t] \in Nat /\ hist'.sent[t] = hist.sent[t]
            /\ hist.sent[t] <= b.slot[t].attempts /\ b.slot[t].attempts \in Nat
        BY <2>12, <3>8
      <4>2. CASE t = s
        <5>1. c.slot[t].attempts = b.slot[t].attempts + 1
          BY <2>5, <2>6, <4>2
        <5>2. Due(t)' \in {hist'.sent[t] + 0, hist'.sent[t] + 1}
          BY DEF Due
        <5> QED BY <4>1, <5>1, <5>2
      <4>3. CASE t # s
        <5>1. c.slot[t].attempts = b.slot[t].attempts
          BY <2>6, <4>3
        <5>2. Due(t)' = hist'.sent[t] + 0
          BY <3>1, <4>3 DEF Due, Reserved, s
        <5> QED BY <4>1, <5>1, <5>2
      <4> QED BY <4>2, <4>3
    <3>9. nvs.manifest.gen # 0 => c.gen = nvs.manifest.gen
      BY <2>1, <2>7 DEF IInv, Generations, Matches, b
    <3>10. Sending'
      <4>1. nvs'.blob = c /\ ram'.blob = c /\ nvs'.manifest.gen = nvs.manifest.gen
        BY <2>10, <2>14, <3>5
      <4>2. nvs'.manifest.gen # 0 => Covers(nvs.blob)' /\ Covers(ram.blob)'
        BY <3>8, <4>1 DEF Covers
      <4> QED BY <2>7, <3>5, <3>9, <4>1, <4>2 DEF IInv, Sending
    <3>11. Heard'
      BY <2>11, VolKeeps
    <3> QED BY <3>4, <3>6, <3>7, <3>10, <3>11 DEF IInv, Good
  <2> QED BY <2>8, <2>13, <2>14
<1> QED BY <1>2, <1>3, <1>4 DEF WorkerReserves

LEMMA ClaimsGood ==
    ASSUME IInv, WorkerClaims
    PROVE  Good
<1> DEFINE s == job.slot
<1>1. Working /\ UNCHANGED <<nvs, ram, vol>> /\ pc["worker"] = "claim"
      /\ pc["worker"] \in Held /\ Unspent
  BY DEF WorkerClaims, Held, Unspent
<1>2. "worker" \in Tasks /\ "main" \in Tasks
  BY DEF Tasks
<1>3. s \in Slots /\ job.gen # 0
  BY <1>1 DEF IInv, Jobs
<1>4. CASE /\ \E why \in {"busy", "refused", "changed"} :
                job' = [job EXCEPT !.result = why]
           /\ Goto("worker", "result") /\ UNCHANGED <<ctl, hist>>
  <2>1. PICK why \in {"busy", "refused", "changed"} : job' = [job EXCEPT !.result = why]
    BY <1>4
  <2>2. /\ job' \in [slot : Slots \cup {"none"}, gen : Nat, result : Results]
        /\ job'.slot = job.slot /\ job'.gen = job.gen /\ job'.result = why
    BY <2>1 DEF IInv, Typed, Results
  <2>3. pc' \in [Tasks -> Places] /\ pc'["worker"] = "result" /\ pc'["main"] = pc["main"]
    BY <1>2, <1>4 DEF IInv, Typed, Goto, Places
  <2>4. Worked /\ Still /\ Calm
    BY <1>1, <1>4, <2>1, <2>2, <2>3, CalmHere DEF Worked, Still
  <2>5. VolFalls /\ Typed'
    BY <1>1, <1>4, <2>2, <2>3 DEF Working, VolFalls, IInv, Typed
  <2> QED BY <1>1, <2>4, <2>5, WorkStill
<1>5. CASE /\ ctl.op = "none" /\ nvs.manifest.gen = job.gen
           /\ ctl' = [ctl EXCEPT !.op = "relay", !.inhibit = TRUE]
           /\ hist' = [hist EXCEPT !.sent[s] = @ + 1]
           /\ Goto("worker", "relay") /\ UNCHANGED job
  <2>1. pc' \in [Tasks -> Places] /\ pc'["worker"] = "relay" /\ pc'["main"] = pc["main"]
    BY <1>2, <1>5 DEF IInv, Typed, Goto, Places
  <2>2. ctl' \in CtlType /\ ctl'.op = "relay" /\ ctl'.inhibit = TRUE
    BY <1>5 DEF IInv, Typed, CtlType
  <2>3. /\ hist' \in HistType /\ hist'.gen = hist.gen /\ hist'.sent[s] = hist.sent[s] + 1
        /\ \A t \in Slots \ {s} : hist'.sent[t] = hist.sent[t]
    <3>1. hist.sent[s] + 1 \in Nat /\ hist.sent \in [Slots -> Nat] /\ hist \in HistType
      BY <1>3 DEF IInv, Typed, HistType
    <3> QED BY <1>3, <1>5, <3>1 DEF HistType
  <2>4. Typed' /\ VolFalls
    BY <1>1, <1>5, <2>1, <2>2, <2>3 DEF IInv, Typed, Working, VolFalls
  \* What a slot is owed does not change: the reservation became a relay.
  <2>5. ASSUME NEW t \in Slots
        PROVE  Due(t)' = Due(t)
    <3>1. ~Reserved(t)'
      BY <2>1 DEF Reserved, Unspent
    <3>2. Reserved(t) <=> t = s
      BY <1>1, <1>5 DEF Reserved
    <3>3. hist.sent[t] \in Nat
      BY DEF IInv, Typed, HistType
    <3> QED BY <2>3, <3>1, <3>2, <3>3 DEF Due
  <2>6. ram.loaded /\ nvs.blob.gen = nvs.manifest.gen /\ nvs.manifest.gen # 0
    BY <1>1, <1>3, <1>5 DEF IInv, Sending, Reserved
  <2>7. ASSUME NEW t \in Slots
        PROVE  hist'.sent[t] <= MaxAttempts
    <3>1. Due(t) <= ram.blob.slot[t].attempts
      BY <2>6 DEF IInv, Sending, Covers
    <3>2. ram.blob.slot[t].attempts \in Nat /\ ram.blob.slot[t].attempts <= MaxAttempts
      BY <2>6, CampaignGen, SoundCounts
    <3>3. hist'.sent[t] \in Nat /\ hist'.sent[t] <= Due(t)' /\ Due(t)' \in Nat
      BY <2>4, DueIsCount DEF Due, Typed, HistType
    <3> QED BY <2>5, <3>1, <3>2, <3>3, BudgetAssumption
  <2>8. Sending'
    <3>1. nvs' = nvs /\ ram' = ram
      BY <1>1
    <3>2. Covers(nvs.blob)' /\ Covers(ram.blob)'
      BY <2>5, <2>6, <3>1 DEF IInv, Sending, Covers
    <3>3. \A t \in Slots : ~Reserved(t)'
      BY <2>1 DEF Reserved, Unspent
    <3> QED BY <2>6, <2>7, <3>1, <3>2, <3>3 DEF Sending
  <2>9. pc["main"] \notin Stages
    BY <1>5, ScenarioAssumption DEF IInv, Controls
  <2>10. Controls'
    BY <2>1, <2>2, <2>9, ScenarioAssumption DEF Controls, Permitted
  <2>11. Jobs'
    BY <1>1, <1>5, <2>1, <2>3, <2>9 DEF IInv, Jobs, Held
  <2>12. Records' /\ KeepsDone
    BY <1>1 DEF IInv, Records, KeepsDone
  <2>13. Generations'
    <3>1. Staged'
      BY <2>1, <2>9 DEF Staged, Stages
    <3> QED BY <1>1, <2>1, <2>3, <3>1 DEF IInv, Generations, Matches
  <2> QED BY <2>4, <2>8, <2>10, <2>11, <2>12, <2>13, VolKeeps DEF IInv, Good
<1> QED BY <1>4, <1>5 DEF WorkerClaims

LEMMA RelayEndsGood ==
    ASSUME IInv, NEW result \in {"ok", "retry", "refused"},
           NEW ver \in Versions, RelayEnds(result, ver)
    PROVE  Good
<1> DEFINE s == job.slot
           k == [ctl EXCEPT !.op = "none"]
<1>1. /\ UNCHANGED <<nvs, ram, vol, ident, ask, hist>> /\ pc["worker"] = "relay"
      /\ pc["worker"] \in Held
      /\ job' = [job EXCEPT !.result = result]
      /\ world' = [world EXCEPT ![s].ver = ver]
      /\ ctl' = Reconcile(ram, k) /\ Goto("worker", "result")
  BY DEF RelayEnds, Held
<1>2. s \in Slots
  BY <1>1 DEF IInv, Jobs
<1>3. k \in CtlType /\ k.op = "none"
  BY DEF IInv, Typed, CtlType
<1> HIDE DEF k
<1>4. ctl' \in CtlType /\ ctl'.op = "none" /\ Permitted'
  <2>1. ram \in RamType
    BY DEF IInv, Typed
  <2> QED BY <1>1, <1>3, <2>1, ReconcileKeeps DEF Permitted
<1>5. "worker" \in Tasks /\ "main" \in Tasks
  BY DEF Tasks
<1>6. pc' \in [Tasks -> Places] /\ pc'["worker"] = "result" /\ pc'["main"] = pc["main"]
  BY <1>1, <1>5 DEF IInv, Typed, Goto, Places
<1>7. /\ job' \in [slot : Slots \cup {"none"}, gen : Nat, result : Results]
      /\ job'.slot = job.slot /\ job'.gen = job.gen /\ job'.result = result
  BY <1>1 DEF IInv, Typed, Results
<1>8. world' \in Worlds
  <2>1. world \in Worlds
    BY DEF IInv, Typed, Worlds
  <2> QED BY <1>1, <1>2, <2>1 DEF Worlds
<1>9. Typed' /\ VolFalls
  BY <1>1, <1>4, <1>6, <1>7, <1>8 DEF IInv, Typed, VolFalls, Worlds
<1>10. pc["main"] \notin Stages
  BY <1>1, ScenarioAssumption DEF IInv, Controls
<1>11. Controls'
  BY <1>4, <1>6, <1>10, ScenarioAssumption DEF Controls
<1>12. Jobs'
  BY <1>1, <1>6, <1>7 DEF IInv, Jobs
<1>13. Still /\ MainStays /\ \A t \in Slots : ~Reserved(t)'
  BY <1>1, <1>6, <1>7, <1>10 DEF Still, MainStays, Reserved, Unspent
<1>14. Records' /\ Generations' /\ Sending' /\ KeepsDone
  BY <1>9, <1>13, StillKeeps
<1> QED BY <1>9, <1>11, <1>12, <1>14, VolKeeps DEF IInv, Good

LEMMA RelayGood ==
    ASSUME IInv, Relay
    PROVE  Good
<1>1. ASSUME NEW v \in {world[s].ver : s \in {job.slot} \cap Slots} \cup {"target"}
      PROVE  v \in Versions
  BY DEF IInv, Typed, Versions
<1>2. "target" \in Versions
  BY DEF Versions
<1> QED BY <1>1, <1>2, RelayEndsGood DEF Relay

\* What the worker makes of a result.
LEMMA ChangedAmends ==
    ASSUME NEW b \in Blob, Sound(b), NEW s \in b.mask, b.slot[s].state = "relaying"
    PROVE  LET c == [Change(b, s, "awaiting") EXCEPT !.slot[s].attempts = @ - 1] IN
           /\ Amends(b, c) /\ c.slot[s].attempts = b.slot[s].attempts - 1
           /\ \A t \in Slots \ {s} : c.slot[t].attempts = b.slot[t].attempts
<1> DEFINE r == b.slot[s]
           e == Change(b, s, "awaiting")
           n == r.attempts - 1
           q == [e.slot[s] EXCEPT !.attempts = n]
           c == [e EXCEPT !.slot[s].attempts = @ - 1]
<1>1. s \in Slots /\ r \in SlotType /\ Proper(r)
  BY RequestedIsProper
<1>2. n \in Nat /\ n <= MaxAttempts
  BY <1>1, BudgetAssumption DEF SlotType, Proper
<1>3. "awaiting" \in SlotState
  BY DEF SlotState
<1>4. /\ Touches(b, e, {s}) /\ e.slot[s] \in SlotType /\ e.slot[s].state = "awaiting"
      /\ e.slot[s].pending = ("awaiting" = "ready") /\ e.slot[s].wait = "none"
      /\ e.slot[s].bound = 0 /\ e.slot[s].attempts = r.attempts
      /\ e.slot[s].probes = r.probes
  BY <1>1, <1>3, ChangeTouches
<1> HIDE DEF e
<1>5. e \in Blob /\ c = With(e, s, q)
  <2>1. e \in Blob
    BY <1>4 DEF Touches
  <2> QED BY <1>1, <1>4, <2>1 DEF With, Blob, SlotType
<1> HIDE DEF n
<1>6. /\ q \in SlotType /\ q.state = "awaiting" /\ q.pending = ("awaiting" = "ready")
      /\ q.wait = "none" /\ q.bound = 0 /\ q.attempts = n /\ q.probes = r.probes
  BY <1>2, <1>4 DEF SlotType
<1>7. (q.bound # 0) = (q.state \in {"ready", "relaying", "recovering"})
  BY <1>6
<1>8. Proper(q)
  BY <1>1, <1>2, <1>6, <1>7 DEF Proper
<1>9. r.state \notin Done
  BY DEF Done
<1> HIDE DEF q, c
<1>10. Touches(e, c, {s}) /\ c.slot[s] = q
  BY <1>1, <1>5, <1>6, SlotTouches
<1>11. Touches(b, c, {s})
  BY <1>4, <1>10 DEF Touches
<1>12. Amends(b, c)
  BY <1>8, <1>9, <1>10, <1>11, TouchesOne
<1>13. \A t \in Slots \ {s} : c.slot[t].attempts = b.slot[t].attempts
  BY <1>11 DEF Touches
<1> QED BY <1>6, <1>10, <1>12, <1>13 DEF c, e, n

LEMMA RecordsGood ==
    ASSUME IInv, WorkerRecords
    PROVE  Good
<1> DEFINE s == job.slot
           b == ram.blob
           r == job.result
           left == b.slot[s].attempts < MaxAttempts
           kept == [b EXCEPT !.slot[s].state = "ready", !.slot[s].pending = TRUE]
<1>1. /\ Working /\ pc["worker"] = "result" /\ job' = NoJob
      /\ pc["worker"] \in Held /\ pc["worker"] # "relay"
  BY DEF WorkerRecords, Held
<1>2. CASE ~Relaying
  <2>1. Goto("worker", "top") /\ UNCHANGED <<nvs, ram, vol, ctl, hist>>
    BY <1>2 DEF WorkerRecords
  <2>2. ctl' \in CtlType /\ Calm
    BY <2>1, CalmHere DEF IInv, Typed
  <2> QED BY <1>1, <2>1, <2>2, WorkerDrops
<1>3. CASE Relaying
  <2> DEFINE c == Resulting(s)
             h == IF IsFresh(s, "reserve") THEN vol[s].heard ELSE vol[s].heard \ {"ready"}
             v == [vol[s] EXCEPT !.ready = "recent", !.heard = h]
             where == IF c.slot[s].state \in Terminal THEN "reprompt" ELSE "top"
  <2>1. PICK w \in Outcomes(c) :
          /\ SaveOrClose(w, c)
          /\ vol' = IF ~w.ok THEN vol
                    ELSE IF c.slot[s].state # "ready"
                    THEN [vol EXCEPT ![s] = ClearBindings(@)]
                    ELSE [vol EXCEPT ![s] = v]
          /\ Goto("worker", where)
    BY <1>3 DEF WorkerRecords
  <2>2. /\ Active /\ b \in Blob /\ Sound(b) /\ s \in b.mask /\ s \in Slots
        /\ b.slot[s] \in SlotType /\ vol[s] \in VolType
        /\ b.slot[s].state = "relaying" /\ b.slot[s].state \notin Done /\ ram.loaded
    BY <1>1, <1>3, JobSlot DEF Relaying
  <2>3. where \in {"top", "reprompt"}
    OBVIOUS
  <2>4. world' = world /\ ask' \in AskType
    BY <1>1 DEF Working, IInv, Typed, AskType
  <2>5. VolFalls
    <3>1. Typed /\ ident' = ident
      BY <1>1 DEF IInv, Working
    <3>2. v \in VolType /\ v.heard \subseteq vol[s].heard
      <4>1. h \in SUBSET Marks /\ h \subseteq vol[s].heard
        BY <2>2 DEF VolType
      <4> HIDE DEF h
      <4> QED BY <2>2, <4>1 DEF VolType
    <3>3. ClearBindings(vol[s]) \in VolType
          /\ ClearBindings(vol[s]).heard \subseteq vol[s].heard
      BY <2>2, VolFields
    <3> HIDE DEF v, c
    <3>4. CASE vol' = vol
      BY <3>1, <3>4, VolStays
    <3>5. CASE vol' = [vol EXCEPT ![s] = ClearBindings(vol[s])]
      BY <2>2, <3>1, <3>3, <3>5, VolOne
    <3>6. CASE vol' = [vol EXCEPT ![s] = v]
      BY <2>2, <3>1, <3>2, <3>6, VolOne
    <3> QED BY <2>1, <3>4, <3>5, <3>6
  <2>6. r \in {"busy", "changed", "ok", "retry", "refused"}
    BY <1>1 DEF IInv, Jobs, Typed, Results
  <2> HIDE DEF where
  <2>7. CASE r \in {"busy", "changed"}
    <3>1. Unspent
      BY <1>1, <2>7 DEF Unspent
    <3>2. /\ Amends(b, c) /\ c.slot[s].attempts = b.slot[s].attempts - 1
          /\ \A t \in Slots \ {s} : c.slot[t].attempts = b.slot[t].attempts
      <4>1. CASE r = "busy"
        <5>1. c = GiveBack(s)
          BY <4>1 DEF Resulting
        <5> QED BY <1>1, <1>3, <5>1, GiveBackAmends
      <4>2. CASE r = "changed"
        <5> DEFINE e == [Change(b, s, "awaiting") EXCEPT !.slot[s].attempts = @ - 1]
        <5>1. c = e
          BY <4>2 DEF Resulting
        <5>2. /\ Amends(b, e) /\ e.slot[s].attempts = b.slot[s].attempts - 1
              /\ \A t \in Slots \ {s} : e.slot[t].attempts = b.slot[t].attempts
          BY <2>2, ChangedAmends
        <5> HIDE DEF c, e
        <5> QED BY <5>1, <5>2
      <4> QED BY <2>7, <4>1, <4>2
    <3> HIDE DEF c
    <3>3. Put(c)
      BY <2>1, <2>2, <3>2, CampaignGen, SavedPuts DEF IInv, Amends
    <3> QED BY <1>1, <1>3, <2>1, <2>3, <2>5, <3>1, <3>2, <3>3, ReturnGood
  <2>8. CASE r \in {"ok", "retry", "refused"}
    <3>1. Amends(b, c) /\ SameAttempts(b, c)
      <4>1. CASE c = kept
        <5>1. Amends(b, kept) /\ SameAttempts(b, kept)
          BY <2>2, KeptAmends
        <5> HIDE DEF kept, c
        <5> QED BY <4>1, <5>1
      <4>2. CASE \E st \in {"converged", "failed", "refused"} : c = Change(b, s, st)
        BY <2>2, <4>2, ChangeAmends, SMTT(60)
      <4>3. c = kept \/ \E st \in {"converged", "failed", "refused"} : c = Change(b, s, st)
        BY <2>8, ZenonT(60) DEF Resulting
      <4> QED BY <4>1, <4>2, <4>3
    <3> HIDE DEF c
    <3> QED BY <1>1, <2>1, <2>2, <2>3, <2>4, <2>5, <3>1, WorkerWrites
  <2> QED BY <2>6, <2>7, <2>8
<1> QED BY <1>2, <1>3

-----------------------------------------------------------------------------
(* Boot and crash.                                                         *)
LEMMA VolCleared ==
    /\ Unbound \in VolType /\ Unbound.heard = {}
    /\ Floored \in [Slots -> VolType] /\ \A s \in Slots : Floored[s].heard = {}
    /\ Typed => /\ NoFloors \in [Slots -> VolType]
                /\ \A s \in Slots : NoFloors[s].heard \subseteq vol[s].heard
<1>1. Unbound \in VolType /\ Unbound.heard = {}
  BY DEF Unbound, VolType
<1>2. Floored \in [Slots -> VolType] /\ \A s \in Slots : Floored[s].heard = {}
  BY <1>1 DEF Floored
<1>3. ASSUME Typed, NEW s \in Slots
      PROVE  /\ [Unbound EXCEPT !.heard = vol[s].heard \cap {"floor"}] \in VolType
             /\ [Unbound EXCEPT !.heard = vol[s].heard \cap {"floor"}].heard
                   \subseteq vol[s].heard
  <2> DEFINE h == vol[s].heard \cap {"floor"}
  <2>1. h \in SUBSET Marks /\ h \subseteq vol[s].heard
    BY <1>3 DEF Typed, VolType
  <2> HIDE DEF h
  <2>2. [Unbound EXCEPT !.heard = h] \in VolType /\ [Unbound EXCEPT !.heard = h].heard = h
    BY <1>1, <2>1 DEF VolType
  <2> QED BY <2>1, <2>2 DEF h
<1>4. Typed => /\ NoFloors \in [Slots -> VolType]
               /\ \A s \in Slots : NoFloors[s].heard \subseteq vol[s].heard
  BY <1>3 DEF NoFloors
<1> QED BY <1>1, <1>2, <1>4

LEMMA NoRecord ==
    /\ NoBlob \in Blob /\ NoBlob.gen = 0 /\ NotedInvalid \in RamType
    /\ ~NotedInvalid.loaded /\ ~NotedInvalid.uncertain /\ NotedInvalid.blob = NoBlob
    /\ NoManifest \in [gen : Nat, mask : SUBSET Slots] /\ NoManifest.gen = 0
<1>1. Slot("excluded") \in SlotType
  BY DEF Slot, SlotType, SlotState, Terminal
<1>2. NoBlob \in Blob /\ NoBlob.gen = 0
  BY <1>1 DEF NoBlob, Blob
<1>3. /\ NotedInvalid \in RamType
      /\ ~NotedInvalid.loaded /\ ~NotedInvalid.uncertain /\ NotedInvalid.blob = NoBlob
  BY <1>2 DEF NotedInvalid, RamType
<1>4. NoManifest \in [gen : Nat, mask : SUBSET Slots] /\ NoManifest.gen = 0
  BY DEF NoManifest
<1> QED BY <1>2, <1>3, <1>4

LEMMA InitPlaces ==
    /\ InitPc \in [Tasks -> Places] /\ InitPc["main"] = "boot"
    /\ InitPc["worker"] = "blocked" /\ InitCtl \in CtlType /\ InitCtl.op = "none"
    /\ NoJob \in [slot : Slots \cup {"none"}, gen : Nat, result : Results]
    /\ NoJob.gen = 0 /\ NoAsk \in [ident : SUBSET Slots, gen : Nat]
<1>1. /\ InitPc \in [Tasks -> Places] /\ InitPc["main"] = "boot"
      /\ InitPc["worker"] = "blocked"
  BY DEF InitPc, Tasks, Places, Slots
<1>2. InitCtl \in CtlType /\ InitCtl.op = "none"
  BY DEF InitCtl, CtlType
<1>3. /\ NoJob \in [slot : Slots \cup {"none"}, gen : Nat, result : Results]
      /\ NoJob.gen = 0 /\ NoAsk \in [ident : SUBSET Slots, gen : Nat]
  BY DEF NoJob, Results, NoAsk
<1> QED BY <1>1, <1>2, <1>3

LEMMA CrashGood ==
    ASSUME IInv, Crash
    PROVE  Good
<1>1. /\ nvs' = nvs /\ ram' = NotedInvalid /\ pc' = InitPc /\ ctl' = InitCtl
      /\ job' = NoJob /\ ask' = [t \in Tasks |-> NoAsk]
      /\ vol' = [s \in Slots |-> Unbound]
      /\ ident' = [s \in Slots |-> [hw |-> 0, ver |-> "old"]]
      /\ hist' = [hist EXCEPT !.crashes = @ - 1]
      /\ \/ world' = world
         \/ ctl.op = "relay" /\ world' = [world EXCEPT ![job.slot].ver = "target"]
  BY DEF Crash
<1>2. hist' \in HistType /\ hist'.gen = hist.gen /\ hist'.sent = hist.sent
  <2>1. hist \in HistType /\ hist' = [hist EXCEPT !.crashes = @ - 1]
    BY <1>1 DEF IInv, Typed
  <2> QED BY <2>1 DEF HistType
<1>3. world' \in Worlds
  <2>1. world \in Worlds
    BY DEF IInv, Typed, Worlds
  <2>2. ctl.op = "relay" => job.slot \in Slots
    BY DEF IInv, Controls, Jobs, Held
  <2>3. "target" \in Versions
    BY DEF Versions
  <2> QED BY <1>1, <2>1, <2>2, <2>3 DEF Worlds
<1>4. Typed'
  <2>1. vol' \in [Slots -> VolType]
    BY <1>1, VolCleared
  <2>2. ident' \in [Slots -> [hw : Nat, ver : Versions]]
    BY <1>1 DEF Versions, Older
  <2> QED BY <1>1, <1>2, <1>3, <2>1, <2>2, NoRecord, InitPlaces DEF IInv, Typed, Worlds
<1>5. Records' /\ KeepsDone
  BY <1>1, NoRecord DEF IInv, Records, KeepsDone
<1>6. Generations'
  BY <1>1, <1>2, <1>4, NoRecord, InitPlaces
     DEF IInv, Generations, Staged, Typed, HistType
<1>7. Sending'
  <2>1. \A s \in Slots : ~Reserved(s)'
    BY <1>1, InitPlaces DEF Reserved, Unspent
  <2>2. \A s \in Slots : Due(s)' <= Due(s) /\ Due(s) \in Nat /\ Due(s)' \in Nat
    BY <1>2, <1>4, <2>1, DueFalls DEF IInv
  <2>3. \A s \in Slots : nvs.blob.slot[s].attempts \in Nat
    BY DEF IInv, Typed, NvsType, Blob, SlotType
  <2>4. Covers(nvs.blob) => Covers(nvs.blob)'
    BY <1>1, <2>2, <2>3 DEF Covers
  <2> QED BY <1>1, <1>2, <2>1, <2>4, NoRecord DEF IInv, Sending
<1>8. Controls' /\ Jobs' /\ Heard'
  <2>1. Controls'
    BY <1>1, NoRecord, InitPlaces, ScenarioAssumption DEF Controls, Permitted, Stages
  <2>2. Jobs'
    BY <1>1, <1>2, <1>4, InitPlaces DEF Jobs, Held, Stages, Typed, HistType
  <2>3. Heard'
    BY <1>1, VolCleared DEF Heard
  <2> QED BY <2>1, <2>2, <2>3
<1> QED BY <1>4, <1>5, <1>6, <1>7, <1>8 DEF IInv, Good

\* Before the campaign is restored the worker holds no attempt of it.
LEMMA UnreservedAtBoot ==
    ASSUME IInv, pc["main"] = "boot", nvs.manifest.gen # 0, NEW s \in Slots
    PROVE  ~ram.loaded /\ ~Reserved(s) /\ Due(s) = hist.sent[s]
<1>1. ~ram.loaded /\ ~Reserved(s)
  BY DEF IInv, Generations, Sending
<1>2. hist.sent[s] \in Nat
  BY DEF IInv, Typed, HistType
<1> QED BY <1>1, <1>2 DEF Due

\* A step of the restore: the main task moves on, the others do not.
LEMMA BootFrame ==
    ASSUME IInv, pc["main"] = "boot", NEW where \in {"reprompt", "failed", "idle", "abort"},
           Booted(where), hist'.gen = hist.gen, ctl'.op = ctl.op, Permitted'
    PROVE  /\ pc' \in [Tasks -> Places] /\ pc'["main"] = where
           /\ pc'["worker"] = pc["worker"] /\ Controls' /\ Jobs'
<1>1. "worker" \in Tasks /\ "main" \in Tasks
  BY DEF Tasks
<1>2. /\ pc' \in [Tasks -> Places] /\ pc'["main"] = where
      /\ pc'["worker"] = pc["worker"] /\ job' = job
  BY <1>1 DEF IInv, Typed, Booted, Goto, Places
<1>3. where \notin Stages /\ pc["main"] \notin Stages
  BY DEF Stages
<1>4. Controls' /\ Jobs'
  BY <1>2, <1>3 DEF IInv, Controls, Jobs
<1> QED BY <1>2, <1>4

LEMMA RestoreNothingGood ==
    ASSUME IInv, RestoreNothing
    PROVE  Good
<1>1. /\ pc["main"] = "boot" /\ nvs.manifest.gen = 0 /\ ram' = NotedInvalid
      /\ ctl' = Reconcile(ram', ctl) /\ vol' = NoFloors /\ Booted("idle")
      /\ nvs' = nvs /\ hist' = hist
  BY DEF RestoreNothing
<1>2. ctl' \in CtlType /\ ctl'.op = ctl.op /\ Permitted'
  <2>1. ram' \in RamType /\ ctl \in CtlType
    BY <1>1, NoRecord DEF IInv, Typed
  <2> QED BY <1>1, <2>1, ReconcileKeeps DEF Permitted
<1>3. pc' \in [Tasks -> Places] /\ pc'["main"] = "idle" /\ Controls' /\ Jobs'
  BY <1>1, <1>2, BootFrame
<1>4. VolFalls
  BY <1>1, VolCleared DEF VolFalls, IInv, Booted
<1>5. Typed'
  BY <1>1, <1>2, <1>3, <1>4, NoRecord DEF IInv, Typed, VolFalls, Booted
<1>6. Records' /\ KeepsDone
  BY <1>1, NoRecord DEF IInv, Records, KeepsDone
<1>7. Generations'
  BY <1>1, <1>3, <1>5, NoRecord DEF IInv, Generations, Staged, Typed, HistType
<1>8. Sending'
  BY <1>1 DEF IInv, Sending
<1> QED BY <1>3, <1>4, <1>5, <1>6, <1>7, <1>8, VolKeeps DEF IInv, Good

LEMMA RestoreRefusedGood ==
    ASSUME IInv, RestoreRefused
    PROVE  Good
<1>1. /\ pc["main"] = "boot" /\ nvs.manifest.gen # 0
      /\ ram' = [ram EXCEPT !.uncertain = TRUE]
      /\ ctl' = [ctl EXCEPT !.inhibit = TRUE]
      /\ Booted("failed") /\ UNCHANGED <<nvs, vol>>
      /\ hist' = hist \/ hist' = [hist EXCEPT !.faults = @ - 1]
  BY DEF RestoreRefused, Refuse
<1>2. hist' \in HistType /\ hist'.gen = hist.gen /\ hist'.sent = hist.sent
  <2>1. hist \in HistType /\ hist.faults - 1 \in Int
    BY DEF IInv, Typed, HistType
  <2>2. CASE hist' = hist
    BY <2>1, <2>2
  <2>3. CASE hist' = [hist EXCEPT !.faults = @ - 1]
    BY <2>1, <2>3 DEF HistType
  <2> QED BY <1>1, <2>2, <2>3
<1>3. /\ ctl' \in CtlType /\ ctl'.op = ctl.op /\ ctl'.inhibit = TRUE
      /\ ram' \in RamType /\ ram'.loaded = ram.loaded /\ ram'.blob = ram.blob
  BY <1>1 DEF IInv, Typed, CtlType, RamType
<1>4. ~ram.loaded
  BY <1>1 DEF IInv, Generations
<1>5. /\ pc' \in [Tasks -> Places] /\ pc'["main"] = "failed"
      /\ pc'["worker"] = pc["worker"] /\ Controls' /\ Jobs'
  BY <1>1, <1>2, <1>3, BootFrame DEF Permitted
<1>6. VolFalls
  BY <1>1, VolStays DEF IInv, Booted
<1>7. Typed'
  BY <1>1, <1>2, <1>3, <1>5, <1>6 DEF IInv, Typed, VolFalls, Booted
<1>8. Records' /\ KeepsDone
  BY <1>1, <1>3, <1>4 DEF IInv, Records, KeepsDone
<1>9. Generations'
  BY <1>1, <1>2, <1>3, <1>4, <1>5 DEF IInv, Generations, Staged, Stages
<1>10. Sending'
  <2>1. \A s \in Slots : Reserved(s)' = Reserved(s)
    BY <1>1, <1>5 DEF Reserved, Unspent, Booted
  <2>2. \A s \in Slots : Due(s)' = Due(s)
    BY <1>2, <2>1 DEF Due
  <2> QED BY <1>1, <1>2, <1>3, <1>4, <2>1, <2>2 DEF IInv, Sending, Covers
<1> QED BY <1>5, <1>6, <1>7, <1>8, <1>9, <1>10, VolKeeps DEF IInv, Good

\* What a record must be for the restore to hold it.
Holds(b, m) == b.gen = m.gen /\ (b.closed \/ b.mask = m.mask)
Owed(b) == \A s \in Slots : hist.sent[s] <= b.slot[s].attempts

\* A write of the restore.
LEMMA BootWrites ==
    ASSUME IInv, pc["main"] = "boot", nvs.manifest.gen # 0,
           NEW w \in WriteType, NEW r \in RamType, NEW k \in CtlType, k.op = ctl.op,
           NEW m \in {nvs.manifest, NoManifest}, StoredUnder(w, r, k, m),
           NEW where \in {"reprompt", "failed", "idle", "abort"}, Booted(where),
           vol' = Floored,
           Readable(w.blob), w.blob.gen <= hist.gen, r.blob.gen <= hist.gen,
           IF r.loaded THEN Sound(r.blob) /\ (w.ok => w.blob = r.blob)
           ELSE r.blob = NoBlob,
           r.loaded => m.gen = 0 \/ (Holds(r.blob, m) /\ Owed(r.blob)),
           r.loaded \/ m.gen = 0 \/ where = "failed",
           m.gen # 0 /\ w.blob.gen = m.gen => Owed(w.blob),
           w.blob.gen = 0 => nvs.blob.gen = 0
    PROVE  IInv'
<1>1. m \in [gen : Nat, mask : SUBSET Slots] /\ m.gen <= hist.gen
      /\ (m.gen # 0 => m = nvs.manifest /\ m.mask # {})
  <2>1. nvs.manifest \in [gen : Nat, mask : SUBSET Slots] /\ hist.gen \in Nat
    BY DEF IInv, Typed, NvsType, HistType
  <2> QED BY <2>1, NoRecord DEF IInv, Generations, Records
<1>2. Left(w, r, k, m)
  BY <1>1, StoredLeaves DEF IInv
<1>3. /\ pc' \in [Tasks -> Places] /\ pc'["main"] = where
      /\ pc'["worker"] = pc["worker"] /\ Controls' /\ Jobs'
  BY <1>2, BootFrame DEF Left
<1>4. VolFalls
  BY VolCleared DEF VolFalls, Booted
<1>5. Typed'
  BY <1>2, <1>3, <1>4 DEF IInv, Typed, Left, VolFalls, Booted
<1>6. /\ nvs'.manifest = m /\ nvs'.blob = w.blob /\ ram'.loaded = r.loaded
      /\ ram'.blob = r.blob /\ ram'.uncertain = ~w.ok
      /\ hist'.gen = hist.gen /\ hist'.sent = hist.sent /\ w.ok \in BOOLEAN
  BY <1>2 DEF Left, WriteType
<1>7. Records'
  <2>1. ram'.loaded /\ ~ram'.uncertain => nvs'.blob = ram'.blob
    BY <1>6
  <2>2. IF ram'.loaded THEN Sound(ram'.blob) ELSE ram'.blob = NoBlob
    BY <1>6
  <2>3. Readable(nvs'.blob) /\ (nvs'.manifest.gen # 0 => nvs'.manifest.mask # {})
    BY <1>1, <1>6
  <2> QED BY <2>1, <2>2, <2>3 DEF Records
<1>8. Generations'
  <2>1. ram'.loaded => nvs'.manifest.gen = 0 \/ Matches(ram.blob)'
    BY <1>6 DEF Matches, Holds
  <2>2. Staged'
    BY <1>3 DEF Staged
  <2> QED BY <1>1, <1>3, <1>6, <2>1, <2>2 DEF Generations
<1>9. Sending'
  <2>1. ASSUME m.gen # 0, NEW s \in Slots
        PROVE  ~Reserved(s)' /\ Due(s)' = hist.sent[s]
    <3>1. ~Reserved(s)'
      BY <1>1, <1>3, <1>6, <2>1, UnreservedAtBoot DEF Reserved, Unspent, Booted
    <3>2. hist.sent[s] \in Nat
      BY DEF IInv, Typed, HistType
    <3> QED BY <1>6, <3>1, <3>2 DEF Due
  <2>2. m.gen # 0 /\ ram'.loaded => Covers(ram.blob)'
    BY <1>6, <2>1 DEF Covers, Owed
  <2>3. m.gen # 0 /\ nvs'.blob.gen = m.gen => Covers(nvs.blob)'
    BY <1>6, <2>1 DEF Covers, Owed
  <2> QED BY <1>6, <2>1, <2>2, <2>3 DEF IInv, Sending
<1> QED BY <1>3, <1>4, <1>5, <1>7, <1>8, <1>9, VolKeeps DEF IInv

\* The committed manifest is the journal: a fresh record, or a closed one.
LEMMA FromManifestGood ==
    ASSUME IInv, RestoreFromManifest
    PROVE  Good
<1> DEFINE g == nvs.manifest.gen
           mask == nvs.manifest.mask
           c == Fresh(g, mask)
           d == Closed(g)
<1>1. pc["main"] = "boot" /\ g # 0 /\ nvs.blob.gen = 0 /\ vol' = Floored
  BY DEF RestoreFromManifest
<1>2. g \in Nat \ {0} /\ mask \in (SUBSET Slots) \ {{}} /\ g <= hist.gen /\ Typed
      /\ nvs.manifest \in {nvs.manifest, NoManifest} /\ NoManifest.gen = 0
  BY <1>1, NoRecord DEF IInv, Typed, NvsType, Records, Generations
<1>3. /\ c \in Blob /\ Sound(c) /\ Readable(c) /\ c.gen = g /\ c.mask = mask
      /\ \A s \in Slots : c.slot[s].attempts = 0
  BY <1>2, FreshSound
<1>4. /\ d \in Blob /\ Sound(d) /\ Readable(d) /\ d.gen = g /\ d.closed
      /\ \A s \in Slots : d.slot[s].attempts = MaxAttempts
  BY <1>2, ClosedSound
<1>5. Owed(c) /\ Owed(d) /\ Holds(c, nvs.manifest) /\ Holds(d, nvs.manifest)
  <2>1. \A s \in Slots : hist.sent[s] = 0
    BY <1>1 DEF IInv, Sending
  <2>2. Owed(c) /\ Owed(d)
    BY <1>3, <1>4, <2>1, BudgetAssumption DEF Owed
  <2> QED BY <1>3, <1>4, <2>2 DEF Holds
<1>6. Holding(d) \in RamType /\ Holding(d).loaded /\ Holding(d).blob = d
      /\ Holding(c) \in RamType /\ Holding(c).loaded /\ Holding(c).blob = c
      /\ ctl \in CtlType
  BY <1>2, <1>3, <1>4, HoldingOf DEF Typed
<1> HIDE DEF c, d
<1>7. PICK w \in Outcomes(c) :
        IF w.ok THEN Stored(w, Holding(w.blob), ctl) /\ Booted("reprompt")
        ELSE \/ /\ \E v \in Closings(w, g) : Stored(v, Holding(d), ctl)
                /\ Booted("failed")
             \/ /\ StoredUnder([w EXCEPT !.ok = TRUE, !.blob = d],
                                Holding(d), ctl, NoManifest)
                /\ Booted("idle")
  BY DEF RestoreFromManifest, c, d
<1>8. w \in WriteType /\ w.blob \in {nvs.blob, c} /\ (w.ok => w.blob = c)
  BY <1>2, <1>3, OutcomeOf
<1>9. Readable(nvs.blob) /\ nvs.blob.gen <= hist.gen
  BY DEF IInv, Records, Generations
<1>10. CASE w.ok
  <2>1. StoredUnder(w, Holding(c), ctl, nvs.manifest) /\ Booted("reprompt") /\ w.blob = c
    BY <1>7, <1>8, <1>10 DEF Stored
  <2>2. IInv'
    BY <1>1, <1>2, <1>3, <1>5, <1>6, <1>8, <2>1, BootWrites
  <2>3. nvs'.blob.gen # nvs.blob.gen
    BY <1>1, <1>2, <1>3, <2>1 DEF StoredUnder
  <2> QED BY <2>2, <2>3 DEF Good, KeepsDone
<1>11. CASE ~w.ok /\ Booted("failed") /\ \E v \in Closings(w, g) : Stored(v, Holding(d), ctl)
  <2>1. PICK v \in Closings(w, g) : Stored(v, Holding(d), ctl)
    BY <1>11
  <2>2. v \in WriteType /\ v.blob \in {nvs.blob, c, d} /\ (v.ok => v.blob = d)
    BY <1>2, <1>8, <1>11, <2>1, ClosingOf DEF d
  <2>3. StoredUnder(v, Holding(d), ctl, nvs.manifest)
    BY <2>1 DEF Stored
  <2>4. /\ Readable(v.blob) /\ v.blob.gen <= hist.gen
        /\ (nvs.manifest.gen # 0 /\ v.blob.gen = nvs.manifest.gen => Owed(v.blob))
    BY <1>1, <1>2, <1>3, <1>4, <1>5, <1>9, <2>2
  <2>5. IInv'
    BY <1>1, <1>2, <1>4, <1>5, <1>6, <1>11, <2>2, <2>3, <2>4, BootWrites
  <2>6. nvs'.blob.gen # nvs.blob.gen \/ nvs'.blob = nvs.blob
    BY <1>1, <1>2, <1>3, <1>4, <2>2, <2>3 DEF StoredUnder
  <2> QED BY <2>5, <2>6 DEF Good, KeepsDone
<1>12. CASE /\ StoredUnder([w EXCEPT !.ok = TRUE, !.blob = d], Holding(d), ctl, NoManifest)
            /\ Booted("idle")
  <2> DEFINE v == [w EXCEPT !.ok = TRUE, !.blob = d]
  <2>1. v \in WriteType /\ v.blob = d /\ StoredUnder(v, Holding(d), ctl, NoManifest)
    BY <1>4, <1>8, <1>12 DEF WriteType
  <2> HIDE DEF v
  <2>2. IInv'
    BY <1>1, <1>2, <1>4, <1>5, <1>6, <1>12, <2>1, BootWrites
  <2>3. nvs'.blob.gen # nvs.blob.gen
    BY <1>1, <1>2, <1>4, <2>1 DEF StoredUnder
  <2> QED BY <2>2, <2>3 DEF Good, KeepsDone
<1> QED BY <1>7, <1>8, <1>10, <1>11, <1>12 DEF WriteType

LEMMA FromRecordGood ==
    ASSUME IInv, RestoreRecord
    PROVE  Good
<1> DEFINE o == nvs.blob
           b == IF o.schema = 2 THEN Migrated(o) ELSE Restored(o)
           k == [ctl EXCEPT !.running = FALSE]
<1>1. pc["main"] = "boot" /\ nvs.manifest.gen # 0 /\ o.gen # 0 /\ Matches(o)
      /\ vol' = Floored
  BY DEF RestoreRecord
<1>2. PICK w \in (IF b # o THEN Outcomes(b)
                  ELSE {[ok |-> TRUE, blob |-> b, faults |-> 0]}) :
        /\ Stored(w, IF ~w.ok /\ o.schema = 2 THEN NotedInvalid ELSE Holding(b), k)
        /\ Booted(IF ~w.ok THEN "failed" ELSE IF b.closed THEN "idle" ELSE "abort")
  BY DEF RestoreRecord
<1>3. Typed /\ o \in Blob /\ Readable(o) /\ o.gen <= hist.gen
      /\ nvs.manifest \in {nvs.manifest, NoManifest}
  BY DEF IInv, Typed, NvsType, Records, Generations
<1>4. /\ b \in Blob /\ Sound(b) /\ b.gen = o.gen /\ b.mask = o.mask /\ b.closed = o.closed
      /\ \A s \in Slots : /\ b.slot[s].attempts = o.slot[s].attempts
                          /\ o.slot[s].state \in Done => b.slot[s].state = o.slot[s].state
  <2>1. CASE o.schema = 2
    BY <1>1, <1>3, <2>1, MigratedKeeps DEF Readable
  <2>2. CASE o.schema # 2
    <3>1. Sound(o)
      BY <1>1, <1>3, <2>2 DEF Readable
    <3> QED BY <1>3, <2>2, <3>1, RestoredAmends DEF Amends
  <2> QED BY <2>1, <2>2
<1> HIDE DEF b
<1>5. Readable(b)
  BY <1>4 DEF Readable, Sound
<1>6. w \in WriteType /\ w.blob \in {o, b} /\ (w.ok => w.blob = b)
  <2>1. CASE b # o
    BY <1>2, <1>3, <1>4, <2>1, OutcomeOf
  <2>2. CASE b = o
    <3>1. w = [ok |-> TRUE, blob |-> b, faults |-> 0]
      BY <1>2, <2>2
    <3> QED BY <1>4, <3>1 DEF WriteType
  <2> QED BY <2>1, <2>2
<1> DEFINE r == IF ~w.ok /\ o.schema = 2 THEN NotedInvalid ELSE Holding(b)
           where == IF ~w.ok THEN "failed" ELSE IF b.closed THEN "idle" ELSE "abort"
<1>7. k \in CtlType /\ k.op = ctl.op
  BY <1>3 DEF Typed, CtlType
<1>8. /\ r \in RamType /\ (r.loaded => r.blob = b)
      /\ (~r.loaded => r.blob = NoBlob /\ ~w.ok)
  BY <1>3, <1>4, HoldingOf, NoRecord
<1>9. /\ where \in {"reprompt", "failed", "idle", "abort"} /\ Booted(where)
      /\ (~w.ok => where = "failed")
  BY <1>2
<1>10. StoredUnder(w, r, k, nvs.manifest)
  BY <1>2 DEF Stored
<1> HIDE DEF r, where, k
<1>11. Owed(o) /\ Owed(b)
  <2>1. nvs.manifest.gen = o.gen
    BY <1>1 DEF Matches
  <2>2. Covers(o)
    BY <1>1, <2>1 DEF IInv, Sending
  <2>3. Owed(o)
    BY <1>1, <2>2, UnreservedAtBoot DEF Covers, Owed
  <2> QED BY <1>4, <2>3 DEF Owed
<1>12. Holds(b, nvs.manifest)
  BY <1>1, <1>4 DEF Holds, Matches
<1>13. /\ Readable(w.blob) /\ w.blob.gen = o.gen /\ Owed(w.blob) /\ w.blob.gen <= hist.gen
  BY <1>3, <1>4, <1>5, <1>6, <1>11
<1>14. /\ r.blob.gen <= hist.gen
       /\ IF r.loaded THEN Sound(r.blob) /\ (w.ok => w.blob = r.blob)
          ELSE r.blob = NoBlob
       /\ r.loaded => Holds(r.blob, nvs.manifest) /\ Owed(r.blob)
       /\ r.loaded \/ where = "failed"
  <2>1. NoBlob.gen = 0 /\ hist.gen \in Nat /\ 0 <= hist.gen
    BY <1>3, NoRecord DEF Typed, HistType
  <2> QED BY <1>3, <1>4, <1>6, <1>8, <1>9, <1>11, <1>12, <2>1
<1>15. IInv'
  BY <1>1, <1>3, <1>6, <1>7, <1>8, <1>9, <1>10, <1>13, <1>14, BootWrites
<1>16. nvs'.blob = w.blob
  BY <1>10 DEF StoredUnder
<1> QED BY <1>4, <1>6, <1>15, <1>16 DEF Good, KeepsDone

LEMMA BeginRecoveryGood ==
    ASSUME IInv, BeginRecovery
    PROVE  Good
<1>1. /\ Typed /\ UNCHANGED <<nvs, ram, ident, world, ask, job, ctl, hist>>
      /\ pc["main"] = "abort" /\ Goto("main", "reprompt")
      /\ vol' = [s \in Slots |-> IF ram.blob.slot[s].state = "recovering"
                               THEN [vol[s] EXCEPT !.recover = "cooling"] ELSE vol[s]]
  BY DEF IInv, BeginRecovery
<1>2. "worker" \in Tasks /\ "main" \in Tasks
  BY DEF Tasks
<1>3. Frame
  BY <1>1, <1>2 DEF Typed, Goto, Places, Frame, Stages
<1>4. VolFalls
  <2>1. ASSUME NEW s \in Slots
        PROVE  /\ vol[s] \in VolType /\ [vol[s] EXCEPT !.recover = "cooling"] \in VolType
               /\ [vol[s] EXCEPT !.recover = "cooling"].heard = vol[s].heard
    <3>1. vol[s] \in VolType
      BY <1>1 DEF Typed
    <3> QED BY <3>1, VolFields
  <2> QED BY <1>1, <2>1 DEF VolFalls
<1>5. hist' \in HistType /\ world' \in Worlds /\ ask' \in AskType
  BY <1>1 DEF Typed, Worlds, AskType
<1> QED BY <1>1, <1>3, <1>4, <1>5, TaskRests

-----------------------------------------------------------------------------
(* Staging an image.                                                       *)
LEMMA StageFrame ==
    ASSUME IInv, NEW where \in {"idle", "staging", "gated", "final", "reprompt"},
           Staging(where)
    PROVE  /\ pc' \in [Tasks -> Places] /\ pc'["main"] = where
           /\ pc'["worker"] = pc["worker"] /\ UNCHANGED <<ident, ask, job>>
<1>1. "worker" \in Tasks /\ "main" \in Tasks
  BY DEF Tasks
<1> QED BY <1>1 DEF IInv, Typed, Staging, Goto, Places

\* The worker's part of the invariant while the main task stages.
LEMMA StageControls ==
    ASSUME IInv, NEW where \in {"idle", "staging", "gated", "final", "reprompt"},
           Staging(where), Permitted', ctl.op # "relay", ctl'.op # "relay",
           (where \in Stages) <=> (ctl'.op \in Channels),
           where \in Stages => ctl'.inhibit,
           hist.gen <= hist'.gen, hist'.gen \in Nat,
           where \in Stages => pc["main"] \in Stages \/ hist'.gen = hist.gen + 1
    PROVE  Controls' /\ Jobs'
<1>1. /\ pc'["main"] = where /\ pc'["worker"] = pc["worker"] /\ job' = job
  BY StageFrame
<1>2. Controls'
  BY <1>1 DEF IInv, Controls
<1>3. Jobs'
  <2>1. job.gen \in Nat /\ hist.gen \in Nat /\ job.gen <= hist.gen
    BY DEF IInv, Typed, HistType, Jobs
  <2>2. job.gen <= hist'.gen
    BY <2>1
  <2>3. where \in Stages => job.gen < hist'.gen
    BY <2>1 DEF IInv, Jobs
  <2> QED BY <1>1, <2>2, <2>3 DEF IInv, Jobs
<1> QED BY <1>2, <1>3

LEMMA StageBeginsGood ==
    ASSUME IInv, NEW channel \in Channels, StageBegins(channel)
    PROVE  Good
<1> DEFINE k == [ctl EXCEPT !.op = channel, !.inhibit = TRUE]
<1>1. /\ pc["main"] = "idle" /\ ctl.op = "none" /\ nvs' = Invalidated
      /\ ram' = NotedInvalid /\ vol' = NoFloors /\ ctl' = Reconcile(ram', k)
      /\ hist' = [hist EXCEPT !.stages = @ - 1, !.gen = @ + 1]
      /\ Staging("staging") /\ world' = world
  BY DEF StageBegins
<1>2. /\ pc' \in [Tasks -> Places] /\ pc'["main"] = "staging"
      /\ pc'["worker"] = pc["worker"] /\ UNCHANGED <<ident, ask, job>>
  BY <1>1, StageFrame
<1>3. /\ nvs' \in NvsType /\ nvs'.manifest = NoManifest /\ nvs'.blob = nvs.blob
  BY <1>1, NoRecord DEF IInv, Typed, NvsType, Invalidated
<1>4. channel # "none" /\ channel # "relay"
  BY ScenarioAssumption
<1>5. ctl' \in CtlType /\ ctl'.op = channel /\ Permitted' /\ ctl'.inhibit
  <2>1. k \in CtlType /\ k.op = channel /\ k.inhibit = TRUE
    BY DEF IInv, Typed, CtlType
  <2>2. ram' \in RamType
    BY <1>1, NoRecord
  <2> HIDE DEF k
  <2> QED BY <1>1, <1>4, <2>1, <2>2, ReconcileKeeps DEF Permitted
<1>6. /\ hist' \in HistType /\ hist'.gen = hist.gen + 1 /\ hist'.sent = hist.sent
      /\ hist.gen \in Nat
  <2>1. hist \in HistType /\ hist.stages - 1 \in Int /\ hist.gen + 1 \in Nat \ {0}
        /\ hist.gen \in Nat
    BY DEF IInv, Typed, HistType
  <2> QED BY <1>1, <2>1 DEF HistType
<1>7. VolFalls
  BY <1>1, <1>2, VolCleared DEF VolFalls, IInv
<1>8. Typed'
  BY <1>1, <1>2, <1>3, <1>5, <1>6, <1>7, NoRecord DEF IInv, Typed, VolFalls
<1>9. Records' /\ KeepsDone
  BY <1>1, <1>3, NoRecord DEF IInv, Records, KeepsDone
<1>10. Generations'
  <2>1. nvs.blob.gen \in Nat /\ nvs.blob.gen <= hist.gen
    BY DEF IInv, Typed, NvsType, Blob, Generations
  <2>2. nvs.blob.gen < hist.gen + 1 /\ nvs.blob.gen <= hist.gen + 1 /\ 0 <= hist.gen + 1
    BY <1>6, <2>1
  <2> QED BY <1>1, <1>2, <1>3, <1>6, <2>2, NoRecord DEF Generations, Staged, Unarmed
<1>11. Sending'
  BY <1>3, <1>6, NoRecord DEF IInv, Sending
<1>12. Controls' /\ Jobs'
  <2>1. hist.gen <= hist'.gen /\ hist'.gen \in Nat
    BY <1>6
  <2> QED BY <1>1, <1>4, <1>5, <1>6, <2>1, StageControls DEF Stages
<1> QED BY <1>7, <1>8, <1>9, <1>10, <1>11, <1>12, VolKeeps DEF IInv, Good

LEMMA StageBeginFailsGood ==
    ASSUME IInv, StageBeginFails
    PROVE  Good
<1> DEFINE k == [ctl EXCEPT !.inhibit = TRUE]
<1>1. /\ pc["main"] = "idle" /\ ctl.op = "none" /\ nvs' \in {nvs, Invalidated}
      /\ ctl' = Reconcile(ram, k) /\ hist' = [hist EXCEPT !.faults = @ - 1]
      /\ Staging("idle") /\ UNCHANGED <<ram, vol, world>>
  BY DEF StageBeginFails
<1>2. /\ pc' \in [Tasks -> Places] /\ pc'["main"] = "idle"
      /\ pc'["worker"] = pc["worker"] /\ UNCHANGED <<ident, ask, job>>
  BY <1>1, StageFrame
<1>3. /\ nvs' \in NvsType /\ nvs'.blob = nvs.blob
      /\ nvs'.manifest.gen = 0 \/ nvs'.manifest = nvs.manifest
  BY <1>1, NoRecord, SMTT(60) DEF IInv, Typed, NvsType, Invalidated
<1>4. ctl' \in CtlType /\ ctl'.op = "none" /\ Permitted'
  <2>1. k \in CtlType /\ k.op = "none"
    BY <1>1 DEF IInv, Typed, CtlType
  <2>2. ram \in RamType
    BY DEF IInv, Typed
  <2> HIDE DEF k
  <2> QED BY <1>1, <2>1, <2>2, ReconcileKeeps DEF Permitted
<1>5. /\ hist' \in HistType /\ hist'.gen = hist.gen /\ hist'.sent = hist.sent
      /\ hist.gen \in Nat
  <2>1. hist \in HistType /\ hist.gen \in Nat /\ hist' = [hist EXCEPT !.faults = @ - 1]
    BY <1>1 DEF IInv, Typed, HistType
  <2> QED BY <2>1 DEF HistType
<1>6. VolFalls
  BY <1>1, <1>2, VolStays DEF IInv
<1>7. Typed'
  BY <1>1, <1>2, <1>3, <1>4, <1>5, <1>6 DEF IInv, Typed, VolFalls
<1>8. Records' /\ KeepsDone
  BY <1>1, <1>3 DEF IInv, Records, KeepsDone
<1>9. Generations'
  <2>1. nvs'.manifest.gen <= hist.gen
    BY <1>3, <1>5 DEF IInv, Generations
  <2>2. ram.loaded => nvs'.manifest.gen = 0 \/ Matches(ram.blob)'
    BY <1>1, <1>3 DEF IInv, Generations, Matches
  <2>3. ~ram.loaded => nvs'.manifest.gen = 0
    BY <1>1, <1>3 DEF IInv, Generations
  <2> QED BY <1>1, <1>2, <1>3, <1>5, <2>1, <2>2, <2>3 DEF IInv, Generations, Staged
<1>10. Sending'
  <2>1. CASE nvs'.manifest.gen = 0
    BY <1>3, <1>5, <2>1 DEF IInv, Sending
  <2>2. CASE nvs'.manifest = nvs.manifest
    <3>1. \A s \in Slots : (Reserved(s)' <=> Reserved(s)) /\ Due(s)' = Due(s)
      BY <1>2, <1>5, <2>2 DEF Reserved, Unspent, Due
    <3> QED BY <1>1, <1>3, <1>5, <2>2, <3>1 DEF IInv, Sending, Covers
  <2> QED BY <1>3, <2>1, <2>2
<1>11. Controls' /\ Jobs'
  <2>1. hist.gen <= hist'.gen /\ hist'.gen \in Nat /\ "none" \notin Channels
    BY <1>5, ScenarioAssumption
  <2> QED BY <1>1, <1>4, <2>1, StageControls DEF Stages
<1> QED BY <1>6, <1>7, <1>8, <1>9, <1>10, <1>11, VolKeeps DEF IInv, Good

LEMMA StageAbortsGood ==
    ASSUME IInv, StageAborts
    PROVE  Good
<1> DEFINE k == [ctl EXCEPT !.op = "none"]
<1>1. /\ pc["main"] = "staging" /\ ctl' = Reconcile(ram, k)
      /\ Staging("idle") /\ UNCHANGED <<nvs, ram, vol, hist, world>>
  BY DEF StageAborts
<1>2. /\ pc' \in [Tasks -> Places] /\ pc'["main"] = "idle"
      /\ pc'["worker"] = pc["worker"] /\ UNCHANGED <<ident, ask, job>>
  BY <1>1, StageFrame
<1>3. ctl' \in CtlType /\ ctl'.op = "none" /\ Permitted'
  <2>1. k \in CtlType /\ k.op = "none"
    BY DEF IInv, Typed, CtlType
  <2>2. ram \in RamType
    BY DEF IInv, Typed
  <2> HIDE DEF k
  <2> QED BY <1>1, <2>1, <2>2, ReconcileKeeps DEF Permitted
<1>4. ctl.op \in Channels /\ nvs.manifest.gen = 0 /\ hist.gen \in Nat
  BY <1>1 DEF IInv, Controls, Stages, Generations, Staged, Typed, HistType
<1>5. VolFalls
  BY <1>1, <1>2, VolStays DEF IInv
<1>6. Typed'
  BY <1>1, <1>2, <1>3, <1>5 DEF IInv, Typed, VolFalls
<1>7. Records' /\ KeepsDone
  BY <1>1 DEF IInv, Records, KeepsDone
<1>8. Generations'
  BY <1>1, <1>2, <1>4 DEF IInv, Generations, Staged
<1>9. Sending'
  BY <1>1, <1>4 DEF IInv, Sending
<1>10. Controls' /\ Jobs'
  <2>1. hist.gen <= hist'.gen /\ hist'.gen \in Nat /\ "none" \notin Channels
        /\ "relay" \notin Channels
    BY <1>1, <1>4, ScenarioAssumption
  <2> QED BY <1>1, <1>3, <1>4, <2>1, StageControls DEF Stages
<1> QED BY <1>5, <1>6, <1>7, <1>8, <1>9, <1>10, VolKeeps DEF IInv, Good

\* A refused image: what the closed record leaves.
LEMMA DiscardGood ==
    ASSUME IInv, pc["main"] \in Stages, NEW w \in WriteType, Discard(hist.gen, w),
           Readable(w.blob), w.blob.gen \in {nvs.blob.gen, hist.gen},
           w.ok => w.blob = Closed(hist.gen),
           \/ w.blob = nvs.blob \/ w.blob.gen # nvs.blob.gen \/ w.blob.closed
           \/ \A s \in Slots : nvs.blob.slot[s].state \notin Done,
           VolFalls, world' = world
    PROVE  Good
<1> DEFINE g == hist.gen
           d == Closed(g)
           h == Holding(d)
           k == [ctl EXCEPT !.op = "none"]
<1>1. g \in Nat \ {0} /\ Typed
  BY DEF IInv, Typed, HistType
<1>2. /\ d \in Blob /\ Sound(d) /\ Readable(d) /\ d.gen = g /\ d.closed
  BY <1>1, ClosedSound
<1>3. h \in RamType /\ h.loaded /\ h.blob = d
  BY <1>1, <1>2, HoldingOf
<1>4. k \in CtlType /\ k.op = "none"
  BY <1>1 DEF Typed, CtlType
<1>5. PICK v \in Closings(w, g) : StoredUnder(v, h, k, NoManifest)
  BY DEF Discard
<1>6. v \in WriteType /\ v.blob \in {w.blob, d} /\ (v.ok => v.blob = d)
  <2>1. v \in WriteType /\ v.blob \in {w.blob, d} /\ (v.ok /\ ~w.ok => v.blob = d)
    BY <1>1, <1>5, ClosingOf
  <2> QED BY <2>1
<1>7. /\ pc' \in [Tasks -> Places] /\ pc'["main"] = "idle"
      /\ pc'["worker"] = pc["worker"] /\ UNCHANGED <<ident, ask, job>>
      /\ Staging("idle")
  BY StageFrame DEF Discard
<1> HIDE DEF d, h, k
<1>8. Left(v, h, k, NoManifest)
  BY <1>1, <1>3, <1>4, <1>5, <1>6, NoRecord, StoredLeaves
<1>9. /\ nvs'.manifest.gen = 0 /\ nvs'.blob = v.blob /\ ram'.loaded
      /\ ram'.blob = d /\ ram'.uncertain = ~v.ok /\ v.ok \in BOOLEAN
      /\ hist'.gen = g /\ hist'.sent = hist.sent
      /\ ctl'.op = "none" /\ Permitted'
  BY <1>3, <1>4, <1>6, <1>8, NoRecord DEF Left, WriteType
<1>10. Typed'
  BY <1>1, <1>7, <1>8 DEF Typed, Left, VolFalls
<1>11. Records'
  BY <1>2, <1>6, <1>9 DEF Records
<1>12. Generations'
  <2>1. nvs'.blob.gen <= g /\ ram'.blob.gen <= g /\ 0 <= g
    BY <1>1, <1>2, <1>6, <1>9 DEF IInv, Generations
  <2> QED BY <1>7, <1>9, <2>1 DEF Generations, Staged
<1>13. Sending'
  <2>1. nvs'.blob.gen = 0 => nvs.blob.gen = 0
    BY <1>1, <1>2, <1>6, <1>9
  <2> QED BY <1>9, <2>1 DEF IInv, Sending
<1>14. Controls' /\ Jobs'
  <2>1. hist.gen <= hist'.gen /\ hist'.gen \in Nat /\ "none" \notin Channels
        /\ "relay" \notin Channels /\ ctl.op \in Channels
    BY <1>1, <1>9, ScenarioAssumption DEF IInv, Controls
  <2> QED BY <1>7, <1>9, <2>1, StageControls DEF Stages
<1>15. KeepsDone
  <2>1. nvs'.blob \in {w.blob, d}
    BY <1>6, <1>9
  <2> QED BY <1>2, <2>1 DEF KeepsDone
<1> QED BY <1>10, <1>11, <1>12, <1>13, <1>14, <1>15, VolKeeps DEF IInv, Good

LEMMA StageClosesGood ==
    ASSUME IInv, StageCloses
    PROVE  Good
<1> DEFINE g == hist.gen
           d == Closed(g)
           h == Holding(d)
<1>1. /\ pc["main"] = "staging" /\ ctl.op = "usb" /\ vol' = NoFloors /\ world' = world
      /\ \E w \in Outcomes(d) :
           IF w.ok THEN Stored(w, h, ctl) /\ Staging("gated") ELSE Discard(g, w)
  BY DEF StageCloses, NextGen
<1>2. g \in Nat \ {0} /\ Typed /\ ctl \in CtlType
      /\ nvs.manifest \in [gen : Nat, mask : SUBSET Slots]
  BY DEF IInv, Typed, HistType, NvsType
<1>3. d \in Blob /\ Sound(d) /\ Readable(d) /\ d.gen = g /\ d.closed
      /\ \A s \in Slots : d.slot[s].attempts = MaxAttempts
  BY <1>2, ClosedSound
<1>4. h \in RamType /\ h.loaded /\ h.blob = d
  BY <1>2, <1>3, HoldingOf
<1>5. "staging" \in Stages /\ "gated" \in Stages /\ pc["main"] \in Stages
      /\ nvs.manifest.gen = 0 /\ ctl.inhibit /\ ctl.op \in Channels
  BY <1>1 DEF Stages, IInv, Generations, Staged, Controls
<1>6. PICK w \in Outcomes(d) :
        IF w.ok THEN Stored(w, h, ctl) /\ Staging("gated") ELSE Discard(g, w)
  BY <1>1
<1> HIDE DEF h
<1>7. w \in WriteType /\ w.blob \in {nvs.blob, d} /\ (w.ok => w.blob = d)
  BY <1>2, <1>3, OutcomeOf
<1>8. ident' = ident
  BY <1>6 DEF Discard, Staging
<1>9. VolFalls
  BY <1>1, <1>2, <1>8, VolCleared DEF VolFalls
<1>10. CASE ~w.ok
  <2>1. /\ Readable(w.blob) /\ w.blob.gen \in {nvs.blob.gen, g} /\ Discard(g, w)
        /\ (w.blob = nvs.blob \/ w.blob.closed)
    BY <1>3, <1>6, <1>7, <1>10 DEF IInv, Records
  <2> HIDE DEF d
  <2> QED BY <1>1, <1>5, <1>7, <1>9, <1>10, <2>1, DiscardGood
<1>11. CASE w.ok
  <2>1. StoredUnder(w, h, ctl, nvs.manifest) /\ Staging("gated") /\ w.blob = d
    BY <1>6, <1>7, <1>11 DEF Stored
  <2>2. Left(w, h, ctl, nvs.manifest)
    BY <1>2, <1>4, <1>7, <2>1, StoredLeaves
  <2>3. /\ nvs'.manifest.gen = 0 /\ nvs'.blob = d /\ ram'.loaded /\ ram'.blob = d
        /\ hist'.gen = g /\ hist'.sent = hist.sent /\ ctl'.op = "usb" /\ Permitted'
        /\ ctl'.inhibit
    BY <1>1, <1>4, <1>5, <2>1, <2>2 DEF Left
  <2>4. /\ pc' \in [Tasks -> Places] /\ pc'["main"] = "gated"
        /\ pc'["worker"] = pc["worker"] /\ UNCHANGED <<ident, ask, job>>
    BY <2>1, StageFrame
  <2>5. Typed'
    BY <1>1, <1>2, <1>9, <2>2, <2>4 DEF Typed, Left, VolFalls
  <2>6. Records' /\ KeepsDone
    BY <1>3, <2>3 DEF Records, KeepsDone
  <2>7. Generations'
    <3>1. d = Closed(hist'.gen) /\ d.gen <= hist'.gen /\ 0 <= hist'.gen
      BY <1>2, <1>3, <2>3
    <3> HIDE DEF d
    <3> QED BY <2>3, <2>4, <3>1 DEF Generations, Staged, ClosedFor
  <2>8. Sending'
    BY <1>2, <1>3, <2>3 DEF IInv, Sending
  <2>9. Controls' /\ Jobs'
    <3>1. hist.gen <= hist'.gen /\ hist'.gen \in Nat /\ ctl'.op \in Channels
      BY <1>1, <1>2, <1>5, <2>3
    <3> QED BY <1>1, <1>5, <2>1, <2>3, <3>1, StageControls
  <2> QED BY <1>9, <2>5, <2>6, <2>7, <2>8, <2>9, VolKeeps DEF IInv, Good
<1> QED BY <1>7, <1>10, <1>11 DEF WriteType

\* While the main task stages the worker holds no attempt of the generation.
LEMMA UnreservedStaging ==
    ASSUME IInv, pc["main"] \in Stages, job' = job, NEW s \in Slots,
           nvs'.manifest.gen = hist.gen
    PROVE  ~Reserved(s)'
BY DEF IInv, Jobs, Typed, HistType, Reserved

LEMMA StageCommitsGood ==
    ASSUME IInv, NEW mask \in Masks, StageCommits(mask)
    PROVE  Good
<1> DEFINE g == hist.gen
<1>1. /\ pc["main"] \in {"gated", "staging"} /\ vol' = vol
      /\ pc["main"] = "staging" => ctl.op = "http"
      /\ \/ /\ nvs' = [nvs EXCEPT !.manifest = [gen |-> g, mask |-> mask]]
            /\ Staging("final") /\ world' = Aged /\ UNCHANGED <<ram, ctl, hist>>
         \/ Discard(g, Failing) /\ world' = world
  BY DEF StageCommits, NextGen
<1>2. g \in Nat \ {0} /\ Typed /\ mask \in (SUBSET Slots) \ {{}} /\ pc["main"] \in Stages
      /\ nvs.blob \in Blob /\ Readable(nvs.blob) /\ nvs \in NvsType
  BY <1>1, SlotAssumption DEF IInv, Typed, HistType, NvsType, Stages, Records
<1>3. CASE Discard(g, Failing) /\ world' = world
  <2>1. Failing \in WriteType /\ Failing.blob = nvs.blob /\ Failing.ok = FALSE
    BY <1>2 DEF Failing, WriteType
  <2>2. VolFalls
    BY <1>1, <1>2, <1>3, VolStays DEF Discard, Staging
  <2> QED BY <1>2, <1>3, <2>1, <2>2, DiscardGood
<1>4. CASE /\ nvs' = [nvs EXCEPT !.manifest = [gen |-> g, mask |-> mask]]
           /\ Staging("final") /\ world' = Aged /\ UNCHANGED <<ram, ctl, hist>>
  <2>1. /\ nvs' \in NvsType /\ nvs'.blob = nvs.blob
        /\ nvs'.manifest.gen = g /\ nvs'.manifest.mask = mask
    <3> DEFINE m == [gen |-> g, mask |-> mask]
    <3>1. m \in [gen : Nat, mask : SUBSET Slots] /\ m.gen = g /\ m.mask = mask
      BY <1>2
    <3> HIDE DEF m
    <3> QED BY <1>2, <1>4, <3>1 DEF NvsType, m
  <2>2. /\ pc' \in [Tasks -> Places] /\ pc'["main"] = "final"
        /\ pc'["worker"] = pc["worker"] /\ UNCHANGED <<ident, ask, job>>
    BY <1>4, StageFrame
  <2>3. VolFalls
    BY <1>1, <1>2, <2>2, VolStays
  <2>4. world' \in Worlds
    <3>1. world \in Worlds /\ "old" \in Versions
      BY <1>2 DEF Typed, Worlds, Versions, Older
    <3>2. ASSUME NEW s \in Slots
          PROVE  (IF world[s].ver = "target" THEN [world[s] EXCEPT !.ver = "old"]
                  ELSE world[s]) \in [hw : Nat \ {0}, ver : Versions]
      BY <3>1 DEF Worlds
    <3> QED BY <1>4, <3>2 DEF Worlds, Aged
  <2>5. Typed'
    BY <1>2, <1>4, <2>1, <2>2, <2>3, <2>4 DEF Typed, VolFalls, Worlds
  <2>6. Records' /\ KeepsDone
    BY <1>2, <1>4, <2>1 DEF IInv, Records, KeepsDone
  <2>7. /\ ctl.op = "usb" => ClosedFor(g)
        /\ ctl.op # "usb" => Unarmed
    BY <1>1 DEF IInv, Generations, Staged
  <2>8. Generations'
    <3>1. ClosedFor(g) => Matches(ram.blob)'
      BY <1>2, <1>4, <2>1, ClosedSound DEF ClosedFor, Matches
    <3>2. Staged'
      BY <1>4, <2>1, <2>2, <2>7 DEF Staged, ClosedFor, Unarmed
    <3> QED BY <1>2, <1>4, <2>1, <2>2, <2>7, <3>1, <3>2
            DEF IInv, Generations, Unarmed
  <2>9. Sending'
    <3>1. ASSUME NEW s \in Slots
          PROVE  ~Reserved(s)' /\ Due(s)' <= MaxAttempts
      <4>1. ~Reserved(s)'
        BY <1>2, <2>1, <2>2, UnreservedStaging
      <4>2. hist.sent[s] \in Nat /\ hist.sent[s] <= MaxAttempts
        BY <1>2 DEF IInv, Sending, Typed, HistType
      <4> QED BY <1>4, <4>1, <4>2 DEF Due
    <3>2. ClosedFor(g) => Covers(nvs.blob)' /\ Covers(ram.blob)'
      BY <1>2, <1>4, <2>1, <3>1, ClosedSound DEF ClosedFor, Covers
    <3>3. Unarmed => ~ram.loaded /\ nvs.blob.gen # g
      BY <1>2 DEF Unarmed
    <3> QED BY <1>4, <2>1, <2>7, <3>1, <3>2, <3>3 DEF IInv, Sending
  <2>10. Controls' /\ Jobs'
    <3>1. hist.gen <= hist'.gen /\ hist'.gen \in Nat /\ ctl'.op \in Channels
          /\ Permitted' /\ ctl'.inhibit /\ ctl.op # "relay" /\ ctl'.op # "relay"
          /\ "final" \in Stages
      BY <1>2, <1>4, ScenarioAssumption DEF IInv, Controls, Stages, Permitted
    <3> QED BY <1>2, <1>4, <3>1, StageControls
  <2> QED BY <2>3, <2>5, <2>6, <2>8, <2>9, <2>10, VolKeeps DEF IInv, Good
<1> QED BY <1>1, <1>3, <1>4

\* What is on flash when the image is final.
LEMMA FinalFlash ==
    ASSUME IInv, pc["main"] = "final"
    PROVE  /\ nvs.manifest.gen = hist.gen /\ hist.gen \in Nat \ {0}
           /\ nvs.manifest.mask \in (SUBSET Slots) \ {{}} /\ ctl.op \in Channels
           /\ ctl.op # "relay" /\ pc["main"] \in Stages /\ ctl.inhibit
           /\ \/ nvs.blob.gen # hist.gen
              \/ nvs.blob = Closed(hist.gen)
                 /\ \A s \in Slots : nvs.blob.slot[s].state \notin Done
<1>1. nvs.manifest.gen = hist.gen /\ hist.gen \in Nat \ {0}
      /\ nvs.manifest.mask \in (SUBSET Slots) \ {{}}
  BY DEF IInv, Generations, Staged, Typed, HistType, NvsType, Records
<1>2. ctl.op \in Channels /\ ctl.op # "relay" /\ pc["main"] \in Stages /\ ctl.inhibit
  BY ScenarioAssumption DEF IInv, Controls, Stages
<1>3. nvs.blob = Closed(hist.gen) \/ nvs.blob.gen < hist.gen
  BY DEF IInv, Generations, Staged, ClosedFor, Unarmed
<1>4. nvs.blob.gen \in Nat
  BY DEF IInv, Typed, NvsType, Blob
<1>5. nvs.blob = Closed(hist.gen) => \A s \in Slots : nvs.blob.slot[s].state \notin Done
  BY <1>1, ClosedSound DEF Done
<1> QED BY <1>1, <1>2, <1>3, <1>4, <1>5

LEMMA StageArmsGood ==
    ASSUME IInv, StageArms
    PROVE  Good
<1> DEFINE g == nvs.manifest.gen
           mask == nvs.manifest.mask
           c == Fresh(g, mask)
           h == Holding(c)
           k == [ctl EXCEPT !.op = "none"]
<1>1. pc["main"] = "final" /\ vol' = Floored /\ world' = world /\ Typed
  BY DEF StageArms, IInv
<1>2. /\ g = hist.gen /\ g \in Nat \ {0} /\ mask \in (SUBSET Slots) \ {{}}
      /\ pc["main"] \in Stages /\ ctl.op # "relay"
      /\ \/ nvs.blob.gen # g
         \/ nvs.blob = Closed(g) /\ \A s \in Slots : nvs.blob.slot[s].state \notin Done
  BY <1>1, FinalFlash
<1>3. /\ c \in Blob /\ Sound(c) /\ Readable(c) /\ c.gen = g /\ c.mask = mask
      /\ \A s \in Slots : c.slot[s].attempts = 0
  BY <1>2, FreshSound
<1>4. h \in RamType /\ h.loaded /\ h.blob = c /\ Readable(nvs.blob)
  BY <1>1, <1>3, HoldingOf DEF IInv, Records
<1>5. PICK w \in Outcomes(c) :
        IF w.ok
        THEN /\ nvs' = [nvs EXCEPT !.blob = w.blob]
             /\ ram' = [Holding(w.blob) EXCEPT !.uncertain = FALSE]
             /\ ctl' = Reconcile(ram', k)
             /\ hist' = [hist EXCEPT !.sent = [s \in Slots |-> 0]]
             /\ Staging("reprompt")
        ELSE Discard(g, w)
  BY DEF StageArms
<1>6. w \in WriteType /\ w.blob \in {nvs.blob, c} /\ (w.ok => w.blob = c)
  BY <1>1, <1>3, OutcomeOf
<1>7. ident' = ident
  BY <1>5 DEF Discard, Staging
<1>8. VolFalls
  BY <1>1, <1>7, VolCleared DEF VolFalls
<1> HIDE DEF c, h
<1>9. CASE ~w.ok
  <2>1. /\ Readable(w.blob) /\ w.blob.gen \in {nvs.blob.gen, hist.gen}
        /\ Discard(hist.gen, w)
    BY <1>2, <1>3, <1>4, <1>5, <1>6, <1>9
  <2>2. \/ w.blob = nvs.blob \/ w.blob.gen # nvs.blob.gen
        \/ \A s \in Slots : nvs.blob.slot[s].state \notin Done
    BY <1>2, <1>3, <1>6
  <2> QED BY <1>1, <1>2, <1>6, <1>8, <1>9, <2>1, <2>2, DiscardGood
<1>10. CASE w.ok
  <2>1. /\ nvs' = [nvs EXCEPT !.blob = c] /\ ram' = [h EXCEPT !.uncertain = FALSE]
        /\ ctl' = Reconcile(ram', k) /\ Staging("reprompt")
        /\ hist' = [hist EXCEPT !.sent = [s \in Slots |-> 0]]
    BY <1>5, <1>6, <1>10 DEF h
  <2>2. /\ nvs' \in NvsType /\ nvs'.blob = c /\ nvs'.manifest = nvs.manifest
        /\ ram' \in RamType /\ ram'.loaded /\ ram'.blob = c
    BY <1>1, <1>3, <1>4, <2>1 DEF Typed, NvsType, RamType
  <2>3. /\ hist' \in HistType /\ hist'.gen = hist.gen
        /\ \A s \in Slots : hist'.sent[s] = 0
    BY <1>1, <2>1 DEF Typed, HistType
  <2>4. ctl' \in CtlType /\ ctl'.op = "none" /\ Permitted'
    <3>1. k \in CtlType /\ k.op = "none"
      BY <1>1 DEF Typed, CtlType
    <3> HIDE DEF k
    <3> QED BY <2>1, <2>2, <3>1, ReconcileKeeps DEF Permitted
  <2>5. /\ pc' \in [Tasks -> Places] /\ pc'["main"] = "reprompt"
        /\ pc'["worker"] = pc["worker"] /\ UNCHANGED <<ident, ask, job>>
    BY <2>1, StageFrame
  <2>6. Typed'
    BY <1>1, <1>8, <2>2, <2>3, <2>4, <2>5 DEF Typed, VolFalls
  <2>7. Records'
    BY <1>2, <1>3, <2>2 DEF Records
  <2>8. KeepsDone
    BY <1>2, <1>3, <2>2 DEF KeepsDone
  <2>9. Generations'
    <3>1. c.gen <= hist'.gen /\ g <= hist'.gen
      BY <1>2, <1>3, <2>3
    <3> QED BY <1>3, <2>2, <2>5, <3>1 DEF Generations, Staged, Matches
  <2>10. Sending'
    <3>1. ASSUME NEW s \in Slots
          PROVE  ~Reserved(s)' /\ Due(s)' = 0
      <4>1. ~Reserved(s)'
        BY <1>2, <2>2, <2>5, UnreservedStaging
      <4> QED BY <2>3, <4>1 DEF Due
    <3>2. Covers(nvs.blob)' /\ Covers(ram.blob)'
      BY <1>3, <2>2, <3>1 DEF Covers
    <3> QED BY <2>3, <3>1, <3>2, BudgetAssumption DEF Sending
  <2>11. Controls' /\ Jobs'
    <3>1. hist.gen <= hist'.gen /\ hist'.gen \in Nat /\ "none" \notin Channels
      BY <1>2, <2>3, ScenarioAssumption
    <3> QED BY <1>2, <2>1, <2>4, <3>1, StageControls DEF Stages
  <2> QED BY <1>8, <2>6, <2>7, <2>8, <2>9, <2>10, <2>11, VolKeeps DEF IInv, Good
<1> QED BY <1>6, <1>9, <1>10 DEF WriteType

LEMMA StageUndeliveredGood ==
    ASSUME IInv, StageUndelivered
    PROVE  Good
<1> DEFINE g == hist.gen
           w == [Failing EXCEPT !.ok = TRUE, !.faults = 0, !.blob = Closed(nvs.manifest.gen)]
<1>1. /\ pc["main"] = "final" /\ Discard(nvs.manifest.gen, w)
      /\ vol' = NoFloors /\ world' = world /\ Typed
  BY DEF StageUndelivered, IInv
<1>2. nvs.manifest.gen = g /\ g \in Nat \ {0} /\ pc["main"] \in Stages
  BY <1>1, FinalFlash
<1>3. /\ Closed(g) \in Blob /\ Readable(Closed(g)) /\ Closed(g).gen = g /\ Closed(g).closed
  BY <1>2, ClosedSound
<1>4. w \in WriteType /\ w.blob = Closed(g)
  BY <1>2, <1>3 DEF Failing, WriteType
<1>5. VolFalls
  BY <1>1, VolCleared DEF VolFalls, Discard, Staging
<1>6. Discard(g, w)
  BY <1>1, <1>2
<1> HIDE DEF w
<1> QED BY <1>1, <1>2, <1>3, <1>4, <1>5, <1>6, DiscardGood

-----------------------------------------------------------------------------
(* The first states: the record on flash is none, that of a campaign just  *)
(* armed, or one of the schema before with a relay interrupted.            *)
LEMMA OldSchemaReadable ==
    ASSUME NEW mask \in SUBSET Slots, "wifi" \in mask
    PROVE  LET b == InitNvs("schema2", mask).blob IN
           /\ b \in Blob /\ b.gen = 1 /\ Readable(b)
<1> DEFINE b == InitNvs("schema2", mask).blob
           f == Fresh(1, mask)
           ble == Slot(IF "ble" \in mask THEN "converged" ELSE "excluded")
           wifi == [f.slot["wifi"] EXCEPT !.state = "relaying", !.attempts = 1]
<1>1. /\ f \in Blob /\ f.gen = 1 /\ f.mask = mask /\ ~f.closed
      /\ f.slot = [s \in Slots |-> Slot(IF s \in mask THEN "awaiting" ELSE "excluded")]
  BY FreshSound DEF Fresh
<1>2. b = [f EXCEPT !.schema = 2, !.slot["wifi"].state = "relaying",
                    !.slot["wifi"].attempts = 1, !.slot["ble"] = ble]
  BY DEF InitNvs
<1>3. /\ ble \in SlotType /\ ble.attempts = 0 /\ ble.probes = 0 /\ ble.wait = "none"
      /\ ble.bound = 0 /\ ble.pending = FALSE
      /\ ble.state = (IF "ble" \in mask THEN "converged" ELSE "excluded")
  BY DEF Slot, SlotType, SlotState, Terminal
<1>4. /\ wifi \in SlotType /\ wifi.attempts = 1 /\ wifi.probes = 0 /\ wifi.wait = "none"
      /\ wifi.bound = 0 /\ wifi.pending = FALSE /\ wifi.state = "relaying"
  <2> DEFINE r == f.slot["wifi"]
  <2>1. r = Slot("awaiting")
    BY <1>1 DEF Slots
  <2> HIDE DEF r
  <2>2. LET w == Slot("awaiting") IN
        /\ w \in SlotType /\ w.probes = 0 /\ w.wait = "none" /\ w.bound = 0
        /\ w.pending = FALSE
    BY DEF Slot, SlotType, SlotState, Terminal, Boards
  <2>3. /\ r \in SlotType /\ r.probes = 0 /\ r.wait = "none" /\ r.bound = 0
        /\ r.pending = FALSE
    BY <2>1, <2>2
  <2>4. "relaying" \in SlotState
    BY DEF SlotState
  <2> QED BY <2>3, <2>4 DEF SlotType, r
<1> HIDE DEF ble, f
<1>5. /\ b \in Blob /\ b.gen = 1 /\ b.schema = 2 /\ b.mask = mask /\ ~b.closed
      /\ b.slot["wifi"] = wifi /\ b.slot["ble"] = ble
  <2> DEFINE slots == [f.slot EXCEPT !["wifi"] = wifi, !["ble"] = ble]
  <2>1. f.slot \in [Slots -> SlotType]
    BY <1>1 DEF Blob
  <2>2. slots \in [Slots -> SlotType] /\ slots["wifi"] = wifi /\ slots["ble"] = ble
    BY <1>3, <1>4, <2>1 DEF Slots
  <2> HIDE DEF b
  <2>3. slots = [f.slot EXCEPT !["wifi"].state = "relaying", !["wifi"].attempts = 1,
                               !["ble"] = ble]
    BY <2>1 DEF Slots
  <2> HIDE DEF slots, wifi
  <2>4. b = [f EXCEPT !.schema = 2, !.slot = slots]
    BY <1>1, <1>2, <2>3 DEF Blob
  <2> QED BY <1>1, <2>2, <2>4 DEF Blob
<1> HIDE DEF b, wifi
<1>6. Sound(Migrated(b))
  <2> DEFINE c == Migrated(b)
             q == [wifi EXCEPT !.state = "failed", !.pending = FALSE]
             p == [ble EXCEPT !.state = ble.state, !.pending = FALSE]
  <2>1. /\ c \in Blob /\ c.schema = 3 /\ c.gen = 1 /\ c.mask = mask /\ ~c.closed
    BY <1>5, MigratedKeeps
  <2>2. c.slot["wifi"] = q /\ c.slot["ble"] = p
    BY <1>3, <1>4, <1>5 DEF Migrated, Slots, Blob
  <2>3. /\ q.attempts = 1 /\ q.probes = 0 /\ q.wait = "none" /\ q.bound = 0
        /\ q.pending = FALSE /\ q.state = "failed"
    BY <1>4 DEF SlotType
  <2>4. /\ p.attempts = 0 /\ p.probes = 0 /\ p.wait = "none" /\ p.bound = 0
        /\ p.pending = FALSE /\ p.state = ble.state
    BY <1>3 DEF SlotType
  <2> HIDE DEF c, p, q
  <2>5. 1 <= MaxAttempts /\ 0 <= MaxAttempts /\ 0 <= MaxProbes
    BY BudgetAssumption
  <2>6. ValidSlot(c, "wifi")
    <3>1. (q.bound # 0) = (q.state \in {"ready", "relaying", "recovering"})
      BY <2>3
    <3>2. ("wifi" \in c.mask) = (q.state # "excluded")
      BY <2>1, <2>3
    <3>3. q.pending = (q.state = "ready")
      BY <2>3
    <3> QED BY <2>1, <2>2, <2>3, <2>5, <3>1, <3>2, <3>3 DEF ValidSlot
  <2>7. ValidSlot(c, "ble")
    <3>1. p.state = (IF "ble" \in mask THEN "converged" ELSE "excluded")
      BY <1>3, <2>4
    <3>2. (p.bound # 0) = (p.state \in {"ready", "relaying", "recovering"})
      BY <2>4, <3>1
    <3>3. ("ble" \in c.mask) = (p.state # "excluded")
      BY <2>1, <3>1
    <3>4. p.pending = (p.state = "ready")
      BY <2>4, <3>1
    <3> QED BY <2>1, <2>2, <2>4, <2>5, <3>2, <3>3, <3>4 DEF ValidSlot
  <2>8. c.closed = (c.mask = {}) /\ c.gen # 0
    <3>1. c.closed \in BOOLEAN /\ ~c.closed
      BY <2>1 DEF Blob
    <3>2. c.closed = FALSE
      BY <3>1
    <3>3. (c.mask = {}) = FALSE
      BY <2>1
    <3>4. c.gen # 0
      BY <2>1
    <3> QED BY <3>2, <3>3, <3>4
  <2>9. Valid(c)
    BY <2>6, <2>7, <2>8 DEF Valid, Slots
  <2>10. \A s \in Slots : c.slot[s].state = "relaying" => c.slot[s].attempts # 0
    <3>1. p.state # "relaying" /\ q.state # "relaying"
      BY <1>3, <2>3, <2>4
    <3> QED BY <2>2, <3>1 DEF Slots
  <2>11. Sound(c)
    BY <2>1, <2>9, <2>10 DEF Sound
  <2> QED BY <2>11 DEF c
<1> QED BY <1>5, <1>6 DEF b, Readable

LEMMA FirstFlash ==
    ASSUME NEW how \in {"empty", "journal", "staged", "schema2"},
           NEW mask \in (SUBSET Slots) \ {{}}, how = "schema2" => "wifi" \in mask,
           nvs = InitNvs(how, mask)
    PROVE  /\ nvs \in NvsType /\ Readable(nvs.blob) /\ nvs.blob.gen <= 1
           /\ nvs.manifest.gen <= 1 /\ (nvs.manifest.gen # 0 => nvs.manifest.mask # {})
<1> DEFINE g == IF how = "empty" THEN 0 ELSE 1
           m == [gen |-> g, mask |-> IF g = 0 THEN {} ELSE mask]
<1>1. /\ m \in [gen : Nat, mask : SUBSET Slots] /\ m.gen <= 1
      /\ (m.gen # 0 => m.mask # {})
  OBVIOUS
<1>2. nvs.manifest = m /\ nvs = [manifest |-> nvs.manifest, blob |-> nvs.blob]
  BY DEF InitNvs
<1>3. nvs.blob \in Blob /\ Readable(nvs.blob) /\ nvs.blob.gen <= 1
  <2>1. CASE how \in {"empty", "journal"}
    <3>1. nvs.blob = NoBlob
      BY <2>1 DEF InitNvs
    <3> QED BY <3>1, NoRecord DEF Readable
  <2>2. CASE how = "staged"
    <3>1. nvs.blob = Fresh(1, mask)
      BY <2>2 DEF InitNvs
    <3> QED BY <3>1, FreshSound
  <2>3. CASE how = "schema2"
    <3>1. nvs.blob = InitNvs("schema2", mask).blob
      BY <2>3
    <3>2. InitNvs("schema2", mask).blob \in Blob /\ InitNvs("schema2", mask).blob.gen = 1
          /\ Readable(InitNvs("schema2", mask).blob)
      BY <2>3, OldSchemaReadable
    <3> QED BY <3>1, <3>2
  <2> QED BY <2>1, <2>2, <2>3
<1> HIDE DEF m
<1> QED BY <1>1, <1>2, <1>3 DEF NvsType

LEMMA InitInv ==
    ASSUME Init
    PROVE  IInv
<1>1. PICK how \in Scenarios :
        /\ nvs = InitNvs(how.boot, how.mask)
        /\ world \in {[s \in Slots |-> [hw |-> 1, ver |-> v[s]]] : v \in how.versions}
        /\ hist = [crashes |-> how.crashes, faults |-> how.faults, lapses |-> how.lapses,
                   stages |-> how.stages, swaps |-> how.swaps, preempts |-> how.preempts,
                   gen |-> 1, sent |-> [s \in Slots |-> 0]]
  BY DEF Init
<1>2. /\ ram = NotedInvalid /\ vol = [s \in Slots |-> Unbound]
      /\ ident = [s \in Slots |-> [hw |-> 0, ver |-> "old"]]
      /\ pc = InitPc /\ ask = [t \in Tasks |-> NoAsk] /\ job = NoJob /\ ctl = InitCtl
  BY DEF Init
<1>3. /\ how.boot \in {"empty", "journal", "staged", "schema2"}
      /\ how.mask \in (SUBSET Slots) \ {{}}
      /\ how.boot = "schema2" => "wifi" \in how.mask
      /\ how.versions \subseteq [Slots -> Versions]
      /\ how.crashes \in Int /\ how.faults \in Int /\ how.lapses \in Int
      /\ how.stages \in Int /\ how.swaps \in Int /\ how.preempts \in Int
  BY ScenarioAssumption
<1>4. /\ nvs \in NvsType /\ Readable(nvs.blob) /\ nvs.blob.gen <= 1
      /\ nvs.manifest.gen <= 1 /\ (nvs.manifest.gen # 0 => nvs.manifest.mask # {})
  BY <1>1, <1>3, FirstFlash
<1>5. hist \in HistType /\ hist.gen = 1 /\ \A s \in Slots : hist.sent[s] = 0
  <2>1. 1 \in Nat \ {0} /\ [s \in Slots |-> 0] \in [Slots -> Nat]
    OBVIOUS
  <2> QED BY <1>1, <1>3, <2>1 DEF HistType
<1>6. world \in Worlds
  BY <1>1, <1>3 DEF Worlds
<1>7. Typed
  <2>1. vol \in [Slots -> VolType]
    BY <1>2, VolCleared
  <2>2. ident \in [Slots -> [hw : Nat, ver : Versions]]
    BY <1>2 DEF Versions, Older
  <2> QED BY <1>2, <1>4, <1>5, <1>6, <2>1, <2>2, NoRecord, InitPlaces DEF Typed, Worlds
<1>8. Records
  BY <1>2, <1>4, NoRecord DEF Records
<1>9. Generations
  BY <1>2, <1>4, <1>5, NoRecord, InitPlaces DEF Generations, Staged
<1>10. Sending
  <2>1. \A s \in Slots : ~Reserved(s) /\ Due(s) = 0
    BY <1>2, <1>5, InitPlaces DEF Reserved, Unspent, Due
  <2>2. \A s \in Slots : nvs.blob.slot[s].attempts \in Nat
    BY <1>4 DEF NvsType, Blob, SlotType
  <2>3. Covers(nvs.blob)
    BY <2>1, <2>2 DEF Covers
  <2> QED BY <1>2, <1>5, <2>1, <2>3, NoRecord, BudgetAssumption DEF Sending
<1>11. Controls
  BY <1>2, NoRecord, InitPlaces, ScenarioAssumption DEF Controls, Permitted, Stages
<1>12. Jobs
  BY <1>2, <1>5, InitPlaces DEF Jobs, Held, Stages
<1>13. Heard
  BY <1>2, VolCleared DEF Heard
<1> QED BY <1>7, <1>8, <1>9, <1>10, <1>11, <1>12, <1>13 DEF IInv

LEMMA NextGood ==
    ASSUME IInv, [Next]_vars
    PROVE  Good
<1>1. CASE Boot
  BY <1>1, RestoreNothingGood, RestoreRefusedGood, FromManifestGood, FromRecordGood,
     BeginRecoveryGood DEF Boot
<1>2. CASE Worker
  BY <1>2, WakesGood, StopsGood, RestsGood, RecoversGood, AcquiresGood, SelectsGood,
     ConfirmsGood, ReservesGood, ChecksPreemptionGood, ClaimsGood, RecordsGood DEF Worker
<1>3. CASE Relay
  BY <1>3, RelayGood
<1>4. CASE Stage
  BY <1>4, StageBeginsGood, StageBeginFailsGood, StageAbortsGood, StageClosesGood,
     StageCommitsGood, StageArmsGood, StageUndeliveredGood DEF Stage
<1>5. CASE Preempt \/ Crash \/ WorkerUnconfirmed
  BY <1>5, PreemptGood, CrashGood, UnconfirmedGood
<1>6. CASE \E t \in Tasks : Tail(t)
  BY <1>6, RepromptGood, DeliverGood, RollbackGood, KickGood DEF Tail
<1>7. CASE \E s \in Slots :
             \/ Publish(s) \/ Reports(s) \/ CheckOffers(s) \/ Ready(s)
             \/ DeadlinePasses(s) \/ RecoveryDue(s) \/ Lapse(s) \/ Swap(s)
  BY <1>7, PublishGood, CheckGood, CheckOffersGood, ReadyGood, TimeGood DEF Reports
<1>8. CASE UNCHANGED vars
  <2>1. UNCHANGED <<nvs, ram, vol, ident, world, pc, ask, job, ctl, hist>>
    BY <1>8 DEF vars
  <2>2. Frame /\ Calm /\ Still /\ VolFalls /\ Typed'
    BY <2>1, CalmHere DEF Frame, Still, VolFalls, IInv, Typed
  <2> QED BY <2>2, AsideStill
<1> QED BY <1>1, <1>2, <1>3, <1>4, <1>5, <1>6, <1>7, <1>8 DEF Next

-----------------------------------------------------------------------------
(* The theorems.                                                           *)

\* The inductive invariant of the campaign: the record in RAM and the one on
\* flash are each sound, agree unless RAM knows that they may not, belong to
\* the staged manifest, and count every relay made or reserved.
THEOREM CoordinatorInvariant == Spec => []IInv
<1>1. Init => IInv
  BY InitInv
<1>2. IInv /\ [Next]_vars => IInv'
  BY NextGood DEF Good
<1> QED BY <1>1, <1>2, PTL DEF Spec

\* Every record the coordinator keeps passes auto_coordinator_blob_valid, so a
\* save is never refused and a boot never finds a record it cannot restore;
\* and fw_relay_stored_to_scanner starts at most MaxAttempts times for a
\* scanner in one staged generation, whatever crashes, faults and restores
\* come in between.
THEOREM JournalIsSound == Spec => []JournalSound
<1>1. IInv => JournalSound
  BY DEF IInv, Records, Readable, Sound, Sending, JournalSound
<1> QED BY <1>1, CoordinatorInvariant, PTL

\* Unless auto_coordinator_save_locked has marked RAM uncertain, RAM is what
\* the next boot reads, and the radio is permitted only when that boot would
\* have nothing to relay.
THEOREM FlashFirst == Spec => []DurableFirst
<1>1. IInv => DurableFirst
  <2> SUFFICES ASSUME IInv PROVE DurableFirst
    OBVIOUS
  <2>1. ram.loaded /\ ~ram.uncertain => nvs.blob = ram.blob
    BY DEF IInv, Records
  <2>2. ASSUME pc["main"] \notin {"boot", "failed"}, ~ctl.inhibit, nvs.manifest.gen # 0
        PROVE  Live(nvs.blob) = {} /\ Matches(nvs.blob)
    <3>1. ~ram.uncertain /\ pc["main"] \notin Stages
      BY <2>2 DEF IInv, Controls, Permitted
    <3>2. ram.loaded
      BY <2>2, <3>1 DEF IInv, Generations, Stages
    <3>3. nvs.blob = ram.blob
      BY <2>1, <3>1, <3>2
    <3> QED BY <2>2, <3>2, <3>3 DEF IInv, Controls, Permitted, Generations
  <2> QED BY <2>1, <2>2 DEF DurableFirst
<1> QED BY <1>1, CoordinatorInvariant, PTL

\* No step takes a scanner that is current, newer or converged up again in the
\* generation it was found so, the migration and the restore at boot included.
THEOREM DoneStays == Spec => DoneStaysDone
<1>1. IInv /\ [Next]_vars =>
        [\A s \in Slots :
           /\ ~ram.uncertain /\ nvs.blob.slot[s].state \in {"converged", "current", "newer"}
           /\ nvs'.blob.gen = nvs.blob.gen /\ ~nvs'.blob.closed
           => nvs'.blob.slot[s].state = nvs.blob.slot[s].state]_vars
  BY NextGood DEF Good, KeepsDone, Done
<1> QED BY <1>1, CoordinatorInvariant, PTL DEF Spec, DoneStaysDone
=============================================================================
