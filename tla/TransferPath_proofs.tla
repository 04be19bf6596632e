-------------------------- MODULE TransferPath_proofs --------------------------
(***************************************************************************)
(* What is proved of what is carried over in pieces.                       *)
(*                                                                         *)
(* First, the transfer of the uplink's own image, for images, credits and  *)
(* chunks of any size, any number of transfers, of retries and of          *)
(* refusals: what the badge has taken is released, an image is selected    *)
(* once, whole and for good, the two accounts of the bytes agree, and an   *)
(* outcome is told once.  Handlers end by calling one another, so these    *)
(* lemmas are about handlers: from a badge that satisfies the handler's    *)
(* precondition, every badge it may leave satisfies the invariant between  *)
(* two passes of the loop.                                                 *)
(*                                                                         *)
(* Then the parts that take turns with x1, x2, ...: an image for the       *)
(* scanners over USB and over the network, the identity behind the fence,  *)
(* and an investigation on the scanner and on the badge.  Each part has    *)
(* its inductive invariant; the last section puts them together.           *)
(***************************************************************************)
EXTENDS MCTransferPath, FiniteSetTheorems, SequenceTheorems, TLAPS

-----------------------------------------------------------------------------
(* The uplink's own image (UplinkOta).                                    *)

\* The types of the parts.
Bytes == {"begin", "data"}
SessionType ==
    [state : SessionState, owns : SUBSET Resources, cleaned : BOOLEAN, size : Nat,
     transport : Nat, durable : Nat, creditAt : Nat, credit : BOOLEAN]
FlowType ==
    [transport : Nat, durable : Nat, total : Nat, credit : Nat,
     retrying : Nat, pendingCredit : Nat,
     writes : Nat, finishes : Nat, cleanups : Nat, terminals : Nat,
     waiting : BOOLEAN, finish : BOOLEAN, cleanup : BOOLEAN,
     terminal : BOOLEAN, aborted : BOOLEAN, committed : BOOLEAN]
LatchType == [finish : BOOLEAN, abort : BOOLEAN, terminal : BOOLEAN,
              recovery : BOOLEAN, suppress : BOOLEAN, restart : BOOLEAN]
Badge ==
    [up : BOOLEAN, session : SessionType, flow : FlowType, latch : LatchType,
     binary : BOOLEAN, garbled : BOOLEAN, pending : Seq(Bytes),
     held : SUBSET Resources, selected : BOOLEAN, poisoned : BOOLEAN,
     out : Seq(Frames), refusals : Nat, busy : Nat,
     gaveUp : BOOLEAN, pure : BOOLEAN, terminals : Nat]

\* A session that takes bytes, or has them all.
Live(c) == c.session.state \in {"receiving", "verifying"}

\* What is taken is what the session owns, and what is left of a session that
\* ended is at most the operation.  The adapter is contended too seldom for
\* the cleanup of a live session to be given up.
Owned(c) ==
    /\ c.held = c.session.owns
    /\ c.session.state = "idle" => c.session.owns = {}
    /\ c.session.state = "error" => c.session.owns \subseteq {"operation"}
    /\ c.session.cleaned => c.session.state = "error" /\ c.session.owns = {}
    /\ c.gaveUp => c.session.state = "error" /\ c.session.owns = {"operation"}
    /\ Live(c) => /\ c.flow.cleanups + c.busy <= MaxBusy
                  /\ "operation" \in c.session.owns
    /\ c.busy <= MaxBusy

\* One outcome: told, or still to be told, of an aborted flow.
Answered(c) ==
    /\ c.terminals <= 1
    /\ c.flow.terminal => c.flow.aborted /\ c.terminals = 0
    /\ c.flow.cleanup => c.flow.aborted
    /\ c.latch.terminal => c.flow.terminal
    /\ c.flow.aborted /\ ~c.flow.cleanup => ~c.binary
Untold(c) == c.flow.aborted \/ c.terminals = 0

Uncommitted(c) ==
    /\ ~c.selected /\ ~c.latch.restart /\ ~c.flow.committed
    /\ c.session.state # "committed"

\* The two accounts of a transfer, but for the credit.
Counted(c) ==
    /\ c.session.size > Descriptor
    /\ ~c.flow.aborted /\ ~c.flow.finish
    /\ c.flow.total = c.session.size
    /\ c.flow.transport = c.session.transport
    /\ c.flow.durable = c.session.durable
    /\ c.session.creditAt <= c.session.size
    /\ c.session.state = "receiving" =>
         /\ c.session.transport < c.session.creditAt
         /\ c.session.durable = Durable(c.session.transport)
         /\ ~c.latch.finish
    /\ c.session.state = "verifying" =>
         /\ c.session.durable = c.session.size
         /\ c.session.transport = c.session.size
Granted(c) ==
    /\ ~c.flow.waiting /\ c.flow.pendingCredit = 0
    /\ c.flow.credit = c.session.creditAt - c.session.transport
Agreed(c) ==
    /\ Counted(c) /\ Granted(c)
    /\ c.session.state = "verifying" => c.latch.finish

\* From the selection of an image on, the badge only restarts.
SelectedShape(c) ==
    /\ c.session.state = "committed" /\ "operation" \in c.session.owns
    /\ ~c.flow.aborted /\ ~c.binary /\ c.pure
    /\ c.session.durable = c.session.size
    /\ c.latch.restart \/ ~c.up

\* Between two passes: an image is selected, or a live session is on the line
\* or about to be aborted, and what a dead one keeps is about to be released.
Resting(c) ==
    \/ c.selected /\ SelectedShape(c)
    \/ /\ Uncommitted(c)
       /\ c.session.state # "preparing"
       /\ Live(c) => c.latch.abort \/ (c.binary /\ Agreed(c))
       /\ c.binary => c.latch.abort \/ Live(c)
       /\ c.session.state = "error" /\ c.session.owns # {} => c.gaveUp \/ c.latch.abort
       /\ c.terminals = 1 /\ ~c.flow.aborted =>
            Unlatched(c) /\ ~c.binary /\ c.pending = <<>>

Sound(c) == c \in Badge /\ Owned(c) /\ Answered(c) /\ Resting(c)
IInv == Sound(badge) /\ usb \in Seq(Bytes)

-----------------------------------------------------------------------------
(* Preconditions of the handlers.                                          *)

\* A session may be cleaned up.
Cleaning(c) == c \in Badge /\ Owned(c) /\ Answered(c) /\ Uncommitted(c)

\* A transfer may be aborted.
Abortable(c) == Cleaning(c) /\ c.session.state # "preparing" /\ Untold(c)

\* What an abort has to look after is done or given up.
Settled(c) == Abortable(c) /\ ~Live(c) /\ (c.session.owns # {} => c.gaveUp)

-----------------------------------------------------------------------------
(* Emissions.                                                              *)
SomeEmission == {"completed", "enqueued", "failed", "poisoned"}

\* Emitting touches the answers of a badge and nothing else.
SameButAnswers(c, d) ==
    /\ d \in Badge
    /\ d.up = c.up /\ d.session = c.session /\ d.flow = c.flow /\ d.latch = c.latch
    /\ d.binary = c.binary /\ d.pending = c.pending /\ d.held = c.held
    /\ d.selected = c.selected /\ d.refusals = c.refusals /\ d.busy = c.busy
    /\ d.gaveUp = c.gaveUp /\ d.pure = c.pure

LEMMA EmittedAnswers ==
    ASSUME NEW c, c \in Badge, NEW e, NEW frame, frame \in Frames
    PROVE  /\ SameButAnswers(c, Emitted(c, e, frame))
           /\ Emitted(c, e, frame).terminals =
                IF e \in {"completed", "enqueued"} /\ frame.kind \in Outcomes
                THEN c.terminals + 1 ELSE c.terminals
<1> DEFINE d == Emitted(c, e, frame)
           o == IF e \in {"completed", "enqueued"} THEN Append(c.out, frame) ELSE c.out
           t == IF e \in {"completed", "enqueued"} /\ frame.kind \in Outcomes
                THEN c.terminals + 1 ELSE c.terminals
           p == c.poisoned \/ e = "poisoned"
<1>1. o \in Seq(Frames) /\ t \in Nat /\ p \in BOOLEAN
  BY DEF Badge
<1>2. d = [c EXCEPT !.out = o, !.terminals = t, !.poisoned = p]
  BY DEF Emitted
<1> HIDE DEF o, t, p, d
<1>3. d \in Badge
  BY <1>1, <1>2 DEF Badge
<1>4. SameButAnswers(c, d) /\ d.terminals = t
  BY <1>2, <1>3 DEF Badge, SameButAnswers
<1> QED BY <1>4 DEF d, t

LEMMA ReplyAnswers ==
    ASSUME NEW c, c \in Badge, NEW kind, kind \in {"busy", "aborted", "unknown"},
           NEW d, d \in Reply(c, kind)
    PROVE  /\ SameButAnswers(c, d)
           /\ \/ d.terminals = c.terminals
              \/ kind = "aborted" /\ d.terminals = c.terminals + 1
<1> DEFINE frame == Frame(kind, 0)
<1>1. frame \in Frames /\ frame.kind = kind
  BY DEF Frame, Frames
<1>2. PICK e \in Emissions(c) : d = Emitted(c, e, frame)
  BY DEF Reply
<1> HIDE DEF frame
<1>3. kind \in Outcomes <=> kind = "aborted"
  BY DEF Outcomes
<1>4. /\ SameButAnswers(c, d)
      /\ d.terminals = IF e \in {"completed", "enqueued"} /\ kind \in Outcomes
                       THEN c.terminals + 1 ELSE c.terminals
  BY <1>1, <1>2, EmittedAnswers
<1> QED BY <1>3, <1>4

-----------------------------------------------------------------------------
(* Cleaning up.                                                            *)
LEMMA CleanedUpCleans ==
    ASSUME NEW c, Cleaning(c), NEW ended, ended \in BOOLEAN, ~ended => MayRefuse(c)
    PROVE  LET d == CleanedUp(c, ended) IN
           /\ Cleaning(d) /\ d.session.state \in {"idle", "error"} /\ ~Live(d)
           /\ ended => d.session.owns = {} /\ ~d.gaveUp
           /\ d.session.owns # {} => d.session.state = "error"
           /\ d.up = c.up /\ d.flow = c.flow /\ d.latch = c.latch /\ d.binary = c.binary
           /\ d.pending = c.pending /\ d.terminals = c.terminals /\ d.busy = c.busy
<1> DEFINE s == Cleanup(c.session, ended)
           h == c.held \ (c.session.owns \ s.owns)
           r == IF ended THEN c.refusals ELSE c.refusals - 1
           g == c.gaveUp /\ ~ended
           d == CleanedUp(c, ended)
<1>1. c \in Badge /\ c.session \in SessionType /\ Owned(c) /\ Uncommitted(c) /\ Answered(c)
  BY DEF Cleaning, Badge
<1>2. /\ s \in SessionType /\ s.owns \subseteq c.session.owns
      /\ s.state = "error" /\ (ended => s.owns = {})
      /\ s.owns \subseteq {"operation"}
      /\ s.cleaned => s.owns = {}
      /\ ~ended => s.owns = {"operation"}
  <2>1. CASE Cleanable(c.session)
    <3> DEFINE w == IF ended THEN {} ELSE c.session.owns \cap {"operation"}
               v == ended \/ "operation" \notin c.session.owns
    <3>1. s = [c.session EXCEPT !.state = "error", !.credit = FALSE, !.owns = w, !.cleaned = v]
      BY <2>1 DEF Cleanup
    <3>2. w \in SUBSET Resources /\ v \in BOOLEAN /\ w \subseteq c.session.owns
      BY <1>1 DEF SessionType, Resources
    <3>3. (ended => w = {}) /\ w \subseteq {"operation"} /\ (v => w = {})
      OBVIOUS
    <3>4. ~ended => w = {"operation"}
      BY DEF MayRefuse, Refusable
    <3> HIDE DEF w, v, s
    <3>5. s \in SessionType /\ s.state = "error" /\ s.owns = w /\ s.cleaned = v
      BY <1>1, <3>1, <3>2 DEF SessionType, SessionState
    <3> QED BY <3>2, <3>3, <3>4, <3>5
  <2>2. CASE ~Cleanable(c.session)
    <3>1. s = c.session /\ c.session.cleaned
      BY <1>1, <2>2 DEF Cleanup, Cleanable, Uncommitted
    <3>2. ended
      BY <2>2 DEF MayRefuse, Refusable
    <3> QED BY <1>1, <3>1, <3>2 DEF Owned
  <2> QED BY <2>1, <2>2
<1>3. h = s.owns
  BY <1>1, <1>2 DEF Owned
<1>4. r \in Nat
  BY <1>1 DEF Badge, MayRefuse
<1>5. d = [c EXCEPT !.session = s, !.held = h, !.refusals = r, !.gaveUp = g]
  BY DEF CleanedUp
<1>6. h \in SUBSET Resources /\ g \in BOOLEAN
  BY <1>1, <1>2, <1>3 DEF SessionType, Badge
<1> HIDE DEF s, h, r, g, d
<1>7. /\ d \in Badge /\ d.session = s /\ d.held = h /\ d.gaveUp = g
      /\ d.up = c.up /\ d.flow = c.flow /\ d.latch = c.latch /\ d.binary = c.binary
      /\ d.pending = c.pending /\ d.terminals = c.terminals /\ d.busy = c.busy
      /\ d.selected = c.selected
  BY <1>1, <1>2, <1>4, <1>5, <1>6 DEF Badge
<1>8. g => ~ended
  BY DEF g
<1>9. Owned(d)
  BY <1>1, <1>2, <1>3, <1>7, <1>8 DEF Owned, Live
<1>10. Answered(d) /\ Uncommitted(d)
  BY <1>1, <1>2, <1>7 DEF Answered, Uncommitted
<1> QED BY <1>2, <1>7, <1>8, <1>9, <1>10 DEF Cleaning, Live, d

-----------------------------------------------------------------------------
(* The terminal answer.                                                    *)

\* What the delivery of an outcome leaves alone.
SameTransfer(c, d) ==
    /\ d \in Badge
    /\ d.session = c.session /\ d.binary = c.binary /\ d.pending = c.pending
    /\ d.held = c.held /\ d.selected = c.selected /\ d.busy = c.busy
    /\ d.gaveUp = c.gaveUp /\ d.pure = c.pure
    /\ d.flow.aborted = c.flow.aborted /\ d.flow.committed = c.flow.committed
    /\ d.flow.cleanup = c.flow.cleanup /\ d.flow.cleanups = c.flow.cleanups
    /\ d.flow.finish = c.flow.finish /\ d.flow.waiting = c.flow.waiting
    /\ d.flow.pendingCredit = c.flow.pendingCredit /\ d.flow.total = c.flow.total
    /\ d.flow.transport = c.flow.transport /\ d.flow.durable = c.flow.durable
    /\ d.flow.credit = c.flow.credit
    /\ d.latch.abort = c.latch.abort /\ d.latch.finish = c.latch.finish
    /\ d.latch.restart = c.latch.restart
    /\ d.up = c.up \/ ~d.up

OneAnswer(d) ==
    /\ d.terminals <= 1
    /\ d.flow.terminal => d.terminals = 0
    /\ d.latch.terminal => d.flow.terminal

LEMMA TakenAnswer ==
    ASSUME NEW c, c \in Badge, c.terminals <= 1
    PROVE  SameTransfer(c, TerminalTaken(c)) /\ OneAnswer(TerminalTaken(c))
<1> DEFINE f == [c.flow EXCEPT !.terminal = FALSE]
           l == [c.latch EXCEPT !.terminal = FALSE]
           d == TerminalTaken(c)
<1>1. /\ f \in FlowType /\ ~f.terminal
      /\ f.aborted = c.flow.aborted /\ f.committed = c.flow.committed
      /\ f.cleanup = c.flow.cleanup /\ f.cleanups = c.flow.cleanups
      /\ f.finish = c.flow.finish /\ f.waiting = c.flow.waiting
      /\ f.pendingCredit = c.flow.pendingCredit /\ f.total = c.flow.total
      /\ f.transport = c.flow.transport /\ f.durable = c.flow.durable
      /\ f.credit = c.flow.credit
  BY DEF Badge, FlowType
<1>2. /\ l \in LatchType /\ ~l.terminal /\ l.abort = c.latch.abort
      /\ l.finish = c.latch.finish /\ l.restart = c.latch.restart
  BY DEF Badge, LatchType
<1>3. d = [c EXCEPT !.flow = f, !.latch = l]
  BY DEF TerminalTaken
<1> HIDE DEF f, l, d
<1>4. d \in Badge
  BY <1>1, <1>2, <1>3 DEF Badge
<1>5. /\ d.flow = f /\ d.latch = l /\ d.terminals = c.terminals /\ d.up = c.up
      /\ d.session = c.session /\ d.binary = c.binary /\ d.pending = c.pending
      /\ d.held = c.held /\ d.selected = c.selected /\ d.busy = c.busy
      /\ d.gaveUp = c.gaveUp /\ d.pure = c.pure
  BY <1>3 DEF Badge
<1>6. SameTransfer(c, d)
  BY <1>1, <1>2, <1>4, <1>5 DEF SameTransfer
<1>7. OneAnswer(d)
  BY <1>1, <1>2, <1>5 DEF OneAnswer
<1> QED BY <1>6, <1>7 DEF d

LEMMA RestartOrNot ==
    ASSUME NEW c, c \in Badge, NEW d, d \in TryRestart(c)
    PROVE  /\ d \in Badge /\ (d.up = c.up \/ ~d.up)
           /\ d.session = c.session /\ d.flow = c.flow /\ d.latch = c.latch
           /\ d.binary = c.binary /\ d.pending = c.pending /\ d.held = c.held
           /\ d.selected = c.selected /\ d.busy = c.busy /\ d.gaveUp = c.gaveUp
           /\ d.pure = c.pure /\ d.terminals = c.terminals
<1>1. d = c \/ d = [c EXCEPT !.up = FALSE]
  BY DEF TryRestart
<1> QED BY <1>1 DEF Badge

LEMMA DeliveredOnce ==
    ASSUME NEW c, c \in Badge, c.terminals = 0, c.flow.terminal,
           NEW d, d \in DeliverTerminal(c)
    PROVE  SameTransfer(c, d) /\ OneAnswer(d)
<1> DEFINE frame == Frame("aborted", 0)
           w(e) == Emitted(c, e, frame)
<1>1. frame \in Frames /\ frame.kind \in Outcomes
  BY DEF Frame, Frames, Outcomes
<1>2. PICK e \in Emissions(c) : d \in TerminalEmitted(c, e)
  BY DEF DeliverTerminal
<1> HIDE DEF frame
<1>3. /\ SameButAnswers(c, w(e))
      /\ w(e).terminals = IF e \in {"completed", "enqueued"} THEN 1 ELSE 0
  BY <1>1, EmittedAnswers
<1>4. w(e) = Emitted(c, e, Frame("aborted", 0))
  BY DEF frame
<1> DEFINE x == w(e)
<1>5. d \in IF e \in {"completed", "enqueued"}
             THEN {[TerminalTaken(x) EXCEPT !.flow.terminals = 0]}
             ELSE IF e = "failed" /\ ~Exhausted(c.flow.terminals)
             THEN {[x EXCEPT !.flow.terminals = @ + 1, !.latch.terminal = TRUE]}
             ELSE TryRestart(TerminalTaken(x))
  BY <1>2, <1>4 DEF TerminalEmitted
<1> HIDE DEF x, w
<1>6. /\ SameButAnswers(c, x) /\ x \in Badge /\ x.terminals <= 1
      /\ x.terminals = IF e \in {"completed", "enqueued"} THEN 1 ELSE 0
  BY <1>3 DEF x, SameButAnswers
<1>7. SameTransfer(c, x)
  BY <1>6 DEF SameButAnswers, SameTransfer
<1>8. SameTransfer(x, TerminalTaken(x)) /\ OneAnswer(TerminalTaken(x))
  BY <1>6, TakenAnswer
<1>9. CASE e \in {"completed", "enqueued"}
  <2> DEFINE y == TerminalTaken(x)
             f == [y.flow EXCEPT !.terminals = 0]
  <2>1. y \in Badge
    BY <1>8 DEF SameTransfer
  <2> HIDE DEF y
  <2>2. d = [y EXCEPT !.flow = f]
    BY <1>5, <1>9 DEF y
  <2>3. /\ f \in FlowType /\ f.terminal = y.flow.terminal
        /\ f.aborted = y.flow.aborted /\ f.committed = y.flow.committed
        /\ f.cleanup = y.flow.cleanup /\ f.cleanups = y.flow.cleanups
        /\ f.finish = y.flow.finish /\ f.waiting = y.flow.waiting
        /\ f.pendingCredit = y.flow.pendingCredit /\ f.total = y.flow.total
        /\ f.transport = y.flow.transport /\ f.durable = y.flow.durable
        /\ f.credit = y.flow.credit
    BY <2>1 DEF Badge, FlowType
  <2> HIDE DEF f
  <2>4. d \in Badge /\ d.flow = f /\ d.latch = y.latch /\ d.terminals = y.terminals
    BY <2>1, <2>2, <2>3 DEF Badge
  <2>5. SameTransfer(y, d)
    BY <2>1, <2>2, <2>3, <2>4 DEF Badge, SameTransfer
  <2>6. SameTransfer(c, d)
    BY <1>7, <1>8, <2>5 DEF SameTransfer, y
  <2>7. OneAnswer(d)
    BY <1>8, <2>3, <2>4 DEF OneAnswer, y
  <2> QED BY <2>6, <2>7
<1>10. CASE e \notin {"completed", "enqueued"} /\ e = "failed" /\ ~Exhausted(c.flow.terminals)
  <2> DEFINE f == [x.flow EXCEPT !.terminals = @ + 1]
             l == [x.latch EXCEPT !.terminal = TRUE]
  <2>1. x.flow \in FlowType
    BY <1>6 DEF Badge
  <2>2. x.flow.terminals \in Nat
    BY <2>1 DEF FlowType
  <2>3. x.flow \in FlowType /\ x.flow.terminals + 1 \in Nat
    BY <2>1, <2>2
  <2>4. d = [x EXCEPT !.flow = f, !.latch = l]
    BY <1>5, <1>10
  <2>5. /\ f \in FlowType /\ f.terminal = x.flow.terminal
        /\ f.aborted = x.flow.aborted /\ f.committed = x.flow.committed
        /\ f.cleanup = x.flow.cleanup /\ f.cleanups = x.flow.cleanups
        /\ f.finish = x.flow.finish /\ f.waiting = x.flow.waiting
        /\ f.pendingCredit = x.flow.pendingCredit /\ f.total = x.flow.total
        /\ f.transport = x.flow.transport /\ f.durable = x.flow.durable
        /\ f.credit = x.flow.credit
    BY <2>3 DEF FlowType
  <2>6. /\ l \in LatchType /\ l.abort = x.latch.abort
        /\ l.finish = x.latch.finish /\ l.restart = x.latch.restart
    BY <1>6 DEF Badge, LatchType
  <2> HIDE DEF f, l
  <2>7. d \in Badge /\ d.flow = f /\ d.latch = l /\ d.terminals = x.terminals
    BY <1>6, <2>4, <2>5, <2>6 DEF Badge
  <2>8. SameTransfer(x, d)
    BY <1>6, <2>4, <2>5, <2>6, <2>7 DEF Badge, SameTransfer
  <2>9. SameTransfer(c, d)
    BY <1>7, <2>8 DEF SameTransfer
  <2>10. OneAnswer(d)
    BY <1>6, <1>10, <2>5, <2>7 DEF OneAnswer, SameButAnswers
  <2> QED BY <2>9, <2>10
<1>11. CASE ~(e \in {"completed", "enqueued"}) /\ ~(e = "failed" /\ ~Exhausted(c.flow.terminals))
  <2>1. d \in TryRestart(TerminalTaken(x))
    BY <1>5, <1>11
  <2>2. SameTransfer(TerminalTaken(x), d) /\ OneAnswer(d)
    BY <1>8, <2>1, RestartOrNot DEF SameTransfer, OneAnswer
  <2>3. SameTransfer(c, d)
    BY <1>7, <1>8, <2>2 DEF SameTransfer
  <2> QED BY <2>2, <2>3
<1> QED BY <1>9, <1>10, <1>11

-----------------------------------------------------------------------------
(* Aborting.                                                               *)

\* The fields an abort looks at; it goes on from any badge that has them.
LEMMA AbortableCarries ==
    ASSUME NEW c, Abortable(c), NEW d, d \in Badge,
           d.session = c.session, d.held = c.held, d.selected = c.selected,
           d.gaveUp = c.gaveUp, d.binary = c.binary, d.terminals = c.terminals,
           d.busy <= c.busy,
           d.flow.aborted = c.flow.aborted, d.flow.committed = c.flow.committed,
           d.flow.terminal = c.flow.terminal, d.flow.cleanup = c.flow.cleanup,
           d.latch.terminal = c.latch.terminal, d.latch.restart = c.latch.restart,
           d.flow.cleanups + d.busy <= c.flow.cleanups + c.busy
    PROVE  Abortable(d) /\ (Live(d) <=> Live(c))
<1>1. c \in Badge /\ c.flow \in FlowType /\ d.flow \in FlowType
  BY DEF Abortable, Cleaning, Badge
<1>2. /\ c.busy \in Nat /\ d.busy \in Nat /\ c.flow.cleanups \in Nat
      /\ d.flow.cleanups \in Nat /\ MaxBusy \in Nat
  BY <1>1, BoundsAssumption DEF Badge, FlowType
<1>3. Owned(d)
  BY <1>2 DEF Abortable, Cleaning, Owned, Live
<1>4. Answered(d) /\ Uncommitted(d) /\ Untold(d)
  BY DEF Abortable, Cleaning, Answered, Uncommitted, Untold
<1> QED BY <1>3, <1>4 DEF Abortable, Cleaning, Live

LEMMA AbortedFlow ==
    ASSUME NEW f, f \in FlowType, ~f.committed, f.cleanup => f.aborted
    PROVE  LET g == AbortFlow(f) IN
           /\ g \in FlowType /\ g.aborted /\ ~g.committed
           /\ g.cleanups = f.cleanups
           /\ g.cleanup = (IF f.aborted THEN f.cleanup ELSE TRUE)
           /\ g.terminal = (IF f.aborted THEN f.terminal ELSE TRUE)
<1>1. CASE f.aborted
  BY <1>1 DEF AbortFlow
<1>2. CASE ~f.aborted
  <2> DEFINE g == AbortFlow(f)
  <2>1. g = [f EXCEPT !.aborted = TRUE, !.finish = FALSE, !.cleanup = TRUE,
                      !.terminal = TRUE, !.waiting = FALSE, !.pendingCredit = 0]
    BY <1>2 DEF AbortFlow
  <2> HIDE DEF g
  <2>2. g \in FlowType
    BY <2>1 DEF FlowType
  <2>3. /\ g.aborted /\ g.committed = f.committed /\ g.cleanups = f.cleanups
        /\ g.cleanup /\ g.terminal
    BY <2>1 DEF FlowType
  <2> QED BY <1>2, <2>2, <2>3 DEF g
<1> QED BY <1>1, <1>2

LEMMA FlowAborts ==
    ASSUME NEW c, Abortable(c)
    PROVE  LET d == [c EXCEPT !.flow = AbortFlow(@)] IN
           /\ Abortable(d) /\ (Live(d) <=> Live(c)) /\ d.flow.aborted
           /\ d.session = c.session /\ d.latch = c.latch /\ d.busy = c.busy
           /\ d.flow.cleanups = c.flow.cleanups /\ d.refusals = c.refusals
<1> DEFINE g == AbortFlow(c.flow)
           d == [c EXCEPT !.flow = g]
<1>1. c \in Badge /\ c.flow \in FlowType /\ c.terminals \in Nat
  BY DEF Abortable, Cleaning, Badge
<1>2. /\ g \in FlowType /\ g.aborted /\ ~g.committed /\ g.cleanups = c.flow.cleanups
      /\ g.cleanup = (IF c.flow.aborted THEN c.flow.cleanup ELSE TRUE)
      /\ g.terminal = (IF c.flow.aborted THEN c.flow.terminal ELSE TRUE)
  BY <1>1, AbortedFlow DEF Abortable, Cleaning, Answered, Uncommitted
<1> HIDE DEF g
<1>3. d \in Badge
  BY <1>1, <1>2 DEF Badge
<1>4. /\ d.flow = g /\ d.session = c.session /\ d.latch = c.latch /\ d.busy = c.busy
      /\ d.held = c.held /\ d.selected = c.selected /\ d.gaveUp = c.gaveUp
      /\ d.binary = c.binary /\ d.terminals = c.terminals /\ d.refusals = c.refusals
  BY <1>1 DEF Badge
<1> HIDE DEF d
<1>5. Owned(d) /\ Uncommitted(d) /\ Untold(d)
  BY <1>2, <1>4 DEF Abortable, Cleaning, Owned, Uncommitted, Untold, Live
<1>6. Answered(d)
  BY <1>1, <1>2, <1>4 DEF Abortable, Cleaning, Answered, Untold
<1>7. Abortable(d) /\ (Live(d) <=> Live(c)) /\ d.flow.aborted
  BY <1>2, <1>3, <1>4, <1>5, <1>6 DEF Abortable, Cleaning, Live
<1> QED BY <1>2, <1>4, <1>7 DEF d, g

LEMMA CompletedAbort ==
    ASSUME NEW c, Settled(c), NEW d, d \in CompleteAbort(c)
    PROVE  Sound(d)
<1> DEFINE f == AbortFlow(c.flow)
           g == [f EXCEPT !.cleanup = FALSE]
           b == c.binary /\ ~f.cleanup
           l == [c.latch EXCEPT !.abort = FALSE, !.suppress = FALSE, !.recovery = FALSE]
           x == [c EXCEPT !.flow = g, !.binary = b, !.latch = l]
           z == [c EXCEPT !.flow = [f EXCEPT !.cleanup = FALSE],
                          !.binary = @ /\ ~f.cleanup,
                          !.latch.abort = FALSE, !.latch.suppress = FALSE,
                          !.latch.recovery = FALSE]
<1>1. /\ c \in Badge /\ c.flow \in FlowType /\ c.latch \in LatchType /\ c.terminals \in Nat
      /\ Owned(c) /\ Answered(c) /\ Uncommitted(c) /\ Untold(c) /\ ~Live(c)
      /\ c.session.state # "preparing" /\ (c.session.owns # {} => c.gaveUp)
  BY DEF Settled, Abortable, Cleaning, Badge
<1>2. /\ f \in FlowType /\ f.aborted /\ ~f.committed /\ f.cleanups = c.flow.cleanups
      /\ f.cleanup = (IF c.flow.aborted THEN c.flow.cleanup ELSE TRUE)
      /\ f.terminal = (IF c.flow.aborted THEN c.flow.terminal ELSE TRUE)
  BY <1>1, AbortedFlow DEF Answered, Uncommitted
<1>3. z = x
  BY <1>1 DEF Badge, LatchType
<1> DEFINE answered == IF c.latch.suppress THEN {TerminalTaken(z)}
                       ELSE IF f.terminal /\ ~c.latch.terminal THEN DeliverTerminal(z)
                       ELSE {z}
<1>4. CompleteAbort(c) =
        IF c.latch.recovery THEN UNION {TryRestart(y) : y \in answered} ELSE answered
  BY DEF CompleteAbort
<1> HIDE DEF z
<1>5. PICK y : /\ \/ y = TerminalTaken(x)
                  \/ f.terminal /\ ~c.latch.terminal /\ y \in DeliverTerminal(x)
                  \/ ~(f.terminal /\ ~c.latch.terminal) /\ y = x
               /\ d = y \/ d \in TryRestart(y)
  BY <1>3, <1>4
<1> HIDE DEF f
<1>6. /\ g \in FlowType /\ g.aborted /\ ~g.committed /\ ~g.cleanup
      /\ g.terminal = f.terminal
  BY <1>2 DEF FlowType
<1>7. /\ l \in LatchType /\ ~l.abort /\ l.terminal = c.latch.terminal
      /\ l.restart = c.latch.restart
  BY <1>1 DEF LatchType
<1>8. b \in BOOLEAN /\ ~b
  BY <1>1, <1>2 DEF Answered, Badge
<1> HIDE DEF g, l, b
<1>9. x \in Badge
  BY <1>1, <1>6, <1>7, <1>8 DEF Badge
<1>10. /\ x.flow = g /\ x.latch = l /\ ~x.binary /\ x.session = c.session /\ x.busy = c.busy
      /\ x.held = c.held /\ x.selected = c.selected /\ x.gaveUp = c.gaveUp
      /\ x.terminals = c.terminals
  BY <1>1, <1>8 DEF Badge
<1> HIDE DEF x
<1>11. x.terminals <= 1 /\ (x.flow.terminal => x.terminals = 0)
  BY <1>1, <1>2, <1>6, <1>10 DEF Answered, Untold
<1>12. SameTransfer(x, y) /\ OneAnswer(y)
  <2>1. CASE y = TerminalTaken(x)
    BY <1>9, <1>11, <2>1, TakenAnswer
  <2>2. CASE f.terminal /\ ~c.latch.terminal /\ y \in DeliverTerminal(x)
    <3>1. x.terminals = 0 /\ x.flow.terminal
      BY <1>6, <1>10, <1>11, <2>2
    <3> QED BY <1>9, <2>2, <3>1, DeliveredOnce
  <2>3. CASE ~(f.terminal /\ ~c.latch.terminal) /\ y = x
    <3>1. x.latch.terminal => x.flow.terminal
      BY <1>1, <1>2, <1>6, <1>7, <1>10 DEF Answered
    <3> QED BY <1>9, <1>11, <2>3, <3>1 DEF SameTransfer, OneAnswer
  <2> QED BY <1>5, <2>1, <2>2, <2>3
<1>13. SameTransfer(x, d) /\ OneAnswer(d)
  <2>1. CASE d = y
    BY <1>12, <2>1
  <2>2. CASE d \in TryRestart(y)
    <3>1. y \in Badge
      BY <1>12 DEF SameTransfer
    <3> QED BY <1>12, <2>2, <3>1, RestartOrNot DEF SameTransfer, OneAnswer
  <2> QED BY <1>5, <2>1, <2>2
<1>14. /\ d \in Badge /\ d.session = c.session /\ d.held = c.held /\ d.selected = c.selected
       /\ d.gaveUp = c.gaveUp /\ d.busy = c.busy /\ ~d.binary /\ d.flow.aborted
       /\ ~d.flow.committed /\ ~d.flow.cleanup /\ ~d.latch.abort
       /\ d.latch.restart = c.latch.restart
  BY <1>6, <1>7, <1>10, <1>13 DEF SameTransfer
<1>15. Owned(d)
  BY <1>1, <1>14 DEF Owned, Live
<1>16. Answered(d)
  BY <1>13, <1>14 DEF Answered, OneAnswer
<1>17. Resting(d)
  BY <1>1, <1>14 DEF Resting, Uncommitted, Live
<1> QED BY <1>14, <1>15, <1>16, <1>17 DEF Sound

\* A live session's cleanup is not retried to the last, as only a contended
\* adapter can put it off.
LEMMA RetriedCleanup ==
    ASSUME MaxBusy < RetryLimit, NEW c, Abortable(c), c.latch.abort,
           Live(c) => c.flow.cleanups + 1 + c.busy <= MaxBusy,
           NEW d, d \in RetryCleanup(c)
    PROVE  Sound(d)
<1> DEFINE f == [c.flow EXCEPT !.cleanups = @ + 1]
           x == [c EXCEPT !.flow.cleanups = @ + 1]
           l == [c.latch EXCEPT !.recovery = TRUE]
           g == c.held # {}
           y == [x EXCEPT !.latch.recovery = TRUE, !.gaveUp = c.held # {}]
<1>1. /\ c \in Badge /\ c.flow \in FlowType /\ c.latch \in LatchType
      /\ Owned(c) /\ Answered(c) /\ Uncommitted(c) /\ Untold(c)
      /\ c.session.state # "preparing" /\ c.session.state \in SessionState
  BY DEF Abortable, Cleaning, Badge, SessionType
<1>2. c.flow.cleanups \in Nat /\ c.busy \in Nat
  BY <1>1 DEF Badge, FlowType
<1>3. /\ f \in FlowType /\ f.cleanups = c.flow.cleanups + 1
      /\ f.aborted = c.flow.aborted /\ f.committed = c.flow.committed
      /\ f.terminal = c.flow.terminal /\ f.cleanup = c.flow.cleanup
  <2>1. c.flow.cleanups + 1 \in Nat
    BY <1>2
  <2> QED BY <1>1, <2>1 DEF FlowType
<1>4. l \in LatchType /\ l.terminal = c.latch.terminal /\ l.restart = c.latch.restart
  BY <1>1 DEF LatchType
<1>5. x = [c EXCEPT !.flow = f] /\ y = [x EXCEPT !.latch = l, !.gaveUp = g]
  BY <1>1 DEF Badge
<1>6. d \in IF Exhausted(c.flow.cleanups) THEN CompleteAbort(y) ELSE {x}
  BY DEF RetryCleanup
<1> HIDE DEF f, l, g, x, y
<1>7. x \in Badge
  BY <1>1, <1>3, <1>5 DEF Badge
<1>8. /\ x.flow = f /\ x.latch = c.latch /\ x.session = c.session /\ x.busy = c.busy
      /\ x.held = c.held /\ x.selected = c.selected /\ x.gaveUp = c.gaveUp
      /\ x.terminals = c.terminals /\ x.binary = c.binary
  BY <1>1, <1>5 DEF Badge
<1>9. g \in BOOLEAN /\ (g <=> c.session.owns # {})
  BY <1>1 DEF g, Owned
<1>10. y \in Badge
  BY <1>4, <1>5, <1>7, <1>9 DEF Badge
<1>11. /\ y.flow = f /\ y.latch = l /\ y.session = c.session /\ y.busy = c.busy
       /\ y.held = c.held /\ y.selected = c.selected /\ y.gaveUp = g
       /\ y.terminals = c.terminals /\ y.binary = c.binary
  BY <1>5, <1>7, <1>8 DEF Badge
<1>12. CASE ~Exhausted(c.flow.cleanups)
  <2>1. d = x
    BY <1>6, <1>12
  <2>2. Owned(x) /\ Answered(x) /\ Resting(x)
    <3>1. Owned(x)
      BY <1>1, <1>2, <1>3, <1>8 DEF Owned, Live
    <3>2. Answered(x)
      BY <1>1, <1>3, <1>8 DEF Answered
    <3>3. x.latch.abort /\ Untold(x) /\ Uncommitted(x)
      BY <1>1, <1>3, <1>8 DEF Untold, Uncommitted
    <3>4. x.terminals = 1 => x.flow.aborted
      BY <3>3 DEF Untold
    <3> QED BY <1>1, <1>8, <3>1, <3>2, <3>3, <3>4 DEF Resting
  <2> QED BY <1>7, <2>1, <2>2 DEF Sound
<1>13. CASE Exhausted(c.flow.cleanups)
  <2>1. ~Live(c)
    BY <1>2, <1>13, FiguresAssumption, BoundsAssumption DEF Exhausted
  <2>2. Owned(y)
    <3>1. g => c.session.state = "error" /\ c.session.owns = {"operation"}
      BY <1>1, <1>9, <2>1 DEF Owned, Live, SessionState, Uncommitted
    <3> QED BY <1>1, <1>11, <2>1, <3>1 DEF Owned, Live
  <2>3. Answered(y) /\ Uncommitted(y) /\ Untold(y)
    BY <1>1, <1>3, <1>4, <1>11 DEF Answered, Uncommitted, Untold
  <2>4. Settled(y)
    BY <1>1, <1>9, <1>10, <1>11, <2>1, <2>2, <2>3 DEF Settled, Abortable, Cleaning, Live
  <2>5. d \in CompleteAbort(y)
    BY <1>6, <1>13
  <2> QED BY <2>4, <2>5, CompletedAbort
<1> QED BY <1>12, <1>13

LEMMA AbortedOta ==
    ASSUME MaxBusy < RetryLimit, NEW c, Abortable(c), NEW d, d \in AbortOta(c)
    PROVE  Sound(d)
<1> DEFINE l == [c.latch EXCEPT !.abort = TRUE]
           x == [c EXCEPT !.latch.abort = TRUE]
<1>1. /\ c \in Badge /\ c.latch \in LatchType /\ c.flow \in FlowType
      /\ Owned(c) /\ Uncommitted(c)
  BY DEF Abortable, Cleaning, Badge
<1>2. /\ l \in LatchType /\ l.abort /\ l.terminal = c.latch.terminal
      /\ l.restart = c.latch.restart
  BY <1>1 DEF LatchType
<1>3. x = [c EXCEPT !.latch = l]
  BY <1>1 DEF Badge
<1>4. \/ d \in CompleteAbort([CleanedUp(x, TRUE) EXCEPT !.flow.cleanups = 0])
      \/ MayRefuse(x) /\ d \in RetryCleanup(CleanedUp(x, FALSE))
      \/ x.busy > 0 /\ d \in RetryCleanup([x EXCEPT !.busy = @ - 1])
  BY DEF AbortOta
<1> HIDE DEF l, x
<1>5. x \in Badge
  BY <1>1, <1>2, <1>3 DEF Badge
<1>6. /\ x.latch = l /\ x.flow = c.flow /\ x.session = c.session /\ x.busy = c.busy
      /\ x.held = c.held /\ x.selected = c.selected /\ x.gaveUp = c.gaveUp
      /\ x.terminals = c.terminals /\ x.binary = c.binary
  BY <1>1, <1>3 DEF Badge
<1>7. x.busy \in Nat /\ x.flow \in FlowType /\ x.flow.cleanups \in Nat
  BY <1>5, <1>6 DEF Badge, FlowType
<1>8. Abortable(x) /\ x.latch.abort
  BY <1>2, <1>5, <1>6, <1>7, AbortableCarries
<1>9. Cleaning(x) /\ Untold(x) /\ x.session.state # "preparing"
  BY <1>8 DEF Abortable
<1>10. CASE d \in CompleteAbort([CleanedUp(x, TRUE) EXCEPT !.flow.cleanups = 0])
  <2> DEFINE y == CleanedUp(x, TRUE)
             f == [y.flow EXCEPT !.cleanups = 0]
             z == [y EXCEPT !.flow.cleanups = 0]
  <2>1. /\ Cleaning(y) /\ y.session.state \in {"idle", "error"} /\ ~Live(y)
        /\ y.session.owns = {} /\ ~y.gaveUp
        /\ y.flow = x.flow /\ y.terminals = x.terminals
    BY <1>9, CleanedUpCleans
  <2> HIDE DEF y
  <2>2. y \in Badge /\ y.flow \in FlowType
    BY <2>1 DEF Cleaning, Badge
  <2>3. z = [y EXCEPT !.flow = f]
    BY <2>2 DEF Badge
  <2>4. /\ f \in FlowType /\ f.aborted = y.flow.aborted /\ f.committed = y.flow.committed
        /\ f.terminal = y.flow.terminal /\ f.cleanup = y.flow.cleanup /\ f.cleanups = 0
    BY <2>2 DEF FlowType
  <2> HIDE DEF f, z
  <2>5. z \in Badge
    BY <2>2, <2>3, <2>4 DEF Badge
  <2>6. /\ z.latch = y.latch /\ z.flow = f /\ z.session = y.session /\ z.busy = y.busy
        /\ z.held = y.held /\ z.selected = y.selected /\ z.gaveUp = y.gaveUp
        /\ z.terminals = y.terminals /\ z.binary = y.binary
    BY <2>2, <2>3 DEF Badge
  <2>7. Abortable(y)
    BY <1>9, <2>1 DEF Abortable, Untold
  <2>8. y.flow.cleanups \in Nat /\ y.busy \in Nat
    BY <2>2 DEF Badge, FlowType
  <2>9. Abortable(z) /\ ~Live(z)
    BY <2>1, <2>4, <2>5, <2>6, <2>7, <2>8, AbortableCarries
  <2>10. Settled(z)
    BY <2>1, <2>6, <2>9 DEF Settled
  <2>11. d \in CompleteAbort(z)
    BY <1>10 DEF z, y
  <2> QED BY <2>10, <2>11, CompletedAbort
<1>11. CASE MayRefuse(x) /\ d \in RetryCleanup(CleanedUp(x, FALSE))
  <2> DEFINE y == CleanedUp(x, FALSE)
  <2>1. /\ Cleaning(y) /\ y.session.state \in {"idle", "error"} /\ ~Live(y)
        /\ y.flow = x.flow /\ y.latch = x.latch /\ y.terminals = x.terminals
    BY <1>9, <1>11, CleanedUpCleans
  <2>2. Abortable(y) /\ y.latch.abort
    BY <1>8, <1>9, <2>1 DEF Abortable, Untold
  <2> HIDE DEF y
  <2>3. d \in RetryCleanup(y)
    BY <1>11 DEF y
  <2> QED BY <2>1, <2>2, <2>3, RetriedCleanup
<1>12. CASE x.busy > 0 /\ d \in RetryCleanup([x EXCEPT !.busy = @ - 1])
  <2> DEFINE y == [x EXCEPT !.busy = @ - 1]
  <2>1. x.busy - 1 \in Nat
    BY <1>7, <1>12
  <2>2. y \in Badge
    BY <1>5, <2>1 DEF Badge
  <2>3. /\ y.latch = x.latch /\ y.flow = x.flow /\ y.session = x.session
        /\ y.busy = x.busy - 1
        /\ y.held = x.held /\ y.selected = x.selected /\ y.gaveUp = x.gaveUp
        /\ y.terminals = x.terminals /\ y.binary = x.binary
    BY <1>5 DEF Badge
  <2> HIDE DEF y
  <2>4. Abortable(y) /\ (Live(y) <=> Live(x))
    BY <1>7, <1>8, <2>1, <2>2, <2>3, AbortableCarries
  <2>5. Live(x) => x.flow.cleanups + x.busy <= MaxBusy
    BY <1>9 DEF Cleaning, Owned
  <2>6. Live(y) => y.flow.cleanups + 1 + y.busy <= MaxBusy
    BY <1>7, <2>3, <2>4, <2>5, BoundsAssumption
  <2>7. d \in RetryCleanup(y)
    BY <1>12 DEF y
  <2> QED BY <1>8, <2>3, <2>4, <2>6, <2>7, RetriedCleanup
<1> QED BY <1>4, <1>10, <1>11, <1>12

LEMMA AdapterFailure ==
    ASSUME MaxBusy < RetryLimit, NEW c, Abortable(c), NEW d, d \in AdapterFailed(c)
    PROVE  Sound(d)
<1> DEFINE x == [c EXCEPT !.flow = AbortFlow(@)]
<1>1. /\ Abortable(x) /\ x.flow.aborted
      /\ Cleaning(x) /\ x.session.state # "preparing"
  BY FlowAborts DEF Abortable
<1>2. \/ d \in CompleteAbort(CleanedUp(x, TRUE))
      \/ MayRefuse(x) /\ d \in AbortOta(CleanedUp(x, FALSE))
  BY DEF AdapterFailed, MayRefuse
<1> HIDE DEF x
<1>3. CASE d \in CompleteAbort(CleanedUp(x, TRUE))
  <2> DEFINE y == CleanedUp(x, TRUE)
  <2>1. /\ Cleaning(y) /\ y.session.state \in {"idle", "error"} /\ ~Live(y)
        /\ y.session.owns = {} /\ y.flow = x.flow
    BY <1>1, CleanedUpCleans
  <2> HIDE DEF y
  <2>2. Settled(y)
    BY <1>1, <2>1 DEF Settled, Abortable, Untold
  <2> QED BY <1>3, <2>2, CompletedAbort DEF y
<1>4. CASE MayRefuse(x) /\ d \in AbortOta(CleanedUp(x, FALSE))
  <2> DEFINE y == CleanedUp(x, FALSE)
  <2>1. Cleaning(y) /\ y.session.state \in {"idle", "error"} /\ y.flow = x.flow
    BY <1>1, <1>4, CleanedUpCleans
  <2> HIDE DEF y
  <2>2. Abortable(y)
    BY <1>1, <2>1 DEF Abortable, Untold
  <2> QED BY <1>4, <2>2, AbortedOta DEF y
<1> QED BY <1>2, <1>3, <1>4

-----------------------------------------------------------------------------
(* Receipts.                                                               *)

\* The credit on its way is the room the session has granted.
Awaited(c) ==
    /\ Abortable(c) /\ c.session.state = "receiving" /\ Counted(c)
    /\ c.flow.pendingCredit = c.session.creditAt - c.session.transport

LEMMA SentAbortable ==
    ASSUME NEW c, Abortable(c), NEW x, SameButAnswers(c, x), x.terminals = c.terminals
    PROVE  Abortable(x) /\ (Live(x) <=> Live(c))
<1>1. c \in Badge /\ x \in Badge
  BY DEF Abortable, Cleaning, SameButAnswers
<1>2. c.busy \in Nat /\ c.flow \in FlowType /\ c.flow.cleanups \in Nat
  BY <1>1 DEF Badge, FlowType
<1>3. x.busy <= c.busy /\ x.flow.cleanups + x.busy <= c.flow.cleanups + c.busy
  BY <1>2 DEF SameButAnswers
<1> QED BY <1>1, <1>3, AbortableCarries DEF SameButAnswers

LEMMA ReceiptResult ==
    ASSUME MaxBusy < RetryLimit, NEW c, Awaited(c),
           NEW frame, frame \in Frames, frame.kind \notin Outcomes,
           NEW d, d \in Receipt(c, frame)
    PROVE  Sound(d)
<1> DEFINE sent(e) == Emitted(c, e, frame)
           lost(x) == [x EXCEPT !.flow = AbortFlow(@)]
           ambiguous(x) == [lost(x) EXCEPT !.latch.suppress = TRUE, !.latch.recovery = TRUE]
<1>1. PICK e \in Emissions(c) :
        d \in CASE e = "completed" ->
                     {[sent(e) EXCEPT !.flow = Acknowledged(@), !.binary = TRUE]}
                [] e = "failed" -> AbortOta(lost(sent(e)))
                [] OTHER -> AbortOta(ambiguous(sent(e)))
  BY ZenonT(60) DEF Receipt
<1> DEFINE x == sent(e)
<1>2. SameButAnswers(c, x) /\ x.terminals = c.terminals
  BY EmittedAnswers DEF Awaited, Abortable, Cleaning
<1> HIDE DEF sent
<1>3. /\ Abortable(x) /\ x \in Badge /\ x.flow \in FlowType /\ x.latch \in LatchType
      /\ Cleaning(x) /\ Owned(x) /\ Answered(x) /\ Uncommitted(x)
      /\ x.terminals = 0 /\ x.session.state = "receiving"
  BY <1>2, SentAbortable DEF Awaited, Abortable, Cleaning, Badge, SameButAnswers, Counted, Untold
<1> HIDE DEF x
<1>4. CASE e = "completed"
  <2> DEFINE f == Acknowledged(x.flow)
  <2>1. d = [x EXCEPT !.flow = f, !.binary = TRUE]
    BY <1>1, <1>4 DEF x
  <2>2. x.flow.pendingCredit \in Nat
    BY <1>3 DEF FlowType
  <2>3. /\ f \in FlowType /\ f.aborted = x.flow.aborted /\ f.committed = x.flow.committed
        /\ f.terminal = x.flow.terminal /\ f.cleanup = x.flow.cleanup
        /\ f.cleanups = x.flow.cleanups /\ f.finish = x.flow.finish
        /\ f.total = x.flow.total /\ f.transport = x.flow.transport
        /\ f.durable = x.flow.durable
        /\ f.credit = x.flow.pendingCredit /\ f.pendingCredit = 0 /\ ~f.waiting
    BY <1>3, <2>2 DEF Acknowledged, FlowType
  <2> HIDE DEF f
  <2>4. d \in Badge
    BY <1>3, <2>1, <2>3 DEF Badge
  <2>5. /\ d.flow = f /\ d.latch = x.latch /\ d.session = x.session /\ d.busy = x.busy
        /\ d.held = x.held /\ d.selected = x.selected /\ d.gaveUp = x.gaveUp
        /\ d.terminals = x.terminals /\ d.binary
    BY <1>3, <2>1 DEF Badge
  <2>6. c.flow = x.flow /\ c.session = x.session /\ c.latch = x.latch
    BY <1>2 DEF SameButAnswers, x
  <2>7. Agreed(d)
    BY <1>3, <2>3, <2>5, <2>6 DEF Awaited, Agreed, Counted, Granted
  <2>8. Owned(d) /\ Uncommitted(d)
    BY <1>3, <2>3, <2>5 DEF Owned, Uncommitted, Live
  <2>9. Answered(d)
    BY <1>3, <2>3, <2>5, <2>7 DEF Answered, Agreed, Counted
  <2>10. Resting(d)
    BY <1>3, <2>5, <2>7, <2>8 DEF Resting, Live
  <2> QED BY <2>4, <2>8, <2>9, <2>10 DEF Sound
<1>5. CASE e = "failed"
  <2>1. Abortable(lost(x))
    BY <1>3, FlowAborts
  <2> HIDE DEF lost
  <2>2. d \in AbortOta(lost(x))
    BY <1>1, <1>5 DEF x
  <2> QED BY <2>1, <2>2, AbortedOta
<1>6. CASE e \notin {"completed", "failed"}
  <2> DEFINE y == lost(x)
             l == [y.latch EXCEPT !.suppress = TRUE, !.recovery = TRUE]
             z == ambiguous(x)
  <2>1. Abortable(y) /\ y \in Badge /\ y.latch \in LatchType
    BY <1>3, FlowAborts DEF Abortable, Cleaning, Badge
  <2>2. d \in AbortOta(z)
    BY <1>1, <1>6 DEF x
  <2> HIDE DEF lost, y
  <2>3. z = [y EXCEPT !.latch = l]
    BY <2>1 DEF Badge, y
  <2>4. /\ l \in LatchType /\ l.terminal = y.latch.terminal /\ l.restart = y.latch.restart
    BY <2>1 DEF LatchType
  <2> HIDE DEF l, z
  <2>5. z \in Badge
    BY <2>1, <2>3, <2>4 DEF Badge
  <2>6. /\ z.latch = l /\ z.flow = y.flow /\ z.session = y.session /\ z.busy = y.busy
        /\ z.held = y.held /\ z.selected = y.selected /\ z.gaveUp = y.gaveUp
        /\ z.terminals = y.terminals /\ z.binary = y.binary
    BY <2>1, <2>3 DEF Badge
  <2>7. y.busy \in Nat /\ y.flow \in FlowType /\ y.flow.cleanups \in Nat
    BY <2>1 DEF Badge, FlowType
  <2>8. Abortable(z)
    BY <2>1, <2>4, <2>5, <2>6, <2>7, AbortableCarries
  <2> QED BY <2>2, <2>8, AbortedOta
<1> QED BY <1>4, <1>5, <1>6, SMTT(60)

-----------------------------------------------------------------------------
(* Beginning.                                                              *)

\* A pass that may begin a transfer finds nothing taken from before.
Idle(c) ==
    /\ Sound(c) /\ AtRest(c) /\ ~c.binary

LEMMA IdleBadge ==
    ASSUME NEW c, Idle(c)
    PROVE  /\ c \in Badge /\ Uncommitted(c) /\ Owned(c) /\ ~Live(c)
           /\ c.session.state \in {"idle", "error"}
           /\ c.session.owns # {} => c.gaveUp
<1>1. c \in Badge /\ Owned(c) /\ Resting(c) /\ c.session \in SessionType
  BY DEF Idle, Sound, Badge
<1>2. ~c.latch.restart /\ ~c.latch.abort /\ c.up /\ ~c.binary
  BY DEF Idle, AtRest, Unlatched
<1>3. Uncommitted(c) /\ ~Live(c) /\ c.session.state # "preparing"
  BY <1>1, <1>2 DEF Resting, SelectedShape
<1>4. c.session.state \in {"idle", "error"}
  BY <1>1, <1>3 DEF Uncommitted, Live, SessionType, SessionState
<1>5. c.session.owns # {} => c.gaveUp
  BY <1>1, <1>2, <1>3, <1>4 DEF Resting, Owned, Uncommitted, SelectedShape
<1> QED BY <1>1, <1>3, <1>4, <1>5

LEMMA BegunBadge ==
    ASSUME NEW o, o \in BeginOutcomes, NEW size, size \in Sizes
    PROVE  /\ o.got \subseteq Resources
           /\ o.fail = "operation" => o.got = {}
           /\ o.fail # "operation" => "operation" \in o.got
           /\ Begun(o, size) \in SessionType /\ Begun(o, size).owns = o.got
           /\ ~Begun(o, size).cleaned
           /\ o.fail = "operation" => Begun(o, size).state = "idle"
           /\ o.fail = "none" => Begun(o, size) =
                 [NoSession EXCEPT !.state = "receiving", !.owns = o.got, !.size = size,
                                   !.creditAt = Smaller(Credit, size), !.credit = TRUE]
           /\ o.fail \notin {"operation", "none"} => Begun(o, size).state = "preparing"
<1>1. ASSUME NEW fail, NEW fixed, NEW scanners, o \in Beginning(fail, fixed, scanners),
             fixed \subseteq Resources, scanners \subseteq Scanners,
             fail = "operation" => fixed = {} /\ scanners = {},
             fail # "operation" => "operation" \in fixed
      PROVE  /\ o.got \subseteq Resources
             /\ o.fail = "operation" => o.got = {}
             /\ o.fail # "operation" => "operation" \in o.got
  <2>1. PICK s \in SUBSET scanners : o = [fail |-> fail, got |-> fixed \cup s]
    BY <1>1 DEF Beginning
  <2>2. o.fail = fail /\ o.got = fixed \cup s
    BY <2>1
  <2>3. s \subseteq Resources
    BY <1>1, <2>1 DEF Resources
  <2> QED BY <1>1, <2>1, <2>2, <2>3
<1>2. /\ o.got \subseteq Resources
      /\ o.fail = "operation" => o.got = {}
      /\ o.fail # "operation" => "operation" \in o.got
  <2>1. CASE o \in Beginning("operation", {}, {})
    BY <1>1, <2>1
  <2>2. CASE o \in Beginning("checks", {"operation"}, {})
    BY <1>1, <2>2 DEF Resources
  <2>3. CASE o \in Beginning("scanner0", {"operation"}, {"scanner0"})
    BY <1>1, <2>3 DEF Resources, Scanners
  <2>4. CASE o \in Beginning("scanner1", {"operation"}, Scanners)
    BY <1>1, <2>4 DEF Resources
  <2>5. CASE o \in Beginning("handle", {"operation"}, Scanners)
    BY <1>1, <2>5 DEF Resources
  <2>6. CASE o \in Beginning("digest", {"operation", "handle"}, Scanners)
    BY <1>1, <2>6 DEF Resources
  <2>7. CASE o \in Beginning("none", {"operation", "handle", "digest"}, Scanners)
    BY <1>1, <2>7 DEF Resources
  <2> QED BY <2>1, <2>2, <2>3, <2>4, <2>5, <2>6, <2>7 DEF BeginOutcomes
<1>3. size \in Nat /\ Smaller(Credit, size) \in Nat
  BY FiguresAssumption DEF Smaller
<1>4. NoSession \in SessionType /\ NoSession.owns = {} /\ ~NoSession.cleaned
      /\ NoSession.state = "idle"
  BY DEF NoSession, SessionType, SessionState
<1>5. CASE o.fail = "operation"
  BY <1>2, <1>4, <1>5 DEF Begun
<1>6. CASE o.fail # "operation"
  <2> DEFINE t == IF o.fail = "none" THEN "receiving" ELSE "preparing"
             b == [NoSession EXCEPT !.state = t, !.owns = o.got, !.size = size,
                                    !.creditAt = Smaller(Credit, size), !.credit = TRUE]
  <2>1. Begun(o, size) = b
    BY <1>6 DEF Begun, Recorded
  <2>2. t \in SessionState
    BY DEF SessionState
  <2> HIDE DEF t
  <2>3. b \in SessionType /\ b.owns = o.got /\ ~b.cleaned /\ b.state = t
    BY <1>2, <1>3, <1>4, <2>2 DEF SessionType
  <2> QED BY <1>2, <1>6, <2>1, <2>3 DEF t
<1> QED BY <1>5, <1>6

\* A frame that tells no outcome changes nothing of this.
LEMMA SentSound ==
    ASSUME NEW c, Sound(c), NEW d, SameButAnswers(c, d), d.terminals = c.terminals
    PROVE  Sound(d)
<1>1. d \in Badge
  BY DEF SameButAnswers
<1>2. Owned(d) /\ Answered(d)
  BY DEF Sound, SameButAnswers, Owned, Answered, Live
<1>3. /\ Unlatched(d) <=> Unlatched(c)
      /\ Live(d) <=> Live(c)
      /\ Uncommitted(d) <=> Uncommitted(c)
      /\ SelectedShape(d) <=> SelectedShape(c)
      /\ Agreed(d) <=> Agreed(c)
  BY DEF SameButAnswers, Unlatched, Live, Uncommitted, SelectedShape, Agreed, Counted, Granted
<1>4. Resting(d)
  BY <1>3 DEF Sound, SameButAnswers, Resting
<1> QED BY <1>1, <1>2, <1>4 DEF Sound

\* The flow and the latches are reset, and nothing else.
Fresh(d) ==
    /\ d \in Badge /\ Owned(d) /\ Uncommitted(d)
    /\ d.up /\ ~d.binary /\ d.pending = <<>> /\ d.terminals = 0
    /\ d.flow = NoFlow /\ d.latch = NoLatch
    /\ d.session.state \in {"idle", "error"}
    /\ d.session.owns # {} => d.gaveUp

LEMMA EmptyFlow ==
    /\ NoFlow \in FlowType /\ NoFlow.cleanups = 0 /\ ~NoFlow.aborted /\ ~NoFlow.committed
    /\ ~NoFlow.terminal /\ ~NoFlow.cleanup /\ ~NoFlow.finish /\ ~NoFlow.waiting
    /\ NoLatch \in LatchType /\ ~NoLatch.abort /\ ~NoLatch.finish /\ ~NoLatch.terminal
    /\ ~NoLatch.restart
BY DEF NoFlow, FlowType, NoLatch, LatchType

LEMMA FreshSound ==
    ASSUME NEW d, Fresh(d)
    PROVE  Sound(d)
<1>1. Answered(d)
  BY EmptyFlow DEF Fresh, Answered
<1>2. Resting(d)
  BY EmptyFlow DEF Fresh, Resting, Live
<1> QED BY <1>1, <1>2 DEF Fresh, Sound

LEMMA FreshBadge ==
    ASSUME NEW c, Idle(c)
    PROVE  Fresh([c EXCEPT !.flow = NoFlow, !.latch = NoLatch, !.terminals = 0])
<1> DEFINE d == [c EXCEPT !.flow = NoFlow, !.latch = NoLatch, !.terminals = 0]
<1>1. /\ c \in Badge /\ Uncommitted(c) /\ Owned(c) /\ ~Live(c)
      /\ c.session.state \in {"idle", "error"}
      /\ c.session.owns # {} => c.gaveUp
  BY IdleBadge
<1>2. c.up /\ ~c.binary /\ c.pending = <<>>
  BY DEF Idle, AtRest
<1>3. d \in Badge
  BY <1>1, EmptyFlow DEF Badge
<1>4. /\ d.flow = NoFlow /\ d.latch = NoLatch /\ d.terminals = 0 /\ d.up = c.up
      /\ d.session = c.session /\ d.held = c.held /\ d.gaveUp = c.gaveUp /\ d.busy = c.busy
      /\ d.binary = c.binary /\ d.pending = c.pending /\ d.selected = c.selected
  BY <1>1 DEF Badge
<1> HIDE DEF d
<1>5. Owned(d) /\ Uncommitted(d)
  BY <1>1, <1>4, EmptyFlow DEF Owned, Uncommitted, Live
<1>6. Fresh(d)
  BY <1>1, <1>2, <1>3, <1>4, <1>5 DEF Fresh
<1> QED BY <1>6 DEF d

\* A begin that fails on its way is cleaned up at once, or later by an abort.
LEMMA BegunFails ==
    ASSUME NEW c, Cleaning(c), ~c.binary, c.pending = <<>>, c.terminals = 0,
           c.flow = NoFlow, c.latch = NoLatch,
           NEW d, d \in BeginFailed(c)
    PROVE  Sound(d)
<1>1. \/ d \in Reply(CleanedUp(c, TRUE), "aborted")
      \/ MayRefuse(c) /\ d \in Reply([CleanedUp(c, FALSE) EXCEPT !.latch.abort = TRUE], "busy")
  BY DEF BeginFailed
<1>2. CASE d \in Reply(CleanedUp(c, TRUE), "aborted")
  <2> DEFINE x == CleanedUp(c, TRUE)
  <2>1. /\ Cleaning(x) /\ x.session.state \in {"idle", "error"} /\ ~Live(x)
        /\ x.session.owns = {} /\ x.flow = c.flow /\ x.latch = c.latch
        /\ x.binary = c.binary /\ x.pending = c.pending /\ x.terminals = c.terminals
    BY CleanedUpCleans
  <2> HIDE DEF x
  <2>2. x \in Badge /\ Owned(x) /\ Uncommitted(x)
    BY <2>1 DEF Cleaning
  <2>3. d \in Reply(x, "aborted")
    BY <1>2 DEF x
  <2>4. SameButAnswers(x, d) /\ (d.terminals = 0 \/ d.terminals = 1)
    BY <2>1, <2>2, <2>3, ReplyAnswers
  <2>5. Owned(d) /\ Uncommitted(d) /\ ~Live(d)
    BY <2>1, <2>2, <2>4 DEF SameButAnswers, Owned, Uncommitted, Live
  <2>6. Answered(d)
    BY <2>1, <2>4, EmptyFlow DEF SameButAnswers, Answered
  <2>7. Resting(d)
    BY <2>1, <2>4, <2>5, EmptyFlow DEF SameButAnswers, Resting, Unlatched
  <2> QED BY <2>4, <2>5, <2>6, <2>7 DEF Sound, SameButAnswers
<1>3. CASE MayRefuse(c) /\ d \in Reply([CleanedUp(c, FALSE) EXCEPT !.latch.abort = TRUE], "busy")
  <2> DEFINE x == CleanedUp(c, FALSE)
             l == [x.latch EXCEPT !.abort = TRUE]
             y == [x EXCEPT !.latch.abort = TRUE]
  <2>1. /\ Cleaning(x) /\ x.session.state \in {"idle", "error"} /\ ~Live(x)
        /\ x.flow = c.flow /\ x.latch = c.latch
        /\ x.binary = c.binary /\ x.pending = c.pending /\ x.terminals = c.terminals
    BY <1>3, CleanedUpCleans
  <2> HIDE DEF x
  <2>2. x \in Badge /\ Owned(x) /\ Uncommitted(x) /\ x.latch \in LatchType
    BY <2>1 DEF Cleaning, Badge
  <2>3. l \in LatchType /\ l.abort /\ ~l.terminal /\ ~l.restart
    BY <2>1, <2>2, EmptyFlow DEF LatchType
  <2>4. y = [x EXCEPT !.latch = l]
    BY <2>2 DEF Badge
  <2> HIDE DEF l, y
  <2>5. y \in Badge
    BY <2>2, <2>3, <2>4 DEF Badge
  <2>6. /\ y.latch = l /\ y.flow = x.flow /\ y.session = x.session /\ y.busy = x.busy
        /\ y.held = x.held /\ y.selected = x.selected /\ y.gaveUp = x.gaveUp
        /\ y.terminals = x.terminals /\ y.binary = x.binary
    BY <2>2, <2>4 DEF Badge
  <2>7. Owned(y) /\ Uncommitted(y) /\ ~Live(y)
    BY <2>1, <2>2, <2>3, <2>6 DEF Owned, Uncommitted, Live
  <2>8. Answered(y)
    BY <2>1, <2>3, <2>6, EmptyFlow DEF Answered
  <2>9. Resting(y)
    BY <2>1, <2>3, <2>6, <2>7 DEF Resting
  <2>10. Sound(y) /\ d \in Reply(y, "busy")
    BY <1>3, <2>5, <2>7, <2>8, <2>9 DEF Sound, y, x
  <2>11. SameButAnswers(y, d) /\ d.terminals = y.terminals
    BY <2>5, <2>10, ReplyAnswers
  <2> QED BY <2>10, <2>11, SentSound
<1> QED BY <1>1, <1>2, <1>3

\* The flow of a transfer that begins awaits the receipt of its first credit.
LEMMA BegunFlow ==
    ASSUME NEW size, size \in Nat, NEW credit, credit \in Nat
    PROVE  LET f == FlowBegun(size, credit) IN
           /\ f \in FlowType /\ f.total = size /\ f.pendingCredit = credit
           /\ f.cleanups = 0 /\ f.transport = 0 /\ f.durable = 0
           /\ ~f.aborted /\ ~f.committed /\ ~f.terminal /\ ~f.cleanup /\ ~f.finish
BY EmptyFlow DEF FlowBegun, FlowType, NoFlow

LEMMA BegunWith ==
    ASSUME MaxBusy < RetryLimit, NEW c, Fresh(c), c.session.owns = {},
           NEW o, o \in BeginOutcomes, NEW size, size \in Sizes,
           NEW d, d \in BeginWith(c, o, size)
    PROVE  Sound(d)
<1> DEFINE s == Begun(o, size)
           h == c.held \cup o.got
           x == [c EXCEPT !.session = s, !.held = h]
           granted == Smaller(Credit, size)
<1>1. /\ c \in Badge /\ Owned(c) /\ Uncommitted(c) /\ c.held = {} /\ ~c.gaveUp
      /\ c.busy <= MaxBusy
  BY DEF Fresh, Owned
<1>2. /\ o.got \subseteq Resources
      /\ o.fail = "operation" => o.got = {}
      /\ o.fail # "operation" => "operation" \in o.got
      /\ s \in SessionType /\ s.owns = o.got /\ ~s.cleaned
      /\ o.fail = "operation" => s.state = "idle"
      /\ o.fail = "none" => s =
           [NoSession EXCEPT !.state = "receiving", !.owns = o.got, !.size = size,
                             !.creditAt = granted, !.credit = TRUE]
      /\ o.fail \notin {"operation", "none"} => s.state = "preparing"
  BY BegunBadge
<1>3. h = o.got
  BY <1>1
<1>4. \/ o.fail = "operation" /\ d \in Reply(x, "busy")
      \/ o.fail = "none" /\
           d \in Receipt([x EXCEPT !.flow = FlowBegun(size, granted), !.pure = TRUE],
                         Frame("ready", granted))
      \/ o.fail \notin {"operation", "none"} /\ d \in BeginFailed(x)
  BY DEF BeginWith
<1>5. size \in Nat /\ granted \in Nat /\ granted > 0 /\ granted <= size /\ Descriptor < size
  BY FiguresAssumption DEF Smaller
<1> HIDE DEF s, h, x, granted
<1>6. x \in Badge
  BY <1>1, <1>2, <1>3 DEF Badge, x
<1>7. /\ x.session = s /\ x.held = s.owns /\ ~x.gaveUp /\ x.flow = NoFlow
      /\ x.latch = NoLatch /\ x.terminals = 0 /\ x.up /\ ~x.binary /\ x.pending = <<>>
      /\ ~x.selected /\ x.busy = c.busy
  BY <1>1, <1>2, <1>3 DEF Fresh, Badge, Uncommitted, x
<1>8. /\ s.state \in {"idle", "receiving", "preparing"}
      /\ s.state = "idle" => s.owns = {}
      /\ s.state = "receiving" => "operation" \in s.owns
  <2>1. CASE o.fail = "none"
    <3>1. s.state = "receiving"
      BY <1>2, <2>1 DEF NoSession
    <3> QED BY <1>2, <2>1, <3>1
  <2> QED BY <1>2, <2>1
<1>9. Owned(x)
  BY <1>1, <1>2, <1>6, <1>7, <1>8, EmptyFlow DEF Owned, Badge, Live
<1>10. Answered(x) /\ Uncommitted(x)
  BY <1>7, <1>8, EmptyFlow DEF Answered, Uncommitted
<1>11. CASE o.fail = "operation" /\ d \in Reply(x, "busy")
  <2>1. Fresh(x)
    BY <1>2, <1>6, <1>7, <1>9, <1>10, <1>11 DEF Fresh
  <2>2. SameButAnswers(x, d) /\ d.terminals = x.terminals
    BY <1>6, <1>11, ReplyAnswers
  <2> QED BY <2>1, <2>2, FreshSound, SentSound
<1>12. CASE o.fail = "none" /\
         d \in Receipt([x EXCEPT !.flow = FlowBegun(size, granted), !.pure = TRUE],
                       Frame("ready", granted))
  <2> DEFINE f == FlowBegun(size, granted)
             y == [x EXCEPT !.flow = f, !.pure = TRUE]
             frame == Frame("ready", granted)
  <2>1. /\ f \in FlowType /\ f.total = size /\ f.pendingCredit = granted
        /\ f.cleanups = 0 /\ f.transport = 0 /\ f.durable = 0
        /\ ~f.aborted /\ ~f.committed /\ ~f.terminal /\ ~f.cleanup /\ ~f.finish
    BY <1>5, BegunFlow
  <2>2. frame \in Frames /\ frame.kind \notin Outcomes
    BY <1>5 DEF Frame, Frames, Outcomes
  <2>3. d \in Receipt(y, frame)
    BY <1>12
  <2> HIDE DEF f, y, frame
  <2>4. y \in Badge
    BY <1>6, <2>1 DEF Badge, y
  <2>5. /\ y.flow = f /\ y.session = s /\ y.held = s.owns /\ ~y.gaveUp
        /\ y.latch = NoLatch /\ y.terminals = 0 /\ ~y.binary /\ ~y.selected /\ y.busy = c.busy
    BY <1>6, <1>7, <2>1 DEF Badge, y
  <2>6. /\ s.state = "receiving" /\ s.size = size /\ s.creditAt = granted
        /\ s.transport = 0 /\ s.durable = 0
    BY <1>2, <1>12 DEF NoSession
  <2>7. Owned(y)
    BY <1>1, <1>2, <1>12, <2>1, <2>4, <2>5, <2>6 DEF Owned, Badge
  <2>8. Answered(y) /\ Uncommitted(y) /\ Untold(y)
    BY <2>1, <2>5, <2>6, EmptyFlow DEF Answered, Uncommitted, Untold
  <2>9. Counted(y)
    BY <1>5, <2>1, <2>5, <2>6, FiguresAssumption, EmptyFlow DEF Counted, Durable
  <2>10. y.flow.pendingCredit = y.session.creditAt - y.session.transport
    BY <1>5, <2>1, <2>5, <2>6
  <2>11. Awaited(y)
    BY <2>4, <2>5, <2>6, <2>7, <2>8, <2>9, <2>10 DEF Awaited, Abortable, Cleaning
  <2> QED BY <2>2, <2>3, <2>11, ReceiptResult
<1>13. CASE o.fail \notin {"operation", "none"} /\ d \in BeginFailed(x)
  <2>1. Cleaning(x)
    BY <1>6, <1>9, <1>10 DEF Cleaning
  <2> QED BY <1>7, <1>13, <2>1, BegunFails
<1> QED BY <1>4, <1>11, <1>12, <1>13

LEMMA BeginHandled ==
    ASSUME MaxBusy < RetryLimit, NEW c, Idle(c), NEW d, d \in HandleBegin(c)
    PROVE  Sound(d)
<1> DEFINE x == [c EXCEPT !.flow = NoFlow, !.latch = NoLatch, !.terminals = 0]
<1>1. Fresh(x)
  BY FreshBadge
<1>2. /\ c \in Badge /\ c.session.state \in {"idle", "error"} /\ Owned(c)
      /\ c.session.owns # {} => c.gaveUp
  BY IdleBadge
<1>3. x.session = c.session /\ x.busy = c.busy
  BY <1>2 DEF Badge
<1>4. \/ d \in Reply(c, "busy")
      \/ c.busy > 0 /\ d \in Reply([x EXCEPT !.busy = @ - 1], "busy")
      \/ /\ c.session.state = "error" /\ "operation" \in c.session.owns
         /\ d \in Reply([x EXCEPT !.latch.abort = TRUE], "busy")
      \/ /\ ~(c.session.state = "error" /\ "operation" \in c.session.owns)
         /\ \E o \in BeginOutcomes, size \in Sizes : d \in BeginWith(x, o, size)
  BY <1>2 DEF HandleBegin
<1> HIDE DEF x
<1>5. x \in Badge /\ Owned(x) /\ x.flow = NoFlow /\ x.latch = NoLatch /\ x.busy \in Nat
  BY <1>1 DEF Fresh, Badge
<1>6. CASE d \in Reply(c, "busy")
  <2>1. SameButAnswers(c, d) /\ d.terminals = c.terminals
    BY <1>2, <1>6, ReplyAnswers
  <2> QED BY <2>1, SentSound DEF Idle
<1>7. CASE c.busy > 0 /\ d \in Reply([x EXCEPT !.busy = @ - 1], "busy")
  <2> DEFINE y == [x EXCEPT !.busy = @ - 1]
  <2>1. x.busy - 1 \in Nat
    BY <1>3, <1>5, <1>7
  <2>2. y \in Badge /\ y = [x EXCEPT !.busy = x.busy - 1]
    BY <1>5, <2>1 DEF Badge
  <2>3. /\ y.busy = x.busy - 1 /\ y.flow = x.flow /\ y.latch = x.latch
        /\ y.session = x.session /\ y.held = x.held /\ y.gaveUp = x.gaveUp
        /\ y.up = x.up /\ y.binary = x.binary /\ y.pending = x.pending
        /\ y.terminals = x.terminals /\ y.selected = x.selected
    BY <1>5 DEF Badge
  <2>4. d \in Reply(y, "busy")
    BY <1>7
  <2> HIDE DEF y
  <2>5. x.busy <= MaxBusy /\ y.busy <= MaxBusy
    BY <1>5, <2>3, BoundsAssumption DEF Owned
  <2>6. ~Live(x)
    BY <1>1 DEF Fresh, Live
  <2>7. Owned(y)
    BY <1>5, <2>3, <2>5, <2>6 DEF Owned, Live
  <2>8. Fresh(y)
    BY <1>1, <2>2, <2>3, <2>7 DEF Fresh, Uncommitted
  <2>9. SameButAnswers(y, d) /\ d.terminals = y.terminals
    BY <2>2, <2>4, ReplyAnswers
  <2> QED BY <2>8, <2>9, FreshSound, SentSound
<1>8. CASE d \in Reply([x EXCEPT !.latch.abort = TRUE], "busy")
  <2> DEFINE l == [x.latch EXCEPT !.abort = TRUE]
             y == [x EXCEPT !.latch.abort = TRUE]
  <2>1. l \in LatchType /\ l.abort /\ ~l.terminal /\ ~l.restart
    BY <1>5, EmptyFlow DEF LatchType
  <2>2. y = [x EXCEPT !.latch = l]
    BY <1>5 DEF Badge
  <2>3. d \in Reply(y, "busy")
    BY <1>8
  <2> HIDE DEF l, y
  <2>4. y \in Badge
    BY <1>5, <2>1, <2>2 DEF Badge
  <2>5. /\ y.busy = x.busy /\ y.flow = x.flow /\ y.latch = l
        /\ y.session = x.session /\ y.held = x.held /\ y.gaveUp = x.gaveUp
        /\ y.up = x.up /\ y.binary = x.binary /\ y.pending = x.pending
        /\ y.terminals = x.terminals /\ y.selected = x.selected
    BY <1>5, <2>2 DEF Badge
  <2>6. Owned(y) /\ ~Live(y)
    BY <1>1, <1>5, <2>5 DEF Fresh, Owned, Live
  <2>7. Answered(y)
    BY <1>1, <2>1, <2>5, EmptyFlow DEF Fresh, Answered
  <2>8. Uncommitted(y)
    BY <1>1, <2>1, <2>5 DEF Fresh, Uncommitted
  <2>9. Resting(y)
    BY <1>1, <2>1, <2>5, <2>6, <2>8 DEF Fresh, Resting
  <2>10. Sound(y)
    BY <2>4, <2>6, <2>7, <2>9 DEF Sound
  <2>11. SameButAnswers(y, d) /\ d.terminals = y.terminals
    BY <2>3, <2>4, ReplyAnswers
  <2> QED BY <2>10, <2>11, SentSound
<1>9. CASE /\ ~(c.session.state = "error" /\ "operation" \in c.session.owns)
           /\ \E o \in BeginOutcomes, size \in Sizes : d \in BeginWith(x, o, size)
  <2>1. x.session.owns = {}
    BY <1>2, <1>3, <1>9 DEF Owned
  <2> QED BY <1>1, <1>9, <2>1, BegunWith
<1> QED BY <1>4, <1>6, <1>7, <1>8, <1>9

-----------------------------------------------------------------------------
(* Finishing.                                                              *)

\* A transfer that may be finished: in a session that verifies, every byte is
\* in flash, by both accounts.
Finishable(c) ==
    /\ Abortable(c)
    /\ c.session.state = "verifying" => c.binary /\ Counted(c) /\ Granted(c)

\* A latch or a count of another kind, and a spell of contention that is over,
\* change nothing of an abort.
Retouched(c, f, l, n, d) ==
    /\ f \in FlowType
    /\ f.aborted = c.flow.aborted /\ f.committed = c.flow.committed
    /\ f.terminal = c.flow.terminal /\ f.cleanup = c.flow.cleanup
    /\ f.cleanups = c.flow.cleanups
    /\ l \in LatchType /\ l.terminal = c.latch.terminal /\ l.restart = c.latch.restart
    /\ n \in Nat /\ n <= c.busy
    /\ d = [c EXCEPT !.flow = f, !.latch = l, !.busy = n]

LEMMA RetouchedAbortable ==
    ASSUME NEW c, Abortable(c), NEW f, NEW l, NEW n, NEW d, Retouched(c, f, l, n, d)
    PROVE  /\ Abortable(d) /\ d.flow = f /\ d.latch = l /\ d.busy = n
           /\ d.session = c.session /\ d.binary = c.binary /\ d.terminals = c.terminals
           /\ d.pending = c.pending /\ d.pure = c.pure /\ d.held = c.held
           /\ d.selected = c.selected /\ d.gaveUp = c.gaveUp /\ d.up = c.up
<1>1. c \in Badge
  BY DEF Abortable, Cleaning
<1>2. d \in Badge
  BY <1>1 DEF Badge, Retouched
<1>3. /\ d.latch = l /\ d.flow = f /\ d.session = c.session /\ d.busy = n
      /\ d.held = c.held /\ d.selected = c.selected /\ d.gaveUp = c.gaveUp
      /\ d.terminals = c.terminals /\ d.binary = c.binary
      /\ d.pending = c.pending /\ d.pure = c.pure /\ d.up = c.up
  BY <1>1 DEF Badge, Retouched
<1>4. c.busy \in Nat /\ f.cleanups \in Nat
  BY <1>1 DEF Badge, FlowType, Retouched
<1>5. f.cleanups + n <= f.cleanups + c.busy
  BY <1>4 DEF Retouched
<1>6. Abortable(d)
  BY <1>2, <1>3, <1>5, AbortableCarries, ZenonT(60) DEF Retouched
<1> QED BY <1>3, <1>6

LEMMA FinishContended ==
    ASSUME MaxBusy < RetryLimit, NEW c, Finishable(c), c.session.state = "verifying",
           c.busy > 0, NEW d, d \in FinishBusy(c)
    PROVE  Sound(d)
<1> DEFINE n == c.busy - 1
           f == [c.flow EXCEPT !.finishes = @ + 1]
           k == [c.latch EXCEPT !.finish = TRUE]
           l1 == [c.latch EXCEPT !.recovery = TRUE]
           l2 == [c.latch EXCEPT !.finish = FALSE, !.recovery = TRUE]
           x == [c EXCEPT !.flow = f, !.latch = k, !.busy = n]
           f0 == c.flow
           y1 == [c EXCEPT !.flow = f0, !.latch = l1, !.busy = n]
           y2 == [c EXCEPT !.flow = f, !.latch = l2, !.busy = n]
           z == [c EXCEPT !.busy = @ - 1, !.latch.finish = TRUE, !.flow.finishes = @ + 1]
           z1 == [c EXCEPT !.busy = @ - 1, !.latch.recovery = TRUE]
           z2 == [z EXCEPT !.latch.finish = FALSE, !.latch.recovery = TRUE]
<1>1. /\ c \in Badge /\ c.flow \in FlowType /\ c.latch \in LatchType /\ c.busy \in Nat
      /\ Abortable(c) /\ c.binary /\ Counted(c) /\ Granted(c)
      /\ Owned(c) /\ Answered(c) /\ Uncommitted(c) /\ c.terminals = 0
  BY DEF Finishable, Abortable, Cleaning, Badge, Untold, Counted
<1>2. n \in Nat /\ n <= c.busy
  BY <1>1
<1>3. c.flow.finishes \in Nat
  BY <1>1 DEF FlowType
<1>4. c.flow.finishes + 1 \in Nat
  BY <1>3
<1>5. /\ f \in FlowType
      /\ f.aborted = c.flow.aborted /\ f.committed = c.flow.committed
      /\ f.terminal = c.flow.terminal /\ f.cleanup = c.flow.cleanup
      /\ f.cleanups = c.flow.cleanups /\ f.finish = c.flow.finish
      /\ f.waiting = c.flow.waiting /\ f.pendingCredit = c.flow.pendingCredit
      /\ f.total = c.flow.total /\ f.transport = c.flow.transport
      /\ f.durable = c.flow.durable /\ f.credit = c.flow.credit
  BY <1>1, <1>4 DEF FlowType
<1>6. /\ k \in LatchType /\ l1 \in LatchType /\ l2 \in LatchType
      /\ k.terminal = c.latch.terminal /\ k.restart = c.latch.restart /\ k.finish
      /\ l1.terminal = c.latch.terminal /\ l1.restart = c.latch.restart
      /\ l2.terminal = c.latch.terminal /\ l2.restart = c.latch.restart
  BY <1>1 DEF LatchType
<1>7. z = x /\ z1 = y1 /\ z2 = y2
  <2>1. z = x
    BY <1>1 DEF Badge
  <2>2. z1 = y1
    BY <1>1 DEF Badge
  <2>3. z2 = [x EXCEPT !.latch.finish = FALSE, !.latch.recovery = TRUE]
    BY <2>1
  <2>4. x.latch = k
    BY <1>1 DEF Badge
  <2>5. l2 = [k EXCEPT !.finish = FALSE, !.recovery = TRUE]
    BY <1>1 DEF LatchType
  <2> HIDE DEF k, l2, f, n
  <2>6. [x EXCEPT !.latch.finish = FALSE, !.latch.recovery = TRUE] = [x EXCEPT !.latch = l2]
    BY <1>1, <2>4, <2>5 DEF Badge
  <2>7. [x EXCEPT !.latch = l2] = y2
    BY <1>1 DEF Badge
  <2> QED BY <2>1, <2>2, <2>3, <2>6, <2>7
<1>8. \/ d \in AbortOta(y1)
      \/ d \in AbortOta(y2)
      \/ d = x
  <2>1. FinishBusy(c) = AbortOta(z1) \cup IF Exhausted(c.flow.finishes) THEN AbortOta(z2) ELSE {z}
    BY DEF FinishBusy
  <2> HIDE DEF x, y1, y2, z, z1, z2
  <2> QED BY <1>7, <2>1
<1>9. CASE d \in AbortOta(y1)
  <2>1. /\ y1 = [c EXCEPT !.flow = f0, !.latch = l1, !.busy = n]
        /\ f0 \in FlowType
        /\ f0.aborted = c.flow.aborted /\ f0.committed = c.flow.committed
        /\ f0.terminal = c.flow.terminal /\ f0.cleanup = c.flow.cleanup
        /\ f0.cleanups = c.flow.cleanups
    BY <1>1
  <2> HIDE DEF f0, l1, n, y1
  <2>2. Retouched(c, f0, l1, n, y1)
    BY <1>1, <1>2, <1>6, <2>1 DEF Retouched
  <2>3. Abortable(y1)
    BY <1>1, <2>2, RetouchedAbortable
  <2> QED BY <1>9, <2>3, AbortedOta
<1>10. CASE d \in AbortOta(y2)
  <2>1. y2 = [c EXCEPT !.flow = f, !.latch = l2, !.busy = n]
    OBVIOUS
  <2> HIDE DEF f, l2, n, y2
  <2>2. Retouched(c, f, l2, n, y2)
    BY <1>1, <1>2, <1>5, <1>6, <2>1 DEF Retouched
  <2>3. Abortable(y2)
    BY <1>1, <2>2, RetouchedAbortable
  <2> QED BY <1>10, <2>3, AbortedOta
<1>11. CASE d = x
  <2>1. x = [c EXCEPT !.flow = f, !.latch = k, !.busy = n]
    OBVIOUS
  <2> HIDE DEF f, k, n, x
  <2>2. Retouched(c, f, k, n, x)
    BY <1>1, <1>2, <1>5, <1>6, <2>1 DEF Retouched
  <2>3. /\ Abortable(x) /\ x.flow = f /\ x.latch = k /\ x.busy = n
        /\ x.session = c.session /\ x.binary = c.binary /\ x.terminals = c.terminals
        /\ x.pending = c.pending
    <3>1. Abortable(c)
      BY <1>1
    <3> QED BY <3>1, <2>2, RetouchedAbortable
  <2>4. Agreed(x)
    BY <1>1, <1>5, <1>6, <2>3 DEF Agreed, Counted, Granted
  <2>5. Live(x)
    BY <2>3 DEF Live
  <2>6. Resting(x)
    BY <1>1, <2>3, <2>4, <2>5 DEF Resting, Abortable, Cleaning
  <2>7. Sound(x)
    BY <2>3, <2>6 DEF Sound, Abortable, Cleaning
  <2> QED BY <1>11, <2>7
<1> QED BY <1>8, <1>9, <1>10, <1>11

LEMMA FinishRefused ==
    ASSUME MaxBusy < RetryLimit, NEW c, Finishable(c), NEW d, d \in FinishRejected(c)
    PROVE  Sound(d)
<1> DEFINE f == [c.flow EXCEPT !.finishes = 0]
           l == [c.latch EXCEPT !.finish = FALSE]
           n == c.busy
           x == [c EXCEPT !.flow = f, !.latch = l, !.busy = n]
           z == [c EXCEPT !.latch.finish = FALSE, !.flow.finishes = 0]
<1>1. /\ c \in Badge /\ c.flow \in FlowType /\ c.latch \in LatchType /\ c.busy \in Nat
      /\ Abortable(c)
  BY DEF Finishable, Abortable, Cleaning, Badge
<1>2. /\ f \in FlowType
      /\ f.aborted = c.flow.aborted /\ f.committed = c.flow.committed
      /\ f.terminal = c.flow.terminal /\ f.cleanup = c.flow.cleanup
      /\ f.cleanups = c.flow.cleanups
  BY <1>1 DEF FlowType
<1>3. l \in LatchType /\ l.terminal = c.latch.terminal /\ l.restart = c.latch.restart
  BY <1>1 DEF LatchType
<1>4. z = x
  BY <1>1 DEF Badge
<1>5. \/ d \in AdapterFailed(x)
      \/ \E ended \in {TRUE} \cup (IF MayRefuse(c) THEN {FALSE} ELSE {}) :
           d \in AbortOta([CleanedUp(c, ended) EXCEPT !.latch.recovery = TRUE])
  BY <1>4 DEF FinishRejected
<1>6. CASE d \in AdapterFailed(x)
  <2>1. n \in Nat /\ n <= c.busy
    BY <1>1
  <2> HIDE DEF f, l, n
  <2>2. x = [c EXCEPT !.flow = f, !.latch = l, !.busy = n]
    OBVIOUS
  <2> HIDE DEF x
  <2>3. Retouched(c, f, l, n, x)
    BY <1>2, <1>3, <2>1, <2>2 DEF Retouched
  <2>4. Abortable(x)
    BY <1>1, <2>3, RetouchedAbortable
  <2> QED BY <1>6, <2>4, AdapterFailure
<1>7. ASSUME NEW ended \in {TRUE} \cup (IF MayRefuse(c) THEN {FALSE} ELSE {}),
             d \in AbortOta([CleanedUp(c, ended) EXCEPT !.latch.recovery = TRUE])
      PROVE  Sound(d)
  <2> DEFINE y == CleanedUp(c, ended)
             k == [y.latch EXCEPT !.recovery = TRUE]
             f1 == y.flow
             n1 == y.busy
             w == [y EXCEPT !.flow = f1, !.latch = k, !.busy = n1]
             v == [y EXCEPT !.latch.recovery = TRUE]
  <2>1. ended \in BOOLEAN /\ (~ended => MayRefuse(c))
    OBVIOUS
  <2>2. Cleaning(c)
    BY <1>1 DEF Abortable
  <2>3. /\ Cleaning(y) /\ y.session.state \in {"idle", "error"}
        /\ y.flow = c.flow /\ y.terminals = c.terminals
    BY <2>1, <2>2, CleanedUpCleans
  <2>4. d \in AbortOta(v)
    BY <1>7
  <2> HIDE DEF y
  <2>5. /\ Abortable(y) /\ y \in Badge
        /\ y.flow \in FlowType /\ y.latch \in LatchType /\ y.busy \in Nat
    BY <1>1, <2>3 DEF Abortable, Cleaning, Untold, Badge
  <2>6. k \in LatchType /\ k.terminal = y.latch.terminal /\ k.restart = y.latch.restart
    BY <2>5 DEF LatchType
  <2>7. /\ f1 \in FlowType /\ f1 = y.flow /\ n1 \in Nat /\ n1 <= y.busy /\ n1 = y.busy
        /\ f1.aborted = y.flow.aborted /\ f1.committed = y.flow.committed
        /\ f1.terminal = y.flow.terminal /\ f1.cleanup = y.flow.cleanup
        /\ f1.cleanups = y.flow.cleanups
    BY <2>5
  <2>8. v = [y EXCEPT !.latch = k]
    BY <2>5 DEF Badge
  <2> HIDE DEF k, v, f1, n1
  <2>9. v = w
    BY <2>5, <2>7, <2>8 DEF Badge
  <2>10. w = [y EXCEPT !.flow = f1, !.latch = k, !.busy = n1]
    OBVIOUS
  <2> HIDE DEF w
  <2>11. Retouched(y, f1, k, n1, w)
    BY <2>5, <2>6, <2>7, <2>10 DEF Retouched
  <2>12. Abortable(w)
    BY <2>5, <2>11, RetouchedAbortable
  <2> QED BY <2>4, <2>9, <2>12, AbortedOta
<1> QED BY <1>5, <1>6, <1>7

\* A committed image is selected, reported once and started; nothing else of
\* its session is left to do.
LEMMA FinishSelects ==
    ASSUME NEW c, Finishable(c), c.session.state = "verifying", c.pure,
           NEW d, d \in FinishAccepted(c)
    PROVE  Sound(d)
<1> DEFINE s == Committed(c.session)
           h == c.held \ (c.session.owns \ s.owns)
           l0 == [c.latch EXCEPT !.finish = FALSE]
           f0 == [c.flow EXCEPT !.finishes = 0]
           x == [c EXCEPT !.session = s, !.selected = TRUE, !.held = h,
                          !.latch = l0, !.flow = f0]
           z == [c EXCEPT !.session = s, !.selected = TRUE,
                          !.held = @ \ (c.session.owns \ s.owns),
                          !.latch.finish = FALSE, !.flow.finishes = 0]
           frame == Frame("committed", 0)
           sent(e) == Emitted(z, e, frame)
           told(e) == [sent(e) EXCEPT !.flow.committed = TRUE, !.binary = FALSE]
<1>1. /\ c \in Badge /\ c.flow \in FlowType /\ c.latch \in LatchType
      /\ c.session \in SessionType /\ c.session.owns \subseteq Resources
      /\ c.held = c.session.owns /\ "operation" \in c.session.owns
      /\ ~c.gaveUp /\ ~c.session.cleaned /\ c.busy <= MaxBusy
      /\ Counted(c) /\ c.terminals = 0
      /\ ~c.flow.aborted /\ ~c.flow.terminal /\ ~c.flow.cleanup /\ ~c.latch.terminal
  BY SMTT(60) DEF Finishable, Abortable, Cleaning, Badge, SessionType, Owned, Live, Counted,
         Answered, Untold
<1>2. c.flow.transport = c.flow.total /\ c.flow.durable = c.flow.total
  BY <1>1, SMTT(60) DEF Counted
<1>3. PICK e \in Emissions(c) :
        \/ d = [told(e) EXCEPT !.up = FALSE]
        \/ d = [told(e) EXCEPT !.latch.restart = TRUE]
  BY <1>2, ZenonT(60) DEF FinishAccepted, Complete
<1>4. /\ s \in SessionType /\ s.state = "committed"
      /\ s.owns = c.session.owns \ {"digest", "handle"}
      /\ s.size = c.session.size /\ s.durable = c.session.durable /\ s.cleaned = c.session.cleaned
  <2>1. /\ c.session.owns \ {"digest", "handle"} \in SUBSET Resources
        /\ "committed" \in SessionState
    BY <1>1 DEF SessionState
  <2> QED BY <1>1, <2>1 DEF Committed, SessionType
<1>5. h = s.owns /\ "operation" \in s.owns /\ s.owns \in SUBSET Resources
  BY <1>1, <1>4
<1>6. /\ l0 \in LatchType /\ ~l0.terminal
      /\ f0 \in FlowType /\ ~f0.aborted /\ ~f0.terminal /\ ~f0.cleanup
  BY <1>1 DEF LatchType, FlowType
<1>7. z = x
  BY <1>1 DEF Badge
<1> HIDE DEF s, h, l0, f0
<1>8. x \in Badge
  BY <1>1, <1>4, <1>5, <1>6 DEF Badge
<1>9. /\ x.session = s /\ x.held = h /\ x.latch = l0 /\ x.flow = f0 /\ x.selected
      /\ x.pure = c.pure /\ x.terminals = 0 /\ x.gaveUp = c.gaveUp /\ x.busy = c.busy
  BY <1>1 DEF Badge
<1>10. frame \in Frames /\ frame.kind = "committed"
  BY DEF Frame, Frames
<1> HIDE DEF x, z, frame
<1> DEFINE y == sent(e)
           f == [y.flow EXCEPT !.committed = TRUE]
           l == [y.latch EXCEPT !.restart = TRUE]
           w == [y EXCEPT !.flow = f, !.binary = FALSE]
<1>11. SameButAnswers(x, y) /\ y.terminals <= 1
  BY <1>7, <1>8, <1>9, <1>10, EmittedAnswers DEF Outcomes
<1> HIDE DEF sent
<1>12. y \in Badge /\ y.flow = f0 /\ y.latch = l0
  BY <1>9, <1>11 DEF SameButAnswers
<1>13. told(e) = w
  BY <1>12 DEF Badge
<1>14. /\ f \in FlowType /\ ~f.aborted /\ ~f.terminal /\ ~f.cleanup
       /\ l \in LatchType /\ ~l.terminal /\ l.restart
  BY <1>6, <1>12 DEF FlowType, LatchType
<1> HIDE DEF y, f, told
<1>15. w \in Badge
  BY <1>12, <1>14 DEF Badge
<1>16. /\ w.session = s /\ w.held = s.owns /\ w.latch = l0 /\ w.flow = f /\ w.selected
       /\ w.pure = c.pure /\ w.terminals <= 1 /\ w.gaveUp = c.gaveUp /\ w.busy = c.busy
       /\ ~w.binary
  BY <1>5, <1>9, <1>11, <1>12 DEF Badge, SameButAnswers
<1>17. \/ d = [w EXCEPT !.up = FALSE]
       \/ d = [w EXCEPT !.latch = l]
  BY <1>3, <1>12, <1>13, <1>15, <1>16 DEF Badge
<1> HIDE DEF w, l
<1>18. /\ d \in Badge /\ d.session = s /\ d.held = s.owns /\ d.flow = f /\ d.selected
       /\ d.pure /\ d.terminals <= 1 /\ ~d.gaveUp /\ d.busy = c.busy /\ ~d.binary
       /\ ~d.latch.terminal /\ (d.latch.restart \/ ~d.up)
  <2>1. /\ d \in Badge /\ d.session = w.session /\ d.held = w.held /\ d.flow = w.flow
        /\ d.selected = w.selected /\ d.pure = w.pure /\ d.terminals = w.terminals
        /\ d.gaveUp = w.gaveUp /\ d.busy = w.busy /\ d.binary = w.binary
    BY <1>14, <1>15, <1>17 DEF Badge
  <2>2. (d.latch = l0 /\ ~d.up) \/ d.latch = l
    BY <1>15, <1>16, <1>17 DEF Badge
  <2>3. ~d.latch.terminal /\ (d.latch.restart \/ ~d.up)
    BY <1>6, <1>14, <2>2
  <2> QED BY <1>1, <1>16, <2>1, <2>3
<1>19. Owned(d)
  BY <1>1, <1>4, <1>18 DEF Owned, Live
<1>20. Answered(d)
  BY <1>14, <1>18 DEF Answered
<1>21. SelectedShape(d)
  BY <1>1, <1>4, <1>5, <1>14, <1>18 DEF SelectedShape, Counted
<1> QED BY <1>18, <1>19, <1>20, <1>21 DEF Sound, Resting

LEMMA FinishHandled ==
    ASSUME MaxBusy < RetryLimit, NEW c, Finishable(c), NEW d, d \in FinishOta(c)
    PROVE  Sound(d)
<1>1. \/ d \in AbortOta(c)
      \/ c.session.state = "verifying" /\ c.busy > 0 /\ d \in FinishBusy(c)
      \/ d \in FinishRejected(c)
      \/ c.session.state = "verifying" /\ c.pure /\ d \in FinishAccepted(c)
  BY DEF FinishOta, Verifies
<1>2. CASE d \in AbortOta(c)
  BY <1>2, AbortedOta DEF Finishable
<1>3. CASE c.session.state = "verifying" /\ c.busy > 0 /\ d \in FinishBusy(c)
  BY <1>3, FinishContended
<1>4. CASE d \in FinishRejected(c)
  BY <1>4, FinishRefused
<1>5. CASE c.session.state = "verifying" /\ c.pure /\ d \in FinishAccepted(c)
  BY <1>5, FinishSelects
<1> QED BY <1>1, <1>2, <1>3, <1>4, <1>5

-----------------------------------------------------------------------------
(* Writing.                                                                *)

\* A session that waits for its next chunk.
Reading(c) ==
    Abortable(c) /\ c.binary /\ c.session.state = "receiving" /\ Agreed(c)

\* One chunk of n bytes: what is in flash, and what is granted for it.
Chunk(c, n, s, granted) ==
    /\ n \in Nat /\ Accepts(c.session, n)
    /\ s = Written(c.session, n)
    /\ granted = NextCredit(c.session, s.durable)
ChunkResult(c, n, s, granted) ==
    /\ s \in SessionType /\ s.owns = c.session.owns /\ s.cleaned = c.session.cleaned
    /\ s.size = c.session.size /\ s.transport = c.session.transport + n
    /\ s.durable = Durable(s.transport) /\ s.creditAt = c.session.creditAt + granted
    /\ s.creditAt <= s.size /\ granted \in Nat
    /\ s.state = IF s.transport = s.size THEN "verifying" ELSE "receiving"
    /\ s.transport = s.size => granted = 0 /\ s.durable = s.size
    /\ granted > 0 => /\ s.transport = c.session.creditAt /\ s.transport < s.size
                      /\ s.transport < s.creditAt
    /\ s.transport < s.size /\ granted = 0
         /\ (n = c.session.creditAt - c.session.transport => granted > 0)
         => s.transport < s.creditAt
    /\ s.transport <= s.size

LEMMA ChunkWritten ==
    ASSUME NEW c, Reading(c), NEW n, NEW s, NEW granted, Chunk(c, n, s, granted)
    PROVE  ChunkResult(c, n, s, granted)
<1> DEFINE q == c.session
           t == q.transport
           ca == q.creditAt
           size == q.size
           du == Durable(t + n)
           g == IF du = ca /\ du < size THEN Smaller(Credit, size - du) ELSE 0
           st == IF du = size THEN "verifying" ELSE q.state
           cr == ~(du = size)
           m == t + n
           ca2 == ca + g
<1>1. n \in Nat
  BY DEF Chunk
<1>2. /\ c \in Badge /\ q \in SessionType /\ q.state = "receiving"
      /\ t \in Nat /\ ca \in Nat /\ size \in Nat
      /\ t < ca /\ ca <= size /\ Descriptor < size
  BY FiguresAssumption
     DEF Reading, Agreed, Counted, Abortable, Cleaning, Badge, SessionType
<1>3. t + n <= ca
  BY DEF Chunk, Accepts
<1>4. s = [q EXCEPT !.transport = m, !.durable = du, !.state = st, !.credit = cr,
                    !.creditAt = ca2]
  BY DEF Chunk, Written, NextCredit
<1>5. /\ du \in Nat /\ g \in Nat /\ ca2 \in Nat /\ ca2 <= size
      /\ du = size <=> t + n = size
      /\ t + n = size => g = 0
      /\ g > 0 => t + n = ca /\ t + n < size /\ t + n < ca2
      /\ t + n < size /\ g = 0 /\ (n = ca - t => g > 0) => t + n < ca
  <2> DEFINE t1 == t
             ca1 == ca
             size1 == size
  <2>1. /\ t1 \in Nat /\ ca1 \in Nat /\ size1 \in Nat /\ t1 < ca1 /\ t1 + n <= ca1
        /\ ca1 <= size1 /\ Descriptor < size1
    BY <1>2, <1>3
  <2> n \in Nat
    BY <1>1
  <2>2. du = Durable(t1 + n) /\ g = (IF du = ca1 /\ du < size1
                                     THEN Smaller(Credit, size1 - du) ELSE 0)
    OBVIOUS
  <2>3. ca2 = ca1 + g
    OBVIOUS
  <2> HIDE DEF t1, ca1, size1, du, g, ca2
  <2>4. /\ du \in Nat /\ g \in Nat /\ ca1 + g \in Nat /\ ca1 + g <= size1
        /\ du = size1 <=> t1 + n = size1
        /\ t1 + n = size1 => g = 0
        /\ g > 0 => t1 + n = ca1 /\ t1 + n < size1 /\ t1 + n < ca1 + g
        /\ t1 + n < size1 /\ g = 0 /\ (n = ca1 - t1 => g > 0) => t1 + n < ca1
    <3>1. /\ du \in Nat /\ du <= t1 + n /\ (du # 0 => du = t1 + n)
          /\ t1 + n = size1 => du = t1 + n
      BY <2>1, <2>2, FiguresAssumption DEF Durable
    <3>2. CASE du = ca1 /\ du < size1
      <4>1. g = Smaller(Credit, size1 - du) /\ t1 + n = ca1 /\ size1 - du \in Nat
        BY <2>1, <2>2, <3>1, <3>2
      <4>2. g \in Nat /\ 0 < g /\ g <= size1 - du
        BY <2>1, <3>2, <4>1, FiguresAssumption DEF Smaller
      <4> QED BY <2>1, <3>1, <3>2, <4>1, <4>2
    <3>3. CASE ~(du = ca1 /\ du < size1)
      <4>1. g = 0
        BY <2>2, <3>3
      <4> QED BY <2>1, <3>1, <4>1, FiguresAssumption
    <3> QED BY <3>2, <3>3
  <2> QED BY <2>3, <2>4 DEF t1, ca1, size1
<1>6. m \in Nat /\ st \in SessionState /\ cr \in BOOLEAN
  BY <1>1, <1>2 DEF SessionState
<1> HIDE DEF du, g, st, cr, m, ca2
<1>7. /\ s \in SessionType /\ s.owns = q.owns /\ s.cleaned = q.cleaned /\ s.size = size
      /\ s.transport = m /\ s.durable = du /\ s.creditAt = ca2 /\ s.state = st
  BY <1>2, <1>4, <1>5, <1>6 DEF SessionType
<1>8. granted = g
  BY <1>7 DEF Chunk, NextCredit, g
<1>9. m = t + n /\ ca2 = ca + g /\ du = Durable(m)
  BY DEF m, ca2, du
<1>10. st = IF du = size THEN "verifying" ELSE "receiving"
  BY <1>2 DEF st
<1>11. g = 0 => ca2 = ca
  BY <1>2, <1>9
<1> QED BY <1>1, <1>2, <1>3, <1>5, <1>7, <1>8, <1>9, <1>10, <1>11 DEF ChunkResult

LEMMA ChunkDone ==
    ASSUME MaxBusy < RetryLimit, NEW c, Reading(c), NEW bytes, bytes \in Seq(Bytes),
           Accepts(c.session, Len(bytes)), NEW d, d \in WriteDone(c, bytes)
    PROVE  Sound(d)
<1> DEFINE n == Len(bytes)
           s == Written(c.session, n)
           granted == NextCredit(c.session, s.durable)
           f == FlowWritten(c.flow, n, s.durable, granted)
           p == c.pure /\ \A i \in 1..n : bytes[i] = "data"
           x == [c EXCEPT !.session = s, !.pending = <<>>, !.flow = f, !.pure = p]
           y == [c EXCEPT !.session = s, !.pending = <<>>]
           lost == [c EXCEPT !.session = s, !.pending = <<>>, !.flow = AbortFlow(@)]
<1>1. n \in Nat
  OBVIOUS
<1>2. \/ ~Agrees(c.flow, n, s.durable, granted) /\ d \in AbortOta(lost)
      \/ /\ Agrees(c.flow, n, s.durable, granted)
         /\ \/ x.flow.waiting /\ d \in Receipt(x, Frame("credit", granted))
            \/ /\ ~x.flow.waiting /\ x.flow.finish
               /\ d \in FinishOta([x EXCEPT !.flow.finish = FALSE])
            \/ ~x.flow.waiting /\ ~x.flow.finish /\ d = x
  BY DEF WriteDone
<1>3. Chunk(c, n, s, granted)
  BY <1>1 DEF Chunk
<1>4. /\ c \in Badge /\ c.flow \in FlowType /\ c.latch \in LatchType /\ c.session \in SessionType
      /\ Abortable(c) /\ Owned(c) /\ Answered(c) /\ Uncommitted(c)
      /\ Counted(c) /\ Granted(c) /\ c.binary /\ c.session.state = "receiving"
      /\ ~c.latch.finish /\ c.terminals = 0
  BY DEF Reading, Agreed, Abortable, Cleaning, Badge, Counted, Untold
<1> HIDE DEF n, s, granted
<1>5. ChunkResult(c, n, s, granted)
  BY <1>3, ChunkWritten
<1>6. /\ s.state \in {"receiving", "verifying"} /\ s \in SessionType /\ granted \in Nat
      /\ s.owns = c.session.owns /\ s.cleaned = c.session.cleaned
  BY <1>5 DEF ChunkResult
<1>7. p \in BOOLEAN /\ <<>> \in Seq(Bytes)
  BY <1>4 DEF Badge
<1> HIDE DEF p
<1>8. CASE ~Agrees(c.flow, n, s.durable, granted) /\ d \in AbortOta(lost)
  <2>1. lost = [y EXCEPT !.flow = AbortFlow(@)]
    BY <1>4 DEF Badge
  <2> HIDE DEF y, lost
  <2>2. y \in Badge
    BY <1>4, <1>6, <1>7 DEF Badge, y
  <2>3. /\ y.session = s /\ y.flow = c.flow /\ y.latch = c.latch /\ y.held = c.held
        /\ y.binary = c.binary /\ y.gaveUp = c.gaveUp /\ y.busy = c.busy
        /\ y.selected = c.selected /\ y.terminals = c.terminals
    BY <1>4 DEF Badge, y
  <2>4. Owned(y)
    BY <1>4, <1>6, <2>3 DEF Owned, Live
  <2>5. Abortable(y)
    BY <1>4, <1>6, <2>2, <2>3, <2>4 DEF Abortable, Cleaning, Answered, Uncommitted, Untold
  <2>6. Abortable(lost)
    BY <2>1, <2>5, FlowAborts
  <2> QED BY <1>8, <2>6, AbortedOta
<1>9. CASE Agrees(c.flow, n, s.durable, granted)
  <2>1. /\ n <= c.flow.credit
        /\ c.flow.transport + n < c.flow.total /\ n = c.flow.credit => granted > 0
    BY <1>9 DEF Agrees
  <2>2. /\ c.flow.transport \in Nat /\ c.flow.total \in Nat /\ c.flow.credit \in Nat
        /\ c.flow.writes \in Nat /\ c.session.transport \in Nat /\ c.session.creditAt \in Nat
        /\ s.transport \in Nat /\ s.size \in Nat /\ s.creditAt \in Nat /\ s.durable \in Nat
    BY <1>4, <1>6 DEF FlowType, SessionType
  <2>3. /\ c.flow.transport = c.session.transport /\ c.flow.total = s.size
        /\ c.flow.credit = c.session.creditAt - c.session.transport
        /\ s.size > Descriptor
    BY <1>5, <1>4 DEF Counted, Granted, ChunkResult
  <2> DEFINE k == c.flow.credit - n
             m == c.flow.transport + n
             fin == (m = c.flow.total)
             wai == (granted > 0)
  <2>4. f = [c.flow EXCEPT !.retrying = 0, !.writes = 0, !.transport = m,
                           !.durable = s.durable, !.credit = k, !.finish = fin,
                           !.pendingCredit = granted, !.waiting = wai]
    BY DEF FlowWritten
  <2>5. k \in Nat /\ m \in Nat /\ fin \in BOOLEAN /\ wai \in BOOLEAN /\ m = s.transport
    <3> HIDE DEF n, s, granted, f, fin, wai
    <3>1. c.flow.transport \in Nat /\ c.flow.credit \in Nat /\ n <= c.flow.credit
      BY <2>1, <2>2
    <3>2. \A i \in Nat : i + n \in Nat /\ (n <= i => i - n \in Nat)
      BY <1>1
    <3>3. m \in Nat /\ k \in Nat
      BY <3>2, <3>1
    <3>4. m = s.transport
      BY <1>5, <2>3 DEF ChunkResult
    <3>5. fin \in BOOLEAN /\ wai \in BOOLEAN
      BY DEF fin, wai
    <3> QED BY <3>3, <3>4, <3>5
  <2> HIDE DEF k, m, fin, wai, f
  <2>6. c.flow \in FlowType /\ s.durable \in Nat /\ granted \in Nat
    BY <1>4, <1>6, <2>2
  <2>7. /\ f \in FlowType /\ f.transport = m /\ f.durable = s.durable /\ f.credit = k
        /\ f.finish = fin /\ f.pendingCredit = granted /\ f.waiting = wai
        /\ f.aborted = c.flow.aborted /\ f.committed = c.flow.committed
        /\ f.terminal = c.flow.terminal /\ f.cleanup = c.flow.cleanup
        /\ f.cleanups = c.flow.cleanups /\ f.total = c.flow.total
    <3> DEFINE h == [c.flow EXCEPT !.retrying = 0, !.writes = 0, !.transport = m,
                                   !.durable = s.durable]
    <3>1. f = [h EXCEPT !.credit = k, !.finish = fin, !.pendingCredit = granted,
                        !.waiting = wai]
      BY <2>4
    <3>2. /\ h \in FlowType /\ h.transport = m /\ h.durable = s.durable
          /\ h.aborted = c.flow.aborted /\ h.committed = c.flow.committed
          /\ h.terminal = c.flow.terminal /\ h.cleanup = c.flow.cleanup
          /\ h.cleanups = c.flow.cleanups /\ h.total = c.flow.total
      BY <2>6, <2>5 DEF FlowType
    <3> HIDE DEF h
    <3>3. f \in FlowType
      BY <2>6, <3>1, <3>2, <2>5, ZenonT(60) DEF FlowType
    <3>4. f.transport = m /\ f.durable = s.durable /\ f.credit = k
      BY <3>1, <3>2 DEF FlowType
    <3>5. f.finish = fin /\ f.pendingCredit = granted /\ f.waiting = wai
      BY <3>1, <3>2 DEF FlowType
    <3>6. /\ f.aborted = c.flow.aborted /\ f.committed = c.flow.committed
          /\ f.terminal = c.flow.terminal /\ f.cleanup = c.flow.cleanup
          /\ f.cleanups = c.flow.cleanups /\ f.total = c.flow.total
      BY <3>1, <3>2 DEF FlowType
    <3> QED BY <3>3, <3>4, <3>5, <3>6
  <2> HIDE DEF x
  <2>8. x \in Badge
    BY <1>4, <1>6, <1>7, <2>7 DEF Badge, x
  <2>9. /\ x.session = s /\ x.flow = f /\ x.latch = c.latch /\ x.held = c.held
        /\ x.binary = c.binary /\ x.gaveUp = c.gaveUp /\ x.busy = c.busy
        /\ x.selected = c.selected /\ x.terminals = c.terminals /\ x.pending = <<>>
        /\ x.up = c.up
    BY <1>4 DEF Badge, x
  <2>10. Owned(x)
    BY <1>4, <1>6, <2>7, <2>9 DEF Owned, Live
  <2>11. Answered(x) /\ Uncommitted(x) /\ Untold(x)
    <3>1. /\ x.flow.aborted = c.flow.aborted /\ x.flow.terminal = c.flow.terminal
          /\ x.flow.cleanup = c.flow.cleanup /\ x.latch.terminal = c.latch.terminal
          /\ x.terminals = c.terminals /\ x.binary = c.binary
      BY <2>7, <2>9
    <3>2. Answered(c)
      BY <1>4
    <3>3. Answered(x)
      BY <3>1, <3>2 DEF Answered
    <3>4. Uncommitted(x)
      BY <1>4, <1>6, <2>7, <2>9 DEF Uncommitted
    <3>5. Untold(x)
      BY <1>4, <2>9 DEF Untold
    <3> QED BY <3>3, <3>4, <3>5
  <2>12. Abortable(x)
    BY <1>6, <2>8, <2>9, <2>10, <2>11 DEF Abortable, Cleaning
  <2>13. fin <=> s.transport = s.size
    BY <2>3, <2>5 DEF fin
  <2>14. wai => s.transport < s.size /\ s.transport < s.creditAt /\ s.state = "receiving"
    BY <1>5, <2>2 DEF wai, ChunkResult
  <2>15. ~wai => granted = 0 /\ k = s.creditAt - s.transport
    <3>1. /\ s.creditAt = c.session.creditAt + granted /\ granted \in Nat
          /\ s.transport = c.session.transport + n
      BY <1>5 DEF ChunkResult
    <3>2. ~wai => granted = 0
      BY <3>1 DEF wai
    <3>3. k = c.session.creditAt - c.session.transport - n
      BY <1>1, <2>2, <2>3 DEF k
    <3> HIDE DEF k, wai
    <3>4. s.creditAt - s.transport = c.session.creditAt - c.session.transport - n + granted
      <4> DEFINE ca == c.session.creditAt
                 tr == c.session.transport
      <4>1. ca \in Nat /\ tr \in Nat /\ n \in Nat /\ granted \in Nat
        BY <1>1, <2>2, <3>1
      <4>2. s.creditAt = ca + granted /\ s.transport = tr + n
        BY <3>1
      <4> HIDE DEF ca, tr
      <4>3. (ca + granted) - (tr + n) = ca - tr - n + granted
        BY <4>1
      <4>4. s.creditAt - s.transport = ca - tr - n + granted
        BY <4>2, <4>3
      <4> QED BY <4>4 DEF ca, tr
    <3>5. SUFFICES ASSUME ~wai PROVE granted = 0 /\ k = s.creditAt - s.transport
      OBVIOUS
    <3>6. granted = 0
      BY <3>2, <3>5
    <3> QED BY <1>1, <2>2, <3>3, <3>4, <3>6, SMTT(60)
  <2>16. wai => granted = s.creditAt - s.transport
    BY <1>5, <2>2 DEF wai, ChunkResult
  <2>17. s.state = "receiving" => s.transport < s.creditAt
    <3>1. CASE wai
      BY <2>14, <3>1
    <3>2. CASE ~wai
      <4>1. granted = 0 /\ ~(granted > 0)
        BY <2>15, <3>2
      <4>2. s.state = "receiving" => s.transport < s.size
        BY <1>5, <2>2 DEF ChunkResult
      <4>3. s.transport < s.size => c.flow.transport + n < c.flow.total
        BY <2>3, <2>5 DEF m
      <4>4. s.transport < s.size => ~(n = c.session.creditAt - c.session.transport)
        BY <2>1, <2>3, <4>1, <4>3
      <4> QED BY <1>5, <4>1, <4>2, <4>4 DEF ChunkResult
    <3> QED BY <3>1, <3>2
  <2>18. /\ ~x.flow.aborted /\ x.session.size > Descriptor /\ x.flow.total = x.session.size
         /\ x.flow.transport = x.session.transport /\ x.flow.durable = x.session.durable
         /\ x.session.creditAt <= x.session.size
         /\ x.session.state = "receiving" =>
              /\ x.session.transport < x.session.creditAt
              /\ x.session.durable = Durable(x.session.transport)
              /\ ~x.latch.finish
         /\ x.session.state = "verifying" =>
              /\ x.session.durable = x.session.size
              /\ x.session.transport = x.session.size
    BY <1>5, <1>4, <2>3, <2>5, <2>7, <2>9, <2>17 DEF Counted, ChunkResult
  <2>19. CASE x.flow.waiting /\ d \in Receipt(x, Frame("credit", granted))
    <3> DEFINE frame == Frame("credit", granted)
    <3>1. frame \in Frames /\ frame.kind \notin Outcomes
      BY <1>6 DEF Frame, Frames, Outcomes
    <3> HIDE DEF frame
    <3>2. wai /\ ~fin
      BY <2>2, <2>7, <2>9, <2>13, <2>14, <2>19
    <3>3. Awaited(x)
      BY <2>7, <2>9, <2>12, <2>14, <2>16, <2>18, <3>2 DEF Awaited, Counted
    <3>4. d \in Receipt(x, frame)
      BY <2>19 DEF frame
    <3> QED BY <3>1, <3>3, <3>4, ReceiptResult
  <2>20. CASE /\ ~x.flow.waiting /\ x.flow.finish
              /\ d \in FinishOta([x EXCEPT !.flow.finish = FALSE])
    <3> DEFINE g == [x.flow EXCEPT !.finish = FALSE]
               w == [x EXCEPT !.flow.finish = FALSE]
    <3>1. /\ g \in FlowType /\ ~g.finish /\ g.transport = f.transport /\ g.durable = f.durable
          /\ g.credit = f.credit /\ g.pendingCredit = f.pendingCredit /\ g.waiting = f.waiting
          /\ g.aborted = f.aborted /\ g.committed = f.committed
          /\ g.terminal = f.terminal /\ g.cleanup = f.cleanup
          /\ g.cleanups = f.cleanups /\ g.total = f.total
      BY <2>7, <2>9 DEF FlowType
    <3>2. w = [x EXCEPT !.flow = g]
      BY <2>8 DEF Badge
    <3>3. d \in FinishOta(w)
      BY <2>20
    <3> HIDE DEF g, w
    <3>4. w \in Badge
      BY <2>8, <3>1, <3>2 DEF Badge
    <3>5. /\ w.session = s /\ w.flow = g /\ w.latch = x.latch /\ w.held = x.held
          /\ w.binary = x.binary /\ w.gaveUp = x.gaveUp /\ w.busy = x.busy
          /\ w.selected = x.selected /\ w.terminals = x.terminals
      BY <2>8, <2>9, <3>2 DEF Badge
    <3>6. x.busy \in Nat /\ f.cleanups \in Nat
      BY <2>7, <2>8 DEF Badge, FlowType
    <3>7. Abortable(w)
      BY <2>9, <2>12, <3>1, <3>4, <3>5, <3>6, AbortableCarries
    <3>8. Counted(w)
      BY <2>9, <2>18, <3>1, <3>5 DEF Counted
    <3>9. ~wai /\ Granted(w)
      BY <2>3, <2>5, <2>7, <2>9, <2>15, <2>20, <3>1, <3>5 DEF Granted
    <3>10. Finishable(w)
      BY <1>4, <2>9, <3>5, <3>7, <3>8, <3>9 DEF Finishable
    <3> QED BY <3>3, <3>10, FinishHandled
  <2>21. CASE ~x.flow.waiting /\ ~x.flow.finish /\ d = x
    <3>1. ~wai /\ ~fin
      BY <2>7, <2>9, <2>21
    <3>2. s.state = "receiving"
      BY <1>5, <2>13, <3>1 DEF ChunkResult
    <3>3. Counted(x)
      BY <2>7, <2>9, <2>18, <3>1 DEF Counted
    <3>4. Granted(x)
      BY <2>7, <2>9, <2>15, <3>1 DEF Granted
    <3>5. Agreed(x)
      BY <2>9, <3>2, <3>3, <3>4 DEF Agreed
    <3>6. Resting(x)
      BY <1>4, <2>9, <2>11, <3>2, <3>5 DEF Resting, Live
    <3> QED BY <2>8, <2>10, <2>11, <2>21, <3>6 DEF Sound
  <2> QED BY <1>2, <1>9, <2>19, <2>20, <2>21
<1> QED BY <1>2, <1>8, <1>9

LEMMA ChunkContended ==
    ASSUME MaxBusy < RetryLimit, NEW c, Reading(c), c.busy > 0,
           NEW bytes, bytes \in Seq(Bytes), NEW d, d \in WriteContended(c, bytes)
    PROVE  Sound(d)
<1> DEFINE k == Len(bytes)
           n == c.busy - 1
           w == c.flow.writes + 1
           f == [c.flow EXCEPT !.retrying = k, !.writes = w]
           l == [c.latch EXCEPT !.recovery = TRUE]
           l0 == c.latch
           b == [c EXCEPT !.pending = <<>>]
           x == [b EXCEPT !.flow = f, !.latch = l, !.busy = n]
           y == [c EXCEPT !.flow = f, !.latch = l0, !.busy = n]
           z == [y EXCEPT !.pending = bytes]
           v == [c EXCEPT !.busy = @ - 1, !.flow = WriteBusy(@, k)]
<1>1. /\ c \in Badge /\ c.flow \in FlowType /\ c.latch \in LatchType /\ c.busy \in Nat
      /\ Abortable(c) /\ Agreed(c) /\ c.binary /\ c.session.state = "receiving"
  BY DEF Reading, Abortable, Cleaning, Badge
<1>2. k \in Nat /\ <<>> \in Seq(Bytes)
  OBVIOUS
<1>3. n \in Nat /\ n <= c.busy
  BY <1>1
<1>4. c.flow.writes \in Nat
  BY <1>1 DEF FlowType
<1>5. w \in Nat
  BY <1>4
<1>6. v = y
  BY <1>1 DEF WriteBusy, Badge
<1>7. \/ d \in AbortOta([v EXCEPT !.pending = <<>>, !.latch.recovery = TRUE])
      \/ d = [v EXCEPT !.pending = bytes]
  BY DEF WriteContended
<1> HIDE DEF k, n, w, v
<1>8. /\ f \in FlowType
      /\ f.aborted = c.flow.aborted /\ f.committed = c.flow.committed
      /\ f.terminal = c.flow.terminal /\ f.cleanup = c.flow.cleanup
      /\ f.cleanups = c.flow.cleanups /\ f.finish = c.flow.finish
      /\ f.waiting = c.flow.waiting /\ f.pendingCredit = c.flow.pendingCredit
      /\ f.total = c.flow.total /\ f.transport = c.flow.transport
      /\ f.durable = c.flow.durable /\ f.credit = c.flow.credit
  BY <1>1, <1>2, <1>5 DEF FlowType
<1>9. l \in LatchType /\ l.terminal = c.latch.terminal /\ l.restart = c.latch.restart
  BY <1>1 DEF LatchType
<1>10. l0 = c.latch /\ l0 \in LatchType
  BY <1>1
<1> HIDE DEF f, l0
<1>11. Retouched(c, f, l0, n, y)
  BY <1>3, <1>8, <1>10 DEF Retouched
<1>12. [v EXCEPT !.pending = <<>>, !.latch.recovery = TRUE] = x
  BY <1>1, <1>6, <1>10 DEF Badge
<1> HIDE DEF y, l
<1>13. /\ Abortable(y) /\ y.flow = f /\ y.latch = l0 /\ y.busy = n
       /\ y.session = c.session /\ y.binary = c.binary /\ y.terminals = c.terminals
  <2>1. Abortable(c)
    BY <1>1
  <2> QED BY <1>11, <2>1, RetouchedAbortable
<1>14. CASE d \in AbortOta([v EXCEPT !.pending = <<>>, !.latch.recovery = TRUE])
  <2>1. b \in Badge /\ b.flow = c.flow /\ b.latch = c.latch /\ b.busy = c.busy
    BY <1>1, <1>2 DEF Badge
  <2>2. /\ b.session = c.session /\ b.held = c.held /\ b.selected = c.selected
        /\ b.gaveUp = c.gaveUp /\ b.binary = c.binary /\ b.terminals = c.terminals
    BY <1>1 DEF Badge
  <2>3. d \in AbortOta(x)
    BY <1>12, <1>14
  <2>4. x = [b EXCEPT !.flow = f, !.latch = l, !.busy = n]
    OBVIOUS
  <2> HIDE DEF b, x
  <2>5. /\ c.flow.cleanups + c.busy <= c.flow.cleanups + c.busy
        /\ c.busy <= c.busy /\ Abortable(c)
    <3>1. c.flow.cleanups \in Nat
      BY <1>1 DEF FlowType
    <3> QED BY <1>1, <3>1
  <2>6. Abortable(b)
    BY <2>1, <2>2, <2>5, AbortableCarries
  <2>7. Retouched(b, f, l, n, x)
    BY <1>3, <1>8, <1>9, <2>1, <2>4 DEF Retouched
  <2>8. Abortable(x)
    BY <2>6, <2>7, RetouchedAbortable
  <2> QED BY <2>3, <2>8, AbortedOta
<1>15. CASE d = [v EXCEPT !.pending = bytes]
  <2>1. y \in Badge
    BY <1>13 DEF Abortable, Cleaning
  <2>2. d = [y EXCEPT !.pending = bytes]
    BY <1>6, <1>15
  <2>3. d \in Badge
    BY <2>1, <2>2 DEF Badge
  <2>4. /\ d.flow = f /\ d.latch = l0 /\ d.busy = y.busy /\ d.session = c.session
        /\ d.binary /\ d.terminals = y.terminals /\ d.held = y.held /\ d.gaveUp = y.gaveUp
        /\ d.selected = y.selected
    BY <1>1, <1>13, <2>1, <2>2 DEF Badge
  <2>5. Owned(d) /\ Answered(d) /\ Uncommitted(d) /\ Untold(d)
    <3>1. Owned(y) /\ Answered(y) /\ Uncommitted(y) /\ Untold(y)
      BY <1>13 DEF Abortable, Cleaning
    <3>2. Owned(d)
      BY <1>13, <2>4, <3>1 DEF Owned, Live
    <3>3. Uncommitted(d) /\ Untold(d)
      BY <1>13, <2>4, <3>1 DEF Uncommitted, Untold
    <3>4. Answered(d)
      BY <1>1, <1>13, <2>4, <3>1 DEF Answered
    <3> QED BY <3>2, <3>3, <3>4
  <2>6. Agreed(d)
    BY <1>1, <1>8, <1>10, <2>4 DEF Agreed, Counted, Granted
  <2>7. Resting(d)
    BY <1>1, <2>4, <2>5, <2>6 DEF Resting, Live, Untold
  <2> QED BY <2>3, <2>5, <2>7 DEF Sound
<1> QED BY <1>7, <1>14, <1>15

LEMMA ChunkHandled ==
    ASSUME MaxBusy < RetryLimit, NEW c, Reading(c), NEW bytes, bytes \in Seq(Bytes),
           NEW d, d \in Write(c, bytes)
    PROVE  Sound(d)
<1>1. \/ d \in AdapterFailed([c EXCEPT !.pending = <<>>])
      \/ c.busy > 0 /\ d \in WriteContended(c, bytes)
      \/ Accepts(c.session, Len(bytes)) /\ d \in WriteDone(c, bytes)
  BY DEF Write
<1>2. CASE d \in AdapterFailed([c EXCEPT !.pending = <<>>])
  <2> DEFINE b == [c EXCEPT !.pending = <<>>]
  <2>1. c \in Badge /\ c.flow \in FlowType /\ c.busy \in Nat /\ Abortable(c) /\ <<>> \in Seq(Bytes)
    BY DEF Reading, Abortable, Cleaning, Badge
  <2>2. b \in Badge /\ b.flow = c.flow /\ b.latch = c.latch /\ b.busy = c.busy
    BY <2>1 DEF Badge
  <2>3. /\ b.session = c.session /\ b.held = c.held /\ b.selected = c.selected
        /\ b.gaveUp = c.gaveUp /\ b.binary = c.binary /\ b.terminals = c.terminals
    BY <2>1 DEF Badge
  <2>4. c.flow.cleanups \in Nat
    BY <2>1 DEF FlowType
  <2>5. c.flow.cleanups + c.busy <= c.flow.cleanups + c.busy /\ c.busy <= c.busy
    BY <2>1, <2>4
  <2> HIDE DEF b
  <2>6. Abortable(b)
    BY <2>1, <2>2, <2>3, <2>5, AbortableCarries
  <2>7. d \in AdapterFailed(b)
    BY <1>2 DEF b
  <2> QED BY <2>6, <2>7, AdapterFailure
<1>3. CASE c.busy > 0 /\ d \in WriteContended(c, bytes)
  BY <1>3, ChunkContended
<1>4. CASE Accepts(c.session, Len(bytes)) /\ d \in WriteDone(c, bytes)
  BY <1>4, ChunkDone
<1> QED BY <1>1, <1>2, <1>3, <1>4

\* A chunk reaches a session that reads, or aborts one that may be aborted.
LEMMA BytesConsumed ==
    ASSUME MaxBusy < RetryLimit, NEW c, Abortable(c), c.binary => Reading(c),
           NEW bytes, bytes \in Seq(Bytes), NEW retrying,
           NEW d, d \in Consume(c, bytes, retrying)
    PROVE  Sound(d)
<1>1. \/ d \in AbortOta([c EXCEPT !.flow = AbortFlow(@)])
      \/ d \in AbortOta(c)
      \/ c.binary /\ d \in Write(c, bytes)
  BY DEF Consume
<1>2. CASE d \in AbortOta([c EXCEPT !.flow = AbortFlow(@)])
  <2> DEFINE x == [c EXCEPT !.flow = AbortFlow(@)]
  <2>1. Abortable(x)
    BY FlowAborts
  <2> HIDE DEF x
  <2>2. d \in AbortOta(x)
    BY <1>2 DEF x
  <2> QED BY <2>1, <2>2, AbortedOta
<1>3. CASE d \in AbortOta(c)
  BY <1>3, AbortedOta
<1>4. CASE c.binary /\ d \in Write(c, bytes)
  BY <1>4, ChunkHandled
<1> QED BY <1>1, <1>2, <1>3, <1>4

-----------------------------------------------------------------------------
(* The passes of the loop.                                                 *)
LEMMA LiveReads ==
    ASSUME NEW c, Sound(c), c.up, Unlatched(c), c.binary
    PROVE  Reading(c)
<1>1. /\ c \in Badge /\ Owned(c) /\ Answered(c) /\ Resting(c)
      /\ ~c.latch.restart /\ ~c.latch.abort /\ ~c.latch.finish
  BY DEF Sound, Unlatched
<1>2. Uncommitted(c) /\ Live(c) /\ Agreed(c)
  BY <1>1 DEF Resting, SelectedShape
<1>3. c.session.state = "receiving"
  BY <1>1, <1>2 DEF Live, Agreed
<1>4. Untold(c)
  BY <1>1, <1>2 DEF Resting, Untold, Answered, Badge, SelectedShape
<1> QED BY <1>1, <1>2, <1>3, <1>4 DEF Reading, Abortable, Cleaning

\* While something is left to do, no outcome is told but of an aborted flow.
LEMMA BusyAborts ==
    ASSUME NEW c, Sound(c), c.up, ~c.latch.restart,
           ~Unlatched(c) \/ c.binary \/ c.pending # <<>>
    PROVE  Abortable(c)
<1>1. c \in Badge /\ Owned(c) /\ Answered(c) /\ Resting(c) /\ c.terminals \in Nat
  BY DEF Sound, Badge
<1>2. Uncommitted(c) /\ c.session.state # "preparing"
  BY <1>1 DEF Resting, SelectedShape
<1>3. c.terminals = 1 => c.flow.aborted
  BY <1>1, <1>2 DEF Resting, Uncommitted
<1>4. Untold(c)
  BY <1>1, <1>3 DEF Untold, Answered
<1> QED BY <1>1, <1>2, <1>4 DEF Abortable, Cleaning

LEMMA UpDown ==
    ASSUME NEW c, Sound(c), NEW d, d = [c EXCEPT !.up = FALSE]
    PROVE  Sound(d)
<1>1. c \in Badge /\ Owned(c) /\ Answered(c) /\ Resting(c)
  BY DEF Sound
<1>2. d \in Badge
  BY <1>1 DEF Badge
<1>3. /\ ~d.up /\ d.session = c.session /\ d.flow = c.flow /\ d.latch = c.latch
      /\ d.binary = c.binary /\ d.pending = c.pending /\ d.held = c.held
      /\ d.selected = c.selected /\ d.busy = c.busy /\ d.gaveUp = c.gaveUp
      /\ d.pure = c.pure /\ d.terminals = c.terminals
  BY <1>1 DEF Badge
<1>4. Owned(d) /\ Answered(d)
  BY <1>1, <1>3 DEF Owned, Answered, Live
<1>5. /\ SelectedShape(c) => SelectedShape(d)
      /\ Uncommitted(c) => Uncommitted(d)
      /\ Live(d) <=> Live(c)
      /\ Agreed(d) <=> Agreed(c)
      /\ Unlatched(d) <=> Unlatched(c)
  BY <1>3 DEF SelectedShape, Uncommitted, Live, Agreed, Counted, Granted, Unlatched
<1>6. Resting(d)
  BY <1>1, <1>3, <1>5 DEF Resting
<1> QED BY <1>2, <1>4, <1>6 DEF Sound

LEMMA RestartSound ==
    ASSUME Sound(badge), RetryRestart
    PROVE  Sound(badge')
BY UpDown DEF RetryRestart

LEMMA AbortSound ==
    ASSUME MaxBusy < RetryLimit, Sound(badge), RetryAbort
    PROVE  Sound(badge')
<1>1. badge.up /\ ~badge.latch.restart /\ badge.latch.abort /\ badge' \in AbortOta(badge)
  BY DEF RetryAbort
<1>2. Abortable(badge)
  BY <1>1, BusyAborts DEF Unlatched
<1> QED BY <1>1, <1>2, AbortedOta

LEMMA FinishSound ==
    ASSUME MaxBusy < RetryLimit, Sound(badge), RetryFinish
    PROVE  Sound(badge')
<1>1. /\ badge.up /\ ~badge.latch.restart /\ ~badge.latch.abort /\ badge.latch.finish
      /\ badge' \in FinishOta(badge)
  BY DEF RetryFinish
<1>2. Abortable(badge)
  BY <1>1, BusyAborts DEF Unlatched
<1>3. badge.session.state = "verifying" => badge.binary /\ Agreed(badge)
  BY <1>1 DEF Sound, Resting, SelectedShape, Live
<1>4. Finishable(badge)
  BY <1>2, <1>3 DEF Finishable, Agreed
<1> QED BY <1>1, <1>4, FinishHandled

LEMMA TerminalSound ==
    ASSUME Sound(badge), RetryTerminal
    PROVE  Sound(badge')
<1>1. /\ badge.up /\ ~badge.latch.restart /\ ~badge.latch.abort /\ badge.latch.terminal
      /\ badge' \in DeliverTerminal(badge)
  BY DEF RetryTerminal
<1>2. /\ badge \in Badge /\ Owned(badge) /\ Answered(badge) /\ Resting(badge)
      /\ badge.flow.terminal /\ badge.flow.aborted /\ badge.terminals = 0
  BY <1>1 DEF Sound, Answered
<1>3. Uncommitted(badge) /\ ~Live(badge) /\ badge.session.state # "preparing"
  BY <1>1, <1>2 DEF Resting, SelectedShape, Agreed, Counted
<1>4. SameTransfer(badge, badge') /\ OneAnswer(badge')
  BY <1>1, <1>2, DeliveredOnce
<1>5. Owned(badge')
  BY <1>2, <1>4 DEF SameTransfer, Owned, Live
<1>6. Answered(badge')
  BY <1>2, <1>4 DEF SameTransfer, OneAnswer, Answered
<1>7. Uncommitted(badge') /\ ~Live(badge')
  BY <1>3, <1>4 DEF SameTransfer, Uncommitted, Live
<1>8. Resting(badge')
  <2>1. /\ badge'.session = badge.session /\ badge'.gaveUp = badge.gaveUp
        /\ badge'.binary = badge.binary /\ badge'.latch.abort = badge.latch.abort
        /\ badge'.flow.aborted = badge.flow.aborted
    BY <1>4 DEF SameTransfer
  <2>2. /\ ~badge.binary
        /\ badge.session.state = "error" /\ badge.session.owns # {} => badge.gaveUp
    BY <1>1, <1>2, <1>3 DEF Resting, SelectedShape
  <2> QED BY <1>2, <1>3, <1>7, <2>1, <2>2 DEF Resting
<1> QED BY <1>4, <1>5, <1>6, <1>8 DEF Sound, SameTransfer

LEMMA WriteSound ==
    ASSUME MaxBusy < RetryLimit, Sound(badge), RetryWrite
    PROVE  Sound(badge')
<1>1. /\ badge.up /\ Unlatched(badge) /\ badge.pending # <<>>
      /\ badge' \in Consume(badge, badge.pending, TRUE)
  BY DEF RetryWrite
<1>2. badge.pending \in Seq(Bytes)
  BY DEF Sound, Badge
<1>3. Abortable(badge)
  BY <1>1, BusyAborts DEF Unlatched
<1>4. badge.binary => Reading(badge)
  BY <1>1, LiveReads
<1> QED BY <1>1, <1>2, <1>3, <1>4, BytesConsumed

LEMMA PrefixBytes ==
    ASSUME NEW q, q \in Seq(Bytes), NEW n, n \in 1..Smaller(MaxWrite, Len(q))
    PROVE  /\ q # <<>>
           /\ SubSeq(q, 1, n) \in Seq(Bytes)
           /\ SubSeq(q, n + 1, Len(q)) \in Seq(Bytes)
           /\ SubSeq(q, 2, Len(q)) \in Seq(Bytes)
<1>1. n \in Nat /\ 1 <= n /\ n <= Len(q) /\ Len(q) \in Nat
  BY BoundsAssumption DEF Smaller
<1>2. q # <<>>
  BY <1>1
<1>3. \A i, j \in Int : (1 <= i /\ j <= Len(q)) => SubSeq(q, i, j) \in Seq(Bytes)
  OBVIOUS
<1> QED BY <1>1, <1>2, <1>3

LEMMA BinarySound ==
    ASSUME MaxBusy < RetryLimit, Sound(badge), usb \in Seq(Bytes), ReadBinary
    PROVE  Sound(badge') /\ usb' \in Seq(Bytes)
<1>1. badge.up /\ Unlatched(badge) /\ badge.binary
  BY DEF ReadBinary, AtRest
<1>2. PICK n \in 1..Smaller(MaxWrite, Len(usb)) :
        badge' \in Consume(badge, SubSeq(usb, 1, n), FALSE) /\ usb' = Dropped(n)
  BY DEF ReadBinary
<1>3. SubSeq(usb, 1, n) \in Seq(Bytes) /\ usb' \in Seq(Bytes)
  BY <1>2, PrefixBytes DEF Dropped
<1>4. Reading(badge) /\ Abortable(badge)
  BY <1>1, LiveReads DEF Reading
<1> QED BY <1>2, <1>3, <1>4, BytesConsumed

LEMMA TextSound ==
    ASSUME MaxBusy < RetryLimit, Sound(badge), usb \in Seq(Bytes), ReadText
    PROVE  Sound(badge') /\ usb' \in Seq(Bytes)
<1>1. Idle(badge) /\ badge \in Badge
  BY DEF ReadText, Idle, Sound
<1>2. PICK n \in 1..Smaller(MaxWrite, Len(usb)) :
        /\ \/ badge' = [badge EXCEPT !.garbled = TRUE]
           \/ badge' \in Reply([badge EXCEPT !.garbled = FALSE], "unknown")
           \/ badge' \in HandleBegin(badge)
        /\ usb' = Dropped(n) \/ usb' = Dropped(1)
  BY DEF ReadText
<1>3. usb' \in Seq(Bytes)
  <2>1. /\ SubSeq(usb, n + 1, Len(usb)) \in Seq(Bytes)
        /\ SubSeq(usb, 2, Len(usb)) \in Seq(Bytes)
    BY PrefixBytes
  <2>2. 1 + 1 = 2
    OBVIOUS
  <2> QED BY <1>2, <2>1, <2>2 DEF Dropped
<1>4. ASSUME NEW g, g \in BOOLEAN, NEW x, x = [badge EXCEPT !.garbled = g]
      PROVE  SameButAnswers(badge, x) /\ x.terminals = badge.terminals /\ x \in Badge
  BY <1>1, <1>4 DEF Badge, SameButAnswers
<1>5. CASE badge' = [badge EXCEPT !.garbled = TRUE]
  <2>1. SameButAnswers(badge, badge') /\ badge'.terminals = badge.terminals
    BY <1>4, <1>5
  <2> QED BY <1>3, <2>1, SentSound
<1>6. CASE badge' \in Reply([badge EXCEPT !.garbled = FALSE], "unknown")
  <2> DEFINE x == [badge EXCEPT !.garbled = FALSE]
  <2>1. SameButAnswers(badge, x) /\ x.terminals = badge.terminals /\ x \in Badge
    BY <1>4
  <2> HIDE DEF x
  <2>2. Sound(x)
    BY <2>1, SentSound
  <2>3. SameButAnswers(x, badge') /\ badge'.terminals = x.terminals
    BY <1>6, <2>1, ReplyAnswers DEF x
  <2> QED BY <1>3, <2>2, <2>3, SentSound
<1>7. CASE badge' \in HandleBegin(badge)
  BY <1>1, <1>3, <1>7, BeginHandled
<1> QED BY <1>2, <1>3, <1>5, <1>6, <1>7

LEMMA TimeoutSound ==
    ASSUME MaxBusy < RetryLimit, Sound(badge), IdleTimeout
    PROVE  Sound(badge')
<1>1. /\ badge.up /\ badge.binary /\ ~badge.latch.restart
      /\ badge' \in AbortOta(badge)
  BY DEF IdleTimeout, IdleDue
<1>2. Abortable(badge)
  BY <1>1, BusyAborts
<1> QED BY <1>1, <1>2, AbortedOta

\* A badge that starts has taken nothing, whatever contention is still to come.
LEMMA BootSound ==
    ASSUME NEW r, r \in Nat, NEW b, b \in Nat, b <= MaxBusy,
           NEW d, d = [InitBadge EXCEPT !.refusals = r, !.busy = b]
    PROVE  Sound(d)
<1>1. /\ NoSession \in SessionType /\ NoSession.state = "idle"
      /\ NoSession.owns = {} /\ ~NoSession.cleaned
  BY DEF NoSession, SessionType, SessionState
<1>2. <<>> \in Seq(Bytes) /\ <<>> \in Seq(Frames) /\ {} \in SUBSET Resources
  OBVIOUS
<1>3. d \in Badge
  BY <1>1, <1>2, EmptyFlow DEF InitBadge, Badge
<1>4. /\ d.up /\ d.session = NoSession /\ d.flow = NoFlow /\ d.latch = NoLatch
      /\ ~d.binary /\ d.pending = <<>> /\ d.held = {} /\ ~d.selected /\ d.busy = b
      /\ ~d.gaveUp /\ d.terminals = 0
  BY DEF InitBadge
<1> HIDE DEF NoSession
<1>5. Owned(d) /\ Uncommitted(d)
  BY <1>1, <1>4, EmptyFlow DEF Owned, Uncommitted, Live
<1>6. Fresh(d)
  BY <1>1, <1>3, <1>4, <1>5 DEF Fresh
<1> QED BY <1>6, FreshSound

LEMMA RebootSound ==
    ASSUME Sound(badge), Boot
    PROVE  Sound(badge') /\ usb' \in Seq(Bytes)
<1> DEFINE r == badge.refusals
           b == badge.busy
<1>1. r \in Nat /\ b \in Nat /\ b <= MaxBusy
  BY DEF Sound, Badge, Owned
<1>2. badge' = [InitBadge EXCEPT !.refusals = r, !.busy = b] /\ usb' = <<>>
  BY DEF Boot
<1> HIDE DEF r, b
<1>3. Sound(badge')
  BY <1>1, <1>2, BootSound
<1> QED BY <1>2, <1>3

LEMMA HostSound ==
    ASSUME Sound(badge), usb \in Seq(Bytes), HostStep
    PROVE  Sound(badge') /\ usb' \in Seq(Bytes)
<1>1. CASE badge' = badge /\ usb' \in {usb, Append(usb, "begin"), Append(usb, "data")}
  BY <1>1 DEF Bytes
<1>2. CASE HostReceive
  <2>1. badge \in Badge /\ badge.out \in Seq(Frames) /\ badge.out # <<>>
    BY <1>2 DEF Sound, Badge, HostReceive
  <2>2. Tail(badge.out) \in Seq(Frames)
    BY <2>1
  <2>3. badge' = [badge EXCEPT !.out = Tail(badge.out)] /\ usb' = usb
    BY <1>2 DEF HostReceive
  <2>4. badge' \in Badge
    BY <2>1, <2>2, <2>3 DEF Badge
  <2>5. SameButAnswers(badge, badge') /\ badge'.terminals = badge.terminals
    BY <2>1, <2>3, <2>4 DEF Badge, SameButAnswers
  <2> QED BY <2>3, <2>5, SentSound
<1> QED BY <1>1, <1>2 DEF HostStep, HostBegin, HostSend, HostQuit

LEMMA InitialTransfer == Init => IInv
<1> SUFFICES ASSUME Init PROVE IInv
  OBVIOUS
<1> DEFINE r == MaxRefusals
           b == MaxBusy
<1>1. r \in Nat /\ b \in Nat /\ b <= MaxBusy
  BY BoundsAssumption
<1>2. badge = [InitBadge EXCEPT !.refusals = r, !.busy = b] /\ usb = <<>>
  <2>1. InitBadge.refusals = r /\ InitBadge.busy = b
    BY DEF InitBadge
  <2>2. InitBadge \in Badge
    <3>1. NoSession \in SessionType
      BY DEF NoSession, SessionType, SessionState
    <3>2. <<>> \in Seq(Bytes) /\ <<>> \in Seq(Frames) /\ {} \in SUBSET Resources
      OBVIOUS
    <3>3. r \in Nat /\ b \in Nat
      BY BoundsAssumption
    <3> QED BY <3>1, <3>2, <3>3, EmptyFlow DEF InitBadge, Badge
  <2> HIDE DEF r, b
  <2> QED BY <2>1, <2>2 DEF Init, Badge
<1> HIDE DEF r, b
<1>3. Sound(badge)
  BY <1>1, <1>2, BootSound
<1> QED BY <1>2, <1>3 DEF IInv

LEMMA NextTransfer ==
    ASSUME MaxBusy < RetryLimit
    PROVE  IInv /\ [Next]_vars => IInv'
<1> SUFFICES ASSUME IInv, [Next]_vars PROVE IInv'
  OBVIOUS
<1>1. Sound(badge) /\ usb \in Seq(Bytes)
  BY DEF IInv
<1>2. CASE Retry
  <2>1. usb' = usb
    BY <1>2 DEF Retry, RetryRestart, RetryAbort, RetryFinish, RetryTerminal, RetryWrite
  <2>2. Sound(badge')
    BY <1>1, <1>2, RestartSound, AbortSound, FinishSound, TerminalSound, WriteSound DEF Retry
  <2> QED BY <1>1, <2>1, <2>2 DEF IInv
<1>3. CASE ReadBinary
  BY <1>1, <1>3, BinarySound DEF IInv
<1>4. CASE ReadText
  BY <1>1, <1>4, TextSound DEF IInv
<1>5. CASE IdleTimeout
  BY <1>1, <1>5, TimeoutSound DEF IInv, IdleTimeout
<1>6. CASE Boot
  BY <1>1, <1>6, RebootSound DEF IInv
<1>7. CASE HostStep
  BY <1>1, <1>7, HostSound DEF IInv
<1>8. CASE UNCHANGED vars
  BY <1>1, <1>8 DEF IInv, vars
<1> QED BY <1>2, <1>3, <1>4, <1>5, <1>6, <1>7, <1>8 DEF Next

LEMMA TransferInvariant ==
    ASSUME MaxBusy < RetryLimit
    PROVE  Spec => []IInv
<1>1. Init => IInv
  BY InitialTransfer
<1>2. IInv /\ [Next]_vars => IInv'
  BY NextTransfer
<1> QED BY <1>1, <1>2, PTL DEF Spec

-----------------------------------------------------------------------------
\* MaxBusy counts the times another caller is found inside the adapter.  In
\* the firmware only the transport task calls it, so none is ever; the theorems
\* hold as long as they are too few to use up the retries of a cleanup.

\* What the badge has taken for a transfer, the operation token, the scanners'
\* pauses, the flash handle and the digest, it gives back before it reads text
\* again, however the transfer ended: but the token whose release and whose
\* recovery restart were both refused (precommit_cleanup, abort_uplink_ota).
THEOREM TakenIsReleased ==
    ASSUME MaxBusy < RetryLimit
    PROVE  Spec => []ReleasedAtRest
<1>1. IInv => ReleasedAtRest
  <2> SUFFICES ASSUME IInv, badge.up, Unlatched(badge), ~badge.binary
               PROVE  badge.held = IF badge.gaveUp THEN {"operation"} ELSE {}
    BY DEF ReleasedAtRest
  <2>1. Owned(badge) /\ Resting(badge) /\ badge.session \in SessionType
    BY DEF IInv, Sound, Badge
  <2>2. Uncommitted(badge) /\ ~Live(badge) /\ badge.session.state # "preparing"
    BY <2>1 DEF Resting, SelectedShape, Unlatched
  <2>3. badge.session.state \in {"idle", "error"}
    BY <2>1, <2>2 DEF Uncommitted, Live, SessionType, SessionState
  <2>4. badge.session.owns # {} => badge.gaveUp
    BY <2>1, <2>2, <2>3 DEF Resting, Owned, Uncommitted, Unlatched
  <2> QED BY <2>1, <2>4 DEF Owned
<1>2. Spec => []IInv
  BY TransferInvariant
<1> QED BY <1>1, <1>2, PTL

\* From the moment an image is selected nothing undoes it or reports it as
\* failed, and no other transfer starts: the badge keeps the operation until
\* it restarts (uplink_usb_ota_finish, finish_uplink_ota).
THEOREM SelectionIsFinal ==
    ASSUME MaxBusy < RetryLimit
    PROVE  Spec => []SelectionStands
<1>1. IInv => SelectionStands
  BY DEF IInv, Sound, Resting, SelectedShape, Uncommitted, Owned, Answered, SelectionStands
<1>2. Spec => []IInv
  BY TransferInvariant
<1> QED BY <1>1, <1>2, PTL

\* Only a whole image of the host's own bytes is selected: every one of its
\* bytes is in flash, and no byte of a line of text or of a transfer that was
\* lost is among them (uplink_usb_ota_write, uplink_usb_ota_finish).
THEOREM SelectionIsWhole ==
    ASSUME MaxBusy < RetryLimit
    PROVE  Spec => []SelectedIsWhole
<1>1. IInv => SelectedIsWhole
  BY DEF IInv, Sound, Resting, SelectedShape, Uncommitted, SelectedIsWhole
<1>2. Spec => []IInv
  BY TransferInvariant
<1> QED BY <1>1, <1>2, PTL

\* Whenever the transport waits for the next chunk its flow and the adapter's
\* session agree on what is received, what is in flash and how much more the
\* host may send, whatever receipt, retry or failure came before
\* (badge_usb_uplink_ota_flow_write_result).
THEOREM AccountsAgree ==
    ASSUME MaxBusy < RetryLimit
    PROVE  Spec => []WindowsAgree
<1>1. IInv => WindowsAgree
  BY LiveReads DEF IInv, Reading, Agreed, Counted, Granted, AtRest, WindowsAgree
<1>2. Spec => []IInv
  BY TransferInvariant
<1> QED BY <1>1, <1>2, PTL

\* The host hears at most one outcome of a session, although the answer, the
\* cleanup and the finish are each tried again in passes of their own
\* (deliver_uplink_terminal, complete_uplink_abort).
THEOREM OutcomeToldOnce ==
    ASSUME MaxBusy < RetryLimit
    PROVE  Spec => []OneTerminal
<1>1. IInv => OneTerminal
  BY DEF IInv, Sound, Answered, OneTerminal
<1>2. Spec => []IInv
  BY TransferInvariant
<1> QED BY <1>1, <1>2, PTL

-----------------------------------------------------------------------------
(* An image for the scanners over USB (ScannerUpload): x1 host, x2 down,   *)
(* x3 up, x4 stream, x5 policy, x6 store, x7 claimed, x8 flash,            *)
(* x9 manifest, x10 shadow, x11 drained.                                   *)

LEMMA StagingConstants == Staging!Lines \notin Nat /\ Staging!Image # <<>> /\ ImageSize \in Nat
<1>1. ImageSize \in Nat \ {0}
  BY StagingAssumption
<1>2. Staging!Lines \notin Nat
  BY DEF Staging!Lines
<1>3. Len(Staging!Image) = ImageSize
  BY <1>1 DEF Staging!Image
<1> QED BY <1>1, <1>2, <1>3

LEMMA CreditTyped == \A n \in Int : Staging!AtMost(n) \in Int /\ (n >= 0 => Staging!AtMost(n) \in Nat)
BY StagingAssumption DEF Staging!AtMost

LEMMA ManifestTyped ==
    ASSUME NEW h \in {<<>>, <<"old">>, Staging!Image}, NEW b \in BOOLEAN
    PROVE  [holds |-> h, armed |-> b] \in Staging!Manifests
BY DEF Staging!Manifests

LEMMA StagingInitial == Staging!Init => Staging!StagingInv
<1> SUFFICES ASSUME Staging!Init PROVE Staging!StagingInv
  OBVIOUS
<1>1. Staging!TypedInv
  <2>1. x1 \in Staging!Hosts
    BY DEF Staging!Init, Staging!Hosts
  <2>4. x9 = [holds |-> <<>>, armed |-> FALSE] \/ x9 = [holds |-> <<"old">>, armed |-> TRUE]
    BY DEF Staging!Init, Staging!NoManifest
  <2>2. x9 \in Staging!Manifests
    BY <2>4, ManifestTyped
  <2>3. x5 \in Staging!Policies /\ x6 \in Staging!Stores
    BY DEF Staging!Init, Staging!Policies, Staging!Stores, Staging!NoPolicy, Staging!NoStore
  <2> QED BY <2>1, <2>2, <2>3 DEF Staging!Init, Staging!TypedInv
<1>2. Staging!CountersAgree
  BY DEF Staging!Init, Staging!CountersAgree, Staging!NoPolicy, Staging!NoStore
<1>3. Staging!StagedInv
  <2>1. x9 = [holds |-> <<>>, armed |-> FALSE] \/ x9 = [holds |-> <<"old">>, armed |-> TRUE]
    BY DEF Staging!Init, Staging!NoManifest
  <2>2. x4 = Staging!Lines /\ x6.final = FALSE
    BY DEF Staging!Init, Staging!NoStore
  <2> QED BY <2>1, <2>2, StagingConstants DEF Staging!StagedInv
<1>4. Staging!ToldInv
  BY DEF Staging!Init, Staging!ToldInv
<1> QED BY <1>1, <1>2, <1>3, <1>4 DEF Staging!StagingInv

\* What the port's input and the flash become.
LEMMA PiecesTyped ==
    ASSUME NEW d \in Seq(Nat), NEW f \in Seq(Nat), NEW k \in Nat, k <= Len(d)
    PROVE  /\ SubSeq(d, 1, k) \in Seq(Nat) /\ Len(SubSeq(d, 1, k)) = k
           /\ SubSeq(d, k + 1, Len(d)) \in Seq(Nat)
           /\ f \o SubSeq(d, 1, k) \in Seq(Nat) /\ Len(f \o SubSeq(d, 1, k)) = Len(f) + k
<1>1. SubSeq(d, 1, k) \in Seq(Nat) /\ Len(SubSeq(d, 1, k)) = k
  BY SubSeqProperties
<1>2. SubSeq(d, k + 1, Len(d)) \in Seq(Nat)
  BY SubSeqProperties
<1> QED BY <1>1, <1>2, ConcatProperties

\* Everything is dropped.
LEMMA AbortedKeeps ==
    ASSUME Staging!StagingInv, x4 # Staging!Lines,
           Staging!ParserCleared, Staging!StoreCleared, UNCHANGED x9,
           x1' = x1, x2' \in Seq(Nat), x8' \in Seq(Nat), x11' = x11
    PROVE  Staging!StagingInv'
<1>1. Staging!TypedInv'
  BY DEF Staging!StagingInv, Staging!TypedInv, Staging!ParserCleared, Staging!StoreCleared,
         Staging!Policies, Staging!Stores, Staging!NoPolicy, Staging!NoStore
<1>2. Staging!CountersAgree'
  BY DEF Staging!CountersAgree, Staging!ParserCleared, Staging!StoreCleared, Staging!NoPolicy,
         Staging!NoStore
<1>3. Staging!StagedInv'
  BY StagingConstants DEF Staging!StagingInv, Staging!StagedInv, Staging!ParserCleared,
     Staging!StoreCleared, Staging!NoManifest, Staging!NoStore
<1>4. Staging!ToldInv'
  BY DEF Staging!StagingInv, Staging!ToldInv
<1> QED BY <1>1, <1>2, <1>3, <1>4 DEF Staging!StagingInv

LEMMA ReadLineNext == Staging!StagingInv /\ Staging!ReadLine => Staging!StagingInv'
<1> SUFFICES ASSUME Staging!StagingInv, Staging!ReadLine PROVE Staging!StagingInv'
  OBVIOUS
<1>1. x2' \in Seq(Nat) /\ x1' = x1 /\ x11' = x11 /\ x1.at # "told" /\ x2 # <<>>
  BY DEF Staging!StagingInv, Staging!TypedInv, Staging!ToldInv, Staging!ReadLine
<1>2. CASE Staging!Refused
  <2>1. /\ x9' = x9 \/ x9' = Staging!NoManifest
        /\ UNCHANGED <<x4, x5, x6, x7, x8, x10>>
    BY <1>2 DEF Staging!Refused
  <2>2. x9' \in Staging!Manifests
    BY <2>1, ManifestTyped DEF Staging!StagingInv, Staging!TypedInv, Staging!NoManifest
  <2>6. Staging!TypedInv'
    BY <1>1, <2>1, <2>2 DEF Staging!StagingInv, Staging!TypedInv
  <2>3. Staging!CountersAgree'
    BY <2>1 DEF Staging!StagingInv, Staging!CountersAgree
  <2>4. x4 = Staging!Lines /\ ~x6.final
    BY DEF Staging!ReadLine
  <2>5. Staging!StagedInv'
    <3>1. CASE x9' = x9
      BY <1>1, <2>1, <2>4, <3>1 DEF Staging!StagingInv, Staging!StagedInv
    <3>2. CASE x9' = Staging!NoManifest
      BY <1>1, <2>1, <2>4, <3>2, StagingConstants DEF Staging!StagedInv, Staging!NoManifest
    <3> QED BY <2>1, <3>1, <3>2
  <2> QED BY <1>1, <2>3, <2>5, <2>6 DEF Staging!StagingInv, Staging!ToldInv
<1>3. CASE Staging!Accepted
  <2> DEFINE p == Staging!AtMost(ImageSize)
  <2>1. p \in Nat
    BY StagingConstants, CreditTyped
  <2> HIDE DEF p
  <2>2. /\ x9' = Staging!NoManifest /\ x8' = <<>> /\ x7' = TRUE /\ x4' = 0
        /\ x6' = [active |-> TRUE, credit |-> x1.credit, received |-> 0, next |-> p, final |-> FALSE]
        /\ x10' = [certain |-> TRUE, present |-> TRUE]
        /\ x5' = [on |-> TRUE, credit |-> x1.credit, received |-> 0,
                  remaining |-> IF x1.credit THEN p ELSE 0]
    BY <1>3 DEF Staging!Accepted, p
  <2>3. x1.credit \in BOOLEAN
    BY DEF Staging!StagingInv, Staging!TypedInv, Staging!Hosts
  <2>4. Staging!TypedInv'
    BY <1>1, <2>1, <2>2, <2>3 DEF Staging!StagingInv, Staging!TypedInv, Staging!Manifests,
       Staging!NoManifest, Staging!Policies, Staging!Stores
  <2>5. Staging!CountersAgree'
    BY <2>1, <2>2, StagingConstants DEF Staging!CountersAgree
  <2>6. Staging!StagedInv'
    BY <2>2, StagingConstants DEF Staging!StagedInv, Staging!NoManifest
  <2> QED BY <1>1, <2>4, <2>5, <2>6 DEF Staging!StagingInv, Staging!ToldInv
<1>4. CASE UNCHANGED <<x3, x4, x5, x6, x7, x8, x9, x10, x12>>
  BY <1>1, <1>4 DEF Staging!StagingInv, Staging!TypedInv, Staging!CountersAgree,
     Staging!StagedInv, Staging!ToldInv
<1>5. CASE Staging!Unheard
  <2>1. /\ x9' = Staging!NoManifest /\ x8' = <<>> /\ x7' = FALSE
        /\ x10' = [certain |-> TRUE, present |-> FALSE]
    BY <1>5 DEF Staging!Unheard
  <2>2. /\ x6' = [active |-> FALSE, credit |-> FALSE, received |-> 0, next |-> 0, final |-> FALSE]
        /\ x4' = Staging!Lines
        /\ x5' = [on |-> FALSE, credit |-> FALSE, received |-> 0, remaining |-> 0]
    BY <1>5 DEF Staging!Unheard, Staging!NoStore, Staging!NoPolicy, Staging!ParserCleared
  <2>3. Staging!TypedInv'
    BY <1>1, <2>1, <2>2 DEF Staging!StagingInv, Staging!TypedInv, Staging!Manifests,
       Staging!NoManifest, Staging!Policies, Staging!Stores
  <2>4. Staging!CountersAgree'
    BY <2>1, <2>2 DEF Staging!CountersAgree
  <2>5. Staging!StagedInv'
    BY <2>1, <2>2, StagingConstants DEF Staging!StagedInv, Staging!NoManifest
  <2> QED BY <1>1, <2>3, <2>4, <2>5 DEF Staging!StagingInv, Staging!ToldInv
<1> QED BY <1>2, <1>3, <1>4, <1>5 DEF Staging!ReadLine

LEMMA ContinuesNext ==
    ASSUME Staging!StagingInv, x4 # Staging!Lines, NEW k \in 1..PortRead, PortRead \in Nat,
           k <= Len(x2), x5.credit => Staging!Planned(k), ~x5.credit => k <= ImageSize - x4,
           Staging!Continues(k), x1' = x1, x11' = x11, x2' = SubSeq(x2, k + 1, Len(x2))
    PROVE  Staging!StagingInv'
<1> DEFINE n == x4 + k  a == Staging!AtMost(ImageSize - n)
<1>1. /\ x4 \in Nat /\ x5.received = x4 /\ x6.received = x4 /\ Len(x8) = x4
      /\ x5.on /\ x6.active /\ x7 /\ x5.credit = x6.credit /\ x9 = Staging!NoManifest
      /\ ~x6.final
      /\ x6.credit => x6.next = x4 + x5.remaining
      /\ x5 \in Staging!Policies /\ x6 \in Staging!Stores /\ x8 \in Seq(Nat) /\ x2 \in Seq(Nat)
  BY StagingConstants DEF Staging!StagingInv, Staging!CountersAgree, Staging!StagedInv, Staging!TypedInv
<1>2. k \in Nat /\ n \in Nat /\ n < ImageSize /\ ImageSize \in Nat
  <2>1. k <= ImageSize - x4 /\ x4 + k # ImageSize
    BY <1>1 DEF Staging!Planned, Staging!Continues, Staging!Completes
  <2>2. k \in Nat /\ ImageSize \in Nat /\ x4 \in Nat
    BY <1>1, StagingConstants
  <2> QED BY <2>1, <2>2
<1>3. a \in Nat
  <2>1. ImageSize - n \in Int /\ ImageSize - n >= 0
    BY <1>2
  <2> HIDE DEF n
  <2> QED BY <2>1, CreditTyped
<1> HIDE DEF a
<1>4. /\ x8' = x8 \o SubSeq(x2, 1, k) /\ x4' = n /\ UNCHANGED <<x7, x9, x10>>
      /\ x6' = [x6 EXCEPT !.received = n, !.next = IF x6.credit /\ n = x6.next THEN n + a ELSE @]
      /\ x5' = [x5 EXCEPT !.received = n,
                   !.remaining = IF ~x5.credit THEN 0 ELSE IF @ = k THEN a ELSE @ - k]
  BY <1>1, <1>2 DEF Staging!Continues, Staging!StoreWrites, Staging!PolicyNotes, a
<1>5. x8' \in Seq(Nat) /\ Len(x8') = n /\ x2' \in Seq(Nat)
  <2>1. /\ SubSeq(x2, k + 1, Len(x2)) \in Seq(Nat) /\ x8 \o SubSeq(x2, 1, k) \in Seq(Nat)
        /\ Len(x8 \o SubSeq(x2, 1, k)) = Len(x8) + k
    BY <1>1, <1>2, PiecesTyped, ZenonT(60)
  <2> QED BY <1>1, <1>4, <2>1
<1>6. x5.credit => k <= x5.remaining
  BY DEF Staging!Planned
<1>7. /\ x6.received \in Nat /\ x6.next \in Nat /\ x5.remaining \in Nat /\ x5.credit \in BOOLEAN
      /\ x6.credit \in BOOLEAN /\ x5.on \in BOOLEAN /\ x6.active \in BOOLEAN /\ x6.final \in BOOLEAN
  BY <1>1 DEF Staging!Policies, Staging!Stores
<1>8. /\ x6'.received = n /\ x5'.received = n /\ x5'.on = x5.on /\ x5'.credit = x5.credit
      /\ x6'.active = x6.active /\ x6'.credit = x6.credit /\ x6'.final = x6.final
      /\ x6'.next = (IF x6.credit /\ n = x6.next THEN n + a ELSE x6.next)
      /\ x5'.remaining = (IF ~x5.credit THEN 0 ELSE IF x5.remaining = k THEN a ELSE x5.remaining - k)
  BY <1>1, <1>4 DEF Staging!Policies, Staging!Stores
<1>9. x6' \in Staging!Stores /\ x5' \in Staging!Policies
  <2>1. (IF x6.credit /\ n = x6.next THEN n + a ELSE x6.next) \in Nat
    BY <1>2, <1>3, <1>7
  <2>2. (IF ~x5.credit THEN 0 ELSE IF x5.remaining = k THEN a ELSE x5.remaining - k) \in Nat
    BY <1>2, <1>3, <1>6, <1>7
  <2> QED BY <1>1, <1>2, <1>4, <2>1, <2>2 DEF Staging!Policies, Staging!Stores
<1>10. Staging!TypedInv'
  BY <1>2, <1>4, <1>5, <1>9 DEF Staging!StagingInv, Staging!TypedInv
<1>11. Staging!CountersAgree'
  <2>1. x6'.credit => x6'.next = n + x5'.remaining
    BY <1>1, <1>2, <1>3, <1>6, <1>7, <1>8, SMTT(60)
  <2> QED BY <1>1, <1>2, <1>4, <1>5, <1>8, <2>1, StagingConstants DEF Staging!CountersAgree
<1>12. Staging!StagedInv'
  BY <1>1, <1>2, <1>4, <1>8, StagingConstants DEF Staging!StagedInv, Staging!NoManifest
<1>13. Staging!ToldInv'
  BY DEF Staging!StagingInv, Staging!ToldInv
<1> QED BY <1>10, <1>11, <1>12, <1>13 DEF Staging!StagingInv

LEMMA StopsNext ==
    ASSUME Staging!StagingInv, x4 # Staging!Lines, NEW k \in 1..PortRead, PortRead \in Nat,
           k <= Len(x2),
           Staging!Stops(k), x1' = x1, x11' = x11, x2' = SubSeq(x2, k + 1, Len(x2))
    PROVE  Staging!StagingInv'
<1>1. x2 \in Seq(Nat) /\ x8 \in Seq(Nat)
  BY DEF Staging!StagingInv, Staging!TypedInv
<1>2. \A n \in {0, k} : x8 \o SubSeq(x2, 1, n) \in Seq(Nat)
  BY <1>1, PiecesTyped
<1>3. x2' \in Seq(Nat)
  BY <1>1, PiecesTyped
<1>4. /\ Staging!ParserCleared /\ Staging!StoreCleared /\ UNCHANGED x9
      /\ x8' \in Seq(Nat)
  BY <1>2 DEF Staging!Stops, Staging!Aborted
<1> QED BY <1>3, <1>4, AbortedKeeps

LEMMA FinalizesNext ==
    ASSUME Staging!StagingInv, x4 # Staging!Lines, NEW k \in 1..PortRead, PortRead \in Nat,
           k <= Len(x2),
           Staging!Finalizes(k), x1' = x1, x11' = x11, x2' = SubSeq(x2, k + 1, Len(x2))
    PROVE  Staging!StagingInv'
<1> DEFINE image == x8 \o SubSeq(x2, 1, k)
<1>1. x2 \in Seq(Nat) /\ x8 \in Seq(Nat)
  BY DEF Staging!StagingInv, Staging!TypedInv
<1>2. image \in Seq(Nat) /\ x2' \in Seq(Nat)
  BY <1>1, PiecesTyped
<1>3. /\ Staging!ParserCleared /\ x1.at # "told" /\ x6.active /\ x7
      /\ x6 \in Staging!Stores /\ x9 = Staging!NoManifest
  BY DEF Staging!Finalizes, Staging!StagingInv, Staging!ToldInv, Staging!CountersAgree,
         Staging!TypedInv, Staging!StagedInv
<1> HIDE DEF image
<1>4. CASE Staging!StoreCleared /\ x8' = image /\ UNCHANGED x9
  BY <1>2, <1>3, <1>4, AbortedKeeps
<1>5. ASSUME x6' = Staging!NoStore, x7' = FALSE, x8' = <<>>, image = Staging!Image,
             NEW withdrawn \in BOOLEAN,
             x9' = [holds |-> IF withdrawn THEN <<>> ELSE image, armed |-> FALSE],
             x10' = [certain |-> withdrawn, present |-> FALSE]
      PROVE  Staging!StagingInv'
  <2>1. Staging!TypedInv'
    BY <1>2, <1>3, <1>5 DEF Staging!StagingInv, Staging!TypedInv, Staging!Policies, Staging!Stores,
       Staging!ParserCleared, Staging!NoPolicy, Staging!NoStore, Staging!Manifests
  <2>2. Staging!CountersAgree'
    BY <1>3, <1>5 DEF Staging!CountersAgree, Staging!ParserCleared, Staging!NoPolicy, Staging!NoStore
  <2>3. Staging!StagedInv'
    BY <1>3, <1>5, StagingConstants DEF Staging!StagedInv, Staging!ParserCleared, Staging!NoStore
  <2> QED BY <1>3, <2>1, <2>2, <2>3 DEF Staging!StagingInv, Staging!ToldInv
<1>6. ASSUME x6' = [x6 EXCEPT !.received = ImageSize, !.final = TRUE], x7' = x7, x10' = x10,
             x9' = [holds |-> image, armed |-> FALSE], image = Staging!Image, x8' = image
      PROVE  Staging!StagingInv'
  <2>1. x6' \in Staging!Stores /\ x6'.final /\ x6'.active = x6.active
    BY <1>3, <1>6, StagingConstants DEF Staging!Stores
  <2>2. Staging!TypedInv'
    BY <1>2, <1>3, <1>6, <2>1 DEF Staging!StagingInv, Staging!TypedInv, Staging!Policies,
       Staging!ParserCleared, Staging!NoPolicy, Staging!Manifests
  <2>3. Staging!CountersAgree'
    BY <1>3, <1>6, <2>1 DEF Staging!CountersAgree, Staging!ParserCleared, Staging!NoPolicy
  <2>4. Staging!StagedInv'
    BY <1>3, <1>6, <2>1, StagingConstants DEF Staging!StagedInv, Staging!ParserCleared
  <2> QED BY <1>3, <2>2, <2>3, <2>4 DEF Staging!StagingInv, Staging!ToldInv
<1> QED BY <1>4, <1>5, <1>6 DEF Staging!Finalizes, Staging!Committed, image

LEMMA ReadDataNext == Staging!StagingInv /\ Staging!ReadData => Staging!StagingInv'
<1> SUFFICES ASSUME Staging!StagingInv, Staging!ReadData PROVE Staging!StagingInv'
  OBVIOUS
<1>1. x4 # Staging!Lines /\ x1' = x1 /\ x11' = x11 /\ PortRead \in Nat
  BY StagingAssumption DEF Staging!ReadData
<1>2. PICK k \in 1..PortRead :
        /\ k <= Len(x2)
        /\ x2' = SubSeq(x2, k + 1, Len(x2))
        /\ IF x5.credit
           THEN IF Staging!Planned(k)
                THEN Staging!Continues(k) \/ Staging!Stops(k) \/ Staging!Finalizes(k)
                ELSE Staging!Aborted("drained") /\ Staging!Fine /\ UNCHANGED x8
           ELSE /\ k <= ImageSize - x4
                /\ Staging!Continues(k) \/ Staging!Stops(k) \/ Staging!Finalizes(k)
  BY DEF Staging!ReadData
<1>3. CASE Staging!Aborted("drained") /\ UNCHANGED x8
  <2>1. x2 \in Seq(Nat) /\ x8 \in Seq(Nat) /\ k \in Nat
    BY <1>1 DEF Staging!StagingInv, Staging!TypedInv
  <2>2. x2' \in Seq(Nat)
    BY <1>2, <2>1, PiecesTyped
  <2> QED BY <1>1, <1>3, <2>1, <2>2, AbortedKeeps DEF Staging!Aborted
<1> QED BY <1>1, <1>2, <1>3, ContinuesNext, StopsNext, FinalizesNext

LEMMA TerminalNext == Staging!StagingInv /\ Staging!Terminal => Staging!StagingInv'
<1> SUFFICES ASSUME Staging!StagingInv, Staging!Terminal PROVE Staging!StagingInv'
  OBVIOUS
<1>1. /\ x6.final /\ x4 = Staging!Lines /\ x9 = [holds |-> Staging!Image, armed |-> FALSE]
      /\ x6' = Staging!NoStore /\ x7' = FALSE /\ UNCHANGED <<x1, x2, x4, x5>> /\ ~x5.on
      /\ x1.at # "told"
  BY DEF Staging!Terminal, Staging!StagingInv, Staging!StagedInv, Staging!CountersAgree, Staging!ToldInv
<1>2. PICK how \in Staging!Outcomes : x11' = (how = "drained") /\ Staging!Complete(how = "drained")
  BY DEF Staging!Terminal
<1>3. \/ /\ x11' = TRUE /\ x9' = [holds |-> Staging!Image, armed |-> TRUE] /\ x8' = x8
         /\ x10' = [certain |-> TRUE, present |-> FALSE]
      \/ /\ x9' = Staging!NoManifest /\ x10' = [certain |-> TRUE, present |-> FALSE] /\ x8' = <<>>
      \/ /\ x9' = [holds |-> Staging!Image, armed |-> FALSE] /\ x8' = <<>>
         /\ x10' = [certain |-> FALSE, present |-> FALSE]
  BY <1>1, <1>2 DEF Staging!Complete, Staging!Withdrawn
<1>4. Staging!TypedInv'
  <2>1. x9' \in Staging!Manifests
    BY <1>3, ManifestTyped DEF Staging!NoManifest
  <2>5. \/ x10' = [certain |-> TRUE, present |-> FALSE]
        \/ x10' = [certain |-> FALSE, present |-> FALSE]
    BY <1>3
  <2>2. x10' \in [certain : BOOLEAN, present : BOOLEAN]
    <3>1. \A b, c \in BOOLEAN : [certain |-> b, present |-> c] \in [certain : BOOLEAN, present : BOOLEAN]
      OBVIOUS
    <3> QED BY <2>5, <3>1
  <2>3. x6' \in Staging!Stores
    BY <1>1 DEF Staging!Stores, Staging!NoStore
  <2>4. x8' \in Seq(Nat)
    <3>1. <<>> \in Seq(Nat) /\ x8 \in Seq(Nat)
      BY DEF Staging!StagingInv, Staging!TypedInv
    <3>2. x8' = x8 \/ x8' = <<>>
      BY <1>3
    <3> QED BY <3>1, <3>2
  <2> QED BY <2>4, <1>1, <2>1, <2>2, <2>3 DEF Staging!StagingInv, Staging!TypedInv
<1>5. Staging!CountersAgree'
  BY <1>1 DEF Staging!CountersAgree, Staging!NoStore
<1>6. Staging!StagedInv'
  BY <1>1, <1>3, StagingConstants DEF Staging!StagedInv, Staging!NoStore, Staging!NoManifest
<1> QED BY <1>1, <1>4, <1>5, <1>6 DEF Staging!StagingInv, Staging!ToldInv

\* A step of the host leaves the badge alone.
LEMMA HostMoves ==
    ASSUME Staging!StagingInv, UNCHANGED <<x4, x5, x6, x7, x8, x9, x10, x11>>,
           x1' \in Staging!Hosts, x2' \in Seq(Nat),
           x1'.at = "told" => \/ x1.at = "told" /\ x2' = x2
                              \/ /\ x4 = Staging!Lines /\ ~x6.final /\ x2' = <<>>
                                 /\ Staging!Reported = "committed"
    PROVE  Staging!StagingInv'
<1>1. Staging!TypedInv'
  BY DEF Staging!StagingInv, Staging!TypedInv
<1>2. Staging!CountersAgree' /\ Staging!StagedInv'
  BY DEF Staging!StagingInv, Staging!CountersAgree, Staging!StagedInv
<1>3. Staging!Reported = "committed" =>
        /\ x10.certain /\ ~x10.present /\ x9.holds = Staging!Image
  BY DEF Staging!Reported
<1>4. x9 \in Staging!Manifests
  BY DEF Staging!StagingInv, Staging!TypedInv
<1>5. x9.holds = Staging!Image /\ x9.armed => x9 = [holds |-> Staging!Image, armed |-> TRUE]
  BY <1>4 DEF Staging!Manifests
<1>6. Staging!ToldInv'
  BY <1>3, <1>5 DEF Staging!StagingInv, Staging!StagedInv, Staging!ToldInv
<1> QED BY <1>1, <1>2, <1>6 DEF Staging!StagingInv

LEMMA StagingNext == Staging!StagingInv /\ [Staging!Next]_(Staging!vars) => Staging!StagingInv'
<1> SUFFICES ASSUME Staging!StagingInv, [Staging!Next]_(Staging!vars) PROVE Staging!StagingInv'
  OBVIOUS
<1>1. x1 \in Staging!Hosts /\ x2 \in Seq(Nat) /\ x1.sent \in Nat /\ ImageSize \in Nat
  BY StagingConstants DEF Staging!StagingInv, Staging!TypedInv, Staging!Hosts
<1>2. CASE Staging!IdleTimeout
  <2>1. /\ x4 # Staging!Lines /\ Staging!ParserCleared /\ Staging!StoreCleared
        /\ UNCHANGED <<x1, x2, x8, x9, x11>>
    BY <1>2 DEF Staging!IdleTimeout, Staging!Aborted
  <2>2. x8 \in Seq(Nat)
    BY DEF Staging!StagingInv, Staging!TypedInv
  <2> QED BY <1>1, <2>1, <2>2, AbortedKeeps
<1>3. CASE Staging!Ask
  <2>1. x1' \in Staging!Hosts /\ x1'.at # "told"
    BY <1>1, <1>3 DEF Staging!Ask, Staging!Hosts
  <2>2. x2' \in Seq(Nat)
    BY <1>1, <1>3, AppendProperties DEF Staging!Ask, Staging!Line
  <2> QED BY <2>2,  <1>3, <2>1, HostMoves DEF Staging!Ask
<1>4. CASE Staging!SendUnit
  <2>2. x1.sent + 1 \in Nat
    BY <1>1
  <2>4. \E n \in Nat, p \in {"send", "final", "credit"} : x1' = [x1 EXCEPT !.sent = n, !.at = p]
    BY <1>4, <2>2 DEF Staging!SendUnit
  <2>1. x1' \in Staging!Hosts /\ x1'.at # "told"
    BY <1>1, <2>4 DEF Staging!Hosts
  <2>3. x2' \in Seq(Nat)
    BY <1>1, <1>4, <2>2, AppendProperties DEF Staging!SendUnit
  <2> QED BY <2>3,  <1>4, <2>1, HostMoves DEF Staging!SendUnit
<1>5. CASE Staging!HearReceipt
  <2>1. x1.at = "ready" \/ x1.at = "credit" \/ x1.at = "final"
    BY <1>5 DEF Staging!HearReceipt
  <2>3. UNCHANGED <<x2, x4, x5, x6, x7, x8, x9, x10, x11>>
    BY <1>5 DEF Staging!HearReceipt
  <2> DEFINE w == IF x1.credit THEN x1.sent + Staging!AtMost(ImageSize - x1.sent) ELSE ImageSize
  <2>4. \/ x1' = [x1 EXCEPT !.at = "failed"]
        \/ x1' = [x1 EXCEPT !.at = "done"]
        \/ x1' = [x1 EXCEPT !.at = "send", !.window = w]
    BY <1>5 DEF Staging!HearReceipt
  <2>2. Staging!AtMost(ImageSize - x1.sent) \in Int
    BY <1>1, CreditTyped
  <2>5. w \in Int
    BY <1>1, <2>2
  <2> HIDE DEF w
  <2> QED BY <1>1, <2>3, <2>4, <2>5, HostMoves DEF Staging!Hosts
<1>6. CASE Staging!Reconcile
  <2>1. /\ UNCHANGED <<x2, x4, x5, x6, x7, x8, x9, x10, x11>>
        /\ x4 = Staging!Lines /\ ~x6.final /\ x2 = <<>>
        /\ \/ x1' = [x1 EXCEPT !.at = "failed"]
           \/ x1' = [x1 EXCEPT !.at = "begin"]
           \/ x1' = [x1 EXCEPT !.at = "told"] /\ Staging!Reported = "committed"
    BY <1>6 DEF Staging!Reconcile
  <2>2. x1' \in Staging!Hosts /\ (x1'.at = "told" => Staging!Reported = "committed")
    BY <1>1, <2>1 DEF Staging!Hosts
  <2> QED BY <1>1, <2>1, <2>2, HostMoves
<1>7. CASE Staging!LosesTouch
  <2>1. /\ UNCHANGED <<x2, x4, x5, x6, x7, x8, x9, x10, x11>>
        /\ \/ x1' = [x1 EXCEPT !.at = "failed"]
           \/ x1' = [x1 EXCEPT !.at = "away", !.tries = @ + 1]
    BY <1>7 DEF Staging!LosesTouch
  <2>2. x1.tries + 1 \in Nat
    BY <1>1 DEF Staging!Hosts
  <2>3. x1' \in Staging!Hosts /\ x1'.at # "told"
    BY <1>1, <2>1, <2>2 DEF Staging!Hosts
  <2> QED BY <1>1, <2>1, <2>3, HostMoves
<1>8. CASE Staging!Intruder
  <2>1. /\ UNCHANGED <<x1, x4, x5, x6, x7, x8, x9, x10, x11>> /\ x4 # Staging!Lines
        /\ x2' \in Seq(Nat)
    BY <1>1, <1>8 DEF Staging!Intruder, Staging!Line
  <2>2. x1.at # "told"
    BY <2>1 DEF Staging!StagingInv, Staging!ToldInv
  <2> QED BY <1>1, <2>1, <2>2, HostMoves
<1>9. CASE UNCHANGED Staging!vars
  <2>1. UNCHANGED <<x1, x2, x4, x5, x6, x7, x8, x9, x10, x11>>
    BY <1>9 DEF Staging!vars
  <2> QED BY <1>1, <2>1, HostMoves
<1> QED BY <1>2, <1>3, <1>4, <1>5, <1>6, <1>7, <1>8, <1>9, ReadLineNext, ReadDataNext, TerminalNext
        DEF Staging!Next, Staging!Badge, Staging!Host

-----------------------------------------------------------------------------
(* An image over the network (NodeUpdates): x1 flash, x4 manifest,         *)
(* x5 token, x6 silent, x7 rx, x8 generation, x9 job, x10 prepared,        *)
(* x12 accepted.                                                           *)

LEMMA NodeInitial == Node!Init => Node!NodeInv
<1> SUFFICES ASSUME Node!Init PROVE Node!NodeInv
  OBVIOUS
<1>1. Node!TypedInv
  BY DEF Node!Init, Node!TypedInv, Node!Idle, Node!Readers, Node!Jobs
<1>2. \A a \in Node!Actors : x9[a].guard = 0
  BY DEF Node!Init, Node!Idle
<1>3. Node!AlikeInv /\ Node!GuardInv /\ Node!PauseInv /\ Node!OneReader
  BY <1>2 DEF Node!Init, Node!AlikeInv, Node!AcceptedIsWhole, Node!GuardInv, Node!PauseInv,
     Node!OneReader, Node!NoManifest, Node!Actors
<1> QED BY <1>1, <1>3 DEF Node!NodeInv

\* A step of a job that keeps what it holds.
LEMMA JobGoes ==
    ASSUME Node!NodeInv, x9' \in [Node!Actors -> Node!Jobs], UNCHANGED <<x7, x8>>,
           \A b \in Node!Actors : x9'[b].guard = x9[b].guard,
           x9'["worker"].at = "paused" => x9["worker"].at = "paused" \/ Node!AckIsMine("worker")
    PROVE  Node!TypedInv' /\ Node!GuardInv' /\ Node!PauseInv' /\ Node!OneReader'
<1>1. x7 \in Node!Readers /\ "worker" \in Node!Actors
  BY DEF Node!NodeInv, Node!TypedInv, Node!Actors
<1>2. Node!TypedInv'
  BY DEF Node!NodeInv, Node!TypedInv
<1>3. Node!GuardInv' /\ Node!PauseInv'
  BY DEF Node!NodeInv, Node!GuardInv, Node!PauseInv
<1>4. Node!OneReader'
  BY <1>1 DEF Node!NodeInv, Node!PauseInv, Node!OneReader, Node!AckIsMine
<1> QED BY <1>2, <1>3, <1>4

LEMMA JobTyped ==
    ASSUME Node!NodeInv, NEW a \in Node!Actors
    PROVE  /\ x9 \in [Node!Actors -> Node!Jobs] /\ x9[a] \in Node!Jobs
           /\ x9[a].n \in Nat /\ x9[a].guard \in Nat
           /\ x7 \in Node!Readers /\ x7.request \in Nat /\ x7.ack \in Nat /\ x7.seen \in Nat
           /\ x8 \in Nat
BY DEF Node!NodeInv, Node!TypedInv, Node!Jobs, Node!Readers

\* A job asks for the pause: it gets it only if nobody holds it.
LEMMA PauseNext ==
    ASSUME Node!NodeInv, NEW a \in Node!Actors, Node!Pause(a, "pausing")
    PROVE  Node!TypedInv' /\ Node!GuardInv' /\ Node!PauseInv' /\ Node!OneReader'
<1>1. /\ x9 \in [Node!Actors -> Node!Jobs]
      /\ x7 \in Node!Readers /\ x8 \in Nat
  BY DEF Node!NodeInv, Node!TypedInv
<1>2. x8' = x8 + 1 /\ x8' \in Nat \ {0}
  BY <1>1 DEF Node!Pause
<1>3. CASE x7.request = 0
  <2> DEFINE g == x8'
  <2>1. /\ x7' = [x7 EXCEPT !.request = g]
        /\ x9' = [x9 EXCEPT ![a].guard = g, ![a].at = "pausing"]
    BY <1>3 DEF Node!Pause
  <2>2. \A b \in Node!Actors : x9[b].guard = 0
    BY <1>3 DEF Node!NodeInv, Node!GuardInv
  <2>3. g \in Nat /\ g # 0
    BY <1>2
  <2> HIDE DEF g
  <2>4. /\ x9'[a].guard = g /\ x9'[a].at = "pausing"
        /\ \A b \in Node!Actors : b # a => x9'[b] = x9[b]
        /\ x9' \in [Node!Actors -> Node!Jobs]
    BY <1>1, <2>1, <2>3, ZenonT(60) DEF Node!Jobs
  <2>5. /\ x7' \in Node!Readers
        /\ x7'.request = g /\ x7'.pc = x7.pc /\ x7'.ack = x7.ack /\ x7'.seen = x7.seen
    BY <1>1, <2>1, <2>3 DEF Node!Readers
  <2>6. Node!TypedInv'
    BY <1>2, <2>4, <2>5 DEF Node!TypedInv
  <2>7. Node!GuardInv'
    BY <2>2, <2>4, <2>5 DEF Node!GuardInv
  <2>8. Node!PauseInv'
    BY <2>5 DEF Node!NodeInv, Node!PauseInv
  <2>9. Node!OneReader'
    BY <2>2, <2>4 DEF Node!OneReader, Node!Actors
  <2> QED BY <2>6, <2>7, <2>8, <2>9
<1>4. CASE x7.request # 0
  <2>1. PICK at \in {"write", "fail"} : x9' = [x9 EXCEPT ![a].at = at]
    BY <1>4 DEF Node!Pause
  <2>2. x7' = x7
    BY <1>4 DEF Node!Pause
  <2>3. /\ \A b \in Node!Actors : x9'[b].guard = x9[b].guard
        /\ x9'[a].at = at /\ \A b \in Node!Actors : b # a => x9'[b] = x9[b]
        /\ x9' \in [Node!Actors -> Node!Jobs]
    BY <1>1, <2>1 DEF Node!Jobs
  <2>4. Node!TypedInv'
    BY <1>2, <2>2, <2>3 DEF Node!NodeInv, Node!TypedInv
  <2>5. Node!GuardInv' /\ Node!PauseInv'
    BY <2>2, <2>3 DEF Node!NodeInv, Node!GuardInv, Node!PauseInv
  <2>6. Node!OneReader'
    BY <2>1, <2>2, <2>3 DEF Node!NodeInv, Node!OneReader, Node!Actors
  <2> QED BY <2>4, <2>5, <2>6
<1> QED BY <1>3, <1>4

\* A job ends, and withdraws the request that is its own.
LEMMA EndsNext ==
    ASSUME Node!NodeInv, NEW a \in Node!Actors, Node!Ends(a), x8' = x8
    PROVE  Node!TypedInv' /\ Node!GuardInv' /\ Node!PauseInv' /\ Node!OneReader'
<1>1. /\ x9 \in [Node!Actors -> Node!Jobs]
      /\ x7 \in Node!Readers /\ x8 \in Nat
  BY DEF Node!NodeInv, Node!TypedInv
<1>2. /\ x9'[a].guard = 0 /\ x9'[a].at = "idle"
      /\ \A b \in Node!Actors : b # a => x9'[b] = x9[b]
      /\ x9' \in [Node!Actors -> Node!Jobs]
  BY <1>1 DEF Node!Ends, Node!Idle, Node!Jobs
<1>3. x7' = Node!Unpaused(a)
  BY DEF Node!Ends
<1>4. /\ x7' \in Node!Readers
      /\ x7'.pc = x7.pc /\ x7'.ack = x7.ack /\ x7'.seen = x7.seen
      /\ x7'.request = x7.request \/ (x9[a].guard # 0 /\ x7.request = x9[a].guard)
  BY <1>1, <1>3 DEF Node!Unpaused, Node!Readers
<1>5. Node!TypedInv'
  BY <1>1, <1>2, <1>4 DEF Node!TypedInv
<1>6. Node!GuardInv'
  <2> SUFFICES ASSUME NEW b \in Node!Actors, x9'[b].guard # 0
               PROVE  /\ x7'.request = x9'[b].guard
                      /\ \A c \in Node!Actors : x9'[c].guard # 0 => b = c
    BY DEF Node!GuardInv
  <2>1. b # a /\ x9[b].guard # 0 /\ x9'[b].guard = x9[b].guard
    BY <1>2
  <2>2. /\ x7.request = x9[b].guard
        /\ \A c \in Node!Actors : x9[c].guard # 0 => b = c
    BY <2>1 DEF Node!NodeInv, Node!GuardInv
  <2> QED BY <1>2, <1>4, <2>1, <2>2
<1>7. Node!PauseInv'
  BY <1>4 DEF Node!NodeInv, Node!PauseInv
<1>8. Node!OneReader'
  BY <1>2, <1>4 DEF Node!NodeInv, Node!OneReader, Node!Actors
<1> QED BY <1>5, <1>6, <1>7, <1>8

\* The RX task: it stands still for the request it sees, until that is withdrawn.
LEMMA RxNext ==
    ASSUME Node!NodeInv, Node!RxSees \/ Node!RxResumes
    PROVE  Node!TypedInv' /\ Node!GuardInv' /\ Node!PauseInv' /\ Node!OneReader'
<1>1. /\ x7 \in Node!Readers
      /\ UNCHANGED <<x8, x9>> /\ "worker" \in Node!Actors
  BY DEF Node!NodeInv, Node!TypedInv, Node!RxSees, Node!RxResumes, Node!Actors
<1>2. CASE Node!RxSees
  <2>1. /\ x7' \in Node!Readers
        /\ x7'.request = x7.request /\ x7'.pc = "paused"
        /\ x7'.ack = x7.request /\ x7'.seen = x7.request /\ x7.request # 0 /\ x7.pc # "paused"
    BY <1>1, <1>2 DEF Node!RxSees, Node!Readers
  <2> QED BY <1>1, <2>1 DEF Node!NodeInv, Node!TypedInv, Node!GuardInv, Node!PauseInv, Node!OneReader
<1>3. CASE Node!RxResumes
  <2>1. /\ x7' \in Node!Readers
        /\ x7'.request = x7.request /\ x7'.pc = "read" /\ x7'.seen = x7.seen
        /\ x7'.ack = (IF x7.ack = x7.seen THEN 0 ELSE x7.ack)
        /\ x7.request # x7.seen /\ x7.pc = "paused"
    BY <1>1, <1>3 DEF Node!RxResumes, Node!Readers
  <2>2. x7'.ack = 0
    BY <2>1 DEF Node!NodeInv, Node!PauseInv
  <2> QED BY <1>1, <2>1, <2>2 DEF Node!NodeInv, Node!TypedInv, Node!GuardInv, Node!PauseInv, Node!OneReader
<1> QED BY <1>2, <1>3

\* The images: what is stored, prepared and accepted.
LEMMA AlikeNext ==
    ASSUME Node!NodeInv, Node!Next
    PROVE  Node!AlikeInv'
<1>1. Node!AlikeInv
  BY DEF Node!NodeInv
<1>2. CASE \E a \in Node!Actors : Node!Commit(a)
  <2>1. PICK a \in Node!Actors : Node!Commit(a)
    BY <1>2
  <2>2. Node!Whole(Node!CrcOf(a))
    BY DEF Node!Whole, Node!CrcOf, Node!Blocks
  <2>3. x4'.crc = Node!CrcOf(a) \/ x4'.crc = <<>>
    BY <2>1 DEF Node!Commit, Node!NoManifest
  <2>4. UNCHANGED <<x10, x12>>
    BY <2>1 DEF Node!Commit, Node!Scanner
  <2> QED BY <1>1, <2>2, <2>3, <2>4 DEF Node!AlikeInv, Node!AcceptedIsWhole, Node!Whole
<1>3. CASE Node!RelayBegins
  BY <1>1, <1>3 DEF Node!RelayBegins, Node!Store, Node!AlikeInv, Node!AcceptedIsWhole, Node!Whole
<1>4. CASE Node!RelayFinishes
  <2>1. x12' = <<>> \/ (x12' = x11 /\ x11 = x10.crc)
    BY <1>4 DEF Node!RelayFinishes, Node!Verified
  <2>2. UNCHANGED <<x4, x10>>
    BY <1>4 DEF Node!RelayFinishes, Node!Store
  <2> QED BY <1>1, <2>1, <2>2 DEF Node!AlikeInv, Node!AcceptedIsWhole, Node!Whole
<1>5. ASSUME UNCHANGED <<x10, x12>>, x4' = x4 \/ x4' = Node!NoManifest
      PROVE  Node!AlikeInv'
  BY <1>1, <1>5 DEF Node!AlikeInv, Node!AcceptedIsWhole, Node!Whole, Node!NoManifest
<1>6. \/ \E a \in Node!Actors : Node!Commit(a)
      \/ Node!RelayBegins \/ Node!RelayFinishes
      \/ UNCHANGED <<x10, x12>> /\ (x4' = x4 \/ x4' = Node!NoManifest)
  <2>1. ASSUME NEW a \in Node!Actors, Node!Step(a), ~Node!Commit(a)
        PROVE  UNCHANGED <<x10, x12>> /\ x4' = x4
    BY <2>1 DEF Node!Step, Node!Acknowledged, Node!WriteBlock, Node!SelfEnds, Node!Restart,
       Node!Finish, Node!Store, Node!Scanner
  <2>2. ASSUME NEW a \in Node!Actors, Node!AckTimeout(a) \/ Node!WriteFails(a) \/ Node!CommitFails(a)
        PROVE  UNCHANGED <<x10, x12>> /\ (x4' = x4 \/ x4' = Node!NoManifest)
    BY <2>2 DEF Node!AckTimeout, Node!WriteFails, Node!CommitFails, Node!Store, Node!Scanner
  <2>3. ASSUME \/ Node!RxSees \/ Node!RxResumes \/ Node!HttpPauses \/ Node!HttpStarts
               \/ Node!RelayValidates \/ Node!RelayBlock \/ Node!Upload \/ Node!Post
               \/ \E k \in {"self", "cache"} : Node!Check(k)
        PROVE  UNCHANGED <<x10, x12>> /\ (x4' = x4 \/ x4' = Node!NoManifest)
    BY <2>3 DEF Node!RxSees, Node!RxResumes, Node!HttpPauses, Node!HttpStarts, Node!RelayValidates,
       Node!RelayBlock, Node!Upload, Node!Post, Node!Check, Node!Store, Node!Scanner
  <2> QED BY <2>1, <2>2, <2>3 DEF Node!Next, Node!Program
<1> QED BY <1>2, <1>3, <1>4, <1>5, <1>6

\* What a step does to the jobs and to the RX task.
LEMMA JobsNext ==
    ASSUME Node!NodeInv, Node!Next
    PROVE  Node!TypedInv' /\ Node!GuardInv' /\ Node!PauseInv' /\ Node!OneReader'
<1> DEFINE Kept == Node!TypedInv' /\ Node!GuardInv' /\ Node!PauseInv' /\ Node!OneReader'
<1> SUFFICES Kept
  OBVIOUS
<1>0. /\ x9 \in [Node!Actors -> Node!Jobs]
      /\ "http" \in Node!Actors /\ "auto" \in Node!Actors /\ "worker" \in Node!Actors
  BY DEF Node!NodeInv, Node!TypedInv, Node!Actors
<1>1. ASSUME NEW a \in Node!Actors, NEW at, Node!Goes(a, at), UNCHANGED <<x7, x8>>,
             at \in {"write", "paused", "fail", "done", "restart"},
             at = "paused" => Node!AckIsMine(a)
      PROVE  Kept
  <2>1. /\ x9' \in [Node!Actors -> Node!Jobs] /\ \A b \in Node!Actors : x9'[b].guard = x9[b].guard
        /\ x9'[a].at = at /\ \A b \in Node!Actors : b # a => x9'[b] = x9[b]
    BY <1>0, <1>1 DEF Node!Goes, Node!Jobs
  <2>2. x9'["worker"].at = "paused" => x9["worker"].at = "paused" \/ Node!AckIsMine("worker")
    BY <1>0, <1>1, <2>1
  <2> HIDE DEF Kept
  <2>3. Kept
    BY <1>1, <2>1, <2>2, JobGoes DEF Kept
  <2> QED BY <2>3
<1>2. ASSUME NEW a \in Node!Actors, x9[a] = Node!Idle,
             NEW k \in {"upload", "self_post", "self", "cache", "relay"},
             NEW at \in {"pause", "write", "validate"},
             x9' = [x9 EXCEPT ![a] = [Node!Idle EXCEPT !.kind = k, !.at = at]],
             UNCHANGED <<x7, x8>>
      PROVE  Kept
  <2> DEFINE new == [Node!Idle EXCEPT !.kind = k, !.at = at]
  <2>1. new \in Node!Jobs /\ new.guard = 0 /\ new.at = at
    BY DEF Node!Idle, Node!Jobs
  <2>4. x9' = [x9 EXCEPT ![a] = new] /\ x9[a].guard = 0
    BY <1>2 DEF Node!Idle
  <2> HIDE DEF new
  <2>2. /\ x9' \in [Node!Actors -> Node!Jobs] /\ \A b \in Node!Actors : x9'[b].guard = x9[b].guard
        /\ x9'[a].at = at /\ \A b \in Node!Actors : b # a => x9'[b] = x9[b]
    BY <1>0, <2>1, <2>4
  <2>3. x9'["worker"].at = "paused" => x9["worker"].at = "paused"
    BY <1>0, <1>2, <2>2
  <2> QED BY <1>2, <2>2, <2>3, JobGoes
<1> HIDE DEF Kept
<1>3. ASSUME UNCHANGED <<x7, x8, x9>> PROVE Kept
  BY <1>3 DEF Node!NodeInv, Node!TypedInv, Node!GuardInv, Node!PauseInv, Node!OneReader, Kept
<1>4. ASSUME NEW a \in Node!Actors, Node!Step(a) PROVE Kept
  <2>1. CASE Node!Acknowledged(a, "paused")
    BY <1>1, <2>1 DEF Node!Acknowledged
  <2>2. CASE Node!WriteBlock(a)
    <3>1. UNCHANGED <<x7, x8>> /\ x9' = [x9 EXCEPT ![a].n = x9[a].n + 1]
      BY <2>2 DEF Node!WriteBlock
    <3>2. x9[a].n + 1 \in Nat
      BY JobTyped
    <3>3. /\ x9' \in [Node!Actors -> Node!Jobs] /\ \A b \in Node!Actors : x9'[b].guard = x9[b].guard
          /\ \A b \in Node!Actors : x9'[b].at = x9[b].at
      BY <1>0, <3>1, <3>2 DEF Node!Jobs
    <3> QED BY <1>0, <3>1, <3>3, JobGoes DEF Kept
  <2>3. CASE Node!SelfEnds(a)
    BY <1>1, <2>3 DEF Node!SelfEnds
  <2>4. CASE Node!Restart(a)
    <3>1. /\ x7' = [pc |-> "read", request |-> 0, ack |-> 0, seen |-> 0] /\ x8' = 0
          /\ x9' = [b \in Node!Actors |-> Node!Idle]
      BY <2>4 DEF Node!Restart
    <3>2. Node!TypedInv'
      BY <3>1 DEF Node!TypedInv, Node!Idle, Node!Readers, Node!Jobs
    <3>3. \A b \in Node!Actors : x9'[b].guard = 0
      BY <3>1 DEF Node!Idle
    <3> QED BY <1>0, <3>1, <3>2, <3>3 DEF Kept, Node!GuardInv, Node!PauseInv, Node!OneReader
  <2>5. CASE Node!Commit(a)
    BY <1>1, <2>5 DEF Node!Commit
  <2>6. CASE Node!Finish(a)
    BY <2>6, EndsNext DEF Node!Finish, Kept
  <2> QED BY <1>4, <2>1, <2>2, <2>3, <2>4, <2>5, <2>6 DEF Node!Step
<1>5. ASSUME NEW a \in Node!Actors, Node!AckTimeout(a) \/ Node!WriteFails(a) \/ Node!CommitFails(a)
      PROVE  Kept
  BY <1>1, <1>5 DEF Node!AckTimeout, Node!WriteFails, Node!CommitFails
<1>6. CASE Node!RxSees \/ Node!RxResumes
  BY <1>6, RxNext DEF Kept
<1>7. CASE Node!HttpPauses
  BY <1>0, <1>7, PauseNext DEF Node!HttpPauses, Kept
<1>8. CASE Node!HttpStarts
  BY <1>0, <1>1, <1>8 DEF Node!HttpStarts, Node!Store, Node!Scanner
<1>9. CASE Node!RelayValidates
  <2>1. CASE Node!Pause("worker", "pausing")
    BY <1>0, <2>1, PauseNext DEF Kept
  <2>2. CASE Node!Goes("worker", "fail") /\ UNCHANGED <<x7, x8>>
    BY <1>0, <1>1, <2>2
  <2> QED BY <1>9, <2>1, <2>2 DEF Node!RelayValidates
<1>10. CASE Node!RelayBlock
  BY <1>3, <1>10 DEF Node!RelayBlock, Node!Store
<1>11. CASE Node!RelayFinishes
  BY <1>0, <1>1, <1>11 DEF Node!RelayFinishes, Node!Store
<1>12. CASE Node!Upload \/ Node!Post
  BY <1>0, <1>2, <1>12 DEF Node!Upload, Node!Post, Node!Store, Node!Scanner
<1>13. CASE Node!RelayBegins
  BY <1>0, <1>2, <1>13 DEF Node!RelayBegins, Node!Store
<1>14. ASSUME NEW k \in {"self", "cache"}, Node!Check(k) PROVE Kept
  BY <1>0, <1>2, <1>14 DEF Node!Check
<1> QED BY <1>4, <1>5, <1>6, <1>7, <1>8, <1>9, <1>10, <1>11, <1>12, <1>13, <1>14
        DEF Node!Next, Node!Program, Kept

LEMMA NodeNext == Node!NodeInv /\ [Node!Next]_(Node!vars) => Node!NodeInv'
<1> SUFFICES ASSUME Node!NodeInv, [Node!Next]_(Node!vars) PROVE Node!NodeInv'
  OBVIOUS
<1>1. CASE UNCHANGED Node!vars
  BY <1>1 DEF Node!vars, Node!NodeInv, Node!TypedInv, Node!AlikeInv, Node!AcceptedIsWhole,
     Node!Whole, Node!GuardInv, Node!PauseInv, Node!OneReader
<1>2. CASE Node!Next
  BY <1>2, AlikeNext, JobsNext DEF Node!NodeInv
<1> QED BY <1>1, <1>2

-----------------------------------------------------------------------------
(* The identity behind the fence (ScannerIdentity): x1 scanner, x2 wire,   *)
(* x3 arrived, x4 rx, x5 pause, x6 ident, x7 live, x8 floor, x9 worker,    *)
(* x10 relay, x11 era.                                                     *)

\* The end of a sequence, from behind its first m.
LEMMA CutFront ==
    ASSUME NEW S, NEW s \in Seq(S), NEW m \in 0..Len(s)
    PROVE  /\ SubSeq(s, m + 1, Len(s)) \in Seq(S)
           /\ Len(SubSeq(s, m + 1, Len(s))) = Len(s) - m
           /\ \A i \in 1 .. Len(s) - m : SubSeq(s, m + 1, Len(s))[i] = s[m + i]
<1>1. Len(s) \in Nat
  OBVIOUS
<1>2. \A i \in (m + 1) .. Len(s) : s[i] \in S
  <2>1. \A i \in 1 .. Len(s) : s[i] \in S
    BY ElementOfSeq
  <2> QED BY <1>1, <2>1
<1> QED BY <1>1, <1>2, SubSeqProperties

LEMMA CutEnd ==
    ASSUME NEW S, NEW s \in Seq(S), NEW m \in 0..Len(s)
    PROVE  /\ SubSeq(s, 1, m) \in Seq(S) /\ Len(SubSeq(s, 1, m)) = m
           /\ \A i \in 1 .. m : SubSeq(s, 1, m)[i] = s[i]
<1>1. Len(s) \in Nat
  OBVIOUS
<1>2. \A i \in 1 .. m : s[i] \in S
  <2>1. \A i \in 1 .. Len(s) : s[i] \in S
    BY ElementOfSeq
  <2> QED BY <1>1, <2>1
<1> QED BY <1>1, <1>2, SubSeqProperties

LEMMA Joined ==
    ASSUME NEW S, NEW b \in Seq(S), NEW w \in Seq(S)
    PROVE  /\ b \o w \in Seq(S) /\ Len(b \o w) = Len(b) + Len(w)
           /\ \A i \in 1 .. Len(b) + Len(w) : (b \o w)[i] = IF i <= Len(b) THEN b[i] ELSE w[i - Len(b)]
BY ConcatProperties

\* Three sequences in a row, and where each of their members is.
LEMMA InARow ==
    ASSUME NEW S, NEW b \in Seq(S), NEW w \in Seq(S), NEW c \in Seq(S)
    PROVE  /\ b \o w \o c \in Seq(S) /\ Len(b \o w \o c) = Len(b) + Len(w) + Len(c)
           /\ \A i \in 1 .. Len(b) + Len(w) + Len(c) :
                (b \o w \o c)[i] = IF i <= Len(b) THEN b[i]
                                   ELSE IF i <= Len(b) + Len(w) THEN w[i - Len(b)]
                                   ELSE c[i - Len(b) - Len(w)]
<1> DEFINE d == b \o w
<1>1. /\ d \in Seq(S) /\ Len(d) = Len(b) + Len(w) /\ Len(b) \in Nat /\ Len(w) \in Nat /\ Len(c) \in Nat
      /\ \A i \in 1 .. Len(b) + Len(w) : d[i] = IF i <= Len(b) THEN b[i] ELSE w[i - Len(b)]
  BY Joined
<1> HIDE DEF d
<1>2. /\ d \o c \in Seq(S) /\ Len(d \o c) = Len(d) + Len(c)
      /\ \A i \in 1 .. Len(d) + Len(c) : (d \o c)[i] = IF i <= Len(d) THEN d[i] ELSE c[i - Len(d)]
  <2>1. d \in Seq(S)
    BY <1>1
  <2> QED BY <2>1, Joined
<1>3. \A i \in 1 .. Len(b) + Len(w) + Len(c) :
        (d \o c)[i] = IF i <= Len(b) THEN b[i]
                      ELSE IF i <= Len(b) + Len(w) THEN w[i - Len(b)]
                      ELSE c[i - Len(b) - Len(w)]
  BY <1>1, <1>2
<1> QED BY <1>1, <1>2, <1>3 DEF d

\* What is left of the halves under way, with some of them spoilt, is still
\* made of pairs.
Left(h, g, m) ==
    /\ Len(g) + m <= Len(h)
    /\ \A i \in 1 .. Len(g) : /\ g[i].boot = h[m + i].boot
                              /\ g[i].end = h[m + i].end \/ g[i].end = "noise"

LEMMA ChainLeft ==
    ASSUME NEW h, NEW g, NEW m \in Nat, Len(h) \in Nat, Len(g) \in Nat,
           Identity!Chained(h), Left(h, g, m)
    PROVE  Identity!Chained(g)
<1> SUFFICES ASSUME NEW i \in 1 .. Len(g) - 1, g[i].end = "head", g[i + 1].end = "tail"
             PROVE  g[i].boot = g[i + 1].boot
  BY DEF Identity!Chained, Identity!Follows
<1>1. i \in 1 .. Len(g) /\ i + 1 \in 1 .. Len(g) /\ m + i \in 1 .. Len(h) - 1 /\ (m + i) + 1 = m + (i + 1)
  BY DEF Left
<1>2. /\ g[i].boot = h[m + i].boot /\ g[i + 1].boot = h[m + (i + 1)].boot
      /\ h[m + i].end = "head" /\ h[m + (i + 1)].end = "tail"
  BY <1>1 DEF Left
<1>3. Identity!Follows(h[m + i], h[(m + i) + 1])
  BY <1>1 DEF Identity!Chained
<1> QED BY <1>1, <1>2, <1>3 DEF Identity!Follows

LEMMA IdTyped ==
    ASSUME Identity!TypedInv
    PROVE  /\ x1 \in [boot : Nat, line : [kind : Kinds, boot : Nat] \cup {Identity!NoLine}]
           /\ x1.boot \in Nat /\ (x1.line # Identity!NoLine => x1.line \in [kind : Kinds, boot : Nat])
           /\ x2 \in Seq(Identity!HalfSet) /\ Len(x2) \in Nat /\ x3 \in 0..Len(x2) /\ x4 \in Identity!Readers
           /\ x4.buf \in Seq(Identity!HalfSet) /\ Len(x4.buf) \in Nat /\ x4.published \in Nat
           /\ x5 \in [request : Nat, last : Nat] /\ x11 \in Nat
           /\ x6 \in [gen : Nat, complete : BOOLEAN, version : Nat, boot : Nat, era : Nat]
           /\ x7 \in [gen : Nat, version : Nat, boot : Nat, received : BOOLEAN]
           /\ x8 \in [gen : Nat, era : Nat]
           /\ x9 \in [pc : {"idle", "asking", "drain", "resume"}, guard : Nat]
           /\ x10 \in [pc : {"idle", "asking"}, guard : Nat]
           /\ x6.gen \in Nat /\ x7.gen \in Nat /\ x8.gen \in Nat /\ x8.era \in Nat
BY SMTT(60) DEF Identity!TypedInv, Identity!Readers

LEMMA HalfTyped ==
    ASSUME Identity!TypedInv, NEW line \in [kind : Kinds, boot : Nat], NEW end \in {"head", "tail", "noise"}
    PROVE  /\ Identity!Half(end, line) \in Identity!HalfSet
           /\ Identity!Half(end, line).boot = line.boot /\ Identity!Half(end, line).end = end
           /\ Identity!Half(end, line).era = x11
BY IdTyped DEF Identity!Half, Identity!HalfSet

LEMMA ComingOf ==
    ASSUME Identity!TypedInv
    PROVE  /\ Identity!Coming \in Seq(Identity!HalfSet) /\ Len(Identity!Coming) \in 0..1
           /\ x1.line = Identity!NoLine => Len(Identity!Coming) = 0
           /\ x1.line # Identity!NoLine =>
                /\ Len(Identity!Coming) = 1 /\ Identity!Coming[1] = Identity!Half("tail", x1.line)
                /\ Identity!Coming[1].boot = x1.line.boot /\ Identity!Coming[1].end = "tail"
<1>1. CASE x1.line = Identity!NoLine
  <2>1. Identity!Coming = <<>>
    BY <1>1 DEF Identity!Coming
  <2>2. <<>> \in Seq(Identity!HalfSet) /\ Len(<<>>) = 0
    OBVIOUS
  <2> QED BY <1>1, <2>1, <2>2
<1>2. CASE x1.line # Identity!NoLine
  <2> DEFINE t == Identity!Half("tail", x1.line)
  <2>1. Identity!Coming = <<t>>
    BY <1>2 DEF Identity!Coming
  <2>2. t \in Identity!HalfSet /\ t.boot = x1.line.boot /\ t.end = "tail"
    BY <1>2, IdTyped, HalfTyped
  <2> HIDE DEF t
  <2>3. <<t>> \in Seq(Identity!HalfSet) /\ Len(<<t>>) = 1 /\ <<t>>[1] = t
    BY <2>2
  <2> QED BY <1>2, <2>1, <2>2, <2>3 DEF t
<1> QED BY <1>1, <1>2

HalvesFacts ==
    /\ Identity!Halves \in Seq(Identity!HalfSet)
    /\ Len(Identity!Halves) = Len(x4.buf) + Len(x2) + Len(Identity!Coming)
    /\ Len(Identity!Coming) \in 0..1 /\ (x1.line = Identity!NoLine => Len(Identity!Coming) = 0)
    /\ x1.line # Identity!NoLine =>
         /\ Len(Identity!Coming) = 1
         /\ Identity!Coming[1].boot = x1.line.boot /\ Identity!Coming[1].end = "tail"
    /\ Len(x4.buf) \in Nat /\ Len(x2) \in Nat
    /\ \A i \in 1 .. Len(x4.buf) + Len(x2) + Len(Identity!Coming) :
         Identity!Halves[i] = IF i <= Len(x4.buf) THEN x4.buf[i]
                              ELSE IF i <= Len(x4.buf) + Len(x2) THEN x2[i - Len(x4.buf)]
                              ELSE Identity!Coming[i - Len(x4.buf) - Len(x2)]

LEMMA HalvesAre == Identity!TypedInv => HalvesFacts
<1> SUFFICES ASSUME Identity!TypedInv PROVE HalvesFacts
  OBVIOUS
<1>1. x4.buf \in Seq(Identity!HalfSet) /\ x2 \in Seq(Identity!HalfSet) /\ Len(x4.buf) \in Nat /\ Len(x2) \in Nat
  BY IdTyped
<1>2. /\ Identity!Coming \in Seq(Identity!HalfSet) /\ Len(Identity!Coming) \in 0..1
      /\ x1.line = Identity!NoLine => Len(Identity!Coming) = 0
      /\ x1.line # Identity!NoLine =>
           /\ Len(Identity!Coming) = 1
           /\ Identity!Coming[1].boot = x1.line.boot /\ Identity!Coming[1].end = "tail"
  BY ComingOf
<1>3. Identity!Halves = x4.buf \o x2 \o Identity!Coming
  BY DEF Identity!Halves
<1>4. /\ Identity!Halves \in Seq(Identity!HalfSet)
      /\ Len(Identity!Halves) = Len(x4.buf) + Len(x2) + Len(Identity!Coming)
      /\ \A i \in 1 .. Len(x4.buf) + Len(x2) + Len(Identity!Coming) :
           Identity!Halves[i] = IF i <= Len(x4.buf) THEN x4.buf[i]
                                ELSE IF i <= Len(x4.buf) + Len(x2) THEN x2[i - Len(x4.buf)]
                                ELSE Identity!Coming[i - Len(x4.buf) - Len(x2)]
  BY <1>1, <1>2, <1>3, InARow
<1> QED BY <1>1, <1>2, <1>4 DEF HalvesFacts

LEMMA HalvesAreNext == Identity!TypedInv' => HalvesFacts'
BY HalvesAre, PTL

\* The framer and what is under way stay of one piece: whatever was taken from
\* the front or spoilt, the framer paused, was reset, did not move or took a head.
LEMMA PairNext ==
    ASSUME Identity!TypedInv, Identity!TypedInv', Identity!PairInv,
           NEW m \in Nat, Left(Identity!Halves, (Identity!Halves)', m),
           \/ x4'.pc = "paused" \/ x4'.head = Identity!NoLine
           \/ m = 0 /\ x4'.head = x4.head /\ x4.pc # "paused"
           \/ m = 1 /\ x4'.head = Identity!Halves[1] /\ Identity!Halves[1].end = "head"
    PROVE  Identity!PairInv'
<1> DEFINE h == Identity!Halves  g == (Identity!Halves)'
<1>1. h \in Seq(Identity!HalfSet) /\ Len(h) \in Nat /\ g \in Seq(Identity!HalfSet) /\ Len(g) \in Nat
  <2>1. h \in Seq(Identity!HalfSet)
    BY HalvesAre DEF HalvesFacts
  <2>2. g \in Seq(Identity!HalfSet)
    BY HalvesAreNext DEF HalvesFacts
  <2> QED BY <2>1, <2>2
<1>2. Identity!Chained(h) /\ Left(h, g, m)
  BY DEF Identity!PairInv
<1>3. x4.pc # "paused" /\ x4.head # Identity!NoLine /\ h # <<>> /\ h[1].end = "tail" =>
        x4.head.boot = h[1].boot
  BY DEF Identity!PairInv
<1>4. Identity!Chained(g) /\ (x4'.pc # "paused" /\ x4'.head # Identity!NoLine /\ g # <<>> /\ g[1].end = "tail" =>
        x4'.head.boot = g[1].boot) => Identity!PairInv'
  BY DEF Identity!PairInv, Identity!Chained, Identity!Follows
<1> HIDE DEF h, g
<1>5. Identity!Chained(g)
  BY <1>1, <1>2, ChainLeft
<1>6. ASSUME x4'.pc # "paused", x4'.head # Identity!NoLine, g # <<>>, g[1].end = "tail"
      PROVE  x4'.head.boot = g[1].boot
  <2>1. 1 \in 1..Len(g) /\ g[1].boot = h[m + 1].boot /\ h[m + 1].end = "tail" /\ m + 1 \in 1..Len(h)
    BY <1>1, <1>2, <1>6 DEF Left
  <2>2. CASE m = 0
    <3>1. x4'.head = x4.head /\ x4.pc # "paused" /\ h # <<>> /\ m + 1 = 1
      BY <1>6, <1>1, <2>1, <2>2
    <3> QED BY <1>3, <1>6, <2>1, <3>1
  <2>3. CASE m # 0
    <3>1. m = 1 /\ x4'.head = h[1] /\ h[1].end = "head"
      BY <1>6, <2>3 DEF h
    <3>2. Identity!Follows(h[1], h[1 + 1])
      BY <1>1, <1>2, <2>1, <3>1 DEF Identity!Chained
    <3> QED BY <2>1, <3>1, <3>2 DEF Identity!Follows
  <2> QED BY <2>2, <2>3
<1> QED BY <1>4, <1>5, <1>6

\* What only moves the wire and the tasks that hold it.
LEMMA LinkNext ==
    ASSUME Identity!IdentityInv, Identity!TypedInv', Identity!PauseInv', Identity!PairInv',
           UNCHANGED <<x4, x6, x7, x8>>, x11 <= x11',
           \A i \in 1..Len(x2') : x2'[i].era >= x8.era
    PROVE  Identity!IdentityInv'
<1>1. DOMAIN x2' = 1..Len(x2')
  <2>1. x2' \in Seq(Identity!HalfSet)
    BY DEF Identity!TypedInv
  <2> QED BY <2>1
<1>2. x11 \in Nat /\ x11' \in Nat /\ x8.era \in Nat
  BY IdTyped DEF Identity!IdentityInv, Identity!TypedInv
<1>3. Identity!EraInv'
  BY <1>1, <1>2 DEF Identity!IdentityInv, Identity!EraInv
<1>4. Identity!GenInv' /\ Identity!RecordsAgree'
  BY DEF Identity!IdentityInv, Identity!GenInv, Identity!RecordsAgree
<1> QED BY <1>3, <1>4 DEF Identity!IdentityInv

LEMMA ErasOf ==
    ASSUME Identity!IdentityInv
    PROVE  /\ \A i \in 1..Len(x2) : x2[i].era >= x8.era
           /\ \A i \in 1..Len(x4.buf) : x4.buf[i].era >= x8.era
           /\ x8.era <= x11 /\ x8.era \in Nat /\ x11 \in Nat
<1>1. DOMAIN x2 = 1..Len(x2) /\ DOMAIN x4.buf = 1..Len(x4.buf)
  <2>1. x2 \in Seq(Identity!HalfSet) /\ x4.buf \in Seq(Identity!HalfSet)
    BY IdTyped DEF Identity!IdentityInv
  <2> QED BY <2>1
<1> QED BY <1>1, IdTyped DEF Identity!IdentityInv, Identity!EraInv

\* One more at the end of the second of three.
LEMMA OneMore ==
    ASSUME NEW b \in Nat, NEW w \in Nat, NEW d \in 0..1, NEW c \in 0..1,
           NEW h, NEW g, NEW B, NEW W, NEW V, NEW D, NEW C, NEW p,
           \A i \in 1..w : V[i] = W[i], V[w + 1] = p,
           \A i \in 1 .. b + w + d : h[i] = IF i <= b THEN B[i]
                                            ELSE IF i <= b + w THEN W[i - b] ELSE D[i - b - w],
           \A i \in 1 .. b + (w + 1) + c :
             g[i] = IF i <= b THEN B[i]
                    ELSE IF i <= b + (w + 1) THEN V[i - b] ELSE C[i - b - (w + 1)]
    PROVE  /\ \A i \in 1 .. b + w : g[i] = h[i]
           /\ g[b + w + 1] = p /\ (c = 1 => g[b + w + 2] = C[1])
<1>1. ASSUME NEW i \in 1 .. b + w PROVE g[i] = h[i]
  <2>1. CASE i <= b
    BY <2>1
  <2>2. CASE ~(i <= b)
    <3>1. i - b \in 1..w /\ i \in 1 .. b + w + d /\ i \in 1 .. b + (w + 1) + c /\ i <= b + (w + 1) /\ i <= b + w
      BY <2>2
    <3> QED BY <2>2, <3>1
  <2> QED BY <2>1, <2>2
<1>2. g[b + w + 1] = p
  <2>1. (b + w + 1) - b = w + 1
    OBVIOUS
  <2> QED BY <2>1
<1>3. ASSUME c = 1 PROVE g[b + w + 2] = C[1]
  <2>1. (b + w + 2) - b - (w + 1) = 1 /\ b + w + 2 \in 1 .. b + (w + 1) + c
    BY <1>3
  <2> QED BY <2>1
<1> QED BY <1>1, <1>2, <1>3

LEMMA SendHeadNext ==
    ASSUME Identity!IdentityInv, NEW kind \in Kinds, Identity!SendHead(kind)
    PROVE  Identity!IdentityInv'
<1> DEFINE line == [kind |-> kind, boot |-> x1.boot]  p == Identity!Half("head", line)
<1>1. /\ x1.line = Identity!NoLine /\ x1' = [x1 EXCEPT !.line = line] /\ x2' = Append(x2, p)
      /\ UNCHANGED <<x3, x4, x5, x6, x7, x8, x9, x10, x11>>
  BY DEF Identity!SendHead, Identity!Put, Identity!records
<1>2. line \in [kind : Kinds, boot : Nat] /\ line.boot = x1.boot
  BY IdTyped DEF Identity!IdentityInv
<1>3. p \in Identity!HalfSet /\ p.boot = x1.boot /\ p.end = "head" /\ p.era = x11
  <2> HIDE DEF line
  <2> QED BY <1>2, HalfTyped DEF Identity!IdentityInv
<1>4. /\ x1' \in [boot : Nat, line : [kind : Kinds, boot : Nat] \cup {Identity!NoLine}]
      /\ x1'.line = line
  BY <1>1, <1>2, IdTyped DEF Identity!IdentityInv
<1> HIDE DEF p, line
<1>5. /\ x2' \in Seq(Identity!HalfSet) /\ Len(x2') = Len(x2) + 1 /\ Len(x2) \in Nat /\ x3 \in 0..Len(x2)
      /\ \A i \in 1..Len(x2) : x2'[i] = x2[i]
      /\ x2'[Len(x2) + 1] = p
  BY <1>1, <1>3, IdTyped DEF Identity!IdentityInv
<1>6. Identity!TypedInv'
  BY <1>1, <1>4, <1>5, SMTT(60) DEF Identity!IdentityInv, Identity!TypedInv
<1>7. Identity!PauseInv'
  BY <1>1 DEF Identity!IdentityInv, Identity!PauseInv
<1>8. \A i \in 1..Len(x2') : x2'[i].era >= x8.era
  BY <1>3, <1>5, ErasOf
<1>9. Identity!PairInv'
  <2> DEFINE h == Identity!Halves  g == (Identity!Halves)'  n == Len(x4.buf) + Len(x2)
  <2>0. HalvesFacts /\ HalvesFacts' /\ x4' = x4
    BY <1>1, <1>6, HalvesAre, HalvesAreNext DEF Identity!IdentityInv
  <2>1. h \in Seq(Identity!HalfSet) /\ Len(h) = n /\ n \in Nat
    BY <1>1, <2>0 DEF HalvesFacts
  <2>2. PICK b \in Nat, w \in Nat : b = Len(x4.buf) /\ w = Len(x2)
    BY <1>5, <2>0 DEF HalvesFacts
  <2>3. PICK c \in 0..1, d \in 0..1 : c = Len((Identity!Coming)') /\ d = Len(Identity!Coming)
    BY <2>0 DEF HalvesFacts
  <2>4. /\ \A i \in 1 .. b + w + d :
             h[i] = IF i <= b THEN x4.buf[i]
                    ELSE IF i <= b + w THEN x2[i - b] ELSE Identity!Coming[i - b - w]
        /\ \A i \in 1 .. b + (w + 1) + c :
             g[i] = IF i <= b THEN x4.buf[i]
                    ELSE IF i <= b + (w + 1) THEN x2'[i - b] ELSE (Identity!Coming)'[i - b - (w + 1)]
        /\ Len(g) = b + (w + 1) + c /\ g \in Seq(Identity!HalfSet) /\ n = b + w
        /\ c = 1 => (Identity!Coming)'[1].boot = x1.boot
    <3>1. x1'.line # Identity!NoLine => x1'.line.boot = x1.boot
      BY <1>2, <1>4
    <3>2. \A i \in 1 .. b + w + d :
             h[i] = IF i <= b THEN x4.buf[i]
                    ELSE IF i <= b + w THEN x2[i - b] ELSE Identity!Coming[i - b - w]
      BY <2>0, <2>2, <2>3 DEF HalvesFacts
    <3>3. Len(x4'.buf) = b /\ Len(x2') = w + 1 /\ c = Len((Identity!Coming)') /\ x4'.buf = x4.buf
      BY <1>5, <2>0, <2>2, <2>3
    <3>4. \A i \in 1 .. b + (w + 1) + c :
             g[i] = IF i <= b THEN x4.buf[i]
                    ELSE IF i <= b + (w + 1) THEN x2'[i - b] ELSE (Identity!Coming)'[i - b - (w + 1)]
      BY <2>0, <3>3 DEF HalvesFacts
    <3>5. Len(g) = b + (w + 1) + c /\ g \in Seq(Identity!HalfSet)
      BY <2>0, <3>3 DEF HalvesFacts
    <3>6. ASSUME c = 1 PROVE (Identity!Coming)'[1].boot = x1.boot
      <4>1. x1'.line # Identity!NoLine
        BY <2>0, <3>3, <3>6 DEF HalvesFacts
      <4> QED BY <2>0, <3>1, <4>1 DEF HalvesFacts
    <3> QED BY <2>2, <3>2, <3>4, <3>5, <3>6
  <2> HIDE DEF h, g, n
  <2>5. /\ \A i \in 1..n : g[i] = h[i]
        /\ g[n + 1] = p /\ (c = 1 => g[n + 2].boot = x1.boot)
    <3>2. \A i \in 1..w : x2'[i] = x2[i]
      BY <1>5, <2>2
    <3>3. x2'[w + 1] = p
      BY <1>5, <2>2
    <3>4. /\ \A i \in 1 .. b + w : g[i] = h[i]
          /\ g[b + w + 1] = p /\ (c = 1 => g[b + w + 2] = (Identity!Coming)'[1])
      <4>1. \A i \in 1 .. b + w + d :
             h[i] = IF i <= b THEN x4.buf[i]
                    ELSE IF i <= b + w THEN x2[i - b] ELSE Identity!Coming[i - b - w]
        BY <2>4
      <4>2. \A i \in 1 .. b + (w + 1) + c :
             g[i] = IF i <= b THEN x4.buf[i]
                    ELSE IF i <= b + (w + 1) THEN x2'[i - b] ELSE (Identity!Coming)'[i - b - (w + 1)]
        BY <2>4
      <4> QED BY <3>2, <3>3, <4>1, <4>2, OneMore
    <3> QED BY <2>4, <3>4
  <2>6. Identity!Chained(h) /\ (x4.pc # "paused" /\ x4.head # Identity!NoLine /\ h # <<>> /\ h[1].end = "tail" =>
        x4.head.boot = h[1].boot)
    BY DEF Identity!PairInv, Identity!IdentityInv, h
  <2>7. Identity!Chained(g) /\ (x4.pc # "paused" /\ x4.head # Identity!NoLine /\ g # <<>> /\ g[1].end = "tail" =>
        x4.head.boot = g[1].boot) => Identity!PairInv'
    BY <1>1 DEF Identity!PairInv, Identity!Chained, Identity!Follows, g
  <2>8. ASSUME NEW i \in 1 .. Len(g) - 1, g[i].end = "head", g[i + 1].end = "tail"
        PROVE  g[i].boot = g[i + 1].boot
    <3>1. CASE i + 1 <= n
      <4>1. i \in 1 .. Len(h) - 1 /\ i \in 1..n /\ i + 1 \in 1..n
        BY <2>1, <3>1
      <4>2. Identity!Follows(h[i], h[i + 1])
        BY <2>6, <4>1 DEF Identity!Chained
      <4> QED BY <2>5, <2>8, <4>1, <4>2 DEF Identity!Follows
    <3>2. CASE i = n
      BY <1>3, <2>5, <2>8, <3>2
    <3>3. CASE i = n + 1
      <4>1. i + 1 = n + 2 /\ c = 1
        BY <2>1, <2>4, <3>3
      <4> QED BY <1>3, <2>5, <3>3, <4>1
    <3> QED BY <2>1, <2>4, <3>1, <3>2, <3>3
  <2>9. Identity!Chained(g)
    BY <2>8 DEF Identity!Chained, Identity!Follows
  <2>10. ASSUME x4.pc # "paused", x4.head # Identity!NoLine, g[1].end = "tail"
         PROVE  x4.head.boot = g[1].boot
    <3>1. n # 0
      BY <1>3, <2>5, <2>10, <2>1
    <3>2. 1 \in 1..n /\ h # <<>>
      BY <2>1, <3>1
    <3> QED BY <2>5, <2>6, <2>10, <3>2
  <2> QED BY <2>7, <2>9, <2>10
<1> QED BY <1>1, <1>6, <1>7, <1>8, <1>9, LinkNext, ErasOf

\* What the framer has read and what is under way, without the half to come.
Under == x4.buf \o x2
UnderFacts ==
    /\ Under \in Seq(Identity!HalfSet) /\ Len(Under) = Len(x4.buf) + Len(x2) /\ Len(Under) \in Nat
    /\ Len(x4.buf) \in Nat /\ Len(x2) \in Nat
    /\ \A i \in 1 .. Len(x4.buf) + Len(x2) :
         Under[i] = IF i <= Len(x4.buf) THEN x4.buf[i] ELSE x2[i - Len(x4.buf)]
    /\ Len(Identity!Coming) \in 0..1 /\ (x1.line = Identity!NoLine => Len(Identity!Coming) = 0)
    /\ x1.line # Identity!NoLine =>
         /\ Len(Identity!Coming) = 1
         /\ Identity!Coming[1].boot = x1.line.boot /\ Identity!Coming[1].end = "tail"
    /\ Len(Identity!Halves) = Len(Under) + Len(Identity!Coming)
    /\ \A i \in 1 .. Len(Under) + Len(Identity!Coming) :
         Identity!Halves[i] = IF i <= Len(Under) THEN Under[i] ELSE Identity!Coming[i - Len(Under)]

LEMMA UnderAre == Identity!TypedInv => UnderFacts
<1> SUFFICES ASSUME Identity!TypedInv PROVE UnderFacts
  OBVIOUS
<1>1. x4.buf \in Seq(Identity!HalfSet) /\ x2 \in Seq(Identity!HalfSet) /\ Len(x4.buf) \in Nat /\ Len(x2) \in Nat
  BY IdTyped
<1>2. /\ Under \in Seq(Identity!HalfSet) /\ Len(Under) = Len(x4.buf) + Len(x2)
      /\ \A i \in 1 .. Len(x4.buf) + Len(x2) :
           Under[i] = IF i <= Len(x4.buf) THEN x4.buf[i] ELSE x2[i - Len(x4.buf)]
  BY <1>1, Joined DEF Under
<1>3. /\ Identity!Coming \in Seq(Identity!HalfSet) /\ Len(Identity!Coming) \in 0..1
      /\ x1.line = Identity!NoLine => Len(Identity!Coming) = 0
      /\ x1.line # Identity!NoLine =>
           /\ Len(Identity!Coming) = 1
           /\ Identity!Coming[1].boot = x1.line.boot /\ Identity!Coming[1].end = "tail"
  BY ComingOf
<1>4. /\ Len(Identity!Halves) = Len(Under) + Len(Identity!Coming)
      /\ \A i \in 1 .. Len(Under) + Len(Identity!Coming) :
           Identity!Halves[i] = IF i <= Len(Under) THEN Under[i] ELSE Identity!Coming[i - Len(Under)]
  <2>1. Identity!Halves = Under \o Identity!Coming
    BY DEF Identity!Halves, Under
  <2>2. Under \in Seq(Identity!HalfSet) /\ Identity!Coming \in Seq(Identity!HalfSet)
    BY <1>2, <1>3
  <2> QED BY <2>1, <2>2, Joined
<1> QED BY <1>1, <1>2, <1>3, <1>4 DEF UnderFacts

LEMMA UnderAreNext == Identity!TypedInv' => UnderFacts'
BY UnderAre, PTL

LEMMA Remains ==
    ASSUME NEW u \in Nat, NEW v \in Nat, NEW m \in Nat, v + m = u, NEW c \in 0..1, NEW d \in 0..c,
           NEW U, NEW V, NEW C, NEW D, NEW h, NEW g,
           \A i \in 1 .. u + c : h[i] = IF i <= u THEN U[i] ELSE C[i - u],
           \A i \in 1 .. v + d : g[i] = IF i <= v THEN V[i] ELSE D[i - v],
           \A i \in 1 .. v : V[i].boot = U[m + i].boot /\ (V[i].end = U[m + i].end \/ V[i].end = "noise"),
           d = 1 => D[1].boot = C[1].boot /\ D[1].end = C[1].end
    PROVE  \A i \in 1 .. v + d :
             g[i].boot = h[m + i].boot /\ (g[i].end = h[m + i].end \/ g[i].end = "noise")
<1> TAKE i \in 1 .. v + d
<1>1. CASE i <= v
  <2>1. g[i] = V[i] /\ i \in 1..v
    BY <1>1
  <2>2. m + i \in 1 .. u + c /\ m + i <= u
    BY <1>1
  <2>3. h[m + i] = U[m + i]
    BY <2>2
  <2> QED BY <2>1, <2>3
<1>2. CASE ~(i <= v)
  <2>1. i = v + 1 /\ d = 1 /\ c = 1 /\ m + i = u + 1
    BY <1>2
  <2>2. g[i] = D[1]
    <3>1. i - v = 1
      BY <2>1
    <3> QED BY <1>2, <3>1
  <2>3. h[m + i] = C[1]
    <3>1. m + i \in 1 .. u + c /\ ~(m + i <= u) /\ (m + i) - u = 1
      BY <2>1
    <3> QED BY <3>1
  <2> QED BY <2>1, <2>2, <2>3
<1> QED BY <1>1, <1>2

LEMMA LeftNext ==
    ASSUME Identity!TypedInv, Identity!TypedInv', NEW m \in Nat,
           Len(Under') + m = Len(Under),
           \A i \in 1 .. Len(Under') :
             Under'[i].boot = Under[m + i].boot /\ (Under'[i].end = Under[m + i].end \/ Under'[i].end = "noise"),
           x1'.line = x1.line \/ x1'.line = Identity!NoLine
    PROVE  Left(Identity!Halves, (Identity!Halves)', m)
<1> DEFINE h == Identity!Halves  g == (Identity!Halves)'  U == Under  V == Under'
           C == Identity!Coming  D == (Identity!Coming)'
<1>1. UnderFacts /\ UnderFacts'
  BY UnderAre, UnderAreNext
<1>2. PICK u \in Nat, v \in Nat : u = Len(U) /\ v = Len(V)
  BY <1>1 DEF UnderFacts
<1>3. PICK c \in 0..1, d \in 0..1 : c = Len(C) /\ d = Len(D)
  BY <1>1 DEF UnderFacts
<1>4. /\ \A i \in 1 .. u + c : h[i] = IF i <= u THEN U[i] ELSE C[i - u]
      /\ Len(h) = u + c
  BY <1>1, <1>2, <1>3 DEF UnderFacts
<1>5. /\ \A i \in 1 .. v + d : g[i] = IF i <= v THEN V[i] ELSE D[i - v]
      /\ Len(g) = v + d
  BY <1>1, <1>2, <1>3 DEF UnderFacts
<1>6. d = 1 => c = 1 /\ D[1].boot = C[1].boot /\ D[1].end = C[1].end
  <2> SUFFICES ASSUME d = 1 PROVE c = 1 /\ D[1].boot = C[1].boot /\ D[1].end = C[1].end
    OBVIOUS
  <2>0. x1'.line = Identity!NoLine => Len(D) = 0
    BY <1>1 DEF UnderFacts
  <2>1. x1'.line # Identity!NoLine
    BY <1>3, <2>0
  <2>2. x1'.line = x1.line /\ x1.line # Identity!NoLine
    BY <2>1
  <2>3. D[1].boot = x1'.line.boot /\ D[1].end = "tail"
    BY <1>1, <2>1 DEF UnderFacts
  <2>4. c = 1 /\ C[1].boot = x1.line.boot /\ C[1].end = "tail"
    BY <1>1, <1>3, <2>2 DEF UnderFacts
  <2> QED BY <2>2, <2>3, <2>4
<1>7. d \in 0..c /\ v + m = u
  BY <1>2, <1>6
<1>8. \A i \in 1 .. v : V[i].boot = U[m + i].boot /\ (V[i].end = U[m + i].end \/ V[i].end = "noise")
  BY <1>2
<1> HIDE DEF h, g, U, V, C, D
<1>9. \A i \in 1 .. v + d : g[i].boot = h[m + i].boot /\ (g[i].end = h[m + i].end \/ g[i].end = "noise")
  <2>1. \A i \in 1 .. u + c : h[i] = IF i <= u THEN U[i] ELSE C[i - u]
    BY <1>4
  <2>2. \A i \in 1 .. v + d : g[i] = IF i <= v THEN V[i] ELSE D[i - v]
    BY <1>5
  <2>3. d = 1 => D[1].boot = C[1].boot /\ D[1].end = C[1].end
    BY <1>6
  <2> QED BY <1>7, <1>8, <2>1, <2>2, <2>3, Remains
<1> QED BY <1>4, <1>5, <1>7, <1>9 DEF Left, h, g

\* What takes from the front of the wire while the framer holds nothing.
LEMMA FlushLeft ==
    ASSUME Identity!TypedInv, Identity!TypedInv', NEW m \in 0..Len(x2),
           x4.buf = <<>>, x4'.buf = <<>>, x2' = SubSeq(x2, m + 1, Len(x2)), x1'.line = x1.line
    PROVE  Left(Identity!Halves, (Identity!Halves)', m)
<1>1. UnderFacts /\ UnderFacts' /\ Len(<<>>) = 0
  BY UnderAre, UnderAreNext
<1>2. /\ x2' \in Seq(Identity!HalfSet) /\ Len(x2') = Len(x2) - m
      /\ \A i \in 1 .. Len(x2) - m : x2'[i] = x2[m + i]
  <2>1. x2 \in Seq(Identity!HalfSet)
    BY IdTyped
  <2> DEFINE rest == SubSeq(x2, m + 1, Len(x2))
  <2>2. /\ rest \in Seq(Identity!HalfSet) /\ Len(rest) = Len(x2) - m
        /\ \A i \in 1 .. Len(x2) - m : rest[i] = x2[m + i]
    BY <2>1, CutFront
  <2>3. x2' = rest
    OBVIOUS
  <2> HIDE DEF rest
  <2> QED BY <2>2, <2>3
<1>3. PICK w \in Nat, v \in Nat : w = Len(x2) /\ v = Len(x2') /\ v + m = w /\ m \in Nat
  BY <1>1, <1>2, SMTT(60) DEF UnderFacts
<1>4. Len(Under) = w /\ \A i \in 1..w : Under[i] = x2[i]
  <2>1. Len(x4.buf) = 0
    BY <1>1
  <2>2. Len(Under) = w /\ \A i \in 1 .. 0 + w : Under[i] = IF i <= 0 THEN x4.buf[i] ELSE x2[i - 0]
    BY <1>1, <1>3, <2>1 DEF UnderFacts
  <2>3. ASSUME NEW i \in 1..w PROVE Under[i] = x2[i]
    <3>1. i \in 1 .. 0 + w /\ ~(i <= 0) /\ i - 0 = i
      OBVIOUS
    <3> QED BY <2>2, <3>1
  <2> QED BY <2>2, <2>3
<1>5. Len(Under') = v /\ \A i \in 1..v : Under'[i] = x2'[i]
  <2>1. Len(x4'.buf) = 0
    BY <1>1
  <2>2. Len(Under') = v /\ \A i \in 1 .. 0 + v : Under'[i] = IF i <= 0 THEN x4'.buf[i] ELSE x2'[i - 0]
    BY <1>1, <1>3, <2>1 DEF UnderFacts
  <2>3. ASSUME NEW i \in 1..v PROVE Under'[i] = x2'[i]
    <3>1. i \in 1 .. 0 + v /\ ~(i <= 0) /\ i - 0 = i
      OBVIOUS
    <3> QED BY <2>2, <3>1
  <2> QED BY <2>2, <2>3
<1>6. \A i \in 1 .. Len(Under') : Under'[i] = Under[m + i]
  <2> SUFFICES ASSUME NEW i \in 1..v PROVE Under'[i] = Under[m + i]
    BY <1>5
  <2>1. i \in 1 .. Len(x2) - m /\ m + i \in 1..w
    BY <1>3
  <2> QED BY <1>2, <1>4, <1>5, <2>1
<1>7. Len(Under') + m = Len(Under) /\ m \in Nat
  BY <1>3, <1>4, <1>5
<1> QED BY <1>6, <1>7, LeftNext

LEMMA SendTailNext ==
    ASSUME Identity!IdentityInv, Identity!SendTail
    PROVE  Identity!IdentityInv'
<1> DEFINE p == Identity!Half("tail", x1.line)
<1>1. /\ x1.line # Identity!NoLine /\ x1' = [x1 EXCEPT !.line = Identity!NoLine] /\ x2' = Append(x2, p)
      /\ UNCHANGED <<x3, x4, x5, x6, x7, x8, x9, x10, x11>>
  BY DEF Identity!SendTail, Identity!Put, Identity!records
<1>2. Identity!TypedInv
  BY DEF Identity!IdentityInv
<1>3. p \in Identity!HalfSet /\ p.boot = x1.line.boot /\ p.end = "tail" /\ p.era = x11
  BY <1>1, <1>2, IdTyped, HalfTyped
<1>4. /\ x1' \in [boot : Nat, line : [kind : Kinds, boot : Nat] \cup {Identity!NoLine}]
      /\ x1'.line = Identity!NoLine
  BY <1>1, <1>2, IdTyped
<1> HIDE DEF p
<1>5. /\ x2' \in Seq(Identity!HalfSet) /\ Len(x2') = Len(x2) + 1 /\ Len(x2) \in Nat /\ x3 \in 0..Len(x2)
      /\ \A i \in 1..Len(x2) : x2'[i] = x2[i]
      /\ x2'[Len(x2) + 1] = p
  BY <1>1, <1>2, <1>3, IdTyped
<1>6. Identity!TypedInv'
  <2>1. x3' \in 0..Len(x2')
    BY <1>1, <1>5
  <2>2. /\ x4' \in Identity!Readers /\ x5' \in [request : Nat, last : Nat] /\ x11' \in Nat
        /\ x6' \in [gen : Nat, complete : BOOLEAN, version : Nat, boot : Nat, era : Nat]
        /\ x7' \in [gen : Nat, version : Nat, boot : Nat, received : BOOLEAN]
        /\ x8' \in [gen : Nat, era : Nat]
        /\ x9' \in [pc : {"idle", "asking", "drain", "resume"}, guard : Nat]
        /\ x10' \in [pc : {"idle", "asking"}, guard : Nat]
    BY <1>1, <1>2, IdTyped
  <2> QED BY <1>4, <1>5, <2>1, <2>2 DEF Identity!TypedInv
<1>7. Identity!PauseInv'
  BY <1>1 DEF Identity!IdentityInv, Identity!PauseInv
<1>8. \A i \in 1..Len(x2') : x2'[i].era >= x8.era
  BY <1>3, <1>5, ErasOf
<1>9. Left(Identity!Halves, (Identity!Halves)', 0)
  <2> DEFINE h == Identity!Halves  g == (Identity!Halves)'  C == Identity!Coming  D == (Identity!Coming)'
  <2>1. HalvesFacts /\ HalvesFacts' /\ x4' = x4
    BY <1>1, <1>2, <1>6, HalvesAre, HalvesAreNext
  <2>2. PICK b \in Nat, w \in Nat : b = Len(x4.buf) /\ w = Len(x2) /\ w + 1 = Len(x2')
    BY <1>5, <2>1 DEF HalvesFacts
  <2>3. Len(D) = 0 /\ Len(C) = 1 /\ C[1].boot = x1.line.boot /\ C[1].end = "tail"
    BY <1>1, <1>4, <2>1 DEF HalvesFacts
  <2>4. /\ Len(h) = b + w + 1
        /\ \A i \in 1 .. b + w + 1 :
             h[i] = IF i <= b THEN x4.buf[i] ELSE IF i <= b + w THEN x2[i - b] ELSE C[i - b - w]
    BY <2>1, <2>2, <2>3 DEF HalvesFacts
  <2>5. x4'.buf = x4.buf /\ Len(x4'.buf) = b
    BY <2>1, <2>2
  <2>6. /\ Len(g) = b + (w + 1) + 0
        /\ \A i \in 1 .. b + (w + 1) + 0 :
             g[i] = IF i <= b THEN x4.buf[i] ELSE IF i <= b + (w + 1) THEN x2'[i - b] ELSE D[i - b - (w + 1)]
    BY <2>1, <2>2, <2>3, <2>5, ZenonT(60) DEF HalvesFacts
  <2> HIDE DEF h, g, C, D
  <2>7. \A i \in 1..w : x2'[i] = x2[i]
    BY <1>5, <2>2
  <2>8. x2'[w + 1] = p
    BY <1>5, <2>2
  <2>9. /\ \A i \in 1 .. b + w : g[i] = h[i]
        /\ g[b + w + 1] = p
    BY <2>4, <2>6, <2>7, <2>8, OneMore
  <2>10. h[b + w + 1] = C[1]
    <3>1. (b + w + 1) - b - w = 1
      OBVIOUS
    <3> QED BY <2>4, <3>1
  <2>11. ASSUME NEW i \in 1..Len(g) PROVE g[i].boot = h[0 + i].boot /\ g[i].end = h[0 + i].end
    <3>1. CASE i <= b + w
      <4>1. i \in 1 .. b + w /\ 0 + i = i
        BY <2>6, <3>1
      <4> QED BY <2>9, <4>1
    <3>2. CASE ~(i <= b + w)
      <4>1. i = b + w + 1 /\ 0 + i = b + w + 1
        BY <2>6, <3>2
      <4> QED BY <1>3, <2>3, <2>9, <2>10, <4>1
    <3> QED BY <3>1, <3>2
  <2>12. Len(g) + 0 <= Len(h)
    BY <2>4, <2>6
  <2> QED BY <2>11, <2>12 DEF Left, h, g
<1>10. Identity!PairInv'
  BY <1>1, <1>2, <1>6, <1>9, PairNext DEF Identity!IdentityInv
<1> QED BY <1>1, <1>6, <1>7, <1>8, <1>10, LinkNext, ErasOf

LEMMA RebootNext ==
    ASSUME Identity!IdentityInv, Identity!Reboot
    PROVE  Identity!IdentityInv'
<1>1. /\ x1' = [boot |-> x1.boot + 1, line |-> Identity!NoLine]
      /\ UNCHANGED <<x2, x3, x4, x5, x6, x7, x8, x9, x10, x11>>
  BY DEF Identity!Reboot, Identity!records
<1>2. Identity!TypedInv /\ x1.boot + 1 \in Nat /\ x1'.line = Identity!NoLine
  BY <1>1, IdTyped, SMTT(60) DEF Identity!IdentityInv
<1>3. Identity!TypedInv' /\ Identity!PauseInv'
  BY <1>1, <1>2 DEF Identity!IdentityInv, Identity!TypedInv, Identity!PauseInv
<1>4. Under' = Under /\ UnderFacts
  BY <1>1, <1>2, UnderAre DEF Under
<1>5. /\ Len(Under') + 0 = Len(Under)
      /\ \A i \in 1 .. Len(Under') :
           Under'[i].boot = Under[0 + i].boot /\ (Under'[i].end = Under[0 + i].end \/ Under'[i].end = "noise")
  BY <1>4 DEF UnderFacts
<1>6. Left(Identity!Halves, (Identity!Halves)', 0)
  BY <1>2, <1>3, <1>5, LeftNext
<1>7. Identity!PairInv'
  BY <1>1, <1>2, <1>3, <1>6, PairNext DEF Identity!IdentityInv
<1> QED BY <1>1, <1>3, <1>7, LinkNext, ErasOf

LEMMA NoiseNext ==
    ASSUME Identity!IdentityInv, Identity!Noise
    PROVE  Identity!IdentityInv'
<1>1. /\ x3 < Len(x2) /\ x2' = [x2 EXCEPT ![x3 + 1].end = "noise"]
      /\ UNCHANGED <<x1, x3, x4, x5, x6, x7, x8, x9, x10, x11>>
  BY DEF Identity!Noise, Identity!records
<1>2. Identity!TypedInv /\ x2 \in Seq(Identity!HalfSet) /\ x3 \in 0..Len(x2) /\ Len(x2) \in Nat
  BY IdTyped DEF Identity!IdentityInv
<1> DEFINE k == x3 + 1  p == [x2[k] EXCEPT !.end = "noise"]
<1>3. k \in 1..Len(x2) /\ x2[k] \in Identity!HalfSet
  BY <1>1, <1>2
<1>4. p \in Identity!HalfSet /\ p.boot = x2[k].boot /\ p.era = x2[k].era /\ p.end = "noise"
  BY <1>3 DEF Identity!HalfSet
<1>5. x2' = [x2 EXCEPT ![k] = p]
  BY <1>1, <1>2
<1> HIDE DEF p, k
<1>6. /\ x2' \in Seq(Identity!HalfSet) /\ Len(x2') = Len(x2)
      /\ \A i \in 1..Len(x2) : x2'[i] = IF i = k THEN p ELSE x2[i]
  BY <1>2, <1>3, <1>4, <1>5
<1>7. \A i \in 1..Len(x2) : /\ x2'[i].boot = x2[i].boot /\ x2'[i].era = x2[i].era
                            /\ x2'[i].end = x2[i].end \/ x2'[i].end = "noise"
  BY <1>4, <1>6
<1>8. Identity!TypedInv' /\ Identity!PauseInv'
  BY <1>1, <1>2, <1>6 DEF Identity!IdentityInv, Identity!TypedInv, Identity!PauseInv
<1>9. /\ Len(Under') + 0 = Len(Under)
      /\ \A i \in 1 .. Len(Under') :
           Under'[i].boot = Under[0 + i].boot /\ (Under'[i].end = Under[0 + i].end \/ Under'[i].end = "noise")
  <2>1. UnderFacts /\ UnderFacts'
    BY <1>2, <1>8, UnderAre, UnderAreNext
  <2>2. PICK b \in Nat, w \in Nat : b = Len(x4.buf) /\ w = Len(x2)
    BY <2>1 DEF UnderFacts
  <2>3. x4'.buf = x4.buf /\ Len(x4'.buf) = b /\ Len(x2') = w
    BY <1>1, <1>6, <2>2
  <2>4. Len(Under) = b + w /\ \A i \in 1 .. b + w : Under[i] = IF i <= b THEN x4.buf[i] ELSE x2[i - b]
    BY <2>1, <2>2 DEF UnderFacts
  <2>5. Len(Under') = b + w /\ \A i \in 1 .. b + w : Under'[i] = IF i <= b THEN x4.buf[i] ELSE x2'[i - b]
    BY <2>1, <2>3 DEF UnderFacts
  <2>6. ASSUME NEW i \in 1 .. b + w
        PROVE  Under'[i].boot = Under[i].boot /\ (Under'[i].end = Under[i].end \/ Under'[i].end = "noise")
    <3>1. CASE i <= b
      BY <2>4, <2>5, <3>1
    <3>2. CASE ~(i <= b)
      <4>1. i - b \in 1..Len(x2)
        BY <2>2, <3>2
      <4> QED BY <1>7, <2>4, <2>5, <3>2, <4>1
    <3> QED BY <3>1, <3>2
  <2>7. \A i \in 1 .. b + w : 0 + i = i
    OBVIOUS
  <2> QED BY <2>4, <2>5, <2>6, <2>7
<1>10. Left(Identity!Halves, (Identity!Halves)', 0)
  BY <1>1, <1>2, <1>8, <1>9, LeftNext
<1>11. Identity!PairInv'
  BY <1>1, <1>2, <1>8, <1>10, PairNext DEF Identity!IdentityInv
<1>12. \A i \in 1..Len(x2') : x2'[i].era >= x8.era
  BY <1>6, <1>7, ErasOf
<1> QED BY <1>1, <1>8, <1>11, <1>12, LinkNext, ErasOf

\* What leaves the wire and the reader alone.
LEMMA SameLink ==
    ASSUME Identity!IdentityInv, UNCHANGED <<x1, x2, x4, x6, x7, x8, x11>>,
           Identity!TypedInv', Identity!PauseInv'
    PROVE  Identity!IdentityInv'
<1>1. Identity!Coming' = Identity!Coming
  BY DEF Identity!Coming, Identity!Half
<1>2. (Identity!Halves)' = Identity!Halves
  BY <1>1 DEF Identity!Halves
<1>3. Identity!PairInv'
  BY <1>2 DEF Identity!IdentityInv, Identity!PairInv, Identity!Chained, Identity!Follows
<1> QED BY <1>3, LinkNext, ErasOf

LEMMA TasksNext ==
    ASSUME Identity!IdentityInv,
           \/ Identity!Arrive \/ Identity!RelayAsks \/ Identity!RelayEnds
           \/ Identity!FenceAsks \/ Identity!FenceEnds \/ Identity!FenceFails
    PROVE  Identity!IdentityInv'
<1>1. /\ UNCHANGED <<x1, x2, x4, x6, x7, x8, x11>>
      /\ x3' = x3 \/ (x3 < Len(x2) /\ x3' = x3 + 1)
      /\ x5' \in [request : Nat, last : Nat]
      /\ \/ x9' = x9 \/ x9' = Identity!Idle
         \/ x5.request = 0 /\ x9' = [pc |-> "asking", guard |-> x5.last + 1]
      /\ \/ x10' = x10 \/ x10' = Identity!Idle
         \/ x5.request = 0 /\ x10' = [pc |-> "asking", guard |-> x5.last + 1]
  <2> USE IdTyped DEF Identity!IdentityInv
  <2>1. CASE Identity!Arrive
    BY <2>1 DEF Identity!Arrive, Identity!records
  <2>2. CASE Identity!RelayAsks
    BY <2>2, SMTT(60) DEF Identity!RelayAsks, Identity!Asks, Identity!records, Identity!link, Identity!Idle
  <2>3. CASE Identity!RelayEnds
    BY <2>3 DEF Identity!RelayEnds, Identity!Resumed, Identity!records, Identity!link, Identity!Idle
  <2>4. CASE Identity!FenceAsks
    BY <2>4, SMTT(60) DEF Identity!FenceAsks, Identity!Asks, Identity!records, Identity!link, Identity!Idle
  <2>5. CASE Identity!FenceEnds
    BY <2>5 DEF Identity!FenceEnds, Identity!Resumed, Identity!records, Identity!link, Identity!Idle
  <2>6. CASE Identity!FenceFails
    BY <2>6 DEF Identity!FenceFails, Identity!Resumed, Identity!records, Identity!link, Identity!Idle
  <2> QED BY <2>1, <2>2, <2>3, <2>4, <2>5, <2>6
<1>2. /\ x5.last \in Nat /\ x5.last + 1 \in Nat /\ x5.last + 1 # 0 /\ x3 \in 0..Len(x2) /\ Len(x2) \in Nat
      /\ x9 \in [pc : {"idle", "asking", "drain", "resume"}, guard : Nat]
      /\ x9.pc \in {"asking", "drain"} => x9.guard # 0
      /\ x10 \in [pc : {"idle", "asking"}, guard : Nat]
      /\ x10.pc = "asking" => x10.guard # 0
  BY IdTyped, SMTT(60) DEF Identity!IdentityInv, Identity!PauseInv
<1>0. x3' \in 0..Len(x2)
  BY <1>1, <1>2
<1> DEFINE n == x5.last + 1  asks == [pc |-> "asking", guard |-> n]
<1>7. /\ \A k \in Nat : [pc |-> "asking", guard |-> k] \in [pc : {"idle", "asking", "drain", "resume"}, guard : Nat]
      /\ \A k \in Nat : [pc |-> "asking", guard |-> k] \in [pc : {"idle", "asking"}, guard : Nat]
      /\ asks.pc = "asking" /\ asks.guard = n
      /\ Identity!Idle \in [pc : {"idle", "asking", "drain", "resume"}, guard : Nat]
      /\ Identity!Idle \in [pc : {"idle", "asking"}, guard : Nat] /\ Identity!Idle.pc = "idle"
  BY DEF Identity!Idle
<1>8. n \in Nat /\ n # 0
  BY <1>2
<1>9. (x9' = x9 \/ x9' = Identity!Idle \/ x9' = asks) /\ (x10' = x10 \/ x10' = Identity!Idle \/ x10' = asks)
  BY <1>1
<1>10. /\ asks \in [pc : {"idle", "asking", "drain", "resume"}, guard : Nat]
       /\ asks \in [pc : {"idle", "asking"}, guard : Nat]
  BY <1>7, <1>8
<1> HIDE DEF n, asks
<1>3. /\ x9' \in [pc : {"idle", "asking", "drain", "resume"}, guard : Nat]
      /\ x9'.pc \in {"asking", "drain"} => x9'.guard # 0
  BY <1>2, <1>7, <1>8, <1>9, <1>10
<1>4. /\ x10' \in [pc : {"idle", "asking"}, guard : Nat]
      /\ x10'.pc = "asking" => x10'.guard # 0
  BY <1>2, <1>7, <1>8, <1>9, <1>10
<1>5. Identity!TypedInv'
  BY <1>0, <1>1, <1>3, <1>4 DEF Identity!IdentityInv, Identity!TypedInv
<1>6. Identity!PauseInv'
  BY <1>1, <1>3, <1>4 DEF Identity!IdentityInv, Identity!PauseInv
<1> QED BY <1>1, <1>5, <1>6, SameLink

\* A task that holds the UART holds the reader too.
LEMMA HeldPauses ==
    ASSUME Identity!IdentityInv,
           \/ x9.pc \in {"asking", "drain"} /\ x4.ack = x9.guard
           \/ x10.pc = "asking" /\ x4.ack = x10.guard
    PROVE  x4.pc = "paused" /\ x4.buf = <<>>
BY DEF Identity!IdentityInv, Identity!PauseInv

LEMMA RelayTakesNext ==
    ASSUME Identity!IdentityInv, Identity!RelayTakes
    PROVE  Identity!IdentityInv'
<1>1. /\ x10.pc = "asking" /\ x4.ack = x10.guard /\ x3 > 0 /\ x2' = Tail(x2) /\ x3' = x3 - 1
      /\ UNCHANGED <<x1, x4, x5, x6, x7, x8, x9, x10, x11>>
  BY DEF Identity!RelayTakes, Identity!records
<1>2. Identity!TypedInv /\ x2 \in Seq(Identity!HalfSet) /\ x3 \in 0..Len(x2) /\ Len(x2) \in Nat
  BY IdTyped DEF Identity!IdentityInv
<1>3. x4.pc = "paused" /\ x4.buf = <<>> /\ x4'.buf = <<>> /\ x4'.pc = "paused"
  BY <1>1, HeldPauses
<1>4. x2 # <<>> /\ 1 \in 0..Len(x2)
  BY <1>1, <1>2
<1>5. x2' = SubSeq(x2, 1 + 1, Len(x2))
  BY <1>1, <1>2, <1>4, TailIsSubSeq
<1>6. /\ x2' \in Seq(Identity!HalfSet) /\ Len(x2') = Len(x2) - 1
      /\ \A i \in 1 .. Len(x2) - 1 : x2'[i] = x2[1 + i]
  BY <1>2, <1>4, <1>5, CutFront
<1>7. Identity!TypedInv' /\ Identity!PauseInv'
  <2>1. x3' \in 0..Len(x2')
    BY <1>1, <1>2, <1>6
  <2> QED BY <1>1, <1>2, <1>6, <2>1 DEF Identity!IdentityInv, Identity!TypedInv, Identity!PauseInv
<1>8. Left(Identity!Halves, (Identity!Halves)', 1)
  BY <1>1, <1>2, <1>3, <1>4, <1>5, <1>7, FlushLeft
<1>9. Identity!PairInv'
  BY <1>2, <1>3, <1>7, <1>8, PairNext DEF Identity!IdentityInv
<1>10. \A i \in 1..Len(x2') : x2'[i].era >= x8.era
  <2>1. \A i \in 1..Len(x2') : 1 + i \in 1..Len(x2) /\ i \in 1 .. Len(x2) - 1
    BY <1>2, <1>4, <1>6
  <2> QED BY <1>6, <2>1, ErasOf
<1> QED BY <1>1, <1>7, <1>9, <1>10, LinkNext, ErasOf

\* What the driver holds is thrown away.
LEMMA FlushOf ==
    ASSUME Identity!TypedInv, Identity!Flushed
    PROVE  /\ x2' = SubSeq(x2, x3 + 1, Len(x2)) /\ x2' \in Seq(Identity!HalfSet) /\ x3' \in 0..Len(x2')
           /\ Len(x2') = Len(x2) - x3 /\ x3 \in 0..Len(x2) /\ Len(x2) \in Nat
           /\ \A i \in 1..Len(x2') : x2'[i] = x2[x3 + i] /\ x3 + i \in (x3 + 1) .. Len(x2)
<1>1. x2 \in Seq(Identity!HalfSet) /\ x3 \in 0..Len(x2) /\ Len(x2) \in Nat
  BY IdTyped
<1>2. x2' = SubSeq(x2, x3 + 1, Len(x2)) /\ x3' = 0
  BY DEF Identity!Flushed
<1>3. /\ x2' \in Seq(Identity!HalfSet) /\ Len(x2') = Len(x2) - x3
      /\ \A i \in 1 .. Len(x2) - x3 : x2'[i] = x2[x3 + i]
  BY <1>1, <1>2, CutFront
<1>4. x3' \in 0..Len(x2')
  BY <1>1, <1>2, <1>3
<1>5. \A i \in 1..Len(x2') : x2'[i] = x2[x3 + i] /\ x3 + i \in (x3 + 1) .. Len(x2)
  BY <1>1, <1>3
<1> QED BY <1>1, <1>2, <1>3, <1>4, <1>5

LEMMA FirstFlushNext ==
    ASSUME Identity!IdentityInv, Identity!FirstFlush
    PROVE  Identity!IdentityInv'
<1>1. /\ x9.pc = "asking" /\ x4.ack = x9.guard /\ Identity!Flushed /\ x11' = x11 + 1
      /\ x9' = [x9 EXCEPT !.pc = "drain"] /\ UNCHANGED <<x1, x4, x5, x6, x7, x8, x10>>
  BY DEF Identity!FirstFlush, Identity!Held, Identity!records
<1>2. Identity!TypedInv
  BY DEF Identity!IdentityInv
<1>3. x4.pc = "paused" /\ x4.buf = <<>> /\ x4'.buf = <<>> /\ x4'.pc = "paused"
  BY <1>1, HeldPauses
<1>4. /\ x2' = SubSeq(x2, x3 + 1, Len(x2)) /\ x2' \in Seq(Identity!HalfSet) /\ x3' \in 0..Len(x2')
      /\ Len(x2') = Len(x2) - x3 /\ x3 \in 0..Len(x2) /\ Len(x2) \in Nat
      /\ \A i \in 1..Len(x2') : x2'[i] = x2[x3 + i] /\ x3 + i \in (x3 + 1) .. Len(x2)
  BY <1>1, <1>2, FlushOf
<1>5. /\ x9' \in [pc : {"idle", "asking", "drain", "resume"}, guard : Nat] /\ x9'.guard # 0
      /\ x11' \in Nat
  <2>1. x9.guard # 0
    BY <1>1 DEF Identity!IdentityInv, Identity!PauseInv
  <2>2. x11 \in Nat /\ x9 \in [pc : {"idle", "asking", "drain", "resume"}, guard : Nat]
    BY <1>2, IdTyped
  <2>3. x11 + 1 \in Nat
    BY <2>2
  <2>4. x9' \in [pc : {"idle", "asking", "drain", "resume"}, guard : Nat] /\ x9'.guard = x9.guard
    BY <1>1, <2>2
  <2> QED BY <1>1, <2>1, <2>3, <2>4
<1>6. Identity!TypedInv'
  BY <1>1, <1>2, <1>4, <1>5 DEF Identity!TypedInv
<1>7. Identity!PauseInv'
  BY <1>1, <1>5 DEF Identity!IdentityInv, Identity!PauseInv
<1>8. Left(Identity!Halves, (Identity!Halves)', x3)
  BY <1>1, <1>2, <1>3, <1>4, <1>6, FlushLeft
<1>9. Identity!PairInv'
  <2>1. x3 \in Nat
    BY <1>4
  <2> QED BY <1>2, <1>3, <1>6, <1>8, <2>1, PairNext DEF Identity!IdentityInv
<1>10. \A i \in 1..Len(x2') : x2'[i].era >= x8.era
  <2>1. \A i \in 1..Len(x2') : x3 + i \in 1..Len(x2)
    BY <1>4
  <2> QED BY <1>4, <2>1, ErasOf
<1>11. x11 <= x11'
  BY <1>1, <1>2, IdTyped, SMTT(60)
<1> QED BY <1>1, <1>6, <1>7, <1>9, <1>10, <1>11, LinkNext

LEMMA CaptureNext ==
    ASSUME Identity!IdentityInv, Identity!Capture
    PROVE  Identity!IdentityInv'
<1>1. /\ x9.pc = "drain" /\ x4.ack = x9.guard /\ Identity!Drained /\ Identity!Flushed
      /\ x8' = [gen |-> x6.gen, era |-> x11]
      /\ x9' = [x9 EXCEPT !.pc = "resume"] /\ UNCHANGED <<x1, x4, x5, x6, x7, x10, x11>>
  BY DEF Identity!Capture, Identity!Held, Identity!SecondFlush
<1>2. Identity!TypedInv /\ x11 \in Nat /\ x6.gen \in Nat
  BY IdTyped DEF Identity!IdentityInv
<1>3. x4.pc = "paused" /\ x4.buf = <<>> /\ x4'.buf = <<>> /\ x4'.pc = "paused"
  BY <1>1, HeldPauses
<1>4. /\ x2' = SubSeq(x2, x3 + 1, Len(x2)) /\ x2' \in Seq(Identity!HalfSet) /\ x3' \in 0..Len(x2')
      /\ Len(x2') = Len(x2) - x3 /\ x3 \in 0..Len(x2) /\ Len(x2) \in Nat
      /\ \A i \in 1..Len(x2') : x2'[i] = x2[x3 + i] /\ x3 + i \in (x3 + 1) .. Len(x2)
  BY <1>1, <1>2, FlushOf
<1>5. /\ x9' \in [pc : {"idle", "asking", "drain", "resume"}, guard : Nat] /\ x9'.pc = "resume"
      /\ x8' \in [gen : Nat, era : Nat] /\ x8'.gen = x6.gen /\ x8'.era = x11
  BY <1>1, <1>2, IdTyped
<1>6. Identity!TypedInv'
  BY <1>1, <1>2, <1>4, <1>5 DEF Identity!TypedInv
<1>7. Identity!PauseInv'
  BY <1>1, <1>5 DEF Identity!IdentityInv, Identity!PauseInv
<1>8. Left(Identity!Halves, (Identity!Halves)', x3)
  BY <1>1, <1>2, <1>3, <1>4, <1>6, FlushLeft
<1>9. Identity!PairInv'
  <2>1. x3 \in Nat
    BY <1>4
  <2> QED BY <1>2, <1>3, <1>6, <1>8, <2>1, PairNext DEF Identity!IdentityInv
<1>10. Identity!EraInv'
  <2>1. \A i \in 1..Len(x2') : x2'[i].era = x11
    BY <1>1, <1>4 DEF Identity!Drained
  <2>2. DOMAIN x2' = 1..Len(x2') /\ DOMAIN x4'.buf = {}
    BY <1>3, <1>4
  <2> QED BY <1>1, <1>2, <1>3, <1>5, <2>1, <2>2 DEF Identity!EraInv
<1>11. Identity!GenInv' /\ Identity!RecordsAgree'
  BY <1>1, <1>2, <1>5 DEF Identity!IdentityInv, Identity!GenInv, Identity!RecordsAgree
<1> QED BY <1>6, <1>7, <1>9, <1>10, <1>11 DEF Identity!IdentityInv

LEMMA RestartNext ==
    ASSUME Identity!IdentityInv, Identity!Restart
    PROVE  Identity!IdentityInv'
<1>1. /\ Identity!Flushed /\ x4' = Identity!Reader /\ x5' = [request |-> 0, last |-> 0]
      /\ x6' = Identity!Unknown /\ x7' = Identity!NotSeen /\ x8' = [gen |-> 0, era |-> 0]
      /\ x9' = Identity!Idle /\ x10' = Identity!Idle /\ UNCHANGED <<x1, x11>>
  BY DEF Identity!Restart
<1>2. Identity!TypedInv /\ x11 \in Nat
  BY IdTyped DEF Identity!IdentityInv
<1>3. /\ x2' = SubSeq(x2, x3 + 1, Len(x2)) /\ x2' \in Seq(Identity!HalfSet) /\ x3' \in 0..Len(x2')
      /\ Len(x2') = Len(x2) - x3 /\ x3 \in 0..Len(x2) /\ Len(x2) \in Nat
      /\ \A i \in 1..Len(x2') : x2'[i] = x2[x3 + i] /\ x3 + i \in (x3 + 1) .. Len(x2)
  BY <1>1, <1>2, FlushOf
<1>4. /\ x4' \in Identity!Readers /\ x4'.pc = "loop" /\ x4'.head = Identity!NoLine /\ x4'.buf = <<>>
      /\ x4'.ack = 0
  BY <1>1 DEF Identity!Reader, Identity!Readers
<1>5. Identity!TypedInv'
  <2>1. /\ x6' \in [gen : Nat, complete : BOOLEAN, version : Nat, boot : Nat, era : Nat]
        /\ x7' \in [gen : Nat, version : Nat, boot : Nat, received : BOOLEAN]
        /\ x8' \in [gen : Nat, era : Nat] /\ x5' \in [request : Nat, last : Nat]
    BY <1>1 DEF Identity!Unknown, Identity!NotSeen
  <2>2. /\ x9' \in [pc : {"idle", "asking", "drain", "resume"}, guard : Nat]
        /\ x10' \in [pc : {"idle", "asking"}, guard : Nat]
    BY <1>1 DEF Identity!Idle
  <2> QED BY <1>1, <1>2, <1>3, <1>4, <2>1, <2>2 DEF Identity!TypedInv
<1>6. Identity!PauseInv'
  BY <1>1, <1>4 DEF Identity!PauseInv, Identity!Idle
<1>7. Identity!EraInv'
  <2>1. \A i \in 1..Len(x2') : x2'[i].era \in Nat
    BY <1>3 DEF Identity!HalfSet
  <2>2. DOMAIN x2' = 1..Len(x2') /\ DOMAIN x4'.buf = {}
    BY <1>3, <1>4
  <2> QED BY <1>1, <1>2, <1>4, <2>1, <2>2 DEF Identity!EraInv, Identity!Unknown
<1>8. Identity!PairInv'
  \* The reader stops, the wire is flushed: as of a pause.
  <2>1. Identity!TypedInv /\ Identity!Chained(Identity!Halves) /\ HalvesFacts /\ HalvesFacts' /\ UnderFacts /\ UnderFacts'
    BY <1>5, HalvesAre, HalvesAreNext, UnderAre, UnderAreNext DEF Identity!IdentityInv, Identity!PairInv
  <2> DEFINE b == Len(x4.buf)  m == b + x3
  <2>2. b \in Nat /\ m \in Nat /\ Len(x4'.buf) = 0
    <3>1. b \in Nat
      BY <2>1 DEF UnderFacts
    <3>2. x3 \in Nat /\ Len(<<>>) = 0
      BY <1>3
    <3> HIDE DEF b
    <3> QED BY <1>4, <3>1, <3>2
  <2>3. Len(Under) = b + Len(x2) /\ \A i \in 1 .. b + Len(x2) : Under[i] = IF i <= b THEN x4.buf[i] ELSE x2[i - b]
    BY <2>1 DEF UnderFacts
  <2>4. Len(Under') = Len(x2') /\ \A i \in 1 .. 0 + Len(x2') : Under'[i] = IF i <= 0 THEN x4'.buf[i] ELSE x2'[i - 0]
    <3>1. UnderFacts' /\ Len(x4'.buf) = 0 /\ Len(x2') \in Nat
      BY <1>3, <2>1, <2>2
    <3> QED BY <3>1 DEF UnderFacts
  <2> HIDE DEF b
  <2>5. ASSUME NEW i \in 1..Len(Under') PROVE Under'[i] = Under[m + i]
    <3>1. i \in 1..Len(x2') /\ i \in 1 .. 0 + Len(x2') /\ ~(i <= 0) /\ i - 0 = i
      BY <1>3, <2>4
    <3>2. m + i \in 1 .. b + Len(x2) /\ ~(m + i <= b) /\ (m + i) - b = x3 + i
      BY <1>3, <2>2, <3>1
    <3> QED BY <1>3, <2>3, <2>4, <3>1, <3>2
  <2>6. Len(Under') + m = Len(Under)
    BY <1>3, <2>2, <2>3, <2>4
  <2> HIDE DEF m
  <2>7. Left(Identity!Halves, (Identity!Halves)', m)
    BY <1>1, <1>2, <1>5, <2>2, <2>5, <2>6, LeftNext
  <2> QED BY <1>2, <1>4, <1>5, <2>2, <2>7, PairNext DEF Identity!IdentityInv
<1>9. Identity!GenInv' /\ Identity!RecordsAgree'
  BY <1>1, <1>4 DEF Identity!GenInv, Identity!RecordsAgree, Identity!Unknown, Identity!NotSeen
<1> QED BY <1>5, <1>6, <1>7, <1>8, <1>9 DEF Identity!IdentityInv

\* The reading task moves on with what it holds.
LEMMA LoopNext ==
    ASSUME Identity!IdentityInv, UNCHANGED <<x1, x2, x3, x5, x6, x8, x9, x10, x11>>,
           x4' \in Identity!Readers, x7' \in [gen : Nat, version : Nat, boot : Nat, received : BOOLEAN],
           x4'.buf = x4.buf,
           x4'.pc = "paused" \/ x4'.head = Identity!NoLine \/ (x4'.head = x4.head /\ x4.pc # "paused"),
           x4'.pc \in {"loop", "read", "paused"} => x4.buf = <<>>,
           x4'.ack # 0 => x4'.pc = "paused",
           Identity!GenInv', Identity!RecordsAgree'
    PROVE  Identity!IdentityInv'
<1>1. Identity!TypedInv /\ Identity!TypedInv'
  BY DEF Identity!IdentityInv, Identity!TypedInv
<1>2. Identity!PauseInv'
  BY DEF Identity!IdentityInv, Identity!PauseInv
<1>3. Identity!EraInv'
  BY DEF Identity!IdentityInv, Identity!EraInv
<1>4. Under' = Under /\ UnderFacts
  BY <1>1, UnderAre DEF Under
<1>5. /\ Len(Under') + 0 = Len(Under)
      /\ \A i \in 1 .. Len(Under') :
           Under'[i].boot = Under[0 + i].boot /\ (Under'[i].end = Under[0 + i].end \/ Under'[i].end = "noise")
  BY <1>4 DEF UnderFacts
<1>6. Left(Identity!Halves, (Identity!Halves)', 0)
  BY <1>1, <1>5, LeftNext
<1>7. Identity!PairInv'
  BY <1>1, <1>6, PairNext DEF Identity!IdentityInv
<1> QED BY <1>1, <1>2, <1>3, <1>7 DEF Identity!IdentityInv

LEMMA QuietReaderNext ==
    ASSUME Identity!IdentityInv, Identity!RxPauses \/ Identity!RxResumes \/ Identity!RxLooks \/ Identity!RxDone
    PROVE  Identity!IdentityInv'
<1>1. x4 \in Identity!Readers /\ x5.request \in Nat
      /\ x7 \in [gen : Nat, version : Nat, boot : Nat, received : BOOLEAN]
  BY IdTyped DEF Identity!IdentityInv
<1>2. /\ UNCHANGED <<x1, x2, x3, x5, x6, x7, x8, x9, x10, x11>>
      /\ x4' \in Identity!Readers /\ x4'.buf = x4.buf /\ x4'.pc # "update"
      /\ x4'.pc = "paused" \/ x4'.head = Identity!NoLine \/ (x4'.head = x4.head /\ x4.pc # "paused")
      /\ x4'.pc \in {"loop", "read", "paused"} => x4.buf = <<>>
      /\ x4'.ack # 0 => x4'.pc = "paused"
  <2>1. CASE Identity!RxPauses
    BY <1>1, <2>1 DEF Identity!RxPauses, Identity!Readers, Identity!link, Identity!records,
       Identity!IdentityInv, Identity!PauseInv
  <2>2. CASE Identity!RxResumes
    BY <1>1, <2>2 DEF Identity!RxResumes, Identity!FramerReset, Identity!Readers, Identity!link,
       Identity!records, Identity!IdentityInv, Identity!PauseInv
  <2>3. CASE Identity!RxLooks
    BY <1>1, <2>3 DEF Identity!RxLooks, Identity!Readers, Identity!link, Identity!records,
       Identity!IdentityInv, Identity!PauseInv
  <2>4. CASE Identity!RxDone
    BY <1>1, <2>4 DEF Identity!RxDone, Identity!Readers, Identity!link, Identity!records,
       Identity!IdentityInv, Identity!PauseInv
  <2> QED BY <2>1, <2>2, <2>3, <2>4
<1>3. Identity!GenInv' /\ Identity!RecordsAgree'
  BY <1>2 DEF Identity!IdentityInv, Identity!GenInv, Identity!RecordsAgree
<1> QED BY <1>1, <1>2, <1>3, LoopNext

LEMMA RxReadsNext ==
    ASSUME Identity!IdentityInv, Identity!RxReads
    PROVE  Identity!IdentityInv'
<1>1. /\ x4 \in Identity!Readers /\ x2 \in Seq(Identity!HalfSet) /\ x3 \in 0..Len(x2) /\ Len(x2) \in Nat
      /\ x7 \in [gen : Nat, version : Nat, boot : Nat, received : BOOLEAN] /\ Identity!TypedInv
  BY IdTyped DEF Identity!IdentityInv
<1>2. x4.pc = "read" /\ x4.buf = <<>> /\ x4.ack = 0 /\ UNCHANGED <<x1, x5, x6, x7, x8, x9, x10, x11>>
  BY DEF Identity!RxReads, Identity!records, Identity!IdentityInv, Identity!PauseInv
<1>3. CASE x3 > 0
  <2>1. PICK n \in 1..Identity!AtMost(x3) :
          /\ x4' = [x4 EXCEPT !.pc = "frames", !.buf = SubSeq(x2, 1, n)]
          /\ x2' = SubSeq(x2, n + 1, Len(x2)) /\ x3' = x3 - n
    BY <1>3 DEF Identity!RxReads
  <2>2. n \in 1..x3 /\ n \in 0..Len(x2)
    BY <1>1, <2>1, IdentityAssumption DEF Identity!AtMost
  <2>3. /\ SubSeq(x2, 1, n) \in Seq(Identity!HalfSet) /\ Len(SubSeq(x2, 1, n)) = n
        /\ \A i \in 1 .. n : SubSeq(x2, 1, n)[i] = x2[i]
    BY <1>1, <2>2, CutEnd
  <2>4. /\ x2' \in Seq(Identity!HalfSet) /\ Len(x2') = Len(x2) - n
        /\ \A i \in 1 .. Len(x2) - n : x2'[i] = x2[n + i]
    BY <1>1, <2>1, <2>2, CutFront
  <2> DEFINE buf == SubSeq(x2, 1, n)
  <2> HIDE DEF buf
  <2>5. /\ x4' \in Identity!Readers /\ x4'.buf = buf /\ x4'.pc = "frames" /\ x4'.head = x4.head
        /\ x4'.ack = 0
    BY <1>1, <1>2, <2>1, <2>3 DEF Identity!Readers, buf
  <2>6. Identity!TypedInv' /\ Identity!PauseInv'
    <3>1. x3' \in 0..Len(x2')
      BY <1>1, <2>1, <2>2, <2>4
    <3> QED BY <1>1, <1>2, <2>4, <2>5, <3>1 DEF Identity!IdentityInv, Identity!TypedInv, Identity!PauseInv
  <2>7. Identity!EraInv'
    <3>1. DOMAIN x2' = 1..Len(x2') /\ DOMAIN buf = 1..n
      BY <2>3, <2>4 DEF buf
    <3>2. \A i \in 1..Len(x2') : n + i \in 1..Len(x2) /\ i \in 1 .. Len(x2) - n
      BY <1>1, <2>2, <2>4
    <3>3. \A i \in 1..Len(x2') : x2'[i].era >= x8.era
      BY <2>4, <3>2, ErasOf
    <3>4. \A i \in 1..n : i \in 1..Len(x2) /\ buf[i] = x2[i]
      BY <1>1, <2>2, <2>3 DEF buf
    <3>5. \A i \in 1..n : buf[i].era >= x8.era
      BY <3>4, ErasOf
    <3> QED BY <1>2, <2>5, <3>1, <3>3, <3>5 DEF Identity!IdentityInv, Identity!EraInv
  <2>8. /\ Len(Under') + 0 = Len(Under)
        /\ \A i \in 1 .. Len(Under') :
             Under'[i].boot = Under[0 + i].boot /\ (Under'[i].end = Under[0 + i].end \/ Under'[i].end = "noise")
    <3>1. UnderFacts /\ UnderFacts' /\ Len(<<>>) = 0
      BY <1>1, <2>6, UnderAre, UnderAreNext
    <3>2. PICK w \in Nat, v \in Nat : w = Len(x2) /\ v = Len(x2') /\ w = n + v
      BY <1>1, <2>2, <2>4
    <3>3. Len(x4.buf) = 0 /\ Len(x4'.buf) = n
      BY <1>2, <2>3, <2>5, <3>1 DEF buf
    <3>4. Len(Under) = 0 + w /\ \A i \in 1 .. 0 + w : Under[i] = IF i <= 0 THEN x4.buf[i] ELSE x2[i - 0]
      BY <3>1, <3>2, <3>3 DEF UnderFacts
    <3>5. Len(Under') = n + v /\ \A i \in 1 .. n + v : Under'[i] = IF i <= n THEN buf[i] ELSE x2'[i - n]
      BY <2>5, <3>1, <3>2, <3>3 DEF UnderFacts
    <3>6. ASSUME NEW i \in 1..w PROVE Under'[i] = Under[0 + i]
      <4>1. i \in 1 .. 0 + w /\ ~(i <= 0) /\ i - 0 = i /\ 0 + i = i /\ i \in 1 .. n + v
        BY <3>2
      <4>2. CASE i <= n
        <5>1. i \in 1..n
          BY <4>2
        <5>2. buf[i] = x2[i]
          BY <2>3, <5>1 DEF buf
        <5> QED BY <3>4, <3>5, <4>1, <4>2, <5>2
      <4>3. CASE ~(i <= n)
        <5>1. i - n \in 1 .. Len(x2) - n /\ n + (i - n) = i
          BY <2>2, <3>2, <4>3
        <5>2. x2'[i - n] = x2[n + (i - n)]
          BY <2>4, <5>1
        <5> QED BY <3>4, <3>5, <4>1, <4>3, <5>1, <5>2
      <4> QED BY <4>2, <4>3
    <3>7. Len(Under') = w /\ Len(Under) = w
      BY <3>2, <3>4, <3>5
    <3> QED BY <3>6, <3>7
  <2>9. Left(Identity!Halves, (Identity!Halves)', 0)
    <3>1. x1'.line = x1.line /\ 0 \in Nat
      BY <1>2
    <3>2. Identity!TypedInv /\ Identity!TypedInv'
      BY <1>1, <2>6
    <3> QED BY <2>8, <3>1, <3>2, LeftNext
  <2>10. Identity!PairInv'
    BY <1>1, <1>2, <2>5, <2>6, <2>9, PairNext DEF Identity!IdentityInv
  <2>11. Identity!GenInv' /\ Identity!RecordsAgree'
    BY <1>2, <2>5 DEF Identity!IdentityInv, Identity!GenInv, Identity!RecordsAgree
  <2> QED BY <2>6, <2>7, <2>10, <2>11 DEF Identity!IdentityInv
<1>4. CASE ~(x3 > 0)
  <2> DEFINE stale == x4.head # Identity!NoLine /\ x2 = <<>> /\ x1.line = Identity!NoLine
             bad == x4.bad \/ stale
  <2>1. /\ x4' = [x4 EXCEPT !.pc = "loop", !.bad = bad, !.head = IF stale THEN Identity!NoLine ELSE x4.head]
        /\ UNCHANGED <<x2, x3>>
    BY <1>1, <1>4 DEF Identity!RxReads, Identity!Readers
  <2>2. bad \in BOOLEAN
    OBVIOUS
  <2> HIDE DEF stale, bad
  <2>3. /\ x4' \in Identity!Readers /\ x4'.buf = x4.buf /\ x4'.pc = "loop" /\ x4'.ack = 0
        /\ x4'.head = Identity!NoLine \/ x4'.head = x4.head
    BY <1>1, <1>2, <2>1, <2>2 DEF Identity!Readers
  <2>4. Identity!GenInv' /\ Identity!RecordsAgree'
    BY <1>2, <2>3 DEF Identity!IdentityInv, Identity!GenInv, Identity!RecordsAgree
  <2> QED BY <1>1, <1>2, <2>1, <2>3, <2>4, LoopNext
<1> QED BY <1>3, <1>4

LEMMA RxUpdatesNext ==
    ASSUME Identity!IdentityInv, Identity!RxUpdates
    PROVE  Identity!IdentityInv'
<1>1. /\ x4.pc = "update" /\ x7' = Identity!Followed(x4.frame)
      /\ x4' = [x4 EXCEPT !.pc = "frames", !.frame = Identity!NoLine, !.published = 0]
      /\ UNCHANGED <<x1, x2, x3, x5, x6, x8, x9, x10, x11>>
  BY DEF Identity!RxUpdates, Identity!link
<1>2. /\ x4 \in Identity!Readers /\ x7 \in [gen : Nat, version : Nat, boot : Nat, received : BOOLEAN]
      /\ x6 \in [gen : Nat, complete : BOOLEAN, version : Nat, boot : Nat, era : Nat]
  BY IdTyped DEF Identity!IdentityInv
<1>3. /\ x4' \in Identity!Readers /\ x4'.pc = "frames" /\ x4'.buf = x4.buf /\ x4'.head = x4.head
      /\ x4'.ack = 0
  <2>1. x4.ack = 0
    BY <1>1 DEF Identity!IdentityInv, Identity!PauseInv
  <2> QED BY <1>1, <1>2, <2>1 DEF Identity!Readers
<1>4. \/ x7' = x7 \/ x7' = [x7 EXCEPT !.received = TRUE]
      \/ x4.published # 0 /\ x7' = [gen |-> x4.published, version |-> x4.frame.version,
                                    boot |-> x4.frame.boot, received |-> TRUE]
  BY <1>1 DEF Identity!Followed
<1>5. x4.published # 0 => /\ x4.published = x6.gen
                          /\ x4.frame.version = x6.version /\ x4.frame.boot = x6.boot
  BY <1>1 DEF Identity!IdentityInv, Identity!GenInv
<1>6. /\ x7' \in [gen : Nat, version : Nat, boot : Nat, received : BOOLEAN]
      /\ \/ x7'.gen = x7.gen /\ x7'.version = x7.version /\ x7'.boot = x7.boot
            /\ (x7.received => x7'.received)
         \/ x7'.gen = x6.gen /\ x7'.version = x6.version /\ x7'.boot = x6.boot /\ x7'.received
  <2>1. CASE x7' = x7 \/ x7' = [x7 EXCEPT !.received = TRUE]
    BY <1>2, <2>1
  <2>2. CASE x4.published # 0 /\ x7' = [gen |-> x4.published, version |-> x4.frame.version,
                                        boot |-> x4.frame.boot, received |-> TRUE]
    BY <1>2, <1>5, <2>2
  <2> QED BY <1>4, <2>1, <2>2
<1>7. x6.gen \in Nat
  BY <1>2
<1>8. Identity!GenInv' /\ Identity!RecordsAgree'
  BY <1>1, <1>3, <1>6, <1>7 DEF Identity!IdentityInv, Identity!GenInv, Identity!RecordsAgree
<1> QED BY <1>1, <1>3, <1>6, <1>8, LoopNext

LEMMA SizeOf == \A S : Identity!Cardinality(S) = Cardinality(S)
BY DEF Identity!Cardinality, Cardinality

\* Ranks among finitely many keep their order.
LEMMA Ranked ==
    ASSUME NEW H, IsFiniteSet(H), H \subseteq Nat
    PROVE  /\ \A g \in Nat : Identity!Cardinality({h \in H : h < g}) \in Nat
           /\ Identity!Cardinality({h \in H : h < 0}) = 0
           /\ \A g \in H, k \in Nat :
                g < k => Identity!Cardinality({h \in H : h < g}) < Identity!Cardinality({h \in H : h < k})
<1>1. ASSUME NEW g \in Nat
      PROVE  IsFiniteSet({h \in H : h < g}) /\ Identity!Cardinality({h \in H : h < g}) \in Nat
  <2>1. {h \in H : h < g} \in SUBSET H
    OBVIOUS
  <2>2. IsFiniteSet({h \in H : h < g})
    BY <2>1, FS_Subset
  <2> QED BY <2>2, FS_CardinalityType, SizeOf
<1>2. Identity!Cardinality({h \in H : h < 0}) = 0
  <2>1. \A h \in H : h \in Nat /\ ~(h < 0)
    <3> TAKE h \in H
    <3>1. h \in Nat
      OBVIOUS
    <3> QED BY <3>1
  <2>2. {h \in H : h < 0} = {}
    BY <2>1
  <2> QED BY <2>2, FS_EmptySet, SizeOf
<1>3. ASSUME NEW g \in H, NEW k \in Nat, g < k
      PROVE  Identity!Cardinality({h \in H : h < g}) < Identity!Cardinality({h \in H : h < k})
  <2> DEFINE S == {h \in H : h < g}  T == {h \in H : h < k}
  <2>0. g \in Nat /\ \A h \in H : h \in Nat
    OBVIOUS
  <2>6. \A h \in H : h < g => h < k
    BY <1>3, <2>0
  <2>1. S \in SUBSET T /\ g \in T /\ g \notin S
    <3>1. \A h \in S : h \in T
      BY <2>6
    <3>2. g \in T
      BY <1>3
    <3>3. g \notin S
      BY <2>0
    <3> HIDE DEF S, T
    <3> QED BY <3>1, <3>2, <3>3
  <2>2. IsFiniteSet(T) /\ Identity!Cardinality(S) \in Nat /\ Identity!Cardinality(T) \in Nat
    <3>1. IsFiniteSet(S) /\ Identity!Cardinality(S) \in Nat
      BY <1>1, <2>0
    <3>2. IsFiniteSet(T) /\ Identity!Cardinality(T) \in Nat
      BY <1>1
    <3> QED BY <3>1, <3>2
  <2> HIDE DEF S, T
  <2>3. Cardinality(S) <= Cardinality(T) /\ (Cardinality(T) = Cardinality(S) => T = S)
    BY <2>1, <2>2, FS_Subset
  <2>4. Identity!Cardinality(S) = Cardinality(S) /\ Identity!Cardinality(T) = Cardinality(T)
    BY SizeOf
  <2>5. Identity!Cardinality(S) < Identity!Cardinality(T)
    BY <2>1, <2>2, <2>3, <2>4
  <2> QED BY <2>5 DEF S, T
<1> QED BY <1>1, <1>2, <1>3

\* The framer takes one half off what was read.
LEMMA FrameNext ==
    ASSUME Identity!IdentityInv, x4.pc = "frames", x4.buf # <<>>,
           UNCHANGED <<x1, x2, x3, x5, x9, x10, x11>>,
           x4' \in Identity!Readers, x4'.buf = Tail(x4.buf), x4'.pc \in {"frames", "update"}, x4'.ack = 0,
           \/ x4'.head = Identity!NoLine
           \/ x4'.head = Head(x4.buf) /\ Head(x4.buf).end = "head",
           x6' \in [gen : Nat, complete : BOOLEAN, version : Nat, boot : Nat, era : Nat],
           x7' \in [gen : Nat, version : Nat, boot : Nat, received : BOOLEAN],
           x8' \in [gen : Nat, era : Nat], x8'.era = x8.era,
           x6'.gen > x8'.gen => x6'.era >= x8.era,
           Identity!GenInv', Identity!RecordsAgree'
    PROVE  Identity!IdentityInv'
<1>1. Identity!TypedInv /\ Identity!TypedInv'
  BY DEF Identity!IdentityInv, Identity!TypedInv
<1>2. Identity!PauseInv'
  BY DEF Identity!IdentityInv, Identity!PauseInv
<1>0. x4.buf \in Seq(Identity!HalfSet) /\ Len(x4.buf) \in Nat
  BY <1>1, IdTyped
<1>3. x4.buf \in Seq(Identity!HalfSet) /\ Len(x4.buf) \in Nat \ {0}
  BY <1>0
<1>4. /\ Tail(x4.buf) \in Seq(Identity!HalfSet) /\ Len(Tail(x4.buf)) = Len(x4.buf) - 1
      /\ \A i \in 1 .. Len(x4.buf) - 1 : Tail(x4.buf)[i] = x4.buf[1 + i]
      /\ Head(x4.buf) = x4.buf[1] /\ x4.buf[1] \in Identity!HalfSet
  BY <1>3
<1>5. x4.buf[1].era >= x8.era /\ \A i \in 1 .. Len(x4.buf) - 1 : x4.buf[1 + i].era >= x8.era
  <2>1. \A i \in 1 .. Len(x4.buf) - 1 : 1 + i \in 1..Len(x4.buf)
    BY <1>3
  <2>2. 1 \in 1..Len(x4.buf)
    BY <1>3
  <2> QED BY <2>1, <2>2, ErasOf
<1>6. Identity!EraInv'
  <2>1. DOMAIN x4'.buf = 1 .. Len(x4.buf) - 1
    BY <1>4
  <2>2. \A i \in DOMAIN x4'.buf : x4'.buf[i].era >= x8'.era
    BY <1>4, <1>5, <2>1, SMTT(60)
  <2>3. x4'.head # Identity!NoLine => x4'.head.era >= x8'.era
    BY <1>4, <1>5
  <2>4. x8'.era <= x11' /\ \A i \in DOMAIN x2' : x2'[i].era >= x8'.era
    BY DEF Identity!IdentityInv, Identity!EraInv
  <2> QED BY <2>2, <2>3, <2>4 DEF Identity!EraInv
<1>7. UnderFacts /\ UnderFacts'
  BY <1>1, UnderAre, UnderAreNext
<1>8. PICK b \in Nat, w \in Nat : b + 1 = Len(x4.buf) /\ b = Len(x4'.buf) /\ w = Len(x2) /\ w = Len(x2')
  <2>1. Len(x2) \in Nat /\ x2' = x2
    BY <1>7 DEF UnderFacts
  <2>2. Len(x4.buf) - 1 \in Nat /\ Len(x4'.buf) = Len(x4.buf) - 1 /\ (Len(x4.buf) - 1) + 1 = Len(x4.buf)
    BY <1>3, <1>4
  <2> QED BY <2>1, <2>2
<1>9. Len(Under) = (b + 1) + w /\ \A i \in 1 .. (b + 1) + w : Under[i] = IF i <= b + 1 THEN x4.buf[i] ELSE x2[i - (b + 1)]
  <2> DEFINE a == b + 1
  <2>1. a = Len(x4.buf) /\ w = Len(x2)
    BY <1>8
  <2> HIDE DEF a
  <2>2. Len(Under) = a + w /\ \A i \in 1 .. a + w : Under[i] = IF i <= a THEN x4.buf[i] ELSE x2[i - a]
    BY <1>7, <2>1 DEF UnderFacts
  <2> QED BY <2>2 DEF a
<1>10. Len(Under') = b + w /\ \A i \in 1 .. b + w : Under'[i] = IF i <= b THEN x4'.buf[i] ELSE x2'[i - b]
  BY <1>7, <1>8 DEF UnderFacts
<1>11. ASSUME NEW i \in 1 .. b + w PROVE Under'[i] = Under[1 + i]
  <2>1. 1 + i \in 1 .. (b + 1) + w /\ (1 + i) - (b + 1) = i - b
    OBVIOUS
  <2>2. CASE i <= b
    <3>1. 1 + i <= b + 1 /\ i \in 1 .. Len(x4.buf) - 1
      BY <1>8, <2>2
    <3>2. x4'.buf[i] = x4.buf[1 + i]
      BY <1>4, <3>1
    <3> QED BY <1>9, <1>10, <2>1, <2>2, <3>1, <3>2
  <2>3. CASE ~(i <= b)
    <3>1. ~(1 + i <= b + 1)
      BY <2>3
    <3> QED BY <1>9, <1>10, <2>1, <2>3, <3>1
  <2> QED BY <2>2, <2>3
<1>12. /\ Len(Under') + 1 = Len(Under)
       /\ \A i \in 1 .. Len(Under') :
            Under'[i].boot = Under[1 + i].boot /\ (Under'[i].end = Under[1 + i].end \/ Under'[i].end = "noise")
  BY <1>9, <1>10, <1>11
<1>13. Left(Identity!Halves, (Identity!Halves)', 1)
  <2>1. x1'.line = x1.line /\ 1 \in Nat
    OBVIOUS
  <2> QED BY <1>1, <1>12, <2>1, LeftNext
<1>14. Identity!Halves[1] = Head(x4.buf)
  <2>1. 1 \in 1 .. Len(Under) + Len(Identity!Coming) /\ 1 <= Len(Under) /\ 1 <= b + 1 /\ 1 \in 1 .. (b + 1) + w
    BY <1>7, <1>9, SMTT(60) DEF UnderFacts
  <2>2. Identity!Halves[1] = Under[1]
    BY <1>7, <2>1 DEF UnderFacts
  <2>3. Under[1] = x4.buf[1]
    BY <1>9, <2>1
  <2> QED BY <1>4, <2>2, <2>3
<1>15. Identity!PairInv'
  <2>1. \/ x4'.head = Identity!NoLine
        \/ x4'.head = Identity!Halves[1] /\ Identity!Halves[1].end = "head"
    BY <1>14
  <2>2. Identity!PairInv /\ 1 \in Nat
    BY DEF Identity!IdentityInv
  <2> QED BY <1>1, <1>13, <2>1, <2>2, PairNext
<1> QED BY <1>1, <1>2, <1>6, <1>15 DEF Identity!IdentityInv

LEMMA RxFrameNext ==
    ASSUME Identity!IdentityInv, Identity!RxFrame
    PROVE  Identity!IdentityInv'
<1> DEFINE p == Head(x4.buf)  f == Identity!Parsed(x4.head, p)
<1>1. /\ x4 \in Identity!Readers /\ x4.buf \in Seq(Identity!HalfSet) /\ Identity!TypedInv
      /\ x6 \in [gen : Nat, complete : BOOLEAN, version : Nat, boot : Nat, era : Nat]
      /\ x7 \in [gen : Nat, version : Nat, boot : Nat, received : BOOLEAN]
      /\ x8 \in [gen : Nat, era : Nat] /\ x6.gen \in Nat /\ x7.gen \in Nat /\ x8.gen \in Nat /\ x8.era \in Nat
  BY IdTyped DEF Identity!IdentityInv
<1>2. /\ x4.pc = "frames" /\ x4.buf # <<>> /\ UNCHANGED <<x1, x2, x3, x5, x9, x10, x11>>
  BY DEF Identity!RxFrame, Identity!link
<1>3. x4.ack = 0 /\ p \in Identity!HalfSet /\ Tail(x4.buf) \in Seq(Identity!HalfSet)
  <2>1. x4.ack = 0
    BY <1>2 DEF Identity!IdentityInv, Identity!PauseInv
  <2> QED BY <1>1, <1>2, <2>1
<1>4. x6.gen > x8.gen => x6.era >= x8.era
  BY DEF Identity!IdentityInv, Identity!EraInv
<1> HIDE DEF p
<1>5. CASE /\ p.end # "tail" /\ UNCHANGED <<x6, x7, x8>>
           /\ LET opens == p.end = "head" /\ x4.head = Identity!NoLine /\ ~x4.bad
              IN  x4' = [x4 EXCEPT !.buf = Tail(@), !.bad = @ \/ ~opens,
                                   !.head = IF opens THEN p ELSE Identity!NoLine]
  <2> DEFINE opens == p.end = "head" /\ x4.head = Identity!NoLine /\ ~x4.bad  bad == x4.bad \/ ~opens
             head == IF opens THEN p ELSE Identity!NoLine
  <2>1. x4' = [x4 EXCEPT !.buf = Tail(x4.buf), !.bad = bad, !.head = head]
    BY <1>1, <1>5 DEF Identity!Readers
  <2>2. bad \in BOOLEAN /\ (head = Identity!NoLine \/ (head = p /\ p.end = "head"))
    OBVIOUS
  <2> HIDE DEF opens, bad, head
  <2>3. /\ x4' \in Identity!Readers /\ x4'.buf = Tail(x4.buf) /\ x4'.pc = "frames" /\ x4'.ack = 0
        /\ x4'.head = head
    BY <1>1, <1>2, <1>3, <2>1, <2>2 DEF Identity!Readers
  <2>4. Identity!GenInv' /\ Identity!RecordsAgree'
    BY <1>5, <2>3 DEF Identity!IdentityInv, Identity!GenInv, Identity!RecordsAgree
  <2> QED BY <1>1, <1>2, <1>4, <1>5, <2>2, <2>3, <2>4, FrameNext DEF p
<1>6. CASE /\ UNCHANGED <<x6, x7, x8>>
           /\ x4' = [x4 EXCEPT !.buf = Tail(@), !.bad = FALSE, !.head = Identity!NoLine]
  <2>1. /\ x4' \in Identity!Readers /\ x4'.buf = Tail(x4.buf) /\ x4'.pc = "frames" /\ x4'.ack = 0
        /\ x4'.head = Identity!NoLine
    BY <1>1, <1>2, <1>3, <1>6 DEF Identity!Readers
  <2>2. Identity!GenInv' /\ Identity!RecordsAgree'
    BY <1>6, <2>1 DEF Identity!IdentityInv, Identity!GenInv, Identity!RecordsAgree
  <2> QED BY <1>1, <1>2, <1>4, <1>6, <2>1, <2>2, FrameNext
<1>7. ASSUME p.end = "tail", Identity!Whole(x4.head, p)
      PROVE  /\ f \in Identity!Frames /\ f.version = x4.head.boot /\ f.boot = p.boot
             /\ f.version = f.boot /\ f.era >= x8.era
  <2>1. x4.head # Identity!NoLine /\ x4.head \in Identity!HalfSet
    BY <1>1, <1>7 DEF Identity!Whole, Identity!Readers
  <2>2. x4.head.era \in Nat /\ x4.head.boot \in Nat /\ x4.head.kind \in Kinds /\ p.era \in Nat /\ p.boot \in Nat
    BY <1>3, <2>1 DEF Identity!HalfSet
  <2>3. f \in Identity!Frames /\ f.version = x4.head.boot /\ f.boot = p.boot
        /\ (f.era = x4.head.era \/ f.era = p.era)
    BY <2>2 DEF Identity!Parsed, Identity!Frames
  <2>4. x4.head.era >= x8.era
    BY <1>2, <2>1 DEF Identity!IdentityInv, Identity!EraInv
  <2>5. p.era >= x8.era /\ p = x4.buf[1]
    <3>1. 1 \in 1..Len(x4.buf) /\ Head(x4.buf) = x4.buf[1]
      BY <1>1, <1>2
    <3> QED BY <3>1, ErasOf DEF p
  <2>6. x4.head.boot = p.boot
    <3>1. UnderFacts
      BY <1>1, UnderAre
    <3>2. Len(x4.buf) \in Nat \ {0}
      BY <1>1, <1>2
    <3>3. /\ 1 \in 1 .. Len(x4.buf) + Len(x2) /\ 1 <= Len(x4.buf) /\ 1 <= Len(Under)
          /\ 1 \in 1 .. Len(Under) + Len(Identity!Coming) /\ Len(Identity!Halves) # 0
      BY <3>1, <3>2 DEF UnderFacts
    <3>4. Under[1] = p
      BY <2>5, <3>1, <3>3 DEF UnderFacts
    <3>5. Identity!Halves[1] = p
      BY <3>1, <3>3, <3>4 DEF UnderFacts
    <3>6. Identity!Halves # <<>>
      BY <3>3
    <3> QED BY <1>2, <1>7, <2>1, <3>5, <3>6 DEF Identity!IdentityInv, Identity!PairInv
  <2> QED BY <2>2, <2>3, <2>4, <2>5, <2>6
<1>8. CASE /\ p.end = "tail" /\ Identity!Whole(x4.head, p) /\ UNCHANGED <<x6, x7, x8>>
           /\ x4' = [x4 EXCEPT !.buf = Tail(@), !.bad = FALSE, !.head = Identity!NoLine,
                               !.pc = "update", !.frame = f, !.published = 0]
  <2>1. f \in Identity!Frames
    BY <1>7, <1>8
  <2> HIDE DEF f
  <2>2. /\ x4' \in Identity!Readers /\ x4'.buf = Tail(x4.buf) /\ x4'.pc = "update" /\ x4'.ack = 0
        /\ x4'.head = Identity!NoLine /\ x4'.published = 0
    BY <1>1, <1>2, <1>3, <1>8, <2>1 DEF Identity!Readers
  <2>3. Identity!GenInv' /\ Identity!RecordsAgree'
    BY <1>8, <2>2 DEF Identity!IdentityInv, Identity!GenInv, Identity!RecordsAgree
  <2> QED BY <1>1, <1>2, <1>4, <1>8, <2>2, <2>3, FrameNext
<1>9. CASE p.end = "tail" /\ Identity!Whole(x4.head, p) /\ Identity!Publish(f)
  <2> DEFINE new == x6.gen + 1  H == {0, x7.gen, x8.gen, new}
             r(g) == Identity!Cardinality({h \in H : h < g})
             k == r(new)  v == r(x7.gen)  l == r(x8.gen)  full == f.kind # "bare"
  <2>1. /\ x6' = [gen |-> k, complete |-> full, version |-> f.version, boot |-> f.boot, era |-> f.era]
        /\ x7' = [x7 EXCEPT !.gen = v] /\ x8' = [x8 EXCEPT !.gen = l]
        /\ x4' = [x4 EXCEPT !.buf = Tail(@), !.head = Identity!NoLine, !.bad = FALSE,
                            !.pc = "update", !.frame = f, !.published = k]
    BY <1>1, <1>9 DEF Identity!Publish
  <2>2. x7.gen < new /\ x8.gen < new /\ new \in Nat /\ 0 < new
    BY <1>1 DEF Identity!IdentityInv, Identity!GenInv
  <2>3. IsFiniteSet(H) /\ H \subseteq Nat
    <3>3. IsFiniteSet({0})
      BY FS_Singleton
    <3>4. IsFiniteSet({0} \cup {x7.gen})
      BY <3>3, FS_AddElement
    <3>5. IsFiniteSet(({0} \cup {x7.gen}) \cup {x8.gen})
      BY <3>4, FS_AddElement
    <3>1. IsFiniteSet((({0} \cup {x7.gen}) \cup {x8.gen}) \cup {new})
      BY <3>5, FS_AddElement
    <3>2. H = (({0} \cup {x7.gen}) \cup {x8.gen}) \cup {new}
      OBVIOUS
    <3>6. H \subseteq Nat
      BY <1>1, <2>2
    <3> QED BY <3>1, <3>2, <3>6
  <2>4. x7.gen \in H /\ x8.gen \in H /\ 0 \in H
    OBVIOUS
  <2> HIDE DEF H, new
  <2>5. /\ k \in Nat /\ v \in Nat /\ l \in Nat /\ v < k /\ l < k /\ r(0) = 0 /\ r(0) < k
    <3>1. /\ \A g \in Nat : r(g) \in Nat
          /\ r(0) = 0
          /\ \A g \in H, n \in Nat : g < n => r(g) < r(n)
      BY <2>3, Ranked
    <3> HIDE DEF r
    <3> QED BY <1>1, <2>2, <2>4, <3>1
  <2>6. v # 0 => x7.gen # 0
    BY <2>5
  <2>7. f \in Identity!Frames /\ f.version = f.boot /\ f.era >= x8.era /\ full \in BOOLEAN
        /\ f.version \in Nat /\ f.boot \in Nat /\ f.era \in Nat
    BY <1>7, <1>9 DEF Identity!Frames
  <2> HIDE DEF f, k, v, l, r, full
  <2>8. /\ x6' \in [gen : Nat, complete : BOOLEAN, version : Nat, boot : Nat, era : Nat]
        /\ x6'.gen = k /\ x6'.version = f.version /\ x6'.boot = f.boot /\ x6'.era = f.era
    BY <2>1, <2>5, <2>7
  <2>9. /\ x7' \in [gen : Nat, version : Nat, boot : Nat, received : BOOLEAN]
        /\ x7'.gen = v /\ x7'.received = x7.received
        /\ x8' \in [gen : Nat, era : Nat] /\ x8'.gen = l /\ x8'.era = x8.era
    BY <1>1, <2>1, <2>5
  <2>10. /\ x4' \in Identity!Readers /\ x4'.buf = Tail(x4.buf) /\ x4'.pc = "update" /\ x4'.ack = 0
         /\ x4'.head = Identity!NoLine /\ x4'.published = k /\ x4'.frame = f
    BY <1>1, <1>2, <1>3, <2>1, <2>5, <2>7 DEF Identity!Readers
  <2>11. Identity!GenInv'
    BY <2>5, <2>8, <2>9, <2>10 DEF Identity!GenInv
  <2>12. x7.gen # 0 => x7.received
    BY DEF Identity!IdentityInv, Identity!RecordsAgree
  <2>13. Identity!RecordsAgree'
    BY <2>5, <2>6, <2>7, <2>8, <2>9, <2>12 DEF Identity!RecordsAgree
  <2> QED BY <1>2, <2>7, <2>8, <2>9, <2>10, <2>11, <2>13, FrameNext
<1> QED BY <1>5, <1>6, <1>8, <1>9 DEF Identity!RxFrame, Identity!records, p

LEMMA IdentityNext ==
    ASSUME Identity!IdentityInv, [Identity!Next]_(Identity!vars)
    PROVE  Identity!IdentityInv'
<1>1. CASE UNCHANGED Identity!vars
  <2>1. UNCHANGED <<x1, x2, x3, x4, x5, x6, x7, x8, x9, x10, x11>>
    BY <1>1 DEF Identity!vars
  <2>2. Identity!TypedInv' /\ Identity!PauseInv'
    BY <2>1 DEF Identity!IdentityInv, Identity!TypedInv, Identity!PauseInv
  <2> QED BY <2>1, <2>2, SameLink
<1>2. CASE Identity!Next
  BY <1>2, SendHeadNext, SendTailNext, RebootNext, NoiseNext, TasksNext, RelayTakesNext, FirstFlushNext,
     CaptureNext, RestartNext, QuietReaderNext, RxReadsNext, RxUpdatesNext, RxFrameNext
     DEF Identity!Next, Identity!Rx, Identity!Fence
<1> QED BY <1>1, <1>2

LEMMA IdentityInitial == Identity!Init => Identity!IdentityInv
<1> SUFFICES ASSUME Identity!Init PROVE Identity!IdentityInv
  OBVIOUS
<1>1. /\ x1 = [boot |-> 1, line |-> Identity!NoLine] /\ x2 = <<>> /\ x3 = 0 /\ x11 = 0
      /\ x4 = Identity!Reader /\ x5 = [request |-> 0, last |-> 0]
      /\ x6 = Identity!Unknown /\ x7 = Identity!NotSeen /\ x8 = [gen |-> 0, era |-> 0]
      /\ x9 = Identity!Idle /\ x10 = Identity!Idle
  BY DEF Identity!Init
<1>2. /\ x4 \in Identity!Readers /\ x4.pc = "loop" /\ x4.head = Identity!NoLine /\ x4.buf = <<>>
      /\ x4.ack = 0
  BY <1>1 DEF Identity!Reader, Identity!Readers
<1>3. x2 \in Seq(Identity!HalfSet) /\ Len(x2) = 0 /\ DOMAIN x2 = {} /\ DOMAIN x4.buf = {}
  BY <1>1, <1>2
<1>4. Identity!TypedInv
  <2>1. /\ x6 \in [gen : Nat, complete : BOOLEAN, version : Nat, boot : Nat, era : Nat]
        /\ x7 \in [gen : Nat, version : Nat, boot : Nat, received : BOOLEAN]
        /\ x8 \in [gen : Nat, era : Nat] /\ x5 \in [request : Nat, last : Nat]
    BY <1>1 DEF Identity!Unknown, Identity!NotSeen
  <2>2. /\ x9 \in [pc : {"idle", "asking", "drain", "resume"}, guard : Nat]
        /\ x10 \in [pc : {"idle", "asking"}, guard : Nat]
    BY <1>1 DEF Identity!Idle
  <2>3. x1 \in [boot : Nat, line : [kind : Kinds, boot : Nat] \cup {Identity!NoLine}] /\ x1.line = Identity!NoLine
    BY <1>1
  <2> QED BY <1>1, <1>2, <1>3, <2>1, <2>2, <2>3 DEF Identity!TypedInv
<1>5. Identity!PauseInv
  BY <1>1, <1>2 DEF Identity!PauseInv, Identity!Idle
<1>6. Identity!EraInv
  BY <1>1, <1>2, <1>3 DEF Identity!EraInv, Identity!Unknown
<1>7. Identity!PairInv
  <2>1. Identity!Coming = <<>> /\ Identity!Halves = x4.buf \o x2 \o Identity!Coming
    BY <1>1 DEF Identity!Coming, Identity!Halves
  <2>2. Identity!Halves = <<>>
    BY <1>1, <1>2, <2>1
  <2>3. Len(Identity!Halves) = 0
    BY <2>2
  <2> QED BY <1>2, <2>3 DEF Identity!PairInv, Identity!Chained
<1>8. Identity!GenInv /\ Identity!RecordsAgree
  BY <1>1, <1>2 DEF Identity!GenInv, Identity!RecordsAgree, Identity!Unknown, Identity!NotSeen
<1> QED BY <1>4, <1>5, <1>6, <1>7, <1>8 DEF Identity!IdentityInv

LEMMA FenceHeld == Identity!IdentityInv => Identity!FenceHolds /\ Identity!RecordsAgree
BY DEF Identity!IdentityInv, Identity!EraInv, Identity!FenceHolds, Identity!Fresh

-----------------------------------------------------------------------------
(* An investigation on the badge (InvestigationBadge): x1 state,           *)
(* x2 pending, x3 fence, x4 caller, x5 uart, x6 poll, x7 emitter, x8 told. *)

\* A chunk is queued.
Has(q, c) == \E i \in 1..Len(q) : q[i] = c
EndOf(id) == Investigation!Chunk("end", id)

LEMMA QueueGrows ==
    ASSUME NEW S, NEW q \in Seq(S), NEW a \in S, NEW b \in S
    PROVE  /\ q \o <<a, b>> \in Seq(S)
           /\ \A c : Has(q, c) => Has(q \o <<a, b>>, c)
           /\ Has(q \o <<a, b>>, b)
<1> DEFINE r == q \o <<a, b>>
<1>1. r \in Seq(S) /\ Len(r) = Len(q) + 2 /\ Len(q) \in Nat
  OBVIOUS
<1>2. \A i \in 1..Len(q) : r[i] = q[i] /\ i \in 1..Len(r)
  OBVIOUS
<1>3. r[Len(q) + 2] = b /\ Len(q) + 2 \in 1..Len(r)
  OBVIOUS
<1> HIDE DEF r
<1>4. \A c : Has(q, c) => Has(r, c)
  BY <1>2 DEF Has
<1>5. Has(r, b)
  BY <1>3 DEF Has
<1> QED BY <1>1, <1>4, <1>5 DEF r

LEMMA QueueTail ==
    ASSUME NEW S, NEW q \in Seq(S), q # <<>>
    PROVE  /\ Tail(q) \in Seq(S) /\ Head(q) \in S
           /\ \A c : Has(q, c) => Has(Tail(q), c) \/ c = Head(q)
<1> DEFINE r == Tail(q)
<1>1. r \in Seq(S) /\ Head(q) \in S /\ Len(r) = Len(q) - 1 /\ Len(q) \in Nat \ {0}
  OBVIOUS
<1>2. \A i \in 1..Len(r) : r[i] = q[i + 1]
  OBVIOUS
<1>3. ASSUME NEW c, NEW i \in 1..Len(q), q[i] = c PROVE Has(r, c) \/ c = Head(q)
  <2>1. CASE i = 1
    BY <1>3, <2>1
  <2>2. CASE i # 1
    <3>1. i - 1 \in 1..Len(r) /\ r[i - 1] = c
      BY <1>1, <1>2, <1>3, <2>2
    <3> QED BY <3>1 DEF Has
  <2> QED BY <2>1, <2>2
<1> QED BY <1>1, <1>3 DEF Has

\* What is in hand, of the variables themselves.
LEMMA InHandIs ==
    ASSUME x2 \in Seq(Investigation!ChunkSet), NEW id
    PROVE  Investigation!InHand(id) <=>
             \/ id \in x8 \/ Has(x2, EndOf(id)) \/ x5 = EndOf(id)
             \/ x1.id = id /\ x1.replay
BY DEF Investigation!InHand, Has, EndOf

LEMMA InHandIsNext ==
    ASSUME x2' \in Seq(Investigation!ChunkSet), NEW id
    PROVE  (Investigation!InHand(id))' <=>
             \/ id \in x8' \/ Has(x2', EndOf(id)) \/ x5' = EndOf(id)
             \/ x1'.id = id /\ x1'.replay
BY DEF Investigation!InHand, Has, EndOf, Investigation!Chunk

\* A terminal that is replayed is marked so or queued.
LEMMA SecuredOf ==
    ASSUME NEW s \in Investigation!States, NEW q \in Seq(Investigation!ChunkSet)
    PROVE  LET r == Investigation!Secured(s, q) IN
           /\ r.s \in Investigation!States /\ r.q \in Seq(Investigation!ChunkSet)
           /\ r.s.id = s.id /\ r.s.active = s.active /\ r.s.ended = s.ended
           /\ r.s.emitting = s.emitting /\ r.s.late = s.late
           /\ \A c : Has(q, c) => Has(r.q, c)
           /\ s.replay => r.s.replay \/ Has(r.q, EndOf(s.id))
           /\ s.emitting \/ ~s.replay => r.s = s /\ r.q = q
<1> DEFINE a == Investigation!Chunk("begin", s.id)  b == EndOf(s.id)
           t == [s EXCEPT !.replay = FALSE, !.degraded = FALSE]
<1>1. s.id \in Nat /\ a \in Investigation!ChunkSet /\ b \in Investigation!ChunkSet
  BY DEF Investigation!States, Investigation!ChunkSet, Investigation!Chunk, EndOf
<1>2. /\ t \in Investigation!States /\ t.id = s.id /\ t.active = s.active /\ t.ended = s.ended
      /\ t.emitting = s.emitting /\ t.late = s.late
  BY DEF Investigation!States
<1> HIDE DEF a, b, t
<1>3. /\ q \o <<a, b>> \in Seq(Investigation!ChunkSet)
      /\ \A c : Has(q, c) => Has(q \o <<a, b>>, c)
      /\ Has(q \o <<a, b>>, b)
  BY <1>1, QueueGrows
<1>4. CASE s.replay /\ ~s.emitting /\ s.ended /\ Len(q) <= Investigation!PendingMax - 2
  <2>1. Investigation!Secured(s, q) = [s |-> t, q |-> q \o <<a, b>>]
    BY <1>4 DEF Investigation!Secured, a, b, t, EndOf
  <2> DEFINE r == Investigation!Secured(s, q)
  <2>2. r.s = t /\ r.q = q \o <<a, b>>
    BY <2>1
  <2>3. Has(r.q, EndOf(s.id))
    BY <1>3, <2>2 DEF b
  <2> HIDE DEF r
  <2>4. /\ r.s \in Investigation!States /\ r.q \in Seq(Investigation!ChunkSet)
        /\ r.s.id = s.id /\ r.s.active = s.active /\ r.s.ended = s.ended
        /\ r.s.emitting = s.emitting /\ r.s.late = s.late
        /\ \A c : Has(q, c) => Has(r.q, c)
    BY <1>2, <1>3, <2>2
  <2> QED BY <1>4, <2>3, <2>4 DEF r
<1>5. CASE ~(s.replay /\ ~s.emitting /\ s.ended /\ Len(q) <= Investigation!PendingMax - 2)
  <2>1. Investigation!Secured(s, q) = [s |-> s, q |-> q]
    BY <1>5 DEF Investigation!Secured
  <2> QED BY <1>5, <2>1
<1> QED BY <1>4, <1>5

\* A request that expires is over, and its terminal is replayed.
LEMMA ExpiredOf ==
    ASSUME NEW s \in Investigation!States, NEW q \in Seq(Investigation!ChunkSet)
    PROVE  LET r == Investigation!Expired(s, q) IN
           /\ r.s \in Investigation!States /\ r.q \in Seq(Investigation!ChunkSet)
           /\ r.s.id = s.id
           /\ \A c : Has(q, c) => Has(r.q, c)
           /\ Investigation!IsExpired(s) =>
                /\ s.active /\ ~s.ended
                /\ r.s.ended /\ ~r.s.active /\ (r.s.replay \/ Has(r.q, EndOf(s.id)))
           /\ ~Investigation!IsExpired(s) => r.s = s /\ r.q = q
<1> DEFINE t == [s EXCEPT !.begun = TRUE, !.ended = TRUE, !.active = FALSE, !.late = FALSE]
           u == Investigation!Replayed(t)
<1>1. u \in Investigation!States /\ u.id = s.id /\ u.ended /\ ~u.active /\ u.replay
  BY DEF Investigation!States, Investigation!Replayed
<1>2. CASE Investigation!IsExpired(s)
  <2>1. Investigation!Expired(s, q) = Investigation!Secured(u, q)
    BY <1>2 DEF Investigation!Expired
  <2>2. s.active /\ ~s.ended
    BY <1>2 DEF Investigation!IsExpired
  <2> HIDE DEF u
  <2> QED BY <1>1, <1>2, <2>1, <2>2, SecuredOf
<1>3. CASE ~Investigation!IsExpired(s)
  <2>1. Investigation!Expired(s, q) = [s |-> s, q |-> q]
    BY <1>3 DEF Investigation!Expired
  <2> QED BY <1>3, <2>1
<1> QED BY <1>2, <1>3

LEMMA EndTyped ==
    ASSUME Investigation!EndInv
    PROVE  /\ x1 \in Investigation!States /\ x2 \in Seq(Investigation!ChunkSet)
           /\ x5 \in Investigation!ChunkSet /\ x4 \in Nat /\ x1.id \in Nat /\ x5.id \in Nat
           /\ x9 \in [requests : 0..Starts, chunks : Nat, faults : Nat] /\ Starts \in Nat
           /\ x9.requests \in 0..Starts
           /\ x1.active \in BOOLEAN /\ x1.ended \in BOOLEAN
BY InvestigationAssumption DEF Investigation!EndInv, Investigation!TypedInv, Investigation!States,
   Investigation!ChunkSet

LEMMA InvestigationInitial == Investigation!Init => Investigation!EndInv
<1> SUFFICES ASSUME Investigation!Init PROVE Investigation!EndInv
  OBVIOUS
<1>1. x1 \in Investigation!States /\ x1.id = 0 /\ ~x1.active /\ ~x1.ended
  BY DEF Investigation!Init, Investigation!Empty, Investigation!States
<1>2. x2 = <<>> /\ x2 \in Seq(Investigation!ChunkSet)
  BY DEF Investigation!Init
<1>3. x5 \in Investigation!ChunkSet /\ x5.kind = "none"
  BY DEF Investigation!Init, Investigation!ChunkSet, Investigation!NoChunk, Investigation!Chunk
<1>4. x9 \in [requests : 0..Starts, chunks : Nat, faults : Nat]
  BY InvestigationAssumption DEF Investigation!Init
<1>5. x4 = 0 /\ x3 = "free" /\ x7 = "free"
  BY DEF Investigation!Init
<1> QED BY <1>1, <1>2, <1>3, <1>4, <1>5 DEF Investigation!EndInv, Investigation!TypedInv,
        Investigation!PhaseInv, Investigation!FenceInv, Investigation!EndInHand

\* An end that was in hand still is: the state is the same but for what does not
\* matter, or it has expired.
LEMMA ExpiryNext ==
    ASSUME Investigation!EndInv,
           x1' = Investigation!Expired(x1, x2).s, x2' = Investigation!Expired(x1, x2).q,
           x3' = IF Investigation!IsExpired(x1) THEN Investigation!Revised ELSE x3,
           UNCHANGED <<x4, x5, x7, x8>>,
           x9' \in [requests : 0..Starts, chunks : Nat, faults : Nat]
    PROVE  Investigation!EndInv' /\ x1'.id = x1.id
<1>1. /\ x1' \in Investigation!States /\ x2' \in Seq(Investigation!ChunkSet) /\ x1'.id = x1.id
      /\ \A c : Has(x2, c) => Has(x2', c)
      /\ Investigation!IsExpired(x1) =>
           /\ x1.active /\ ~x1.ended
           /\ x1'.ended /\ ~x1'.active /\ (x1'.replay \/ Has(x2', EndOf(x1.id)))
      /\ ~Investigation!IsExpired(x1) => x1' = x1
  BY EndTyped, ExpiredOf
<1>2. Investigation!TypedInv'
  BY <1>1 DEF Investigation!EndInv, Investigation!TypedInv
<1>3. Investigation!PhaseInv'
  BY <1>1, EndTyped DEF Investigation!EndInv, Investigation!PhaseInv
<1>4. Investigation!FenceInv'
  BY <1>1 DEF Investigation!EndInv, Investigation!FenceInv, Investigation!Revised
<1>5. Investigation!EndInHand'
  <2> SUFFICES ASSUME x1'.ended PROVE Investigation!InHand(x1.id)'
    BY <1>1 DEF Investigation!EndInHand
  <2>1. CASE Investigation!IsExpired(x1)
    BY <1>1, <2>1, InHandIsNext
  <2>2. CASE ~Investigation!IsExpired(x1)
    <3>1. Investigation!InHand(x1.id)
      BY <1>1, <2>2 DEF Investigation!EndInv, Investigation!EndInHand
    <3> QED BY <1>1, <2>2, <3>1, InHandIs, InHandIsNext, EndTyped
  <2> QED BY <2>1, <2>2
<1> QED BY <1>1, <1>2, <1>3, <1>4, <1>5 DEF Investigation!EndInv

\* A start takes the place of a request whose end is in hand.
LEMMA StartNext ==
    ASSUME Investigation!EndInv, Investigation!Start
    PROVE  /\ Investigation!EndInv'
           /\ \A k \in Nat : x1.id = k /\ k # 0 /\ x1'.id # k => (Investigation!InHand(k))'
<1> DEFINE now == Investigation!Expired(x1, x2)  id == Starts - x9.requests + 1
           Free == /\ x3 = "free" /\ ~Investigation!DeliveryBlocksStart(now.s)
                   /\ Len(now.q) <= Investigation!PendingMax - 2 /\ ~now.s.active
<1>1. /\ x9.requests > 0 /\ x9' = [x9 EXCEPT !.requests = @ - 1] /\ x2' = now.q
      /\ UNCHANGED <<x5, x7, x8>>
      /\ IF Free THEN /\ x1' = [Investigation!Empty EXCEPT !.id = id, !.active = TRUE]
                      /\ x4' = id /\ x3' = "kept"
                 ELSE /\ x1' = now.s /\ x4' = x4
                      /\ x3' = IF Investigation!IsExpired(x1) THEN Investigation!Revised ELSE x3
  BY DEF Investigation!Start
<1>2. x9' \in [requests : 0..Starts, chunks : Nat, faults : Nat] /\ id \in Nat \ {0}
  BY <1>1, EndTyped, SMTT(60)
<1>3. CASE ~Free
  <2>1. Investigation!EndInv' /\ x1'.id = x1.id
    BY <1>1, <1>2, <1>3, ExpiryNext
  <2> QED BY <2>1
<1>4. CASE Free
  <2>1. /\ now.s \in Investigation!States /\ x2' \in Seq(Investigation!ChunkSet)
        /\ now.s.id = x1.id /\ \A c : Has(x2, c) => Has(x2', c)
        /\ Investigation!IsExpired(x1) => now.s.replay \/ Has(x2', EndOf(x1.id))
        /\ ~Investigation!IsExpired(x1) => now.s = x1
    BY <1>1, EndTyped, ExpiredOf
  <2>2. x3 = "free" /\ ~now.s.emitting /\ ~now.s.replay /\ ~now.s.active
    BY <1>4 DEF Investigation!DeliveryBlocksStart
  <2> HIDE DEF now, id
  <2>3. /\ x1' \in Investigation!States /\ x1'.id = id /\ x1'.active /\ ~x1'.ended
    BY <1>1, <1>2, <1>4 DEF Investigation!Empty, Investigation!States
  <2>4. x5.kind # "end"
    <3> SUFFICES ASSUME x5.kind = "end" PROVE FALSE
      OBVIOUS
    <3>1. x1.ended /\ x1.emitting
      BY DEF Investigation!EndInv, Investigation!PhaseInv
    <3>2. ~Investigation!IsExpired(x1)
      BY <3>1 DEF Investigation!IsExpired
    <3> QED BY <2>1, <2>2, <3>1, <3>2
  <2>5. Investigation!TypedInv'
    BY <1>1, <1>2, <1>4, <2>1, <2>3 DEF Investigation!EndInv, Investigation!TypedInv
  <2>6. Investigation!PhaseInv'
    BY <1>1, <1>2, <2>3, <2>4 DEF Investigation!EndInv, Investigation!PhaseInv
  <2>7. Investigation!FenceInv'
    BY <1>1, <1>2, <1>4, <2>3 DEF Investigation!FenceInv
  <2>8. Investigation!EndInHand'
    BY <2>3 DEF Investigation!EndInHand
  <2>9. ASSUME NEW k \in Nat, x1.id = k, k # 0 PROVE (Investigation!InHand(k))'
    <3>1. x2' \in Seq(Investigation!ChunkSet) /\ x8' = x8 /\ x5' = x5
      BY <1>1, <2>1
    <3>2. CASE Investigation!IsExpired(x1)
      <4>1. Has(x2', EndOf(k))
        BY <2>1, <2>2, <2>9, <3>2
      <4> QED BY <3>1, <4>1, InHandIsNext
    <3>3. CASE ~Investigation!IsExpired(x1)
      <4>1. x1.ended /\ ~x1.replay
        BY <2>1, <2>2, <2>9, <3>3 DEF Investigation!EndInv, Investigation!PhaseInv
      <4>2. Investigation!InHand(k)
        BY <2>9, <4>1 DEF Investigation!EndInv, Investigation!EndInHand
      <4>3. k \in x8 \/ Has(x2, EndOf(k)) \/ x5 = EndOf(k)
        BY <4>1, <4>2, <2>9, InHandIs, EndTyped
      <4>4. k \in x8' \/ Has(x2', EndOf(k)) \/ x5' = EndOf(k)
        BY <2>1, <3>1, <4>3
      <4> QED BY <3>1, <4>4, InHandIsNext
    <3> QED BY <3>2, <3>3
  <2> QED BY <2>5, <2>6, <2>7, <2>8, <2>9 DEF Investigation!EndInv
<1> QED BY <1>3, <1>4

LEMMA StartSentNext ==
    ASSUME Investigation!EndInv, Investigation!StartSent
    PROVE  /\ Investigation!EndInv'
           /\ x1'.id # x1.id => x1.id = x4
<1>1. /\ x4 # 0 /\ x4' = 0 /\ x3' = "free" /\ UNCHANGED <<x2, x5, x7, x8, x9>>
      /\ x1' = x1 \/ (x3 = "kept" /\ x1' = Investigation!Empty)
  BY DEF Investigation!StartSent
<1>2. CASE x1' = x1
  BY <1>1, <1>2 DEF Investigation!EndInv, Investigation!TypedInv, Investigation!PhaseInv,
     Investigation!FenceInv, Investigation!EndInHand, Investigation!InHand
<1>3. CASE x3 = "kept" /\ x1' = Investigation!Empty
  <2>1. x1.id = x4 /\ x1.active /\ ~x1.ended
    BY <1>1, <1>3, EndTyped DEF Investigation!EndInv, Investigation!FenceInv, Investigation!PhaseInv
  <2>2. x1' \in Investigation!States /\ x1'.id = 0 /\ ~x1'.active /\ ~x1'.ended
    BY <1>3 DEF Investigation!Empty, Investigation!States
  <2>3. x5.kind # "end"
    BY <2>1 DEF Investigation!EndInv, Investigation!PhaseInv
  <2> QED BY <1>1, <2>1, <2>2, <2>3 DEF Investigation!EndInv, Investigation!TypedInv,
          Investigation!PhaseInv, Investigation!FenceInv, Investigation!EndInHand
<1> QED BY <1>1, <1>2, <1>3

LEMMA AcceptNext ==
    ASSUME Investigation!EndInv, Investigation!Accept
    PROVE  Investigation!EndInv' /\ x1'.id = x1.id
<1> DEFINE now == Investigation!Expired(x1, x2)
<1>1. /\ x5 = Investigation!NoChunk /\ x9.chunks > 0 /\ x9' = [x9 EXCEPT !.chunks = @ - 1]
      /\ UNCHANGED <<x4, x6, x7, x8>>
  BY DEF Investigation!Accept
<1>2. x9' \in [requests : 0..Starts, chunks : Nat, faults : Nat]
  BY <1>1, EndTyped
<1>3. PICK id \in 1..(Starts - x9.requests), kind \in {"begin", "progress", "end"} :
        LET chunk == Investigation!Chunk(kind, id)
            s == [now.s EXCEPT !.begun = TRUE,
                     !.ended = kind = "end", !.active = kind # "end",
                     !.late = IF kind = "end" THEN FALSE ELSE @] IN
        IF ~Investigation!IsValid(now.s, chunk)
        THEN /\ x1' = now.s /\ x2' = now.q /\ x5' = x5
             /\ x3' = IF Investigation!IsExpired(x1) THEN Investigation!Revised ELSE x3
        ELSE /\ x3' = Investigation!Revised
             /\ IF kind = "end" /\ s.degraded
                THEN LET secured == Investigation!Secured(Investigation!Replayed(s), now.q) IN
                     x1' = secured.s /\ x2' = secured.q /\ x5' = x5
                ELSE /\ x1' = [s EXCEPT !.emitting = kind = "end"]
                     /\ x2' = now.q /\ x5' = chunk
  BY DEF Investigation!Accept
<1> DEFINE chunk == Investigation!Chunk(kind, id)
           s == [now.s EXCEPT !.begun = TRUE,
                    !.ended = kind = "end", !.active = kind # "end",
                    !.late = IF kind = "end" THEN FALSE ELSE @]
<1>4. CASE ~Investigation!IsValid(now.s, chunk)
  <2>1. /\ x1' = now.s /\ x2' = now.q /\ x5' = x5
        /\ x3' = IF Investigation!IsExpired(x1) THEN Investigation!Revised ELSE x3
    BY <1>3, <1>4
  <2> QED BY <1>1, <1>2, <2>1, ExpiryNext
<1>5. CASE Investigation!IsValid(now.s, chunk)
  <2>1. /\ now.s \in Investigation!States
        /\ Investigation!IsExpired(x1) => ~now.s.active
        /\ ~Investigation!IsExpired(x1) => now.s = x1 /\ now.q = x2
    BY EndTyped, ExpiredOf
  <2>2. now.s.active /\ id = now.s.id /\ chunk.id = id /\ chunk.kind = kind
    BY <1>5 DEF Investigation!IsValid, Investigation!Chunk
  <2>3. now.s = x1 /\ now.q = x2 /\ x1.active /\ x1.id = id
    BY <2>1, <2>2
  <2>4. id \in Nat \ {0} /\ chunk \in Investigation!ChunkSet
    BY EndTyped DEF Investigation!ChunkSet, Investigation!Chunk
  <2>5. /\ s \in Investigation!States /\ s.id = id
        /\ s.active = (kind # "end") /\ s.ended = (kind = "end")
    BY <2>1, <2>3, <2>4 DEF Investigation!States
  <2>6. /\ x3' = Investigation!Revised
        /\ IF kind = "end" /\ s.degraded
           THEN LET secured == Investigation!Secured(Investigation!Replayed(s), x2) IN
                x1' = secured.s /\ x2' = secured.q /\ x5' = x5
           ELSE /\ x1' = [s EXCEPT !.emitting = kind = "end"]
                /\ x2' = x2 /\ x5' = chunk
    BY <1>3, <1>5, <2>3
  <2> HIDE DEF now, s
  <2>7. Investigation!FenceInv'
    BY <1>1, <2>6 DEF Investigation!EndInv, Investigation!FenceInv, Investigation!Revised
  <2>8. x7 \notin {"uart", "uart_failed"}
    BY <1>1 DEF Investigation!EndInv, Investigation!PhaseInv
  <2>9. CASE kind = "end" /\ s.degraded
    <3> DEFINE u == Investigation!Replayed(s)
    <3>1. u \in Investigation!States /\ u.id = id /\ ~u.active /\ u.ended /\ u.replay
      BY <2>5, <2>9 DEF Investigation!Replayed, Investigation!States
    <3>2. x1' = Investigation!Secured(u, x2).s /\ x2' = Investigation!Secured(u, x2).q /\ x5' = x5
      BY <2>6, <2>9
    <3> HIDE DEF u
    <3>3. /\ x1' \in Investigation!States /\ x2' \in Seq(Investigation!ChunkSet)
          /\ x1'.id = id /\ ~x1'.active /\ x1'.ended
          /\ x1'.replay \/ Has(x2', EndOf(id))
      BY <3>1, <3>2, EndTyped, SecuredOf
    <3>4. Investigation!TypedInv'
      BY <1>1, <1>2, <3>2, <3>3 DEF Investigation!EndInv, Investigation!TypedInv
    <3>5. x5.kind = "none"
      BY <1>1 DEF Investigation!NoChunk, Investigation!Chunk
    <3>6. Investigation!PhaseInv'
      BY <1>1, <2>4, <2>8, <3>2, <3>3, <3>5 DEF Investigation!PhaseInv
    <3>7. Investigation!EndInHand'
      BY <3>3, InHandIsNext DEF Investigation!EndInHand
    <3> QED BY <2>3, <2>7, <3>3, <3>4, <3>6, <3>7 DEF Investigation!EndInv
  <2>10. CASE ~(kind = "end" /\ s.degraded)
    <3> DEFINE b == kind = "end"
    <3>1. x1' = [s EXCEPT !.emitting = b] /\ x2' = x2 /\ x5' = chunk /\ b \in BOOLEAN
      BY <2>6, <2>10
    <3>2. /\ x1' \in Investigation!States /\ x1'.id = id /\ x1'.emitting = b
          /\ x1'.active = s.active /\ x1'.ended = s.ended
      <4> HIDE DEF b
      <4> QED BY <2>5, <3>1 DEF Investigation!States
    <3>3. Investigation!TypedInv'
      BY <1>1, <1>2, <2>4, <3>1, <3>2 DEF Investigation!EndInv, Investigation!TypedInv
    <3>4. Investigation!PhaseInv'
      BY <1>1, <2>2, <2>4, <2>5, <2>8, <3>1, <3>2 DEF Investigation!PhaseInv
    <3>5. Investigation!EndInHand'
      BY <2>5, <3>1, <3>2 DEF Investigation!EndInHand, Investigation!InHand
    <3> QED BY <2>3, <2>7, <3>2, <3>3, <3>4, <3>5 DEF Investigation!EndInv
  <2> QED BY <2>9, <2>10
<1> QED BY <1>4, <1>5

LEMMA EmitNext ==
    ASSUME Investigation!EndInv, Investigation!Emit
    PROVE  Investigation!EndInv' /\ x1'.id = x1.id
<1>1. /\ x5 # Investigation!NoChunk /\ UNCHANGED <<x1, x2, x3, x4, x5>>
      /\ \E ok \in BOOLEAN : Investigation!Write(x5, ok) /\ x7' = IF ok THEN "uart" ELSE "uart_failed"
  BY DEF Investigation!Emit
<1>2. /\ x7' = "uart" => (x5.kind = "end" => x5.id \in x8')
      /\ x8 \subseteq x8' /\ x7' \in {"uart", "uart_failed"}
      /\ x9' \in [requests : 0..Starts, chunks : Nat, faults : Nat]
  BY <1>1, EndTyped DEF Investigation!Write
<1>3. Investigation!TypedInv' /\ Investigation!PhaseInv' /\ Investigation!FenceInv'
  BY <1>1, <1>2 DEF Investigation!EndInv, Investigation!TypedInv, Investigation!PhaseInv,
     Investigation!FenceInv
<1>4. Investigation!EndInHand'
  BY <1>1, <1>2 DEF Investigation!EndInv, Investigation!EndInHand, Investigation!InHand
<1> QED BY <1>1, <1>3, <1>4 DEF Investigation!EndInv

LEMMA FinishEmitNext ==
    ASSUME Investigation!EndInv, Investigation!FinishEmit
    PROVE  Investigation!EndInv' /\ x1'.id = x1.id
<1> DEFINE failed == x7 = "uart_failed"  end == x5.kind = "end"
           s == [x1 EXCEPT !.degraded = IF end THEN failed ELSE @ \/ failed,
                           !.emitting = IF end THEN FALSE ELSE @,
                           !.replay = IF end THEN failed ELSE @]
<1>1. /\ x7 \in {"uart", "uart_failed"} /\ x7' = "free" /\ x5' = Investigation!NoChunk
      /\ UNCHANGED <<x3, x4, x6, x8, x9>>
      /\ IF x1.id # x5.id \/ (end /\ ~(x1.ended /\ x1.emitting))
         THEN UNCHANGED <<x1, x2>>
         ELSE LET secured == IF end /\ failed THEN Investigation!Secured(s, x2)
                             ELSE [s |-> s, q |-> x2] IN
              x1' = secured.s /\ x2' = secured.q
  BY DEF Investigation!FinishEmit
<1>2. /\ x5' \in Investigation!ChunkSet /\ x5'.kind = "none"
      /\ end => x1.id = x5.id /\ x1.ended /\ x1.emitting
      /\ end /\ ~failed => x5.id \in x8
  BY <1>1 DEF Investigation!EndInv, Investigation!PhaseInv, Investigation!NoChunk,
     Investigation!Chunk, Investigation!ChunkSet
<1>3. ASSUME x1.ended, ~end PROVE x1.id \in x8 \/ Has(x2, EndOf(x1.id)) \/ x1.replay
  <2>1. x5 # EndOf(x1.id)
    BY <1>3 DEF EndOf, Investigation!Chunk
  <2> QED BY <1>3, <2>1, InHandIs, EndTyped DEF Investigation!EndInv, Investigation!EndInHand
<1>4. ASSUME x1' \in Investigation!States, x2' \in Seq(Investigation!ChunkSet), x1'.id = x1.id,
             x1'.active = x1.active, x1'.ended = x1.ended,
             x1.ended => x1.id \in x8 \/ Has(x2', EndOf(x1.id)) \/ x1'.replay
      PROVE  Investigation!EndInv'
  <2>1. Investigation!TypedInv'
    BY <1>1, <1>2, <1>4 DEF Investigation!EndInv, Investigation!TypedInv
  <2>2. Investigation!PhaseInv'
    BY <1>1, <1>2, <1>4 DEF Investigation!EndInv, Investigation!PhaseInv
  <2>3. Investigation!FenceInv'
    BY <1>1, <1>4 DEF Investigation!EndInv, Investigation!FenceInv
  <2>4. Investigation!EndInHand'
    BY <1>1, <1>4, InHandIsNext DEF Investigation!EndInHand
  <2> QED BY <2>1, <2>2, <2>3, <2>4 DEF Investigation!EndInv
<1>5. CASE x1.id # x5.id \/ (end /\ ~(x1.ended /\ x1.emitting))
  <2>1. UNCHANGED <<x1, x2>> /\ ~end
    BY <1>1, <1>2, <1>5
  <2> HIDE DEF end
  <2> QED BY <1>3, <1>4, <2>1, EndTyped
<1>6. CASE ~(x1.id # x5.id \/ (end /\ ~(x1.ended /\ x1.emitting)))
  <2>1. /\ failed \in BOOLEAN /\ end \in BOOLEAN
    OBVIOUS
  <2>2. /\ s \in Investigation!States /\ s.id = x1.id /\ s.active = x1.active /\ s.ended = x1.ended
        /\ s.replay = IF end THEN failed ELSE x1.replay
    <3> HIDE DEF end, failed
    <3> QED BY <2>1, EndTyped, ZenonT(60) DEF Investigation!States
  <2> HIDE DEF s
  <2>3. CASE end /\ failed
    <3>1. x1' = Investigation!Secured(s, x2).s /\ x2' = Investigation!Secured(s, x2).q
      BY <1>1, <1>6, <2>3
    <3>2. /\ x1' \in Investigation!States /\ x2' \in Seq(Investigation!ChunkSet)
          /\ x1'.id = s.id /\ x1'.active = s.active /\ x1'.ended = s.ended
          /\ x1'.replay \/ Has(x2', EndOf(s.id))
      BY <2>2, <2>3, <3>1, SecuredOf, EndTyped
    <3> QED BY <1>4, <2>2, <3>2
  <2>4. CASE ~(end /\ failed)
    <3>1. x1' = s /\ x2' = x2
      BY <1>1, <1>6, <2>4
    <3>2. end => x1.id \in x8
      BY <1>2, <1>6, <2>4
    <3> HIDE DEF end, failed
    <3> QED BY <1>3, <1>4, <2>2, <3>1, <3>2, EndTyped
  <2> QED BY <2>3, <2>4
<1> QED BY <1>5, <1>6

LEMMA PollStepNext ==
    ASSUME Investigation!EndInv, Investigation!PollStep
    PROVE  Investigation!EndInv' /\ x1'.id = x1.id
<1> DEFINE t == Investigation!Secured(x1, x2).s  p == Investigation!Secured(x1, x2).q
           u == Investigation!Expired(t, p).s  q == Investigation!Expired(t, p).q
<1>1. /\ x7 = "display" /\ UNCHANGED <<x4, x5>> /\ x1' = u
      /\ x3' = IF Investigation!IsExpired(t) THEN Investigation!Revised ELSE x3
      /\ IF q = <<>>
         THEN x2' = q /\ x6' = 0 /\ x7' = "free" /\ UNCHANGED <<x8, x9>>
         ELSE \E ok \in BOOLEAN :
              /\ Investigation!Write(Head(q), ok)
              /\ x2' = IF ok THEN Tail(q) ELSE q
              /\ x6' = IF ok THEN x6 - 1 ELSE 0
              /\ x7' = IF x6' = 0 THEN "free" ELSE x7
  BY DEF Investigation!PollStep
<1>2. /\ t \in Investigation!States /\ p \in Seq(Investigation!ChunkSet)
      /\ t.id = x1.id /\ t.active = x1.active /\ t.ended = x1.ended
      /\ \A c : Has(x2, c) => Has(p, c)
      /\ x1.replay => t.replay \/ Has(p, EndOf(x1.id))
      /\ t.emitting = x1.emitting
  BY EndTyped, SecuredOf
<1> HIDE DEF t, p
<1>3. /\ u \in Investigation!States /\ q \in Seq(Investigation!ChunkSet) /\ u.id = x1.id
      /\ \A c : Has(p, c) => Has(q, c)
      /\ Investigation!IsExpired(t) =>
           /\ t.active /\ ~t.ended
           /\ u.ended /\ ~u.active /\ (u.replay \/ Has(q, EndOf(t.id)))
      /\ ~Investigation!IsExpired(t) => u = t /\ q = p
  BY <1>2, ExpiredOf
<1> HIDE DEF u, q
<1>4. u.ended => \/ x1.id \in x8 \/ Has(q, EndOf(x1.id)) \/ x5 = EndOf(x1.id) \/ u.replay
  <2>1. CASE Investigation!IsExpired(t)
    BY <1>2, <1>3, <2>1
  <2>2. CASE ~Investigation!IsExpired(t)
    <3>1. u.ended => Investigation!InHand(x1.id)
      BY <1>2, <1>3, <2>2 DEF Investigation!EndInv, Investigation!EndInHand
    <3> QED BY <1>2, <1>3, <2>2, <3>1, InHandIs, EndTyped
  <2> QED BY <2>1, <2>2
<1>5. /\ x2' \in Seq(Investigation!ChunkSet) /\ x8 \subseteq x8'
      /\ x9' \in [requests : 0..Starts, chunks : Nat, faults : Nat]
      /\ x7' \notin {"uart", "uart_failed"}
      /\ \A id : Has(q, EndOf(id)) => Has(x2', EndOf(id)) \/ id \in x8'
  <2>1. CASE q = <<>>
    BY <1>1, <1>3, <2>1, EndTyped
  <2>2. CASE q # <<>>
    <3>1. PICK ok \in BOOLEAN :
              /\ Investigation!Write(Head(q), ok)
              /\ x2' = IF ok THEN Tail(q) ELSE q
              /\ x7' = "free" \/ x7' = x7
      BY <1>1, <2>2
    <3>2. /\ Tail(q) \in Seq(Investigation!ChunkSet)
          /\ \A c : Has(q, c) => Has(Tail(q), c) \/ c = Head(q)
      BY <1>3, <2>2, QueueTail
    <3>3. /\ x8 \subseteq x8' /\ x9' \in [requests : 0..Starts, chunks : Nat, faults : Nat]
          /\ ok /\ Head(q).kind = "end" => Head(q).id \in x8'
      BY <3>1, EndTyped DEF Investigation!Write
    <3>4. ASSUME NEW id, EndOf(id) = Head(q), ok PROVE id \in x8'
      BY <3>3, <3>4 DEF EndOf, Investigation!Chunk
    <3> QED BY <1>1, <1>3, <3>1, <3>2, <3>3, <3>4
  <2> QED BY <2>1, <2>2
<1>6. Investigation!TypedInv'
  BY <1>1, <1>3, <1>5 DEF Investigation!EndInv, Investigation!TypedInv
<1>7. Investigation!PhaseInv'
  <2>1. /\ x1'.id = 0 => ~x1'.active /\ ~x1'.ended
        /\ x1'.id # 0 => x1'.active \/ x1'.ended
        /\ ~(x1'.active /\ x1'.ended)
    BY <1>1, <1>2, <1>3, EndTyped DEF Investigation!EndInv, Investigation!PhaseInv
  <2>2. x5.kind = "end" => x1'.id = x5.id /\ x1'.ended /\ x1'.emitting
    BY <1>1, <1>2, <1>3 DEF Investigation!EndInv, Investigation!PhaseInv
  <2> QED BY <1>1, <1>5, <2>1, <2>2 DEF Investigation!PhaseInv
<1>8. Investigation!FenceInv'
  BY <1>1, <1>2, <1>3 DEF Investigation!EndInv, Investigation!FenceInv, Investigation!Revised
<1>9. Investigation!EndInHand'
  BY <1>1, <1>3, <1>4, <1>5, InHandIsNext DEF Investigation!EndInHand
<1> QED BY <1>1, <1>3, <1>6, <1>7, <1>8, <1>9 DEF Investigation!EndInv

LEMMA InvestigationNext ==
    ASSUME Investigation!EndInv, [Investigation!Next]_(Investigation!vars)
    PROVE  Investigation!EndInv' /\ Investigation!EndLeftBehind
<1>1. ASSUME Investigation!EndInv', x1'.id = x1.id
      PROVE  Investigation!EndInv' /\ Investigation!EndLeftBehind
  BY <1>1 DEF Investigation!EndLeftBehind
<1>2. CASE Investigation!Start
  <2>1. /\ Investigation!EndInv'
        /\ \A k \in Nat : x1.id = k /\ k # 0 /\ x1'.id # k => (Investigation!InHand(k))'
    BY <1>2, StartNext
  <2>2. ASSUME NEW id \in 1..Starts, x1.id = id, x1'.id # id PROVE (Investigation!InHand(id))'
    <3>1. id \in Nat /\ id # 0
      BY <2>2, EndTyped, InvestigationAssumption
    <3> QED BY <2>1, <2>2, <3>1
  <2> QED BY <2>1, <2>2 DEF Investigation!EndLeftBehind
<1>3. CASE Investigation!StartSent
  BY <1>3, StartSentNext DEF Investigation!EndLeftBehind
<1>4. CASE Investigation!Status
  <2>1. x9' = x9 /\ UNCHANGED <<x4, x5, x7, x8>>
    BY <1>4 DEF Investigation!Status
  <2>2. /\ x1' = Investigation!Expired(x1, x2).s /\ x2' = Investigation!Expired(x1, x2).q
        /\ x3' = IF Investigation!IsExpired(x1) THEN Investigation!Revised ELSE x3
    BY <1>4 DEF Investigation!Status
  <2> QED BY <1>1, <2>1, <2>2, ExpiryNext, EndTyped
<1>5. CASE Investigation!PollBegins
  <2>1. UNCHANGED <<x1, x2, x3, x4, x5, x8, x9>> /\ x7' = "display"
    BY <1>5 DEF Investigation!PollBegins
  <2> QED BY <1>1, <2>1 DEF Investigation!EndInv, Investigation!TypedInv, Investigation!PhaseInv,
          Investigation!FenceInv, Investigation!EndInHand, Investigation!InHand
<1>6. CASE Investigation!Deadline
  <2>1. UNCHANGED <<x2, x3, x4, x5, x7, x8, x9>> /\ x1' = [x1 EXCEPT !.late = TRUE]
    BY <1>6 DEF Investigation!Deadline
  <2>2. /\ x1' \in Investigation!States /\ x1'.id = x1.id /\ x1'.active = x1.active
        /\ x1'.ended = x1.ended /\ x1'.emitting = x1.emitting /\ x1'.replay = x1.replay
    BY <2>1, EndTyped DEF Investigation!States
  <2> QED BY <1>1, <2>1, <2>2 DEF Investigation!EndInv, Investigation!TypedInv, Investigation!PhaseInv,
          Investigation!FenceInv, Investigation!EndInHand, Investigation!InHand
<1>7. CASE UNCHANGED Investigation!vars
  <2>1. UNCHANGED <<x1, x2, x3, x4, x5, x7, x8, x9>>
    BY <1>7 DEF Investigation!vars
  <2> QED BY <1>1, <2>1 DEF Investigation!EndInv, Investigation!TypedInv, Investigation!PhaseInv,
          Investigation!FenceInv, Investigation!EndInHand, Investigation!InHand
<1> QED BY <1>1, <1>2, <1>3, <1>4, <1>5, <1>6, <1>7, AcceptNext, EmitNext, FinishEmitNext,
        PollStepNext DEF Investigation!Next

-----------------------------------------------------------------------------
(* An investigation on the scanner (InvestigationScanner): x1 core,        *)
(* x2 fence, x4 todo, x5 mutex, x7 link, x8 events, x9 proc, x12 begun,    *)
(* x13 ended.  A step is quiet (it takes no part in the clean-up), the     *)
(* mutex holder's, or one of a launch, and each kind has a lemma.          *)

\* What a task has to do: nothing, one step, or one step and the launch after it.
TodoOf(task) ==
    /\ Len(x4[task]) \in 0..2 /\ (Len(x4[task]) = 0 <=> x4[task] = <<>>)
    /\ x4[task] # <<>> =>
         /\ Head(x4[task])[1] \in Investigator!Commanding /\ Head(x4[task])[2] \in 0..x2.gen
         /\ Head(x4[task]) = <<Head(x4[task])[1], Head(x4[task])[2]>>
         /\ task = "host" => Head(x4[task])[1] \in Investigator!Working
    /\ Len(x4[task]) = 1 => Tail(x4[task]) = <<>>
    /\ Len(x4[task]) = 2 => /\ task = "cmd" /\ Head(x4[task])[1] \in {"pause", "cleanup"}
                            /\ Tail(x4[task]) = <<Investigator!Step("launch", x2.gen)>>

LEMMA OneStep ==
    ASSUME NEW s
    PROVE  /\ <<s>> # <<>> /\ Len(<<s>>) = 1 /\ Head(<<s>>) = s /\ Tail(<<s>>) = <<>>
           /\ \A t : /\ Len(<<s, t>>) = 2 /\ Head(<<s, t>>) = s /\ Tail(<<s, t>>) = <<t>> /\ <<s, t>> # <<>>
<1>1. /\ <<s>> # <<>> /\ Len(<<s>>) = 1 /\ Head(<<s>>) = s /\ Tail(<<s>>) = <<>>
  OBVIOUS
<1>2. \A t : /\ Len(<<s, t>>) = 2 /\ Head(<<s, t>>) = s /\ Tail(<<s, t>>) = <<t>> /\ <<s, t>> # <<>>
  OBVIOUS
<1> QED BY <1>1, <1>2

LEMMA JoinedSteps ==
    ASSUME NEW s, NEW t
    PROVE  <<s>> \o <<t>> = <<s, t>> /\ <<s>> \o <<>> = <<s>> /\ <<>> \o <<s>> = <<s>>
<1>1. <<s>> \in Seq({s, t}) /\ <<t>> \in Seq({s, t})
  OBVIOUS
<1>2. <<s>> \o <<>> = <<s>> /\ <<>> \o <<s>> = <<s>>
  BY <1>1, ConcatEmptySeq
<1>3. <<s>> \o <<t>> = <<s, t>>
  <2>1. Append(<<s>>, t) = <<s>> \o <<t>>
    BY <1>1, AppendIsConcat
  <2>2. Append(<<s>>, t) = <<s, t>>
    <3>1. /\ Append(<<s>>, t) \in Seq({s, t}) /\ Len(Append(<<s>>, t)) = Len(<<s>>) + 1
          /\ \A i \in 1..Len(<<s>>) : Append(<<s>>, t)[i] = <<s>>[i]
          /\ Append(<<s>>, t)[Len(<<s>>) + 1] = t
      BY <1>1, AppendProperties
    <3>2. <<s, t>> \in Seq({s, t}) /\ Len(<<s, t>>) = 2 /\ <<s, t>>[1] = s /\ <<s, t>>[2] = t
      OBVIOUS
    <3>3. Len(<<s>>) = 1 /\ <<s>>[1] = s
      OBVIOUS
    <3>4. \A i \in 1..2 : Append(<<s>>, t)[i] = <<s, t>>[i]
      BY <3>1, <3>2, <3>3
    <3>5. Len(Append(<<s>>, t)) = 2
      BY <3>1, <3>3
    <3> DEFINE a == Append(<<s>>, t)
               b == <<s, t>>
    <3>6. a \in Seq({s, t}) /\ b \in Seq({s, t}) /\ Len(a) = Len(b) /\ \A i \in 1..Len(a) : a[i] = b[i]
      BY <3>1, <3>2, <3>4, <3>5
    <3> HIDE DEF a, b
    <3>7. a = b
      BY <3>6, SeqEqual
    <3> QED BY <3>7 DEF a, b
  <2> QED BY <2>1, <2>2
<1> QED BY <1>2, <1>3

LEMMA PairOf ==
    ASSUME NEW A, NEW B, NEW s \in A \X B
    PROVE  s[1] \in A /\ s[2] \in B /\ s = <<s[1], s[2]>>
OBVIOUS

LEMMA TodoCmd == Investigator!ShapeInv => TodoOf("cmd")
<1> SUFFICES ASSUME Investigator!ShapeInv PROVE TodoOf("cmd")
  OBVIOUS
<1>0. \/ x4["cmd"] = <<>> \/ \E s \in Investigator!Commanding \X (0..x2.gen) : x4["cmd"] = <<s>>
      \/ \E s \in {"pause", "cleanup"} \X (0..x2.gen) :
           x4["cmd"] = <<s, Investigator!Step("launch", x2.gen)>>
  BY DEF Investigator!ShapeInv
<1>1. CASE x4["cmd"] = <<>>
  <2>1. Len(x4["cmd"]) = 0
    BY <1>1
  <2> QED BY <1>1, <2>1 DEF TodoOf
<1>2. CASE \E s \in Investigator!Commanding \X (0..x2.gen) : x4["cmd"] = <<s>>
  <2>1. PICK s \in Investigator!Commanding \X (0..x2.gen) : x4["cmd"] = <<s>>
    BY <1>2
  <2>2. s[1] \in Investigator!Commanding /\ s[2] \in 0..x2.gen /\ s = <<s[1], s[2]>>
    BY PairOf
  <2>3. Len(x4["cmd"]) = 1 /\ Head(x4["cmd"]) = s /\ Tail(x4["cmd"]) = <<>> /\ x4["cmd"] # <<>>
    BY <2>1, OneStep
  <2> QED BY <2>2, <2>3 DEF TodoOf
<1>3. CASE \E s \in {"pause", "cleanup"} \X (0..x2.gen) :
             x4["cmd"] = <<s, Investigator!Step("launch", x2.gen)>>
  <2>1. PICK s \in {"pause", "cleanup"} \X (0..x2.gen) :
          x4["cmd"] = <<s, Investigator!Step("launch", x2.gen)>>
    BY <1>3
  <2>2. s[1] \in {"pause", "cleanup"} /\ s[2] \in 0..x2.gen /\ s = <<s[1], s[2]>>
    BY PairOf
  <2>3. /\ Len(x4["cmd"]) = 2 /\ Head(x4["cmd"]) = s /\ x4["cmd"] # <<>>
        /\ Tail(x4["cmd"]) = <<Investigator!Step("launch", x2.gen)>>
    BY <2>1, OneStep
  <2>4. {"pause", "cleanup"} \subseteq Investigator!Commanding
    BY DEF Investigator!Commanding, Investigator!Working
  <2> QED BY <2>2, <2>3, <2>4 DEF TodoOf
<1> QED BY <1>0, <1>1, <1>2, <1>3

LEMMA TodoHost == Investigator!ShapeInv => TodoOf("host")
<1> SUFFICES ASSUME Investigator!ShapeInv PROVE TodoOf("host")
  OBVIOUS
<1>0. x4["host"] = <<>> \/ \E s \in Investigator!Working \X (0..x2.gen) : x4["host"] = <<s>>
  BY DEF Investigator!ShapeInv
<1>1. CASE x4["host"] = <<>>
  <2>1. Len(x4["host"]) = 0
    BY <1>1
  <2> QED BY <1>1, <2>1 DEF TodoOf
<1>2. CASE \E s \in Investigator!Working \X (0..x2.gen) : x4["host"] = <<s>>
  <2>1. PICK s \in Investigator!Working \X (0..x2.gen) : x4["host"] = <<s>>
    BY <1>2
  <2>2. s[1] \in Investigator!Working /\ s[2] \in 0..x2.gen /\ s = <<s[1], s[2]>>
    BY PairOf
  <2>3. Len(x4["host"]) = 1 /\ Head(x4["host"]) = s /\ Tail(x4["host"]) = <<>> /\ x4["host"] # <<>>
    BY <2>1, OneStep
  <2>4. Investigator!Working \subseteq Investigator!Commanding
    BY DEF Investigator!Commanding
  <2> QED BY <2>2, <2>3, <2>4 DEF TodoOf
<1> QED BY <1>0, <1>1, <1>2

LEMMA TodoAre ==
    ASSUME Investigator!ShapeInv, NEW task \in Investigator!Tasks
    PROVE  TodoOf(task)
BY TodoCmd, TodoHost DEF Investigator!Tasks

\* A step is done, and another takes its place or none.
LEMMA ThenOne ==
    ASSUME Investigator!ShapeInv, NEW task \in Investigator!Tasks, x4[task] # <<>>,
           NEW n, NEW g, Investigator!Then(task, <<Investigator!Step(n, g)>>)
    PROVE  /\ DOMAIN x4' = Investigator!Tasks
           /\ \A t \in Investigator!Tasks : t # task => x4'[t] = x4[t]
           /\ Len(x4[task]) = 1 => x4'[task] = <<Investigator!Step(n, g)>>
           /\ Len(x4[task]) = 2 => x4'[task] = <<Investigator!Step(n, g), Investigator!Step("launch", x2.gen)>>
<1>1. DOMAIN x4 = Investigator!Tasks /\ TodoOf(task)
  BY TodoAre DEF Investigator!ShapeInv
<1>2. x4' = [x4 EXCEPT ![task] = <<Investigator!Step(n, g)>> \o Tail(x4[task])]
  BY <1>1 DEF Investigator!Then
<1>3. /\ DOMAIN x4' = Investigator!Tasks
      /\ \A t \in Investigator!Tasks : t # task => x4'[t] = x4[t]
      /\ x4'[task] = <<Investigator!Step(n, g)>> \o Tail(x4[task])
  BY <1>1, <1>2
<1>4. ASSUME Len(x4[task]) = 1 PROVE x4'[task] = <<Investigator!Step(n, g)>>
  BY <1>1, <1>3, <1>4, JoinedSteps DEF TodoOf
<1>5. ASSUME Len(x4[task]) = 2
      PROVE  x4'[task] = <<Investigator!Step(n, g), Investigator!Step("launch", x2.gen)>>
  BY <1>1, <1>3, <1>5, JoinedSteps DEF TodoOf
<1> QED BY <1>3, <1>4, <1>5

LEMMA ThenNone ==
    ASSUME Investigator!ShapeInv, NEW task \in Investigator!Tasks, x4[task] # <<>>,
           Investigator!Then(task, <<>>)
    PROVE  /\ DOMAIN x4' = Investigator!Tasks
           /\ \A t \in Investigator!Tasks : t # task => x4'[t] = x4[t]
           /\ Len(x4[task]) = 1 => x4'[task] = <<>>
           /\ Len(x4[task]) = 2 => x4'[task] = <<Investigator!Step("launch", x2.gen)>>
<1>1. DOMAIN x4 = Investigator!Tasks /\ TodoOf(task)
  BY TodoAre DEF Investigator!ShapeInv
<1>2. x4' = [x4 EXCEPT ![task] = <<>> \o Tail(x4[task])]
  BY <1>1 DEF Investigator!Then
<1>3. /\ DOMAIN x4' = Investigator!Tasks
      /\ \A t \in Investigator!Tasks : t # task => x4'[t] = x4[t]
      /\ x4'[task] = <<>> \o Tail(x4[task])
  BY <1>1, <1>2
<1>4. ASSUME Len(x4[task]) = 1 PROVE x4'[task] = <<>>
  <2>1. <<>> \o <<>> = <<>>
    OBVIOUS
  <2> QED BY <1>1, <1>3, <1>4, <2>1 DEF TodoOf
<1>5. ASSUME Len(x4[task]) = 2 PROVE  x4'[task] = <<Investigator!Step("launch", x2.gen)>>
  BY <1>1, <1>3, <1>5, JoinedSteps DEF TodoOf
<1> QED BY <1>3, <1>4, <1>5

Calm == {"cleanup", "fail", "discover", "read", "after", "after_error"}
CalmStep(t) == \E s \in Calm \X (0..x2.gen) : x4'[t] = <<s>>
Calmly(t) == x4'[t] = x4[t] \/ (x5 # t /\ (x4'[t] = <<>> \/ CalmStep(t)))

LEMMA CalmNames ==
    /\ Calm \subseteq Investigator!Working /\ Calm \cap Investigator!Cleaning = {}
    /\ \A n \in Calm : n \notin {"pause", "launch", "connected", "refused", "is_down", "absent"}
    /\ Investigator!Working \subseteq Investigator!Commanding
    /\ Investigator!Cleaning \subseteq Investigator!Working
    /\ \A n \in Investigator!Cleaning : n \notin {"pause", "launch", "connected", "refused"}
<1>1. Calm \subseteq Investigator!Working
  BY DEF Calm, Investigator!Working
<1>2. Calm \cap Investigator!Cleaning = {}
  BY DEF Calm, Investigator!Cleaning
<1>3. \A n \in Calm : n \notin {"pause", "launch", "connected", "refused", "is_down", "absent"}
  BY DEF Calm
<1>4. Investigator!Working \subseteq Investigator!Commanding /\ Investigator!Cleaning \subseteq Investigator!Working
  BY DEF Investigator!Commanding, Investigator!Working
<1>5. \A n \in Investigator!Cleaning : n \notin {"pause", "launch", "connected", "refused"}
  BY DEF Investigator!Cleaning
<1> QED BY <1>1, <1>2, <1>3, <1>4, <1>5

\* What is known of a calm step.
LEMMA CalmFacts ==
    ASSUME NEW t, CalmStep(t)
    PROVE  /\ x4'[t] # <<>> /\ Len(x4'[t]) = 1 /\ Tail(x4'[t]) = <<>>
           /\ Head(x4'[t])[1] \in Calm /\ Head(x4'[t])[2] \in 0..x2.gen
           /\ x4'[t] = <<Head(x4'[t])>> /\ Head(x4'[t]) \in Calm \X (0..x2.gen)
<1>1. PICK s \in Calm \X (0..x2.gen) : x4'[t] = <<s>>
  BY DEF CalmStep
<1>2. s[1] \in Calm /\ s[2] \in 0..x2.gen
  BY PairOf
<1> QED BY <1>1, <1>2, OneStep

\* The next step of a task that is not one of a launch is all it has to do.
LEMMA Single ==
    ASSUME Investigator!ShapeInv, NEW t \in Investigator!Tasks, x4[t] # <<>>,
           Head(x4[t])[1] \notin {"pause", "cleanup"}
    PROVE  Len(x4[t]) = 1
<1>1. TodoOf(t)
  BY TodoAre
<1>2. Len(x4[t]) \in {0, 1, 2} /\ Len(x4[t]) # 0
  BY <1>1 DEF TodoOf
<1> QED BY <1>1, <1>2 DEF TodoOf

LEMMA NotHolding ==
    ASSUME Investigator!MutexInv, NEW t \in Investigator!Tasks,
           x4[t] = <<>> \/ Head(x4[t])[1] \notin Investigator!Cleaning
    PROVE  x5 # t
BY DEF Investigator!MutexInv

LEMMA NotLaunching ==
    ASSUME Investigator!ShapeInv,
           x4["cmd"] = <<>> \/ Head(x4["cmd"])[1] \notin {"pause", "cleanup", "launch"}
    PROVE  ~Investigator!Launching
<1>1. TodoOf("cmd")
  BY TodoCmd
<1>2. Len(x4["cmd"]) # 2
  BY <1>1 DEF TodoOf
<1>3. ~Investigator!At("cmd", "launch") /\ ~Investigator!At("cmd", "pause")
  BY DEF Investigator!At
<1> QED BY <1>2, <1>3 DEF Investigator!Launching

LEMMA EventsAre ==
    ASSUME Investigator!ShapeInv
    PROVE  /\ x8 \in Seq({"up", "failed", "lost"} \X Nat)
           /\ \A i \in DOMAIN x8 : x8[i][2] \in Nat /\ x8[i][2] <= x2.gen
           /\ x2.gen \in Nat
<1>1. x8 \in Seq({"up", "failed", "lost"} \X Nat)
  BY DEF Investigator!ShapeInv
<1>2. \A i \in DOMAIN x8 : x8[i] \in {"up", "failed", "lost"} \X Nat
  BY <1>1
<1>3. \A i \in DOMAIN x8 : x8[i][2] \in Nat
  BY <1>2
<1>4. \A i \in DOMAIN x8 : x8[i][2] <= x2.gen
  BY DEF Investigator!ShapeInv
<1>5. x2.gen \in Nat
  BY DEF Investigator!ShapeInv, Investigator!FenceSet
<1> QED BY <1>1, <1>3, <1>4, <1>5

\* The event delivered, and what is left to deliver.
LEMMA TailOf ==
    ASSUME NEW S, NEW q \in Seq(S), q # <<>>
    PROVE  /\ Tail(q) \in Seq(S) /\ 1 \in DOMAIN q /\ q[1] = Head(q)
           /\ \A i \in DOMAIN Tail(q) : i + 1 \in DOMAIN q /\ Tail(q)[i] = q[i + 1]
<1>1. Tail(q) \in Seq(S) /\ Len(Tail(q)) = Len(q) - 1 /\ \A i \in 1..Len(Tail(q)) : Tail(q)[i] = q[i + 1]
  BY HeadTailProperties
<1>2. DOMAIN q = 1..Len(q) /\ DOMAIN Tail(q) = 1..Len(Tail(q)) /\ Len(q) \in Nat /\ Len(q) # 0
  BY <1>1
<1>3. q[1] = Head(q)
  OBVIOUS
<1> QED BY <1>1, <1>2, <1>3

LEMMA AppendOf ==
    ASSUME NEW S, NEW q \in Seq(S), NEW e \in S
    PROVE  /\ Append(q, e) \in Seq(S)
           /\ \A i \in DOMAIN Append(q, e) : (i \in DOMAIN q /\ Append(q, e)[i] = q[i]) \/ Append(q, e)[i] = e
<1>1. /\ Append(q, e) \in Seq(S) /\ Len(Append(q, e)) = Len(q) + 1
      /\ \A i \in 1..Len(q) : Append(q, e)[i] = q[i]
      /\ Append(q, e)[Len(q) + 1] = e
  BY AppendProperties
<1>2. DOMAIN q = 1..Len(q) /\ DOMAIN Append(q, e) = 1..Len(Append(q, e)) /\ Len(q) \in Nat
  BY <1>1
<1> QED BY <1>1, <1>2

-----------------------------------------------------------------------------
\* A step that takes no part in the clean-up.

SameFence == /\ x2' \in Investigator!FenceSet /\ x2'.gen = x2.gen /\ x2'.active = x2.active
             /\ x2'.cleanup = x2.cleanup /\ x2'.end = x2.end
QuietTodo == DOMAIN x4' = Investigator!Tasks /\ Calmly("cmd") /\ Calmly("host")
EventsKept == x8' = x8 \/ (x8 # <<>> /\ x8' = Tail(x8))

LEMMA KeptAre ==
    ASSUME Investigator!ShapeInv, EventsKept
    PROVE  /\ x8' \in Seq({"up", "failed", "lost"} \X Nat)
           /\ \A i \in DOMAIN x8' : \E j \in DOMAIN x8 : x8'[i] = x8[j]
<1>1. x8 \in Seq({"up", "failed", "lost"} \X Nat)
  BY EventsAre
<1>2. CASE x8' = x8
  BY <1>1, <1>2
<1>3. CASE x8 # <<>> /\ x8' = Tail(x8)
  BY <1>1, <1>3, TailOf
<1> QED BY <1>2, <1>3 DEF EventsKept

LEMMA QuietShape ==
    ASSUME Investigator!ShapeInv, SameFence, QuietTodo, EventsKept
    PROVE  Investigator!ShapeInv'
<1>1. /\ x2' \in Investigator!FenceSet /\ x2'.gen = x2.gen /\ DOMAIN x4' = Investigator!Tasks
      /\ x8' \in Seq({"up", "failed", "lost"} \X Nat)
  BY KeptAre DEF SameFence, QuietTodo
<1>2. x4'["host"] = <<>> \/ \E s \in Investigator!Working \X (0..x2.gen) : x4'["host"] = <<s>>
  <2>1. x4["host"] = <<>> \/ \E s \in Investigator!Working \X (0..x2.gen) : x4["host"] = <<s>>
    BY DEF Investigator!ShapeInv
  <2>2. CASE x4'["host"] = x4["host"]
    BY <2>1, <2>2
  <2>3. CASE CalmStep("host")
    BY <2>3, CalmNames DEF CalmStep
  <2> QED BY <2>2, <2>3 DEF QuietTodo, Calmly
<1>3. \/ x4'["cmd"] = <<>> \/ \E s \in Investigator!Commanding \X (0..x2.gen) : x4'["cmd"] = <<s>>
      \/ \E s \in {"pause", "cleanup"} \X (0..x2.gen) :
           x4'["cmd"] = <<s, Investigator!Step("launch", x2.gen)>>
  <2>1. \/ x4["cmd"] = <<>> \/ \E s \in Investigator!Commanding \X (0..x2.gen) : x4["cmd"] = <<s>>
        \/ \E s \in {"pause", "cleanup"} \X (0..x2.gen) :
             x4["cmd"] = <<s, Investigator!Step("launch", x2.gen)>>
    BY DEF Investigator!ShapeInv
  <2>2. CASE x4'["cmd"] = x4["cmd"]
    BY <2>1, <2>2
  <2>3. CASE CalmStep("cmd")
    BY <2>3, CalmNames DEF CalmStep
  <2> QED BY <2>2, <2>3 DEF QuietTodo, Calmly
<1>4. x2'.active => x2'.gen # 0
  BY DEF SameFence, Investigator!ShapeInv
<1>5. \A i \in DOMAIN x8' : x8'[i][2] <= x2.gen
  BY KeptAre, EventsAre
<1>6. Investigator!Step("launch", x2.gen) = Investigator!Step("launch", x2'.gen)
  BY <1>1
<1> QED BY <1>1, <1>2, <1>3, <1>4, <1>5, <1>6 DEF Investigator!ShapeInv, Investigator!Step

LEMMA QuietMutex ==
    ASSUME Investigator!MutexInv, SameFence, QuietTodo, x5' = x5
    PROVE  Investigator!MutexInv'
<1>1. x5 \in Investigator!Tasks \cup {"free"}
  BY DEF Investigator!MutexInv
<1>2. ASSUME NEW task \in Investigator!Tasks
      PROVE  /\ x5' = task <=> x4'[task] # <<>> /\ Head(x4'[task])[1] \in Investigator!Cleaning
             /\ x5' = task => Head(x4'[task])[2] = x2'.gen /\ x2'.active /\ x2'.cleanup
  <2>1. /\ x5 = task <=> x4[task] # <<>> /\ Head(x4[task])[1] \in Investigator!Cleaning
        /\ x5 = task => Head(x4[task])[2] = x2.gen /\ x2.active /\ x2.cleanup
    BY <1>2 DEF Investigator!MutexInv, Investigator!GenOf
  <2>2. CASE x4'[task] = x4[task]
    BY <2>1, <2>2 DEF SameFence
  <2>3. CASE x5 # task /\ x4'[task] = <<>>
    BY <2>3
  <2>4. CASE x5 # task /\ CalmStep(task)
    <3>1. Head(x4'[task])[1] \in Calm
      BY <2>4, CalmFacts
    <3>2. Head(x4'[task])[1] \notin Investigator!Cleaning
      BY <3>1, CalmNames
    <3> QED BY <3>2, <2>4
  <2>5. Calmly(task)
    BY <1>2 DEF QuietTodo, Investigator!Tasks
  <2> QED BY <2>2, <2>3, <2>4, <2>5 DEF Calmly
<1> QED BY <1>1, <1>2 DEF Investigator!MutexInv, Investigator!GenOf

LEMMA QuietLink ==
    ASSUME Investigator!ShapeInv, Investigator!LinkInv, SameFence, QuietTodo, EventsKept, x7' = x7,
           x7 # "down" => x2'.radio # "idle", x9' # 0 => x7 = "up"
    PROVE  Investigator!LinkInv'
<1>1. x2'.active = x2.active /\ x2'.gen = x2.gen
  BY DEF SameFence
<1>2. ASSUME x7 # "down" PROVE x2'.active /\ x2'.radio # "idle"
  BY <1>1, <1>2 DEF Investigator!LinkInv
<1>3. ASSUME x7 # "down", NEW i \in DOMAIN x8', x8'[i][2] = x2.gen PROVE x8'[i][1] = "up"
  <2>1. PICK j \in DOMAIN x8 : x8'[i] = x8[j]
    BY <1>3, KeptAre
  <2> QED BY <1>3, <2>1 DEF Investigator!LinkInv
<1>4. ASSUME x7 # "down", NEW task \in Investigator!Tasks, x4'[task] # <<>>,
             Head(x4'[task])[2] = x2.gen
      PROVE  Head(x4'[task])[1] \notin {"is_down", "absent", "refused"}
  <2>1. CASE x4'[task] = x4[task]
    BY <1>4, <2>1 DEF Investigator!LinkInv, Investigator!At, Investigator!GenOf
  <2>2. CASE CalmStep(task)
    <3>1. Head(x4'[task])[1] \in Calm
      BY <2>2, CalmFacts
    <3> QED BY <3>1, CalmNames
  <2>3. Calmly(task)
    BY <1>4 DEF QuietTodo, Investigator!Tasks
  <2> QED BY <1>4, <2>1, <2>2, <2>3 DEF Calmly
<1>5. x7 \in {"down", "connecting", "up"}
  BY DEF Investigator!LinkInv
<1> QED BY <1>1, <1>2, <1>3, <1>4, <1>5 DEF Investigator!LinkInv, Investigator!At, Investigator!GenOf

LEMMA QuietLaunch ==
    ASSUME Investigator!ShapeInv, Investigator!LaunchInv, SameFence, QuietTodo, EventsKept, x7' = x7,
           Investigator!Launching /\ x4'["cmd"] = x4["cmd"] =>
             /\ x2'.radio = x2.radio
             /\ x1' = x1 \/ x1' = [x1 EXCEPT !.late = TRUE]
             /\ x4'["host"] # <<>> => Head(x4'["host"])[2] # x2.gen
    PROVE  Investigator!LaunchInv'
<1> SUFFICES ASSUME Investigator!Launching' PROVE Investigator!LaunchInv'
  BY DEF Investigator!LaunchInv
<1>1. ~CalmStep("cmd")
  <2> SUFFICES ASSUME CalmStep("cmd") PROVE FALSE
    OBVIOUS
  <2>1. Len(x4'["cmd"]) = 1 /\ Head(x4'["cmd"])[1] \in Calm
    BY CalmFacts
  <2>2. Head(x4'["cmd"])[1] \notin {"pause", "launch"}
    BY <2>1, CalmNames
  <2> QED BY <2>1, <2>2 DEF Investigator!Launching, Investigator!At
<1>2. x4'["cmd"] # <<>>
  <2> SUFFICES ASSUME x4'["cmd"] = <<>> PROVE FALSE
    OBVIOUS
  <2>1. Len(x4'["cmd"]) = 0
    OBVIOUS
  <2> QED BY <2>1 DEF Investigator!Launching, Investigator!At
<1>3. x4'["cmd"] = x4["cmd"]
  BY <1>1, <1>2 DEF QuietTodo, Calmly
<1>4. Investigator!Launching
  BY <1>3 DEF Investigator!Launching, Investigator!At
<1>5. /\ x2'.radio = x2.radio
      /\ x1' = x1 \/ x1' = [x1 EXCEPT !.late = TRUE]
      /\ x4'["host"] # <<>> => Head(x4'["host"])[2] # x2.gen
  BY <1>3, <1>4
<1>6. /\ x2.active /\ ~x2.cleanup /\ x2.radio = "idle" /\ x7 = "down"
      /\ \A i \in DOMAIN x8 : x8[i][2] # x2.gen
      /\ Investigator!At("cmd", "launch") \/ Investigator!At("cmd", "pause") => Head(x4["cmd"])[2] = x2.gen
  BY <1>4 DEF Investigator!LaunchInv, Investigator!GenOf
<1>7. /\ ~x1.pending /\ x1.mode = "gatt"
      /\ x1 \in [mode : {"gatt"}, st : {"connecting"}, busy : BOOLEAN, pending : BOOLEAN,
                 resume : BOOLEAN, late : BOOLEAN]
  BY <1>4 DEF Investigator!LaunchInv
<1>8. /\ ~x1'.pending /\ x1'.mode = "gatt"
      /\ x1' \in [mode : {"gatt"}, st : {"connecting"}, busy : BOOLEAN, pending : BOOLEAN,
                  resume : BOOLEAN, late : BOOLEAN]
  BY <1>5, <1>7
<1>9. \A i \in DOMAIN x8' : x8'[i][2] # x2.gen
  BY <1>6, KeptAre
<1>10. x2'.active /\ ~x2'.cleanup /\ x2'.radio = "idle" /\ x7' = "down" /\ x2'.gen = x2.gen
  BY <1>5, <1>6 DEF SameFence
<1>11. Investigator!At("cmd", "launch")' \/ Investigator!At("cmd", "pause")' => Head(x4'["cmd"])[2] = x2.gen
  BY <1>3, <1>6 DEF Investigator!At
<1> QED BY <1>5, <1>8, <1>9, <1>10, <1>11 DEF Investigator!LaunchInv, Investigator!GenOf

LEMMA QuietEnds ==
    ASSUME Investigator!EndsInv, SameFence, x12' = x12, x13' = x13
    PROVE  Investigator!EndsInv'
BY DEF Investigator!EndsInv, SameFence

LEMMA QuietStep ==
    ASSUME Investigator!BehindInv, SameFence, QuietTodo, EventsKept, x5' = x5, x7' = x7,
           x12' = x12, x13' = x13, x7 # "down" => x2'.radio # "idle", x9' # 0 => x7 = "up",
           Investigator!Launching /\ x4'["cmd"] = x4["cmd"] =>
             /\ x2'.radio = x2.radio
             /\ x1' = x1 \/ x1' = [x1 EXCEPT !.late = TRUE]
             /\ x4'["host"] # <<>> => Head(x4'["host"])[2] # x2.gen
    PROVE  Investigator!BehindInv'
<1>1. /\ Investigator!ShapeInv /\ Investigator!MutexInv /\ Investigator!LaunchInv
      /\ Investigator!LinkInv /\ Investigator!EndsInv
  BY DEF Investigator!BehindInv
<1>2. Investigator!ShapeInv'
  BY <1>1, QuietShape
<1>3. Investigator!MutexInv'
  BY <1>1, QuietMutex
<1>4. Investigator!LaunchInv'
  BY <1>1, QuietLaunch
<1>5. Investigator!LinkInv'
  BY <1>1, QuietLink
<1>6. Investigator!EndsInv'
  BY <1>1, QuietEnds
<1> QED BY <1>2, <1>3, <1>4, <1>5, <1>6 DEF Investigator!BehindInv

CalmEnd(e) == e = <<>> \/ \E n \in Calm, g \in 0..x2.gen : e = <<Investigator!Step(n, g)>>

LEMMA CalmThen ==
    ASSUME Investigator!ShapeInv, NEW t \in Investigator!Tasks, x4[t] # <<>>, Len(x4[t]) = 1,
           x5 # t, NEW e, Investigator!Then(t, e), CalmEnd(e)
    PROVE  QuietTodo /\ x4'[t] = e /\ \A u \in Investigator!Tasks : u # t => x4'[u] = x4[u]
<1>1. DOMAIN x4 = Investigator!Tasks
  BY DEF Investigator!ShapeInv
<1>2. TodoOf(t)
  BY TodoAre
<1>3. Tail(x4[t]) = <<>>
  BY <1>2 DEF TodoOf
<1>4. e \o Tail(x4[t]) = e
  <2>1. <<>> \o <<>> = <<>>
    OBVIOUS
  <2>2. CASE e = <<>>
    BY <1>3, <2>1, <2>2
  <2>3. CASE \E n \in Calm, g \in 0..x2.gen : e = <<Investigator!Step(n, g)>>
    BY <1>3, <2>3, JoinedSteps
  <2> QED BY <2>2, <2>3 DEF CalmEnd
<1>5. x4' = [x4 EXCEPT ![t] = e]
  BY <1>4 DEF Investigator!Then
<1>6. DOMAIN x4' = Investigator!Tasks /\ x4'[t] = e /\ \A u \in Investigator!Tasks : u # t => x4'[u] = x4[u]
  BY <1>1, <1>5
<1>7. CalmStep(t) \/ x4'[t] = <<>>
  <2>1. CASE e = <<>>
    BY <1>6, <2>1
  <2>2. CASE \E n \in Calm, g \in 0..x2.gen : e = <<Investigator!Step(n, g)>>
    BY <1>6, <2>2 DEF CalmStep, Investigator!Step
  <2> QED BY <2>1, <2>2 DEF CalmEnd
<1> QED BY <1>6, <1>7 DEF QuietTodo, Calmly, Investigator!Tasks

LEMMA CalmSet ==
    ASSUME Investigator!ShapeInv, NEW t \in Investigator!Tasks,
           x5 # t, NEW e, x4' = [x4 EXCEPT ![t] = e], CalmEnd(e)
    PROVE  QuietTodo /\ x4'[t] = e /\ \A u \in Investigator!Tasks : u # t => x4'[u] = x4[u]
<1>1. DOMAIN x4 = Investigator!Tasks
  BY DEF Investigator!ShapeInv
<1>6. DOMAIN x4' = Investigator!Tasks /\ x4'[t] = e /\ \A u \in Investigator!Tasks : u # t => x4'[u] = x4[u]
  BY <1>1
<1>7. CalmStep(t) \/ x4'[t] = <<>>
  <2>1. CASE e = <<>>
    BY <1>6, <2>1
  <2>2. CASE \E n \in Calm, g \in 0..x2.gen : e = <<Investigator!Step(n, g)>>
    BY <1>6, <2>2 DEF CalmStep, Investigator!Step
  <2> QED BY <2>1, <2>2 DEF CalmEnd
<1> QED BY <1>6, <1>7 DEF QuietTodo, Calmly, Investigator!Tasks

LEMMA CalmSame ==
    ASSUME Investigator!ShapeInv, x4' = x4
    PROVE  QuietTodo
BY DEF QuietTodo, Calmly, Investigator!ShapeInv

LEMMA CalmNext ==
    /\ Investigator!ShapeInv => CalmEnd(Investigator!CleanUp)
    /\ CalmEnd(<<>>)
    /\ \A n \in Calm, g \in 0..x2.gen : CalmEnd(<<Investigator!Step(n, g)>>)
<1>1. Investigator!ShapeInv => 0 \in 0..x2.gen
  BY EventsAre
<1>2. "cleanup" \in Calm
  BY DEF Calm
<1> QED BY <1>1, <1>2 DEF CalmEnd, Investigator!CleanUp

\* A task that takes a step of its own outside the clean-up.
LEMMA Acting ==
    ASSUME Investigator!BehindInv, NEW t \in Investigator!Tasks, NEW n, Investigator!At(t, n)
    PROVE  /\ x4[t] # <<>> /\ Head(x4[t])[1] = n /\ Investigator!GenOf(t) = Head(x4[t])[2]
           /\ Investigator!GenOf(t) \in 0..x2.gen
           /\ n \notin Investigator!Cleaning => x5 # t
           /\ n \notin {"pause", "cleanup"} => Len(x4[t]) = 1
           /\ t = "cmd" /\ n \notin {"pause", "cleanup", "launch"} => ~Investigator!Launching
<1>1. Investigator!ShapeInv /\ Investigator!MutexInv
  BY DEF Investigator!BehindInv
<1>2. x4[t] # <<>> /\ Head(x4[t])[1] = n
  BY DEF Investigator!At
<1>3. TodoOf(t)
  BY <1>1, TodoAre
<1> QED BY <1>1, <1>2, <1>3, NotHolding, Single, NotLaunching DEF TodoOf, Investigator!GenOf

LEMMA IdleTask ==
    ASSUME Investigator!BehindInv, NEW t \in Investigator!Tasks, x4[t] = <<>>
    PROVE  x5 # t /\ (t = "cmd" => ~Investigator!Launching)
BY NotHolding, NotLaunching DEF Investigator!BehindInv

LEMMA FenceIs ==
    ASSUME Investigator!BehindInv
    PROVE  /\ x2 \in Investigator!FenceSet
           /\ x7 # "down" => x2.radio # "idle"
           /\ x9 # 0 => x7 = "up"
           /\ x7 \in {"down", "connecting", "up"}
BY DEF Investigator!BehindInv, Investigator!ShapeInv, Investigator!LinkInv

LEMMA SameAsEver ==
    ASSUME Investigator!BehindInv, x2' = x2
    PROVE  SameFence
BY DEF SameFence, Investigator!BehindInv, Investigator!ShapeInv

LEMMA AfterConnectKeeps ==
    ASSUME Investigator!BehindInv, Investigator!AfterConnect
    PROVE  Investigator!BehindInv'
<1> DEFINE g == Investigator!GenOf("cmd")
<1>1. PICK refused \in BOOLEAN :
        /\ Investigator!At("cmd", IF refused THEN "refused" ELSE "connected")
        /\ x2' = IF Investigator!Current(g)
                 THEN [x2 EXCEPT !.op = FALSE, !.deferred = FALSE,
                          !.radio = IF refused /\ @ \in {"connecting", "cancelling"} THEN "idle" ELSE @]
                 ELSE x2
        /\ \E e \in {<<>>, <<Investigator!Step("fail", g)>>, <<Investigator!Step("discover", g)>>,
                     Investigator!CleanUp} : Investigator!Then("cmd", e)
  BY Zenon DEF Investigator!AfterConnect
<1>2. UNCHANGED <<x3, x5, x7, x8, x9, x12, x13>>
  BY DEF Investigator!AfterConnect, Investigator!Wire, Investigator!Radio
<1>3. "cmd" \in Investigator!Tasks
  BY DEF Investigator!Tasks
<1>4. PICK n \in {"refused", "connected"} : Investigator!At("cmd", n) /\ (refused => n = "refused")
  BY <1>1
<1>5. /\ x4["cmd"] # <<>> /\ Len(x4["cmd"]) = 1 /\ g \in 0..x2.gen /\ x5 # "cmd"
      /\ ~Investigator!Launching
  BY <1>3, <1>4, Acting DEF Investigator!Cleaning
<1>6. Investigator!ShapeInv
  BY DEF Investigator!BehindInv
<1>7. PICK e \in {<<>>, <<Investigator!Step("fail", g)>>, <<Investigator!Step("discover", g)>>,
                  Investigator!CleanUp} : Investigator!Then("cmd", e)
  BY <1>1
<1>8. CalmEnd(e)
  BY <1>5, <1>6, <1>7, CalmNext DEF Calm
<1>9. QuietTodo
  BY <1>3, <1>5, <1>6, <1>7, <1>8, CalmThen
<1>10. SameFence
  BY <1>1, FenceIs DEF SameFence, Investigator!FenceSet
<1>11. ASSUME x7 # "down" PROVE x2'.radio # "idle"
  <2>1. x2.radio # "idle"
    BY <1>11, FenceIs
  <2>2. CASE Investigator!Current(g) /\ refused
    <3>1. g = x2.gen
      BY <2>2 DEF Investigator!Current
    <3>2. ~Investigator!At("cmd", "refused")
      BY <1>3, <1>5, <1>11, <3>1 DEF Investigator!BehindInv, Investigator!LinkInv
    <3> QED BY <1>4, <2>2, <3>2
  <2>3. CASE Investigator!Current(g) /\ ~refused
    BY <1>1, <2>1, <2>3, FenceIs DEF Investigator!FenceSet
  <2>4. CASE ~Investigator!Current(g)
    BY <1>1, <2>1, <2>4
  <2> QED BY <2>2, <2>3, <2>4
<1> QED BY <1>2, <1>5, <1>9, <1>10, <1>11, FenceIs, QuietStep DEF EventsKept

LEMMA FailKeeps ==
    ASSUME Investigator!BehindInv, NEW t \in Investigator!Tasks, Investigator!Fail(t)
    PROVE  Investigator!BehindInv'
<1>1. /\ Investigator!At(t, "fail") /\ x1' = Investigator!Failed(Investigator!GenOf(t))
      /\ Investigator!Then(t, Investigator!CleanUp)
      /\ UNCHANGED <<x2, x3, x5, x7, x8, x9, x12, x13>>
  BY DEF Investigator!Fail, Investigator!Wire, Investigator!Radio
<1>2. Investigator!ShapeInv /\ Investigator!LaunchInv
  BY DEF Investigator!BehindInv
<1>3. x4[t] # <<>> /\ Len(x4[t]) = 1 /\ x5 # t /\ (t = "cmd" => ~Investigator!Launching)
  BY <1>1, Acting DEF Investigator!Cleaning
<1>4. QuietTodo /\ x4'[t] = Investigator!CleanUp
  BY <1>1, <1>2, <1>3, CalmNext, CalmThen
<1>5. ASSUME Investigator!Launching
      PROVE  /\ x1' = x1
             /\ x4'["host"] # <<>> => Head(x4'["host"])[2] # x2.gen
  <2>1. t = "host"
    BY <1>3, <1>5 DEF Investigator!Tasks
  <2>2. x2.active /\ Investigator!GenOf("host") # x2.gen
    BY <1>2, <1>3, <1>5, <2>1 DEF Investigator!LaunchInv
  <2>3. x1' = x1
    BY <1>1, <2>1, <2>2 DEF Investigator!Failed, Investigator!Current
  <2>4. Head(x4'["host"]) = <<"cleanup", 0>>
    BY <1>4, <2>1, OneStep DEF Investigator!CleanUp, Investigator!Step
  <2>5. x2.gen # 0
    BY <1>2, <2>2 DEF Investigator!ShapeInv
  <2> QED BY <2>3, <2>4, <2>5
<1> QED BY <1>1, <1>4, <1>5, FenceIs, SameAsEver, QuietStep DEF EventsKept

LEMMA WhileLaunching ==
    ASSUME Investigator!BehindInv, Investigator!Launching
    PROVE  /\ x2.active /\ ~x2.cleanup /\ x2.radio = "idle" /\ x7 = "down" /\ x2.gen # 0
           /\ x1.mode = "gatt" /\ ~x1.pending /\ x9 = 0
           /\ \A i \in DOMAIN x8 : x8[i][2] # x2.gen
           /\ x4["host"] # <<>> => Investigator!GenOf("host") # x2.gen
<1>1. Investigator!LaunchInv /\ Investigator!ShapeInv /\ Investigator!LinkInv
  BY DEF Investigator!BehindInv
<1>2. /\ x2.active /\ ~x2.cleanup /\ x2.radio = "idle" /\ x7 = "down"
      /\ x1.mode = "gatt" /\ ~x1.pending
      /\ \A i \in DOMAIN x8 : x8[i][2] # x2.gen
      /\ x4["host"] # <<>> => Investigator!GenOf("host") # x2.gen
  BY <1>1 DEF Investigator!LaunchInv
<1>3. x2.gen # 0
  BY <1>1, <1>2 DEF Investigator!ShapeInv
<1>4. x9 = 0
  BY <1>1, <1>2 DEF Investigator!LinkInv
<1> QED BY <1>2, <1>3, <1>4

\* The listener, with nothing left to do, that finds something to clean up.
LEMMA ListenerCleansUp ==
    ASSUME Investigator!BehindInv, x4["cmd"] = <<>>,
           x4' = [x4 EXCEPT !["cmd"] = Investigator!CleanUp] \/ x4' = x4, SameFence,
           x7 # "down" => x2'.radio # "idle",
           UNCHANGED <<x5, x7, x8, x9, x12, x13>>
    PROVE  Investigator!BehindInv'
<1>1. "cmd" \in Investigator!Tasks
  BY DEF Investigator!Tasks
<1>2. Investigator!ShapeInv
  BY DEF Investigator!BehindInv
<1>3. x5 # "cmd" /\ ~Investigator!Launching
  BY <1>1, IdleTask
<1>4. QuietTodo
  <2>1. CASE x4' = [x4 EXCEPT !["cmd"] = Investigator!CleanUp]
    BY <1>1, <1>2, <1>3, <2>1, CalmNext, CalmSet
  <2>2. CASE x4' = x4
    BY <1>2, <2>2, CalmSame
  <2> QED BY <2>1, <2>2
<1> QED BY <1>3, <1>4, FenceIs, QuietStep DEF EventsKept

LEMMA TickKeeps ==
    ASSUME Investigator!BehindInv, Investigator!Tick
    PROVE  Investigator!BehindInv'
<1>1. x4["cmd"] = <<>> /\ x4' = [x4 EXCEPT !["cmd"] = Investigator!CleanUp]
      /\ UNCHANGED <<x2, x5, x7, x8, x9, x12, x13>>
  BY DEF Investigator!Tick, Investigator!Wire, Investigator!Radio
<1> QED BY <1>1, FenceIs, SameAsEver, ListenerCleansUp

LEMMA CancelKeeps ==
    ASSUME Investigator!BehindInv, Investigator!Cancel
    PROVE  Investigator!BehindInv'
<1>1. x4["cmd"] = <<>> /\ x4' = [x4 EXCEPT !["cmd"] = Investigator!CleanUp]
      /\ UNCHANGED <<x2, x5, x7, x8, x9, x12, x13>>
  BY DEF Investigator!Cancel, Investigator!Wire, Investigator!Radio
<1> QED BY <1>1, FenceIs, SameAsEver, ListenerCleansUp

LEMMA QuiesceKeeps ==
    ASSUME Investigator!BehindInv, Investigator!Quiesce
    PROVE  Investigator!BehindInv'
<1>1. x4["cmd"] = <<>> /\ UNCHANGED <<x5, x7, x8, x9, x12, x13>>
  BY DEF Investigator!Quiesce, Investigator!Wire
<1>2. x4' = [x4 EXCEPT !["cmd"] = Investigator!CleanUp] \/ x4' = x4
  BY DEF Investigator!Quiesce
<1>3. x2' = [x2 EXCEPT !.resume = FALSE] \/ x2' = x2
  BY DEF Investigator!Quiesce
<1>4. SameFence
  BY <1>3, FenceIs DEF SameFence, Investigator!FenceSet
<1>5. x2'.radio = x2.radio
  BY <1>3, FenceIs DEF Investigator!FenceSet
<1> QED BY <1>1, <1>2, <1>4, <1>5, FenceIs, ListenerCleansUp

\* The BLE host delivers an event.
LEMMA Delivers ==
    ASSUME Investigator!BehindInv, x4["host"] = <<>>, x8 # <<>>, x8' = Tail(x8), NEW e,
           x4' = [x4 EXCEPT !["host"] = e], CalmEnd(e), SameFence,
           x7 # "down" => x2'.radio # "idle",
           UNCHANGED <<x5, x7, x9, x12, x13>>,
           Head(x8)[2] # x2.gen => x1' = x1 /\ x2' = x2 /\ e = <<>>
    PROVE  Investigator!BehindInv'
<1>1. "host" \in Investigator!Tasks /\ "cmd" # "host"
  BY DEF Investigator!Tasks
<1>2. Investigator!ShapeInv
  BY DEF Investigator!BehindInv
<1>3. x5 # "host"
  BY <1>1, IdleTask
<1>4. QuietTodo /\ x4'["host"] = e
  BY <1>1, <1>2, <1>3, CalmSet
<1>5. ASSUME Investigator!Launching
      PROVE  /\ x1' = x1 /\ x2'.radio = x2.radio
             /\ x4'["host"] # <<>> => Head(x4'["host"])[2] # x2.gen
  <2>1. 1 \in DOMAIN x8 /\ x8[1] = Head(x8)
    BY <1>2, EventsAre, TailOf
  <2>2. Head(x8)[2] # x2.gen
    BY <1>5, <2>1, WhileLaunching
  <2> QED BY <1>4, <2>2
<1> QED BY <1>4, <1>5, FenceIs, QuietStep DEF EventsKept

\* A connection that is known of is not the one whose end is delivered.
LEMMA GoneIsDown ==
    ASSUME Investigator!BehindInv, x8 # <<>>, Head(x8)[1] # "up", Head(x8)[2] = x2.gen
    PROVE  x7 = "down"
<1>1. Investigator!ShapeInv /\ Investigator!LinkInv
  BY DEF Investigator!BehindInv
<1>2. 1 \in DOMAIN x8 /\ x8[1] = Head(x8)
  BY <1>1, EventsAre, TailOf
<1> QED BY <1>1, <1>2 DEF Investigator!LinkInv

LEMMA ConnectFailedKeeps ==
    ASSUME Investigator!BehindInv, Investigator!ConnectFailed
    PROVE  Investigator!BehindInv'
<1> DEFINE g == Head(x8)[2]
           mine == Investigator!Current(g) /\ x2.radio \in {"connecting", "cancelling"}
           e == IF ~mine THEN <<>>
                ELSE IF x2.cleanup THEN Investigator!CleanUp ELSE <<Investigator!Step("fail", g)>>
<1>1. /\ x4["host"] = <<>> /\ x8 # <<>> /\ Head(x8)[1] = "failed" /\ x8' = Tail(x8)
      /\ x2' = IF mine THEN [x2 EXCEPT !.radio = "idle", !.conn = FALSE] ELSE x2
      /\ x4' = [x4 EXCEPT !["host"] = e]
      /\ UNCHANGED <<x1, x5, x7, x9, x12, x13>>
  BY DEF Investigator!ConnectFailed, Investigator!Wire
<1>2. Investigator!ShapeInv
  BY DEF Investigator!BehindInv
<1>3. mine => g = x2.gen /\ g \in 0..x2.gen
  BY <1>2, EventsAre DEF Investigator!Current
<1>4. CalmEnd(e)
  BY <1>2, <1>3, CalmNext DEF Calm
<1>5. SameFence
  BY <1>1, FenceIs DEF SameFence, Investigator!FenceSet
<1>6. x7 # "down" => x2'.radio # "idle"
  <2>1. CASE mine
    BY <1>1, <1>3, <2>1, GoneIsDown
  <2>2. CASE ~mine
    BY <1>1, <2>2, FenceIs
  <2> QED BY <2>1, <2>2
<1>7. g # x2.gen => x1' = x1 /\ x2' = x2 /\ e = <<>>
  BY <1>1, <1>3
<1> QED BY <1>1, <1>4, <1>5, <1>6, <1>7, Delivers

LEMMA ConnectDoneKeeps ==
    ASSUME Investigator!BehindInv, Investigator!ConnectDone
    PROVE  Investigator!BehindInv'
<1> DEFINE g == Head(x8)[2]
           mine == Investigator!Current(g) /\ x2.radio \in {"connecting", "cancelling"}
           c == IF mine /\ ~x2.cleanup THEN Investigator!Handle(x1, {"connecting"}, "discovering") ELSE x1
           ready == mine /\ ~x2.cleanup /\ c.busy /\ c.st = "discovering"
           e == IF ~mine \/ (ready /\ x2.op) THEN <<>>
                ELSE IF ready THEN <<Investigator!Step("discover", g)>> ELSE Investigator!CleanUp
<1>1. /\ x4["host"] = <<>> /\ x8 # <<>> /\ x8' = Tail(x8) /\ x1' = c
      /\ x2' = IF mine THEN [x2 EXCEPT !.radio = "connected", !.conn = TRUE,
                                       !.deferred = @ \/ (ready /\ x2.op)] ELSE x2
      /\ x4' = [x4 EXCEPT !["host"] = e]
      /\ UNCHANGED <<x5, x7, x9, x12, x13>>
  BY DEF Investigator!ConnectDone, Investigator!Wire
<1>2. Investigator!ShapeInv
  BY DEF Investigator!BehindInv
<1>3. mine => g = x2.gen /\ g \in 0..x2.gen
  BY <1>2, EventsAre DEF Investigator!Current
<1>4. CalmEnd(e)
  BY <1>2, <1>3, CalmNext DEF Calm
<1> HIDE DEF c, ready
<1>5. SameFence /\ (mine => x2'.radio = "connected")
  <2>1. CASE mine
    <3>1. \A b \in BOOLEAN : [x2 EXCEPT !.radio = "connected", !.conn = TRUE, !.deferred = b]
                              \in Investigator!FenceSet
      BY FenceIs DEF Investigator!FenceSet
    <3>2. (x2.deferred \/ (ready /\ x2.op)) \in BOOLEAN
      OBVIOUS
    <3>3. x2' = [x2 EXCEPT !.radio = "connected", !.conn = TRUE, !.deferred = x2.deferred \/ (ready /\ x2.op)]
      BY <1>1, <2>1
    <3>4. x2' \in Investigator!FenceSet
      BY <3>1, <3>2, <3>3
    <3>5. /\ x2'.gen = x2.gen /\ x2'.active = x2.active /\ x2'.cleanup = x2.cleanup /\ x2'.end = x2.end
          /\ x2'.radio = "connected"
      BY <3>3, FenceIs DEF Investigator!FenceSet
    <3> QED BY <3>4, <3>5 DEF SameFence
  <2>2. CASE ~mine
    BY <1>1, <2>2, SameAsEver
  <2> QED BY <2>1, <2>2
<1>6. x7 # "down" => x2'.radio # "idle"
  BY <1>1, <1>5, FenceIs
<1>7. g # x2.gen => x1' = x1 /\ x2' = x2 /\ e = <<>>
  BY <1>1, <1>3 DEF c
<1> QED BY <1>1, <1>4, <1>5, <1>6, <1>7, Delivers

LEMMA DisconnectedKeeps ==
    ASSUME Investigator!BehindInv, Investigator!Disconnected
    PROVE  Investigator!BehindInv'
<1> DEFINE g == Head(x8)[2]
           mine == Investigator!Current(g) /\ x2.conn /\ x2.radio \in {"connected", "terminating"}
           e == IF mine THEN Investigator!CleanUp ELSE <<>>
<1>1. /\ x4["host"] = <<>> /\ x8 # <<>> /\ Head(x8)[1] = "lost" /\ x8' = Tail(x8)
      /\ x2' = IF mine THEN [x2 EXCEPT !.radio = "idle", !.conn = FALSE] ELSE x2
      /\ x1' = IF mine /\ ~x2.cleanup
               THEN Investigator!Handle(x1, {"discovering", "reading"}, "failed") ELSE x1
      /\ x4' = [x4 EXCEPT !["host"] = e]
      /\ UNCHANGED <<x5, x7, x9, x12, x13>>
  BY DEF Investigator!Disconnected, Investigator!Wire
<1>2. Investigator!ShapeInv
  BY DEF Investigator!BehindInv
<1>3. mine => g = x2.gen
  BY DEF Investigator!Current
<1>4. CalmEnd(e)
  BY <1>2, CalmNext
<1>5. SameFence
  BY <1>1, FenceIs DEF SameFence, Investigator!FenceSet
<1>6. x7 # "down" => x2'.radio # "idle"
  <2>1. CASE mine
    BY <1>1, <1>3, <2>1, GoneIsDown
  <2>2. CASE ~mine
    BY <1>1, <2>2, FenceIs
  <2> QED BY <2>1, <2>2
<1>7. g # x2.gen => x1' = x1 /\ x2' = x2 /\ e = <<>>
  BY <1>1, <1>3
<1> QED BY <1>1, <1>4, <1>5, <1>6, <1>7, Delivers

LEMMA DeadlineKeeps ==
    ASSUME Investigator!BehindInv, Investigator!Deadline
    PROVE  Investigator!BehindInv'
<1>1. x1' = [x1 EXCEPT !.late = TRUE] /\ UNCHANGED <<x2, x4, x5, x7, x8, x9, x12, x13>>
  BY DEF Investigator!Deadline, Investigator!Wire, Investigator!Radio
<1>2. QuietTodo
  BY <1>1, CalmSame DEF Investigator!BehindInv
<1>3. Investigator!Launching => (x4'["host"] # <<>> => Head(x4'["host"])[2] # x2.gen)
  BY <1>1, WhileLaunching DEF Investigator!GenOf
<1> QED BY <1>1, <1>2, <1>3, FenceIs, SameAsEver, QuietStep DEF EventsKept

LEMMA RetryDueKeeps ==
    ASSUME Investigator!BehindInv, Investigator!RetryDue
    PROVE  Investigator!BehindInv'
<1>1. UNCHANGED <<x1, x2, x4, x5, x7, x8, x9, x12, x13>>
  BY DEF Investigator!RetryDue, Investigator!Wire, Investigator!Radio
<1>2. QuietTodo
  BY <1>1, CalmSame DEF Investigator!BehindInv
<1>3. Investigator!Launching => (x4'["host"] # <<>> => Head(x4'["host"])[2] # x2.gen)
  BY <1>1, WhileLaunching DEF Investigator!GenOf
<1> QED BY <1>1, <1>2, <1>3, FenceIs, SameAsEver, QuietStep DEF EventsKept

LEMMA AdvertisementKeeps ==
    ASSUME Investigator!BehindInv, Investigator!Advertisement
    PROVE  Investigator!BehindInv'
<1>1. /\ x4["host"] = <<>> /\ x4' = [x4 EXCEPT !["host"] = Investigator!CleanUp]
      /\ UNCHANGED <<x2, x5, x7, x8, x9, x12, x13>>
      /\ x1' = IF x1.busy /\ ~x2.cleanup /\ x1.mode = "passive" /\ x1.late
               THEN Investigator!Expire(x1) ELSE x1
  BY DEF Investigator!Advertisement, Investigator!Wire, Investigator!Radio
<1>2. "host" \in Investigator!Tasks /\ Investigator!ShapeInv
  BY DEF Investigator!Tasks, Investigator!BehindInv
<1>3. QuietTodo /\ x4'["host"] = Investigator!CleanUp
  BY <1>1, <1>2, IdleTask, CalmNext, CalmSet
<1>4. Investigator!Launching => x1' = x1
  BY <1>1, WhileLaunching
<1>5. Head(x4'["host"])[2] = 0
  BY <1>3, OneStep DEF Investigator!CleanUp, Investigator!Step
<1>6. Investigator!Launching => x2.gen # 0
  BY WhileLaunching
<1> QED BY <1>1, <1>3, <1>4, <1>5, <1>6, FenceIs, SameAsEver, QuietStep DEF EventsKept

\* A task takes one of its steps outside the clean-up.
LEMMA WorksOn ==
    ASSUME Investigator!BehindInv, NEW t \in Investigator!Tasks, NEW n \in Calm, n # "cleanup",
           Investigator!At(t, n), NEW e, Investigator!Then(t, e), CalmEnd(e), SameFence,
           x2'.radio = x2.radio, x9' = x9 \/ x9' = 0 \/ x7 = "up",
           UNCHANGED <<x5, x7, x8, x12, x13>>,
           t = "host" /\ Investigator!Launching =>
             x1' = x1 /\ (e = <<>> \/ e = Investigator!CleanUp)
    PROVE  Investigator!BehindInv'
<1>1. n \notin Investigator!Cleaning /\ n \notin {"pause", "cleanup", "launch"}
  BY DEF Calm, Investigator!Cleaning
<1>2. /\ x4[t] # <<>> /\ Len(x4[t]) = 1 /\ x5 # t
      /\ t = "cmd" => ~Investigator!Launching
  BY <1>1, Acting
<1>3. QuietTodo /\ x4'[t] = e
  BY <1>2, CalmThen DEF Investigator!BehindInv
<1>4. ASSUME Investigator!Launching
      PROVE  /\ x1' = x1
             /\ x4'["host"] # <<>> => Head(x4'["host"])[2] # x2.gen
  <2>1. t = "host" /\ x1' = x1 /\ (e = <<>> \/ e = Investigator!CleanUp)
    BY <1>2, <1>4 DEF Investigator!Tasks
  <2>2. x2.gen # 0
    BY <1>4, WhileLaunching
  <2>3. e = Investigator!CleanUp => Head(e)[2] = 0
    BY OneStep DEF Investigator!CleanUp, Investigator!Step
  <2> QED BY <1>3, <2>1, <2>2, <2>3
<1>5. x9' # 0 => x7 = "up"
  BY FenceIs
<1> QED BY <1>3, <1>4, <1>5, FenceIs, QuietStep DEF EventsKept

LEMMA ProcedureKeeps ==
    ASSUME Investigator!BehindInv, NEW t \in Investigator!Tasks, Investigator!Procedure(t)
    PROVE  Investigator!BehindInv'
<1> DEFINE g == Investigator!GenOf(t)
           state == IF Investigator!At(t, "read") THEN "reading" ELSE "discovering"
           c == IF state = "reading" /\ Investigator!AcceptsGatt(g)
                THEN Investigator!Handle(x1, {"discovering"}, "reading") ELSE x1
           go == Investigator!AcceptsGatt(g) /\ Investigator!Prepared(c, state)
<1>1. PICK n \in {"discover", "read"} : Investigator!At(t, n)
  BY DEF Investigator!Procedure
<1>2. /\ UNCHANGED <<x5, x7, x8, x12, x13>>
      /\ \/ /\ ~go
            /\ x1' = IF Investigator!AcceptsGatt(g) THEN Investigator!AfterPrepare(c) ELSE x1
            /\ Investigator!Then(t, Investigator!CleanUp)
            /\ x2' = x2 /\ x9' = x9
         \/ /\ go /\ x2' = [x2 EXCEPT !.op = TRUE]
            /\ \/ x9' = (IF x7 = "up" THEN g ELSE 0) /\ Investigator!Then(t, <<Investigator!Step("after", g)>>)
               \/ x9' = x9 /\ Investigator!Then(t, <<Investigator!Step("after_error", g)>>)
  BY DEF Investigator!Procedure, Investigator!Wire
<1>3. n \in Calm /\ n # "cleanup" /\ "after" \in Calm /\ "after_error" \in Calm
  BY DEF Calm
<1>4. Investigator!ShapeInv /\ g \in 0..x2.gen
  BY <1>1, Acting DEF Investigator!BehindInv
<1>5. Investigator!Launching => ~Investigator!AcceptsGatt(g)
  BY WhileLaunching DEF Investigator!AcceptsGatt
<1> HIDE DEF g, c, state
<1>6. CASE ~go
  <2>1. x2' = x2 /\ x9' = x9 /\ Investigator!Then(t, Investigator!CleanUp)
        /\ (Investigator!Launching => x1' = x1)
    BY <1>2, <1>5, <1>6
  <2>2. CalmEnd(Investigator!CleanUp)
    BY <1>4, CalmNext
  <2>3. SameFence /\ x2'.radio = x2.radio
    BY <2>1, SameAsEver
  <2> QED BY <1>1, <1>2, <1>3, <2>1, <2>2, <2>3, WorksOn
<1>7. CASE go
  <2>1. x2' = [x2 EXCEPT !.op = TRUE]
    BY <1>2, <1>7
  <2>2. SameFence /\ x2'.radio = x2.radio
    BY <2>1, FenceIs DEF SameFence, Investigator!FenceSet
  <2>3. PICK m \in {"after", "after_error"} : Investigator!Then(t, <<Investigator!Step(m, g)>>)
    BY <1>2, <1>7
  <2>4. CalmEnd(<<Investigator!Step(m, g)>>)
    BY <1>3, <1>4, <2>3, CalmNext
  <2>5. x9' = x9 \/ x9' = 0 \/ x7 = "up"
    BY <1>2, <1>7
  <2>6. ~Investigator!Launching
    BY <1>5, <1>7
  <2> QED BY <1>1, <1>2, <1>3, <2>2, <2>3, <2>4, <2>5, <2>6, WorksOn
<1> QED BY <1>6, <1>7

LEMMA AfterProcedureKeeps ==
    ASSUME Investigator!BehindInv, NEW t \in Investigator!Tasks, Investigator!AfterProcedure(t)
    PROVE  Investigator!BehindInv'
<1> DEFINE g == Investigator!GenOf(t)
           mine == Investigator!Current(g) /\ x2.op
           e == IF ~mine THEN <<>>
                ELSE IF Investigator!At(t, "after_error") /\ ~x2.cleanup /\ x1.busy
                THEN <<Investigator!Step("fail", g)>>
                ELSE IF x2.cleanup \/ x1.pending THEN Investigator!CleanUp ELSE <<>>
<1>1. PICK n \in {"after", "after_error"} : Investigator!At(t, n)
  BY DEF Investigator!AfterProcedure
<1>2. /\ UNCHANGED <<x1, x5, x7, x8, x9, x12, x13>> /\ Investigator!Then(t, e)
      /\ x2' = IF mine THEN [x2 EXCEPT !.op = FALSE] ELSE x2
  BY DEF Investigator!AfterProcedure, Investigator!Wire, Investigator!Radio
<1>3. n \in Calm /\ n # "cleanup" /\ "fail" \in Calm
  BY DEF Calm
<1>4. Investigator!ShapeInv /\ g \in 0..x2.gen /\ x4[t] # <<>>
  BY <1>1, Acting DEF Investigator!BehindInv
<1>5. CalmEnd(e)
  BY <1>3, <1>4, CalmNext
<1>6. SameFence /\ x2'.radio = x2.radio
  BY <1>2, FenceIs DEF SameFence, Investigator!FenceSet
<1>7. t = "host" /\ Investigator!Launching => e = <<>>
  BY <1>4, WhileLaunching DEF Investigator!Current
<1> QED BY <1>1, <1>2, <1>3, <1>5, <1>6, <1>7, WorksOn

LEMMA CallbackKeeps ==
    ASSUME Investigator!BehindInv, Investigator!Callback
    PROVE  Investigator!BehindInv'
<1>1. /\ x4["host"] = <<>> /\ x9 # 0 /\ UNCHANGED <<x2, x5, x7, x8, x12, x13>>
      /\ x9' = x9 \/ x9' = 0
  BY DEF Investigator!Callback, Investigator!Wire
<1>2. \/ x4' = x4
      \/ /\ Investigator!AcceptsGatt(x9)
         /\ \E e \in {<<Investigator!Step("discover", x9)>>, <<Investigator!Step("read", x9)>>,
                      Investigator!CleanUp} : x4' = [x4 EXCEPT !["host"] = e]
  <2>1. PICK result \in {"item", "next", "read", "over", "error"} :
          IF ~Investigator!AcceptsGatt(x9) THEN x4' = x4
          ELSE x4' = [x4 EXCEPT !["host"] =
                       CASE result = "next" -> <<Investigator!Step("discover", x9)>>
                         [] result = "read" -> <<Investigator!Step("read", x9)>>
                         [] OTHER -> Investigator!CleanUp]
    BY DEF Investigator!Callback
  <2>2. CASE result = "next"
    BY <2>1, <2>2
  <2>3. CASE result = "read"
    BY <2>1, <2>3
  <2>4. CASE result \notin {"next", "read"}
    BY <2>1, <2>4
  <2> QED BY <2>2, <2>3, <2>4
<1>3. "host" \in Investigator!Tasks /\ Investigator!ShapeInv
  BY DEF Investigator!Tasks, Investigator!BehindInv
<1>4. ~Investigator!Launching
  BY <1>1, WhileLaunching
<1>5. QuietTodo
  <2>1. CASE x4' = x4
    BY <1>3, <2>1, CalmSame
  <2>2. CASE /\ Investigator!AcceptsGatt(x9)
             /\ \E e \in {<<Investigator!Step("discover", x9)>>, <<Investigator!Step("read", x9)>>,
                          Investigator!CleanUp} : x4' = [x4 EXCEPT !["host"] = e]
    <3>1. PICK e \in {<<Investigator!Step("discover", x9)>>, <<Investigator!Step("read", x9)>>,
                      Investigator!CleanUp} : x4' = [x4 EXCEPT !["host"] = e]
      BY <2>2
    <3>2. x9 \in 0..x2.gen
      BY <1>3, <2>2, EventsAre DEF Investigator!AcceptsGatt, Investigator!Current
    <3>3. CalmEnd(e)
      BY <1>3, <3>1, <3>2, CalmNext DEF Calm
    <3> QED BY <1>1, <1>3, <3>1, <3>3, IdleTask, CalmSet
  <2> QED BY <1>2, <2>1, <2>2
<1>6. x9' # 0 => x7 = "up"
  BY <1>1, FenceIs
<1> QED BY <1>1, <1>4, <1>5, <1>6, FenceIs, SameAsEver, QuietStep DEF EventsKept

HolderEnd(t) ==
    \/ x5' = "free" /\ Investigator!Then(t, <<>>)
    \/ /\ x5' = x5 /\ x2'.active /\ x2'.cleanup
       /\ \E n \in Investigator!Cleaning :
            /\ Investigator!Then(t, <<Investigator!Step(n, x2.gen)>>)
            /\ n \in {"is_down", "absent"} => x7' = "down"
HolderLink ==
    /\ x7' # "down" => x7' = x7 /\ x2'.active /\ x2'.radio # "idle"
    /\ x9' # 0 => x7' = "up"
    /\ \/ x8' = x8
       \/ x7' = "down" /\ \E k \in {"failed", "lost"} : x8' = Append(x8, <<k, x2.gen>>)

LEMMA Holding ==
    ASSUME Investigator!BehindInv, NEW t \in Investigator!Tasks, NEW n \in Investigator!Cleaning,
           Investigator!At(t, n)
    PROVE  /\ x5 = t /\ x2.active /\ x2.cleanup /\ x2.gen # 0 /\ Investigator!GenOf(t) = x2.gen
           /\ x4[t] # <<>> /\ Len(x4[t]) = 1 /\ ~Investigator!Launching
           /\ x2.end /\ x12 = x13 /\ x13 \in Nat
<1>1. /\ Investigator!ShapeInv /\ Investigator!MutexInv /\ Investigator!LaunchInv /\ Investigator!EndsInv
  BY DEF Investigator!BehindInv
<1>2. x4[t] # <<>> /\ Head(x4[t])[1] = n
  BY DEF Investigator!At
<1>3. x5 = t
  BY <1>1, <1>2 DEF Investigator!MutexInv
<1>4. x2.active /\ x2.cleanup /\ Investigator!GenOf(t) = x2.gen
  BY <1>1, <1>3 DEF Investigator!MutexInv
<1>5. ~Investigator!Launching
  BY <1>1, <1>4 DEF Investigator!LaunchInv
<1>6. Len(x4[t]) = 1
  BY <1>1, <1>2, Single DEF Investigator!Cleaning
<1>7. x2.gen # 0
  BY <1>1, <1>4 DEF Investigator!ShapeInv
<1>8. x2.end /\ x13 \in Nat
  BY <1>1, <1>4 DEF Investigator!EndsInv
<1>9. x12 = x13 + 0
  BY <1>1, <1>8 DEF Investigator!EndsInv
<1> QED BY <1>2, <1>3, <1>4, <1>5, <1>6, <1>7, <1>8, <1>9

\* What the holder's task has to do next.
LEMMA HolderTodo ==
    ASSUME Investigator!ShapeInv, NEW t \in Investigator!Tasks, x4[t] # <<>>, Len(x4[t]) = 1, HolderEnd(t)
    PROVE  /\ DOMAIN x4' = Investigator!Tasks
           /\ \A u \in Investigator!Tasks : u # t => x4'[u] = x4[u]
           /\ \/ x5' = "free" /\ x4'[t] = <<>>
              \/ /\ x5' = x5 /\ x2'.active /\ x2'.cleanup
                 /\ \E n \in Investigator!Cleaning : /\ x4'[t] = <<<<n, x2.gen>>>>
                                                     /\ n \in {"is_down", "absent"} => x7' = "down"
<1>1. CASE x5' = "free" /\ Investigator!Then(t, <<>>)
  BY <1>1, ThenNone
<1>2. CASE /\ x5' = x5 /\ x2'.active /\ x2'.cleanup
           /\ \E n \in Investigator!Cleaning :
                /\ Investigator!Then(t, <<Investigator!Step(n, x2.gen)>>)
                /\ n \in {"is_down", "absent"} => x7' = "down"
  <2>1. PICK n \in Investigator!Cleaning :
                /\ Investigator!Then(t, <<Investigator!Step(n, x2.gen)>>)
                /\ n \in {"is_down", "absent"} => x7' = "down"
    BY <1>2
  <2>2. /\ DOMAIN x4' = Investigator!Tasks
        /\ \A u \in Investigator!Tasks : u # t => x4'[u] = x4[u]
        /\ x4'[t] = <<Investigator!Step(n, x2.gen)>>
    BY <2>1, ThenOne
  <2>3. x4'[t] = <<<<n, x2.gen>>>>
    BY <2>2 DEF Investigator!Step
  <2> QED BY <1>2, <2>1, <2>2, <2>3
<1> QED BY <1>1, <1>2 DEF HolderEnd

LEMMA HolderStep ==
    ASSUME Investigator!BehindInv, NEW t \in Investigator!Tasks, NEW m \in Investigator!Cleaning,
           Investigator!At(t, m), HolderEnd(t), HolderLink,
           x2' \in Investigator!FenceSet, x2'.gen = x2.gen, x12' = x12, x13' = x13,
           x2'.cleanup => x2'.end, x2'.active => x2'.end
    PROVE  Investigator!BehindInv'
<1>1. /\ x5 = t /\ x2.active /\ x2.cleanup /\ x2.gen # 0
      /\ x4[t] # <<>> /\ Len(x4[t]) = 1 /\ ~Investigator!Launching
      /\ x2.end /\ x12 = x13 /\ x13 \in Nat
  BY Holding
<1>2. /\ Investigator!ShapeInv /\ Investigator!MutexInv /\ Investigator!LinkInv
  BY DEF Investigator!BehindInv
<1>3. /\ DOMAIN x4' = Investigator!Tasks
      /\ \A u \in Investigator!Tasks : u # t => x4'[u] = x4[u]
  BY <1>1, <1>2, HolderTodo
<1>4. \/ x5' = "free" /\ x4'[t] = <<>>
      \/ /\ x5' = t /\ x2'.active /\ x2'.cleanup
         /\ \E n \in Investigator!Cleaning : /\ x4'[t] = <<<<n, x2.gen>>>>
                                             /\ n \in {"is_down", "absent"} => x7' = "down"
  BY <1>1, <1>2, HolderTodo
<1>5. ASSUME NEW n, x4'[t] = <<<<n, x2.gen>>>>
      PROVE  x4'[t] # <<>> /\ Len(x4'[t]) = 1 /\ Head(x4'[t])[1] = n /\ Head(x4'[t])[2] = x2.gen
  BY <1>5, OneStep
<1>6. x2.gen \in Nat /\ x2.gen \in 0..x2.gen
  BY <1>2, EventsAre
<1>7. /\ x8' \in Seq({"up", "failed", "lost"} \X Nat)
      /\ \A i \in DOMAIN x8' : x8'[i][2] <= x2.gen
      /\ x7' # "down" => x8' = x8
  <2>1. CASE x8' = x8
    BY <1>2, <2>1, EventsAre
  <2>2. CASE x7' = "down" /\ \E k \in {"failed", "lost"} : x8' = Append(x8, <<k, x2.gen>>)
    <3>1. PICK k \in {"failed", "lost"} : x8' = Append(x8, <<k, x2.gen>>)
      BY <2>2
    <3>2. <<k, x2.gen>> \in {"up", "failed", "lost"} \X Nat
      BY <1>6
    <3>3. /\ x8' \in Seq({"up", "failed", "lost"} \X Nat)
          /\ \A i \in DOMAIN x8' : (i \in DOMAIN x8 /\ x8'[i] = x8[i]) \/ x8'[i] = <<k, x2.gen>>
      BY <1>2, <3>1, <3>2, EventsAre, AppendOf
    <3>4. \A i \in DOMAIN x8 : x8[i][2] <= x2.gen
      BY <1>2, EventsAre
    <3>5. \A i \in DOMAIN x8' : x8'[i][2] <= x2.gen
      BY <1>6, <3>3, <3>4, SMTT(60)
    <3> QED BY <2>2, <3>3, <3>5
  <2> QED BY <2>1, <2>2 DEF HolderLink
<1>8. x4'["host"] = <<>> \/ \E s \in Investigator!Working \X (0..x2.gen) : x4'["host"] = <<s>>
  <2>1. CASE t = "host"
    BY <1>4, <1>6, <2>1, CalmNames
  <2>2. CASE t # "host"
    BY <1>2, <1>3, <2>2 DEF Investigator!ShapeInv, Investigator!Tasks
  <2> QED BY <2>1, <2>2
<1>9. \/ x4'["cmd"] = <<>> \/ \E s \in Investigator!Commanding \X (0..x2.gen) : x4'["cmd"] = <<s>>
      \/ \E s \in {"pause", "cleanup"} \X (0..x2.gen) :
           x4'["cmd"] = <<s, Investigator!Step("launch", x2.gen)>>
  <2>1. CASE t = "cmd"
    BY <1>4, <1>6, <2>1, CalmNames
  <2>2. CASE t # "cmd"
    BY <1>2, <1>3, <2>2 DEF Investigator!ShapeInv, Investigator!Tasks
  <2> QED BY <2>1, <2>2
<1>10. Investigator!ShapeInv'
  <2>1. Investigator!Step("launch", x2.gen) = Investigator!Step("launch", x2'.gen)
    OBVIOUS
  <2> QED BY <1>1, <1>3, <1>7, <1>8, <1>9, <2>1 DEF Investigator!ShapeInv, Investigator!Step
<1>11. Investigator!MutexInv'
  <2>1. x5' \in Investigator!Tasks \cup {"free"}
    BY <1>4
  <2>2. ASSUME NEW u \in Investigator!Tasks
        PROVE  /\ x5' = u <=> x4'[u] # <<>> /\ Head(x4'[u])[1] \in Investigator!Cleaning
               /\ x5' = u => Head(x4'[u])[2] = x2'.gen /\ x2'.active /\ x2'.cleanup
    <3>1. CASE u = t
      BY <1>4, <1>5, <3>1 DEF Investigator!Tasks
    <3>2. CASE u # t
      <4>1. x5' # u
        BY <1>4, <3>2, <2>2 DEF Investigator!Tasks
      <4>2. ~(x4[u] # <<>> /\ Head(x4[u])[1] \in Investigator!Cleaning)
        BY <1>1, <1>2, <3>2 DEF Investigator!MutexInv
      <4> QED BY <1>3, <3>2, <4>1, <4>2
    <3> QED BY <3>1, <3>2
  <2> QED BY <2>1, <2>2 DEF Investigator!MutexInv, Investigator!GenOf
<1>12. ~Investigator!Launching'
  <2>1. CASE t = "cmd"
    <3>1. CASE x4'["cmd"] = <<>>
      <4>1. Len(x4'["cmd"]) = 0
        BY <3>1
      <4>2. Len(x4'["cmd"]) # 2
        BY <4>1
      <4>3. ~Investigator!At("cmd", "launch")' /\ ~Investigator!At("cmd", "pause")'
        BY <3>1 DEF Investigator!At
      <4> QED BY <4>2, <4>3 DEF Investigator!Launching
    <3>2. CASE \E n \in Investigator!Cleaning : x4'["cmd"] = <<<<n, x2.gen>>>>
      <4>1. PICK n \in Investigator!Cleaning : x4'["cmd"] = <<<<n, x2.gen>>>>
        BY <3>2
      <4>2. Len(x4'["cmd"]) = 1 /\ Head(x4'["cmd"])[1] = n
        BY <1>5, <2>1, <4>1
      <4>3. n \notin {"pause", "launch"}
        BY CalmNames
      <4> QED BY <4>2, <4>3, SMTT(60) DEF Investigator!Launching, Investigator!At
    <3> QED BY <1>4, <2>1, <3>1, <3>2
  <2>2. CASE t # "cmd"
    <3>1. x4'["cmd"] = x4["cmd"]
      BY <1>3, <2>2 DEF Investigator!Tasks
    <3> QED BY <1>1, <3>1 DEF Investigator!Launching, Investigator!At
  <2> QED BY <2>1, <2>2
<1>13. Investigator!LinkInv'
  <2>1. ASSUME x7' # "down" PROVE x2'.active /\ x2'.radio # "idle" /\ x7' = x7 /\ x8' = x8
    BY <1>7, <2>1 DEF HolderLink
  <2>2. x9' # 0 => x7' = "up"
    BY DEF HolderLink
  <2>3. ASSUME x7' # "down", NEW i \in DOMAIN x8', x8'[i][2] = x2.gen PROVE x8'[i][1] = "up"
    BY <1>2, <2>1, <2>3 DEF Investigator!LinkInv
  <2>4. ASSUME x7' # "down", NEW u \in Investigator!Tasks, x4'[u] # <<>>, Head(x4'[u])[2] = x2.gen
        PROVE  Head(x4'[u])[1] \notin {"is_down", "absent", "refused"}
    <3>1. CASE u = t
      <4>1. PICK n \in Investigator!Cleaning : /\ x4'[t] = <<<<n, x2.gen>>>>
                                               /\ n \in {"is_down", "absent"} => x7' = "down"
        BY <1>4, <2>4, <3>1
      <4>2. n \notin {"is_down", "absent", "refused"}
        BY <2>4, <4>1, CalmNames
      <4> QED BY <1>5, <3>1, <4>1, <4>2
    <3>2. CASE u # t
      BY <1>2, <1>3, <2>1, <2>4, <3>2 DEF Investigator!LinkInv, Investigator!At, Investigator!GenOf
    <3> QED BY <3>1, <3>2
  <2>5. x7' \in {"down", "connecting", "up"}
    BY <2>1, FenceIs
  <2> QED BY <2>1, <2>2, <2>3, <2>4, <2>5 DEF Investigator!LinkInv, Investigator!At, Investigator!GenOf
<1>14. Investigator!EndsInv'
  <2>1. x12' = x13' + (IF x2'.active /\ ~x2'.end THEN 1 ELSE 0)
    BY <1>1
  <2> QED BY <1>1, <2>1 DEF Investigator!EndsInv
<1> QED BY <1>10, <1>11, <1>12, <1>13, <1>14 DEF Investigator!BehindInv, Investigator!LaunchInv

LEMMA CleaningNames ==
    /\ {"act", "cancel", "is_up", "is_down", "unknown", "terminate", "absent", "stays", "resume"}
         = Investigator!Cleaning
BY DEF Investigator!Cleaning

LEMMA CleanupActsKeeps ==
    ASSUME Investigator!BehindInv, NEW t \in Investigator!Tasks, Investigator!CleanupActs(t)
    PROVE  Investigator!BehindInv'
<1> DEFINE g == Investigator!GenOf(t)
<1>1. /\ Investigator!At(t, "act") /\ UNCHANGED <<x7, x8, x9, x12, x13>>
  BY DEF Investigator!CleanupActs, Investigator!Wire, Investigator!Radio
<1>2. \/ /\ Investigator!Then(t, <<>>) /\ x5' = "free"
         /\ x2' = x2 \/ (Investigator!CanRelease /\ x2' = Investigator!NoFence(x2.gen))
      \/ /\ x2.radio = "connecting" /\ x2' = [x2 EXCEPT !.radio = "cancelling"]
         /\ Investigator!Then(t, <<Investigator!Step("cancel", g)>>) /\ x5' = x5
      \/ /\ x2.radio = "connected" /\ x2' = [x2 EXCEPT !.radio = "terminating"]
         /\ Investigator!Then(t, <<Investigator!Step("terminate", g)>>) /\ x5' = x5
      \/ /\ Investigator!Then(t, <<Investigator!Step("resume", g)>>) /\ x2' = x2 /\ x5' = x5
  BY DEF Investigator!CleanupActs
<1>3. "act" \in Investigator!Cleaning
  BY DEF Investigator!Cleaning
<1>4. /\ x5 = t /\ x2.active /\ x2.cleanup /\ g = x2.gen /\ x2.end
  BY <1>1, <1>3, Holding
<1>5. /\ x2 \in Investigator!FenceSet /\ x7 # "down" => x2.radio # "idle"
  BY FenceIs
<1>6. x9 # 0 => x7 = "up"
  BY FenceIs
<1>7. CASE Investigator!Then(t, <<>>) /\ x5' = "free" /\ x2' = x2
  BY <1>1, <1>3, <1>4, <1>6, <1>7, FenceIs, HolderStep DEF HolderEnd, HolderLink
<1>8. CASE /\ Investigator!Then(t, <<>>) /\ x5' = "free"
           /\ Investigator!CanRelease /\ x2' = Investigator!NoFence(x2.gen)
  <2>1. x2.radio = "idle" /\ x7 = "down"
    BY <1>8, FenceIs DEF Investigator!CanRelease
  <2>2. x2' \in Investigator!FenceSet /\ x2'.gen = x2.gen /\ ~x2'.active /\ ~x2'.cleanup
    BY <1>8, FenceIs DEF Investigator!NoFence, Investigator!FenceSet
  <2> QED BY <1>1, <1>3, <1>6, <1>8, <2>1, <2>2, HolderStep DEF HolderEnd, HolderLink
<1>9. ASSUME NEW r \in {"cancelling", "terminating"}, NEW n \in {"cancel", "terminate"},
             x2' = [x2 EXCEPT !.radio = r],
             Investigator!Then(t, <<Investigator!Step(n, g)>>), x5' = x5
      PROVE  Investigator!BehindInv'
  <2>1. /\ x2' \in Investigator!FenceSet /\ x2'.gen = x2.gen /\ x2'.active /\ x2'.cleanup /\ x2'.end
        /\ x2'.radio # "idle"
    BY <1>4, <1>9, FenceIs DEF Investigator!FenceSet
  <2>2. HolderEnd(t)
    BY <1>4, <1>9, <2>1, CleaningNames, SMTT(60) DEF HolderEnd
  <2>3. HolderLink
    BY <1>1, <1>6, <2>1 DEF HolderLink
  <2> QED BY <1>1, <1>3, <2>1, <2>2, <2>3, HolderStep
<1>10. CASE /\ Investigator!Then(t, <<Investigator!Step("resume", g)>>) /\ x2' = x2 /\ x5' = x5
  <2>1. HolderEnd(t)
    BY <1>4, <1>10, CleaningNames DEF HolderEnd
  <2>2. HolderLink
    BY <1>1, <1>4, <1>6, <1>10, FenceIs DEF HolderLink
  <2> QED BY <1>1, <1>3, <1>4, <1>10, <2>1, <2>2, FenceIs, HolderStep
<1> QED BY <1>2, <1>7, <1>8, <1>9, <1>10

\* A step that leaves the fence alone.
LEMMA HolderAlone ==
    ASSUME Investigator!BehindInv, NEW t \in Investigator!Tasks, NEW m \in Investigator!Cleaning,
           Investigator!At(t, m), HolderEnd(t), HolderLink, x2' = x2, x12' = x12, x13' = x13
    PROVE  Investigator!BehindInv'
<1>1. x2.active /\ x2.cleanup /\ x2.end
  BY Holding
<1> QED BY <1>1, FenceIs, HolderStep

LEMMA CancelConnectKeeps ==
    ASSUME Investigator!BehindInv, NEW t \in Investigator!Tasks, Investigator!CancelConnect(t)
    PROVE  Investigator!BehindInv'
<1> DEFINE g == Investigator!GenOf(t)
<1>1. /\ Investigator!At(t, "cancel") /\ UNCHANGED <<x2, x9, x12, x13>>
  BY DEF Investigator!CancelConnect, Investigator!Wire
<1>2. "cancel" \in Investigator!Cleaning
  BY DEF Investigator!Cleaning
<1>3. x5 = t /\ x2.active /\ x2.cleanup /\ g = x2.gen
  BY <1>1, <1>2, Holding
<1>4. CASE /\ x7 = "connecting" /\ x7' = "down" /\ x8' = Append(x8, <<"failed", x2.gen>>)
           /\ Investigator!Then(t, <<>>) /\ x5' = "free"
  <2>1. x9' = 0
    BY <1>1, <1>4, FenceIs
  <2> QED BY <1>1, <1>2, <1>4, <2>1, HolderAlone DEF HolderEnd, HolderLink
<1>5. CASE /\ x7 # "connecting"
           /\ Investigator!Then(t, <<Investigator!Step(IF x7 = "up" THEN "is_up" ELSE "is_down", g)>>)
           /\ UNCHANGED <<x7, x8, x5>>
  <2>1. CASE x7 = "up"
    <3>1. Investigator!Then(t, <<Investigator!Step("is_up", x2.gen)>>)
      BY <1>3, <1>5, <2>1
    <3>2. HolderEnd(t)
      BY <1>1, <1>3, <1>5, <3>1, CleaningNames DEF HolderEnd
    <3> QED BY <1>1, <1>2, <1>3, <1>5, <2>1, <3>2, FenceIs, HolderAlone DEF HolderLink
  <2>2. CASE x7 # "up"
    <3>1. Investigator!Then(t, <<Investigator!Step("is_down", x2.gen)>>)
      BY <1>3, <1>5, <2>2
    <3>2. x7' = "down"
      BY <1>5, <2>2, FenceIs
    <3>3. HolderEnd(t)
      BY <1>1, <1>3, <1>5, <3>1, <3>2, CleaningNames DEF HolderEnd
    <3> QED BY <1>1, <1>2, <1>3, <1>5, <2>2, <3>3, FenceIs, HolderAlone DEF HolderLink
  <2> QED BY <2>1, <2>2
<1>6. CASE /\ Investigator!Then(t, <<Investigator!Step("unknown", g)>>) /\ UNCHANGED <<x7, x8, x5>>
  <2>1. HolderEnd(t)
    BY <1>1, <1>3, <1>6, CleaningNames DEF HolderEnd
  <2> QED BY <1>1, <1>2, <1>3, <1>6, <2>1, FenceIs, HolderAlone DEF HolderLink
<1> QED BY <1>4, <1>5, <1>6 DEF Investigator!CancelConnect

LEMMA ReconcileKeeps ==
    ASSUME Investigator!BehindInv, NEW t \in Investigator!Tasks, Investigator!Reconcile(t)
    PROVE  Investigator!BehindInv'
<1> DEFINE g == Investigator!GenOf(t)
<1>1. PICK found \in {"is_up", "is_down", "unknown"} :
        /\ Investigator!At(t, found)
        /\ x2' = IF ~(Investigator!Current(g) /\ x2.radio = "cancelling") THEN x2
                 ELSE [x2 EXCEPT !.conn = found = "is_up",
                          !.radio = CASE found = "is_up" -> "connected"
                                      [] found = "is_down" -> "idle" [] OTHER -> "connecting"]
        /\ IF found = "unknown" THEN x5' = "free" /\ Investigator!Then(t, <<>>)
           ELSE x5' = x5 /\ Investigator!Then(t, <<Investigator!Step("act", g)>>)
  BY DEF Investigator!Reconcile
<1>2. UNCHANGED <<x7, x8, x9, x12, x13>>
  BY DEF Investigator!Reconcile, Investigator!Wire, Investigator!Radio
<1>3. found \in Investigator!Cleaning /\ "act" \in Investigator!Cleaning
  BY DEF Investigator!Cleaning
<1>4. /\ x5 = t /\ x2.active /\ x2.cleanup /\ g = x2.gen /\ x2.end /\ x4[t] # <<>>
  BY <1>1, <1>3, Holding
<1>5. /\ x2' \in Investigator!FenceSet /\ x2'.gen = x2.gen /\ x2'.active = x2.active
      /\ x2'.cleanup = x2.cleanup /\ x2'.end = x2.end
      /\ x2'.radio = "idle" => found = "is_down" \/ x2.radio = "idle"
  <2>1. CASE ~(Investigator!Current(g) /\ x2.radio = "cancelling")
    BY <1>1, <2>1, FenceIs
  <2>2. ASSUME NEW b \in BOOLEAN, NEW r \in {"connected", "idle", "connecting"},
               x2' = [x2 EXCEPT !.conn = b, !.radio = r]
        PROVE  /\ x2' \in Investigator!FenceSet /\ x2'.gen = x2.gen /\ x2'.active = x2.active
               /\ x2'.cleanup = x2.cleanup /\ x2'.end = x2.end /\ x2'.radio = r
    BY <2>2, FenceIs DEF Investigator!FenceSet
  <2>3. CASE Investigator!Current(g) /\ x2.radio = "cancelling"
    <3>1. PICK b \in BOOLEAN, r \in {"connected", "idle", "connecting"} :
            x2' = [x2 EXCEPT !.conn = b, !.radio = r] /\ (r = "idle" => found = "is_down")
      <4>1. CASE found = "is_up"
        BY <1>1, <2>3, <4>1
      <4>2. CASE found = "is_down"
        BY <1>1, <2>3, <4>2
      <4>3. CASE found = "unknown"
        BY <1>1, <2>3, <4>3
      <4> QED BY <4>1, <4>2, <4>3, ZenonT(60)
    <3> QED BY <2>2, <3>1
  <2> QED BY <2>1, <2>3
<1>6. x7 # "down" => found # "is_down"
  BY <1>1, <1>4 DEF Investigator!BehindInv, Investigator!LinkInv
<1>7. HolderEnd(t)
  BY <1>1, <1>3, <1>4, <1>5 DEF HolderEnd
<1>8. HolderLink
  BY <1>2, <1>4, <1>5, <1>6, FenceIs DEF HolderLink
<1> QED BY <1>1, <1>2, <1>3, <1>4, <1>5, <1>7, <1>8, HolderStep

LEMMA TerminateKeeps ==
    ASSUME Investigator!BehindInv, NEW t \in Investigator!Tasks, Investigator!Terminate(t)
    PROVE  Investigator!BehindInv'
<1> DEFINE g == Investigator!GenOf(t)
<1>1. /\ Investigator!At(t, "terminate") /\ UNCHANGED <<x2, x12, x13>>
  BY DEF Investigator!Terminate, Investigator!Wire
<1>2. "terminate" \in Investigator!Cleaning
  BY DEF Investigator!Cleaning
<1>3. x5 = t /\ x2.active /\ x2.cleanup /\ g = x2.gen
  BY <1>1, <1>2, Holding
<1>4. CASE /\ x7 = "up" /\ x7' = "down" /\ x9' = 0 /\ x8' = Append(x8, <<"lost", x2.gen>>)
           /\ Investigator!Then(t, <<>>) /\ x5' = "free"
  BY <1>1, <1>2, <1>4, HolderAlone DEF HolderEnd, HolderLink
<1>5. CASE /\ x7 = "down" /\ Investigator!Then(t, <<Investigator!Step("absent", g)>>)
           /\ UNCHANGED <<x7, x8, x9, x5>>
  <2>1. HolderEnd(t)
    BY <1>1, <1>3, <1>5, CleaningNames DEF HolderEnd
  <2> QED BY <1>1, <1>2, <1>3, <1>5, <2>1, FenceIs, HolderAlone DEF HolderLink
<1>6. CASE /\ Investigator!Then(t, <<Investigator!Step("stays", g)>>) /\ UNCHANGED <<x7, x8, x9, x5>>
  <2>1. HolderEnd(t)
    BY <1>1, <1>3, <1>6, CleaningNames DEF HolderEnd
  <2> QED BY <1>1, <1>2, <1>3, <1>6, <2>1, FenceIs, HolderAlone DEF HolderLink
<1> QED BY <1>4, <1>5, <1>6 DEF Investigator!Terminate

LEMMA TerminateFailedKeeps ==
    ASSUME Investigator!BehindInv, NEW t \in Investigator!Tasks, Investigator!TerminateFailed(t)
    PROVE  Investigator!BehindInv'
<1> DEFINE g == Investigator!GenOf(t)
<1>1. PICK absent \in BOOLEAN :
        /\ Investigator!At(t, IF absent THEN "absent" ELSE "stays")
        /\ x2' = IF ~Investigator!Current(g) \/ x2.radio # "terminating" THEN x2
                 ELSE IF absent THEN [x2 EXCEPT !.radio = "idle", !.conn = FALSE]
                 ELSE [x2 EXCEPT !.radio = "connected"]
        /\ IF absent THEN Investigator!Then(t, <<Investigator!Step("act", g)>>) /\ x5' = x5
           ELSE Investigator!Then(t, <<>>) /\ x5' = "free"
  BY DEF Investigator!TerminateFailed
<1>2. UNCHANGED <<x7, x8, x9, x12, x13>>
  BY DEF Investigator!TerminateFailed, Investigator!Wire, Investigator!Radio
<1>3. PICK n \in {"absent", "stays"} : Investigator!At(t, n) /\ (absent <=> n = "absent")
  BY <1>1
<1>4. n \in Investigator!Cleaning /\ "act" \in Investigator!Cleaning
  BY DEF Investigator!Cleaning
<1>5. /\ x5 = t /\ x2.active /\ x2.cleanup /\ g = x2.gen /\ x2.end /\ x4[t] # <<>>
  BY <1>3, <1>4, Holding
<1>6. /\ x2' \in Investigator!FenceSet /\ x2'.gen = x2.gen /\ x2'.active = x2.active
      /\ x2'.cleanup = x2.cleanup /\ x2'.end = x2.end
      /\ x2'.radio = "idle" => absent \/ x2.radio = "idle"
  BY <1>1, FenceIs DEF Investigator!FenceSet
<1>7. x7 # "down" => ~absent
  BY <1>3, <1>5 DEF Investigator!BehindInv, Investigator!LinkInv
<1>8. HolderEnd(t)
  BY <1>1, <1>4, <1>5, <1>6 DEF HolderEnd
<1>9. HolderLink
  BY <1>2, <1>5, <1>6, <1>7, FenceIs DEF HolderLink
<1> QED BY <1>2, <1>3, <1>4, <1>5, <1>6, <1>8, <1>9, HolderStep

LEMMA ResumeScanKeeps ==
    ASSUME Investigator!BehindInv, NEW t \in Investigator!Tasks, Investigator!ResumeScan(t)
    PROVE  Investigator!BehindInv'
<1> DEFINE g == Investigator!GenOf(t)
<1>1. /\ Investigator!At(t, "resume") /\ UNCHANGED <<x7, x8, x9, x12, x13>>
      /\ \/ x2' = [x2 EXCEPT !.resume = FALSE] /\ Investigator!Then(t, <<Investigator!Step("act", g)>>)
            /\ x5' = x5
         \/ x2' = x2 /\ Investigator!Then(t, <<>>) /\ x5' = "free"
  BY DEF Investigator!ResumeScan, Investigator!Wire
<1>2. "resume" \in Investigator!Cleaning /\ "act" \in Investigator!Cleaning
  BY DEF Investigator!Cleaning
<1>3. /\ x5 = t /\ x2.active /\ x2.cleanup /\ g = x2.gen /\ x2.end
  BY <1>1, <1>2, Holding
<1>4. /\ x2' \in Investigator!FenceSet /\ x2'.gen = x2.gen /\ x2'.active = x2.active
      /\ x2'.cleanup = x2.cleanup /\ x2'.end = x2.end /\ x2'.radio = x2.radio
  BY <1>1, FenceIs DEF Investigator!FenceSet
<1>5. HolderEnd(t)
  BY <1>1, <1>2, <1>3, <1>4 DEF HolderEnd
<1>6. HolderLink
  BY <1>1, <1>3, <1>4, FenceIs DEF HolderLink
<1> QED BY <1>1, <1>2, <1>3, <1>4, <1>5, <1>6, HolderStep

CmdForm ==
    \/ \E s \in Investigator!Commanding \X (0..x2.gen) : x4'["cmd"] = <<s>>
    \/ \E s \in {"pause", "cleanup"} \X (0..x2.gen) :
         x4'["cmd"] = <<s, Investigator!Step("launch", x2.gen)>>

\* The listener goes on with a launch.
LEMMA CmdStep ==
    ASSUME Investigator!BehindInv, x5 # "cmd", x5' = x5, DOMAIN x4' = Investigator!Tasks,
           x4'["host"] = x4["host"], CmdForm, SameFence, x8' = x8, x9' = x9, x12' = x12, x13' = x13,
           Head(x4'["cmd"])[1] \notin Investigator!Cleaning,
           Investigator!LaunchInv', x7' # "down" => Head(x4'["cmd"])[1] # "refused",
           x7' # "down" => x2'.radio # "idle",
           \/ x7' = x7
           \/ /\ x7 = "down" /\ x7' = "connecting" /\ x2.active
              /\ \A i \in DOMAIN x8 : x8[i][2] # x2.gen
              /\ x4["host"] # <<>> => Investigator!GenOf("host") # x2.gen
    PROVE  Investigator!BehindInv'
<1>1. /\ Investigator!ShapeInv /\ Investigator!MutexInv /\ Investigator!LinkInv /\ Investigator!EndsInv
  BY DEF Investigator!BehindInv
<1>2. /\ x2' \in Investigator!FenceSet /\ x2'.gen = x2.gen /\ x2'.active = x2.active
      /\ x2'.cleanup = x2.cleanup /\ x2'.end = x2.end
  BY DEF SameFence
<1>3. Investigator!ShapeInv'
  <2>1. x4'["host"] = <<>> \/ \E s \in Investigator!Working \X (0..x2.gen) : x4'["host"] = <<s>>
    BY <1>1 DEF Investigator!ShapeInv
  <2>2. \/ x4'["cmd"] = <<>> \/ \E s \in Investigator!Commanding \X (0..x2.gen) : x4'["cmd"] = <<s>>
        \/ \E s \in {"pause", "cleanup"} \X (0..x2.gen) :
             x4'["cmd"] = <<s, Investigator!Step("launch", x2.gen)>>
    BY DEF CmdForm
  <2>3. x8' \in Seq({"up", "failed", "lost"} \X Nat) /\ \A i \in DOMAIN x8' : x8'[i][2] <= x2.gen
    BY <1>1, EventsAre
  <2>4. x2'.active => x2'.gen # 0
    BY <1>1, <1>2 DEF Investigator!ShapeInv
  <2> QED BY <1>2, <2>1, <2>2, <2>3, <2>4 DEF Investigator!ShapeInv, Investigator!Step
<1>4. Investigator!MutexInv'
  <2>1. x5' \in Investigator!Tasks \cup {"free"}
    BY <1>1 DEF Investigator!MutexInv
  <2>2. ASSUME NEW u \in Investigator!Tasks
        PROVE  /\ x5' = u <=> x4'[u] # <<>> /\ Head(x4'[u])[1] \in Investigator!Cleaning
               /\ x5' = u => Head(x4'[u])[2] = x2'.gen /\ x2'.active /\ x2'.cleanup
    <3>1. CASE u = "cmd"
      BY <3>1
    <3>2. CASE u = "host"
      <4>1. /\ x5 = u <=> x4[u] # <<>> /\ Head(x4[u])[1] \in Investigator!Cleaning
            /\ x5 = u => Head(x4[u])[2] = x2.gen /\ x2.active /\ x2.cleanup
        BY <1>1, <2>2 DEF Investigator!MutexInv, Investigator!GenOf
      <4> QED BY <1>2, <3>2, <4>1
    <3> QED BY <2>2, <3>1, <3>2 DEF Investigator!Tasks
  <2> QED BY <2>1, <2>2 DEF Investigator!MutexInv, Investigator!GenOf
<1>5. Investigator!LinkInv'
  <2>1. x7' \in {"down", "connecting", "up"}
    BY FenceIs
  <2>2. x9' # 0 => x7' = "up"
    BY FenceIs
  <2>3. ASSUME x7' # "down" PROVE x2'.active /\ x2'.radio # "idle"
    BY <1>1, <1>2, <2>3 DEF Investigator!LinkInv
  <2>4. ASSUME x7' # "down", NEW i \in DOMAIN x8', x8'[i][2] = x2.gen PROVE x8'[i][1] = "up"
    BY <1>1, <2>4 DEF Investigator!LinkInv
  <2>5. ASSUME x7' # "down", NEW u \in Investigator!Tasks, x4'[u] # <<>>, Head(x4'[u])[2] = x2.gen
        PROVE  Head(x4'[u])[1] \notin {"is_down", "absent", "refused"}
    <3>1. CASE u = "cmd"
      <4>1. Head(x4'[u])[1] \notin {"is_down", "absent"}
        BY <3>1 DEF Investigator!Cleaning
      <4> QED BY <2>5, <3>1, <4>1
    <3>2. CASE u = "host" /\ x7' = x7
      BY <1>1, <2>5, <3>2 DEF Investigator!LinkInv, Investigator!At, Investigator!GenOf
    <3>3. CASE u = "host" /\ x7' # x7
      BY <2>5, <3>3 DEF Investigator!GenOf
    <3> QED BY <2>5, <3>1, <3>2, <3>3 DEF Investigator!Tasks
  <2> QED BY <1>2, <2>1, <2>2, <2>3, <2>4, <2>5 DEF Investigator!LinkInv, Investigator!At, Investigator!GenOf
<1>6. Investigator!EndsInv'
  BY <1>1, QuietEnds
<1> QED BY <1>3, <1>4, <1>5, <1>6 DEF Investigator!BehindInv

\* The listener gives the launch up and cleans up.
LEMMA GivesUp ==
    ASSUME Investigator!BehindInv, x5 # "cmd", x4' = [x4 EXCEPT !["cmd"] = Investigator!CleanUp],
           UNCHANGED <<x2, x5, x7, x8, x9, x12, x13>>
    PROVE  Investigator!BehindInv'
<1>1. "cmd" \in Investigator!Tasks /\ Investigator!ShapeInv
  BY DEF Investigator!Tasks, Investigator!BehindInv
<1>2. QuietTodo /\ x4'["cmd"] = Investigator!CleanUp
  BY <1>1, CalmNext, CalmSet
<1>3. Investigator!Launching /\ x4'["cmd"] = x4["cmd"] =>
             /\ x2'.radio = x2.radio
             /\ x1' = x1 \/ x1' = [x1 EXCEPT !.late = TRUE]
             /\ x4'["host"] # <<>> => Head(x4'["host"])[2] # x2.gen
  <2>1. Len(Investigator!CleanUp) = 1 /\ Head(Investigator!CleanUp)[1] = "cleanup"
    BY OneStep DEF Investigator!CleanUp, Investigator!Step
  <2>2. x4["cmd"] = Investigator!CleanUp => ~Investigator!Launching
    BY <2>1 DEF Investigator!Launching, Investigator!At
  <2> QED BY <1>2, <2>2
<1> QED BY <1>2, <1>3, FenceIs, SameAsEver, QuietStep DEF EventsKept

LEMMA LaunchStays ==
    ASSUME Investigator!BehindInv, Investigator!Launching, x4'["host"] = x4["host"],
           UNCHANGED <<x1, x2, x7, x8>>,
           Investigator!At("cmd", "launch")' \/ Investigator!At("cmd", "pause")' =>
             Head(x4'["cmd"])[2] = x2.gen
    PROVE  Investigator!LaunchInv'
BY DEF Investigator!BehindInv, Investigator!LaunchInv, Investigator!GenOf

LEMMA PauseKeeps ==
    ASSUME Investigator!BehindInv, Investigator!Pause
    PROVE  Investigator!BehindInv'
<1>1. /\ Investigator!At("cmd", "pause") /\ UNCHANGED <<x2, x5, x7, x8, x9, x12, x13>>
      /\ \/ x4' = [x4 EXCEPT !["cmd"] = Investigator!CleanUp]
         \/ Investigator!Then("cmd", Investigator!CleanUp) /\ x1' = x1
  BY DEF Investigator!Pause, Investigator!Wire
<1>2. "cmd" \in Investigator!Tasks /\ Investigator!ShapeInv
  BY DEF Investigator!Tasks, Investigator!BehindInv
<1>3. /\ x4["cmd"] # <<>> /\ x5 # "cmd" /\ Head(x4["cmd"])[1] = "pause"
  BY <1>1, <1>2, Acting DEF Investigator!Cleaning
<1>4. Investigator!Launching
  BY <1>1 DEF Investigator!Launching
<1>5. TodoOf("cmd")
  BY <1>2, TodoCmd
<1>6. Len(x4["cmd"]) = 1 \/ Len(x4["cmd"]) = 2
  BY <1>3, <1>5 DEF TodoOf
<1>7. CASE x4' = [x4 EXCEPT !["cmd"] = Investigator!CleanUp]
  BY <1>1, <1>3, <1>7, GivesUp
<1>8. CASE Investigator!Then("cmd", Investigator!CleanUp) /\ x1' = x1
  <2>1. /\ DOMAIN x4' = Investigator!Tasks
        /\ \A t \in Investigator!Tasks : t # "cmd" => x4'[t] = x4[t]
        /\ Len(x4["cmd"]) = 1 => x4'["cmd"] = <<Investigator!Step("cleanup", 0)>>
        /\ Len(x4["cmd"]) = 2 =>
             x4'["cmd"] = <<Investigator!Step("cleanup", 0), Investigator!Step("launch", x2.gen)>>
    BY <1>2, <1>3, <1>8, ThenOne DEF Investigator!CleanUp
  <2>2. <<"cleanup", 0>> \in {"pause", "cleanup"} \X (0..x2.gen) /\ "cleanup" \in Investigator!Commanding
    BY <1>2, EventsAre DEF Investigator!Commanding, Investigator!Working
  <2>3. CmdForm
    BY <1>6, <2>1, <2>2 DEF CmdForm, Investigator!Step
  <2>4. x4'["cmd"] # <<>> /\ Head(x4'["cmd"]) = Investigator!Step("cleanup", 0)
    BY <1>6, <2>1, OneStep
  <2>5. Head(x4'["cmd"])[1] = "cleanup"
    BY <2>4 DEF Investigator!Step
  <2>6. x4'["host"] = x4["host"]
    BY <2>1 DEF Investigator!Tasks
  <2>7. ~Investigator!At("cmd", "launch")' /\ ~Investigator!At("cmd", "pause")'
    BY <2>5 DEF Investigator!At
  <2>8. Investigator!LaunchInv'
    BY <1>1, <1>4, <1>8, <2>6, <2>7, LaunchStays
  <2>9. "cleanup" \notin Investigator!Cleaning
    BY DEF Investigator!Cleaning
  <2> QED BY <1>1, <1>3, <2>1, <2>3, <2>5, <2>6, <2>8, <2>9, FenceIs, SameAsEver, CmdStep
<1> QED BY <1>1, <1>7, <1>8

LEMMA LaunchKeeps ==
    ASSUME Investigator!BehindInv, Investigator!Launch
    PROVE  Investigator!BehindInv'
<1> DEFINE g == Investigator!GenOf("cmd")
           go == Investigator!Current(g) /\ ~x2.cleanup /\ Investigator!Prepared(x1, "connecting")
<1>1. /\ Investigator!At("cmd", "launch") /\ UNCHANGED <<x5, x8, x9, x12, x13>>
      /\ \/ Investigator!Then("cmd", Investigator!CleanUp) /\ UNCHANGED <<x2, x7>>
         \/ /\ go /\ x2' = [x2 EXCEPT !.op = TRUE, !.radio = "connecting"]
            /\ \/ x7' = "connecting" /\ Investigator!Then("cmd", <<Investigator!Step("connected", g)>>)
               \/ x7' = x7 /\ Investigator!Then("cmd", <<Investigator!Step("refused", g)>>)
  BY DEF Investigator!Launch, Investigator!Wire
<1>2. "cmd" \in Investigator!Tasks /\ Investigator!ShapeInv
  BY DEF Investigator!Tasks, Investigator!BehindInv
<1>3. /\ x4["cmd"] # <<>> /\ x5 # "cmd" /\ Len(x4["cmd"]) = 1 /\ g \in 0..x2.gen
      /\ Head(x4["cmd"])[1] = "launch"
  BY <1>1, <1>2, Acting DEF Investigator!Cleaning
<1>4. Investigator!Launching
  BY <1>1 DEF Investigator!Launching
<1>5. CASE Investigator!Then("cmd", Investigator!CleanUp) /\ UNCHANGED <<x2, x7>>
  <2>1. QuietTodo /\ x4'["cmd"] = Investigator!CleanUp
    BY <1>2, <1>3, <1>5, CalmNext, CalmThen
  <2>2. Head(Investigator!CleanUp)[1] = "cleanup"
    BY OneStep DEF Investigator!CleanUp, Investigator!Step
  <2>3. x4'["cmd"] # x4["cmd"]
    BY <1>3, <2>1, <2>2
  <2> QED BY <1>1, <1>5, <2>1, <2>3, FenceIs, SameAsEver, QuietStep DEF EventsKept
<1>6. CASE /\ go /\ x2' = [x2 EXCEPT !.op = TRUE, !.radio = "connecting"]
           /\ \/ x7' = "connecting" /\ Investigator!Then("cmd", <<Investigator!Step("connected", g)>>)
              \/ x7' = x7 /\ Investigator!Then("cmd", <<Investigator!Step("refused", g)>>)
  <2>1. SameFence /\ x2'.radio # "idle"
    BY <1>6, FenceIs DEF SameFence, Investigator!FenceSet
  <2>2. PICK n \in {"connected", "refused"} :
          /\ Investigator!Then("cmd", <<Investigator!Step(n, g)>>)
          /\ n = "connected" => x7' = "connecting"
          /\ n = "refused" => x7' = x7
    BY <1>6
  <2>3. /\ DOMAIN x4' = Investigator!Tasks
        /\ \A t \in Investigator!Tasks : t # "cmd" => x4'[t] = x4[t]
        /\ x4'["cmd"] = <<Investigator!Step(n, g)>>
    BY <1>2, <1>3, <2>2, ThenOne
  <2>4. x4'["host"] = x4["host"]
    BY <2>3 DEF Investigator!Tasks
  <2>5. x4'["cmd"] # <<>> /\ Head(x4'["cmd"]) = Investigator!Step(n, g) /\ Len(x4'["cmd"]) = 1
    BY <2>3, OneStep
  <2>6. Head(x4'["cmd"])[1] = n
    BY <2>5 DEF Investigator!Step
  <2>7. n \notin Investigator!Cleaning /\ n \in Investigator!Commanding /\ n \notin {"launch", "pause"}
    BY DEF Investigator!Cleaning, Investigator!Commanding
  <2>8. CmdForm
    BY <1>3, <2>3, <2>7 DEF CmdForm, Investigator!Step
  <2>9. ~Investigator!Launching'
    BY <2>5, <2>6, <2>7 DEF Investigator!Launching, Investigator!At
  <2>10. Investigator!LaunchInv'
    BY <2>9 DEF Investigator!LaunchInv
  <2>11. /\ x7 = "down" /\ x2.active /\ \A i \in DOMAIN x8 : x8[i][2] # x2.gen
         /\ x4["host"] # <<>> => Investigator!GenOf("host") # x2.gen
    BY <1>4, WhileLaunching
  <2> QED BY <1>1, <1>3, <2>1, <2>2, <2>3, <2>4, <2>6, <2>7, <2>8, <2>10, <2>11, CmdStep
<1> QED BY <1>1, <1>5, <1>6

LEMMA CleanupBeginsKeeps ==
    ASSUME Investigator!BehindInv, NEW t \in Investigator!Tasks, Investigator!CleanupBegins(t)
    PROVE  Investigator!BehindInv'
<1>1. /\ Investigator!At(t, "cleanup") /\ x5 = "free" /\ UNCHANGED <<x7, x8, x9, x12>>
  BY DEF Investigator!CleanupBegins, Investigator!Radio
<1>2. /\ Investigator!ShapeInv /\ Investigator!MutexInv /\ Investigator!LinkInv /\ Investigator!EndsInv
  BY DEF Investigator!BehindInv
<1>3. /\ x4[t] # <<>> /\ Head(x4[t])[1] = "cleanup" /\ TodoOf(t)
  BY <1>1, <1>2, Acting, TodoAre
<1>4. CASE x2.active /\ x1.pending
  <2> DEFINE resume == x1.resume /\ ~x11
             kept == (x2.resume /\ ~x11) \/ resume
  <2>1. /\ x2' = [x2 EXCEPT !.cleanup = TRUE, !.end = TRUE, !.resume = kept]
        /\ x13' = IF x2.end THEN x13 ELSE x13 + 1
        /\ x5' = t /\ Investigator!Then(t, <<Investigator!Step("act", x2.gen)>>)
    BY <1>4 DEF Investigator!CleanupBegins
  <2>2. ~Investigator!Launching
    BY <1>4, WhileLaunching
  <2>3. Len(x4[t]) = 1
    <3>1. Len(x4[t]) \in {1, 2}
      BY <1>3 DEF TodoOf
    <3>2. Len(x4[t]) # 2
      BY <1>3, <2>2 DEF TodoOf, Investigator!Launching
    <3> QED BY <3>1, <3>2
  <2>4. kept \in BOOLEAN
    OBVIOUS
  <2> HIDE DEF kept
  <2>5. /\ x2' \in Investigator!FenceSet /\ x2'.gen = x2.gen /\ x2'.active /\ x2'.cleanup /\ x2'.end
        /\ x2'.radio = x2.radio
    BY <1>4, <2>1, <2>4, FenceIs DEF Investigator!FenceSet
  <2>6. /\ DOMAIN x4' = Investigator!Tasks
        /\ \A u \in Investigator!Tasks : u # t => x4'[u] = x4[u]
        /\ x4'[t] = <<Investigator!Step("act", x2.gen)>>
    BY <1>2, <1>3, <2>1, <2>3, ThenOne
  <2>7. x4'[t] # <<>> /\ Head(x4'[t]) = Investigator!Step("act", x2.gen) /\ Len(x4'[t]) = 1
    BY <2>6, OneStep
  <2>8. Head(x4'[t])[1] = "act" /\ Head(x4'[t])[2] = x2.gen
    BY <2>7 DEF Investigator!Step
  <2>9. <<"act", x2.gen>> \in Investigator!Working \X (0..x2.gen) /\ x2.gen \in Nat
        /\ "act" \in Investigator!Cleaning /\ Investigator!Working \subseteq Investigator!Commanding
    BY <1>2, EventsAre DEF Investigator!Working, Investigator!Cleaning, Investigator!Commanding
  <2>10. Investigator!ShapeInv'
    <3>1. x4'["host"] = <<>> \/ \E s \in Investigator!Working \X (0..x2.gen) : x4'["host"] = <<s>>
      <4>1. CASE t = "host"
        BY <2>6, <2>9, <4>1 DEF Investigator!Step
      <4>2. CASE t # "host"
        BY <1>2, <2>6, <4>2 DEF Investigator!ShapeInv, Investigator!Tasks
      <4> QED BY <4>1, <4>2
    <3>2. \/ x4'["cmd"] = <<>> \/ \E s \in Investigator!Commanding \X (0..x2.gen) : x4'["cmd"] = <<s>>
          \/ \E s \in {"pause", "cleanup"} \X (0..x2.gen) :
               x4'["cmd"] = <<s, Investigator!Step("launch", x2.gen)>>
      <4>1. CASE t = "cmd"
        BY <2>6, <2>9, <4>1 DEF Investigator!Step
      <4>2. CASE t # "cmd"
        BY <1>2, <2>6, <4>2 DEF Investigator!ShapeInv, Investigator!Tasks
      <4> QED BY <4>1, <4>2
    <3>3. x8' \in Seq({"up", "failed", "lost"} \X Nat) /\ \A i \in DOMAIN x8' : x8'[i][2] <= x2.gen
      BY <1>1, <1>2, EventsAre
    <3>4. x2'.active => x2'.gen # 0
      BY <1>2, <1>4, <2>5 DEF Investigator!ShapeInv
    <3> QED BY <2>5, <2>6, <3>1, <3>2, <3>3, <3>4 DEF Investigator!ShapeInv, Investigator!Step
  <2>11. Investigator!MutexInv'
    <3>1. x5' \in Investigator!Tasks \cup {"free"}
      BY <2>1
    <3>2. ASSUME NEW u \in Investigator!Tasks
          PROVE  /\ x5' = u <=> x4'[u] # <<>> /\ Head(x4'[u])[1] \in Investigator!Cleaning
                 /\ x5' = u => Head(x4'[u])[2] = x2'.gen /\ x2'.active /\ x2'.cleanup
      <4>1. CASE u = t
        BY <2>1, <2>5, <2>7, <2>8, <2>9, <4>1
      <4>2. CASE u # t
        <5>1. x5 # u
          BY <1>1, <3>2 DEF Investigator!Tasks
        <5>2. ~(x4[u] # <<>> /\ Head(x4[u])[1] \in Investigator!Cleaning)
          BY <1>2, <3>2, <5>1 DEF Investigator!MutexInv
        <5> QED BY <2>1, <2>6, <3>2, <4>2, <5>2
      <4> QED BY <4>1, <4>2
    <3> QED BY <3>1, <3>2 DEF Investigator!MutexInv, Investigator!GenOf
  <2>12. ~Investigator!Launching'
    <3>1. CASE t = "cmd"
      BY <2>7, <2>8, <3>1, SMTT(60) DEF Investigator!Launching, Investigator!At
    <3>2. CASE t # "cmd"
      <4>1. x4'["cmd"] = x4["cmd"]
        BY <2>6, <3>2 DEF Investigator!Tasks
      <4> QED BY <2>2, <4>1 DEF Investigator!Launching, Investigator!At
    <3> QED BY <3>1, <3>2
  <2>13. Investigator!LinkInv'
    <3>1. x7' \in {"down", "connecting", "up"} /\ (x9' # 0 => x7' = "up")
      BY <1>1, FenceIs
    <3>2. x7' # "down" => x2'.active /\ x2'.radio # "idle"
      BY <1>1, <1>4, <2>5, FenceIs
    <3>3. ASSUME x7' # "down", NEW i \in DOMAIN x8', x8'[i][2] = x2.gen PROVE x8'[i][1] = "up"
      BY <1>1, <1>2, <3>3 DEF Investigator!LinkInv
    <3>4. ASSUME x7' # "down", NEW u \in Investigator!Tasks, x4'[u] # <<>>, Head(x4'[u])[2] = x2.gen
          PROVE  Head(x4'[u])[1] \notin {"is_down", "absent", "refused"}
      <4>1. CASE u = t
        BY <2>8, <4>1
      <4>2. CASE u # t
        BY <1>1, <1>2, <2>6, <3>4, <4>2 DEF Investigator!LinkInv, Investigator!At, Investigator!GenOf
      <4> QED BY <4>1, <4>2
    <3> QED BY <2>5, <3>1, <3>2, <3>3, <3>4 DEF Investigator!LinkInv, Investigator!At, Investigator!GenOf
  <2>14. Investigator!EndsInv'
    <3>1. x13 \in Nat /\ x12 = x13 + (IF x2.active /\ ~x2.end THEN 1 ELSE 0)
      BY <1>2 DEF Investigator!EndsInv
    <3>2. x13' \in Nat /\ x12' = x13' + 0
      BY <1>1, <1>4, <2>1, <3>1, FenceIs DEF Investigator!FenceSet
    <3> QED BY <2>5, <3>2 DEF Investigator!EndsInv
  <2> QED BY <2>10, <2>11, <2>12, <2>13, <2>14 DEF Investigator!BehindInv, Investigator!LaunchInv
<1>5. CASE ~(x2.active /\ x1.pending)
  <2>1. UNCHANGED <<x1, x2, x5, x13>> /\ Investigator!Then(t, <<>>)
    BY <1>5 DEF Investigator!CleanupBegins
  <2>2. x5 # t
    BY <1>1 DEF Investigator!Tasks
  <2>3. CASE Len(x4[t]) = 1
    <3>1. QuietTodo /\ x4'[t] = <<>>
      BY <1>2, <1>3, <2>1, <2>2, <2>3, CalmNext, CalmThen
    <3>2. t = "cmd" => x4'["cmd"] # x4["cmd"]
      BY <1>3, <3>1
    <3>3. t # "cmd" => x4'["host"] = <<>>
      BY <3>1 DEF Investigator!Tasks
    <3> QED BY <1>1, <2>1, <3>1, <3>2, <3>3, FenceIs, SameAsEver, QuietStep DEF EventsKept
  <2>4. CASE Len(x4[t]) = 2
    <3>1. t = "cmd"
      BY <1>3, <2>4 DEF TodoOf
    <3>2. /\ DOMAIN x4' = Investigator!Tasks
          /\ \A u \in Investigator!Tasks : u # t => x4'[u] = x4[u]
          /\ x4'[t] = <<Investigator!Step("launch", x2.gen)>>
      BY <1>2, <1>3, <2>1, <2>4, ThenNone
    <3>3. x4'["host"] = x4["host"]
      BY <3>1, <3>2 DEF Investigator!Tasks
    <3>4. Head(x4'["cmd"]) = Investigator!Step("launch", x2.gen)
      BY <3>1, <3>2, OneStep
    <3>5. Head(x4'["cmd"])[1] = "launch" /\ Head(x4'["cmd"])[2] = x2.gen
      BY <3>4 DEF Investigator!Step
    <3>6. <<"launch", x2.gen>> \in Investigator!Commanding \X (0..x2.gen)
      BY <1>2, EventsAre DEF Investigator!Commanding
    <3>7. CmdForm
      BY <3>1, <3>2, <3>6 DEF CmdForm, Investigator!Step
    <3>8. Investigator!Launching
      BY <2>4, <3>1 DEF Investigator!Launching
    <3>9. Investigator!LaunchInv'
      BY <1>1, <2>1, <3>3, <3>5, <3>8, LaunchStays
    <3>10. "launch" \notin Investigator!Cleaning
      BY DEF Investigator!Cleaning
    <3> QED BY <1>1, <2>1, <2>2, <3>1, <3>2, <3>3, <3>5, <3>7, <3>9, <3>10, FenceIs, SameAsEver, CmdStep
  <2>5. Len(x4[t]) = 1 \/ Len(x4[t]) = 2
    BY <1>3 DEF TodoOf
  <2> QED BY <2>3, <2>4, <2>5
<1> QED BY <1>4, <1>5

\* The host's connection changes.
LEMMA LinkChanges ==
    ASSUME Investigator!BehindInv, x7 # "down", NEW k \in {"up", "failed", "lost"},
           x8' = Append(x8, <<k, x2.gen>>), x7' \in {"up", "down"}, x7' # "down" => k = "up",
           x9' # 0 => x7' = "up", UNCHANGED <<x1, x2, x4, x5, x12, x13>>
    PROVE  Investigator!BehindInv'
<1>1. /\ Investigator!ShapeInv /\ Investigator!MutexInv /\ Investigator!LinkInv /\ Investigator!EndsInv
  BY DEF Investigator!BehindInv
<1>2. ~Investigator!Launching
  BY WhileLaunching
<1>3. x2.gen \in Nat /\ <<k, x2.gen>> \in {"up", "failed", "lost"} \X Nat
  BY <1>1, EventsAre
<1>4. /\ x8' \in Seq({"up", "failed", "lost"} \X Nat)
      /\ \A i \in DOMAIN x8' : (i \in DOMAIN x8 /\ x8'[i] = x8[i]) \/ x8'[i] = <<k, x2.gen>>
  BY <1>1, <1>3, EventsAre, AppendOf
<1>5. \A i \in DOMAIN x8' : x8'[i][2] <= x2.gen
  <2>1. \A i \in DOMAIN x8 : x8[i][2] <= x2.gen
    BY <1>1, EventsAre
  <2> QED BY <1>3, <1>4, <2>1
<1>6. Investigator!ShapeInv'
  BY <1>1, <1>4, <1>5 DEF Investigator!ShapeInv, Investigator!Step
<1>7. Investigator!MutexInv'
  BY <1>1 DEF Investigator!MutexInv, Investigator!GenOf
<1>8. ~Investigator!Launching'
  BY <1>2 DEF Investigator!Launching, Investigator!At
<1>9. Investigator!LinkInv'
  <2>1. x2.active /\ x2.radio # "idle"
    BY <1>1 DEF Investigator!LinkInv
  <2>2. ASSUME x7' # "down", NEW i \in DOMAIN x8', x8'[i][2] = x2.gen PROVE x8'[i][1] = "up"
    <3>1. CASE i \in DOMAIN x8 /\ x8'[i] = x8[i]
      BY <1>1, <2>2, <3>1 DEF Investigator!LinkInv
    <3>2. CASE x8'[i] = <<k, x2.gen>>
      BY <2>2, <3>2
    <3> QED BY <1>4, <2>2, <3>1, <3>2
  <2>3. ASSUME NEW u \in Investigator!Tasks, x4'[u] # <<>>, Head(x4'[u])[2] = x2.gen
        PROVE  Head(x4'[u])[1] \notin {"is_down", "absent", "refused"}
    BY <1>1, <2>3 DEF Investigator!LinkInv, Investigator!At, Investigator!GenOf
  <2> QED BY <2>1, <2>2, <2>3 DEF Investigator!LinkInv, Investigator!At, Investigator!GenOf
<1>10. Investigator!EndsInv'
  BY <1>1 DEF Investigator!EndsInv
<1> QED BY <1>6, <1>7, <1>8, <1>9, <1>10 DEF Investigator!BehindInv, Investigator!LaunchInv

LEMMA LinkUpKeeps ==
    ASSUME Investigator!BehindInv, Investigator!LinkUp
    PROVE  Investigator!BehindInv'
<1>1. /\ x7 = "connecting" /\ x7' = "up" /\ x8' = Append(x8, <<"up", x2.gen>>)
      /\ UNCHANGED <<x1, x2, x4, x5, x12, x13>>
  BY DEF Investigator!LinkUp, Investigator!Wire
<1> QED BY <1>1, LinkChanges

LEMMA LinkDownKeeps ==
    ASSUME Investigator!BehindInv, Investigator!LinkDown
    PROVE  Investigator!BehindInv'
<1>1. PICK k \in {"lost", "failed"} : x8' = Append(x8, <<k, x2.gen>>)
  BY DEF Investigator!LinkDown
<1>2. x7 # "down" /\ x7' = "down" /\ x9' = 0 /\ UNCHANGED <<x1, x2, x4, x5, x12, x13>>
  BY DEF Investigator!LinkDown, Investigator!Wire
<1> QED BY <1>1, <1>2, LinkChanges

LEMMA StartKeeps ==
    ASSUME Investigator!BehindInv, Investigator!Start
    PROVE  Investigator!BehindInv'
<1>1. /\ x4["cmd"] = <<>> /\ UNCHANGED <<x5, x7, x8, x9>>
  BY DEF Investigator!Start, Investigator!Radio
<1>2. /\ Investigator!ShapeInv /\ Investigator!MutexInv /\ Investigator!LinkInv /\ Investigator!EndsInv
  BY DEF Investigator!BehindInv
<1>3. CASE x2.active
  <2>1. UNCHANGED <<x1, x2, x4, x12, x13>>
    BY <1>3 DEF Investigator!Start, Investigator!Wire
  <2>2. QuietTodo
    BY <1>2, <2>1, CalmSame
  <2>3. "cmd" \in Investigator!Tasks
    BY DEF Investigator!Tasks
  <2>4. ~Investigator!Launching
    BY <1>1, <2>3, IdleTask
  <2> QED BY <1>1, <2>1, <2>2, <2>4, FenceIs, SameAsEver, QuietStep DEF EventsKept
<1>4. CASE ~x2.active
  <2> DEFINE n == x2.gen + 1
  <2>1. PICK mode \in {"gatt", "passive"} :
          /\ x1' = [Investigator!Rest EXCEPT !.mode = mode, !.busy = TRUE,
                       !.st = IF mode = "gatt" THEN "connecting" ELSE "scanning"]
          /\ x2' = [Investigator!NoFence(n) EXCEPT !.active = TRUE]
          /\ x12' = x12 + 1 /\ x13' = x13
          /\ x4' = IF mode = "gatt"
                   THEN [x4 EXCEPT !["cmd"] = <<Investigator!Step("pause", n), Investigator!Step("launch", n)>>]
                   ELSE x4
    BY <1>4 DEF Investigator!Start
  <2>2. x2.gen \in Nat /\ n \in Nat /\ x2.gen <= n /\ n # 0 /\ x2.gen # n
    BY <1>2, EventsAre
  <2> HIDE DEF n
  <2>3. /\ x2' \in Investigator!FenceSet /\ x2'.gen = n /\ x2'.active /\ ~x2'.cleanup /\ ~x2'.end
        /\ x2'.radio = "idle"
    BY <2>1, <2>2 DEF Investigator!NoFence, Investigator!FenceSet
  <2>4. x5 = "free"
    BY <1>2, <1>4 DEF Investigator!MutexInv
  <2>5. /\ x7 = "down" /\ x9 = 0
    BY <1>2, <1>4 DEF Investigator!LinkInv
  <2>6. /\ x8 \in Seq({"up", "failed", "lost"} \X Nat)
        /\ \A i \in DOMAIN x8 : x8[i][2] <= n /\ x8[i][2] # n
    <3>1. \A i \in DOMAIN x8 : x8[i][2] \in Nat /\ x8[i][2] <= x2.gen
      BY <1>2, EventsAre
    <3>2. n = x2.gen + 1
      BY DEF n
    <3> QED BY <1>2, <2>2, <3>1, <3>2, EventsAre
  <2>7. DOMAIN x4 = Investigator!Tasks /\ DOMAIN x4' = Investigator!Tasks
    BY <1>2, <2>1 DEF Investigator!ShapeInv
  <2>8. x4'["host"] = x4["host"]
    BY <2>1, <2>7 DEF Investigator!Tasks
  <2>9. \/ x4'["cmd"] = <<>> /\ mode = "passive"
        \/ x4'["cmd"] = <<Investigator!Step("pause", n), Investigator!Step("launch", n)>> /\ mode = "gatt"
    BY <1>1, <2>1, <2>7 DEF Investigator!Tasks
  <2>10. <<"pause", n>> \in {"pause", "cleanup"} \X (0..n)
    BY <2>2
  <2>11. 0..x2.gen \subseteq 0..n
    BY <2>2
  <2>12. x4'["host"] = <<>> \/ \E s \in Investigator!Working \X (0..n) : x4'["host"] = <<s>>
    <3>1. Investigator!Working \X (0..x2.gen) \subseteq Investigator!Working \X (0..n)
      BY <2>11
    <3> QED BY <1>2, <2>8, <3>1 DEF Investigator!ShapeInv
  <2>13. Investigator!ShapeInv'
    <3>1. \/ x4'["cmd"] = <<>> \/ \E s \in Investigator!Commanding \X (0..n) : x4'["cmd"] = <<s>>
          \/ \E s \in {"pause", "cleanup"} \X (0..n) :
               x4'["cmd"] = <<s, Investigator!Step("launch", n)>>
      BY <2>9, <2>10 DEF Investigator!Step
    <3> QED BY <1>1, <2>2, <2>3, <2>6, <2>7, <2>12, <3>1 DEF Investigator!ShapeInv, Investigator!Step
  <2>14. Investigator!MutexInv'
    <3>1. ASSUME NEW u \in Investigator!Tasks
          PROVE  /\ x5' # u
                 /\ ~(x4'[u] # <<>> /\ Head(x4'[u])[1] \in Investigator!Cleaning)
      <4>1. x5' # u
        BY <1>1, <2>4, <3>1 DEF Investigator!Tasks
      <4>2. CASE u = "host"
        <5>1. x5 # u
          BY <1>1, <4>1
        <5>2. ~(x4[u] # <<>> /\ Head(x4[u])[1] \in Investigator!Cleaning)
          BY <1>2, <3>1, <5>1 DEF Investigator!MutexInv
        <5> QED BY <2>8, <4>1, <4>2, <5>2
      <4>3. CASE u = "cmd" /\ mode = "gatt"
        <5>1. Head(x4'["cmd"]) = Investigator!Step("pause", n)
          BY <2>9, <4>3, OneStep
        <5>2. Head(x4'["cmd"])[1] = "pause" /\ "pause" \notin Investigator!Cleaning
          BY <5>1 DEF Investigator!Step, Investigator!Cleaning
        <5> QED BY <4>1, <4>3, <5>2
      <4>4. CASE u = "cmd" /\ mode = "passive"
        BY <2>9, <4>1, <4>4
      <4> QED BY <3>1, <4>2, <4>3, <4>4 DEF Investigator!Tasks
    <3> QED BY <1>1, <2>4, <3>1 DEF Investigator!MutexInv, Investigator!GenOf
  <2>15. Investigator!LaunchInv'
    <3> SUFFICES ASSUME Investigator!Launching' PROVE Investigator!LaunchInv'
      BY DEF Investigator!LaunchInv
    <3>1. mode = "gatt"
      <4> SUFFICES ASSUME x4'["cmd"] = <<>> PROVE FALSE
        BY <2>9
      <4>1. Len(x4'["cmd"]) # 2
        BY <2>9
      <4>2. ~Investigator!At("cmd", "launch")' /\ ~Investigator!At("cmd", "pause")'
        BY DEF Investigator!At
      <4> QED BY <4>1, <4>2 DEF Investigator!Launching
    <3>2. Head(x4'["cmd"]) = Investigator!Step("pause", n)
      BY <2>9, <3>1, OneStep
    <3>3. Head(x4'["cmd"])[2] = n
      BY <3>2 DEF Investigator!Step
    <3>4. /\ ~x1'.pending /\ x1'.mode = "gatt"
          /\ x1' \in [mode : {"gatt"}, st : {"connecting"}, busy : BOOLEAN, pending : BOOLEAN,
                      resume : BOOLEAN, late : BOOLEAN]
      BY <2>1, <3>1 DEF Investigator!Rest
    <3>5. x4'["host"] # <<>> => Head(x4'["host"])[2] # n
      <4>1. TodoOf("host")
        BY <1>2, TodoHost
      <4>2. x4["host"] # <<>> => Head(x4["host"])[2] \in 0..x2.gen
        BY <4>1 DEF TodoOf
      <4>3. n = x2.gen + 1
        BY DEF n
      <4> QED BY <2>2, <2>8, <4>2, <4>3
    <3> QED BY <1>1, <2>3, <2>5, <2>6, <3>3, <3>4, <3>5 DEF Investigator!LaunchInv, Investigator!GenOf
  <2>16. Investigator!LinkInv'
    BY <1>1, <2>5 DEF Investigator!LinkInv
  <2>17. Investigator!EndsInv'
    <3>1. x13 \in Nat /\ x12 = x13 + (IF x2.active /\ ~x2.end THEN 1 ELSE 0)
      BY <1>2 DEF Investigator!EndsInv
    <3>2. x12 = x13 + 0
      BY <1>4, <3>1
    <3>3. x13' \in Nat /\ x12' = x13' + 1
      BY <2>1, <3>1, <3>2
    <3> QED BY <2>3, <3>3 DEF Investigator!EndsInv
  <2> QED BY <2>13, <2>14, <2>15, <2>16, <2>17 DEF Investigator!BehindInv
<1> QED BY <1>3, <1>4

LEMMA InvestigatorKept ==
    ASSUME Investigator!BehindInv,
           UNCHANGED <<x1, x2, x3, x4, x5, x6, x7, x8, x9, x10, x11, x12, x13, x14>>
    PROVE  Investigator!BehindInv'
<1>1. QuietTodo
  BY CalmSame DEF Investigator!BehindInv
<1>2. Investigator!Launching => (x4'["host"] # <<>> => Head(x4'["host"])[2] # x2.gen)
  BY WhileLaunching DEF Investigator!GenOf
<1> QED BY <1>1, <1>2, FenceIs, SameAsEver, QuietStep DEF EventsKept

LEMMA InvestigatorNext ==
    ASSUME Investigator!BehindInv, Investigator!Next
    PROVE  Investigator!BehindInv'
<1>1. CASE Investigator!Start \/ Investigator!Cancel \/ Investigator!Quiesce
  BY <1>1, StartKeeps, CancelKeeps, QuiesceKeeps
<1>2. CASE Investigator!Command
  BY <1>2, PauseKeeps, LaunchKeeps, AfterConnectKeeps, TickKeeps DEF Investigator!Command
<1>3. CASE Investigator!Host \/ Investigator!Callback \/ Investigator!Advertisement
  BY <1>3, ConnectFailedKeeps, ConnectDoneKeeps, DisconnectedKeeps, CallbackKeeps, AdvertisementKeeps
     DEF Investigator!Host
<1>4. ASSUME NEW t \in {"cmd", "host"}, Investigator!Shared(t) PROVE Investigator!BehindInv'
  <2>1. t \in Investigator!Tasks
    BY DEF Investigator!Tasks
  <2>2. CASE Investigator!CleanupStep(t)
    BY <2>1, <2>2, CleanupBeginsKeeps, CleanupActsKeeps, CancelConnectKeeps, ReconcileKeeps,
       TerminateKeeps, TerminateFailedKeeps, ResumeScanKeeps DEF Investigator!CleanupStep
  <2> QED BY <1>4, <2>1, <2>2, FailKeeps, ProcedureKeeps, AfterProcedureKeeps DEF Investigator!Shared
<1>5. CASE Investigator!LinkUp \/ Investigator!LinkDown \/ Investigator!Deadline \/ Investigator!RetryDue
  BY <1>5, LinkUpKeeps, LinkDownKeeps, DeadlineKeeps, RetryDueKeeps
<1> QED BY <1>1, <1>2, <1>3, <1>4, <1>5 DEF Investigator!Next

LEMMA InvestigatorInitial ==
    ASSUME Investigator!Init
    PROVE  Investigator!BehindInv
<1>1. /\ x1 = Investigator!Rest /\ x2 = Investigator!NoFence(0)
      /\ x4 = [cmd |-> <<>>, host |-> <<>>] /\ x5 = "free" /\ x7 = "down" /\ x8 = <<>> /\ x9 = 0
      /\ x12 = 0 /\ x13 = 0
  BY DEF Investigator!Init
<1>2. /\ DOMAIN x4 = Investigator!Tasks /\ x4["cmd"] = <<>> /\ x4["host"] = <<>>
  BY <1>1 DEF Investigator!Tasks
<1>3. /\ x2 \in Investigator!FenceSet /\ ~x2.active /\ ~x2.cleanup
  BY <1>1 DEF Investigator!NoFence, Investigator!FenceSet
<1>4. x8 \in Seq({"up", "failed", "lost"} \X Nat) /\ DOMAIN x8 = {}
  BY <1>1
<1>5. Investigator!ShapeInv
  BY <1>2, <1>3, <1>4 DEF Investigator!ShapeInv
<1>6. Investigator!MutexInv
  BY <1>1, <1>2 DEF Investigator!MutexInv, Investigator!Tasks
<1>7. ~Investigator!Launching
  <2>1. Len(x4["cmd"]) # 2
    BY <1>2
  <2>2. ~Investigator!At("cmd", "launch") /\ ~Investigator!At("cmd", "pause")
    BY <1>2 DEF Investigator!At
  <2> QED BY <2>1, <2>2 DEF Investigator!Launching
<1>8. Investigator!LinkInv
  BY <1>1 DEF Investigator!LinkInv
<1>9. Investigator!EndsInv
  BY <1>1, <1>3 DEF Investigator!EndsInv
<1> QED BY <1>5, <1>6, <1>7, <1>8, <1>9 DEF Investigator!BehindInv, Investigator!LaunchInv

LEMMA BehindSuffices == Investigator!BehindInv => Investigator!NothingLeftBehind
<1> SUFFICES ASSUME Investigator!BehindInv PROVE Investigator!NothingLeftBehind
  OBVIOUS
<1>1. x13 \in Nat /\ x12 = x13 + (IF x2.active /\ ~x2.end THEN 1 ELSE 0)
  BY DEF Investigator!BehindInv, Investigator!EndsInv
<1>2. x13 <= x12 /\ x12 <= x13 + 1
  <2>1. CASE x2.active /\ ~x2.end
    BY <1>1, <2>1
  <2>2. CASE ~(x2.active /\ ~x2.end)
    BY <1>1, <2>2
  <2> QED BY <2>1, <2>2
<1>3. ASSUME ~x2.active PROVE x12 = x13 /\ x7 = "down" /\ x9 = 0
  <2>1. x12 = x13 + 0
    BY <1>1, <1>3
  <2>2. x7 = "down" /\ x9 = 0
    BY <1>3 DEF Investigator!BehindInv, Investigator!LinkInv
  <2> QED BY <1>1, <2>1, <2>2
<1> QED BY <1>2, <1>3 DEF Investigator!NothingLeftBehind

-----------------------------------------------------------------------------
(* The parts in turn.                                                      *)

PartInv ==
    /\ part = "staging" => Staging!StagingInv
    /\ part = "node" => Node!NodeInv
    /\ part = "identity" => Identity!IdentityInv
    /\ part = "investigator" => Investigator!BehindInv
    /\ part = "investigation" => Investigation!EndInv

LEMMA PartInitial == PartInit => PartInv
<1> SUFFICES ASSUME PartInit PROVE PartInv
  OBVIOUS
<1>1. /\ part = "staging" => Staging!Init
      /\ part = "node" => Node!Init
      /\ part = "identity" => Identity!Init
      /\ part = "investigator" => Investigator!Init
      /\ part = "investigation" => Investigation!Init
  BY DEF PartInit
<1> QED BY <1>1, StagingInitial, NodeInitial, IdentityInitial, InvestigatorInitial,
           InvestigationInitial DEF PartInv

\* A step of the whole is one of the part whose behaviour it is.
LEMMA PartStep ==
    ASSUME [Step]_all
    PROVE  /\ part' = part
           /\ part = "staging" => [Staging!Next]_(Staging!vars)
           /\ part = "node" => [Node!Next]_(Node!vars)
           /\ part = "identity" => [Identity!Next]_(Identity!vars)
           /\ part = "investigator" => [Investigator!Next]_(Investigator!vars)
           /\ part = "investigation" => [Investigation!Next]_(Investigation!vars)
<1>1. CASE UNCHANGED all
  BY <1>1 DEF all, Staging!vars, Node!vars, Identity!vars, Investigator!vars, Investigation!vars
<1>2. CASE Step
  BY <1>2 DEF Step, UplinkStep, StagingStep, IdentityStep, NodeStep, InvestigatorStep,
              InvestigationStep
<1> QED BY <1>1, <1>2

LEMMA InvestigatorSteps ==
    Investigator!BehindInv /\ [Investigator!Next]_(Investigator!vars) => Investigator!BehindInv'
BY InvestigatorNext, InvestigatorKept DEF Investigator!vars

LEMMA PartNext == PartInv /\ [Step]_all => PartInv'
<1> SUFFICES ASSUME PartInv, [Step]_all PROVE PartInv'
  OBVIOUS
<1>1. part' = part
  BY PartStep
<1>2. part = "staging" => Staging!StagingInv'
  BY PartStep, StagingNext DEF PartInv
<1>3. part = "node" => Node!NodeInv'
  BY PartStep, NodeNext DEF PartInv
<1>4. part = "identity" => Identity!IdentityInv'
  BY PartStep, IdentityNext DEF PartInv
<1>5. part = "investigator" => Investigator!BehindInv'
  BY PartStep, InvestigatorSteps DEF PartInv
<1>6. part = "investigation" => Investigation!EndInv'
  BY PartStep, InvestigationNext DEF PartInv
<1> QED BY <1>1, <1>2, <1>3, <1>4, <1>5, <1>6 DEF PartInv

LEMMA StagedWhole == Staging!StagingInv =>
    Staging!ArmedIsWhole /\ Staging!BelievedIsArmed /\ Staging!CountersAgree
BY DEF Staging!StagingInv, Staging!StagedInv, Staging!ToldInv, Staging!ArmedIsWhole,
       Staging!BelievedIsArmed

LEMMA NodeWhole == Node!NodeInv => Node!AcceptedIsWhole /\ Node!OneReader
BY DEF Node!NodeInv, Node!AlikeInv

LEMMA EndHeld == Investigation!EndInv => Investigation!EndInHand
BY DEF Investigation!EndInv

\* An image is armed, accepted or believed only whole, and an identity told as
\* fresh was sent whole after the fence: for images, credits and reads of any
\* size, any number of requests, boots and fences, and whatever is cut, lost,
\* reset or written by another on the way (fw_store.c, http_status.c, uart_rx.c).
THEOREM WholeAndFreshHolds == PartSpec => []WholeAndFresh
<1>1. PartInv => WholeAndFresh
  BY StagedWhole, NodeWhole, FenceHeld DEF PartInv, WholeAndFresh
<1> QED BY <1>1, PartInitial, PartNext, PTL DEF PartSpec

\* What is begun is carried through or taken back whole: the counters of an
\* upload agree, one task at a time reads a scanner's UART, an investigation
\* leaves no connection, no procedure and no untold end behind, and no step drops
\* an end that is in nobody else's hands; for any number of requests, of faults
\* of the host and of chunks (badge_usb_transport.c, uart_rx.c,
\* ble_investigator.c, badge_ble_investigation.c).
THEOREM NothingBehindStays == PartSpec => NothingStaysBehind
<1> DEFINE Held == /\ part = "staging" => Staging!CountersAgree
                   /\ part = "node" => Node!OneReader
                   /\ part = "investigator" => Investigator!NothingLeftBehind
                   /\ part = "investigation" => Investigation!EndInHand
           Taken == part = "investigation" => Investigation!EndLeftBehind
<1>1. PartInv => Held
  BY StagedWhole, NodeWhole, BehindSuffices, EndHeld DEF PartInv
<1>2. PartInv /\ [Step]_all => [Taken]_all
  BY PartStep, InvestigationNext DEF PartInv
<1> HIDE DEF Held, Taken
<1>3. PartSpec => []Held
  BY <1>1, PartInitial, PartNext, PTL DEF PartSpec
<1>4. PartSpec => [][Taken]_all
  BY <1>2, PartInitial, PartNext, PTL DEF PartSpec
<1> QED BY <1>3, <1>4 DEF NothingStaysBehind, Held, Taken
=============================================================================
