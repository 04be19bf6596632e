----------------------------- MODULE UplinkOta -----------------------------
(***************************************************************************)
(* The update of the uplink's own image over USB: the host, the two byte   *)
(* queues of USB, the transport task with its latches                      *)
(* (core/badge_usb_transport.c), its flow and the session of the adapter   *)
(* (UplinkSession).                                                        *)
(*                                                                         *)
(* One task runs all of the badge's part, so an action is one pass of its  *)
(* loop through one handler.  A handler is a function from the badge's     *)
(* state to the set of states it may leave, one for every way the flash,   *)
(* the pauses, the emission or the restart may answer; handlers end by     *)
(* calling one another (a failed receipt aborts, an abort emits), and here *)
(* one set is made of another.                                             *)
(***************************************************************************)
EXTENDS UplinkSession, Sequences

CONSTANTS
    MaxWrite,       \* USB_READ_BUFFER_BYTES, UPLINK_USB_OTA_MAX_WRITE_BYTES
    MaxBegins,      \* bound: transfers the host starts
    MaxRefusals,    \* bound: times the operation's end is refused
    MaxBusy         \* bound: times another caller is inside the adapter

ASSUME BoundsAssumption ==
    /\ MaxWrite \in Nat \ {0} /\ MaxWrite <= Credit
    /\ MaxBegins \in Nat /\ MaxRefusals \in Nat /\ MaxBusy \in Nat

VARIABLES
    badge,  \* the uplink: see InitBadge
    usb,    \* what the host has sent and the badge has not read
    host    \* the host's program
vars == <<badge, usb, host>>

Frames == [kind : {"ready", "credit", "busy", "aborted", "committed", "unknown"},
           credit : Nat]
Frame(kind, credit) == [kind |-> kind, credit |-> credit]

NoLatch == [finish |-> FALSE, abort |-> FALSE, terminal |-> FALSE,
            recovery |-> FALSE, suppress |-> FALSE, restart |-> FALSE]

\* binary: s_stream's target is the uplink; garbled: its line buffer holds
\* something; pending: the chunk kept for a retry; held: what is really taken
\* from the rest of the badge; out: frames on their way to the host.  The last
\* three are history: the retries of a release are used up, the stored image is
\* what the host sent as an image, and the terminal answers of this session.
InitBadge ==
    [up |-> TRUE, session |-> NoSession, flow |-> NoFlow, latch |-> NoLatch,
     binary |-> FALSE, garbled |-> FALSE, pending |-> <<>>,
     held |-> {}, selected |-> FALSE, poisoned |-> FALSE, out |-> <<>>,
     refusals |-> MaxRefusals, busy |-> MaxBusy,
     gaveUp |-> FALSE, pure |-> TRUE, terminals |-> 0]

\* quit: the host has given up a transfer the badge may still believe in.
InitHost == [state |-> "idle", window |-> 0, left |-> 0, begins |-> 0, quit |-> FALSE]

TypeOK ==
    /\ badge.session.state \in SessionState
    /\ badge.session.owns \subseteq Resources /\ badge.held \subseteq Resources
    /\ badge.flow.writes \in 0..RetryLimit /\ badge.flow.finishes \in 0..RetryLimit
    /\ badge.flow.cleanups \in 0..RetryLimit /\ badge.flow.terminals \in 0..RetryLimit
    /\ badge.flow.credit \in 0..Credit
    /\ \A i \in DOMAIN badge.out : badge.out[i] \in Frames
    /\ \A i \in DOMAIN usb : usb[i] \in {"begin", "data"}
    /\ host.state \in {"idle", "asking", "sending"} /\ host.window \in 0..Credit

Init == badge = InitBadge /\ usb = <<>> /\ host = InitHost

-----------------------------------------------------------------------------
(* badge_usb_output_emit.  "completed" is a drained frame, "enqueued" one  *)
(* that is whole in the ring but not drained in time, "failed" one of      *)
(* which nothing left, "poisoned" one cut in the middle: no frame is       *)
(* emitted after it until a restart.                                       *)
Emissions(c) ==
    IF c.poisoned THEN {"poisoned"} ELSE {"completed", "enqueued", "failed", "poisoned"}

Outcomes == {"aborted", "committed"}

Emitted(c, e, frame) ==
    LET sent == e \in {"completed", "enqueued"} IN
    [c EXCEPT !.out = IF sent THEN Append(@, frame) ELSE @,
              !.terminals = IF sent /\ frame.kind \in Outcomes THEN @ + 1 ELSE @,
              !.poisoned = @ \/ e = "poisoned"]

Reply(c, kind) == {Emitted(c, e, Frame(kind, 0)) : e \in Emissions(c)}

\* badge_usb_recovery_restart: another task may own the reboot.
TryRestart(c) == {c, [c EXCEPT !.up = FALSE]}

-----------------------------------------------------------------------------
(* Aborting: abort_uplink_ota, complete_uplink_abort,                      *)
(* deliver_uplink_terminal and the adapter's precommit_cleanup.            *)
CleanedUp(c, ended) ==
    LET s == Cleanup(c.session, ended) IN
    [c EXCEPT !.session = s,
              !.held = @ \ (c.session.owns \ s.owns),
              !.refusals = IF ended THEN @ ELSE @ - 1,
              !.gaveUp = @ /\ ~ended]

MayRefuse(c) == Refusable(c.session) /\ c.refusals > 0

TerminalTaken(c) == [c EXCEPT !.flow.terminal = FALSE, !.latch.terminal = FALSE]

TerminalEmitted(c, e) ==
    LET d == Emitted(c, e, Frame("aborted", 0)) IN
    IF e \in {"completed", "enqueued"}
    THEN {[TerminalTaken(d) EXCEPT !.flow.terminals = 0]}
    ELSE IF e = "failed" /\ ~Exhausted(c.flow.terminals)
    THEN {[d EXCEPT !.flow.terminals = @ + 1, !.latch.terminal = TRUE]}
    ELSE TryRestart(TerminalTaken(d))

DeliverTerminal(c) == UNION {TerminalEmitted(c, e) : e \in Emissions(c)}

CompleteAbort(c) ==
    LET f == AbortFlow(c.flow)
        d == [c EXCEPT !.flow = [f EXCEPT !.cleanup = FALSE],
                       !.binary = @ /\ ~f.cleanup,
                       !.latch.abort = FALSE, !.latch.suppress = FALSE,
                       !.latch.recovery = FALSE]
        answered == IF c.latch.suppress THEN {TerminalTaken(d)}
                    ELSE IF f.terminal /\ ~c.latch.terminal THEN DeliverTerminal(d)
                    ELSE {d}
    IN IF c.latch.recovery THEN UNION {TryRestart(x) : x \in answered} ELSE answered

\* A cleanup that has to be tried again: later, or not any more.
RetryCleanup(c) ==
    LET d == [c EXCEPT !.flow.cleanups = @ + 1] IN
    IF Exhausted(c.flow.cleanups)
    THEN CompleteAbort([d EXCEPT !.latch.recovery = TRUE, !.gaveUp = c.held # {}])
    ELSE {d}

AbortOta(c) ==
    LET d == [c EXCEPT !.latch.abort = TRUE] IN
    CompleteAbort([CleanedUp(d, TRUE) EXCEPT !.flow.cleanups = 0])
        \cup (IF MayRefuse(d) THEN RetryCleanup(CleanedUp(d, FALSE)) ELSE {})
        \cup (IF d.busy > 0 THEN RetryCleanup([d EXCEPT !.busy = @ - 1]) ELSE {})

\* The adapter cleaned up by itself and reported it to the flow.
AdapterFailed(c) ==
    LET d == [c EXCEPT !.flow = AbortFlow(@)] IN
    CompleteAbort(CleanedUp(d, TRUE))
        \cup (IF MayRefuse(d) THEN AbortOta(CleanedUp(d, FALSE)) ELSE {})

-----------------------------------------------------------------------------
(* deliver_uplink_receipt: a credit counts once its frame has left.  A     *)
(* drain that comes in time rescues an enqueued frame ("completed").       *)
Receipt(c, frame) ==
    LET sent(e) == Emitted(c, e, frame)
        lost(d) == [d EXCEPT !.flow = AbortFlow(@)]
        ambiguous(d) == [lost(d) EXCEPT !.latch.suppress = TRUE, !.latch.recovery = TRUE]
    IN UNION {CASE e = "completed" ->
                     {[sent(e) EXCEPT !.flow = Acknowledged(@), !.binary = TRUE]}
                [] e = "failed" -> AbortOta(lost(sent(e)))
                [] OTHER -> AbortOta(ambiguous(sent(e)))
              : e \in Emissions(c)}

(* badge_usb_transport_handle_uplink_ota_begin.                            *)
BeginFailed(c) ==
    Reply(CleanedUp(c, TRUE), "aborted")
        \cup (IF MayRefuse(c)
              THEN Reply([CleanedUp(c, FALSE) EXCEPT !.latch.abort = TRUE], "busy")
              ELSE {})

BeginWith(c, o, size) ==
    LET d == [c EXCEPT !.session = Begun(o, size), !.held = @ \cup o.got]
        granted == Smaller(Credit, size)
    IN CASE o.fail = "operation" -> Reply(d, "busy")
         [] o.fail = "none" ->
              Receipt([d EXCEPT !.flow = FlowBegun(size, granted), !.pure = TRUE],
                      Frame("ready", granted))
         [] OTHER -> BeginFailed(d)

HandleBegin(c) ==
    LET d == [c EXCEPT !.flow = NoFlow, !.latch = NoLatch, !.terminals = 0] IN
    Reply(c, "busy")    \* no maintenance session: nothing is touched
        \cup (IF c.busy > 0 THEN Reply([d EXCEPT !.busy = @ - 1], "busy") ELSE {})
        \cup IF c.session.state = "error" /\ "operation" \in c.session.owns
             THEN Reply([d EXCEPT !.latch.abort = TRUE], "busy")
             ELSE IF c.session.state \notin {"idle", "error"} THEN Reply(d, "busy")
             ELSE UNION {BeginWith(d, o, size) : o \in BeginOutcomes, size \in Sizes}

-----------------------------------------------------------------------------
(* finish_uplink_ota, with the maintenance summary that has to be written  *)
(* before the finish and taken back after a failed one.                    *)
FinishBusy(c) ==
    LET d == [c EXCEPT !.busy = @ - 1, !.latch.finish = TRUE, !.flow.finishes = @ + 1] IN
    AbortOta([c EXCEPT !.busy = @ - 1, !.latch.recovery = TRUE])
        \cup IF Exhausted(c.flow.finishes)
             THEN AbortOta([d EXCEPT !.latch.finish = FALSE, !.latch.recovery = TRUE])
             ELSE {d}

\* The adapter rejects the image, or the flash does; then the summary is
\* taken back, or that fails too and USB has to recover.
FinishRejected(c) ==
    LET d == [c EXCEPT !.latch.finish = FALSE, !.flow.finishes = 0] IN
    AdapterFailed(d)
        \cup UNION {AbortOta([CleanedUp(c, ended) EXCEPT !.latch.recovery = TRUE])
                    : ended \in {TRUE} \cup (IF MayRefuse(c) THEN {FALSE} ELSE {})}

FinishAccepted(c) ==
    LET s == Committed(c.session)
        d == [c EXCEPT !.session = s, !.selected = TRUE,
                       !.held = @ \ (c.session.owns \ s.owns),
                       !.latch.finish = FALSE, !.flow.finishes = 0]
        told(e) == [Emitted(d, e, Frame("committed", 0)) EXCEPT
                      !.flow.committed = TRUE, !.binary = FALSE]
    IN IF Complete(c.flow)
       THEN UNION {{[told(e) EXCEPT !.up = FALSE], [told(e) EXCEPT !.latch.restart = TRUE]}
                   : e \in Emissions(c)}
       ELSE CompleteAbort(d)

VerifiesNothing(c) == TRUE

\* Verification: the digest and the checksum are those of the host's image.
Verifies(c) == c.pure

FinishOta(c) ==
    AbortOta(c)         \* no summary: the session is gone, or NVS fails
        \cup IF c.session.state # "verifying" THEN {}
             ELSE (IF c.busy > 0 THEN FinishBusy(c) ELSE {})
                    \cup FinishRejected(c)
                    \cup (IF Verifies(c) THEN FinishAccepted(c) ELSE {})

-----------------------------------------------------------------------------
(* consume_uplink_bytes.                                                   *)
WriteContended(c, bytes) ==
    LET d == [c EXCEPT !.busy = @ - 1, !.flow = WriteBusy(@, Len(bytes))] IN
    IF Exhausted(c.flow.writes)
    THEN AbortOta([d EXCEPT !.pending = <<>>, !.latch.recovery = TRUE])
    ELSE {[d EXCEPT !.pending = bytes]}

WriteDone(c, bytes) ==
    LET n == Len(bytes)
        s == Written(c.session, n)
        granted == NextCredit(c.session, s.durable)
        d == [c EXCEPT !.session = s, !.pending = <<>>,
                       !.flow = FlowWritten(@, n, s.durable, granted),
                       !.pure = @ /\ \A i \in 1..n : bytes[i] = "data"]
    IN IF ~Agrees(c.flow, n, s.durable, granted)
       THEN AbortOta([c EXCEPT !.session = s, !.pending = <<>>, !.flow = AbortFlow(@)])
       ELSE IF d.flow.waiting THEN Receipt(d, Frame("credit", granted))
       ELSE IF d.flow.finish THEN FinishOta([d EXCEPT !.flow.finish = FALSE])
       ELSE {d}

Write(c, bytes) ==
    AdapterFailed([c EXCEPT !.pending = <<>>])      \* identity, flash or digest
        \cup (IF c.busy > 0 THEN WriteContended(c, bytes) ELSE {})
        \cup (IF Accepts(c.session, Len(bytes)) THEN WriteDone(c, bytes) ELSE {})

\* The chunk read from USB, or (retrying) the one kept.
Consume(c, bytes, retrying) ==
    IF ~retrying /\ ~Fits(c.flow, Len(bytes)) THEN AbortOta([c EXCEPT !.flow = AbortFlow(@)])
    ELSE IF ~c.binary THEN AbortOta(c)
    ELSE Write(c, bytes)

-----------------------------------------------------------------------------
(* badge_usb_transport_task: one pass, in the order the loop looks.        *)
Unlatched(c) == ~c.latch.restart /\ ~c.latch.abort /\ ~c.latch.finish /\ ~c.latch.terminal
AtRest(c) == c.up /\ Unlatched(c) /\ c.pending = <<>>

Dropped(n) == SubSeq(usb, n + 1, Len(usb))

RetryRestart ==
    /\ badge.up /\ badge.latch.restart
    /\ badge' = [badge EXCEPT !.up = FALSE]
    /\ UNCHANGED <<usb, host>>

RetryAbort ==
    /\ badge.up /\ ~badge.latch.restart /\ badge.latch.abort
    /\ badge' \in AbortOta(badge)
    /\ UNCHANGED <<usb, host>>

RetryFinish ==
    /\ badge.up /\ ~badge.latch.restart /\ ~badge.latch.abort /\ badge.latch.finish
    /\ badge' \in FinishOta(badge)
    /\ UNCHANGED <<usb, host>>

RetryTerminal ==
    /\ badge.up /\ ~badge.latch.restart /\ ~badge.latch.abort /\ ~badge.latch.finish
    /\ badge.latch.terminal
    /\ badge' \in DeliverTerminal(badge)
    /\ UNCHANGED <<usb, host>>

RetryWrite ==
    /\ badge.up /\ Unlatched(badge) /\ badge.pending # <<>>
    /\ badge' \in Consume(badge, badge.pending, TRUE)
    /\ UNCHANGED <<usb, host>>

ReadBinary ==
    /\ AtRest(badge) /\ badge.binary
    /\ \E n \in 1..Smaller(MaxWrite, Len(usb)) :
         /\ badge' \in Consume(badge, SubSeq(usb, 1, n), FALSE)
         /\ usb' = Dropped(n)
    /\ UNCHANGED host

\* Image bytes read as text stay in the line buffer and spoil the next line.
ReadText ==
    /\ AtRest(badge) /\ ~badge.binary
    /\ \E n \in 1..Smaller(MaxWrite, Len(usb)) :
         /\ badge' \in IF usb[1] = "data" THEN {[badge EXCEPT !.garbled = TRUE]}
                       ELSE IF badge.garbled
                       THEN Reply([badge EXCEPT !.garbled = FALSE], "unknown")
                       ELSE HandleBegin(badge)
         /\ usb' = Dropped(IF usb[1] = "begin" /\ (badge'.latch.abort \/ badge'.latch.terminal)
                           THEN n ELSE 1)
    /\ UNCHANGED host

IdleDueAfterData ==
    /\ badge.up /\ badge.binary /\ badge.flow.transport > 0
    /\ ~badge.latch.restart /\ ~badge.latch.abort /\ ~badge.latch.terminal
    /\ badge.pending # <<>> => badge.flow.writes = 1
    /\ badge.latch.finish => badge.flow.finishes = 1

\* Five seconds without a chunk, looked at in a pass that has just read: a
\* chunk kept by that pass, or a finish put off by it, has been tried once.
IdleDue ==
    /\ badge.up /\ badge.binary
    /\ ~badge.latch.restart /\ ~badge.latch.abort /\ ~badge.latch.terminal
    /\ badge.pending # <<>> => badge.flow.writes = 1
    /\ badge.latch.finish => badge.flow.finishes = 1
IdleTimeout ==
    /\ IdleDue
    /\ badge' \in AbortOta(badge)
    /\ UNCHANGED <<usb, host>>

\* The badge comes up again, on the image that is selected by now.
Boot ==
    /\ ~badge.up
    /\ badge' = [InitBadge EXCEPT !.refusals = badge.refusals, !.busy = badge.busy]
    /\ usb' = <<>>
    /\ host' = [InitHost EXCEPT !.begins = host.begins]

-----------------------------------------------------------------------------
(* The host sends one image at a time and no byte it has no credit for.    *)
HostBegin ==
    /\ badge.up /\ host.state = "idle" /\ host.begins < MaxBegins
    /\ usb' = Append(usb, "begin")
    /\ host' = [host EXCEPT !.state = "asking", !.begins = @ + 1]
    /\ UNCHANGED badge

HostSend ==
    /\ badge.up /\ host.state = "sending" /\ host.window > 0 /\ host.left > 0
    /\ usb' = Append(usb, "data")
    /\ host' = [host EXCEPT !.window = @ - 1, !.left = @ - 1]
    /\ UNCHANGED badge

Heard(frame) ==
    CASE frame.kind = "ready" /\ host.state = "asking" ->
           {[host EXCEPT !.state = "sending", !.window = frame.credit, !.left = size]
            : size \in Sizes}
      [] frame.kind = "credit" /\ host.state = "sending" ->
           {[host EXCEPT !.window = Smaller(Credit, @ + frame.credit)]}
      [] frame.kind \in {"busy", "aborted", "committed", "unknown"} ->
           {[host EXCEPT !.state = "idle", !.window = 0, !.left = 0]}
      [] OTHER -> {host}

HostReceive ==
    /\ badge.out # <<>>
    /\ host' \in Heard(Head(badge.out))
    /\ badge' = [badge EXCEPT !.out = Tail(@)]
    /\ UNCHANGED usb

\* The host's program is stopped, or times out, and may be started again.
HostQuit ==
    /\ badge.up /\ host.state # "idle"
    /\ host' = [host EXCEPT !.state = "idle", !.window = 0, !.left = 0, !.quit = TRUE]
    /\ UNCHANGED <<badge, usb>>

HostStep == HostBegin \/ HostSend \/ HostReceive \/ HostQuit

\* What the loop does before it reads: at most one of these is enabled.
Retry == RetryRestart \/ RetryAbort \/ RetryFinish \/ RetryTerminal \/ RetryWrite

Next == Retry \/ ReadBinary \/ ReadText \/ IdleTimeout \/ Boot \/ HostStep

Spec == Init /\ [][Next]_vars

(* The transport task keeps running its loop; the host owes nothing.  What  *)
(* the loop has to do for a transfer is enabled until it is done, and the   *)
(* weak fairness of the pass that does it is written with that guard.       *)
RetryDue == badge.up /\ badge.binary /\ ~AtRest(badge)

Fairness ==
    /\ []<>~RetryDue \/ []<><<Retry>>_vars
    /\ []<>~IdleDue \/ []<><<IdleTimeout>>_vars
    /\ WF_vars(Boot)

FairSpec == Spec /\ Fairness

-----------------------------------------------------------------------------
\* When the transport is back to reading text and has nothing left to retry,
\* no resource of the badge is taken: not one that a failed begin had taken on
\* its way, not one whose release was refused at first (precommit_cleanup).
\* Only when every retry of the release was refused, and the restart that was
\* to mend it too, because another task owns the reboot, is the operation left.
ReleasedAtRest ==
    badge.up /\ Unlatched(badge) /\ ~badge.binary =>
        badge.held = IF badge.gaveUp THEN {"operation"} ELSE {}

\* A selected image is neither undone nor reported as failed: from then on the
\* session only restarts, and it keeps the operation until it does, so that no
\* other transfer can start in between (uplink_usb_ota_finish).
SelectionStands ==
    badge.selected => /\ ~badge.flow.aborted /\ ~badge.flow.terminal
                      /\ "operation" \in badge.held
                      /\ badge.latch.restart \/ ~badge.up

\* An image is selected only when every byte of it is in flash and every byte
\* is one that the host sent as its image: a lost transfer's bytes, or a line
\* of text, never become part of the next image.
SelectedIsWhole ==
    badge.selected => badge.pure /\ badge.session.durable = badge.session.size

\* The two accounts of a transfer, the transport's flow and the adapter's
\* session, agree whenever the transport waits for the next chunk: the host is
\* never given room the adapter does not grant, nor left without room it has.
WindowsAgree ==
    AtRest(badge) /\ badge.binary =>
        /\ badge.flow.total = badge.session.size
        /\ badge.flow.transport = badge.session.transport
        /\ badge.flow.durable = badge.session.durable
        /\ badge.flow.credit = badge.session.creditAt - badge.session.transport

\* A session is answered at most once with its outcome, however often the
\* answer, the cleanup or the finish had to be tried again.
OneTerminal == badge.terminals <= 1

\* Whatever the host does, and whatever of the badge fails, a transfer ends.
TransferEnds == badge.binary ~> ~badge.binary
=============================================================================
