--------------------------- MODULE DetectionFlow ---------------------------
(***************************************************************************)
(* From a scanner's detection queue to the uplink's: the filters, the rate *)
(* limiter and the gated line writer of the scanner's uart_tx.c, its RX    *)
(* task that starts and stops it, and the backpressure by which the        *)
(* uplink's uart_rx.c stops one scanner while its own queue is full.       *)
(* Drone identities from BLE go past the queue: the BLE task writes them   *)
(* itself.  Lines get lost both ways; READY is repeated by the uplink's    *)
(* watchdog.  The networked node is modelled; a badge ingests without the  *)
(* queue, and only a badge asks for quiet mode, which closes the same gate *)
(* (ScannerRadios: mode.quiet => ~mode.tx).                                *)
(***************************************************************************)
EXTENDS Naturals, Sequences, SequencesExt

CONSTANTS Kind,        \* device -> "rid" | "fp" | "fp_priority" | "probe" | "assoc" | "ap"
          Slots,       \* LOW_PRIORITY_RATE_SLOTS
          QMax, UMax,  \* the scanner's queue; CONFIG_DETECTION_QUEUE_SIZE
          WireMax,     \* lines on their way to the uplink
          Sightings, Losses, Stops,
          AutoStart    \* half seconds to the automatic start
VARIABLES tx,       \* s_tx_enabled
          pc, ticks, det, queue,   \* uart_tx_task
          mutex,    \* s_uart_mutex
          limiter,  \* the rate slots in use, the one sent longest ago first
          due,      \* how many of them were sent longer ago than their window
          ack,      \* the RX task has a stop_ack to send
          acked,    \* stop_ack was the last thing said about the transmitter
          down, up, \* the two UART lines
          uq, flag, \* s_detection_queue; the scanner's backpressure flag
          left,
          direct    \* the detection the BLE task is about to write, or "none"
vars == <<tx, pc, ticks, det, queue, mutex, limiter, due, ack, acked, down, up, uq, flag, left,
          direct>>
Task == <<pc, ticks, det, queue, limiter, due, direct>>

Devices == DOMAIN Kind
Limited(d) == Kind[d] \in {"fp", "fp_priority", "probe", "assoc"}

Init ==
    /\ tx = FALSE /\ pc = "wait" /\ ticks = 0 /\ det = "none" /\ queue = <<>>
    /\ mutex = "free" /\ limiter = <<>> /\ due = 0 /\ ack = FALSE /\ acked = FALSE
    /\ down = <<>> /\ up = <<>> /\ uq = 0 /\ flag = FALSE
    /\ left = [sightings |-> Sightings, losses |-> Losses, stops |-> Stops] /\ direct = "none"

-----------------------------------------------------------------------------
(* The scanner's transmit task.                                            *)

\* The detectors queue what they see, as long as there is room.
Sight(d) ==
    /\ left.sightings > 0 /\ Len(queue) < QMax
    /\ queue' = Append(queue, d) /\ left' = [left EXCEPT !.sightings = @ - 1]
    /\ UNCHANGED <<tx, pc, ticks, det, mutex, limiter, due, ack, acked, down, up, uq, flag, direct>>

\* Without a command the task starts itself after 30 s; this wait is entered once.
WaitTick ==
    /\ pc = "wait" /\ ~tx /\ ticks < AutoStart /\ ticks' = ticks + 1
    /\ tx' = (ticks' = AutoStart) /\ acked' = (acked /\ ~tx')
    /\ UNCHANGED <<pc, det, queue, mutex, limiter, due, ack, down, up, uq, flag, left, direct>>
\* The first pass says who it is; each pass then waits while stopped.
Enabled == /\ pc \in {"wait", "run"} /\ tx
           /\ IF pc = "wait" THEN det' = "info" /\ pc' = "lock" ELSE pc' = "receive" /\ det' = det
           /\ UNCHANGED <<tx, ticks, queue, mutex, limiter, due, ack, acked, down, up, uq, flag, left, direct>>

\* find_or_alloc_rate_slot and allow_rate_limited_detection.  A device with a slot is let
\* through once its window is over or when it says something new; a new device takes a
\* free slot, or else is compared with the slot sent longest ago, as if it were its own.
Mine(d) == SelectInSeq(limiter, LAMBDA e : e = d)
SlotFor(d) == IF Mine(d) # 0 THEN Mine(d) ELSE IF Len(limiter) < Slots THEN 0 ELSE 1
Passes(d, news) == ~Limited(d) \/ SlotFor(d) = 0 \/ SlotFor(d) <= due \/ news
NextLimiter(d) ==
    IF ~Limited(d) THEN limiter
    ELSE Append(IF SlotFor(d) = 0 THEN limiter ELSE RemoveAt(limiter, SlotFor(d)), d)
NextDue(d) == IF Limited(d) /\ SlotFor(d) \in 1..due THEN due - 1 ELSE due

\* fof_policy_should_shed_low_priority: the share of the queue, in tenths, above which a
\* kind is dropped.
ShedTenths(kind) == CASE kind = "probe" -> 6 [] kind = "ap" -> 4 [] kind = "fp" -> 7
                      [] kind = "assoc" -> 8 [] OTHER -> 11
Shed(d, depth) == depth >= (QMax * ShedTenths(Kind[d])) \div 10

\* One detection through the filters.  The limiter has noted it before the pressure
\* check may still drop it.  weak: a low-confidence fingerprint that no policy protects.
Receive(weak, news) ==
    LET d == Head(queue) IN
    /\ pc = "receive" /\ queue # <<>> /\ queue' = Tail(queue)
    /\ IF ~tx \/ (weak /\ Kind[d] = "fp") \/ ~Passes(d, news)
       THEN pc' = "run" /\ UNCHANGED <<det, limiter, due>>
       ELSE /\ limiter' = NextLimiter(d) /\ due' = NextDue(d)
            /\ IF Shed(d, Len(queue')) THEN pc' = "run" /\ det' = det
               ELSE pc' = "gate" /\ det' = d
    /\ UNCHANGED <<tx, ticks, mutex, ack, acked, down, up, uq, flag, left, direct>>
\* Every PRUNE_INTERVAL_MS the task says how it is.
Maintain ==
    /\ pc = "receive" /\ IF tx THEN pc' = "gate" /\ det' = "status" ELSE pc' = "run" /\ det' = det
    /\ UNCHANGED <<tx, ticks, queue, mutex, limiter, due, ack, acked, down, up, uq, flag, left, direct>>
WindowEnds ==
    /\ due < Len(limiter) /\ due' = due + 1
    /\ UNCHANGED <<tx, pc, ticks, det, queue, mutex, limiter, ack, acked, down, up, uq, flag, left, direct>>

\* The gate is looked at before the line is rendered ...
Gate ==
    /\ pc = "gate" /\ pc' = IF tx THEN "lock" ELSE "run"
    /\ UNCHANGED <<tx, ticks, det, queue, mutex, limiter, due, ack, acked, down, up, uq, flag, left, direct>>
\* ... and again by the writer that holds the UART, except for the identity.
GateOpen == tx \/ det = "info"
Lock ==
    /\ pc = "lock" /\ mutex = "free"
    /\ IF GateOpen THEN pc' = "write" /\ mutex' = "task" ELSE pc' = "run" /\ mutex' = mutex
    /\ UNCHANGED <<tx, ticks, det, queue, limiter, due, ack, acked, down, up, uq, flag, left, direct>>
Write ==
    /\ pc = "write" /\ Len(up) < WireMax
    /\ up' = Append(up, det) /\ mutex' = "free" /\ pc' = "run" /\ det' = "none"
    /\ UNCHANGED <<tx, ticks, queue, limiter, due, ack, acked, down, uq, flag, left, direct>>

\* uart_tx_enqueue_priority_detection: the same two looks at the gate, on another task
\* and without the filters.
DirectBegins(d) ==
    /\ direct = "none" /\ Kind[d] = "rid" /\ tx /\ left.sightings > 0
    /\ direct' = d /\ left' = [left EXCEPT !.sightings = @ - 1]
    /\ UNCHANGED <<tx, pc, ticks, det, queue, mutex, limiter, due, ack, acked, down, up, uq, flag>>
DirectLocks ==
    /\ direct # "none" /\ mutex = "free"
    /\ IF tx THEN mutex' = "direct" /\ direct' = direct ELSE direct' = "none" /\ mutex' = mutex
    /\ UNCHANGED <<tx, pc, ticks, det, queue, limiter, due, ack, acked, down, up, uq, flag, left>>
DirectWrites ==
    /\ mutex = "direct" /\ Len(up) < WireMax
    /\ up' = Append(up, direct) /\ mutex' = "free" /\ direct' = "none"
    /\ UNCHANGED <<tx, pc, ticks, det, queue, limiter, due, ack, acked, down, uq, flag, left>>
BleTask == DirectLocks \/ DirectWrites

TransmitTask == \/ WaitTick \/ Enabled \/ Maintain \/ Gate \/ Lock \/ Write
                \/ \E weak, news \in BOOLEAN : Receive(weak, news)

-----------------------------------------------------------------------------
(* The scanner's command task.                                             *)

\* "ready", "start" and "stop"; a stop is acknowledged through the same writer.
Command ==
    /\ down # <<>> /\ ~ack /\ down' = Tail(down)
    /\ tx' = (Head(down) # "stop") /\ ack' = (Head(down) = "stop")
    /\ acked' = (acked /\ Head(down) = "stop")
    /\ UNCHANGED <<Task, mutex, up, uq, flag, left>>
SendAck ==
    /\ ack /\ mutex = "free" /\ Len(up) < WireMax
    /\ up' = Append(up, "stop_ack") /\ ack' = FALSE /\ acked' = ~tx
    /\ UNCHANGED <<Task, tx, mutex, down, uq, flag, left>>

-----------------------------------------------------------------------------
(* The uplink.                                                             *)

Above(tenths) == uq >= (UMax * tenths) \div 10
Drained == uq <= (UMax * 4) \div 10
Say(cmd) == down' = Append(down, cmd)

\* process_line: any line may release the scanner; a detection is then shed, or queued
\* and, with the queue nearly full, stops the scanner.  sent: the UART took the command.
Release(sent) == IF flag /\ Drained /\ sent THEN Say("start") /\ flag' = FALSE
                 ELSE UNCHANGED <<down, flag>>
Throttle(sent) == IF ~flag /\ Above(8) /\ sent THEN Say("stop") /\ flag' = TRUE
                  ELSE Release(sent)
IsDetection(line) == line \in Devices
UplinkLine(weak, sent) ==
    /\ up # <<>> /\ up' = Tail(up) /\ (sent => Len(down) < 2)
    /\ IF ~IsDetection(Head(up)) \/ (weak /\ Kind[Head(up)] = "fp" /\ Above(5))
       THEN Release(sent) /\ uq' = uq
       ELSE Throttle(sent) /\ uq' = IF uq < UMax THEN uq + 1 ELSE uq
    /\ UNCHANGED <<Task, tx, mutex, ack, acked, left>>
Drain ==
    /\ uq > 0 /\ uq' = uq - 1
    /\ UNCHANGED <<Task, tx, mutex, ack, acked, down, up, flag, left>>
\* Mutant: READY is kept back from a scanner that is not marked as throttled.
ReadyIfFlagged ==
    /\ down = <<>> /\ ~tx /\ ~ack /\ flag /\ Say("ready")
    /\ UNCHANGED <<Task, tx, mutex, ack, acked, up, uq, flag, left>>
\* Every 30 s, whatever the flag says (to a scanner that transmits it says nothing new).
Ready ==
    /\ down = <<>> /\ ~tx /\ ~ack /\ Say("ready")
    /\ UNCHANGED <<Task, tx, mutex, ack, acked, up, uq, flag, left>>
\* A relay stops the scanner before it offers an image.
RelayStops ==
    /\ left.stops > 0 /\ Len(down) < 2 /\ Say("stop") /\ left' = [left EXCEPT !.stops = @ - 1]
    /\ UNCHANGED <<Task, tx, mutex, ack, acked, up, uq, flag>>

Lost ==
    /\ left.losses > 0 /\ left' = [left EXCEPT !.losses = @ - 1]
    /\ \/ down # <<>> /\ down' = Tail(down) /\ up' = up
       \/ up # <<>> /\ up' = Tail(up) /\ down' = down
    /\ UNCHANGED <<Task, tx, mutex, ack, acked, uq, flag>>

Uplink == \/ Drain \/ Ready \/ \E weak, sent \in BOOLEAN : UplinkLine(weak, sent)
Next == \/ \E d \in Devices : Sight(d) \/ DirectBegins(d)
        \/ BleTask \/ TransmitTask \/ WindowEnds \/ Command \/ SendAck \/ Uplink \/ RelayStops \/ Lost
Spec == Init /\ [][Next]_vars
\* The tasks of the scanner run, the uplink reads what it gets, its uploader takes from
\* its queue and its watchdog repeats READY.
FairSpec == /\ Spec /\ WF_vars(TransmitTask) /\ WF_vars(Command) /\ SF_vars(SendAck)
            /\ WF_vars(\E weak, sent \in BOOLEAN : UplinkLine(weak, sent))
            /\ WF_vars(Drain) /\ WF_vars(Ready \/ BleTask)

-----------------------------------------------------------------------------
(* Properties.                                                             *)

\* "Emit stop_ack so the uplink's relay handler knows our TX loop is halted": between a
\* stop_ack and the next enabling no telemetry line is written, although the command
\* task clears the gate while the two writers may be past their first look at it.
NoTelemetry == acked /\ up' # up /\ Len(up') > Len(up) => Last(up') \in {"stop_ack", "info"}
SilentAfterStop == [][NoTelemetry]_vars

\* A stopped scanner is started again, also when the "start" that was to release it got
\* lost after the uplink had already cleared its flag.
Halted == ~tx
ThrottleEnds == Halted ~> ~Halted
-----------------------------------------------------------------------------
\* The inductive strengthening of NoTelemetry: as long as a stop_ack stands, the
\* task that writes has nothing in its hands but the identity, the BLE task does not
\* write, and the acknowledgement gets the UART from them only between two lines.
Lines == Devices \cup {"info", "status", "none", "stop_ack"}
Typed == /\ tx \in BOOLEAN /\ acked \in BOOLEAN /\ det \in Lines
         /\ queue \in Seq(Devices) /\ up \in Seq(Lines) /\ direct \in Devices \cup {"none"}
SilenceInv == /\ Typed
              /\ acked => ~tx
              /\ pc = "write" => mutex = "task" /\ (acked => det = "info")
              /\ mutex = "direct" => direct # "none" /\ ~acked
=============================================================================
