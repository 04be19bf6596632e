--------------------------- MODULE ScannerIdentity ---------------------------
(***************************************************************************)
(* Whose identity is it (uplink/main/comms/uart_rx.c, the identity fence of *)
(* fw_store.c).  A scanner tells who it is in status and scanner_info lines. *)
(* The uplink's reading task publishes them in two records under two locks: *)
(* the identity, with a generation that grows, and the live view.  A        *)
(* campaign believes only generations above a floor, and takes the floor    *)
(* behind a fence: it pauses the reading task, flushes the UART, waits until *)
(* what was under way has arrived, flushes again, and reads the generation. *)
(*                                                                         *)
(* A line travels as two halves, so that a flush, a reset of the scanner or *)
(* a relay that reads the UART itself can cut it; halves of two lines of one *)
(* kind make a line the schema takes.  Noise spoils a half and its line.    *)
(* Generations are kept as their rank among those still held: only their    *)
(* order is ever compared.                                                  *)
(*                                                                         *)
(* Bounds: Lines the scanner sends, WireMax halves under way, ReadMax of    *)
(* them in one read, Boots of the scanner, Fences, and Events: a relay, a   *)
(* reset of either side, noise, a flush that fails, a late reader.          *)
(***************************************************************************)
EXTENDS Naturals, Sequences, SequencesExt, FiniteSets

CONSTANTS Lines, WireMax, ReadMax, Boots, Fences, Events

VARIABLES scanner, \* its boot and the line it is half way through
          wire,    \* halves under way, the oldest first
          arrived, \* how many of them the driver holds
          rx,      \* the reading task and its framer
          pause,   \* the request, the last generation handed out
          ident,   \* s_scanner_identity_snapshots
          live,    \* the scanner's live record
          floor,   \* the campaign's floor, and the era of its fence
          worker,  \* the task that fences
          relay,   \* a relay that holds the UART
          era,     \* fences begun (history)
          left     \* what remains of each bound

vars == <<scanner, wire, arrived, rx, pause, ident, live, floor, worker, relay, era, left>>
link == <<scanner, wire, arrived>>
records == <<ident, live, floor>>

\* A brief status and a bare scanner_info lack part of the identity; an ack has none.
AllLines == {"status", "brief", "info", "bare", "ack"}
NoLine == [kind |-> "none"]
Reader == [pc |-> "loop", seen |-> 0, ack |-> 0, buf |-> <<>>, head |-> NoLine,
           bad |-> FALSE, frame |-> NoLine, published |-> 0]
Unknown == [gen |-> 0, complete |-> FALSE, version |-> 0, boot |-> 0, era |-> 0]
NotSeen == [gen |-> 0, version |-> 0, boot |-> 0, received |-> FALSE]
Idle    == [pc |-> "idle", guard |-> 0]

\* uart_rx_start: the tasks run, nothing is known.
Init == /\ scanner = [boot |-> 1, line |-> NoLine]
        /\ wire = <<>> /\ arrived = 0 /\ era = 0
        /\ rx = Reader /\ pause = [request |-> 0, last |-> 0]
        /\ ident = Unknown /\ live = NotSeen /\ floor = [gen |-> 0, era |-> 0]
        /\ worker = Idle /\ relay = Idle
        /\ left = [fences |-> Fences, events |-> Events]

Event == left.events > 0 /\ left' = [left EXCEPT !.events = @ - 1]

-----------------------------------------------------------------------------
(* The scanner and the wire. *)

Half(end, line) == [kind |-> line.kind, boot |-> line.boot, end |-> end, era |-> era]
Put(end, line) == wire' = Append(wire, Half(end, line))

SendHead(kind) ==
    /\ scanner.line = NoLine /\ Len(wire) < WireMax
    /\ LET line == [kind |-> kind, boot |-> scanner.boot]
       IN  scanner' = [scanner EXCEPT !.line = line] /\ Put("head", line)
    /\ UNCHANGED <<arrived, rx, pause, records, worker, relay, era, left>>

SendTail ==
    /\ scanner.line # NoLine /\ Len(wire) < WireMax
    /\ scanner' = [scanner EXCEPT !.line = NoLine] /\ Put("tail", scanner.line)
    /\ UNCHANGED <<arrived, rx, pause, records, worker, relay, era, left>>

Reboot ==
    /\ scanner.boot < Boots /\ Event
    /\ scanner' = [boot |-> scanner.boot + 1, line |-> NoLine]
    /\ UNCHANGED <<wire, arrived, rx, pause, records, worker, relay, era>>

Arrive == /\ arrived < Len(wire) /\ arrived' = arrived + 1
          /\ UNCHANGED <<scanner, wire, rx, pause, records, worker, relay, era, left>>

Noise == /\ Event /\ arrived < Len(wire)
         /\ wire' = [wire EXCEPT ![arrived + 1].end = "noise"]
         /\ UNCHANGED <<scanner, arrived, rx, pause, records, worker, relay, era>>

AtMost(n) == IF n < ReadMax THEN n ELSE ReadMax
\* uart_flush_input
Flushed == wire' = SubSeq(wire, arrived + 1, Len(wire)) /\ arrived' = 0

-----------------------------------------------------------------------------
(* The reading task. *)

RxPauses ==
    /\ rx.pc = "loop" /\ pause.request # 0
    /\ rx' = [rx EXCEPT !.pc = "paused", !.seen = pause.request, !.ack = pause.request]
    /\ UNCHANGED <<link, pause, records, worker, relay, era, left>>

\* Mutant: what the framer held before the pause is still there after it.
FramerKept  == rx' = [rx EXCEPT !.pc = "loop", !.seen = 0, !.ack = 0]
FramerReset == rx' = [rx EXCEPT !.pc = "loop", !.seen = 0, !.ack = 0, !.head = NoLine, !.bad = FALSE]

RxResumes ==
    /\ rx.pc = "paused" /\ pause.request # rx.seen /\ FramerReset
    /\ UNCHANGED <<link, pause, records, worker, relay, era, left>>

\* No pause was asked for: the next read is bound to happen.
RxLooks == /\ rx.pc = "loop" /\ pause.request = 0 /\ rx' = [rx EXCEPT !.pc = "read"]
           /\ UNCHANGED <<link, pause, records, worker, relay, era, left>>

\* A read takes what the driver holds; without bytes an old partial expires
\* and everything up to the next newline is discarded.
RxReads ==
    /\ rx.pc = "read"
    /\ IF arrived > 0
       THEN \E n \in 1..AtMost(arrived) :
              /\ rx' = [rx EXCEPT !.pc = "frames", !.buf = SubSeq(wire, 1, n)]
              /\ wire' = SubSeq(wire, n + 1, Len(wire)) /\ arrived' = arrived - n
       ELSE LET stale == rx.head # NoLine /\ wire = <<>> /\ scanner.line = NoLine
            IN  rx' = [rx EXCEPT !.pc = "loop", !.bad = @ \/ stale,
                                 !.head = IF stale THEN NoLine ELSE @]
                /\ UNCHANGED <<wire, arrived>>
    /\ UNCHANGED <<scanner, pause, records, worker, relay, era, left>>

\* Two halves the schema takes for one line.
Whole(head, tail) == head # NoLine /\ head.kind = tail.kind
Parsed(head, tail) ==
    [kind |-> head.kind, version |-> head.boot, boot |-> tail.boot,
     era |-> IF head.era < tail.era THEN head.era ELSE tail.era]

\* publish_scanner_identity_snapshot: a status publishes only if it is complete.
Publishes(f) == f.kind \in {"status", "info", "bare"}

Publish(f) ==
    LET new  == ident.gen + 1
        held == {0, live.gen, floor.gen, new}
        rank(g) == Cardinality({h \in held : h < g})
    IN  /\ ident' = [gen |-> rank(new), complete |-> f.kind # "bare",
                     version |-> f.version, boot |-> f.boot, era |-> f.era]
        /\ live' = [live EXCEPT !.gen = rank(@)] /\ floor' = [floor EXCEPT !.gen = rank(@)]
        /\ rx' = [rx EXCEPT !.buf = Tail(@), !.head = NoLine, !.bad = FALSE,
                            !.pc = "update", !.frame = f, !.published = rank(new)]

\* The framer takes one half; a line the schema refuses leaves no trace.
RxFrame ==
    /\ rx.pc = "frames" /\ rx.buf # <<>>
    /\ LET p == Head(rx.buf)  f == Parsed(rx.head, p) IN
       \/ /\ p.end # "tail"
          /\ LET opens == p.end = "head" /\ rx.head = NoLine /\ ~rx.bad
             IN  rx' = [rx EXCEPT !.buf = Tail(@), !.bad = @ \/ ~opens,
                                  !.head = IF opens THEN p ELSE NoLine]
          /\ UNCHANGED records
       \/ /\ p.end = "tail" /\ ~Whole(rx.head, p)
          /\ rx' = [rx EXCEPT !.buf = Tail(@), !.bad = FALSE, !.head = NoLine]
          /\ UNCHANGED records
       \/ /\ p.end = "tail" /\ Whole(rx.head, p) /\ Publishes(f)
          /\ Publish(f)
       \/ /\ p.end = "tail" /\ Whole(rx.head, p) /\ ~Publishes(f)
          /\ rx' = [rx EXCEPT !.buf = Tail(@), !.bad = FALSE, !.head = NoLine,
                              !.pc = "update", !.frame = f, !.published = 0]
          /\ UNCHANGED records
    /\ UNCHANGED <<link, pause, worker, relay, era, left>>

\* handle_status and the scanner_info branch, then the acknowledgements.
\* Mutant: the live record follows every status, published or not.
FollowsAnyStatus(f) ==
    IF f.kind = "ack" THEN [live EXCEPT !.received = TRUE]
    ELSE [gen |-> IF rx.published = 0 THEN live.gen ELSE rx.published,
          version |-> f.version, boot |-> f.boot, received |-> TRUE]
Followed(f) ==
    IF f.kind = "ack" THEN [live EXCEPT !.received = TRUE]
    ELSE IF rx.published = 0 THEN live
    ELSE [gen |-> rx.published, version |-> f.version, boot |-> f.boot, received |-> TRUE]

RxUpdates ==
    /\ rx.pc = "update" /\ live' = Followed(rx.frame)
    /\ rx' = [rx EXCEPT !.pc = "frames", !.frame = NoLine, !.published = 0]
    /\ UNCHANGED <<link, pause, ident, floor, worker, relay, era, left>>

RxDone == /\ rx.pc = "frames" /\ rx.buf = <<>> /\ rx' = [rx EXCEPT !.pc = "loop"]
          /\ UNCHANGED <<link, pause, records, worker, relay, era, left>>

Rx == RxPauses \/ RxResumes \/ RxLooks \/ RxReads \/ RxFrame \/ RxUpdates \/ RxDone

-----------------------------------------------------------------------------
(* Holding the UART: the request is taken only if nobody holds it. *)

Asks(who) == /\ pause' = [request |-> IF pause.request = 0 THEN pause.last + 1
                                      ELSE pause.request,
                          last |-> pause.last + 1]
             /\ who' = IF pause.request = 0
                       THEN [pc |-> "asking", guard |-> pause.last + 1] ELSE Idle

Resumed(guard) == pause' = [pause EXCEPT !.request = IF @ = guard THEN 0 ELSE @]

\* A relay reads the UART by itself.
RelayAsks == /\ relay.pc = "idle" /\ Event /\ Asks(relay)
             /\ UNCHANGED <<link, rx, records, worker, era>>
RelayTakes == /\ relay.pc = "asking" /\ rx.ack = relay.guard /\ arrived > 0
              /\ wire' = Tail(wire) /\ arrived' = arrived - 1
              /\ UNCHANGED <<scanner, rx, pause, records, worker, relay, era, left>>
RelayEnds  == /\ relay.pc = "asking" /\ Resumed(relay.guard) /\ relay' = Idle
              /\ UNCHANGED <<link, rx, records, worker, era, left>>

-----------------------------------------------------------------------------
(* auto_capture_identity_floors_fenced. *)

FenceAsks == /\ worker.pc = "idle" /\ left.fences > 0 /\ Asks(worker)
             /\ left' = [left EXCEPT !.fences = @ - 1]
             /\ UNCHANGED <<link, rx, records, relay, era>>

\* Mutant: asking is enough.
Asked == pause.request = worker.guard
Held == pause.request = worker.guard /\ rx.ack = worker.guard

FirstFlush == /\ worker.pc = "asking" /\ Held /\ Flushed /\ era' = era + 1
              /\ worker' = [worker EXCEPT !.pc = "drain"]
              /\ UNCHANGED <<scanner, rx, pause, records, relay, left>>

\* The wait is longer than anything written before it can stay under way.
Drained == \A i \in arrived + 1 .. Len(wire) : wire[i].era = era

\* Mutant: what arrived during the wait is kept.
NoFlush     == UNCHANGED <<wire, arrived>>
SecondFlush == Flushed

Capture == /\ worker.pc = "drain" /\ Drained /\ Held /\ SecondFlush
           /\ floor' = [gen |-> ident.gen, era |-> era]
           /\ worker' = [worker EXCEPT !.pc = "resume"]
           /\ UNCHANGED <<scanner, rx, pause, ident, live, relay, era, left>>

\* Mutant: the guards the fence took itself are not given back.
FenceForgets == /\ worker.pc = "resume" /\ worker' = Idle
                /\ UNCHANGED <<link, rx, pause, records, relay, era, left>>
FenceEnds == /\ worker.pc = "resume" /\ Resumed(worker.guard) /\ worker' = Idle
             /\ UNCHANGED <<link, rx, records, relay, era, left>>

\* The reader is late, or a flush fails: no floor, the pause is given back.
FenceFails == /\ worker.pc \in {"asking", "drain"} /\ Event
              /\ Resumed(worker.guard) /\ worker' = Idle
              /\ UNCHANGED <<link, rx, records, relay, era>>

\* A reset of the uplink; what has not arrived yet still will.
Restart == /\ Event /\ Flushed
           /\ rx' = Reader /\ pause' = [request |-> 0, last |-> 0]
           /\ ident' = Unknown /\ live' = NotSeen /\ floor' = [gen |-> 0, era |-> 0]
           /\ worker' = Idle /\ relay' = Idle /\ UNCHANGED <<scanner, era>>

Fence == FirstFlush \/ Capture \/ FenceEnds
Next == \/ \E kind \in Lines : SendHead(kind)
        \/ SendTail \/ Reboot \/ Arrive \/ Noise
        \/ Rx \/ RelayAsks \/ RelayTakes \/ RelayEnds
        \/ FenceAsks \/ Fence \/ FenceFails \/ Restart

\* Both tasks run, the wire delivers, a relay ends, and the scanner sends a
\* complete status again and again, whatever else it sends.
Spec == Init /\ [][Next]_vars
FairSpec == /\ Spec /\ WF_vars(Arrive \/ SendTail) /\ WF_vars(Rx)
            /\ WF_vars(Fence \/ FenceFails) /\ WF_vars(RelayEnds)
            /\ SF_vars(SendHead("status"))

-----------------------------------------------------------------------------
Boot == 0..Boots
TypeOK ==
    /\ scanner.boot \in 1..Boots /\ Len(wire) <= WireMax /\ arrived \in 0..Len(wire)
    /\ rx.pc \in {"loop", "paused", "read", "frames", "update"}
    /\ pause.request \in 0..pause.last
    /\ ident.gen \in 0..3 /\ ident.version \in Boot /\ ident.boot \in Boot
    /\ live.gen \in 0..ident.gen /\ live.boot \in Boot /\ floor.gen \in 0..ident.gen
    /\ worker.pc \in {"idle", "asking", "drain", "resume"} /\ relay.pc \in {"idle", "asking"}

Fresh == ident.complete /\ ident.gen > floor.gen

\* What a campaign accepts as fresh was sent, every byte of it, after its
\* fence: nothing that waited in the driver, the framer or the reading task,
\* or was under way, gets a generation above the floor.
FenceHolds == floor.era # 0 /\ Fresh => ident.era >= floor.era

\* Records with one generation tell of one line, and an identity is never put
\* together from two lines: a proof that compares them compares one scanner.
RecordsAgree ==
    /\ ident.version = ident.boot
    /\ live.gen = ident.gen => live.version = ident.version /\ live.boot = ident.boot
    /\ live.gen # 0 => live.received

\* Inductive: a framer that was not reset since it took a head has the half that
\* follows it, everything that is read outside a pause was sent behind the floor,
\* and a published line waits with the generation it was given.
HalfSet == [kind : Lines, boot : Nat, end : {"head", "tail", "noise"}, era : Nat]
Frames == [kind : Lines, version : Nat, boot : Nat, era : Nat]
Readers == [pc : {"loop", "paused", "read", "frames", "update"}, seen : Nat, ack : Nat,
            buf : Seq(HalfSet), head : HalfSet \cup {NoLine}, bad : BOOLEAN,
            frame : Frames \cup {NoLine}, published : Nat]
TypedInv == /\ scanner \in [boot : Nat, line : [kind : Lines, boot : Nat] \cup {NoLine}]
            /\ wire \in Seq(HalfSet) /\ arrived \in 0..Len(wire) /\ rx \in Readers
            /\ pause \in [request : Nat, last : Nat] /\ era \in Nat
            /\ ident \in [gen : Nat, complete : BOOLEAN, version : Nat, boot : Nat, era : Nat]
            /\ live \in [gen : Nat, version : Nat, boot : Nat, received : BOOLEAN]
            /\ floor \in [gen : Nat, era : Nat]
            /\ worker \in [pc : {"idle", "asking", "drain", "resume"}, guard : Nat]
            /\ relay \in [pc : {"idle", "asking"}, guard : Nat]
PauseInv == /\ rx.pc \in {"loop", "read", "paused"} => rx.buf = <<>>
            /\ rx.ack # 0 => rx.pc = "paused"
            /\ relay.pc = "asking" => relay.guard # 0
            /\ worker.pc \in {"asking", "drain"} => worker.guard # 0
EraInv == /\ floor.era <= era
          /\ \A i \in DOMAIN wire : wire[i].era >= floor.era
          /\ \A i \in DOMAIN rx.buf : rx.buf[i].era >= floor.era
          /\ rx.pc # "paused" /\ rx.head # NoLine => rx.head.era >= floor.era
          /\ ident.gen > floor.gen => ident.era >= floor.era
Coming == IF scanner.line = NoLine THEN <<>> ELSE <<Half("tail", scanner.line)>>
Halves == rx.buf \o wire \o Coming
Follows(head, tail) == head.end = "head" /\ tail.end = "tail" => head.boot = tail.boot
Chained(halves) == \A i \in 1 .. Len(halves) - 1 : Follows(halves[i], halves[i + 1])
PairInv == /\ Chained(Halves)
           /\ rx.pc # "paused" /\ rx.head # NoLine /\ Halves # <<>> /\ Halves[1].end = "tail" =>
                rx.head.boot = Halves[1].boot
GenInv == /\ live.gen <= ident.gen /\ floor.gen <= ident.gen
          /\ rx.pc = "update" /\ rx.published # 0 =>
               /\ rx.published = ident.gen
               /\ rx.frame.version = ident.version /\ rx.frame.boot = ident.boot
IdentityInv == TypedInv /\ PauseInv /\ EraInv /\ PairInv /\ GenInv /\ RecordsAgree

\* After a fence a fresh identity arrives, whatever the fence cut in half,
\* unless the uplink restarts or fences again.
Waits(n) == floor.era = n
Served(n) == Fresh \/ floor.era # n
FreshArrives == \A n \in 1..Fences : Waits(n) ~> Served(n)
=============================================================================
