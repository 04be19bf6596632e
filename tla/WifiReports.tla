----------------------------- MODULE WifiReports -----------------------------
(***************************************************************************)
(* What the Wi-Fi scanner tells, and what it holds back                     *)
(* (scanner/main/detection/wifi_scanner.c, shared/wifi_probe_capture.h).     *)
(* Frames come from the driver's promiscuous callback and from the records   *)
(* of a finished scan, on two tasks that share every table without a lock.  *)
(* A drone protocol is always told.  A name or vendor match is told again    *)
(* only after Period or when the signal has changed by Delta; a priority     *)
(* probe after Brief, an ordinary one after Period and within a budget; a    *)
(* drone-like name only if its signal has moved by Move over Samples.        *)
(*                                                                         *)
(* The limiter is a ring of entries: looking a key up, writing an entry and  *)
(* advancing the ring are steps of their own, each taken as atomic; so is an *)
(* update of the movement tracker.  A report is an attempt: the detection    *)
(* queue may be full (DetectionFlow).                                       *)
(*                                                                         *)
(* Bounds: Air, the frames that may be heard; Slots and Tracks of the tables; *)
(* Frames heard in all; TimeMax.  A step of the clock is longer than the    *)
(* budget's second.                                                         *)
(***************************************************************************)
EXTENDS Integers, Sequences, SequencesExt, FiniteSets, FiniteSetsExt

CONSTANTS Air, Slots, Tracks, Period, Brief, Delta, Move, Samples, Budget, Frames, TimeMax

VARIABLES now, left, ring, budget, track,
          ctx,     \* what the callback and the scan task are doing
          told,    \* reports of each key not older than Period (history)
          past,    \* the last signals heard of each key (history)
          verdict  \* what the latest step decided (history)

vars == <<now, left, ring, budget, track, ctx, told, past, verdict>>

Keys    == {f.key : f \in Air}
Lanes   == {"beacon", "probe", "pair"}
Callback == "callback"
ScanTask == "scan"
Contexts == {Callback, ScanTask}
Blank   == [key |-> "", level |-> 0, at |-> 0]
Idle    == [pc |-> "idle"]
Nothing == [what |-> "none"]

Init == /\ now = 1 /\ left = Frames
        /\ ring = [l \in Lanes |-> [entry |-> [i \in 1..Slots |-> Blank], next |-> 1]]
        /\ budget = [window |-> 0, count |-> 0] /\ track = <<>>
        /\ ctx = [c \in Contexts |-> Idle]
        /\ told = [k \in Keys |-> {}] /\ past = [k \in Keys |-> <<>>]
        /\ verdict = Nothing

Apart(a, b) == IF a > b THEN a - b ELSE b - a
Tell(f)   == told' = [told EXCEPT ![f.key] = @ \cup {[level |-> f.level, at |-> now]}]
Verdict(what, f) == verdict' = [what |-> what, frame |-> f]
Done(c)   == ctx' = [ctx EXCEPT ![c] = Idle]
Goes(c, pc, f) == ctx' = [ctx EXCEPT ![c] = [pc |-> pc, frame |-> f]]

-----------------------------------------------------------------------------
(* Hearing.  A frame is what its elements, its name and its vendor make of   *)
(* it; the code takes the first class that applies.                         *)

Protocol(f) == "protocol" \in f.is                  \* DJI, ASTM and French remote IDs
Private(f)  == "privacy" \in f.is                   \* a camera's or tool's name or vendor
Named(f)    == "drone" \in f.is                     \* a drone's name or vendor
Soft(f)     == "soft" \in f.is                      \* a name like a drone's
Ordinary(f) == f.lane = "probe" /\ ~Named(f)

Hears(c, lane, f) == /\ ctx[c].pc = "idle" /\ f.lane = lane
                     /\ left > 0 /\ left' = left - 1
                     /\ UNCHANGED <<now, ring, budget, track, past>>
AsksLimiter(c, f) == Goes(c, "look", f) /\ verdict' = Nothing /\ UNCHANGED told
AsksTracker(c, f) == Goes(c, "track", f) /\ verdict' = Nothing /\ UNCHANGED told
Ignores           == verdict' = Nothing /\ UNCHANGED <<ctx, told>>

\* process_beacon_frame; a drone protocol is told whatever was told before.
HearBeacon(f) ==
    /\ Hears(Callback, "beacon", f)
    /\ IF Protocol(f) THEN Tell(f) /\ Verdict("told", f) /\ UNCHANGED ctx
       ELSE IF Private(f) \/ Named(f) THEN AsksLimiter(Callback, f)
       ELSE IF Soft(f) THEN AsksTracker(Callback, f) ELSE Ignores

\* process_scan_results: a record has no protocol elements.
HearRecord(f) ==
    /\ Hears(ScanTask, "beacon", f)
    /\ IF Private(f) \/ Named(f) THEN AsksLimiter(ScanTask, f)
       ELSE IF Soft(f) THEN AsksTracker(ScanTask, f) ELSE Ignores

\* process_probe_request, and the data frames of wifi_promiscuous_cb.
HearProbe(f) == Hears(Callback, "probe", f) /\ AsksLimiter(Callback, f)
HearPair(f)  == Hears(Callback, "pair", f) /\ AsksLimiter(Callback, f)

-----------------------------------------------------------------------------
(* rssi_track_update. *)

Latest(seq, n) == IF Len(seq) > n THEN SubSeq(seq, Len(seq) - n + 1, Len(seq)) ELSE seq
Moved(seq)  == Len(seq) >= 3 /\ \E i, j \in DOMAIN seq : seq[i] - seq[j] >= Move

\* A free slot, or the first one whoever it belongs to.
\* Mutant: the samples of its last owner stay in it.
Inherits(f, owner) == [key |-> f.key, heard |-> owner.heard]
Starts(f, owner) == [key |-> f.key, heard |-> <<>>]

Tracked(f) ==
    LET mine == {i \in DOMAIN track : track[i].key = f.key}
        i    == IF mine # {} THEN Min(mine) ELSE IF Len(track) < Tracks THEN Len(track) + 1 ELSE 1
        slot == IF i \in mine THEN track[i]
                ELSE Starts(f, IF i <= Len(track) THEN track[i] ELSE [heard |-> <<>>])
        new  == [slot EXCEPT !.heard = Latest(Append(@, f.level), Samples)]
    IN  [table |-> IF i > Len(track) THEN Append(track, new) ELSE [track EXCEPT ![i] = new],
         moved |-> Moved(new.heard)]

\* A soft name goes on only if it moves; the scan asks the limiter too.
Track(c) ==
    /\ ctx[c].pc = "track"
    /\ LET f == ctx[c].frame  t == Tracked(f) IN
       /\ track' = t.table /\ past' = [past EXCEPT ![f.key] = Latest(Append(@, f.level), Samples)]
       /\ IF ~t.moved THEN Done(c) /\ Verdict("still", f) /\ UNCHANGED told
          ELSE IF c = Callback THEN Done(c) /\ Tell(f) /\ Verdict("moves", f)
          ELSE Goes(c, "look", f) /\ Verdict("moves", f) /\ UNCHANGED told
    /\ UNCHANGED <<now, left, ring, budget>>

-----------------------------------------------------------------------------
(* beacon_rate_limit_allow, probe_rate_limit_allow, wifi_assoc_seen_recently. *)

Interval(f) == IF f.lane = "probe" /\ Named(f) THEN Brief ELSE Period
Entries(f)  == ring[f.lane].entry
Mine(f)     == {i \in 1..Slots : Entries(f)[i].key = f.key}
Repeats(f, e) == /\ now - e.at < Interval(f)
                 /\ (f.lane = "beacon" => Apart(f.level, e.level) < Delta)

\* Mutant: a signal held back becomes the one the next is compared with.
DriftFollowed(f, e) == [e EXCEPT !.level = f.level]
HeldBack(f, e) == e

\* Mutant: the budget holds priority probes back as well.
BudgetForAll(f) == f.lane = "probe"
Budgeted(f) == Ordinary(f)

Spent  == IF budget.window = now THEN budget.count ELSE 0
\* Past the limiter: an ordinary probe still needs the budget.
Passes(f) ==
    IF Budgeted(f) /\ Spent >= Budget
    THEN Verdict("dropped", f) /\ budget' = [window |-> now, count |-> Spent] /\ UNCHANGED told
    ELSE /\ Tell(f) /\ Verdict("told", f)
         /\ budget' = IF Budgeted(f) THEN [window |-> now, count |-> Spent + 1] ELSE budget

\* The queue's pressure drops an ordinary probe before the limiter sees it.
Pressure(c) == /\ ctx[c].pc = "look" /\ Ordinary(ctx[c].frame)
               /\ Done(c) /\ Verdict("dropped", ctx[c].frame)
               /\ UNCHANGED <<now, left, ring, budget, track, told, past>>

Look(c) ==
    /\ ctx[c].pc = "look"
    /\ LET f == ctx[c].frame  i == Min(Mine(f)) IN
       IF Mine(f) = {}
       THEN Goes(c, "write", f) /\ verdict' = Nothing /\ UNCHANGED <<ring, told, budget>>
       ELSE /\ Done(c)
            /\ IF Repeats(f, Entries(f)[i])
               THEN /\ ring' = [ring EXCEPT ![f.lane].entry[i] = HeldBack(f, @)]
                    /\ Verdict("hushed", f) /\ UNCHANGED <<told, budget>>
               ELSE /\ ring' = [ring EXCEPT ![f.lane].entry[i] =
                                  [@ EXCEPT !.level = f.level, !.at = now]]
                    /\ Passes(f)
    /\ UNCHANGED <<now, left, track, past>>

Write(c) ==
    /\ ctx[c].pc = "write"
    /\ LET f == ctx[c].frame
       IN  /\ ring' = [ring EXCEPT ![f.lane].entry[ring[f.lane].next] =
                         [key |-> f.key, level |-> f.level, at |-> now]]
           /\ Goes(c, "advance", f)
    /\ verdict' = Nothing /\ UNCHANGED <<now, left, budget, track, told, past>>

Advance(c) ==
    /\ ctx[c].pc = "advance"
    /\ LET f == ctx[c].frame
       IN  ring' = [ring EXCEPT ![f.lane].next = (@ % Slots) + 1] /\ Passes(f)
    /\ Done(c) /\ UNCHANGED <<now, left, track, past>>

\* The clock is much slower than either task.
Tick == /\ now < TimeMax /\ now' = now + 1 /\ verdict' = Nothing
        /\ \A c \in Contexts : ctx[c].pc = "idle"
        /\ told' = [k \in Keys |-> {r \in told[k] : now + 1 - r.at < Period}]
        /\ UNCHANGED <<left, ring, budget, track, ctx, past>>

Next == \/ \E f \in Air : HearBeacon(f) \/ HearRecord(f) \/ HearProbe(f) \/ HearPair(f)
        \/ \E c \in Contexts : Track(c) \/ Pressure(c) \/ Look(c) \/ Write(c) \/ Advance(c)
        \/ Tick
Spec == Init /\ [][Next]_vars

-----------------------------------------------------------------------------
TypeOK ==
    /\ now \in 1..TimeMax /\ Len(track) <= Tracks
    /\ \A l \in Lanes : /\ ring[l].next \in 1..Slots
                        /\ \A i \in 1..Slots : ring[l].entry[i].key \in Keys \cup {""}
    /\ \A c \in Contexts : ctx[c].pc \in {"idle", "track", "look", "write", "advance"}
    /\ budget.count \in 0..Budget

\* What the limiter holds back was told: no longer ago than its interval, and,
\* for a beacon, within Delta of the signal just heard, so that neither a slow
\* drift, nor entries the other task pushes out or writes twice, nor the
\* budget of ordinary probes, silences what a report is due for.
HushedWasTold ==
    verdict.what = "hushed" /\ ~Ordinary(verdict.frame) =>
      LET f == verdict.frame
          telling == {[level |-> ctx[c].frame.level, at |-> now] :
                        c \in {d \in Contexts : ctx[d].pc = "advance" /\ ctx[d].frame.key = f.key}}
      IN  \E r \in told[f.key] \cup telling :
            /\ now - r.at < Interval(f)
            /\ (f.lane = "beacon" => Apart(f.level, r.level) < Delta)

\* A drone-like name that stands still is never taken for a drone: its own
\* last signals have moved, not those of whoever had its slot before.
MovesMeansMoved == verdict.what = "moves" => Moved(past[verdict.frame.key])

-----------------------------------------------------------------------------
\* The inductive strengthenings.
Samplings == [level : Int, at : Nat]
Working   == [pc : {"track", "look", "write", "advance"}, frame : Air]
Slot      == [key : Keys \cup {""}, level : Int, at : Nat]
TypedInv ==
    /\ now \in Nat
    /\ ring \in [Lanes -> [entry : [1..Slots -> Slot], next : 1..Slots]]
    /\ ctx \in [Contexts -> {Idle} \cup Working]
    /\ told \in [Keys -> SUBSET Samplings]
    /\ track \in Seq([key : Keys, heard : Seq(Int)]) /\ past \in [Keys -> Seq(Int)]

\* An entry that may still hold a report back stands for one that was made, or
\* that the task which wrote the entry has yet to make.
Telling(c, e) == /\ ctx[c].pc = "advance" /\ ~Ordinary(ctx[c].frame)
                 /\ ctx[c].frame.key = e.key /\ ctx[c].frame.level = e.level /\ e.at = now
Vouched(e) == \/ [level |-> e.level, at |-> e.at] \in told[e.key]
              \/ \E c \in Contexts : Telling(c, e)
LimiterInv ==
    \A f \in Air, i \in 1..Slots :
       LET e == ring[f.lane].entry[i]
       IN  ~Ordinary(f) /\ e.key = f.key /\ now - e.at < Period => Vouched(e)

\* The tracker has one slot for a name, and in it the last of its signals.
Suffix(u, v) == /\ Len(u) <= Len(v)
                /\ \A k \in 1..Len(u) : u[k] = v[Len(v) - Len(u) + k]
TrackerInv ==
    \A i \in DOMAIN track :
       /\ Suffix(track[i].heard, past[track[i].key])
       /\ \A j \in DOMAIN track : track[i].key = track[j].key => i = j

ReportsInv == TypedInv /\ LimiterInv /\ TrackerInv /\ HushedWasTold /\ MovesMeansMoved
=============================================================================
