----------------------------- MODULE ScannerRelay -----------------------------
(***************************************************************************)
(* The relay of a stored firmware image to a scanner: the uplink's         *)
(* fw_relay_stored_to_scanner, the two directions of the UART, and the     *)
(* scanner (ScannerOta).  The UART loses lines and damages frames; the     *)
(* scanner may lose its power at any step, and the new image may be one    *)
(* that does not work.  The operation token and the verified copy of the   *)
(* image that a relay holds are FirmwareOperation's.  The bridge for       *)
(* scanners older than this repository's (legacy_mode) is left out.        *)
(***************************************************************************)
EXTENDS ScannerOta

CONSTANTS RelayMax,     \* relays in a behaviour
          RetryLimit,   \* consecutive retries of a chunk (3 in the code)
          SendMax,      \* times a waiting relay sends its command
          FaultMax      \* lost lines, damaged frames, resets, early timeouts

VARIABLES relay,        \* the relay task
          seen,         \* the uplink's snapshot of the scanner's identity
          up, down,     \* lines on their way to and from the scanner
          scanner,
          works,        \* the stored image is one that works
          faults
vars == <<relay, seen, up, down, scanner, works, faults>>

\* An automatic relay finds the scanner quiet.  A rewrite skips the probe
\* and may send the version that is running.
Modes == {"auto", "manual", "rewrite"}
None == Chunks          \* no NACK

NoRelay == [pc |-> "idle", mode |-> "none", session |-> 0, boot |-> 0,
            seq |-> 0, nack |-> None, last |-> None, runs |-> 0,
            accepted |-> FALSE, sends |-> 0, committed |-> FALSE,
            result |-> "none", paused |-> FALSE, ready |-> FALSE]

Init ==
    /\ relay = NoRelay
    /\ seen = Info(Booted(1, "old", FALSE))
    /\ up = <<>> /\ down = <<>>
    /\ scanner = Booted(1, "old", FALSE)
    /\ works \in BOOLEAN
    /\ faults = 0

Same == IF relay.mode = "rewrite" THEN 1 ELSE 0
Send(m) == up' = Append(up, m)
Quiet == up = <<>> /\ down = <<>>
Fault == faults < FaultMax /\ faults' = faults + 1
Go(pc) == relay' = [relay EXCEPT !.pc = pc, !.sends = 0, !.nack = None, !.accepted = FALSE]
Only(x) == UNCHANGED <<seen, up, down, scanner, works, faults>>

-----------------------------------------------------------------------------
(* The uplink between relays.                                              *)

\* The main loop repeats READY to every scanner while nothing is relayed.
SendReady ==
    /\ relay.pc = "idle" /\ Quiet
    /\ Send(Msg("start", 0, 0))
    /\ UNCHANGED <<relay, seen, down, scanner, works, faults>>

\* fw_offer, in answer to a check of the scanner's.
SendOffer ==
    /\ relay.pc = "idle" /\ Quiet /\ relay.session < RelayMax
    /\ seen.image = "old"
    /\ Send(Msg("offer", 0, 0))
    /\ UNCHANGED <<relay, seen, down, scanner, works, faults>>

\* The background reader takes a line, unless a relay has paused it.
Listen ==
    /\ ~relay.paused /\ down # <<>>
    /\ LET m == Head(down) IN
         /\ seen' = IF m.k = "info" THEN m ELSE seen
         /\ relay' = [relay EXCEPT !.ready = @ \/ m.k = "ready"]
    /\ down' = Tail(down)
    /\ UNCHANGED <<up, scanner, works, faults>>

\* The checks before anything is sent; then the uploads and the reader pause
\* and what is in the receive buffer is dropped.
Allowed(mode) ==
    /\ mode = "auto" => relay.ready
    /\ seen.image = "new" => mode = "rewrite"

StartRelay(mode) ==
    /\ relay.pc = "idle" /\ relay.session < RelayMax /\ Allowed(mode)
    /\ relay' = [NoRelay EXCEPT !.pc = IF mode = "auto" THEN "begin" ELSE "stop",
                   !.mode = mode, !.session = relay.session + 1,
                   !.boot = seen.boot, !.paused = TRUE]
    /\ down' = <<>>
    /\ UNCHANGED <<seen, up, scanner, works, faults>>

-----------------------------------------------------------------------------
(* relay_done.  A failed relay that has committed nothing sends an abort   *)
(* for its session, the sentinel for a scanner that reads no lines, and    *)
(* START.                                                                  *)
Fail ==
    /\ relay' = [relay EXCEPT !.pc = "idle", !.result = "failed", !.paused = FALSE]
    /\ up' = up \o (IF relay.committed THEN <<>>
                    ELSE <<Msg("abort", relay.session, 0), Msg("sentinel", 0, 0)>>)
                \o <<Msg("start", 0, 0)>>

\* Deadlines pass when nothing more is to come, or too early.
TimedOut ==
    \/ Quiet /\ relay.sends = SendMax /\ scanner.ota \notin {"flashing", "rebooting"}
         /\ UNCHANGED faults
    \/ Fault

-----------------------------------------------------------------------------
(* relay_wait_for_with_resend, for STOP and for ota_begin.                 *)
Sending ==
    IF relay.pc = "stop" THEN Msg("stop", 0, 0)
    ELSE IF relay.pc = "begin" THEN Msg("begin", relay.session, Same)
    ELSE Msg("end", relay.session, 0)

SendCommand ==
    /\ relay.pc \in {"stop", "begin", "end"}
    /\ up = <<>> /\ relay.sends < SendMax
    /\ Send(Sending)
    /\ relay' = [relay EXCEPT !.sends = @ + 1]
    /\ UNCHANGED <<seen, down, scanner, works, faults>>

\* A line of another session, or of none, is passed over.
Mine(m) == m.s = relay.session

Answered(m) ==
    CASE relay.pc = "stop"  -> m.k = "stop_ack"
      [] relay.pc = "begin" -> m.k = "ack" /\ Mine(m)

Refused(m) == m.k = "error" /\ (relay.pc = "stop" \/ Mine(m))

WaitLine ==
    /\ relay.pc \in {"stop", "begin"} /\ down # <<>>
    /\ LET m == Head(down) IN
         CASE Answered(m) -> Go(IF relay.pc = "stop" THEN "begin" ELSE "send")
                               /\ UNCHANGED up
           [] Refused(m) ->
                IF relay.pc = "stop" /\ relay.mode = "rewrite"
                THEN Go("begin") /\ UNCHANGED up ELSE Fail
           [] OTHER -> UNCHANGED <<relay, up>>
    /\ down' = Tail(down)
    /\ UNCHANGED <<seen, scanner, works, faults>>

WaitTimeout ==
    /\ relay.pc \in {"stop", "begin"} /\ TimedOut
    /\ IF relay.pc = "stop" /\ relay.mode = "rewrite" THEN Go("begin") /\ UNCHANGED up ELSE Fail
    /\ UNCHANGED <<seen, down, scanner, works>>

-----------------------------------------------------------------------------
(* The chunk loop.                                                         *)
Final == relay.seq = Chunks - 1

SendChunk ==
    /\ relay.pc = "send" /\ Len(up) < 2
    /\ Send(Msg("chunk", relay.session, relay.seq))
    /\ Go(IF Final THEN "await" ELSE "poll")
    /\ UNCHANGED <<seen, down, scanner, works, faults>>

\* The flash cannot be read, the UART takes no bytes, or the whole transfer
\* takes too long.
StreamFailed ==
    /\ relay.pc = "send" /\ Fault
    /\ Fail
    /\ UNCHANGED <<seen, down, scanner, works>>

\* A NACK takes the stream back to the frame asked for, a few times for one
\* frame; a NACK for a frame not sent yet is ignored.
Rewind(n) ==
    LET runs == IF n = relay.last THEN relay.runs + 1 ELSE 1 IN
    IF runs > RetryLimit THEN Fail
    ELSE /\ relay' = [relay EXCEPT !.pc = "send", !.seq = n, !.last = n, !.runs = runs,
                        !.nack = None, !.accepted = FALSE]
         /\ UNCHANGED up

Advance ==
    /\ relay' = [relay EXCEPT !.pc = "send", !.seq = @ + 1]
    /\ UNCHANGED up

\* relay_poll_nack: of the lines that have come, the last NACK counts.
IsNack(m) == m.k = "nack" /\ Mine(m)

Poll ==
    /\ relay.pc = "poll"
    /\ \E n \in 0..Len(down) : \E last \in 0..n :
         /\ last > 0 => IsNack(down[last])
         /\ \A i \in (last + 1)..n : ~IsNack(down[i])
         /\ LET nack == IF last = 0 THEN None ELSE down[last].n
            IN IF nack = None \/ nack > relay.seq THEN Advance ELSE Rewind(nack)
         /\ down' = SubSeq(down, n + 1, Len(down))
    /\ UNCHANGED <<seen, scanner, works, faults>>

\* relay_wait_for_staged_or_nack, after the last chunk.
AwaitLine ==
    /\ relay.pc = "await" /\ down # <<>>
    /\ LET m == Head(down) IN
         CASE Mine(m) /\ m.k = "progress" ->
                relay' = [relay EXCEPT !.accepted = TRUE, !.nack = None] /\ UNCHANGED up
           [] Mine(m) /\ m.k = "staged" -> Go("end") /\ UNCHANGED up
           [] Mine(m) /\ m.k = "nack" /\ ~relay.accepted ->
                relay' = [relay EXCEPT !.nack = m.n] /\ UNCHANGED up
           [] Mine(m) /\ m.k = "error" -> Fail
           [] OTHER -> UNCHANGED <<relay, up>>
    /\ down' = Tail(down)
    /\ UNCHANGED <<seen, scanner, works, faults>>

\* The NACKs have settled.  One for a frame after the last ends the loop
\* without the receipt.
Settle ==
    /\ relay.pc = "await" /\ relay.nack # None
    /\ IF relay.nack > relay.seq THEN Fail ELSE Rewind(relay.nack)
    /\ UNCHANGED <<seen, down, scanner, works, faults>>

AwaitTimeout ==
    /\ relay.pc = "await" /\ relay.nack = None
    /\ (Quiet /\ UNCHANGED faults) \/ Fault
    /\ Fail
    /\ UNCHANGED <<seen, down, scanner, works>>

-----------------------------------------------------------------------------
(* The end: ota_end until the exact ota_done, then the proof that the      *)
(* scanner runs the image in good health.                                  *)
EndLine ==
    /\ relay.pc = "end" /\ down # <<>>
    /\ LET m == Head(down) IN
         CASE Mine(m) /\ m.k = "done" ->
                /\ relay' = [relay EXCEPT !.pc = "health", !.committed = TRUE,
                                !.paused = FALSE, !.sends = 0]
                /\ UNCHANGED up
           [] Mine(m) /\ m.k = "error" -> Fail
           [] OTHER -> UNCHANGED <<relay, up>>
    /\ down' = Tail(down)
    /\ UNCHANGED <<seen, scanner, works, faults>>

\* Without the receipt only a scanner seen to run another version can prove
\* the update; a rewrite has no such proof.
EndTimeout ==
    /\ relay.pc = "end" /\ TimedOut
    /\ IF relay.mode = "rewrite" THEN Fail
       ELSE /\ relay' = [relay EXCEPT !.pc = "health", !.paused = FALSE, !.sends = 0]
            /\ UNCHANGED up
    /\ UNCHANGED <<seen, down, scanner, works>>

RunsNewVersion(s) == s.boot > relay.boot /\ s.image = "new"

\* scanner_post_update_converged: another boot, this image, confirmed.
Converged(s) == s.boot > relay.boot /\ s.image = "new" /\ ~s.pending

HealthProved ==
    /\ relay.pc = "health" /\ Converged(seen)
    /\ relay' = [relay EXCEPT !.pc = "idle", !.result = "ok", !.committed = TRUE]
    /\ Only(relay)

\* Once the scanner is seen to have booted, START is repeated to it.
HealthProbe ==
    /\ relay.pc = "health" /\ Quiet /\ seen.boot > relay.boot
    /\ relay.sends < SendMax
    /\ relay' = [relay EXCEPT !.sends = @ + 1]
    /\ Send(Msg("start", 0, 0))
    /\ UNCHANGED <<seen, down, scanner, works, faults>>

HealthTimeout ==
    /\ relay.pc = "health"
    /\ \/ /\ Quiet /\ ~Converged(seen) /\ scanner.ota \notin {"flashing", "rebooting"}
          /\ seen.boot > relay.boot => relay.sends = SendMax
          /\ UNCHANGED faults
       \/ Fault
    /\ Fail
    /\ UNCHANGED <<seen, down, scanner, works>>

-----------------------------------------------------------------------------
(* The scanner.                                                            *)
Listening == scanner.ota \notin {"flashing", "rebooting"}

Receive ==
    /\ Listening /\ up # <<>>
    /\ LET r == Received(scanner, Head(up)) IN
         /\ scanner' = r.sc
         /\ down' = down \o r.out
    /\ up' = Tail(up)
    /\ UNCHANGED <<relay, seen, works, faults>>

\* validate_and_flash: an error of the flash, or the boot partition is set,
\* the receipt sent and the scanner restarted.
Flash ==
    /\ scanner.ota = "flashing"
    /\ scanner' = Flashed(scanner)
    /\ UNCHANGED <<relay, seen, up, down, works, faults>>

FlashError ==
    /\ scanner.ota = "flashing" /\ Fault
    /\ scanner' = FlashFailed(scanner).sc
    /\ down' = down \o FlashFailed(scanner).out
    /\ UNCHANGED <<relay, seen, up, works>>

Reboot ==
    /\ scanner.ota = "rebooting"
    /\ scanner' = Restarted(scanner)
    /\ down' = Append(down, Msg("done", scanner.session, 0))
    /\ up' = <<>>
    /\ UNCHANGED <<relay, seen, works, faults>>

\* Power is lost, at any moment; what is on the way to the scanner with it.
PowerCut ==
    /\ Fault
    /\ scanner' = Restarted(scanner)
    /\ up' = <<>>
    /\ UNCHANGED <<relay, seen, down, works>>

\* An image that does not work crashes before it is confirmed.
Crash ==
    /\ scanner.pending /\ ~works
    /\ scanner' = Restarted(scanner)
    /\ up' = <<>>
    /\ UNCHANGED <<relay, seen, down, works, faults>>

\* scanner_mark_valid_when_healthy_task: commands have been seen to arrive.
MarkValid ==
    /\ scanner.pending /\ works /\ scanner.told
    /\ scanner' = [scanner EXCEPT !.pending = FALSE, !.backoff = FALSE]
    /\ UNCHANGED <<relay, seen, up, down, works, faults>>

\* scanner_info, every ten seconds outside of an update.  One that comes while
\* a relay reads the lines is passed over, and is left out.
Announce ==
    /\ scanner.ota = "idle" /\ down = <<>>
    /\ seen # Info(scanner) /\ ~relay.paused
    /\ down' = Append(down, Info(scanner))
    /\ UNCHANGED <<relay, seen, up, scanner, works, faults>>

\* uart_ota_is_active: 30 seconds without a good frame, or without the end,
\* whatever else arrives.  The relay's own deadlines are shorter while it
\* streams.
WatchedByStaging == scanner.ota = "staging"
Watched == scanner.ota \in {"staging", "awaiting"}

Watchdog ==
    /\ Watched
    /\ \/ /\ relay.pc \notin {"begin", "send", "poll", "await"}
          /\ relay.pc = "end" => Quiet
          /\ UNCHANGED faults
       \/ Fault
    /\ scanner' = Failed(scanner).sc
    /\ down' = down \o Failed(scanner).out
    /\ UNCHANGED <<relay, seen, up, works>>

\* badge_auto_start: a scanner that was not told to wait sends by itself.
AutoStart ==
    /\ scanner.ota = "idle" /\ ~scanner.tx /\ scanner.fw \notin {"ready", "updating"}
    /\ relay.pc = "idle"
    /\ scanner' = [scanner EXCEPT !.tx = TRUE]
    /\ UNCHANGED <<relay, seen, up, down, works, faults>>

BackoffEnds ==
    /\ scanner.backoff /\ relay.pc = "idle"
    /\ scanner' = [scanner EXCEPT !.backoff = FALSE]
    /\ UNCHANGED <<relay, seen, up, down, works, faults>>

-----------------------------------------------------------------------------
(* The UART (external): a line is lost, a frame damaged.                   *)
LoseUp ==
    /\ up # <<>> /\ Fault
    /\ up' = Tail(up)
    /\ UNCHANGED <<relay, seen, down, scanner, works>>

LoseDown ==
    /\ down # <<>> /\ Fault
    /\ down' = Tail(down)
    /\ UNCHANGED <<relay, seen, up, scanner, works>>

Damage(kind) ==
    /\ up # <<>> /\ Head(up).k = "chunk" /\ Fault
    /\ up' = <<[Head(up) EXCEPT !.k = kind]>> \o Tail(up)
    /\ UNCHANGED <<relay, seen, down, scanner, works>>

-----------------------------------------------------------------------------
RelayTask ==
    \/ SendCommand \/ WaitLine \/ WaitTimeout
    \/ SendChunk \/ StreamFailed \/ Poll \/ AwaitLine \/ Settle \/ AwaitTimeout
    \/ EndLine \/ EndTimeout \/ HealthProved \/ HealthProbe \/ HealthTimeout

Uplink ==
    \/ SendReady \/ SendOffer \/ Listen \/ RelayTask
    \/ \E mode \in Modes : StartRelay(mode)

Scanner ==
    \/ Receive \/ Flash \/ FlashError \/ Reboot \/ PowerCut \/ Crash \/ MarkValid
    \/ Announce \/ Watchdog \/ AutoStart \/ BackoffEnds

Link ==
    \/ LoseUp \/ LoseDown
    \/ \E kind \in Frames \ {"chunk"} : Damage(kind)

Next == Uplink \/ Scanner \/ Link
Spec == Init /\ [][Next]_vars

\* Both programs run, and what the UART does not lose arrives; the timeouts
\* that need no fault come.  READY comes from another task, every 30 seconds,
\* whatever else is sent between two of them.
FairSpec ==
    /\ Spec
    /\ WF_vars(RelayTask) /\ WF_vars(Listen) /\ SF_vars(SendReady)
    /\ WF_vars(Receive) /\ WF_vars(Flash) /\ WF_vars(Reboot)
    /\ WF_vars(Watchdog) /\ WF_vars(Announce)

-----------------------------------------------------------------------------
\* A relay that reports success has put its image on the scanner for good:
\* it runs there, and no reset brings the old one back.
OkMeansRunning ==
    relay.result = "ok" => scanner.image = "new" /\ ~scanner.pending

\* Whatever is lost on the way and whenever the scanner resets, a relay ends
\* and gives the scanner's lines back to the background reader.
RelayEnds == relay.paused ~> relay.pc = "idle" /\ ~relay.paused

\* A scanner does not stay taken out of service: between relays it gets
\* back to where it scans and sends.
ScannerReturns ==
    scanner.ota # "idle" \/ ~scanner.tx ~> scanner.ota = "idle" /\ scanner.tx

\* Both: neither side of a relay stays behind in it (uart_ota.c, fw_store.c).
RelayPasses == RelayEnds /\ ScannerReturns
=============================================================================
