------------------------------ MODULE ScannerOta ------------------------------
(***************************************************************************)
(* The scanner's side of a firmware relay: uart_ota.c, which collects the  *)
(* image from binary frames and flashes it, and the commands of main.c     *)
(* that belong to an update.  Each operator maps the scanner's record to   *)
(* the record after one message and the lines it sends.  An image is a     *)
(* number of chunks; a frame arrives whole, or with a wrong checksum, or   *)
(* cut short, or with a length no frame has.  Only the image the uplink    *)
(* holds is ever relayed, so the fields of the manifest always agree and   *)
(* what a begin or an end is refused for is its session, its version or    *)
(* the offer the scanner no longer remembers.                              *)
(***************************************************************************)
EXTENDS Naturals, Sequences

CONSTANT Chunks
ASSUME ChunksAssumption == Chunks \in Nat \ {0}

Frames == {"chunk", "badcrc", "short", "badlen"}

Msg(kind, session, number) == [k |-> kind, s |-> session, n |-> number]
After(sc, lines) == [sc |-> sc, out |-> lines]

Booted(boot, image, pending) ==
    [boot |-> boot, image |-> image, pending |-> pending, next |-> image,
     tx |-> TRUE, told |-> FALSE, latch |-> FALSE, fw |-> "idle",
     backoff |-> FALSE, garbage |-> FALSE,
     ota |-> "idle", session |-> 0, same |-> FALSE, buffer |-> <<>>, mid |-> "no"]

Info(sc) == [k |-> "info", s |-> 0, n |-> 0, boot |-> sc.boot,
             image |-> sc.image, pending |-> sc.pending]

\* cleanup_and_idle: the scans resume, the buffer is freed.
CleanedUp(sc) ==
    [sc EXCEPT !.ota = "idle", !.session = 0, !.same = FALSE, !.buffer = <<>>, !.mid = "no"]

\* send_ota_error: new offers have to wait for a while.  A command that fails
\* also forgets the offer it had; a watchdog does not.
Erred(sc) == [sc EXCEPT !.fw = "error", !.backoff = TRUE]
Failed(sc) == After(Erred(CleanedUp(sc)), <<Msg("error", sc.session, 0)>>)
Unlatched(sc) == [Erred(sc) EXCEPT !.latch = FALSE]

-----------------------------------------------------------------------------
(* uart_ota_process_data.                                                  *)
Verified(buffer) == buffer = [i \in 1..Chunks |-> i - 1]

Nack(sc) == <<Msg("nack", sc.session, Len(sc.buffer))>>

\* A good frame.  The last one makes the image whole: it is checked, and the
\* scanner waits for a separate command to flash it.
Accept(sc, m) ==
    LET d == [sc EXCEPT !.buffer = Append(@, m.n)] IN
    IF Len(d.buffer) < Chunks THEN After(d, <<>>)
    ELSE IF ~Verified(d.buffer) THEN Failed(d)
    ELSE After([d EXCEPT !.ota = "awaiting"],
               <<Msg("progress", sc.session, 0), Msg("staged", sc.session, 0)>>)

\* A frame that was cut short takes the bytes of what follows for its own.
Frame(sc, m) ==
    CASE sc.mid = "discard" -> After([sc EXCEPT !.mid = "no"], <<>>)
      [] sc.mid = "data"    -> After([sc EXCEPT !.mid = "no"], Nack(sc))
      [] sc.mid = "no" /\ m.k = "badlen" -> Failed(sc)
      [] sc.mid = "no" /\ m.k # "badlen" /\ m.n # Len(sc.buffer) ->
           After([sc EXCEPT !.mid = IF m.k = "short" THEN "discard" ELSE "no"],
                 Nack(sc))
      [] OTHER ->
           CASE m.k = "short"  -> After([sc EXCEPT !.mid = "data"], <<>>)
             [] m.k = "badcrc" -> After(sc, Nack(sc))
             [] m.k = "chunk"  -> Accept(sc, m)

\* While frames are collected a line is filler; the abort sentinel is seen
\* between frames only.
Staging(sc, m) ==
    IF m.k \in Frames THEN Frame(sc, m)
    ELSE IF m.k = "sentinel" /\ sc.mid = "no" THEN Failed(sc)
    ELSE After(sc, <<>>)

-----------------------------------------------------------------------------
(* dispatch_authorized_scanner_command and what it calls.                  *)

\* START also takes back the readiness for an update.
Start(sc) ==
    IF sc.fw \in {"offered", "ready", "updating", "deferred", "error"}
    THEN [sc EXCEPT !.tx = TRUE, !.latch = FALSE, !.fw = "deferred"]
    ELSE [sc EXCEPT !.tx = TRUE]

Stop(sc) == After([sc EXCEPT !.tx = FALSE], <<Msg("stop_ack", 0, 0)>>)

\* handle_fw_offer: the image offered has to be newer than the running one.
Offer(sc) ==
    IF sc.image = "new"
    THEN After([sc EXCEPT !.fw = "refused", !.latch = FALSE, !.backoff = TRUE], <<>>)
    ELSE IF sc.backoff THEN After([sc EXCEPT !.fw = "deferred"], <<>>)
    ELSE After([sc EXCEPT !.tx = FALSE, !.fw = "ready", !.latch = TRUE],
               <<Msg("ready", 0, 0), Info(sc)>>)

\* uart_ota_begin: a begin ends what was going on.
BeginUpdate(sc, m) ==
    LET d == CleanedUp(sc) IN
    IF sc.image = "new" /\ m.n = 0
    THEN After(Unlatched([d EXCEPT !.session = m.s]), <<Msg("error", m.s, 0)>>)
    ELSE After([d EXCEPT !.ota = "staging", !.session = m.s, !.same = (m.n = 1),
                         !.fw = "updating"],
               <<Msg("ack", m.s, 0)>>)

Begin(sc, m) ==
    IF m.n = 1 \/ sc.latch THEN BeginUpdate(sc, m)
    ELSE After(Unlatched(sc), <<Msg("error", 0, 0)>>)

\* The session has to be the one that is active.
Active(sc, m) == sc.ota # "idle" /\ m.s # 0 /\ m.s = sc.session

EndOf(sc, m) ==
    IF Active(sc, m) THEN After([sc EXCEPT !.ota = "flashing"], <<>>)
    ELSE After(sc, <<Msg("error", 0, 0)>>)

Abort(sc, m) ==
    IF Active(sc, m)
    THEN After(Unlatched(CleanedUp(sc)), <<Msg("error", m.s, 0)>>)
    ELSE After(sc, <<Msg("error", 0, 0)>>)

\* Bytes of a frame in the line buffer spoil the line after them; the
\* sentinel ends with a line feed.
Command(sc, m) ==
    LET d == [sc EXCEPT !.told = TRUE] IN
    IF m.k \in Frames THEN After([sc EXCEPT !.garbage = TRUE], <<>>)
    ELSE IF sc.garbage \/ m.k = "sentinel" THEN After([sc EXCEPT !.garbage = FALSE], <<>>)
    ELSE CASE m.k = "start" -> After(Start(d), <<>>)
           [] m.k = "stop"  -> Stop(d)
           [] m.k = "offer" -> Offer(d)
           [] m.k = "begin" -> Begin(d, m)
           [] m.k = "end"   -> EndOf(d, m)
           [] m.k = "abort" -> Abort(d, m)

Received(sc, m) == IF sc.ota = "staging" THEN Staging(sc, m) ELSE Command(sc, m)

-----------------------------------------------------------------------------
(* validate_and_flash.                                                     *)
FlashFailed(sc) == [Failed(sc) EXCEPT !.sc = Unlatched(@)]
Flashed(sc) == [sc EXCEPT !.next = "new", !.ota = "rebooting"]

\* The boot loader takes an image that was not confirmed for broken.
Restarted(sc) ==
    IF sc.ota # "rebooting" /\ sc.pending THEN Booted(sc.boot + 1, "old", FALSE)
    ELSE IF sc.next # sc.image \/ sc.ota = "rebooting"
    THEN Booted(sc.boot + 1, "new", TRUE)
    ELSE Booted(sc.boot + 1, sc.image, FALSE)
=============================================================================
