------------------------- MODULE InvestigationBadge -------------------------
(***************************************************************************)
(* The badge's side of a BLE investigation (badge_ble_investigation.c over *)
(* badge_ble_investigation_state.c): a button, the phone, the HTTP server  *)
(* or the serial console starts one, the UART task accepts the scanner's   *)
(* chunks and passes them to the USB stream, the display task expires what *)
(* takes too long and replays terminals that could not be written.  State  *)
(* changes under s_lock are one step; the UART write of a start and every  *)
(* USB write happen outside it.  A chunk is its request and whether it     *)
(* begins, continues or ends it.                                           *)
(***************************************************************************)
EXTENDS Naturals, Sequences

CONSTANTS Requests,     \* starts
          Chunks,       \* chunks that arrive from the scanner
          Faults        \* USB writes that fail
VARIABLES state,    \* badge_ble_investigation_state_t
          pending,  \* s_pending_chunks
          fence,    \* s_start_fence, and whether s_revision moved since it was reserved
          caller,   \* the caller between its two critical sections
          uart,     \* the UART task's live chunk
          poll,     \* chunks the display task may still write in this poll
          emitter,  \* who holds s_emit_lock
          told,     \* requests whose END was written to USB
          left
vars == <<state, pending, fence, caller, uart, poll, emitter, told, left>>

PendingMax == 4     \* BADGE_BLE_INVESTIGATION_PENDING_CHUNKS
Chunk(kind, id) == [kind |-> kind, id |-> id]
NoChunk == Chunk("none", 0)
Empty == [id |-> 0, active |-> FALSE, begun |-> FALSE, ended |-> FALSE, late |-> FALSE,
          emitting |-> FALSE, replay |-> FALSE, degraded |-> FALSE]

Init ==
    /\ state = Empty /\ pending = <<>> /\ fence = "free"
    /\ caller = 0 /\ uart = NoChunk /\ poll = 0 /\ emitter = "free" /\ told = {}
    /\ left = [requests |-> Requests, chunks |-> Chunks, faults |-> Faults]

-----------------------------------------------------------------------------
(* The terminal's replay and the expiry, on a state and a queue.           *)

\* secure_terminal_replay_locked: BEGIN and END are queued when both fit.
Secured(s, queue) ==
    IF s.replay /\ ~s.emitting /\ s.ended /\ Len(queue) <= PendingMax - 2
    THEN [s |-> [s EXCEPT !.replay = FALSE, !.degraded = FALSE],
          q |-> queue \o <<Chunk("begin", s.id), Chunk("end", s.id)>>]
    ELSE [s |-> s, q |-> queue]

\* badge_ble_investigation_state_require_terminal_replay.
Replayed(s) == [s EXCEPT !.emitting = FALSE, !.replay = TRUE]

\* expire_locked.
IsExpired(s) == s.active /\ ~s.ended /\ s.late
Expired(s, queue) ==
    IF IsExpired(s)
    THEN Secured(Replayed([s EXCEPT !.begun = TRUE, !.ended = TRUE, !.active = FALSE,
                                    !.late = FALSE]), queue)
    ELSE [s |-> s, q |-> queue]
Revised == IF fence = "free" THEN fence ELSE "moved"

-----------------------------------------------------------------------------
(* A caller's start, and the readers.                                      *)

DeliveryBlocksStart(s) == s.emitting \/ s.replay

\* badge_ble_investigation_start_with_timeout up to the UART write.
Start ==
    /\ left.requests > 0 /\ left' = [left EXCEPT !.requests = @ - 1]
    /\ LET now == Expired(state, pending)
           id == Requests - left.requests + 1 IN
       /\ pending' = now.q
       /\ IF /\ fence = "free" /\ ~DeliveryBlocksStart(now.s)
             /\ Len(now.q) <= PendingMax - 2 /\ ~now.s.active
          THEN state' = [Empty EXCEPT !.id = id, !.active = TRUE] /\ caller' = id /\ fence' = "kept"
          ELSE /\ state' = now.s /\ caller' = caller
               /\ fence' = IF IsExpired(state) THEN Revised ELSE fence
    /\ UNCHANGED <<uart, poll, emitter, told>>

\* The write, and the rollback of a start that the scanner never got.
StartSent ==
    /\ caller # 0 /\ caller' = 0 /\ fence' = "free"
    /\ \E sent \in BOOLEAN : state' = IF ~sent /\ fence = "kept" THEN Empty ELSE state
    /\ UNCHANGED <<pending, uart, poll, emitter, told, left>>

\* badge_ble_investigation_get, _status_json, _chunk_json: they expire too.
Status ==
    /\ IsExpired(state)
    /\ state' = Expired(state, pending).s /\ pending' = Expired(state, pending).q
    /\ fence' = Revised
    /\ UNCHANGED <<caller, uart, poll, emitter, told, left>>

-----------------------------------------------------------------------------
(* The UART task: a chunk of the scanner.                                  *)

\* chunk_valid_for_state: the current request's chunks, in their order.
IsValid(s, chunk) ==
    /\ s.active /\ ~s.ended /\ chunk.id = s.id
    /\ IF chunk.kind = "begin" THEN ~s.begun ELSE s.begun

\* badge_ble_investigation_accept_scanner_json: accept the chunk, decide on its
\* live write.  A terminal after a failed write goes to the replay.
Accept ==
    /\ uart = NoChunk /\ left.chunks > 0 /\ left' = [left EXCEPT !.chunks = @ - 1]
    /\ \E id \in 1..(Requests - left.requests), kind \in {"begin", "progress", "end"} :
       LET chunk == Chunk(kind, id)
           now == Expired(state, pending)
           s == [now.s EXCEPT !.begun = TRUE,
                     !.ended = kind = "end", !.active = kind # "end",
                     !.late = IF kind = "end" THEN FALSE ELSE @] IN
       IF ~IsValid(now.s, chunk)
       THEN /\ state' = now.s /\ pending' = now.q /\ uart' = uart
            /\ fence' = IF IsExpired(state) THEN Revised ELSE fence
       ELSE /\ fence' = Revised
            /\ IF kind = "end" /\ s.degraded
               THEN LET secured == Secured(Replayed(s), now.q) IN
                    state' = secured.s /\ pending' = secured.q /\ uart' = uart
               ELSE /\ state' = [s EXCEPT !.emitting = kind = "end"]
                    /\ pending' = now.q /\ uart' = chunk
    /\ UNCHANGED <<caller, poll, emitter, told>>

Write(chunk, ok) ==
    IF ok THEN told' = told \cup (IF chunk.kind = "end" THEN {chunk.id} ELSE {}) /\ left' = left
    ELSE left.faults > 0 /\ left' = [left EXCEPT !.faults = @ - 1] /\ told' = told

\* The live write under s_emit_lock...
Emit ==
    /\ uart # NoChunk /\ emitter = "free"
    /\ \E ok \in BOOLEAN : Write(uart, ok) /\ emitter' = IF ok THEN "uart" ELSE "uart_failed"
    /\ UNCHANGED <<state, pending, fence, caller, uart, poll>>

\* ...and badge_ble_investigation_state_finish_live_emit.
FinishEmit ==
    /\ emitter \in {"uart", "uart_failed"} /\ emitter' = "free" /\ uart' = NoChunk
    /\ LET failed == emitter = "uart_failed"
           end == uart.kind = "end" IN
       IF state.id # uart.id \/ (end /\ ~(state.ended /\ state.emitting))
       THEN UNCHANGED <<state, pending>>
       ELSE LET s == [state EXCEPT !.degraded = IF end THEN failed ELSE @ \/ failed,
                                   !.emitting = IF end THEN FALSE ELSE @,
                                   !.replay = IF end THEN failed ELSE @]
                secured == IF end /\ failed THEN Secured(s, pending) ELSE [s |-> s, q |-> pending] IN
            state' = secured.s /\ pending' = secured.q
    /\ UNCHANGED <<fence, caller, poll, told, left>>

-----------------------------------------------------------------------------
(* The display task: badge_ble_investigation_poll.                         *)

PollBegins ==
    /\ emitter = "free" /\ emitter' = "display" /\ poll' = PendingMax
    /\ UNCHANGED <<state, pending, fence, caller, uart, told, left>>

\* One pass: secure, expire, write the oldest chunk.
PollStep ==
    /\ emitter = "display"
    /\ LET secured == Secured(state, pending)
           now == Expired(secured.s, secured.q) IN
       /\ state' = now.s
       /\ fence' = IF IsExpired(secured.s) THEN Revised ELSE fence
       /\ IF now.q = <<>>
          THEN pending' = now.q /\ poll' = 0 /\ emitter' = "free" /\ UNCHANGED <<told, left>>
          ELSE \E ok \in BOOLEAN :
               /\ Write(Head(now.q), ok)
               /\ pending' = IF ok THEN Tail(now.q) ELSE now.q
               /\ poll' = IF ok THEN poll - 1 ELSE 0
               /\ emitter' = IF poll' = 0 THEN "free" ELSE emitter
    /\ UNCHANGED <<caller, uart>>

Deadline ==
    /\ state.active /\ ~state.late /\ state' = [state EXCEPT !.late = TRUE]
    /\ UNCHANGED <<pending, fence, caller, uart, poll, emitter, told, left>>

Next ==
    \/ Start \/ StartSent \/ Status
    \/ Accept \/ Emit \/ FinishEmit
    \/ PollBegins \/ PollStep \/ Deadline
Spec == Init /\ [][Next]_vars

\* The tasks run on, the mutex between them is fair, time passes.
Fairness ==
    /\ WF_vars(StartSent) /\ WF_vars(FinishEmit) /\ WF_vars(PollStep) /\ WF_vars(Deadline)
    /\ SF_vars(Emit) /\ SF_vars(PollBegins)
FairSpec == Spec /\ Fairness

-----------------------------------------------------------------------------
InHand(id) ==
    \/ id \in told
    \/ Chunk("end", id) \in {pending[i] : i \in DOMAIN pending}
    \/ uart = Chunk("end", id)
    \/ state.id = id /\ state.replay

\* No end is lost: the end of a request that is over was told to USB, is queued,
\* in the UART task's hands or marked for replay, and the request makes room for
\* another only so, or when its own start is taken back
\* (badge_ble_investigation_state.c, delivery flags, pending queue, start fence).
EndInHand == state.ended => InHand(state.id)
EndLeftBehind == \A id \in 1..Requests :
                   state.id = id /\ state'.id # id /\ caller # id => InHand(id)'
NoEndIsLost == []EndInHand /\ [][EndLeftBehind]_vars

\* Inductive: a request is under way or over, the end in the UART task's hands is
\* the current request's, and a start that may still be taken back has got no chunk.
ChunkSet == [kind : {"none", "begin", "progress", "end"}, id : Nat]
States == [id : Nat, active : BOOLEAN, begun : BOOLEAN, ended : BOOLEAN, late : BOOLEAN,
           emitting : BOOLEAN, replay : BOOLEAN, degraded : BOOLEAN]
TypedInv == /\ state \in States /\ pending \in Seq(ChunkSet) /\ uart \in ChunkSet
            /\ caller \in Nat /\ left \in [requests : 0..Requests, chunks : Nat, faults : Nat]
PhaseInv == /\ state.id = 0 => ~state.active /\ ~state.ended
            /\ state.id # 0 => state.active \/ state.ended
            /\ ~(state.active /\ state.ended)
            /\ uart.kind = "end" => state.id = uart.id /\ state.ended /\ state.emitting
            /\ emitter \in {"uart", "uart_failed"} => uart # NoChunk
            /\ emitter = "uart" /\ uart.kind = "end" => uart.id \in told
FenceInv == /\ caller = 0 => fence = "free"
            /\ fence = "kept" => state.id = caller /\ state.active /\ caller # 0
EndInv == TypedInv /\ PhaseInv /\ FenceInv /\ EndInHand

\* A start that was not taken back is told its end on USB, by the scanner's
\* terminal or by a synthesized one (badge_ble_investigation.c,
\* badge_ble_investigation_poll).
Started(id) == state.id = id /\ caller # id
Told(id) == id \in told
EndIsTold == \A id \in 1..Requests : Started(id) ~> Told(id)
=============================================================================
