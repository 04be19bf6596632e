------------------------------ MODULE Uploader ------------------------------
(***************************************************************************)
(* The upload task of a networked node (http_upload.c over ring_buffer.c): *)
(* sightings wait in the detection queue, are gathered into a batch in     *)
(* which the two scanners' reports of one thing are merged, and the batch  *)
(* is posted; what cannot be posted waits in a ring of batches.  The loop  *)
(* of http_upload_task is its steps Top, Drain, Collect, Beat and Poll;    *)
(* Wi-Fi, the backends, a firmware relay that pauses the task and time     *)
(* move between them.  Time is counted in units of HEALTH_RESET_SEC.       *)
(***************************************************************************)
EXTENDS Naturals, Sequences, SequencesExt

CONSTANTS Things,       \* what is sighted, by either scanner
          Reports,      \* sightings
          QueueMax,     \* CONFIG_DETECTION_QUEUE_SIZE
          BatchMax,     \* CONFIG_MAX_BATCH_SIZE
          BacklogMax,   \* CONFIG_MAX_OFFLINE_BATCHES
          SwitchAt,     \* failures in a row after which the other URL is tried
          Fits,         \* sightings whose JSON fits an offline_batch_t
          Faults,       \* answers that get lost, moments without heap
          Outages       \* changes of Wi-Fi, of the backends, of the pause
VARIABLES pc, queue, batch, backlog,
          wifi,     \* [up: wifi_sta_is_connected, was: was_connected, alone: standalone]
          alive,    \* backends that answer
          url, sock, \* s_using_fallback_url; the backend s_sock is connected to
          paused,   \* s_upload_paused
          fails,    \* consecutive_fails
          clock,    \* units since last_success_tick, last_send, last_lockon_poll, first_item_tick
          acked,    \* things acknowledged by the backend in this pass
          left
vars == <<pc, queue, batch, backlog, wifi, alive, url, sock, paused, fails, clock, acked, left>>

Backends == {"primary", "fallback"}
Other(b) == CHOOSE c \in Backends : c # b
HealthReset == 1    \* HEALTH_RESET_SEC
Heartbeat == 2      \* CONFIG_HEARTBEAT_INTERVAL_MS
PollDue == 1        \* "every 10 s"
BatchDue == 1       \* CONFIG_BATCH_INTERVAL_MS, less than a unit

Whole(b) == [items |-> b, whole |-> TRUE]
\* buffer_batch_offline truncates the payload to MAX_PAYLOAD_SIZE.
Truncated(b) == [items |-> b, whole |-> Len(b) <= Fits]
Backlogged == UNION {ToSet(b.items) : b \in ToSet(backlog)}
Held == ToSet(queue) \cup ToSet(batch) \cup Backlogged

Init ==
    /\ pc = "top" /\ queue = <<>> /\ batch = <<>> /\ backlog = <<>>
    /\ wifi \in [up : {FALSE}, was : {FALSE}, alone : BOOLEAN] /\ alive = Backends
    /\ url = "primary" /\ sock = "none" /\ paused = FALSE /\ fails = 0
    /\ clock = [success |-> 0, send |-> 0, poll |-> 0, age |-> 0]
    /\ acked = {} /\ left = [reports |-> Reports, faults |-> Faults, outages |-> Outages]

-----------------------------------------------------------------------------
(* Posting a payload.                                                      *)

Target == IF sock = "none" THEN url ELSE sock
\* http_post_payload under upload_with_retry: two attempts of two sockets each.  A dead
\* socket is closed and the next one goes to the current URL; an answer may be lost after
\* the backend took the payload; a payload cut short is answered 400 or 422 each time.
Answers == {"stored", "refused", "unheard", "failed"}
Upload(b, answer) ==
    /\ CASE ~wifi.up \/ {Target, url} \cap alive = {} -> answer = "failed"
         [] OTHER -> \/ answer = IF b.whole THEN "stored" ELSE "refused"
                     \/ left.faults > 0 /\ answer \in {"failed"} \cup
                            IF b.whole THEN {"unheard"} ELSE {}
    /\ sock' = CASE ~wifi.up -> sock
                 [] answer \in {"stored", "refused"} -> IF Target \in alive THEN Target ELSE url
                 [] OTHER -> "none"
    /\ left' = IF wifi.up /\ {Target, url} \cap alive # {} /\ answer \in {"unheard", "failed"}
               THEN [left EXCEPT !.faults = @ - 1] ELSE left
Acked(b, answer) == IF answer \in {"stored", "unheard"} THEN acked \cup ToSet(b) ELSE acked

\* ring_buffer_push: the oldest batch makes room.
Push(ring, b) == Append(IF Len(ring) = BacklogMax THEN Tail(ring) ELSE ring, b)

-----------------------------------------------------------------------------
(* The task.                                                               *)

\* Paused during a firmware relay: the socket, the queue and the batch are given up.
TopPaused ==
    /\ pc = "top" /\ paused
    /\ <<queue, batch, sock>> # <<<<>>, <<>>, "none">>
    /\ queue' = <<>> /\ batch' = <<>> /\ sock' = "none" /\ clock' = [clock EXCEPT !.age = 0]
    /\ UNCHANGED <<pc, backlog, wifi, alive, url, paused, fails, acked, left>>

\* Without a configured network the queue is only emptied.
TopAlone ==
    /\ pc = "top" /\ ~paused /\ wifi.alone /\ queue # <<>>
    /\ queue' = Tail(queue)
    /\ UNCHANGED <<pc, batch, backlog, wifi, alive, url, sock, paused, fails, clock, acked, left>>

\* A reconnection forgets the endpoint; the health watchdog also clears the backlog.
Stalled == wifi.up /\ clock.success >= HealthReset
Top ==
    /\ pc = "top" /\ ~paused /\ ~wifi.alone
    /\ wifi' = [wifi EXCEPT !.was = wifi.up]
    /\ LET joined == wifi.up /\ ~wifi.was IN
       /\ sock' = IF joined \/ Stalled THEN "none" ELSE sock
       /\ fails' = IF joined \/ Stalled THEN 0 ELSE fails
    /\ backlog' = IF Stalled THEN <<>> ELSE backlog
    /\ acked' = {}
    /\ clock' = IF Stalled THEN [clock EXCEPT !.success = 0] ELSE clock
    /\ pc' = "drain"
    /\ UNCHANGED <<queue, batch, alive, url, paused, left>>

\* drain_offline_buffer: one batch, put back at the tail when it cannot be posted.  Its
\* success refreshes neither last_success_tick nor last_send.
PutBackLost(ring, b) == ring
PutBack(ring, b) == Push(ring, b)
Drain ==
    /\ pc = "drain" /\ pc' = "collect"
    /\ IF ~wifi.was \/ fails # 0 \/ backlog = <<>>
       THEN UNCHANGED <<backlog, sock, acked, left>>
       ELSE \E answer \in Answers :
            /\ Upload(Head(backlog), answer)
            /\ acked' = Acked(Head(backlog).items, answer)
            /\ backlog' = IF answer = "stored" THEN Tail(backlog)
                          ELSE PutBack(Tail(backlog), Head(backlog))
    /\ UNCHANGED <<queue, batch, wifi, alive, url, paused, fails, clock>>

\* find_duplicate_in_batch and merge_duplicate_detection.
Gathered(b, d) == IF d \in ToSet(b) THEN b ELSE Append(b, d)
\* A batch is sent when it is full, or its first sighting old; before that the size of its
\* payload or a quiet moment may make it due, or not.
AfterCollect(b) == IF b = <<>> THEN {"beat"}
                   ELSE IF Len(b) = BatchMax \/ clock.age >= BatchDue THEN {"send"}
                   ELSE {"send", "beat"}
\* A sighting that was merged does not ask (continue).
Collect ==
    /\ pc = "collect" /\ queue # <<>> /\ Len(batch) < BatchMax
    /\ queue' = Tail(queue) /\ batch' = Gathered(batch, Head(queue))
    /\ pc' \in IF Len(batch') = Len(batch) THEN {"top"} ELSE AfterCollect(batch')
    /\ UNCHANGED <<backlog, wifi, alive, url, sock, paused, fails, clock, acked, left>>
CollectNothing ==
    /\ pc = "collect" /\ (queue = <<>> \/ Len(batch) = BatchMax)
    /\ pc' \in AfterCollect(batch)
    /\ UNCHANGED <<queue, batch, backlog, wifi, alive, url, sock, paused, fails, clock, acked, left>>

\* The heap guard gives the batch up rather than post it.
SendStarved ==
    /\ pc = "send" /\ left.faults > 0 /\ left' = [left EXCEPT !.faults = @ - 1]
    /\ batch' = <<>> /\ sock' = "none" /\ pc' = "top" /\ clock' = [clock EXCEPT !.age = 0]
    /\ UNCHANGED <<queue, backlog, wifi, alive, url, paused, fails, acked>>
\* Failures in a row, counted anew after each switch of the URL.
NextFails == (fails % SwitchAt) + 1
Send ==
    /\ pc = "send" /\ pc' = "beat" /\ batch' = <<>>
    /\ \E answer \in Answers :
       /\ Upload(Whole(batch), answer) /\ acked' = Acked(batch, answer)
       /\ IF answer = "stored"
          THEN /\ fails' = 0 /\ clock' = [clock EXCEPT !.success = 0, !.send = 0, !.age = 0]
               /\ UNCHANGED <<backlog, url>>
          ELSE /\ backlog' = Push(backlog, Truncated(batch))
               /\ fails' = IF wifi.up THEN NextFails ELSE fails
               /\ url' = IF wifi.up /\ NextFails = SwitchAt THEN Other(url) ELSE url
               /\ clock' = [clock EXCEPT !.age = 0]
    /\ UNCHANGED <<queue, wifi, alive, paused>>

\* The heartbeat: an empty batch when nothing was sent for a minute.
BeatDue == batch = <<>> /\ wifi.up /\ clock.send >= Heartbeat
Beat ==
    /\ pc = "beat" /\ pc' = "poll"
    /\ IF ~BeatDue THEN UNCHANGED <<sock, fails, clock, left>>
       ELSE \E answer \in Answers :
            /\ Upload(Whole(<<>>), answer)
            /\ fails' = IF answer = "stored" THEN 0 ELSE fails
            /\ clock' = IF answer = "stored" THEN [clock EXCEPT !.success = 0, !.send = 0]
                        ELSE clock
    /\ UNCHANGED <<queue, batch, backlog, wifi, alive, url, paused, acked>>

\* The poll asks the time: the current URL, and when that fails the other, which is then
\* used for the uploads too (fetch_backend_time_epoch_ms).
UrlStays == url
UrlAfterFetch == IF url \notin alive /\ Other(url) \in alive THEN Other(url) ELSE url
Poll ==
    /\ pc = "poll" /\ pc' = "top"
    /\ IF wifi.up /\ clock.poll >= PollDue
       THEN /\ clock' = [clock EXCEPT !.poll = 0]
            /\ \/ /\ url' = UrlAfterFetch /\ left' = left
               \/ /\ left.faults > 0 /\ left' = [left EXCEPT !.faults = @ - 1]
                  /\ url' \in {url} \cup ({Other(url)} \cap alive)
            /\ sock' = IF url' = url THEN sock ELSE "none"
       ELSE UNCHANGED <<clock, url, sock, left>>
    /\ UNCHANGED <<queue, batch, backlog, wifi, alive, paused, fails, acked>>

Loop == \/ TopPaused \/ TopAlone \/ Top \/ Drain \/ Collect \/ CollectNothing
        \/ Send \/ SendStarved \/ Beat \/ Poll

-----------------------------------------------------------------------------
(* Around the task.                                                        *)

\* process_line: a sighting is queued, or given up when the queue stays full.
Report ==
    /\ left.reports > 0 /\ left' = [left EXCEPT !.reports = @ - 1]
    /\ \E d \in 1 .. Things : queue' = IF Len(queue) < QueueMax THEN Append(queue, d) ELSE queue
    /\ UNCHANGED <<pc, batch, backlog, wifi, alive, url, sock, paused, fails, clock, acked>>

Outage ==
    /\ left.outages > 0 /\ left' = [left EXCEPT !.outages = @ - 1]
    /\ \/ wifi' = [wifi EXCEPT !.up = ~@ /\ ~wifi.alone] /\ UNCHANGED <<alive, paused>>
       \/ alive' \in (SUBSET Backends) \ {alive} /\ UNCHANGED <<wifi, paused>>
       \/ paused' = ~paused /\ UNCHANGED <<wifi, alive>>
    /\ UNCHANGED <<pc, queue, batch, backlog, url, sock, fails, clock, acked>>

Later(n, max) == IF n < max THEN n + 1 ELSE n
Tick ==
    /\ clock' = [success |-> Later(clock.success, HealthReset),
                 send |-> Later(clock.send, Heartbeat), poll |-> PollDue,
                 age |-> IF batch = <<>> THEN 0 ELSE BatchDue]
    /\ clock' # clock
    /\ UNCHANGED <<pc, queue, batch, backlog, wifi, alive, url, sock, paused, fails, acked, left>>
PollComesDue ==
    /\ clock.poll < PollDue /\ clock' = [clock EXCEPT !.poll = PollDue]
    /\ UNCHANGED <<pc, queue, batch, backlog, wifi, alive, url, sock, paused, fails, acked, left>>

Next == Loop \/ Report \/ Outage \/ Tick \/ PollComesDue
Spec == Init /\ [][Next]_vars
FairSpec == Spec /\ WF_vars(Loop) /\ WF_vars(Tick) /\ WF_vars(Report)

-----------------------------------------------------------------------------
(* Properties.                                                             *)

\* What is held is kept until the backend has it, but for the five places that give it up:
\* a pause, a node without a network, no heap for a post, a full ring, and the health
\* watchdog.
GivenUp ==
    \/ pc = "top" /\ (paused \/ wifi.alone \/ Stalled)
    \/ pc = "send" /\ (pc' = "top" \/ Len(backlog) = BacklogMax)
Kept == Held \ Held' \subseteq acked' \/ GivenUp
HeldUntilAcked == [][Kept]_vars

\* While Wi-Fi is up and some backend answers, uploads go through again and again, also
\* when the URL in use is dead and nothing is reported whose failing posts would be counted;
\* and with them what waited in the ring, but for what was cut short and is refused for ever.
Steady == wifi.up /\ ~paused /\ alive # {}
AllSent == /\ queue = <<>> /\ batch = <<>> /\ clock.send = 0
           /\ \A b \in ToSet(backlog) : ~b.whole
UploadsResume == <>[]Steady => []<>AllSent
-----------------------------------------------------------------------------
\* What Kept rests on: the ring never holds more than it has room for, so that
\* what is put back after a failed post finds the place it was taken from.
Batches == [items : Seq(1 .. Things), whole : BOOLEAN]
RingInv == /\ queue \in Seq(1 .. Things) /\ batch \in Seq(1 .. Things)
           /\ backlog \in Seq(Batches) /\ Len(backlog) <= BacklogMax
=============================================================================
