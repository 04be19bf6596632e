---------------------------- MODULE StatusEvidence ----------------------------
(***************************************************************************)
(* What the badge makes of a scanner's counters (scanner comms/uart_tx.c,   *)
(* uplink comms/uart_rx.c).  Beside its detections, a scanner tells in each  *)
(* status how many drone SSIDs it has seen since its boot, the last one, and *)
(* the attack frames since the previous status; a scanner_info repeats the   *)
(* counter and the SSID.  The badge keeps the last counter it has acted on   *)
(* and raises evidence when a frame's is greater; the display shows the SSID *)
(* until it has not been renewed for Fresh seconds.                          *)
(*                                                                         *)
(* Sightings and attacks are numbered so that evidence can be told apart.    *)
(* Bounds: Sightings, Attacks, Losses of frames, Restarts of the uplink,     *)
(* Resets of the scanner; ages stop at Fresh + 1.                            *)
(***************************************************************************)
EXTENDS Naturals, Sequences

CONSTANTS Sightings, Attacks, Losses, Restarts, Resets, Fresh

VARIABLES scanner, \* counter since boot, the last sighting, the attack not yet told
          uart,    \* the frame under way
          record,  \* the live record: counter, sighting, age of the SSID
          seen,    \* s_badge_status_seen
          told,    \* how often each sighting and each attack became evidence (history)
          latest,  \* the latest sighting and attack (history)
          left     \* what remains of each bound

vars == <<scanner, uart, record, seen, told, latest, left>>

None  == 0
Unset == Fresh + 1                 \* no SSID, or one too old to show
Empty == [emits |-> 0, last |-> None, age |-> Unset]

Init == /\ scanner = [emits |-> 0, last |-> None, burst |-> None]
        /\ uart = <<>> /\ record = Empty /\ seen = 0
        /\ told = [sightings |-> [i \in 1..Sightings |-> 0],
                   attacks |-> [i \in 1..Attacks |-> 0]]
        /\ latest = [sighting |-> None, attack |-> None]
        /\ left = [losses |-> Losses, restarts |-> Restarts, resets |-> Resets]

-----------------------------------------------------------------------------
(* The scanner. *)

Sight == /\ latest.sighting < Sightings
         /\ latest' = [latest EXCEPT !.sighting = @ + 1]
         /\ scanner' = [scanner EXCEPT !.emits = @ + 1, !.last = latest.sighting + 1]
         /\ UNCHANGED <<uart, record, seen, told, left>>

Attack == /\ latest.attack < Attacks
          /\ latest' = [latest EXCEPT !.attack = @ + 1]
          /\ scanner' = [scanner EXCEPT !.burst = latest.attack + 1]
          /\ UNCHANGED <<uart, record, seen, told, left>>

\* The attack counters start over once a status has been built with them.
\* Mutant: they are kept.
BurstKept == scanner
BurstTold == [scanner EXCEPT !.burst = None]

SendStatus == /\ uart = <<>>
              /\ uart' = <<[emits |-> scanner.emits, last |-> scanner.last,
                            burst |-> scanner.burst]>>
              /\ scanner' = BurstTold
              /\ UNCHANGED <<record, seen, told, latest, left>>

SendInfo == /\ uart = <<>>
            /\ uart' = <<[emits |-> scanner.emits, last |-> scanner.last, burst |-> None]>>
            /\ UNCHANGED <<scanner, record, seen, told, latest, left>>

Reset == /\ left.resets > 0 /\ left' = [left EXCEPT !.resets = @ - 1]
         /\ scanner' = [emits |-> 0, last |-> None, burst |-> None]
         /\ UNCHANGED <<uart, record, seen, told, latest>>

Lose == /\ uart # <<>> /\ left.losses > 0 /\ left' = [left EXCEPT !.losses = @ - 1]
        /\ uart' = <<>> /\ UNCHANGED <<scanner, record, seen, told, latest>>

-----------------------------------------------------------------------------
(* The uplink. *)

\* json_update_scanner_ssid_freshness: the age starts over only with another
\* SSID, or when the scanner has seen one since.
\* Mutant: with every frame.
RenewedAlways(f) == f.last # None
Renewed(f) == f.last # record.last \/ f.emits > record.emits

Recorded(f) == [emits |-> f.emits, last |-> f.last,
                age |-> IF f.last = None THEN Unset
                        ELSE IF Renewed(f) THEN 0 ELSE record.age]

\* badge_ingest_scanner_status_evidence, and the attack part of handle_status.
Raised(r, f) ==
    LET drone == r.emits > seen /\ r.age <= Fresh
    IN  [sightings |-> [i \in 1..Sightings |->
                          told.sightings[i] + (IF drone /\ r.last = i THEN 1 ELSE 0)],
         attacks |-> [i \in 1..Attacks |->
                          told.attacks[i] + (IF f.burst = i THEN 1 ELSE 0)]]

\* Mutant: the counter acted on is only remembered when it grows.
SeenGrows(r) == IF r.emits > seen THEN r.emits ELSE seen
SeenNow(r) == r.emits

Receive ==
    /\ uart # <<>> /\ uart' = <<>>
    /\ LET f == Head(uart)  r == Recorded(f)
       IN  record' = r /\ told' = Raised(r, f) /\ seen' = SeenNow(r)
    /\ UNCHANGED <<scanner, latest, left>>

Tick == /\ record.age < Unset /\ record' = [record EXCEPT !.age = @ + 1]
        /\ UNCHANGED <<scanner, uart, seen, told, latest, left>>

Restart == /\ left.restarts > 0 /\ left' = [left EXCEPT !.restarts = @ - 1]
           /\ record' = Empty /\ seen' = 0 /\ uart' = <<>>
           /\ UNCHANGED <<scanner, told, latest>>

Next == \/ Sight \/ Attack \/ SendStatus \/ SendInfo \/ Reset \/ Lose
        \/ Receive \/ Tick \/ Restart
Spec == Init /\ [][Next]_vars
\* Status is periodic, frames arrive, time passes.
FairSpec == Spec /\ SF_vars(SendStatus) /\ WF_vars(Receive) /\ WF_vars(Tick)

-----------------------------------------------------------------------------
TypeOK ==
    /\ scanner.emits \in 0..Sightings /\ scanner.last \in 0..Sightings
    /\ scanner.burst \in 0..Attacks /\ Len(uart) <= 1
    /\ record.age \in 0..Unset /\ seen \in 0..Sightings

\* The same counters come in status after status and in every scanner_info:
\* a sighting becomes evidence once, and once more for each restart of the
\* uplink, which has forgotten it; an attack becomes evidence once.
NoEcho ==
    /\ \A i \in 1..Sightings : told.sightings[i] <= 1 + Restarts - left.restarts
    /\ \A i \in 1..Attacks : told.attacks[i] <= 1

\* After a reset of the scanner that a frame has told, its counter starts a
\* new count: the next sighting is evidence, though the number is smaller.
\* (A sighting that brings the new count to a number told before the reset
\* goes unnoticed: the counters carry no boot.)
Unheard(i) == scanner.last = i /\ record.emits < scanner.emits /\ uart = <<>>
Noticed(i) == told.sightings[i] > 0 \/ scanner.last # i
NextIsTold == \A i \in 1..Sightings : Unheard(i) ~> Noticed(i)

\* When no more are seen, the SSID leaves the display although the scanner
\* goes on repeating it.
Faded == record.age = Unset
ShownFades == <>[]Faded
Settles == NextIsTold /\ ShownFades

-----------------------------------------------------------------------------
\* The inductive strengthening.  Sightings are numbered, and the counter of one
\* is the same in every frame that names it: what was told since the uplink's
\* last restart is named only by counters already acted on, and once it was
\* told, no frame older than it is under way.
Lines == [emits : Nat, last : 0..Sightings, burst : 0..Attacks]
Used  == Restarts - left.restarts
TypedInv ==
    /\ scanner \in Lines /\ uart \in Seq(Lines) /\ Len(uart) <= 1 /\ seen \in Nat
    /\ latest \in [sighting : 0..Sightings, attack : 0..Attacks]
    /\ told \in [sightings : [1..Sightings -> Nat], attacks : [1..Attacks -> Nat]]
    /\ left = [losses |-> left.losses, restarts |-> left.restarts, resets |-> left.resets]
    /\ left.restarts \in 0..Restarts
\* f, the scanner or a frame under way, names sighting i only by a counter that
\* the uplink has acted on.
Acted(f, i) == f.last = i => f.emits <= seen
SightingInv ==
    /\ scanner.last \in {None, latest.sighting}
    /\ uart # <<>> => /\ uart[1].last <= latest.sighting
                      /\ uart[1].last = scanner.last /\ uart[1].last # None
                           => uart[1].emits = scanner.emits
    /\ \A i \in 1..Sightings :
         /\ told.sightings[i] <= 1 + Used
         /\ i > latest.sighting => told.sightings[i] = 0
         /\ told.sightings[i] > Used => Acted(scanner, i) /\ (uart # <<>> => Acted(uart[1], i))
         /\ told.sightings[i] > 0 /\ scanner.last = i /\ uart # <<>> => uart[1].last = i
AttackInv ==
    /\ scanner.burst <= latest.attack /\ (uart # <<>> => uart[1].burst <= latest.attack)
    /\ \A a \in 1..Attacks :
         /\ told.attacks[a] <= 1
         /\ a > latest.attack => told.attacks[a] = 0
         /\ scanner.burst = a => told.attacks[a] = 0 /\ (uart # <<>> => uart[1].burst # a)
         /\ uart # <<>> /\ uart[1].burst = a => told.attacks[a] = 0
EchoInv == TypedInv /\ SightingInv /\ AttackInv
=============================================================================
