---------------------------- MODULE GameHandshake ----------------------------
(***************************************************************************)
(* Before a badge may advertise, its scanners must know its identity, so    *)
(* that it never meets itself.  The display task's radio poll tells both    *)
(* scanners, awaits the acknowledgement of the BLE scanner, asks again when *)
(* it is late, and starts over when a scanner reports a new boot id         *)
(* (main.c, badge_con_radio_runtime_policy.c); UART lines may be lost,      *)
(* scanners and badge may reset, firmware work makes the poll yield.        *)
(*                                                                         *)
(* Bounds: Losses lost lines, ScannerResets and BadgeResets resets, Works   *)
(* periods of firmware work, LineMax lines on a wire.                       *)
(***************************************************************************)
EXTENDS Naturals, Sequences, FiniteSets

CONSTANTS Losses, ScannerResets, BadgeResets, Works, LineMax

Lanes == {0, 1}                     \* lane 0 is the BLE scanner
None  == 0

VARIABLES identity,  \* the badge's peer and session: new with every boot
          knows,     \* the identity the BLE scanner filters
          bootId,    \* per lane, the scanner's boot id
          status,    \* per lane, the boot id the badge last read of it
          policy,    \* told lanes, the ack's deadline, boot ids observed
          selfAck,   \* s_self_ack_peer and session
          ready,     \* what the poll last told the game radio
          yields,    \* firmware work has the radio
          down, up,  \* per lane, the UART lines to and from the scanner
          left       \* what remains of each bound

vars == <<identity, knows, bootId, status, policy, selfAck, ready, yields, down, up, left>>

Blank == [told |-> {}, waiting |-> FALSE, due |-> FALSE, boots |-> [l \in Lanes |-> None]]

Init == /\ identity = 1 /\ knows = None
        /\ bootId = [l \in Lanes |-> 1] /\ status = [l \in Lanes |-> None]
        /\ policy = Blank /\ selfAck = None
        /\ ready = FALSE /\ yields = FALSE
        /\ down = [l \in Lanes |-> <<>>] /\ up = [l \in Lanes |-> <<>>]
        /\ left = [losses |-> Losses, scanner |-> ScannerResets,
                   badge |-> BadgeResets, works |-> Works]

-----------------------------------------------------------------------------
(* The radio poll. *)

NewBoots == {l \in Lanes : status[l] \notin {None, policy.boots[l]}}
Observed == [l \in Lanes |-> IF status[l] = None THEN policy.boots[l] ELSE status[l]]
Matches(a) == a = identity

Cleared(p) == [p EXCEPT !.told = {}, !.waiting = FALSE, !.due = FALSE]

\* The policy and the acknowledgement after the boot ids and the deadline.
Looked ==
  LET seen  == [policy EXCEPT !.boots = Observed]
      p     == IF NewBoots # {} THEN Cleared(seen) ELSE seen
      a     == IF NewBoots # {} THEN None ELSE selfAck
  IN IF Matches(a) THEN <<[p EXCEPT !.waiting = FALSE, !.due = FALSE], a>>
     ELSE IF p.waiting /\ p.told = Lanes /\ p.due THEN <<Cleared(p), None>>
     ELSE <<p, a>>

ToldUnawaited(p, l) == [p EXCEPT !.told = @ \cup {l}]
Told(p, l) ==
  LET t == p.told \cup {l}
  IN [p EXCEPT !.told = t, !.waiting = @ \/ t = Lanes]

Poll ==
  LET p    == Looked[1]
      a    == Looked[2]
      good == p.told = Lanes /\ Matches(a)
      next == CHOOSE l \in Lanes \ p.told : \A k \in Lanes \ p.told : l <= k
  IN /\ selfAck' = a
     /\ ready' = (good /\ ~yields)
     /\ IF yields \/ good \/ p.told = Lanes       \* nothing to tell
        THEN policy' = p /\ UNCHANGED down
        ELSE \/ /\ Len(down[next]) < LineMax
                /\ down' = [down EXCEPT ![next] = Append(@, identity)]
                /\ policy' = Told(p, next)
             \/ policy' = p /\ UNCHANGED down              \* the lease is refused
     /\ UNCHANGED <<identity, knows, bootId, status, yields, up, left>>

\* Five seconds without the acknowledgement.
AckLate ==
  /\ policy.waiting /\ ~policy.due
  /\ policy' = [policy EXCEPT !.due = TRUE]
  /\ UNCHANGED <<identity, knows, bootId, status, selfAck, ready, yields, down, up, left>>

-----------------------------------------------------------------------------
(* The scanners and the wires. *)

TakeSelf(l) ==
  /\ down[l] # <<>>
  /\ down' = [down EXCEPT ![l] = Tail(@)]
  /\ IF l = 0
     THEN /\ knows' = Head(down[0])
          /\ IF Len(up[0]) < LineMax
             THEN up' = [up EXCEPT ![0] = Append(@, [k |-> "ack", v |-> Head(down[0])])]
             ELSE UNCHANGED up
     ELSE UNCHANGED <<knows, up>>
  /\ UNCHANGED <<identity, bootId, status, policy, selfAck, ready, yields, left>>

\* A status line, every few seconds.
Status(l) ==
  /\ Len(up[l]) < LineMax /\ status[l] # bootId[l]
  /\ \A i \in DOMAIN up[l] : up[l][i] # [k |-> "status", v |-> bootId[l]]
  /\ up' = [up EXCEPT ![l] = Append(@, [k |-> "status", v |-> bootId[l]])]
  /\ UNCHANGED <<identity, knows, bootId, status, policy, selfAck, ready, yields, down, left>>

\* An acknowledgement counts only for the identity of this boot.
AnyAck(v) == TRUE
AckIsOurs(v) == v = identity
Receive(l) ==
  /\ up[l] # <<>>
  /\ up' = [up EXCEPT ![l] = Tail(@)]
  /\ LET m == Head(up[l]) IN
     \/ m.k = "status" /\ status' = [status EXCEPT ![l] = m.v] /\ UNCHANGED selfAck
     \/ m.k = "ack" /\ UNCHANGED status
        /\ selfAck' = IF AckIsOurs(m.v) THEN identity ELSE selfAck
  /\ UNCHANGED <<identity, knows, bootId, policy, ready, yields, down, left>>

Lose(l) ==
  /\ left.losses > 0
  /\ left' = [left EXCEPT !.losses = @ - 1]
  /\ \/ down[l] # <<>> /\ down' = [down EXCEPT ![l] = Tail(@)] /\ UNCHANGED up
     \/ up[l] # <<>> /\ up' = [up EXCEPT ![l] = Tail(@)] /\ UNCHANGED down
  /\ UNCHANGED <<identity, knows, bootId, status, policy, selfAck, ready, yields>>

ScannerReset(l) ==
  /\ left.scanner > 0
  /\ left' = [left EXCEPT !.scanner = @ - 1]
  /\ bootId' = [bootId EXCEPT ![l] = @ + 1]
  /\ knows' = IF l = 0 THEN None ELSE knows
  /\ down' = [down EXCEPT ![l] = <<>>]
  /\ UNCHANGED <<identity, status, policy, selfAck, ready, yields, up>>

BadgeReset ==
  /\ left.badge > 0
  /\ left' = [left EXCEPT !.badge = @ - 1]
  /\ identity' = identity + 1
  /\ status' = [l \in Lanes |-> None] /\ policy' = Blank /\ selfAck' = None
  /\ ready' = FALSE /\ yields' = FALSE /\ up' = [l \in Lanes |-> <<>>]
  /\ UNCHANGED <<knows, bootId, down>>

WorkStarts == /\ ~yields /\ left.works > 0
              /\ yields' = TRUE /\ left' = [left EXCEPT !.works = @ - 1]
              /\ UNCHANGED <<identity, knows, bootId, status, policy, selfAck, ready, down, up>>
WorkEnds == /\ yields /\ yields' = FALSE
            /\ UNCHANGED <<identity, knows, bootId, status, policy, selfAck, ready, down, up, left>>

Next == \/ Poll \/ AckLate \/ BadgeReset \/ WorkStarts \/ WorkEnds
        \/ \E l \in Lanes : TakeSelf(l) \/ Status(l) \/ Receive(l) \/ Lose(l) \/ ScannerReset(l)

Spec == Init /\ [][Next]_vars

\* Tasks run, wires deliver what is not lost, the poll gets the lease in the end.
PollActs == Poll /\ (down' # down \/ policy' # policy \/ selfAck' # selfAck \/ ready' # ready)
PollSends == Poll /\ down' # down
Fairness == /\ WF_vars(PollActs) /\ SF_vars(PollSends)
            /\ WF_vars(AckLate) /\ WF_vars(WorkEnds)
            /\ \A l \in Lanes : /\ WF_vars(TakeSelf(l)) /\ WF_vars(Receive(l))
                                /\ SF_vars(Status(l))
FairSpec == Spec /\ Fairness

-----------------------------------------------------------------------------
\* A badge that is told it may advertise is one whose scanner filters its
\* identity, unless that scanner has reset and has not yet said so: neither an
\* acknowledgement of an earlier boot of the badge, nor one that was on its way
\* when the scanner reset, is taken for it (badge_con_runtime.c:318).
ReadyIsFiltered ==
  ready => knows = identity \/ policy.boots[0] # bootId[0]

\* In the end the scanner knows the badge and the game may advertise: whatever
\* lines were lost and whoever reset.
Known == ready /\ knows = identity
BecomesReady == <>[]Known
-----------------------------------------------------------------------------
(* Why a ready badge is filtered: an acknowledgement of this identity was   *)
(* said when the scanner knew it, and what makes the scanner forget it is   *)
(* a boot that a later status line tells.                                   *)
TypeOK ==
    /\ identity \in Nat \ {0} /\ knows \in 0..identity /\ selfAck \in {None, identity}
    /\ bootId \in [Lanes -> Nat] /\ status \in [Lanes -> Nat]
    /\ policy \in [told : SUBSET Lanes, waiting : BOOLEAN, due : BOOLEAN, boots : [Lanes -> Nat]]
    /\ ready \in BOOLEAN
    /\ down \in [Lanes -> Seq(Nat)]
    /\ up \in [Lanes -> Seq([k : {"ack", "status"}, v : Nat])]

SentInOrder ==
    /\ \A i \in DOMAIN down[0] : down[0][i] <= identity
    /\ \A i, j \in DOMAIN down[0] : i <= j => down[0][i] <= down[0][j]
    /\ knows = identity => \A i \in DOMAIN down[0] : down[0][i] = identity
BootsKnown ==
    /\ policy.boots[0] <= bootId[0] /\ status[0] <= bootId[0]
    /\ \A i \in DOMAIN up[0] : up[0][i].k = "status" => up[0][i].v <= bootId[0]
\* A boot of the scanner that the badge has not read of yet.
Unread(to) ==
    /\ policy.boots[0] # bootId[0] /\ status[0] # bootId[0]
    /\ \A i \in 1..to : up[0][i].k = "status" => up[0][i].v # bootId[0]
AcksAreOurs ==
    \A i \in DOMAIN up[0] : up[0][i] = [k |-> "ack", v |-> identity]
        => knows = identity \/ Unread(i)
OnlyBleAcks == \A i \in DOMAIN up[1] : up[1][i].k = "status"
FilteredInv ==
    /\ SentInOrder /\ BootsKnown /\ AcksAreOurs /\ OnlyBleAcks
    /\ selfAck = identity => knows = identity \/ policy.boots[0] # bootId[0]
    /\ ready => selfAck = identity
=============================================================================
