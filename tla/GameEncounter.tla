---------------------------- MODULE GameEncounter ----------------------------
(***************************************************************************)
(* How a badge heard on the air becomes a packet of the game: the BLE       *)
(* scanner's table of encounters and its single pending packet              *)
(* (badge_con_encounter.c, badge_con_observer.c), and the UART line that    *)
(* carries it to the badge (uart_tx.c, uart_rx.c).  The BLE callback, the   *)
(* command task that sets the badge's own identity and the TX task that     *)
(* takes the pending packet interleave.  Times are units of two seconds.    *)
(*                                                                         *)
(* Bounds: TimeMax units, SeqMod sequence numbers, Resets scanner resets.   *)
(***************************************************************************)
EXTENDS Integers, Sequences, FiniteSets, FiniteSetsExt

CONSTANTS Peers,       \* other identities heard
          Self,        \* the identity of the badge this scanner belongs to
          Slots, Window, Rate, Quorum, SeqMod, TimeMax, Resets

VARIABLES now,
          air,        \* per identity, the sequence number it advertises
          table,      \* the encounter entries in use: identity -> entry
          own,        \* the own identity: requested, applied, being set
          heard,      \* the advertisement the BLE callback is working on
          pending,    \* s_pending_packet
          felt,       \* per identity, when it last qualified
          resets

vars == <<now, air, table, own, heard, pending, felt, resets>>

Nobody == "nobody"
All    == Peers \cup {Self}
Empty  == [x \in {} |-> 0]
Unset  == [req |-> Nobody, app |-> Nobody, set |-> FALSE]

Init == /\ now = 0 /\ air = [p \in All |-> 0]
        /\ table = Empty /\ own = Unset /\ heard = Nobody /\ pending = Nobody
        /\ felt = [p \in All |-> -1] /\ resets = 0

-----------------------------------------------------------------------------
(* The table. *)

Old(e)   == now - e.seen > Window
NewEntry == [seqs |-> <<>>, seen |-> now, last |-> -1]

\* Samples stand in the order of their times: those of the window come last.
Fresh(e) == LET recent == {i \in DOMAIN e.seqs : now - e.seqs[i].at <= Window}
            IN  IF recent = {} THEN <<>> ELSE SubSeq(e.seqs, Min(recent), Len(e.seqs))

\* Samples outside the window go; without any, the effect is forgotten too.
KeptForgetful(e) == [e EXCEPT !.seqs = Fresh(e), !.last = IF Fresh(e) = e.seqs THEN @ ELSE -1]
Kept(e) == [e EXCEPT !.seqs = Fresh(e), !.last = IF Fresh(e) = <<>> THEN -1 ELSE @]

Known(e, q)  == \E i \in DOMAIN e.seqs : e.seqs[i].n = q
Sampled(e, q) ==
  LET room == IF Len(e.seqs) = Quorum THEN Tail(e.seqs) ELSE e.seqs
  IN [e EXCEPT !.seqs = Append(room, [n |-> q, at |-> now]), !.seen = now]
Qualifies(e) == Len(e.seqs) = Quorum /\ ~(e.last >= 0 /\ now - e.last < Rate)

Without(t, p) == [x \in DOMAIN t \ {p} |-> t[x]]
With(t, p, e) == [x \in DOMAIN t \cup {p} |-> IF x = p THEN e ELSE t[x]]

\* A stranger takes the place of an expired entry, else an unused one, else none.
Rooms == LET old == {x \in DOMAIN table : Old(table[x])}
         IN IF old # {} THEN {Without(table, v) : v \in old}
            ELSE IF Cardinality(DOMAIN table) < Slots THEN {table} ELSE {}

\* Dropped as a duplicate, counted, limited or qualified.
Count(p, t, e) ==
  LET f == Sampled(e, air[p])
      passes == ~Known(e, air[p]) /\ Qualifies(f)
  IN /\ table' = With(t, p, IF Known(e, air[p]) THEN e
                            ELSE IF passes THEN [f EXCEPT !.last = now] ELSE f)
     /\ pending' = IF passes THEN p ELSE pending
     /\ felt' = IF passes THEN [felt EXCEPT ![p] = now] ELSE felt

-----------------------------------------------------------------------------
(* The BLE callback: it first applies an identity newly requested, then works *)
(* on the advertisement.                                                      *)

PendingKept == pending
PendingCleared == IF pending = own.req THEN Nobody ELSE pending

Hear(p) ==
  /\ heard = Nobody
  /\ heard' = p
  /\ IF own.req \in {Nobody, own.app} THEN UNCHANGED <<table, own, pending>>
     ELSE /\ own' = [own EXCEPT !.app = own.req]
          /\ table' = Without(table, own.req)
          /\ pending' = PendingCleared
  /\ UNCHANGED <<now, air, felt, resets>>

Observe ==
  /\ heard # Nobody
  /\ \/ heard = own.app /\ UNCHANGED <<table, pending, felt>>
     \/ /\ heard # own.app /\ heard \in DOMAIN table
        /\ Count(heard, table, IF Old(table[heard]) THEN NewEntry ELSE Kept(table[heard]))
     \/ /\ heard # own.app /\ heard \notin DOMAIN table
        /\ \/ Rooms = {} /\ UNCHANGED <<table, pending, felt>>
           \/ \E t \in Rooms : Count(heard, t, NewEntry)
  /\ heard' = Nobody
  /\ UNCHANGED <<now, air, own, resets>>

Advertise(p) ==
  /\ air' = [air EXCEPT ![p] = (@ + 1) % SeqMod]
  /\ UNCHANGED <<now, table, own, heard, pending, felt, resets>>

-----------------------------------------------------------------------------
(* The command task: a pending packet of the new identity goes first, then   *)
(* the identity is published to the callback.                                *)

ClearSelf ==
  /\ ~own.set /\ own.req # Self
  /\ own' = [own EXCEPT !.set = TRUE]
  /\ pending' = IF pending = Self THEN Nobody ELSE pending
  /\ UNCHANGED <<now, air, table, heard, felt, resets>>

PublishSelf ==
  /\ own.set
  /\ own' = [own EXCEPT !.set = FALSE, !.req = Self]
  /\ UNCHANGED <<now, air, table, heard, pending, felt, resets>>

\* The TX task takes the packet; the badge refuses one of its own identity.
TakePending ==
  /\ pending # Nobody
  /\ pending' = Nobody
  /\ UNCHANGED <<now, air, table, own, heard, felt, resets>>

ScannerResets ==
  /\ resets < Resets
  /\ resets' = resets + 1
  /\ table' = Empty /\ own' = Unset /\ heard' = Nobody /\ pending' = Nobody
  /\ felt' = [p \in All |-> -1]
  /\ UNCHANGED <<now, air>>

Tick == /\ now < TimeMax
        /\ now' = now + 1
        /\ UNCHANGED <<air, table, own, heard, pending, felt, resets>>

Next == \/ \E p \in All : Hear(p) \/ Advertise(p)
        \/ Observe \/ ClearSelf \/ PublishSelf \/ TakePending \/ ScannerResets \/ Tick

Spec == Init /\ [][Next]_vars

-----------------------------------------------------------------------------
TypeOK == /\ now \in 0..TimeMax /\ DOMAIN table \subseteq All
          /\ Cardinality(DOMAIN table) <= Slots
          /\ pending \in All \cup {Nobody} /\ heard \in All \cup {Nobody}
          /\ own.req \in {Self, Nobody} /\ own.app \in {Self, Nobody}

\* Once the callback works with the badge's own identity, no packet of that
\* identity waits for the TX task, although the command task cleared it before
\* it published the identity and the callback was free to qualify one between
\* the two (badge_con_observer.c:49, 58, 94).
SelfStaysOut == own.app = Self => pending # Self

\* However a peer's samples expire, its entry is evicted and taken again, or
\* it falls silent and returns, two effects of one peer are more than a window
\* apart: the weakest form of its rate limit (badge_con_encounter.c:12).
OneEffectAtMost == \A p \in All : felt'[p] > felt[p] /\ felt[p] >= 0 => felt'[p] - felt[p] > Window
EffectsApart == [][OneEffectAtMost]_vars

-----------------------------------------------------------------------------
\* The inductive form of SelfStaysOut: an identity is Self's or none.
SelfInv == /\ own.req \in {Self, Nobody} /\ own.app \in {Self, Nobody}
           /\ own = [req |-> own.req, app |-> own.app, set |-> own.set]
           /\ SelfStaysOut
\* The inductive form of OneEffectAtMost: what was felt within the window is
\* remembered by the peer's entry, with a sample that is no older.  It is forgotten
\* only of the identity that turned out to be the own one.
SampleSet == [n : 0..(SeqMod - 1), at : Nat]
Entries == [seqs : Seq(SampleSet), seen : Nat, last : Nat \cup {-1}]
TypedInv == /\ now \in Nat /\ air \in [All -> 0..(SeqMod - 1)] /\ heard \in All \cup {Nobody}
            /\ DOMAIN table \subseteq All /\ table \in [DOMAIN table -> Entries]
            /\ felt \in [All -> Nat \cup {-1}]
Remembered(p) == /\ p \in DOMAIN table /\ table[p].last = felt[p] /\ table[p].seen >= felt[p]
                 /\ \E i \in DOMAIN table[p].seqs : table[p].seqs[i].at >= felt[p]
FeltInv == \A p \in All : /\ felt[p] <= now
                          /\ felt[p] >= 0 /\ now - felt[p] <= Window =>
                               Remembered(p) \/ (p = Self /\ own.app = Self)
PeersInv == SelfInv /\ TypedInv /\ FeltInv
=============================================================================
