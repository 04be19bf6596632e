---------------------------- MODULE BadgeConGame ----------------------------
(***************************************************************************)
(* The Badge-Con game of one badge: the rules of badge_con_game.c, the      *)
(* mutation protocol of badge_con_runtime.c under which the display task,   *)
(* the UART receive task and the USB command task change its state, and the *)
(* easter egg whose end starts a game (badge_easter_egg.c, *_runtime.c).    *)
(* A mutation is a claim, a computation on a copy taken at the claim, and a *)
(* commit of the copy; whoever finds it claimed gives up.  Only the factory *)
(* seed is stored; every reset starts the badge inactive from that seed.    *)
(*                                                                         *)
(* Bounds: Packets qualified peer packets, Seeds factory seeds, Resets      *)
(* resets, Eggs egg shows; time advances by half minutes, two of which are  *)
(* a minute of decay.                                                       *)
(***************************************************************************)
EXTENDS Naturals, Sequences, SequencesExt

CONSTANTS Packets, Seeds, Resets, Eggs, Near     \* Near: RSSI multipliers met

VARIABLES game,      \* s_state
          late,      \* half minutes since last_decay_ms, while infected
          claim,     \* the mutation in progress: its task and its copy
          stored,    \* the seed in the NVS record
          egg,       \* the easter egg machine
          count      \* what remains of each bound

vars == <<game, late, claim, stored, egg, count>>

Roles   == {"normal", "infected", "immune"}
Maxima  == <<100, 50, 25, 12, 6, 3, 1>>          \* by scar level
Maximum(g) == Maxima[g.scar + 1]
Rescue  == 45

Fresh(seed) == [seed |-> seed, role |-> seed, active |-> FALSE,
                shield |-> 0, scar |-> 0, dead |-> FALSE]
NoClaim == [by |-> "none"]
Claims  == claim # NoClaim

-----------------------------------------------------------------------------
(* The rules. *)

Reachable(g) ==
  \/ ~g.active /\ g = Fresh(g.seed)
  \/ g.active /\ g.dead /\ g.role = "infected" /\ g.shield = 0
  \/ /\ g.active /\ ~g.dead
     /\ \/ g.role = "immune" /\ g.seed = "immune" /\ g.scar = 0
        \/ /\ g.role # "immune" /\ g.seed # "immune" /\ g.scar < 6
           /\ g.shield > 0
           /\ IF g.role = "infected" THEN g.shield < 100
                                     ELSE g.shield <= Maximum(g)

FirstShield == [immune |-> 100, normal |-> 30, infected |-> Rescue]
Activate(g) == [g EXCEPT !.active = TRUE, !.shield = FirstShield[g.seed]]

\* The decay owed for whole minutes, and the remainder that stays owed.
Decayed(g) ==
  IF g.active /\ ~g.dead /\ g.role = "infected"
  THEN LET left == IF late \div 2 >= g.shield THEN 0 ELSE g.shield - late \div 2
       IN [g EXCEPT !.shield = left, !.dead = left = 0]
  ELSE g
RemainderDropped(g) == 0
Remainder(g) == IF g.role = "infected" /\ ~g.dead THEN late % 2 ELSE 0

Raise(g, by, top) == [g EXCEPT !.shield = IF @ + by > top THEN top ELSE @ + by]
Drain(g, by) == [g EXCEPT !.shield = @ - by]
KilledButAlive(g) == [g EXCEPT !.shield = 0, !.role = "infected"]
Killed(g) == [g EXCEPT !.shield = 0, !.role = "infected", !.dead = TRUE]
Infected(g)  == [g EXCEPT !.shield = Rescue, !.role = "infected"]
Cured(g)     == LET c == [g EXCEPT !.scar = @ + 1]
                IN IF Maximum(c) <= 1 THEN Killed(c)
                   ELSE [c EXCEPT !.role = "normal", !.shield = Maximum(c)]

\* One qualified packet: a peer's role, whether it is a super, its nearness.
Meet(g, p) ==
  LET power  == IF p.super THEN 2 ELSE 1
      damage == (IF g.role = "infected" THEN 1 ELSE 10) * power * p.near
      top    == IF g.role = "immune" THEN 100 ELSE Maximum(g)
  IN CASE p.role = "infected" /\ damage < g.shield -> Drain(g, damage)
       [] p.role = "infected" /\ damage >= g.shield ->
            IF g.role = "normal" THEN Infected(g) ELSE Killed(g)
       [] p.role = "immune" /\ g.role # "infected" -> Raise(g, 5 * p.near, top)
       [] p.role = "immune" /\ g.role = "infected" ->
            IF g.shield + 12 * p.near < 100 THEN Raise(g, 12 * p.near, 100)
                                            ELSE Cured(g)
       [] OTHER -> g

Applied(g, p) == IF ~g.active \/ ~Reachable(g) \/ g.dead THEN g
                 ELSE LET d == Decayed(g) IN IF d.dead THEN d ELSE Meet(d, p)

-----------------------------------------------------------------------------
(* The tasks.  The claim copies s_state; the commit writes the copy. *)

Init == /\ stored \in Roles
        /\ game = Fresh(stored)
        /\ late = 0 /\ claim = NoClaim
        /\ egg = [phase |-> "armed", shown |-> FALSE, cool |-> FALSE, once |-> FALSE]
        /\ count = [packets |-> Packets, seeds |-> Seeds, resets |-> Resets, eggs |-> Eggs]

FreeForAll(by) == TRUE
Free(by) == ~Claims

\* When the copy's last_decay_ms was moved, the decay clock moves with it.
Take(by, copy, left) ==
  claim' = [by |-> by, copy |-> copy, late |-> left, base |-> game]

\* UART receive: a packet the scanner qualified.
Qualified == {p \in [role : Roles, super : BOOLEAN, near : Near] :
                p.super => p.role = "infected"}
Packet ==
  /\ count.packets > 0
  /\ count' = [count EXCEPT !.packets = @ - 1]
  /\ IF Free("uart")
     THEN \E p \in Qualified :
            LET g == Applied(game, p)
            IN Take("uart", g, IF g.role # game.role \/ g.scar # game.scar
                               THEN 0 ELSE Remainder(g))
     ELSE UNCHANGED claim
  /\ UNCHANGED <<game, late, stored, egg>>

\* The display, the radio poll or a status answer settles the decay it sees.
Snapshot ==
  /\ Free("view")
  /\ Decayed(game) # game \/ Remainder(game) # late
  /\ Take("view", Decayed(game), Remainder(Decayed(game)))
  /\ UNCHANGED <<game, late, stored, egg, count>>

\* USB: game_seed.  The record is written between the claim and the commit.
Seed ==
  /\ count.seeds > 0 /\ Free("seed")
  /\ \E seed \in Roles :
       Take("seed", Fresh(seed), 0)
  /\ count' = [count EXCEPT !.seeds = @ - 1]
  /\ UNCHANGED <<game, late, stored, egg>>

Persist ==
  /\ claim.by = "seed"
  /\ \/ stored' = claim.copy.seed /\ claim' = [claim EXCEPT !.by = "seeded"]
     \/ stored' = stored /\ claim' = NoClaim                   \* NVS refused
  /\ UNCHANGED <<game, late, egg, count>>

Commit ==
  /\ claim.by \in {"uart", "view", "seeded", "egg"}
  /\ game' = claim.copy
  /\ late' = IF claim.copy = claim.base /\ claim.late = late THEN late ELSE claim.late
  /\ claim' = NoClaim
  /\ UNCHANGED <<stored, egg, count>>

-----------------------------------------------------------------------------
(* The easter egg: once by its button, again by radio after its cooldown. *)

Trigger ==
  /\ ~egg.shown /\ count.eggs > 0
  /\ \E radio \in BOOLEAN :
       /\ egg.once => radio /\ egg.cool
       /\ egg' = [phase |-> "thanks", shown |-> TRUE, cool |-> FALSE, once |-> TRUE]
  /\ count' = [count EXCEPT !.eggs = @ - 1]
  /\ UNCHANGED <<game, late, claim, stored>>

\* A press: the thanks screen bounces; the bounce, or a dismissal of either,
\* ends the egg and then starts the game, if no other mutation holds it.
Press ==
  /\ egg.shown
  /\ \/ /\ egg.phase = "thanks"
        /\ egg' = [egg EXCEPT !.phase = "bounce"]
        /\ UNCHANGED claim
     \/ /\ egg' = [egg EXCEPT !.phase = "consumed", !.shown = FALSE]
        /\ IF Free("egg") /\ ~game.active /\ Reachable(game)
           THEN Take("egg", Activate(game), 0)
           ELSE UNCHANGED claim
  /\ UNCHANGED <<game, late, stored, count>>

CooldownEnds ==
  /\ egg.phase = "consumed" /\ ~egg.cool
  /\ egg' = [egg EXCEPT !.cool = TRUE]
  /\ UNCHANGED <<game, late, claim, stored, count>>

-----------------------------------------------------------------------------
\* The clock runs only while the state it decays is committed; two minutes
\* owed are as many as the model keeps.
HalfMinute ==
  /\ game.active /\ ~game.dead /\ game.role = "infected"
  /\ ~Claims /\ late < 4
  /\ late' = late + 1
  /\ UNCHANGED <<game, claim, stored, egg, count>>

Reset ==
  /\ count.resets > 0
  /\ count' = [count EXCEPT !.resets = @ - 1]
  /\ game' = Fresh(stored) /\ late' = 0 /\ claim' = NoClaim
  /\ egg' = [phase |-> "armed", shown |-> FALSE, cool |-> FALSE, once |-> FALSE]
  /\ UNCHANGED stored

Next == \/ Packet \/ Snapshot \/ Seed \/ Persist \/ Commit
        \/ Trigger \/ Press \/ CooldownEnds \/ HalfMinute \/ Reset

Spec == Init /\ [][Next]_vars

\* Time passes, a claim is carried through, and the display loop keeps taking
\* its snapshot whenever it is scheduled: again and again, so a decay that
\* each snapshot pushed away would never be paid.
FairSpec == Spec /\ WF_vars(HalfMinute) /\ WF_vars(Persist \/ Commit) /\ SF_vars(Snapshot)

-----------------------------------------------------------------------------
TypeOK == /\ game.seed \in Roles /\ game.role \in Roles /\ game.shield \in 0..100
          /\ game.scar \in 0..6 /\ stored \in Roles /\ late \in 0..4
          /\ claim.by \in {"none", "uart", "view", "seed", "seeded", "egg"}

\* A game that leaves the states badge_con_game.c calls reachable is frozen:
\* every later packet is refused (badge_con_game.c:221).  No sequence of
\* packets, decay, seeds and resets leads there.
Playable == Reachable(game)

\* The seed in RAM is the stored one, whatever tasks mutate the game between
\* the writing of the record and its commit (badge_con_runtime.c:195): a
\* commit computed on an older copy would bring the old seed back.
SeedAgrees == claim.by # "seeded" => game.seed = stored

\* An infected badge that meets nobody dies of its decay, however often its
\* state is looked at, unless a reset or a new seed ends its game.
Sick == game.active /\ game.role = "infected"
Over == game.dead \/ game.role # "infected" \/ ~game.active
InfectionEnds == Sick ~> Over

-----------------------------------------------------------------------------
\* The inductive strengthening: what a task computes at its claim is a game
\* that can be played, of the same seed as the game it will replace, or as the
\* record it has just written; so no commit, however late, brings a seed back.
States == [seed : Roles, role : Roles, active : BOOLEAN,
           shield : Nat, scar : 0..6, dead : BOOLEAN]
Mutations == [by : {"uart", "view", "seed", "seeded", "egg"},
              copy : States, late : Nat, base : States]
GameInv ==
  /\ stored \in Roles /\ late \in Nat
  /\ game \in States /\ Playable /\ SeedAgrees
  /\ claim = NoClaim \/ claim \in Mutations
  /\ Claims => Reachable(claim.copy)
  /\ claim.by \in {"uart", "view", "egg"} => claim.copy.seed = game.seed
  /\ claim.by = "seeded" => claim.copy.seed = stored
=============================================================================
