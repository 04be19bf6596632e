------------------------ MODULE DetectionPath_proofs ------------------------
(***************************************************************************)
(* What is proved of the way of a detection (MCDetectionPath), for every   *)
(* value of its constants.  One section per part, with the inductive       *)
(* invariant that stands at the end of the part's module; then the parts   *)
(* in turn.                                                                *)
(***************************************************************************)
EXTENDS MCDetectionPath, FiniteSetTheorems, SequenceTheorems, TLAPS

-----------------------------------------------------------------------------
(* Of natural numbers. *)
\* Of natural numbers there is a least one.
LEMMA LeastOf ==
    ASSUME NEW S, S \subseteq Nat, S # {}
    PROVE  \E x \in S : \A y \in S : x <= y
<1> DEFINE T == {1..n : n \in S}  R == StrictSubsetOrdering(Nat)
<1>1. T # {} /\ \A t \in T : t \in FiniteSubsetsOf(Nat)
  <2>1. \A n \in Nat : IsFiniteSet(1..n)
    BY FS_Interval
  <2>2. \A n \in Nat : 1..n \subseteq Nat
    OBVIOUS
  <2>3. \A n \in Nat : 1..n \in FiniteSubsetsOf(Nat)
    BY <2>1, <2>2 DEF FiniteSubsetsOf
  <2>4. T # {}
    OBVIOUS
  <2> QED BY <2>3, <2>4
<1>2. PICK t \in T : \A u \in T : <<u, t>> \notin R
  BY <1>1, FS_StrictSubsetOrderingWellFounded, WFMin
<1>3. PICK x \in S : t = 1..x
  OBVIOUS
<1>4. ASSUME NEW y \in S, ~(x <= y) PROVE FALSE
  <2>1. 1..y \in T
    OBVIOUS
  <2>2. x \in Nat /\ y \in Nat /\ y < x
    BY <1>4
  <2>3. 1..y \subseteq 1..x /\ x \in 1..x /\ x \notin 1..y
    BY <2>2
  <2>4. <<1..y, 1..x>> \in R
    BY <2>3 DEF StrictSubsetOrdering
  <2> QED BY <2>1, <2>4, <1>2, <1>3
<1> QED BY <1>4, <1>3

\* ... and of pairs the first by value, then by place.
LEMMA FirstLeastOf ==
    ASSUME NEW S, S \subseteq Nat, S # {}, NEW f, \A i \in S : f[i] \in Nat
    PROVE  \E i \in S : \A j \in S : f[i] < f[j] \/ (f[i] = f[j] /\ i <= j)
<1> DEFINE F == {f[j] : j \in S}
<1>1. PICK m \in F : \A y \in F : m <= y
  <2>1. F \subseteq Nat /\ F # {}
    OBVIOUS
  <2> HIDE DEF F
  <2> QED BY <2>1, LeastOf
<1> DEFINE G == {j \in S : f[j] = m}
<1>2. PICK i \in G : \A y \in G : i <= y
  <2>1. G \subseteq Nat /\ G # {}
    BY <1>1
  <2> HIDE DEF G
  <2> QED BY <2>1, LeastOf
<1>3. i \in S /\ f[i] = m
  OBVIOUS
<1>4. ASSUME NEW j \in S PROVE f[i] < f[j] \/ (f[i] = f[j] /\ i <= j)
  <2>1. m <= f[j] /\ m \in Nat /\ f[j] \in Nat
    BY <1>1
  <2>2. f[j] = m => i <= j
    BY <1>2
  <2> QED BY <2>1, <2>2, <1>3
<1> QED BY <1>3, <1>4

-----------------------------------------------------------------------------
(* The game (BadgeConGame): x1 game, x2 late, x3 claim, x4 stored, x5 egg,  *)
(* x6 count.  First its rules, as operators on a state of the game.         *)
Playing(g) == g \in Game!States /\ Game!Reachable(g)

LEMMA MaximumOf ==
    ASSUME NEW g \in Game!States
    PROVE  /\ Game!Maximum(g) \in Nat \ {0}
           /\ Game!Maximum(g) > 1 <=> g.scar < 6
<1>1. g.scar \in 0..6
  BY DEF Game!States
<1> QED BY <1>1 DEF Game!Maximum, Game!Maxima

LEMMA FreshOf ==
    ASSUME NEW s \in Game!Roles
    PROVE  Playing(Game!Fresh(s)) /\ Game!Fresh(s).seed = s
BY DEF Playing, Game!States, Game!Reachable, Game!Fresh, Game!Roles

LEMMA ActivateOf ==
    ASSUME NEW g, Playing(g), ~g.active
    PROVE  Playing(Game!Activate(g)) /\ Game!Activate(g).seed = g.seed
<1>1. g = Game!Fresh(g.seed) /\ g.seed \in Game!Roles /\ g \in Game!States
  BY DEF Playing, Game!States, Game!Reachable
<1>2. /\ g.scar = 0 /\ g.role = g.seed /\ g.dead = FALSE
  BY <1>1 DEF Game!Fresh
<1> DEFINE n == Game!FirstShield[g.seed]  a == [g EXCEPT !.active = TRUE, !.shield = n]
<1>3. n \in Nat /\ 0 < n /\ (g.seed # "immune" => n < 100 /\ n <= 45)
      /\ (g.seed = "normal" => n = 30)
  BY <1>1 DEF Game!FirstShield, Game!Roles, Game!Rescue
<1> HIDE DEF n
<1>4. /\ a \in Game!States /\ a.seed = g.seed /\ a.role = g.role /\ a.scar = 0
      /\ a.active = TRUE /\ a.dead = FALSE /\ a.shield = n
  BY <1>1, <1>2, <1>3 DEF Game!States
<1> HIDE DEF a
<1>5. Game!Maximum(a) = 100
  BY <1>4 DEF Game!Maximum, Game!Maxima
<1>6. Game!Reachable(a)
  BY <1>1, <1>2, <1>3, <1>4, <1>5 DEF Game!Reachable, Game!Roles
<1> QED BY <1>4, <1>6 DEF Playing, Game!Activate, a, n

LEMMA DecayedOf ==
    ASSUME NEW g, Playing(g), x2 \in Nat
    PROVE  Playing(Game!Decayed(g)) /\ Game!Decayed(g).seed = g.seed
<1>1. CASE ~(g.active /\ ~g.dead /\ g.role = "infected")
  BY <1>1 DEF Game!Decayed
<1>2. CASE g.active /\ ~g.dead /\ g.role = "infected"
  <2> DEFINE left == IF x2 \div 2 >= g.shield THEN 0 ELSE g.shield - x2 \div 2
             d == [g EXCEPT !.shield = left, !.dead = left = 0]
  <2>1. /\ g \in Game!States /\ g.shield \in Nat /\ g.seed # "immune" /\ g.scar < 6
        /\ g.shield < 100
    BY <1>2 DEF Playing, Game!States, Game!Reachable, Game!Fresh
  <2>2. left \in Nat /\ left <= g.shield
    BY <2>1
  <2> HIDE DEF left
  <2>3. /\ d \in Game!States /\ d.seed = g.seed /\ d.role = "infected" /\ d.scar = g.scar
        /\ d.active = TRUE /\ d.shield = left /\ (d.dead <=> left = 0)
    BY <1>2, <2>1, <2>2 DEF Game!States
  <2> HIDE DEF d
  <2>4. Game!Reachable(d)
    BY <2>1, <2>2, <2>3 DEF Game!Reachable
  <2> QED BY <1>2, <2>3, <2>4 DEF Playing, Game!Decayed, d, left
<1> QED BY <1>1, <1>2

\* A packet met by a badge that plays.
LEMMA MeetOf ==
    ASSUME NEW g, Playing(g), g.active, ~g.dead,
           NEW p \in [role : Game!Roles, super : BOOLEAN, near : Nat]
    PROVE  Playing(Game!Meet(g, p)) /\ Game!Meet(g, p).seed = g.seed
<1> DEFINE power  == IF p.super THEN 2 ELSE 1
           damage == (IF g.role = "infected" THEN 1 ELSE 10) * power * p.near
           top    == IF g.role = "immune" THEN 100 ELSE Game!Maximum(g)
<1>1. /\ g \in Game!States /\ g.shield \in Nat /\ g.scar \in 0..6
      /\ g.role # "immune" => g.shield > 0
      /\ g.seed \in Game!Roles /\ g.role \in Game!Roles
      /\ g.role = "immune" => g.seed = "immune" /\ g.scar = 0
      /\ g.role # "immune" => g.seed # "immune" /\ g.scar < 6
      /\ g.role = "infected" => g.shield < 100
      /\ g.role = "normal" => g.shield <= Game!Maximum(g)
  <2>1. /\ g \in Game!States /\ g.shield \in Nat /\ g.scar \in 0..6
        /\ g.seed \in Game!Roles /\ g.role \in Game!Roles
    BY DEF Playing, Game!States
  <2>2. \/ g.role = "immune" /\ g.seed = "immune" /\ g.scar = 0
        \/ /\ g.role # "immune" /\ g.seed # "immune" /\ g.scar < 6 /\ g.shield > 0
           /\ IF g.role = "infected" THEN g.shield < 100 ELSE g.shield <= Game!Maximum(g)
    BY DEF Playing, Game!Reachable
  <2> QED BY <2>1, <2>2
<1>2. /\ p.near \in Nat /\ p.role \in Game!Roles
  OBVIOUS
<1>3. Game!Meet(g, p) =
         CASE p.role = "infected" /\ damage < g.shield -> Game!Drain(g, damage)
           [] p.role = "infected" /\ damage >= g.shield ->
                IF g.role = "normal" THEN Game!Infected(g) ELSE Game!Killed(g)
           [] p.role = "immune" /\ g.role # "infected" -> Game!Raise(g, 5 * p.near, top)
           [] p.role = "immune" /\ g.role = "infected" ->
                IF g.shield + 12 * p.near < 100 THEN Game!Raise(g, 12 * p.near, 100)
                                                ELSE Game!Cured(g)
           [] OTHER -> g
  BY DEF Game!Meet
<1>4. damage \in Nat
  BY <1>2
<1>5. top \in Nat \ {0} /\ (g.role # "immune" => top = Game!Maximum(g))
  BY <1>1, MaximumOf
<1> HIDE DEF damage, top
<1>6. CASE p.role = "infected" /\ damage < g.shield
  <2> DEFINE n == g.shield - damage  d == [g EXCEPT !.shield = n]
  <2>1. n \in Nat /\ 0 < n /\ n <= g.shield
    BY <1>1, <1>4, <1>6
  <2>2. Game!Meet(g, p) = d
    <3>1. Game!Meet(g, p) = Game!Drain(g, damage)
      BY <1>1, <1>4, <1>6, <1>3
    <3> QED BY <3>1 DEF Game!Drain
  <2> HIDE DEF n
  <2>3. /\ d \in Game!States /\ d.seed = g.seed /\ d.role = g.role /\ d.scar = g.scar
        /\ d.active = g.active /\ d.dead = g.dead /\ d.shield = n
    BY <1>1, <2>1 DEF Game!States
  <2> HIDE DEF d
  <2>4. Game!Maximum(d) = Game!Maximum(g) /\ Game!Maximum(g) \in Nat
    BY <2>3, <1>1, MaximumOf DEF Game!Maximum
  <2>5. Game!Reachable(d)
    BY <1>1, <2>1, <2>3, <2>4 DEF Game!Reachable, Game!Roles
  <2> QED BY <2>3, <2>5, <2>2 DEF Playing
<1>7. ASSUME p.role = "infected", damage >= g.shield
      PROVE  Playing(Game!Meet(g, p)) /\ Game!Meet(g, p).seed = g.seed
  <2>1. Game!Meet(g, p) = IF g.role = "normal" THEN Game!Infected(g) ELSE Game!Killed(g)
    BY <1>7, <1>4, <1>1, <1>3
  <2>2. CASE g.role = "normal"
    <3>1. /\ Game!Infected(g) \in Game!States /\ Game!Infected(g).seed = g.seed
          /\ Game!Infected(g).role = "infected" /\ Game!Infected(g).scar = g.scar
          /\ Game!Infected(g).active = g.active /\ Game!Infected(g).dead = g.dead
          /\ Game!Infected(g).shield = 45
      BY <1>1 DEF Game!Infected, Game!States, Game!Rescue, Game!Roles
    <3>2. Game!Reachable(Game!Infected(g))
      BY <1>1, <2>2, <3>1 DEF Game!Reachable
    <3> QED BY <2>1, <2>2, <3>1, <3>2 DEF Playing
  <2>3. CASE g.role # "normal"
    <3>1. /\ Game!Killed(g) \in Game!States /\ Game!Killed(g).seed = g.seed
          /\ Game!Killed(g).role = "infected" /\ Game!Killed(g).shield = 0
          /\ Game!Killed(g).active = g.active /\ Game!Killed(g).dead = TRUE
      BY <1>1 DEF Game!Killed, Game!States, Game!Roles
    <3>2. Game!Reachable(Game!Killed(g))
      BY <3>1 DEF Game!Reachable
    <3> QED BY <2>1, <2>3, <3>1, <3>2 DEF Playing
  <2> QED BY <2>2, <2>3
<1>8. ASSUME NEW by \in Nat, NEW roof \in Nat \ {0},
             g.role = "infected" => g.shield + by < 100,
             g.role = "normal" => roof = Game!Maximum(g)
      PROVE  Playing(Game!Raise(g, by, roof)) /\ Game!Raise(g, by, roof).seed = g.seed
  <2> DEFINE n == IF g.shield + by > roof THEN roof ELSE g.shield + by
             r == [g EXCEPT !.shield = n]
  <2>1. /\ n \in Nat /\ (g.shield > 0 => n > 0) /\ n <= roof /\ n <= g.shield + by
    BY <1>1
  <2> HIDE DEF n
  <2>2. /\ r \in Game!States /\ r.seed = g.seed /\ r.role = g.role /\ r.scar = g.scar
        /\ r.active = g.active /\ r.dead = g.dead /\ r.shield = n
    BY <1>1, <2>1 DEF Game!States
  <2> HIDE DEF r
  <2>3. Game!Maximum(r) = Game!Maximum(g) /\ Game!Maximum(g) \in Nat
    BY <2>2, <1>1, MaximumOf DEF Game!Maximum
  <2>4. Game!Reachable(r)
    BY <1>1, <1>8, <2>1, <2>2, <2>3 DEF Game!Reachable, Game!Roles
  <2> QED BY <2>2, <2>4 DEF Playing, Game!Raise, r, n
<1>9. CASE p.role = "immune" /\ g.role # "infected"
  <2>1. Game!Meet(g, p) = Game!Raise(g, 5 * p.near, top)
    BY <1>9, <1>3
  <2>2. 5 * p.near \in Nat
    BY <1>2
  <2> QED BY <1>8, <1>9, <1>5, <2>1, <2>2
<1>10. ASSUME p.role = "immune", g.role = "infected"
      PROVE  Playing(Game!Meet(g, p)) /\ Game!Meet(g, p).seed = g.seed
  <2>1. Game!Meet(g, p) = IF g.shield + 12 * p.near < 100
                          THEN Game!Raise(g, 12 * p.near, 100) ELSE Game!Cured(g)
    BY <1>10, <1>3
  <2>2. 12 * p.near \in Nat
    BY <1>2
  <2>3. CASE g.shield + 12 * p.near < 100
    BY <1>8, <1>10, <2>1, <2>2, <2>3
  <2>4. CASE ~(g.shield + 12 * p.near < 100)
    <3> DEFINE m == g.scar + 1
               c == [g EXCEPT !.scar = m]
               k == Game!Killed(c)
               n == [c EXCEPT !.role = "normal", !.shield = Game!Maximum(c)]
    <3>1. m \in 0..6 /\ g.role # "immune"
      BY <1>1, <1>10
    <3>2. Game!Cured(g) = IF Game!Maximum(c) <= 1 THEN k ELSE n
      BY DEF Game!Cured
    <3> HIDE DEF m
    <3>3. /\ c \in Game!States /\ c.seed = g.seed /\ c.scar = m
          /\ c.active = g.active /\ c.dead = g.dead
      BY <1>1, <3>1 DEF Game!States
    <3> HIDE DEF c
    <3>4. Game!Maximum(c) \in Nat \ {0} /\ (Game!Maximum(c) > 1 <=> c.scar < 6)
      BY <3>3, MaximumOf
    <3>5. CASE Game!Maximum(c) <= 1
      <4>1. /\ k \in Game!States /\ k.seed = g.seed /\ k.role = "infected" /\ k.shield = 0
            /\ k.active = g.active /\ k.dead = TRUE
        BY <3>3 DEF Game!Killed, Game!States, Game!Roles
      <4>2. Game!Reachable(k)
        BY <4>1 DEF Game!Reachable
      <4>3. Game!Cured(g) = k
        BY <3>5, <3>2
      <4> QED BY <2>1, <2>4, <4>1, <4>2, <4>3 DEF Playing
    <3>6. CASE ~(Game!Maximum(c) <= 1)
      <4>1. /\ n \in Game!States /\ n.seed = g.seed /\ n.role = "normal" /\ n.scar = c.scar
            /\ n.active = g.active /\ n.dead = g.dead /\ n.shield = Game!Maximum(c)
        BY <3>3, <3>4 DEF Game!States, Game!Roles
      <4>2. Game!Cured(g) = n
        BY <3>6, <3>2
      <4> HIDE DEF n
      <4>3. Game!Maximum(n) = Game!Maximum(c)
        BY <4>1 DEF Game!Maximum
      <4>4. Game!Reachable(n)
        BY <1>1, <1>10, <3>1, <3>3, <3>4, <3>6, <4>1, <4>3 DEF Game!Reachable
      <4> QED BY <2>1, <2>4, <4>1, <4>2, <4>4 DEF Playing
    <3> QED BY <3>5, <3>6
  <2> QED BY <2>3, <2>4
<1>11. CASE p.role = "normal"
  BY <1>11, <1>3
<1> QED BY <1>1, <1>2, <1>4, <1>6, <1>7, <1>9, <1>10, <1>11 DEF Game!Roles

LEMMA AppliedOf ==
    ASSUME NEW g, Playing(g), x2 \in Nat,
           NEW p \in [role : Game!Roles, super : BOOLEAN, near : Nat]
    PROVE  Playing(Game!Applied(g, p)) /\ Game!Applied(g, p).seed = g.seed
<1>1. CASE ~g.active \/ ~Game!Reachable(g) \/ g.dead
  BY <1>1 DEF Game!Applied
<1>2. CASE ~(~g.active \/ ~Game!Reachable(g) \/ g.dead)
  <2> DEFINE d == Game!Decayed(g)
  <2>1. Playing(d) /\ d.seed = g.seed /\ d.active
    <3>1. Playing(d) /\ d.seed = g.seed
      BY DecayedOf
    <3>2. d.active = g.active
      BY DEF Game!Decayed, Playing, Game!States
    <3> QED BY <3>1, <3>2, <1>2
  <2>2. Game!Applied(g, p) = IF d.dead THEN d ELSE Game!Meet(d, p)
    BY <1>2 DEF Game!Applied
  <2> HIDE DEF d
  <2>3. CASE d.dead
    BY <2>1, <2>2, <2>3
  <2>4. CASE ~d.dead
    BY <2>1, <2>2, <2>4, MeetOf
  <2> QED BY <2>3, <2>4
<1> QED BY <1>1, <1>2

\* Its tasks.
LEMMA GameInitial == Game!Init => Game!GameInv
<1> SUFFICES ASSUME Game!Init PROVE Game!GameInv
  OBVIOUS
<1>1. x4 \in Game!Roles /\ x1 = Game!Fresh(x4) /\ x2 = 0 /\ x3 = Game!NoClaim
  BY DEF Game!Init
<1>2. Playing(x1) /\ x1.seed = x4
  BY <1>1, FreshOf
<1>3. x3.by = "none"
  BY <1>1 DEF Game!NoClaim
<1> QED BY <1>1, <1>2, <1>3
      DEF Game!GameInv, Game!Playable, Game!SeedAgrees, Game!Claims, Playing

\* What a claim takes: a copy that can be played, of the seed of the game.
LEMMA TakeOf ==
    ASSUME Game!GameInv, UNCHANGED <<x1, x4>>, x2' \in Nat,
           NEW by \in {"uart", "view", "seed", "egg"}, NEW copy, NEW n \in Nat,
           Playing(copy), by # "seed" => copy.seed = x1.seed, Game!Take(by, copy, n),
           x3 = Game!NoClaim
    PROVE  Game!GameInv'
<1>1. x3' = [by |-> by, copy |-> copy, late |-> n, base |-> x1]
  BY DEF Game!Take
<1>2. x3' \in Game!Mutations /\ x3'.by = by /\ x3'.copy = copy
  BY <1>1 DEF Playing, Game!Mutations, Game!GameInv
<1>3. x1.seed = x4
  <2>1. x3.by = "none"
    BY DEF Game!NoClaim
  <2> QED BY <2>1 DEF Game!GameInv, Game!SeedAgrees
<1> QED BY <1>2, <1>3 DEF Game!GameInv, Game!Playable, Game!SeedAgrees, Playing

\* The claim, in cases.
LEMMA ClaimOf ==
    ASSUME Game!GameInv
    PROVE  /\ x3 = Game!NoClaim => x3.by = "none"
           /\ x3 # Game!NoClaim =>
                /\ x3 \in Game!Mutations /\ Playing(x3.copy) /\ x3.late \in Nat
                /\ x3.by \in {"uart", "view", "seed", "seeded", "egg"}
<1>1. x3 = Game!NoClaim => x3.by = "none"
  BY DEF Game!NoClaim
<1>2. x3 # Game!NoClaim =>
         /\ x3 \in Game!Mutations /\ Playing(x3.copy) /\ x3.late \in Nat
         /\ x3.by \in {"uart", "view", "seed", "seeded", "egg"}
  BY DEF Game!GameInv, Game!Claims, Game!Mutations, Playing
<1> QED BY <1>1, <1>2

LEMMA GameNext == Game!GameInv /\ [Game!Next]_(Game!vars) => Game!GameInv'
<1> SUFFICES ASSUME Game!GameInv, [Game!Next]_(Game!vars) PROVE Game!GameInv'
  OBVIOUS
<1> USE GameAssumption
<1>1. /\ Playing(x1) /\ x1.seed \in Game!Roles /\ x2 \in Nat /\ x4 \in Game!Roles
      /\ x3 = Game!NoClaim \/ x3 \in Game!Mutations
  BY DEF Game!GameInv, Game!Playable, Playing, Game!States
<1>2. CASE UNCHANGED Game!vars
  BY <1>2 DEF Game!vars, Game!GameInv, Game!Playable, Game!SeedAgrees, Game!Claims
<1>3. ASSUME UNCHANGED <<x1, x3, x4>>, x2' \in Nat PROVE Game!GameInv'
  BY <1>3 DEF Game!GameInv, Game!Playable, Game!SeedAgrees, Game!Claims
<1>4. ASSUME NEW g PROVE Game!Remainder(g) \in Nat
  <2>1. x2 % 2 \in Nat
    BY <1>1
  <2> QED BY <2>1 DEF Game!Remainder
<1>5. CASE Game!Packet
  <2>1. UNCHANGED <<x1, x2, x4>>
    BY <1>5 DEF Game!Packet
  <2>2. CASE x3 = Game!NoClaim
    <3>1. Game!Free("uart")
      BY <2>2 DEF Game!Free, Game!Claims
    <3>2. PICK p \in Game!Qualified :
            LET g == Game!Applied(x1, p)
            IN Game!Take("uart", g, IF g.role # x1.role \/ g.scar # x1.scar
                                    THEN 0 ELSE Game!Remainder(g))
      BY <1>5, <3>1 DEF Game!Packet
    <3> DEFINE g == Game!Applied(x1, p)
               n == IF g.role # x1.role \/ g.scar # x1.scar THEN 0 ELSE Game!Remainder(g)
    <3>3. p \in [role : Game!Roles, super : BOOLEAN, near : Nat]
      BY DEF Game!Qualified
    <3>4. Game!Take("uart", g, n)
      BY <3>2
    <3>5. Playing(g) /\ g.seed = x1.seed
      BY <1>1, <3>3, AppliedOf
    <3> HIDE DEF g
    <3>6. n \in Nat
      BY <1>1, <1>4
    <3> HIDE DEF n
    <3>7. x2' \in Nat
      BY <2>1, <1>1
    <3> QED BY <2>1, <2>2, <3>4, <3>5, <3>6, <3>7, TakeOf
  <2>3. CASE x3 # Game!NoClaim
    BY <1>1, <1>3, <1>5, <2>1, <2>3 DEF Game!Packet, Game!Free, Game!Claims
  <2> QED BY <2>2, <2>3
<1>6. CASE Game!Snapshot
  <2> DEFINE d == Game!Decayed(x1)  n == Game!Remainder(Game!Decayed(x1))
  <2>1. /\ x3 = Game!NoClaim /\ Game!Take("view", d, n) /\ UNCHANGED <<x1, x2, x4>>
    BY <1>6 DEF Game!Snapshot, Game!Free, Game!Claims
  <2>2. Playing(d) /\ d.seed = x1.seed
    BY <1>1, DecayedOf
  <2>3. n \in Nat
    BY <1>4
  <2> HIDE DEF d, n
  <2>4. x2' \in Nat
    BY <1>1, <2>1
  <2> QED BY <2>1, <2>2, <2>3, <2>4, TakeOf
<1>7. CASE Game!Seed
  <2>1. PICK seed \in Game!Roles : Game!Take("seed", Game!Fresh(seed), 0)
    BY <1>7 DEF Game!Seed
  <2>2. x3 = Game!NoClaim /\ UNCHANGED <<x1, x2, x4>> /\ x2' \in Nat
    BY <1>1, <1>7 DEF Game!Seed, Game!Free, Game!Claims
  <2>3. Playing(Game!Fresh(seed))
    BY FreshOf
  <2> DEFINE f == Game!Fresh(seed)
  <2> HIDE DEF f
  <2> QED BY <2>1, <2>2, <2>3, TakeOf
<1>8. CASE Game!Persist
  <2>1. /\ x3 \in Game!Mutations /\ x3.by = "seed" /\ Playing(x3.copy)
        /\ UNCHANGED <<x1, x2>> /\ x2' \in Nat
    BY <1>1, <1>8, ClaimOf DEF Game!Persist
  <2>2. CASE x4' = x3.copy.seed /\ x3' = [x3 EXCEPT !.by = "seeded"]
    <3>1. /\ x3' \in Game!Mutations /\ x3'.by = "seeded" /\ x3'.copy = x3.copy
      BY <2>1, <2>2 DEF Game!Mutations
    <3>2. x4' \in Game!Roles
      BY <2>1, <2>2 DEF Playing, Game!States
    <3> QED BY <1>1, <2>1, <2>2, <3>1, <3>2
          DEF Game!GameInv, Game!Playable, Game!SeedAgrees, Playing
  <2>3. CASE x4' = x4 /\ x3' = Game!NoClaim
    <3>1. x3'.by = "none" /\ x1.seed = x4
      BY <2>1, <2>3 DEF Game!NoClaim, Game!GameInv, Game!SeedAgrees
    <3> QED BY <1>1, <2>1, <2>3, <3>1
          DEF Game!GameInv, Game!Playable, Game!SeedAgrees, Game!Claims, Playing
  <2> QED BY <1>8, <2>2, <2>3 DEF Game!Persist
<1>9. CASE Game!Commit
  <2>1. /\ x3 \in Game!Mutations /\ Playing(x3.copy) /\ x3.late \in Nat
        /\ x1' = x3.copy /\ x3' = Game!NoClaim /\ x4' = x4
        /\ x2' \in {x2, x3.late}
    BY <1>9, ClaimOf DEF Game!Commit
  <2>2. x3.copy.seed = x4
    BY <1>9 DEF Game!Commit, Game!GameInv, Game!SeedAgrees
  <2>3. x3'.by = "none" /\ x2' \in Nat
    BY <1>1, <2>1 DEF Game!NoClaim
  <2> QED BY <1>1, <2>1, <2>2, <2>3
        DEF Game!GameInv, Game!Playable, Game!SeedAgrees, Game!Claims, Playing
<1>10. CASE Game!Trigger
  BY <1>1, <1>3, <1>10 DEF Game!Trigger
<1>11. CASE Game!Press
  <2>1. UNCHANGED <<x1, x2, x4>> /\ x2' \in Nat
    BY <1>1, <1>11 DEF Game!Press
  <2>2. CASE UNCHANGED x3
    BY <1>3, <2>1, <2>2
  <2>3. CASE x3 = Game!NoClaim /\ ~x1.active /\ Game!Take("egg", Game!Activate(x1), 0)
    <3> DEFINE a == Game!Activate(x1)
    <3>1. Playing(a) /\ a.seed = x1.seed
      BY <1>1, <2>3, ActivateOf
    <3> HIDE DEF a
    <3> QED BY <2>1, <2>3, <3>1, TakeOf DEF a
  <2> QED BY <1>11, <2>2, <2>3 DEF Game!Press, Game!Free, Game!Claims
<1>12. CASE Game!CooldownEnds
  BY <1>1, <1>3, <1>12 DEF Game!CooldownEnds
<1>13. CASE Game!HalfMinute
  BY <1>1, <1>3, <1>13 DEF Game!HalfMinute
<1>14. CASE Game!Reset
  <2>1. x1' = Game!Fresh(x4) /\ x2' = 0 /\ x3' = Game!NoClaim /\ x4' = x4
    BY <1>14 DEF Game!Reset
  <2>2. Playing(x1') /\ x1'.seed = x4
    BY <1>1, <2>1, FreshOf
  <2>3. x3'.by = "none"
    BY <2>1 DEF Game!NoClaim
  <2> QED BY <1>1, <2>1, <2>2, <2>3
        DEF Game!GameInv, Game!Playable, Game!SeedAgrees, Game!Claims, Playing
<1> QED BY <1>2, <1>5, <1>6, <1>7, <1>8, <1>9, <1>10, <1>11, <1>12, <1>13, <1>14 DEF Game!Next

-----------------------------------------------------------------------------
(* The badge's own identity and the effects apart (GameEncounter): x1 now,   *)
(* x2 air, x3 table, x4 own, x5 heard, x6 pending, x7 felt, x8 resets.       *)
LEMMA SelfInitial == Peers!Init => Peers!SelfInv
BY PeersAssumption DEF Peers!Init, Peers!SelfInv, Peers!SelfStaysOut, Peers!Unset, Peers!Nobody

LEMMA SelfNext == Peers!SelfInv /\ [Peers!Next]_(Peers!vars) => Peers!SelfInv'
<1> SUFFICES ASSUME Peers!SelfInv, [Peers!Next]_(Peers!vars) PROVE Peers!SelfInv'
  OBVIOUS
<1> DEFINE Identity(o) == /\ o.req \in {Self, Peers!Nobody} /\ o.app \in {Self, Peers!Nobody}
                          /\ o = [req |-> o.req, app |-> o.app, set |-> o.set]
<1>1. Identity(x4) /\ (x4.app = Self => x6 # Self)
  BY DEF Peers!SelfInv, Peers!SelfStaysOut
<1>2. Self # Peers!Nobody
  BY PeersAssumption DEF Peers!Nobody
<1>3. ASSUME Identity(x4'), x4'.app = Self => x6' # Self PROVE Peers!SelfInv'
  BY <1>3 DEF Peers!SelfInv, Peers!SelfStaysOut
<1>4. ASSUME UNCHANGED x4, x6' \in {x6, Peers!Nobody} PROVE Peers!SelfInv'
  BY <1>1, <1>2, <1>3, <1>4
<1>5. CASE UNCHANGED Peers!vars
  BY <1>4, <1>5 DEF Peers!vars
<1>6. ASSUME NEW p \in Peers!All, Peers!Hear(p) PROVE Peers!SelfInv'
  <2>1. CASE x4.req \in {Peers!Nobody, x4.app}
    BY <1>4, <1>6, <2>1 DEF Peers!Hear
  <2>2. CASE ~(x4.req \in {Peers!Nobody, x4.app})
    <3>1. /\ x4' = [x4 EXCEPT !.app = x4.req] /\ x6' = Peers!PendingCleared /\ x4.req = Self
      BY <1>1, <1>6, <2>2 DEF Peers!Hear
    <3>2. Identity(x4')
      BY <1>1, <3>1
    <3>3. x6' # Self
      BY <1>2, <3>1 DEF Peers!PendingCleared
    <3> QED BY <1>3, <3>2, <3>3
  <2> QED BY <2>1, <2>2
<1>7. ASSUME NEW p \in Peers!All, Peers!Advertise(p) PROVE Peers!SelfInv'
  BY <1>4, <1>7 DEF Peers!Advertise
<1>8. CASE Peers!Observe
  <2>1. UNCHANGED x4
    BY <1>8 DEF Peers!Observe
  <2>2. x6' = x6 \/ (x6' = x5 /\ x5 # x4.app)
    BY <1>8 DEF Peers!Observe, Peers!Count
  <2> QED BY <1>1, <1>3, <2>1, <2>2
<1>9. CASE Peers!ClearSelf
  <2>1. x4' = [x4 EXCEPT !.set = TRUE] /\ x6' \in {x6, Peers!Nobody}
    BY <1>9 DEF Peers!ClearSelf
  <2> QED BY <1>1, <1>2, <1>3, <2>1
<1>10. CASE Peers!PublishSelf
  <2>1. x4' = [x4 EXCEPT !.set = FALSE, !.req = Self] /\ x6' = x6
    BY <1>10 DEF Peers!PublishSelf
  <2>2. Identity(x4') /\ x4'.app = x4.app
    BY <1>1, <2>1
  <2> QED BY <1>1, <1>3, <2>1, <2>2
<1>11. CASE Peers!TakePending
  BY <1>4, <1>11 DEF Peers!TakePending
<1>12. CASE Peers!ScannerResets
  <2>1. x4' = Peers!Unset /\ x6' = Peers!Nobody
    BY <1>12 DEF Peers!ScannerResets
  <2> QED BY <1>2, <1>3, <2>1 DEF Peers!Unset
<1>13. CASE Peers!Tick
  BY <1>4, <1>13 DEF Peers!Tick
<1> QED BY <1>5, <1>6, <1>7, <1>8, <1>9, <1>10, <1>11, <1>12, <1>13 DEF Peers!Next

LEMMA RecentOf ==
    ASSUME NEW e, e.seqs \in Seq(Peers!SampleSet), x1 \in Nat
    PROVE  /\ Peers!Fresh(e) \in Seq(Peers!SampleSet)
           /\ \A i \in DOMAIN e.seqs : x1 - e.seqs[i].at <= Window =>
                \E k \in DOMAIN Peers!Fresh(e) : Peers!Fresh(e)[k] = e.seqs[i]
<1> DEFINE q == e.seqs  R == {i \in DOMAIN q : x1 - q[i].at <= Window}
           f == Peers!Fresh(e)
<1>1. DOMAIN q = 1..Len(q) /\ Len(q) \in Nat /\ \A i \in 1..Len(q) : q[i] \in Peers!SampleSet
  BY LenProperties, ElementOfSeq
<1>2. f = IF R = {} THEN <<>> ELSE SubSeq(q, Peers!Min(R), Len(q))
  BY DEF Peers!Fresh
<1> HIDE DEF f, q
<1>3. CASE R = {}
  <2>1. f \in Seq(Peers!SampleSet)
    BY <1>2, <1>3, EmptySeq
  <2> QED BY <1>3, <2>1 DEF f, q
<1>4. CASE R # {}
  <2>1. R \subseteq Nat
    BY <1>1
  <2> HIDE DEF R
  <2>2. Peers!Min(R) \in R /\ \A y \in R : Peers!Min(R) <= y
    BY <2>1, <1>4, LeastOf DEF Peers!Min
  <2>3. PICK m : m = Peers!Min(R)
    OBVIOUS
  <2>4. m \in 1..Len(q) /\ \A y \in R : m <= y
    BY <2>2, <2>3, <1>1 DEF R
  <2>5. /\ f \in Seq(Peers!SampleSet) /\ Len(f) = Len(q) - m + 1
        /\ \A i \in 1..(Len(q) - m + 1) : f[i] = q[m + i - 1]
    <3>1. \A i \in m..Len(q) : q[i] \in Peers!SampleSet
      BY <1>1, <2>4
    <3>2. m \in Int /\ Len(q) \in Int /\ m <= Len(q) /\ f = SubSeq(q, m, Len(q))
      BY <1>1, <1>2, <1>4, <2>3, <2>4
    <3> HIDE DEF R
    <3> QED BY <3>1, <3>2, SubSeqProperties
  <2>6. DOMAIN f = 1..Len(f)
    BY <2>5, LenProperties
  <2>7. ASSUME NEW i \in DOMAIN q, x1 - q[i].at <= Window
        PROVE  \E k \in DOMAIN f : f[k] = q[i]
    <3>1. i \in R
      BY <2>7 DEF R
    <3>2. m <= i /\ i \in 1..Len(q)
      BY <3>1, <2>4, <1>1
    <3>3. PICK j : j = i - m + 1
      OBVIOUS
    <3>4. j \in 1..(Len(q) - m + 1) /\ m + j - 1 = i
      BY <3>2, <3>3, <2>4, <1>1
    <3>5. f[j] = q[m + j - 1] /\ j \in DOMAIN f
      BY <3>4, <2>5, <2>6
    <3> QED BY <3>4, <3>5
  <2> QED BY <2>5, <2>7 DEF f, q
<1> QED BY <1>3, <1>4

\* An entry remembers when its peer was felt.
Knows(e, v) == e.last = v /\ e.seen >= v /\ \E i \in DOMAIN e.seqs : e.seqs[i].at >= v
Near(p) == x7[p] >= 0 /\ x1 - x7[p] <= Window

LEMMA EntryKept ==
    ASSUME NEW e \in Peers!Entries, x1 \in Nat, NEW v \in Nat
    PROVE  /\ Peers!Kept(e) \in Peers!Entries
           /\ Knows(e, v) /\ x1 - v <= Window => Knows(Peers!Kept(e), v)
<1> DEFINE f == Peers!Fresh(e)  k == Peers!Kept(e)
<1>1. e.seqs \in Seq(Peers!SampleSet) /\ e.last \in Nat \cup {-1} /\ e.seen \in Nat
  BY DEF Peers!Entries
<1>2. /\ f \in Seq(Peers!SampleSet)
      /\ \A i \in DOMAIN e.seqs : x1 - e.seqs[i].at <= Window =>
            \E j \in DOMAIN f : f[j] = e.seqs[i]
  BY <1>1, RecentOf
<1>3. k = [e EXCEPT !.seqs = f, !.last = IF f = <<>> THEN -1 ELSE e.last]
  BY DEF Peers!Kept
<1> HIDE DEF f, k
<1>4. /\ k \in Peers!Entries /\ k.seqs = f /\ k.seen = e.seen
      /\ k.last = IF f = <<>> THEN -1 ELSE e.last
  BY <1>1, <1>2, <1>3 DEF Peers!Entries
<1>5. ASSUME Knows(e, v), x1 - v <= Window PROVE Knows(k, v)
  <2>1. PICK i \in DOMAIN e.seqs : e.seqs[i].at >= v
    BY <1>5 DEF Knows
  <2>2. e.seqs[i].at \in Nat
    <3>1. e.seqs[i] \in Peers!SampleSet
      BY <1>1, <2>1, LenProperties, ElementOfSeq
    <3> QED BY <3>1 DEF Peers!SampleSet
  <2>3. x1 - e.seqs[i].at <= Window
    <3>1. Window \in Nat
      BY PeersAssumption
    <3> QED BY <3>1, <2>1, <2>2, <1>5
  <2>4. PICK j \in DOMAIN f : f[j] = e.seqs[i]
    BY <1>2, <2>1, <2>3
  <2>5. f # <<>>
    BY <2>4
  <2> QED BY <1>4, <1>5, <2>1, <2>4, <2>5 DEF Knows
<1> QED BY <1>4, <1>5 DEF k

LEMMA EntrySampled ==
    ASSUME NEW e \in Peers!Entries, x1 \in Nat, NEW q \in 0..(SeqMod - 1)
    PROVE  LET f == Peers!Sampled(e, q)
           IN  /\ f \in Peers!Entries /\ f.last = e.last /\ f.seen = x1
               /\ \E i \in DOMAIN f.seqs : f.seqs[i].at = x1
<1> DEFINE room == IF Len(e.seqs) = Quorum THEN Tail(e.seqs) ELSE e.seqs
           s == [n |-> q, at |-> x1]  w == Append(room, s)  f == Peers!Sampled(e, q)
<1>1. e.seqs \in Seq(Peers!SampleSet) /\ e.last \in Nat \cup {-1} /\ e.seen \in Nat
  BY DEF Peers!Entries
<1>2. room \in Seq(Peers!SampleSet)
  <2>1. CASE Len(e.seqs) = Quorum
    <3>1. Quorum \in Nat \ {0}
      BY PeersAssumption
    <3>2. e.seqs # <<>>
      BY <2>1, <3>1, EmptySeq
    <3> QED BY <1>1, <2>1, <3>2, HeadTailProperties
  <2> QED BY <1>1, <2>1
<1>3. s \in Peers!SampleSet /\ s.at = x1
  BY DEF Peers!SampleSet
<1>4. f = [e EXCEPT !.seqs = w, !.seen = x1]
  BY DEF Peers!Sampled
<1> HIDE DEF room, s
<1>5. /\ w \in Seq(Peers!SampleSet) /\ Len(w) = Len(room) + 1 /\ w[Len(room) + 1] = s
  BY <1>2, <1>3, AppendProperties
<1>6. Len(room) + 1 \in DOMAIN w
  BY <1>2, <1>5, LenProperties
<1> HIDE DEF w, f
<1>7. f \in Peers!Entries /\ f.last = e.last /\ f.seen = x1 /\ f.seqs = w
  BY <1>1, <1>4, <1>5 DEF Peers!Entries
<1> QED BY <1>3, <1>5, <1>6, <1>7 DEF f

LEMMA EntryFresh == ASSUME x1 \in Nat PROVE Peers!NewEntry \in Peers!Entries
<1>1. <<>> \in Seq(Peers!SampleSet)
  BY EmptySeq
<1> QED BY <1>1 DEF Peers!NewEntry, Peers!Entries

\* A sample is counted: whoever is felt now was not felt within the window.
LEMMA CountOf ==
    ASSUME Peers!TypedInv, NEW p \in Peers!All, NEW e \in Peers!Entries,
           Near(p) => Knows(e, x7[p]), x7[p] <= x1, NEW t, Peers!Count(p, t, e)
    PROVE  \E n \in Peers!Entries, v \in Nat \cup {-1} :
              /\ x3' = Peers!With(t, p, n) /\ x7' = [x7 EXCEPT ![p] = v]
              /\ v = x7[p] \/ (v = x1 /\ ~Near(p))
              /\ v <= x1 /\ (v >= 0 /\ x1 - v <= Window => Knows(n, v))
<1>1. /\ x1 \in Nat /\ x2[p] \in 0..(SeqMod - 1) /\ x7[p] \in Nat \cup {-1}
      /\ x7 \in [Peers!All -> Nat \cup {-1}]
  BY DEF Peers!TypedInv
<1>2. Window \in Nat /\ Rate \in Nat /\ Window < Rate
  BY PeersAssumption
<1> DEFINE f == Peers!Sampled(e, x2[p])  known == Peers!Known(e, x2[p])
           passes == ~known /\ Peers!Qualifies(f)  g == [f EXCEPT !.last = x1]
           n == IF known THEN e ELSE IF passes THEN g ELSE f
           v == IF passes THEN x1 ELSE x7[p]
<1>3. /\ f \in Peers!Entries /\ f.last = e.last /\ f.seen = x1
      /\ \E i \in DOMAIN f.seqs : f.seqs[i].at = x1
  BY <1>1, EntrySampled
<1>4. x3' = Peers!With(t, p, n)
  BY DEF Peers!Count
<1>5. x7' = IF passes THEN [x7 EXCEPT ![p] = x1] ELSE x7
  BY DEF Peers!Count
<1>6. passes => ~Near(p)
  <2> SUFFICES ASSUME passes, Near(p) PROVE FALSE
    OBVIOUS
  <2>1. ~(f.last >= 0 /\ x1 - f.last < Rate)
    BY DEF Peers!Qualifies
  <2>2. f.last = x7[p] /\ x7[p] >= 0 /\ x1 - x7[p] <= Window
    <3> HIDE DEF f
    <3> QED BY <1>3 DEF Near, Knows
  <2> HIDE DEF f, passes
  <2> QED BY <2>1, <2>2, <1>1, <1>2
<1> HIDE DEF f, known
<1>7. /\ g \in Peers!Entries /\ g.last = x1 /\ g.seen = x1
      /\ \E i \in DOMAIN g.seqs : g.seqs[i].at = x1
  BY <1>1, <1>3 DEF Peers!Entries
<1> HIDE DEF g
<1>8. n \in Peers!Entries /\ v \in Nat \cup {-1} /\ v <= x1
  BY <1>1, <1>3, <1>7
<1>9. x7' = [x7 EXCEPT ![p] = v]
  BY <1>1, <1>5
<1>10. v = x7[p] \/ (v = x1 /\ ~Near(p))
  BY <1>6
<1>11. ASSUME v >= 0, x1 - v <= Window PROVE Knows(n, v)
  <2>1. CASE known
    BY <1>11, <2>1 DEF Near
  <2>2. CASE passes
    BY <1>1, <1>7, <2>2 DEF Knows
  <2>3. CASE ~known /\ ~passes
    <3>1. n = f /\ v = x7[p]
      BY <2>3
    <3>2. e.last = v
      BY <1>11, <3>1 DEF Near, Knows
    <3>3. PICK i \in DOMAIN f.seqs : f.seqs[i].at = x1
      BY <1>3
    <3>4. f.last = v /\ f.seen >= v /\ f.seqs[i].at >= v
      BY <1>1, <1>3, <3>1, <3>2, <3>3
    <3> QED BY <3>1, <3>3, <3>4 DEF Knows
  <2> QED BY <2>1, <2>2, <2>3
<1> HIDE DEF n, v
<1> QED BY <1>4, <1>8, <1>9, <1>10, <1>11

LEMMA PeersInitial == Peers!Init => Peers!PeersInv
<1> SUFFICES ASSUME Peers!Init PROVE Peers!PeersInv
  OBVIOUS
<1>1. /\ x1 = 0 /\ x2 = [p \in Peers!All |-> 0] /\ x3 = [p \in {} |-> 0] /\ x5 = Peers!Nobody
      /\ x7 = [p \in Peers!All |-> -1]
  BY DEF Peers!Init, Peers!Empty
<1>2. SeqMod \in Nat \ {0}
  BY PeersAssumption
<1>3. Peers!TypedInv
  BY <1>1, <1>2 DEF Peers!TypedInv
<1>4. Peers!FeltInv
  BY <1>1 DEF Peers!FeltInv
<1> QED BY <1>3, <1>4, SelfInitial DEF Peers!PeersInv

\* Who loses an entry was not felt within the window.
LEMMA RoomsOf ==
    ASSUME Peers!TypedInv, Peers!FeltInv, NEW t \in Peers!Rooms
    PROVE  /\ DOMAIN t \subseteq DOMAIN x3 /\ \A q \in DOMAIN t : t[q] = x3[q]
           /\ \A q \in Peers!All : Near(q) /\ q \in DOMAIN x3 /\ Peers!Remembered(q)
                  => q \in DOMAIN t
<1>1. CASE t = x3
  BY <1>1
<1>2. CASE t # x3
  <2>1. PICK v \in DOMAIN x3 : Peers!Old(x3[v]) /\ t = Peers!Without(x3, v)
    BY <1>2 DEF Peers!Rooms
  <2>2. DOMAIN t = DOMAIN x3 \ {v} /\ \A q \in DOMAIN t : t[q] = x3[q]
    BY <2>1 DEF Peers!Without
  <2>3. ~(v \in Peers!All /\ Near(v) /\ Peers!Remembered(v))
    <3> SUFFICES ASSUME v \in Peers!All, Near(v), Peers!Remembered(v) PROVE FALSE
      OBVIOUS
    <3>1. x1 - x3[v].seen > Window /\ x3[v].seen >= x7[v] /\ x1 - x7[v] <= Window
      BY <2>1 DEF Peers!Old, Peers!Remembered, Near
    <3>2. x1 \in Nat /\ x7[v] \in Nat \cup {-1} /\ x3[v].seen \in Nat
      BY <2>1 DEF Peers!TypedInv, Peers!Entries
    <3>3. Window \in Nat
      BY PeersAssumption
    <3> QED BY <3>1, <3>2, <3>3
  <2> QED BY <2>2, <2>3
<1> QED BY <1>1, <1>2

\* A peer is counted in a table t: it gets the entry n and was last felt at v.
Counted(p, t, n, v) ==
    /\ DOMAIN t \subseteq DOMAIN x3 /\ \A q \in DOMAIN t : t[q] = x3[q]
    /\ \A q \in Peers!All : Near(q) /\ q \in DOMAIN x3 /\ Peers!Remembered(q) => q \in DOMAIN t
    /\ x3' = Peers!With(t, p, n) /\ x7' = [x7 EXCEPT ![p] = v]
    /\ v = x7[p] \/ (v = x1 /\ ~Near(p))
    /\ v <= x1 /\ (v >= 0 /\ x1 - v <= Window => Knows(n, v))

LEMMA ObserveCounts ==
    ASSUME Peers!SelfInv, Peers!TypedInv, Peers!FeltInv, Peers!Observe
    PROVE  /\ UNCHANGED <<x1, x2, x4>> /\ x5' = Peers!Nobody
           /\ \/ x3' = x3 /\ x7' = x7
              \/ \E p \in Peers!All, n \in Peers!Entries, v \in Nat \cup {-1} :
                   \E t : Counted(p, t, n, v)
<1>1. UNCHANGED <<x1, x2, x4>> /\ x5' = Peers!Nobody
  BY DEF Peers!Observe
<1>2. x5 \in Peers!All /\ x1 \in Nat /\ x7[x5] \in Nat \cup {-1}
  BY DEF Peers!Observe, Peers!TypedInv
<1>3. /\ x7[x5] <= x1
      /\ Near(x5) /\ x5 # x4.app => /\ x5 \in DOMAIN x3
                                    /\ x3[x5].seen >= x7[x5] /\ Knows(x3[x5], x7[x5])
  BY <1>2 DEF Peers!FeltInv, Near, Peers!Remembered, Knows
<1>4. CASE x3' = x3 /\ x7' = x7
  BY <1>1, <1>4
<1>5. CASE x5 # x4.app /\ x5 \in DOMAIN x3
           /\ Peers!Count(x5, x3, IF Peers!Old(x3[x5]) THEN Peers!NewEntry ELSE Peers!Kept(x3[x5]))
  <2> DEFINE e == IF Peers!Old(x3[x5]) THEN Peers!NewEntry ELSE Peers!Kept(x3[x5])
  <2>1. x3[x5] \in Peers!Entries
    BY <1>5 DEF Peers!TypedInv
  <2>2. e \in Peers!Entries /\ (Near(x5) => Knows(e, x7[x5]))
    <3>1. CASE Peers!Old(x3[x5])
      <4>1. ~Near(x5)
        <5>1. x1 - x3[x5].seen > Window /\ x3[x5].seen \in Nat /\ Window \in Nat
          BY <2>1, <3>1, PeersAssumption DEF Peers!Old, Peers!Entries
        <5> QED BY <5>1, <1>2, <1>3, <1>5 DEF Near
      <4>2. Peers!NewEntry \in Peers!Entries
        BY <1>2, EntryFresh
      <4> QED BY <3>1, <4>1, <4>2
    <3>2. CASE ~Peers!Old(x3[x5])
      <4>1. Peers!Kept(x3[x5]) \in Peers!Entries
        BY <1>2, <2>1, EntryKept
      <4>2. ASSUME Near(x5) PROVE Knows(Peers!Kept(x3[x5]), x7[x5])
        <5>1. x7[x5] \in Nat /\ Knows(x3[x5], x7[x5]) /\ x1 - x7[x5] <= Window
          BY <1>2, <1>3, <1>5, <4>2 DEF Near
        <5> QED BY <5>1, <1>2, <2>1, EntryKept
      <4> QED BY <3>2, <4>1, <4>2
    <3> QED BY <3>1, <3>2
  <2>3. Peers!Count(x5, x3, e)
    BY <1>5
  <2> HIDE DEF e
  <2>4. PICK n \in Peers!Entries, v \in Nat \cup {-1} :
              /\ x3' = Peers!With(x3, x5, n) /\ x7' = [x7 EXCEPT ![x5] = v]
              /\ v = x7[x5] \/ (v = x1 /\ ~Near(x5))
              /\ v <= x1 /\ (v >= 0 /\ x1 - v <= Window => Knows(n, v))
    BY <1>2, <1>3, <2>2, <2>3, CountOf
  <2>5. Counted(x5, x3, n, v)
    BY <2>4 DEF Counted
  <2> QED BY <1>1, <1>2, <2>5
<1>6. CASE x5 # x4.app /\ x5 \notin DOMAIN x3
           /\ \E t \in Peers!Rooms : Peers!Count(x5, t, Peers!NewEntry)
  <2>1. PICK t \in Peers!Rooms : Peers!Count(x5, t, Peers!NewEntry)
    BY <1>6
  <2>2. ~Near(x5)
    BY <1>3, <1>6
  <2>3. PICK n \in Peers!Entries, v \in Nat \cup {-1} :
              /\ x3' = Peers!With(t, x5, n) /\ x7' = [x7 EXCEPT ![x5] = v]
              /\ v = x7[x5] \/ (v = x1 /\ ~Near(x5))
              /\ v <= x1 /\ (v >= 0 /\ x1 - v <= Window => Knows(n, v))
    BY <1>2, <1>3, <2>1, <2>2, EntryFresh, CountOf
  <2>4. /\ DOMAIN t \subseteq DOMAIN x3 /\ \A q \in DOMAIN t : t[q] = x3[q]
        /\ \A q \in Peers!All : Near(q) /\ q \in DOMAIN x3 /\ Peers!Remembered(q) => q \in DOMAIN t
    BY RoomsOf
  <2>5. Counted(x5, t, n, v)
    BY <2>3, <2>4 DEF Counted
  <2> QED BY <1>1, <1>2, <2>5
<1>7. \/ x3' = x3 /\ x7' = x7
      \/ /\ x5 # x4.app /\ x5 \in DOMAIN x3
         /\ Peers!Count(x5, x3, IF Peers!Old(x3[x5]) THEN Peers!NewEntry ELSE Peers!Kept(x3[x5]))
      \/ /\ x5 # x4.app /\ x5 \notin DOMAIN x3
         /\ \E t \in Peers!Rooms : Peers!Count(x5, t, Peers!NewEntry)
  BY DEF Peers!Observe
<1> QED BY <1>4, <1>5, <1>6, <1>7

LEMMA ObserveFelt ==
    ASSUME Peers!SelfInv, Peers!TypedInv, Peers!FeltInv, Peers!Observe
    PROVE  Peers!TypedInv' /\ Peers!FeltInv' /\ Peers!OneEffectAtMost
<1>1. /\ UNCHANGED <<x1, x2, x4>> /\ x5' = Peers!Nobody
      /\ \/ x3' = x3 /\ x7' = x7
         \/ \E p \in Peers!All, n \in Peers!Entries, v \in Nat \cup {-1} :
                   \E t : Counted(p, t, n, v)
  BY ObserveCounts
<1>2. /\ x1 \in Nat /\ x7 \in [Peers!All -> Nat \cup {-1}] /\ x3 \in [DOMAIN x3 -> Peers!Entries]
      /\ DOMAIN x3 \subseteq Peers!All
      /\ Window \in Nat /\ \A p \in Peers!All : x7[p] \in Nat \cup {-1}
  BY PeersAssumption DEF Peers!TypedInv
<1>3. CASE x3' = x3 /\ x7' = x7
  BY <1>1, <1>3 DEF Peers!TypedInv, Peers!FeltInv, Peers!Remembered, Peers!OneEffectAtMost
<1>4. CASE \E p \in Peers!All, n \in Peers!Entries, v \in Nat \cup {-1} :
                   \E t : Counted(p, t, n, v)
  <2>1. PICK p \in Peers!All, n \in Peers!Entries, v \in Nat \cup {-1} :
                 \E r : Counted(p, r, n, v)
    BY <1>4
  <2>2. PICK t : Counted(p, t, n, v)
    BY <2>1
  <2>3. PICK w : w = Peers!With(t, p, n)
    OBVIOUS
  <2>4. PICK f : f = [x7 EXCEPT ![p] = v]
    OBVIOUS
  <2>5. /\ DOMAIN t \subseteq DOMAIN x3 /\ \A q \in DOMAIN t : t[q] = x3[q]
        /\ \A q \in Peers!All : Near(q) /\ q \in DOMAIN x3 /\ Peers!Remembered(q) => q \in DOMAIN t
        /\ x3' = w /\ x7' = f
        /\ v = x7[p] \/ (v = x1 /\ ~Near(p))
        /\ v <= x1 /\ (v >= 0 /\ x1 - v <= Window => Knows(n, v))
    BY <2>2, <2>3, <2>4 DEF Counted
  <2>6. /\ DOMAIN w = DOMAIN t \cup {p} /\ w[p] = n
        /\ \A q \in DOMAIN t : q # p => w[q] = x3[q]
    BY <2>3, <2>5 DEF Peers!With
  <2>7. /\ f \in [Peers!All -> Nat \cup {-1}] /\ f[p] = v
        /\ \A q \in Peers!All : q # p => f[q] = x7[q]
    BY <1>2, <2>4
  <2>8. DOMAIN w \subseteq Peers!All /\ w \in [DOMAIN w -> Peers!Entries]
    <3>1. \A q \in DOMAIN w : w[q] \in Peers!Entries
      BY <1>2, <2>5, <2>6
    <3>2. w = [q \in DOMAIN w |-> w[q]]
      BY <2>3 DEF Peers!With
    <3> QED BY <3>1, <3>2, <1>2, <2>5, <2>6
  <2>9. Peers!TypedInv'
    BY <1>1, <1>2, <2>5, <2>7, <2>8 DEF Peers!TypedInv
  <2>10. ASSUME NEW q \in Peers!All
        PROVE  /\ f[q] <= x1
               /\ f[q] >= 0 /\ x1 - f[q] <= Window /\ ~(q = Self /\ x4.app = Self) =>
                    /\ q \in DOMAIN w /\ w[q].last = f[q] /\ w[q].seen >= f[q]
                    /\ \E i \in DOMAIN w[q].seqs : w[q].seqs[i].at >= f[q]
    <3>1. CASE q = p
      BY <3>1, <2>5, <2>6, <2>7 DEF Knows
    <3>2. CASE q # p
      <4>1. f[q] = x7[q] /\ x7[q] <= x1
        BY <3>2, <2>7 DEF Peers!FeltInv
      <4>2. ASSUME Near(q), ~(q = Self /\ x4.app = Self)
            PROVE  q \in DOMAIN t /\ Peers!Remembered(q)
        <5>1. Peers!Remembered(q)
          BY <4>2 DEF Peers!FeltInv, Near
        <5> QED BY <5>1, <4>2, <2>5 DEF Peers!Remembered
      <4> QED BY <3>2, <4>1, <4>2, <2>6 DEF Near, Peers!Remembered
    <3> QED BY <3>1, <3>2
  <2>11. Peers!FeltInv'
    BY <1>1, <2>5, <2>10 DEF Peers!FeltInv, Peers!Remembered
  <2>12. ASSUME NEW q \in Peers!All, f[q] > x7[q], x7[q] >= 0
         PROVE  f[q] - x7[q] > Window
    <3>1. q = p
      BY <2>7, <2>12, <1>2
    <3>2. CASE v = x7[p]
      BY <2>7, <2>12, <1>2, <3>1, <3>2
    <3>3. CASE v = x1 /\ ~Near(p)
      BY <2>7, <2>12, <1>2, <3>1, <3>3 DEF Near
    <3> QED BY <3>2, <3>3, <2>5
  <2>13. Peers!OneEffectAtMost
    BY <2>5, <2>12 DEF Peers!OneEffectAtMost
  <2> QED BY <2>9, <2>11, <2>13
<1> QED BY <1>1, <1>3, <1>4

\* An identity becomes the own one: its entry goes.
LEMMA HearFelt ==
    ASSUME Peers!SelfInv, Peers!TypedInv, Peers!FeltInv, NEW p \in Peers!All, Peers!Hear(p)
    PROVE  Peers!TypedInv' /\ Peers!FeltInv'
<1>1. /\ UNCHANGED <<x1, x2, x7>> /\ x5' = p
      /\ \/ x3' = x3 /\ x4' = x4
         \/ x4'.app = Self /\ x3' = Peers!Without(x3, Self)
  BY DEF Peers!Hear, Peers!SelfInv
<1>2. CASE x3' = x3 /\ x4' = x4
  BY <1>1, <1>2 DEF Peers!TypedInv, Peers!FeltInv, Peers!Remembered
<1>3. CASE x4'.app = Self /\ x3' = Peers!Without(x3, Self)
  <2>1. PICK w : w = Peers!Without(x3, Self)
    OBVIOUS
  <2>2. DOMAIN w = DOMAIN x3 \ {Self} /\ \A q \in DOMAIN w : w[q] = x3[q]
    BY <2>1 DEF Peers!Without
  <2>3. w \in [DOMAIN w -> Peers!Entries] /\ DOMAIN w \subseteq Peers!All
    <3>1. \A q \in DOMAIN w : w[q] \in Peers!Entries
      BY <2>2 DEF Peers!TypedInv
    <3>2. w = [q \in DOMAIN w |-> w[q]]
      BY <2>1 DEF Peers!Without
    <3> QED BY <3>1, <3>2, <2>2 DEF Peers!TypedInv
  <2>4. Peers!TypedInv'
    BY <1>1, <1>3, <2>1, <2>3 DEF Peers!TypedInv
  <2>5. ASSUME NEW q \in Peers!All
        PROVE  /\ x7[q] <= x1
               /\ x7[q] >= 0 /\ x1 - x7[q] <= Window /\ q # Self =>
                    /\ q \in DOMAIN w /\ w[q].last = x7[q] /\ w[q].seen >= x7[q]
                    /\ \E i \in DOMAIN w[q].seqs : w[q].seqs[i].at >= x7[q]
    BY <2>2 DEF Peers!FeltInv, Peers!Remembered
  <2>6. Peers!FeltInv'
    BY <1>1, <1>3, <2>1, <2>5 DEF Peers!FeltInv, Peers!Remembered
  <2> QED BY <2>4, <2>6
<1> QED BY <1>1, <1>2, <1>3

LEMMA PeersNext ==
    ASSUME Peers!PeersInv, [Peers!Next]_(Peers!vars)
    PROVE  Peers!PeersInv' /\ Peers!OneEffectAtMost
<1>1. Peers!SelfInv /\ Peers!TypedInv /\ Peers!FeltInv
  BY DEF Peers!PeersInv
<1>2. Peers!SelfInv'
  BY <1>1, SelfNext
<1>3. SUFFICES Peers!TypedInv' /\ Peers!FeltInv' /\ Peers!OneEffectAtMost
  BY <1>2 DEF Peers!PeersInv
<1>4. /\ x1 \in Nat /\ \A p \in Peers!All : x7[p] \in Nat \cup {-1}
      /\ Window \in Nat /\ SeqMod \in Nat \ {0}
  BY <1>1, PeersAssumption DEF Peers!TypedInv
<1>5. ASSUME x7' = x7 PROVE Peers!OneEffectAtMost
  BY <1>4, <1>5 DEF Peers!OneEffectAtMost
<1>6. ASSUME UNCHANGED <<x1, x3, x7>>, x4'.app = x4.app,
             x2' \in [Peers!All -> 0..(SeqMod - 1)], x5' \in Peers!All \cup {Peers!Nobody}
      PROVE  Peers!TypedInv' /\ Peers!FeltInv' /\ Peers!OneEffectAtMost
  BY <1>1, <1>5, <1>6 DEF Peers!TypedInv, Peers!FeltInv, Peers!Remembered
<1>7. CASE UNCHANGED Peers!vars
  BY <1>1, <1>6, <1>7 DEF Peers!vars, Peers!TypedInv
<1>8. ASSUME NEW p \in Peers!All, Peers!Hear(p)
      PROVE  Peers!TypedInv' /\ Peers!FeltInv' /\ Peers!OneEffectAtMost
  BY <1>1, <1>5, <1>8, HearFelt DEF Peers!Hear
<1>9. ASSUME NEW p \in Peers!All, Peers!Advertise(p)
      PROVE  Peers!TypedInv' /\ Peers!FeltInv' /\ Peers!OneEffectAtMost
  <2>1. UNCHANGED <<x1, x3, x4, x5, x7>> /\ x2' = [x2 EXCEPT ![p] = (x2[p] + 1) % SeqMod]
    BY <1>9 DEF Peers!Advertise
  <2>2. x2' \in [Peers!All -> 0..(SeqMod - 1)]
    BY <1>1, <1>4, <2>1 DEF Peers!TypedInv
  <2> QED BY <1>1, <1>6, <2>1, <2>2 DEF Peers!TypedInv
<1>10. CASE Peers!Observe
  BY <1>1, <1>10, ObserveFelt
<1>11. CASE Peers!ClearSelf \/ Peers!PublishSelf \/ Peers!TakePending
  <2>1. UNCHANGED <<x1, x2, x3, x5, x7>> /\ x4'.app = x4.app
    BY <1>1, <1>11 DEF Peers!ClearSelf, Peers!PublishSelf, Peers!TakePending, Peers!SelfInv
  <2> QED BY <1>1, <1>6, <2>1 DEF Peers!TypedInv
<1>12. CASE Peers!ScannerResets
  <2>1. /\ x1' = x1 /\ x2' = x2 /\ x3' = Peers!Empty /\ x5' = Peers!Nobody
        /\ x7' = [p \in Peers!All |-> -1]
    BY <1>12 DEF Peers!ScannerResets
  <2>2. Peers!TypedInv'
    BY <1>1, <2>1 DEF Peers!TypedInv, Peers!Empty
  <2>3. Peers!FeltInv' /\ Peers!OneEffectAtMost
    BY <1>4, <2>1 DEF Peers!FeltInv, Peers!OneEffectAtMost
  <2> QED BY <2>2, <2>3
<1>13. CASE Peers!Tick
  <2>1. x1' = x1 + 1 /\ UNCHANGED <<x2, x3, x4, x5, x7>>
    BY <1>13 DEF Peers!Tick
  <2>2. Peers!TypedInv'
    BY <1>1, <2>1 DEF Peers!TypedInv
  <2>3. Peers!FeltInv'
    BY <1>1, <1>4, <2>1 DEF Peers!FeltInv, Peers!Remembered
  <2> QED BY <1>5, <2>1, <2>2, <2>3
<1> QED BY <1>7, <1>8, <1>9, <1>10, <1>11, <1>12, <1>13 DEF Peers!Next

-----------------------------------------------------------------------------
(* The scanner's counters (StatusEvidence): x1 scanner, x2 uart, x3 record, *)
(* x4 seen, x5 told, x6 latest, x7 left.                                    *)
LEMMA EmptyLine ==
    ASSUME NEW S
    PROVE  << >> \in Seq(S) /\ Len(<< >>) = 0
OBVIOUS

LEMMA OneLine ==
    ASSUME NEW S, NEW f \in S
    PROVE  /\ <<f>> \in Seq(S) /\ Len(<<f>>) = 1 /\ <<f>>[1] = f /\ <<f>> # << >>
OBVIOUS

LEMMA FirstOf ==
    ASSUME NEW S, NEW q \in Seq(S), q # << >>
    PROVE  q[1] \in S /\ Head(q) = q[1]
OBVIOUS

\* The scanner's counters and the history of what happened, one field changed.
LEMMA LineSighted ==
    ASSUME NEW S, NEW B, NEW l \in [emits : Nat, last : S, burst : B], NEW e \in Nat, NEW n \in S
    PROVE  [l EXCEPT !.emits = e, !.last = n] \in [emits : Nat, last : S, burst : B]
OBVIOUS

LEMMA LineTold ==
    ASSUME NEW S, NEW B, NEW l \in [emits : Nat, last : S, burst : B], NEW b \in B
    PROVE  [l EXCEPT !.burst = b] \in [emits : Nat, last : S, burst : B]
OBVIOUS

LEMMA LineOf ==
    ASSUME NEW l \in Status!Lines, NEW e \in Nat, NEW n \in 0..Sightings, NEW b \in 0..Attacks
    PROVE  /\ [l EXCEPT !.emits = e, !.last = n] \in Status!Lines
           /\ [l EXCEPT !.burst = b] \in Status!Lines
<1> DEFINE S == 0..Sightings  B == 0..Attacks
<1>1. /\ l \in [emits : Nat, last : S, burst : B] /\ n \in S /\ b \in B
      /\ Status!Lines = [emits : Nat, last : S, burst : B]
  BY DEF Status!Lines
<1> HIDE DEF S, B
<1>2. [l EXCEPT !.emits = e, !.last = n] \in [emits : Nat, last : S, burst : B]
  BY <1>1, LineSighted
<1>3. [l EXCEPT !.burst = b] \in [emits : Nat, last : S, burst : B]
  BY <1>1, LineTold
<1> QED BY <1>1, <1>2, <1>3

LEMMA LineFields ==
    ASSUME NEW l \in Status!Lines
    PROVE  /\ \A e, n : /\ [l EXCEPT !.emits = e, !.last = n].emits = e
                        /\ [l EXCEPT !.emits = e, !.last = n].last = n
                        /\ [l EXCEPT !.emits = e, !.last = n].burst = l.burst
           /\ \A b : /\ [l EXCEPT !.burst = b].emits = l.emits
                     /\ [l EXCEPT !.burst = b].last = l.last
                     /\ [l EXCEPT !.burst = b].burst = b
BY DEF Status!Lines

LEMMA LatestOne ==
    ASSUME NEW h \in [sighting : 0..Sightings, attack : 0..Attacks],
           NEW n \in 0..Sightings, NEW a \in 0..Attacks
    PROVE  /\ [h EXCEPT !.sighting = n] \in [sighting : 0..Sightings, attack : 0..Attacks]
           /\ [h EXCEPT !.sighting = n].sighting = n
           /\ [h EXCEPT !.sighting = n].attack = h.attack
           /\ [h EXCEPT !.attack = a] \in [sighting : 0..Sightings, attack : 0..Attacks]
           /\ [h EXCEPT !.attack = a].sighting = h.sighting
           /\ [h EXCEPT !.attack = a].attack = a
OBVIOUS

LEMMA EchoInitial == Status!Init => Status!EchoInv
<1> SUFFICES ASSUME Status!Init PROVE Status!EchoInv
  OBVIOUS
<1> USE StatusAssumption
<1>1. /\ x1 = [emits |-> 0, last |-> 0, burst |-> 0] /\ x2 = << >> /\ x4 = 0
      /\ x5 = [sightings |-> [i \in 1..Sightings |-> 0], attacks |-> [i \in 1..Attacks |-> 0]]
      /\ x6 = [sighting |-> 0, attack |-> 0]
      /\ x7 = [losses |-> Losses, restarts |-> Restarts, resets |-> Resets]
  BY DEF Status!Init, Status!None
<1>2. x1 \in Status!Lines /\ x2 \in Seq(Status!Lines) /\ Len(x2) <= 1
  BY <1>1, EmptyLine DEF Status!Lines
<1>3. /\ x5 \in [sightings : [1..Sightings -> Nat], attacks : [1..Attacks -> Nat]]
      /\ x6 \in [sighting : 0..Sightings, attack : 0..Attacks]
  BY <1>1
<1>4. /\ \A i \in 1..Sightings : x5.sightings[i] = 0
      /\ \A a \in 1..Attacks : x5.attacks[a] = 0
  BY <1>1
<1>5. Status!TypedInv
  BY <1>1, <1>2, <1>3 DEF Status!TypedInv
<1>6. Status!SightingInv
  BY <1>1, <1>4 DEF Status!SightingInv, Status!None, Status!Used
<1>7. Status!AttackInv
  BY <1>1, <1>4 DEF Status!AttackInv
<1> QED BY <1>5, <1>6, <1>7 DEF Status!EchoInv

LEMMA EchoNext == Status!EchoInv /\ [Status!Next]_(Status!vars) => Status!EchoInv'
<1> SUFFICES ASSUME Status!EchoInv, [Status!Next]_(Status!vars) PROVE Status!EchoInv'
  OBVIOUS
<1> USE StatusAssumption DEF Status!None
<1>1. Status!TypedInv /\ Status!SightingInv /\ Status!AttackInv
  BY DEF Status!EchoInv
<1>2. /\ x1 \in Status!Lines /\ x1.emits \in Nat /\ x1.last \in 0..Sightings
      /\ x1.burst \in 0..Attacks
      /\ x2 \in Seq(Status!Lines) /\ Len(x2) <= 1 /\ x4 \in Nat
      /\ x6.sighting \in 0..Sightings /\ x6.attack \in 0..Attacks
      /\ x7.restarts \in 0..Restarts
      /\ x7 = [losses |-> x7.losses, restarts |-> x7.restarts, resets |-> x7.resets]
      /\ x6 \in [sighting : 0..Sightings, attack : 0..Attacks]
      /\ x5 \in [sightings : [1..Sightings -> Nat], attacks : [1..Attacks -> Nat]]
      /\ \A i \in 1..Sightings : x5.sightings[i] \in Nat
      /\ \A a \in 1..Attacks : x5.attacks[a] \in Nat
  BY <1>1 DEF Status!TypedInv, Status!Lines
<1>3. x2 # << >> => /\ x2[1] \in Status!Lines /\ Head(x2) = x2[1]
                    /\ x2[1].emits \in Nat /\ x2[1].last \in 0..Sightings
                    /\ x2[1].burst \in 0..Attacks
  <2>1. x2 # << >> => x2[1] \in Status!Lines /\ Head(x2) = x2[1]
    BY <1>2, FirstOf
  <2>2. \A f \in Status!Lines : /\ f.emits \in Nat /\ f.last \in 0..Sightings
                                /\ f.burst \in 0..Attacks
    BY DEF Status!Lines
  <2> QED BY <2>1, <2>2
<1>4. 0 \in 0..Attacks
  OBVIOUS
<1>5. Status!Used \in Nat
  BY <1>2 DEF Status!Used
<1>6. CASE UNCHANGED Status!vars
  BY <1>1, <1>6 DEF Status!vars, Status!EchoInv, Status!TypedInv, Status!SightingInv,
     Status!AttackInv, Status!Acted, Status!Used
<1>7. CASE Status!Sight
  <2> DEFINE n == x6.sighting + 1  m == x1.emits + 1
  <2>1. /\ x1' = [x1 EXCEPT !.emits = m, !.last = n]
        /\ x6' = [x6 EXCEPT !.sighting = n]
        /\ n \in 1..Sightings /\ UNCHANGED <<x2, x4, x5, x7>>
    BY <1>2, <1>7 DEF Status!Sight
  <2>2. n = x6.sighting + 1 /\ m = x1.emits + 1 /\ m \in Nat /\ n \in 0..Sightings
    BY <1>2, <2>1, SMTT(60)
  <2> HIDE DEF n, m
  <2>3. /\ x1' \in Status!Lines /\ x1'.emits = m /\ x1'.last = n /\ x1'.burst = x1.burst
    <3>1. x1' \in Status!Lines
      BY <1>2, <2>1, <2>2, <1>4, LineOf
    <3>2. x1'.emits = m /\ x1'.last = n /\ x1'.burst = x1.burst
      BY <1>2, <2>1, LineFields
    <3> QED BY <3>1, <3>2
  <2>4. /\ x6' \in [sighting : 0..Sightings, attack : 0..Attacks]
        /\ x6'.sighting = n /\ x6'.attack = x6.attack
    BY <1>2, <2>1, <2>2, LatestOne
  <2>5. /\ x1' \in Status!Lines /\ x1'.emits = x1.emits + 1 /\ x1'.last = n /\ x1'.burst = x1.burst
        /\ x6' \in [sighting : 0..Sightings, attack : 0..Attacks]
        /\ x6'.sighting = n /\ x6'.attack = x6.attack
    BY <2>3, <2>4, <2>2
  <2>6. Status!TypedInv'
    BY <1>1, <2>1, <2>5 DEF Status!TypedInv
  <2>7. Status!SightingInv'
    <3>1. Status!Used' = Status!Used
      BY <2>1 DEF Status!Used
    <3>2. x2 # << >> => x2[1].last <= x6.sighting
      BY <1>1 DEF Status!SightingInv
    <3>3. ASSUME NEW i \in 1..Sightings
          PROVE  /\ x5.sightings[i] <= 1 + Status!Used
                 /\ i > n => x5.sightings[i] = 0
                 /\ x5.sightings[i] > Status!Used =>
                      /\ n = i => x1'.emits <= x4
                      /\ x2 # << >> => (x2[1].last = i => x2[1].emits <= x4)
                 /\ x5.sightings[i] > 0 /\ n = i /\ x2 # << >> => x2[1].last = i
      <4>1. /\ x5.sightings[i] <= 1 + Status!Used /\ x5.sightings[i] \in Nat
            /\ i > x6.sighting => x5.sightings[i] = 0
            /\ x5.sightings[i] > Status!Used =>
                 (x2 # << >> => (x2[1].last = i => x2[1].emits <= x4))
        BY <1>1, <1>2 DEF Status!SightingInv, Status!Acted
      <4>2. n = i => x5.sightings[i] = 0
        BY <4>1, <2>2, <1>2
      <4>3. i > n => x5.sightings[i] = 0
        BY <4>1, <2>2, <1>2
      <4> QED BY <4>1, <4>2, <4>3, <1>5
    <3>4. x2 # << >> => x2[1].last <= n /\ x2[1].last # n
      BY <3>2, <1>2, <1>3, <2>2, SMTT(60)
    <3> QED BY <2>1, <2>5, <3>1, <3>3, <3>4 DEF Status!SightingInv, Status!Acted
  <2>8. Status!AttackInv'
    BY <1>1, <2>1, <2>5 DEF Status!AttackInv
  <2> QED BY <2>6, <2>7, <2>8 DEF Status!EchoInv
<1>8. CASE Status!Attack
  <2> DEFINE n == x6.attack + 1
  <2>1. /\ x1' = [x1 EXCEPT !.burst = n] /\ x6' = [x6 EXCEPT !.attack = n]
        /\ n \in 1..Attacks /\ UNCHANGED <<x2, x4, x5, x7>>
    BY <1>2, <1>8 DEF Status!Attack
  <2>2. n = x6.attack + 1 /\ n \in 0..Attacks
    BY <1>2, <2>1
  <2> HIDE DEF n
  <2>3. /\ x1' \in Status!Lines /\ x1'.emits = x1.emits /\ x1'.last = x1.last /\ x1'.burst = n
    <3>1. x1' \in Status!Lines
      BY <1>2, <2>1, <2>2, LineOf
    <3>2. x1'.emits = x1.emits /\ x1'.last = x1.last /\ x1'.burst = n
      BY <1>2, <2>1, LineFields
    <3> QED BY <3>1, <3>2
  <2>4. /\ x6' \in [sighting : 0..Sightings, attack : 0..Attacks]
        /\ x6'.sighting = x6.sighting /\ x6'.attack = n
    BY <1>2, <2>1, <2>2, LatestOne
  <2>5. /\ x1' \in Status!Lines /\ x1'.emits = x1.emits /\ x1'.last = x1.last /\ x1'.burst = n
        /\ x6' \in [sighting : 0..Sightings, attack : 0..Attacks]
        /\ x6'.sighting = x6.sighting /\ x6'.attack = n
    BY <2>3, <2>4
  <2>6. Status!TypedInv'
    BY <1>1, <2>1, <2>5 DEF Status!TypedInv
  <2>7. Status!SightingInv'
    BY <1>1, <2>1, <2>5 DEF Status!SightingInv, Status!Acted, Status!Used
  <2>8. Status!AttackInv'
    <3>1. /\ x1.burst <= x6.attack /\ (x2 # << >> => x2[1].burst <= x6.attack)
      BY <1>1 DEF Status!AttackInv
    <3>2. /\ n <= n /\ (x2 # << >> => x2[1].burst <= n /\ x2[1].burst # n)
      BY <3>1, <1>2, <1>3, <2>2
    <3>3. ASSUME NEW a \in 1..Attacks
          PROVE  /\ x5.attacks[a] <= 1
                 /\ a > n => x5.attacks[a] = 0
                 /\ n = a => x5.attacks[a] = 0
                 /\ x2 # << >> /\ x2[1].burst = a => x5.attacks[a] = 0
      <4>1. /\ x5.attacks[a] <= 1 /\ (a > x6.attack => x5.attacks[a] = 0)
            /\ x2 # << >> /\ x2[1].burst = a => x5.attacks[a] = 0
        BY <1>1 DEF Status!AttackInv
      <4> QED BY <4>1, <1>2, <2>2, SMTT(60)
    <3> QED BY <2>1, <2>5, <3>2, <3>3 DEF Status!AttackInv
  <2> QED BY <2>6, <2>7, <2>8 DEF Status!EchoInv
<1>9. CASE Status!SendStatus
  <2> DEFINE f == [emits |-> x1.emits, last |-> x1.last, burst |-> x1.burst]
  <2>1. /\ x2' = <<f>> /\ x1' = [x1 EXCEPT !.burst = 0] /\ UNCHANGED <<x4, x5, x6, x7>>
        /\ x2 = << >>
    BY <1>9 DEF Status!SendStatus, Status!BurstTold
  <2>2. /\ f \in Status!Lines /\ f.emits = x1.emits /\ f.last = x1.last /\ f.burst = x1.burst
    BY <1>2 DEF Status!Lines
  <2> HIDE DEF f
  <2>3. x2' \in Seq(Status!Lines) /\ Len(x2') = 1 /\ x2'[1] = f /\ x2' # << >>
    BY <2>1, <2>2, OneLine
  <2>4. x1' \in Status!Lines /\ x1'.emits = x1.emits /\ x1'.last = x1.last /\ x1'.burst = 0
    <3>1. x1' \in Status!Lines
      BY <1>2, <2>1, <1>4, LineOf
    <3>2. x1'.emits = x1.emits /\ x1'.last = x1.last /\ x1'.burst = 0
      BY <1>2, <2>1, LineFields
    <3> QED BY <3>1, <3>2
  <2>5. Status!TypedInv'
    BY <1>1, <2>1, <2>3, <2>4 DEF Status!TypedInv
  <2>6. Status!SightingInv'
    BY <1>1, <1>2, <2>1, <2>2, <2>3, <2>4, SMTT(60) DEF Status!SightingInv, Status!Acted, Status!Used
  <2>7. Status!AttackInv'
    BY <1>1, <1>2, <2>1, <2>2, <2>3, <2>4 DEF Status!AttackInv
  <2> QED BY <2>5, <2>6, <2>7 DEF Status!EchoInv
<1>10. CASE Status!SendInfo
  <2> DEFINE f == [emits |-> x1.emits, last |-> x1.last, burst |-> 0]
  <2>1. x2' = <<f>> /\ UNCHANGED <<x1, x4, x5, x6, x7>> /\ x2 = << >>
    BY <1>10 DEF Status!SendInfo
  <2>2. /\ f \in Status!Lines /\ f.emits = x1.emits /\ f.last = x1.last /\ f.burst = 0
    BY <1>2 DEF Status!Lines
  <2> HIDE DEF f
  <2>3. x2' \in Seq(Status!Lines) /\ Len(x2') = 1 /\ x2'[1] = f /\ x2' # << >>
    BY <2>1, <2>2, OneLine
  <2>4. Status!TypedInv'
    BY <1>1, <2>1, <2>3 DEF Status!TypedInv
  <2>5. Status!SightingInv'
    BY <1>1, <1>2, <2>1, <2>2, <2>3 DEF Status!SightingInv, Status!Acted, Status!Used
  <2>6. Status!AttackInv'
    BY <1>1, <1>2, <2>1, <2>2, <2>3 DEF Status!AttackInv
  <2> QED BY <2>4, <2>5, <2>6 DEF Status!EchoInv
<1>11. CASE Status!Reset
  <2>1. /\ x1' = [emits |-> 0, last |-> 0, burst |-> 0]
        /\ x7' = [x7 EXCEPT !.resets = x7.resets - 1] /\ UNCHANGED <<x2, x4, x5, x6>>
    BY <1>11 DEF Status!Reset
  <2>2. /\ x1' \in Status!Lines /\ x1'.emits = 0 /\ x1'.last = 0 /\ x1'.burst = 0
    BY <2>1 DEF Status!Lines
  <2>3. /\ x7' = [losses |-> x7'.losses, restarts |-> x7'.restarts, resets |-> x7'.resets]
        /\ x7'.restarts = x7.restarts
    BY <1>2, <2>1
  <2>4. Status!TypedInv'
    BY <1>1, <1>2, <2>1, <2>2, <2>3 DEF Status!TypedInv
  <2>5. Status!SightingInv'
    BY <1>1, <1>2, <1>3, <2>1, <2>2, <2>3 DEF Status!SightingInv, Status!Acted, Status!Used
  <2>6. Status!AttackInv'
    BY <1>1, <1>2, <2>1, <2>2 DEF Status!AttackInv
  <2> QED BY <2>4, <2>5, <2>6 DEF Status!EchoInv
<1>12. CASE Status!Lose
  <2>1. /\ x7' = [x7 EXCEPT !.losses = x7.losses - 1] /\ x2' = << >> /\ UNCHANGED <<x1, x4, x5, x6>>
    BY <1>12 DEF Status!Lose
  <2>2. /\ x7' = [losses |-> x7'.losses, restarts |-> x7'.restarts, resets |-> x7'.resets]
        /\ x7'.restarts = x7.restarts
    BY <1>2, <2>1
  <2>3. x2' \in Seq(Status!Lines) /\ Len(x2') = 0
    BY <2>1, EmptyLine
  <2>4. Status!TypedInv'
    BY <1>1, <1>2, <2>1, <2>2, <2>3 DEF Status!TypedInv
  <2>5. Status!SightingInv'
    BY <1>1, <2>1, <2>2 DEF Status!SightingInv, Status!Acted, Status!Used
  <2>6. Status!AttackInv'
    BY <1>1, <2>1 DEF Status!AttackInv
  <2> QED BY <2>4, <2>5, <2>6 DEF Status!EchoInv
<1>13. CASE Status!Receive
  <2> DEFINE f == x2[1]  r == Status!Recorded(f)
  <2>1. /\ x2 # << >> /\ x2' = << >> /\ x5' = Status!Raised(r, f) /\ x4' = r.emits
        /\ UNCHANGED <<x1, x6, x7>>
    BY <1>3, <1>13 DEF Status!Receive, Status!SeenNow
  <2>2. r.emits = f.emits /\ r.last = f.last
    BY DEF Status!Recorded
  <2>3. /\ f.emits \in Nat /\ f.last \in 0..Sightings /\ f.burst \in 0..Attacks
    BY <1>3, <2>1
  <2> DEFINE drone == r.emits > x4 /\ r.age <= ShownFor
             S == [i \in 1..Sightings |-> x5.sightings[i] + (IF drone /\ r.last = i THEN 1 ELSE 0)]
             A == [a \in 1..Attacks |-> x5.attacks[a] + (IF f.burst = a THEN 1 ELSE 0)]
  <2>4. x5' = [sightings |-> S, attacks |-> A]
    BY <2>1 DEF Status!Raised
  <2>5. /\ S \in [1..Sightings -> Nat] /\ A \in [1..Attacks -> Nat]
    BY <1>2, SMTT(60)
  <2>6. /\ \A i \in 1..Sightings :
             /\ S[i] \in {x5.sightings[i], x5.sightings[i] + 1}
             /\ S[i] # x5.sightings[i] => f.emits > x4 /\ f.last = i
        /\ \A a \in 1..Attacks : A[a] = x5.attacks[a] + (IF f.burst = a THEN 1 ELSE 0)
    BY <1>2, <2>2
  <2> HIDE DEF S, A, drone, r
  <2>7. /\ x5' \in [sightings : [1..Sightings -> Nat], attacks : [1..Attacks -> Nat]]
        /\ x5'.sightings = S /\ x5'.attacks = A
    BY <2>4, <2>5
  <2>8. x2' \in Seq(Status!Lines) /\ Len(x2') = 0
    BY <2>1, EmptyLine
  <2>9. Status!TypedInv'
    BY <1>1, <1>2, <2>1, <2>2, <2>3, <2>7, <2>8 DEF Status!TypedInv
  <2>10. Status!SightingInv'
    <3>1. /\ x1.last \in {0, x6.sighting}
          /\ f.last <= x6.sighting
          /\ f.last = x1.last /\ f.last # 0 => f.emits = x1.emits
      BY <1>1, <2>1 DEF Status!SightingInv
    <3>2. ASSUME NEW i \in 1..Sightings
          PROVE  /\ S[i] <= 1 + Status!Used
                 /\ i > x6.sighting => S[i] = 0
                 /\ S[i] > Status!Used /\ x1.last = i => x1.emits <= f.emits
      <4>1. /\ x5.sightings[i] <= 1 + Status!Used /\ x5.sightings[i] \in Nat
            /\ i > x6.sighting => x5.sightings[i] = 0
            /\ x5.sightings[i] > Status!Used => (f.last = i => f.emits <= x4)
            /\ x5.sightings[i] > 0 /\ x1.last = i => f.last = i
        BY <1>1, <1>2, <2>1 DEF Status!SightingInv, Status!Acted
      <4>2. /\ S[i] \in {x5.sightings[i], x5.sightings[i] + 1}
            /\ S[i] # x5.sightings[i] => f.emits > x4 /\ f.last = i
        BY <2>6
      <4> DEFINE was == x5.sightings[i]  is == S[i]  e == f.emits
      <4>3. was \in Nat /\ is \in {was, was + 1} /\ e \in Nat /\ x1.emits \in Nat
        BY <4>1, <4>2, <2>3, <1>2
      <4>4. is # was => was <= Status!Used /\ f.last = i
        <5>1. is # was => e > x4 /\ f.last = i
          BY <4>2
        <5>2. was > Status!Used => (f.last = i => e <= x4)
          BY <4>1
        <5> QED BY <5>1, <5>2, <4>3, <1>2, <1>5, SMTT(60)
      <4>5. S[i] <= 1 + Status!Used
        BY <4>1, <4>3, <4>4, <1>5
      <4>6. i > x6.sighting => S[i] = 0
        BY <4>1, <4>2, <3>1, <1>2, SMTT(60)
      <4>7. S[i] > Status!Used /\ x1.last = i => x1.emits <= f.emits
        <5>1. is > Status!Used => was > 0 \/ f.last = i
          BY <4>3, <4>4, <1>5
        <5>2. is > Status!Used /\ x1.last = i => f.last = i
          BY <5>1, <4>1
        <5> QED BY <5>2, <3>1, <4>3
      <4> QED BY <4>5, <4>6, <4>7
    <3>3. Status!Used' = Status!Used
      BY <2>1 DEF Status!Used
    <3> QED BY <2>1, <2>2, <2>7, <3>1, <3>2, <3>3 DEF Status!SightingInv, Status!Acted
  <2>11. Status!AttackInv'
    <3>1. ASSUME NEW a \in 1..Attacks
          PROVE  /\ A[a] <= 1 /\ (a > x6.attack => A[a] = 0) /\ (x1.burst = a => A[a] = 0)
      <4>1. /\ x5.attacks[a] <= 1 /\ x5.attacks[a] \in Nat
            /\ a > x6.attack => x5.attacks[a] = 0
            /\ x1.burst = a => x5.attacks[a] = 0 /\ f.burst # a
            /\ f.burst = a => x5.attacks[a] = 0
            /\ f.burst <= x6.attack
        BY <1>1, <1>2, <2>1 DEF Status!AttackInv
      <4>2. A[a] = x5.attacks[a] + (IF f.burst = a THEN 1 ELSE 0)
        BY <2>6
      <4> QED BY <4>1, <4>2, <1>2, <2>3, SMTT(60)
    <3> QED BY <1>1, <2>1, <2>7, <3>1 DEF Status!AttackInv
  <2> QED BY <2>9, <2>10, <2>11 DEF Status!EchoInv
<1>14. CASE Status!Tick
  BY <1>1, <1>14 DEF Status!Tick, Status!EchoInv, Status!TypedInv, Status!SightingInv,
     Status!AttackInv, Status!Acted, Status!Used
<1>15. CASE Status!Restart
  <2>1. /\ x7' = [x7 EXCEPT !.restarts = x7.restarts - 1] /\ x7.restarts > 0
        /\ x2' = << >> /\ x4' = 0 /\ UNCHANGED <<x1, x5, x6>>
    BY <1>15 DEF Status!Restart
  <2>2. /\ x7' = [losses |-> x7'.losses, restarts |-> x7'.restarts, resets |-> x7'.resets]
        /\ x7'.restarts = x7.restarts - 1
    BY <1>2, <2>1
  <2>3. x2' \in Seq(Status!Lines) /\ Len(x2') = 0
    BY <2>1, EmptyLine
  <2>4. Status!TypedInv'
    BY <1>1, <1>2, <2>1, <2>2, <2>3 DEF Status!TypedInv
  <2>5. Status!Used' = Status!Used + 1
    BY <1>2, <2>2 DEF Status!Used
  <2>6. Status!SightingInv'
    BY <1>1, <1>2, <1>5, <2>1, <2>2, <2>5, SMTT(60) DEF Status!SightingInv
  <2>7. Status!AttackInv'
    BY <1>1, <2>1 DEF Status!AttackInv
  <2> QED BY <2>4, <2>6, <2>7 DEF Status!EchoInv
<1> QED BY <1>6, <1>7, <1>8, <1>9, <1>10, <1>11, <1>12, <1>13, <1>14, <1>15 DEF Status!Next

LEMMA EchoNone == Status!EchoInv => Status!NoEcho
BY DEF Status!EchoInv, Status!SightingInv, Status!AttackInv, Status!NoEcho, Status!Used,
   Status!TypedInv

-----------------------------------------------------------------------------
(* What the scanner tells (WifiReports): x1 now, x2 left, x3 ring, x4 budget, *)
(* x5 track, x6 ctx, x7 told, x8 past, x9 verdict.  The last signals of a    *)
(* name, and what the tracker's slot keeps of them.                         *)
LEMMA LatestOf ==
    ASSUME NEW q \in Seq(Int), NEW n \in Nat
    PROVE  /\ Wifi!Latest(q, n) \in Seq(Int)
           /\ Len(Wifi!Latest(q, n)) = IF Len(q) > n THEN n ELSE Len(q)
           /\ Wifi!Suffix(Wifi!Latest(q, n), q)
<1>1. CASE Len(q) > n
  <2>1. PICK m : m = Len(q) - n + 1
    OBVIOUS
  <2>2. Len(q) \in Nat /\ m \in Int /\ m > 0 /\ m <= Len(q) + 1
    BY <1>1, <2>1
  <2> DEFINE s == SubSeq(q, m, Len(q))
  <2>3. /\ s \in Seq(Int) /\ Len(s) = IF m <= Len(q) THEN Len(q) - m + 1 ELSE 0
        /\ \A i \in 1..(Len(q) - m + 1) : s[i] = q[m + i - 1]
    <3>1. \A i \in m..Len(q) : q[i] \in Int
      BY <2>2, ElementOfSeq
    <3> QED BY <2>2, <3>1, SubSeqProperties
  <2>4. Len(s) = n
    BY <2>1, <2>2, <2>3
  <2>5. Wifi!Latest(q, n) = s
    BY <1>1, <2>1 DEF Wifi!Latest
  <2> HIDE DEF s
  <2>6. \A k \in 1..n : s[k] = q[Len(q) - n + k]
    BY <2>1, <2>2, <2>3
  <2>7. n <= Len(q)
    BY <1>1, <2>2
  <2>8. Wifi!Suffix(s, q)
    BY <2>4, <2>6, <2>7 DEF Wifi!Suffix
  <2> QED BY <1>1, <2>3, <2>4, <2>5, <2>8
<1>2. CASE ~(Len(q) > n)
  BY <1>2 DEF Wifi!Latest, Wifi!Suffix
<1> QED BY <1>1, <1>2

LEMMA SuffixLatest ==
    ASSUME NEW u \in Seq(Int), NEW v \in Seq(Int), NEW n \in Nat, Wifi!Suffix(u, v)
    PROVE  Wifi!Suffix(Wifi!Latest(u, n), Wifi!Latest(v, n))
<1> DEFINE a == Wifi!Latest(u, n)  b == Wifi!Latest(v, n)
<1>1. /\ Len(a) = (IF Len(u) > n THEN n ELSE Len(u)) /\ Wifi!Suffix(a, u)
      /\ Len(b) = (IF Len(v) > n THEN n ELSE Len(v)) /\ Wifi!Suffix(b, v)
  BY LatestOf
<1> HIDE DEF a, b
<1>2. Len(u) \in Nat /\ Len(v) \in Nat /\ Len(u) <= Len(v) /\ Len(a) \in Nat /\ Len(b) \in Nat
      /\ Len(a) <= Len(b) /\ Len(a) <= Len(u) /\ Len(b) <= Len(v)
      /\ Len(u) - Len(a) >= 0 /\ Len(b) - Len(a) >= 0
  BY <1>1 DEF Wifi!Suffix
<1>3. ASSUME NEW k \in 1..Len(a) PROVE a[k] = b[Len(b) - Len(a) + k]
  <2>1. a[k] = u[Len(u) - Len(a) + k]
    BY <1>1 DEF Wifi!Suffix
  <2> DEFINE i == Len(u) - Len(a) + k  j == Len(b) - Len(a) + k
  <2>2. i \in 1..Len(u) /\ j \in 1..Len(b) /\ Len(v) - Len(u) + i = Len(v) - Len(b) + j
    BY <1>2
  <2> HIDE DEF i, j
  <2>3. u[i] = v[Len(v) - Len(u) + i]
    BY <2>2 DEF Wifi!Suffix
  <2>4. b[j] = v[Len(v) - Len(b) + j]
    BY <2>2, <1>1 DEF Wifi!Suffix
  <2> QED BY <2>1, <2>2, <2>3, <2>4 DEF i, j
<1> QED BY <1>2, <1>3 DEF Wifi!Suffix, a, b

LEMMA SuffixAppend ==
    ASSUME NEW u \in Seq(Int), NEW v \in Seq(Int), NEW x \in Int, Wifi!Suffix(u, v)
    PROVE  Wifi!Suffix(Append(u, x), Append(v, x))
<1>1. /\ Len(u) \in Nat /\ Len(v) \in Nat /\ Len(u) <= Len(v)
      /\ Len(Append(u, x)) = Len(u) + 1 /\ Len(Append(v, x)) = Len(v) + 1
      /\ \A i \in 1..Len(u) : Append(u, x)[i] = u[i]
      /\ \A i \in 1..Len(v) : Append(v, x)[i] = v[i]
      /\ Append(u, x)[Len(u) + 1] = x /\ Append(v, x)[Len(v) + 1] = x
  BY AppendProperties DEF Wifi!Suffix
<1>2. ASSUME NEW k \in 1..(Len(u) + 1)
      PROVE  Append(u, x)[k] = Append(v, x)[Len(v) - Len(u) + k]
  <2>1. CASE k = Len(u) + 1
    <3>1. Len(v) - Len(u) + k = Len(v) + 1
      BY <2>1, <1>1
    <3> QED BY <3>1, <2>1, <1>1
  <2>2. CASE k \in 1..Len(u)
    <3>1. u[k] = v[Len(v) - Len(u) + k]
      BY <2>2 DEF Wifi!Suffix
    <3>2. Len(v) - Len(u) + k \in 1..Len(v)
      BY <2>2, <1>1
    <3> QED BY <3>1, <3>2, <2>2, <1>1
  <2>3. k = Len(u) + 1 \/ k \in 1..Len(u)
    BY <1>1
  <2> QED BY <2>1, <2>2, <2>3
<1>3. (Len(v) + 1) - (Len(u) + 1) = Len(v) - Len(u)
  BY <1>1
<1>4. Len(u) + 1 <= Len(v) + 1
  BY <1>1
<1> QED BY <1>1, <1>2, <1>3, <1>4 DEF Wifi!Suffix

LEMMA SuffixMoved ==
    ASSUME NEW u \in Seq(Int), NEW v \in Seq(Int), Wifi!Suffix(u, v), Wifi!Moved(u)
    PROVE  Wifi!Moved(v)
<1>1. PICK i \in DOMAIN u, j \in DOMAIN u : u[i] - u[j] >= MoveMin
  BY DEF Wifi!Moved
<1>2. /\ Len(u) \in Nat /\ Len(v) \in Nat /\ Len(u) <= Len(v) /\ Len(u) >= 3
      /\ DOMAIN u = 1..Len(u) /\ DOMAIN v = 1..Len(v)
  <2>1. Len(u) \in Nat /\ DOMAIN u = 1..Len(u)
    OBVIOUS
  <2>2. Len(v) \in Nat /\ DOMAIN v = 1..Len(v)
    OBVIOUS
  <2>3. Len(u) <= Len(v)
    BY DEF Wifi!Suffix
  <2>4. Len(u) >= 3
    BY DEF Wifi!Moved
  <2> QED BY <2>1, <2>2, <2>3, <2>4
<1> DEFINE a == Len(v) - Len(u) + i  b == Len(v) - Len(u) + j
<1>3. a \in DOMAIN v /\ b \in DOMAIN v
  BY <1>2, SMTT(60)
<1>4. u[i] = v[a] /\ u[j] = v[b]
  BY <1>2 DEF Wifi!Suffix
<1> HIDE DEF a, b
<1>5. v[a] - v[b] >= MoveMin
  BY <1>1, <1>4
<1>6. Len(v) >= 3
  BY <1>2
<1> QED BY <1>3, <1>5, <1>6 DEF Wifi!Moved

LEMMA FrameOf ==
    ASSUME NEW f \in Air
    PROVE  /\ f.lane \in Wifi!Lanes /\ f.key \in Wifi!Keys /\ f.key # "" /\ f.level \in Int
           /\ Wifi!Interval(f) <= Period
           /\ \A g \in Air : f.lane = g.lane /\ f.key = g.key
                  => (Wifi!Ordinary(f) <=> Wifi!Ordinary(g))
<1>1. f.lane \in Wifi!Lanes /\ f.key # "" /\ f.level \in Int
  BY WifiAssumption DEF Wifi!Lanes
<1>2. Period \in Nat /\ Brief \in 0..Period
  BY WifiAssumption
<1>3. f.key \in Wifi!Keys
  BY DEF Wifi!Keys
<1>4. Wifi!Interval(f) <= Period
  <2>1. Wifi!Interval(f) \in {Brief, Period}
    BY DEF Wifi!Interval
  <2>2. Brief <= Period /\ Period <= Period
    BY <1>2
  <2> QED BY <2>1, <2>2
<1>5. ASSUME NEW g \in Air, f.lane = g.lane, f.key = g.key
      PROVE  Wifi!Ordinary(f) <=> Wifi!Ordinary(g)
  BY <1>5, WifiAssumption DEF Wifi!Ordinary, Wifi!Named
<1> QED BY <1>1, <1>3, <1>4, <1>5

LEMMA FirstOfMine ==
    ASSUME NEW S, S \subseteq Nat, S # {}
    PROVE  Wifi!Min(S) \in S
BY LeastOf DEF Wifi!Min

\* A table of rings with one place to write next changed.
LEMMA RingNext ==
    ASSUME NEW L, NEW I, NEW S, NEW N, NEW r \in [L -> [entry : [I -> S], next : N]],
           NEW l \in L, NEW n \in N
    PROVE  /\ [r EXCEPT ![l].next = n] \in [L -> [entry : [I -> S], next : N]]
           /\ \A m \in L : [r EXCEPT ![l].next = n][m].entry = r[m].entry
<1> DEFINE b == [r[l] EXCEPT !.next = n]
<1>1. r[l] \in [entry : [I -> S], next : N]
  OBVIOUS
<1>2. b \in [entry : [I -> S], next : N] /\ b.entry = r[l].entry
  BY <1>1
<1>3. [r EXCEPT ![l].next = n] = [r EXCEPT ![l] = b]
  OBVIOUS
<1> HIDE DEF b
<1>4. \A m \in L : [r EXCEPT ![l] = b][m] = IF m = l THEN b ELSE r[m]
  OBVIOUS
<1> QED BY <1>2, <1>3, <1>4

\* What a context that is at work has in hand.
LEMMA WorkingOf ==
    ASSUME NEW w \in {Wifi!Idle} \cup Wifi!Working, w.pc # "idle"
    PROVE  w \in Wifi!Working /\ w.frame \in Air
BY DEF Wifi!Idle, Wifi!Working

LEMMA WorkOf ==
    ASSUME NEW f \in Air, NEW p \in {"track", "look", "write", "advance"}
    PROVE  /\ [pc |-> p, frame |-> f] \in {Wifi!Idle} \cup Wifi!Working
           /\ Wifi!Idle \in {Wifi!Idle} \cup Wifi!Working
           /\ [pc |-> p, frame |-> f].pc = p /\ [pc |-> p, frame |-> f].frame = f
           /\ Wifi!Idle.pc = "idle"
BY DEF Wifi!Idle, Wifi!Working

ToldOf(f) == [x7 EXCEPT ![f.key] = @ \cup {[level |-> f.level, at |-> x1]}]
CtxOf(c, w) == [x6 EXCEPT ![c] = w]
Busy(f, p) == [pc |-> p, frame |-> f]

LEMMA TellOf ==
    ASSUME Wifi!TypedInv, NEW f \in Air
    PROVE  /\ ToldOf(f) \in [Wifi!Keys -> SUBSET Wifi!Samplings]
           /\ \A k \in Wifi!Keys : x7[k] \subseteq ToldOf(f)[k]
           /\ [level |-> f.level, at |-> x1] \in ToldOf(f)[f.key]
<1> DEFINE s == [level |-> f.level, at |-> x1]
<1>1. s \in Wifi!Samplings
  BY FrameOf DEF Wifi!TypedInv, Wifi!Samplings
<1>2. x7 \in [Wifi!Keys -> SUBSET Wifi!Samplings] /\ f.key \in Wifi!Keys
  BY FrameOf DEF Wifi!TypedInv
<1>3. ToldOf(f) = [x7 EXCEPT ![f.key] = @ \cup {s}]
  BY DEF ToldOf
<1> HIDE DEF s
<1>4. \A k \in Wifi!Keys : ToldOf(f)[k] = IF k = f.key THEN x7[k] \cup {s} ELSE x7[k]
  BY <1>2, <1>3
<1>5. ToldOf(f) \in [Wifi!Keys -> SUBSET Wifi!Samplings]
  BY <1>1, <1>2, <1>3
<1> QED BY <1>2, <1>4, <1>5 DEF s

LEMMA WifiInitial == Wifi!Init => Wifi!ReportsInv
<1> SUFFICES ASSUME Wifi!Init PROVE Wifi!ReportsInv
  OBVIOUS
<1>1. /\ x1 = 1 /\ x5 = << >> /\ x6 = [c \in Wifi!Contexts |-> Wifi!Idle]
      /\ x3 = [l \in Wifi!Lanes |-> [entry |-> [i \in 1..WifiSlots |-> Wifi!Blank], next |-> 1]]
      /\ x7 = [k \in Wifi!Keys |-> {}] /\ x8 = [k \in Wifi!Keys |-> << >>] /\ x9 = Wifi!Nothing
  BY DEF Wifi!Init
<1>2. Wifi!TypedInv
  <2>1. Wifi!Blank \in Wifi!Slot
    BY DEF Wifi!Blank, Wifi!Slot
  <2>2. 1 \in 1..WifiSlots
    <3>1. WifiSlots \in Nat \ {0}
      BY WifiAssumption
    <3> QED BY <3>1
  <2>3. x3 \in [Wifi!Lanes -> [entry : [1..WifiSlots -> Wifi!Slot], next : 1..WifiSlots]]
    BY <1>1, <2>1, <2>2
  <2>4. x5 \in Seq([key : Wifi!Keys, heard : Seq(Int)]) /\ << >> \in Seq(Int)
    BY <1>1, EmptySeq
  <2>5. /\ x6 \in [Wifi!Contexts -> {Wifi!Idle} \cup Wifi!Working]
        /\ x7 \in [Wifi!Keys -> SUBSET Wifi!Samplings] /\ x8 \in [Wifi!Keys -> Seq(Int)]
    BY <1>1, <2>4
  <2> QED BY <1>1, <2>3, <2>4, <2>5 DEF Wifi!TypedInv
<1>3. Wifi!LimiterInv
  <2> SUFFICES ASSUME NEW f \in Air, NEW i \in 1..WifiSlots
               PROVE  x3[f.lane].entry[i].key # f.key
    BY DEF Wifi!LimiterInv
  <2> QED BY <1>1, FrameOf DEF Wifi!Blank
<1>4. Wifi!TrackerInv
  BY <1>1, EmptySeq DEF Wifi!TrackerInv
<1>5. Wifi!HushedWasTold /\ Wifi!MovesMeansMoved
  BY <1>1 DEF Wifi!HushedWasTold, Wifi!MovesMeansMoved, Wifi!Nothing
<1> QED BY <1>2, <1>3, <1>4, <1>5 DEF Wifi!ReportsInv

\* The sampled signals, and the slots the tracker keeps them in: a new one goes
\* to its name's slot, to a free one, or to the first.
LEMMA SamplesNext ==
    ASSUME Wifi!TypedInv, Wifi!TrackerInv, NEW f \in Air
    PROVE  LET t == Wifi!Tracked(f)
               p == [x8 EXCEPT ![f.key] = Wifi!Latest(Append(@, f.level), Samples)]
           IN  /\ t.table \in Seq([key : Wifi!Keys, heard : Seq(Int)])
               /\ p \in [Wifi!Keys -> Seq(Int)]
               /\ \A i \in DOMAIN t.table :
                     /\ Wifi!Suffix(t.table[i].heard, p[t.table[i].key])
                     /\ \A j \in DOMAIN t.table : t.table[i].key = t.table[j].key => i = j
               /\ t.moved => Wifi!Moved(p[f.key])
<1> DEFINE S == [key : Wifi!Keys, heard : Seq(Int)]
           mine == {i \in DOMAIN x5 : x5[i].key = f.key}
           i == IF mine # {} THEN Wifi!Min(mine)
                ELSE IF Len(x5) < Tracks THEN Len(x5) + 1 ELSE 1
           slot == IF i \in mine THEN x5[i]
                   ELSE Wifi!Starts(f, IF i <= Len(x5) THEN x5[i] ELSE [heard |-> <<>>])
           new == [slot EXCEPT !.heard = Wifi!Latest(Append(@, f.level), Samples)]
           table == IF i > Len(x5) THEN Append(x5, new) ELSE [x5 EXCEPT ![i] = new]
           p == [x8 EXCEPT ![f.key] = Wifi!Latest(Append(@, f.level), Samples)]
<1>1. Wifi!Tracked(f) = [table |-> table, moved |-> Wifi!Moved(new.heard)]
  BY DEF Wifi!Tracked
<1>2. /\ x5 \in Seq(S) /\ x8 \in [Wifi!Keys -> Seq(Int)] /\ Len(x5) \in Nat
      /\ DOMAIN x5 = 1..Len(x5) /\ f.key \in Wifi!Keys /\ f.level \in Int /\ Samples \in Nat
      /\ \A j \in 1..Len(x5) : x5[j] \in S
  <2>1. x5 \in Seq(S) /\ x8 \in [Wifi!Keys -> Seq(Int)]
    BY DEF Wifi!TypedInv
  <2>2. Samples \in Nat
    BY WifiAssumption
  <2> HIDE DEF S
  <2> QED BY <2>1, <2>2, FrameOf, LenProperties, ElementOfSeq
<1>3. mine # {} => i \in mine
  <2>1. mine \subseteq Nat
    BY <1>2
  <2> QED BY <2>1, FirstOfMine
<1>4. /\ slot \in S /\ slot.key = f.key /\ Wifi!Suffix(slot.heard, x8[f.key])
  <2>1. CASE i \in mine
    <3>1. slot = x5[i] /\ i \in DOMAIN x5 /\ x5[i].key = f.key
      BY <2>1
    <3> QED BY <3>1, <1>2, ZenonT(60) DEF Wifi!TrackerInv
  <2>2. CASE i \notin mine
    <3>1. slot = [key |-> f.key, heard |-> <<>>]
      BY <2>2 DEF Wifi!Starts
    <3>2. <<>> \in Seq(Int) /\ Len(<<>>) = 0
      BY EmptySeq
    <3>3. Wifi!Suffix(<<>>, x8[f.key])
      BY <3>2, <1>2 DEF Wifi!Suffix
    <3>4. slot.key = f.key /\ slot.heard = <<>>
      BY <3>1, SMTT(60)
    <3>5. f.key \in Wifi!Keys
      BY FrameOf
    <3>6. [key |-> f.key, heard |-> <<>>] \in S
      BY <3>2, <3>5
    <3> HIDE DEF slot, S
    <3>7. slot \in S
      BY <3>1, <3>6
    <3> QED BY <3>3, <3>4, <3>7
  <2> QED BY <2>1, <2>2
<1>5. i \in 1..Len(x5) \/ i = Len(x5) + 1
  BY <1>2, <1>3, SMTT(60)
<1>6. \A j \in 1..Len(x5) : j # i => x5[j].key # f.key
  <2> SUFFICES ASSUME NEW j \in 1..Len(x5), x5[j].key = f.key PROVE j = i
    OBVIOUS
  <2>1. j \in mine
    BY <1>2
  <2>2. j \in mine /\ i \in mine
    BY <2>1, <1>3
  <2>3. x5[j].key = x5[i].key /\ i \in DOMAIN x5 /\ j \in DOMAIN x5
    BY <2>2
  <2> QED BY <2>3 DEF Wifi!TrackerInv
<1> HIDE DEF mine, i, slot
<1> DEFINE a == Wifi!Latest(Append(slot.heard, f.level), Samples)
           b == Wifi!Latest(Append(x8[f.key], f.level), Samples)
<1>7. a \in Seq(Int) /\ b \in Seq(Int) /\ Wifi!Suffix(a, b)
  <2>1. slot.heard \in Seq(Int) /\ x8[f.key] \in Seq(Int)
    BY <1>2, <1>4
  <2>2. /\ Append(slot.heard, f.level) \in Seq(Int) /\ Append(x8[f.key], f.level) \in Seq(Int)
        /\ Wifi!Suffix(Append(slot.heard, f.level), Append(x8[f.key], f.level))
    BY <2>1, <1>2, <1>4, AppendProperties, SuffixAppend
  <2> QED BY <2>2, <1>2, LatestOf, SuffixLatest
<1>8. p = [x8 EXCEPT ![f.key] = b]
  OBVIOUS
<1>9. new = [slot EXCEPT !.heard = a]
  OBVIOUS
<1> HIDE DEF a, b, p
<1>10. new \in S /\ new.key = f.key /\ new.heard = a
  BY <1>4, <1>7, <1>9
<1> HIDE DEF new
<1>11. p \in [Wifi!Keys -> Seq(Int)] /\ \A k \in Wifi!Keys : p[k] = IF k = f.key THEN b ELSE x8[k]
  BY <1>2, <1>7, <1>8
<1>12. /\ table \in Seq(S) /\ DOMAIN table = 1..Len(table) /\ Len(x5) <= Len(table)
       /\ \A j \in 1..Len(table) : table[j] = IF j = i THEN new ELSE x5[j]
       /\ \A j \in 1..Len(table) : j # i => j \in 1..Len(x5)
  <2>1. CASE i > Len(x5)
    <3>1. table = Append(x5, new) /\ i = Len(x5) + 1
      BY <2>1, <1>5, <1>2
    <3> HIDE DEF table, S
    <3>2. /\ table \in Seq(S) /\ Len(table) = Len(x5) + 1
          /\ \A j \in 1..Len(x5) : table[j] = x5[j]
          /\ table[Len(x5) + 1] = new
      BY <3>1, <1>2, <1>10, AppendProperties
    <3>3. DOMAIN table = 1..Len(table)
      BY <3>2, LenProperties
    <3> QED BY <3>1, <3>2, <3>3, <1>2
  <2>2. CASE ~(i > Len(x5))
    <3>1. table = [x5 EXCEPT ![i] = new] /\ i \in 1..Len(x5)
      BY <2>2, <1>5, <1>2
    <3> HIDE DEF table, S
    <3>2. /\ table \in Seq(S) /\ Len(table) = Len(x5)
          /\ \A j \in 1..Len(x5) : table[j] = IF j = i THEN new ELSE x5[j]
      BY <3>1, <1>2, <1>10, ExceptSeq
    <3>3. DOMAIN table = 1..Len(table)
      BY <3>2, LenProperties
    <3> QED BY <3>1, <3>2, <3>3, <1>2
  <2> QED BY <2>1, <2>2
<1> HIDE DEF table
<1>13. ASSUME NEW m \in DOMAIN table
       PROVE  /\ Wifi!Suffix(table[m].heard, p[table[m].key])
              /\ \A j \in DOMAIN table : table[m].key = table[j].key => m = j
  <2>1. CASE m = i
    <3>1. table[m] = new
      BY <2>1, <1>12
    <3>2. \A j \in DOMAIN table : j # i => table[j].key # f.key
      BY <1>6, <1>12
    <3> QED BY <3>1, <3>2, <2>1, <1>7, <1>10, <1>11, <1>2
  <2>2. CASE m # i
    <3>1. table[m] = x5[m] /\ m \in 1..Len(x5) /\ x5[m].key # f.key /\ x5[m].key \in Wifi!Keys
      BY <2>2, <1>2, <1>6, <1>12
    <3>2. p[x5[m].key] = x8[x5[m].key]
      BY <3>1, <1>11
    <3>3. Wifi!Suffix(x5[m].heard, x8[x5[m].key])
      BY <3>1, <1>2 DEF Wifi!TrackerInv
    <3>4. ASSUME NEW j \in DOMAIN table, x5[m].key = table[j].key PROVE m = j
      <4>1. j # i
        BY <3>1, <3>4, <1>10, <1>12
      <4>2. j \in 1..Len(x5) /\ table[j] = x5[j]
        BY <4>1, <1>12
      <4> QED BY <4>2, <3>1, <3>4, <1>2 DEF Wifi!TrackerInv
    <3> QED BY <3>1, <3>2, <3>3, <3>4
  <2> QED BY <2>1, <2>2
<1>14. Wifi!Moved(new.heard) => Wifi!Moved(p[f.key])
  BY <1>2, <1>7, <1>10, <1>11, SuffixMoved
<1> QED BY <1>1, <1>11, <1>12, <1>13, <1>14 DEF p

\* What vouches for an entry still does after a step that takes nothing back.
LEMMA VouchedStays ==
    ASSUME x1' = x1, \A k \in Wifi!Keys : x7[k] \subseteq x7'[k],
           \A c \in Wifi!Contexts : x6[c].pc = "advance" => x6'[c] = x6[c],
           NEW e, e.key \in Wifi!Keys, Wifi!Vouched(e)
    PROVE  Wifi!Vouched(e)'
<1>1. CASE [level |-> e.level, at |-> e.at] \in x7[e.key]
  <2>1. [level |-> e.level, at |-> e.at] \in x7'[e.key]
    BY <1>1
  <2> QED BY <2>1 DEF Wifi!Vouched
<1>2. ASSUME NEW c \in Wifi!Contexts, Wifi!Telling(c, e) PROVE Wifi!Vouched(e)'
  <2>1. Wifi!Telling(c, e)'
    BY <1>2, SMTT(60) DEF Wifi!Telling
  <2> QED BY <2>1 DEF Wifi!Vouched
<1> QED BY <1>1, <1>2 DEF Wifi!Vouched

\* A step that writes at most entries of its own keeps the limiter's promise.
LEMMA LimiterStays ==
    ASSUME Wifi!TypedInv, Wifi!LimiterInv, x1' = x1,
           \A e \in Wifi!Slot : e.key \in Wifi!Keys /\ Wifi!Vouched(e) => Wifi!Vouched(e)',
           \A m \in Wifi!Lanes, j \in 1..WifiSlots :
              \/ x3'[m].entry[j] = x3[m].entry[j]
              \/ \E g \in Air, e \in Wifi!Slot :
                    /\ x3'[m].entry[j] = e /\ m = g.lane /\ e.key = g.key
                    /\ Wifi!Ordinary(g) \/ Wifi!Vouched(e)'
    PROVE  Wifi!LimiterInv'
<1>1. ASSUME NEW f \in Air, NEW i \in 1..WifiSlots, NEW e, e = x3'[f.lane].entry[i],
             ~Wifi!Ordinary(f), e.key = f.key, x1' - e.at < Period
      PROVE  Wifi!Vouched(e)'
  <2>1. f.lane \in Wifi!Lanes /\ f.key \in Wifi!Keys
    BY FrameOf
  <2>2. CASE x3'[f.lane].entry[i] = x3[f.lane].entry[i]
    <3>1. e = x3[f.lane].entry[i]
      BY <1>1, <2>2
    <3>2. e \in Wifi!Slot
      BY <2>1, <3>1 DEF Wifi!TypedInv
    <3>3. Wifi!Vouched(e)
      BY <1>1, <3>1 DEF Wifi!LimiterInv
    <3> QED BY <3>2, <3>3, <2>1, <1>1
  <2>3. ASSUME NEW g \in Air, NEW d \in Wifi!Slot, x3'[f.lane].entry[i] = d, f.lane = g.lane,
               d.key = g.key, Wifi!Ordinary(g) \/ Wifi!Vouched(d)'
        PROVE  Wifi!Vouched(e)'
    <3>1. d = e
      BY <1>1, <2>3
    <3>2. ~Wifi!Ordinary(g)
      BY <1>1, <2>3, <3>1, FrameOf
    <3> QED BY <3>1, <3>2, <2>3
  <2> QED BY <2>1, <2>2, <2>3
<1> QED BY <1>1 DEF Wifi!LimiterInv, Wifi!Vouched, Wifi!Telling, Wifi!Ordinary, Wifi!Named

\* A context goes on to other work, or to none.
LEMMA CtxOfWork ==
    ASSUME Wifi!TypedInv, NEW c \in Wifi!Contexts, NEW w \in {Wifi!Idle} \cup Wifi!Working
    PROVE  /\ CtxOf(c, w) \in [Wifi!Contexts -> {Wifi!Idle} \cup Wifi!Working]
           /\ \A d \in Wifi!Contexts : CtxOf(c, w)[d] = IF d = c THEN w ELSE x6[d]
BY DEF Wifi!TypedInv, CtxOf

\* A step that writes no entry and ends no writing of one.
LEMMA CalmNext ==
    ASSUME Wifi!TypedInv, Wifi!LimiterInv, NEW c \in Wifi!Contexts, NEW f \in Air,
           x6[c].pc # "advance", x1' = x1, x7' = x7 \/ x7' = ToldOf(f),
           \/ x6' = x6 \/ x6' = CtxOf(c, Wifi!Idle)
           \/ \E p \in {"track", "look", "write"} : x6' = CtxOf(c, Busy(f, p)),
           \A m \in Wifi!Lanes, j \in 1..WifiSlots : x3'[m].entry[j] = x3[m].entry[j]
    PROVE  /\ x6' \in [Wifi!Contexts -> {Wifi!Idle} \cup Wifi!Working]
           /\ x7' \in [Wifi!Keys -> SUBSET Wifi!Samplings]
           /\ Wifi!LimiterInv'
<1>1. /\ x6' \in [Wifi!Contexts -> {Wifi!Idle} \cup Wifi!Working]
      /\ \A d \in Wifi!Contexts : d # c => x6'[d] = x6[d]
  <2>1. CASE x6' = x6
    BY <2>1 DEF Wifi!TypedInv
  <2>2. CASE x6' = CtxOf(c, Wifi!Idle)
    BY <2>2, CtxOfWork
  <2>3. ASSUME NEW p \in {"track", "look", "write"}, x6' = CtxOf(c, Busy(f, p))
        PROVE  /\ x6' \in [Wifi!Contexts -> {Wifi!Idle} \cup Wifi!Working]
               /\ \A d \in Wifi!Contexts : d # c => x6'[d] = x6[d]
    <3>1. Busy(f, p) \in {Wifi!Idle} \cup Wifi!Working
      BY WorkOf DEF Busy
    <3> QED BY <2>3, <3>1, CtxOfWork
  <2> QED BY <2>1, <2>2, <2>3
<1>2. /\ x7' \in [Wifi!Keys -> SUBSET Wifi!Samplings]
      /\ \A k \in Wifi!Keys : x7[k] \subseteq x7'[k]
  BY TellOf DEF Wifi!TypedInv
<1>3. \A d \in Wifi!Contexts : x6[d].pc = "advance" => x6'[d] = x6[d]
  BY <1>1
<1>4. Wifi!LimiterInv'
  BY <1>2, <1>3, VouchedStays, LimiterStays
<1> QED BY <1>1, <1>2, <1>4

\* What the callback and the scan task make of what they hear.
LEMMA HearStep ==
    ASSUME NEW f \in Air,
           \/ Wifi!HearBeacon(f) \/ Wifi!HearRecord(f) \/ Wifi!HearProbe(f) \/ Wifi!HearPair(f)
    PROVE  /\ UNCHANGED <<x1, x3, x5, x8>> /\ x9'.what \in {"none", "told"}
           /\ x7' = x7 \/ x7' = ToldOf(f)
           /\ \E c \in Wifi!Contexts :
                /\ x6[c].pc = "idle"
                /\ \/ x6' = x6 \/ x6' = CtxOf(c, Busy(f, "look"))
                   \/ x6' = CtxOf(c, Busy(f, "track"))
<1> USE DEF Wifi!Hears, Wifi!AsksLimiter, Wifi!AsksTracker, Wifi!Ignores, Wifi!Goes, Wifi!Verdict,
        Wifi!Nothing, Busy, CtxOf
<1>1. Wifi!Callback \in Wifi!Contexts /\ Wifi!ScanTask \in Wifi!Contexts
  BY DEF Wifi!Contexts
<1>2. CASE Wifi!HearBeacon(f)
  <2>1. CASE Wifi!Protocol(f)
    BY <1>1, <1>2, <2>1 DEF Wifi!HearBeacon, Wifi!Tell, ToldOf
  <2>2. CASE ~Wifi!Protocol(f) /\ (Wifi!Private(f) \/ Wifi!Named(f))
    BY <1>1, <1>2, <2>2 DEF Wifi!HearBeacon
  <2>3. CASE ~Wifi!Protocol(f) /\ ~(Wifi!Private(f) \/ Wifi!Named(f))
    BY <1>1, <1>2, <2>3 DEF Wifi!HearBeacon
  <2> QED BY <2>1, <2>2, <2>3
<1>3. CASE Wifi!HearRecord(f)
  <2>1. CASE Wifi!Private(f) \/ Wifi!Named(f)
    BY <1>1, <1>3, <2>1 DEF Wifi!HearRecord
  <2>2. CASE ~(Wifi!Private(f) \/ Wifi!Named(f))
    BY <1>1, <1>3, <2>2 DEF Wifi!HearRecord
  <2> QED BY <2>1, <2>2
<1>4. CASE Wifi!HearProbe(f)
  BY <1>1, <1>4 DEF Wifi!HearProbe
<1>5. CASE Wifi!HearPair(f)
  BY <1>1, <1>5 DEF Wifi!HearPair
<1> QED BY <1>2, <1>3, <1>4, <1>5

LEMMA TrackStep ==
    ASSUME NEW c \in Wifi!Contexts, Wifi!Track(c)
    PROVE  LET f == x6[c].frame  t == Wifi!Tracked(f)
           IN  /\ x6[c].pc = "track" /\ UNCHANGED <<x1, x3>>
               /\ x5' = t.table
               /\ x8' = [x8 EXCEPT ![f.key] = Wifi!Latest(Append(@, f.level), Samples)]
               /\ x7' = x7 \/ x7' = ToldOf(f)
               /\ x6' = CtxOf(c, Wifi!Idle) \/ x6' = CtxOf(c, Busy(f, "look"))
               /\ x9'.what \in {"still", "moves"}
               /\ x9'.what = "moves" => x9'.frame = f /\ t.moved
<1> DEFINE f == x6[c].frame  t == Wifi!Tracked(f)
<1>1. /\ x6[c].pc = "track" /\ UNCHANGED <<x1, x3>>
      /\ x5' = t.table
      /\ x8' = [x8 EXCEPT ![f.key] = Wifi!Latest(Append(@, f.level), Samples)]
      /\ IF ~t.moved THEN Wifi!Done(c) /\ Wifi!Verdict("still", f) /\ UNCHANGED x7
         ELSE IF c = Wifi!Callback THEN Wifi!Done(c) /\ Wifi!Tell(f) /\ Wifi!Verdict("moves", f)
         ELSE Wifi!Goes(c, "look", f) /\ Wifi!Verdict("moves", f) /\ UNCHANGED x7
  BY DEF Wifi!Track
<1> HIDE DEF t, f
<1> USE DEF Wifi!Done, Wifi!Verdict, Wifi!Goes, Wifi!Tell, CtxOf, ToldOf, Busy
<1>2. CASE ~t.moved
  <2>1. x6' = CtxOf(c, Wifi!Idle) /\ x7' = x7 /\ x9'.what = "still"
    BY <1>1, <1>2
  <2> QED BY <1>1, <2>1 DEF t, f
<1>3. CASE t.moved /\ c = Wifi!Callback
  <2>1. x6' = CtxOf(c, Wifi!Idle) /\ x7' = ToldOf(f) /\ x9'.what = "moves" /\ x9'.frame = f
    BY <1>1, <1>3
  <2> QED BY <1>1, <1>3, <2>1 DEF t, f
<1>4. CASE t.moved /\ c # Wifi!Callback
  <2>1. x6' = CtxOf(c, Busy(f, "look")) /\ x7' = x7 /\ x9'.what = "moves" /\ x9'.frame = f
    BY <1>1, <1>4
  <2> QED BY <1>1, <1>4, <2>1 DEF t, f
<1> QED BY <1>2, <1>3, <1>4

LEMMA PassesStep ==
    ASSUME NEW f \in Air, Wifi!Passes(f)
    PROVE  /\ x9'.what \in {"dropped", "told"}
           /\ x7' = x7 \/ x7' = ToldOf(f)
           /\ ~Wifi!Ordinary(f) => x7' = ToldOf(f)
<1>1. CASE Wifi!Budgeted(f) /\ Wifi!Spent >= Budget
  BY <1>1 DEF Wifi!Passes, Wifi!Verdict, Wifi!Budgeted
<1>2. CASE ~(Wifi!Budgeted(f) /\ Wifi!Spent >= Budget)
  BY <1>2 DEF Wifi!Passes, Wifi!Verdict, Wifi!Tell, ToldOf
<1> QED BY <1>1, <1>2

LEMMA TrackerStays == Wifi!TrackerInv /\ UNCHANGED <<x5, x8>> => Wifi!TrackerInv'
BY DEF Wifi!TrackerInv, Wifi!Suffix

LEMMA VerdictNone ==
    ASSUME x9'.what \notin {"hushed", "moves"}
    PROVE  Wifi!HushedWasTold' /\ Wifi!MovesMeansMoved'
BY DEF Wifi!HushedWasTold, Wifi!MovesMeansMoved

\* The entry of a report just made, or about to be made, is vouched for.
LEMMA VouchedNew ==
    ASSUME NEW f \in Air, NEW e, e.key = f.key, e.level = f.level, e.at = x1, x1' = x1,
           \/ [level |-> f.level, at |-> x1] \in x7'[f.key]
           \/ \E c \in Wifi!Contexts : /\ x6'[c].pc = "advance" /\ x6'[c].frame = f
                                       /\ ~Wifi!Ordinary(f)
    PROVE  Wifi!Vouched(e)'
<1>1. CASE [level |-> f.level, at |-> x1] \in x7'[f.key]
  BY <1>1 DEF Wifi!Vouched
<1>2. ASSUME NEW c \in Wifi!Contexts, x6'[c].pc = "advance", x6'[c].frame = f, ~Wifi!Ordinary(f)
      PROVE  Wifi!Vouched(e)'
  <2>1. Wifi!Telling(c, e)'
    BY <1>2 DEF Wifi!Telling, Wifi!Ordinary, Wifi!Named
  <2> QED BY <2>1 DEF Wifi!Vouched
<1> QED BY <1>1, <1>2

\* Held back: the entry that did it is vouched for, by a report or by its writer.
LEMMA HushedStep ==
    ASSUME Wifi!TypedInv, Wifi!LimiterInv, NEW c \in Wifi!Contexts, NEW f \in Air,
           NEW i \in 1..WifiSlots, x6[c].pc = "look",
           x3[f.lane].entry[i].key = f.key, Wifi!Repeats(f, x3[f.lane].entry[i]),
           UNCHANGED <<x1, x7>>, x6' = CtxOf(c, Wifi!Idle), x9'.what = "hushed", x9'.frame = f
    PROVE  Wifi!HushedWasTold'
<1> DEFINE e == x3[f.lane].entry[i]
<1>1. f.lane \in Wifi!Lanes /\ f.key \in Wifi!Keys /\ Wifi!Interval(f) <= Period
  BY FrameOf
<1>2. e \in Wifi!Slot /\ e.key = f.key
  BY <1>1 DEF Wifi!TypedInv
<1>3. /\ x1 - e.at < Wifi!Interval(f)
      /\ f.lane = "beacon" => Wifi!Apart(f.level, e.level) < Delta
  BY DEF Wifi!Repeats
<1>4. x1 - e.at < Period
  <2>1. x1 \in Int /\ e.at \in Int
    <3>1. x1 \in Nat
      BY DEF Wifi!TypedInv
    <3> HIDE DEF e
    <3>2. e.at \in Nat
      BY <1>2 DEF Wifi!Slot
    <3> QED BY <3>1, <3>2
  <2>2. Wifi!Interval(f) \in Int /\ Period \in Int
    <3>1. Brief \in 0..Period /\ Period \in Nat
      BY WifiAssumption
    <3> QED BY <3>1 DEF Wifi!Interval
  <2> QED BY <2>1, <2>2, <1>1, <1>3
<1>5. SUFFICES ASSUME ~Wifi!Ordinary(f)
               PROVE  \E r \in x7[f.key] \cup {[level |-> x6'[d].frame.level, at |-> x1] :
                              d \in {d \in Wifi!Contexts : /\ x6'[d].pc = "advance"
                                                           /\ x6'[d].frame.key = f.key}} :
                        /\ x1 - r.at < Wifi!Interval(f)
                        /\ f.lane = "beacon" => Wifi!Apart(f.level, r.level) < Delta
  BY DEF Wifi!HushedWasTold, Wifi!Ordinary, Wifi!Named, Wifi!Interval
<1>6. Wifi!Vouched(e)
  BY <1>2, <1>4, <1>5 DEF Wifi!LimiterInv
<1>7. CASE [level |-> e.level, at |-> e.at] \in x7[e.key]
  BY <1>2, <1>3, <1>7
<1>8. ASSUME NEW d \in Wifi!Contexts, Wifi!Telling(d, e)
      PROVE  \E r \in {[level |-> x6'[b].frame.level, at |-> x1] :
                              b \in {b \in Wifi!Contexts : /\ x6'[b].pc = "advance"
                                                           /\ x6'[b].frame.key = f.key}} :
                        /\ x1 - r.at < Wifi!Interval(f)
                        /\ f.lane = "beacon" => Wifi!Apart(f.level, r.level) < Delta
  <2>1. x6[d].pc = "advance" /\ x6[d].frame.key = f.key /\ x6[d].frame.level = e.level /\ e.at = x1
    BY <1>2, <1>8 DEF Wifi!Telling
  <2>2. x6'[d] = x6[d]
    <3>1. Wifi!Idle \in {Wifi!Idle} \cup Wifi!Working
      OBVIOUS
    <3> QED BY <2>1, <3>1, CtxOfWork
  <2> DEFINE r == [level |-> x6'[d].frame.level, at |-> x1]
  <2>3. r.at = e.at /\ r.level = e.level
    BY <2>1, <2>2
  <2> QED BY <2>1, <2>2, <2>3, <1>3
<1> QED BY <1>6, <1>7, <1>8 DEF Wifi!Vouched

Rings == [Wifi!Lanes -> [entry : [1..WifiSlots -> Wifi!Slot], next : 1..WifiSlots]]

\* An entry written, and the place for the next one moved on.
LEMMA RingWritten ==
    ASSUME x3 \in Rings, NEW l \in Wifi!Lanes, NEW i \in 1..WifiSlots, NEW e \in Wifi!Slot,
           x3' = [x3 EXCEPT ![l].entry[i] = e]
    PROVE  /\ x3' \in Rings
           /\ \A m \in Wifi!Lanes, j \in 1..WifiSlots :
                x3'[m].entry[j] = IF m = l /\ j = i THEN e ELSE x3[m].entry[j]
<1> DEFINE I == 1..WifiSlots
<1>1. x3 \in [Wifi!Lanes -> [entry : [I -> Wifi!Slot], next : I]]
  BY DEF Rings
<1> HIDE DEF I
<1> DEFINE b == [x3[l].entry EXCEPT ![i] = e]  n == [x3[l] EXCEPT !.entry = b]
<1>2. x3[l] \in [entry : [I -> Wifi!Slot], next : I]
  BY <1>1
<1>3. b \in [I -> Wifi!Slot] /\ \A j \in I : b[j] = IF j = i THEN e ELSE x3[l].entry[j]
  BY <1>2
<1>4. x3' = [x3 EXCEPT ![l] = n]
  OBVIOUS
<1> HIDE DEF b
<1>5. n \in [entry : [I -> Wifi!Slot], next : I] /\ n.entry = b
  BY <1>2, <1>3
<1> HIDE DEF n
<1>6. x3' \in [Wifi!Lanes -> [entry : [I -> Wifi!Slot], next : I]]
  BY <1>1, <1>4, <1>5
<1>7. \A m \in Wifi!Lanes : x3'[m] = IF m = l THEN n ELSE x3[m]
  BY <1>1, <1>4
<1> QED BY <1>3, <1>5, <1>6, <1>7 DEF Rings, I

LEMMA RingAdvanced ==
    ASSUME x3 \in Rings, NEW l \in Wifi!Lanes, NEW n \in 1..WifiSlots,
           x3' = [x3 EXCEPT ![l].next = n]
    PROVE  /\ x3' \in Rings
           /\ \A m \in Wifi!Lanes, j \in 1..WifiSlots : x3'[m].entry[j] = x3[m].entry[j]
<1> DEFINE I == 1..WifiSlots
<1>1. x3 \in [Wifi!Lanes -> [entry : [I -> Wifi!Slot], next : I]] /\ n \in I
  BY DEF Rings
<1> HIDE DEF I
<1>2. /\ x3' \in [Wifi!Lanes -> [entry : [I -> Wifi!Slot], next : I]]
      /\ \A m \in Wifi!Lanes : x3'[m].entry = x3[m].entry
  BY <1>1, RingNext, SMTT(60)
<1> QED BY <1>2 DEF Rings, I

\* A context at work has a frame in hand.
LEMMA HandOf ==
    ASSUME Wifi!TypedInv, NEW c \in Wifi!Contexts, x6[c].pc # "idle"
    PROVE  \E f \in Air : f = x6[c].frame
<1>1. x6[c] \in {Wifi!Idle} \cup Wifi!Working
  BY DEF Wifi!TypedInv
<1> QED BY <1>1, WorkingOf

\* The entries the limiter writes.
LEMMA EntryRenewed ==
    ASSUME NEW e \in Wifi!Slot, NEW f \in Air, x1 \in Nat
    PROVE  LET d == [e EXCEPT !.level = f.level, !.at = x1]
           IN  d \in Wifi!Slot /\ d.key = e.key /\ d.level = f.level /\ d.at = x1
BY FrameOf DEF Wifi!Slot

LEMMA EntryNew ==
    ASSUME NEW f \in Air, x1 \in Nat
    PROVE  [key |-> f.key, level |-> f.level, at |-> x1] \in Wifi!Slot
BY FrameOf DEF Wifi!Slot

LEMMA LookNext ==
    ASSUME Wifi!TypedInv, Wifi!LimiterInv, NEW c \in Wifi!Contexts, Wifi!Look(c)
    PROVE  /\ UNCHANGED <<x1, x5, x8>>
           /\ x3' \in Rings
           /\ x6' \in [Wifi!Contexts -> {Wifi!Idle} \cup Wifi!Working]
           /\ x7' \in [Wifi!Keys -> SUBSET Wifi!Samplings]
           /\ Wifi!LimiterInv' /\ Wifi!HushedWasTold' /\ Wifi!MovesMeansMoved'
<1>1. PICK f \in Air : f = x6[c].frame
  BY HandOf, SMTT(60) DEF Wifi!Look
<1> DEFINE i == Wifi!Min(Wifi!Mine(f))  e == x3[f.lane].entry[i]
<1>2. /\ x6[c].pc = "look" /\ UNCHANGED <<x1, x5, x8>>
      /\ IF Wifi!Mine(f) = {}
         THEN Wifi!Goes(c, "write", f) /\ x9' = Wifi!Nothing /\ UNCHANGED <<x3, x7, x4>>
         ELSE /\ Wifi!Done(c)
              /\ IF Wifi!Repeats(f, e)
                 THEN /\ x3' = [x3 EXCEPT ![f.lane].entry[i] = Wifi!HeldBack(f, @)]
                      /\ Wifi!Verdict("hushed", f) /\ UNCHANGED <<x7, x4>>
                 ELSE /\ x3' = [x3 EXCEPT ![f.lane].entry[i] =
                                  [@ EXCEPT !.level = f.level, !.at = x1]]
                      /\ Wifi!Passes(f)
  BY <1>1 DEF Wifi!Look, Wifi!Entries
<1>3. f \in Air /\ f.lane \in Wifi!Lanes /\ f.key \in Wifi!Keys /\ f.level \in Int
  BY FrameOf
<1>4. x1 \in Nat /\ x3 \in Rings
  BY DEF Wifi!TypedInv, Rings
<1>5. Wifi!Mine(f) # {} => i \in 1..WifiSlots /\ e.key = f.key /\ e \in Wifi!Slot
  <2>1. Wifi!Mine(f) \subseteq Nat
    BY DEF Wifi!Mine
  <2>2. Wifi!Mine(f) # {} => i \in Wifi!Mine(f)
    BY <2>1, FirstOfMine
  <2>3. Wifi!Mine(f) # {} => i \in 1..WifiSlots /\ e.key = f.key
    BY <2>2 DEF Wifi!Mine, Wifi!Entries
  <2> QED BY <2>3, <1>3, <1>4 DEF Rings
<1> HIDE DEF i
<1>6. CASE Wifi!Mine(f) = {}
  <2>1. x6' = CtxOf(c, Busy(f, "write")) /\ x3' = x3 /\ x7' = x7 /\ x9'.what = "none"
    BY <1>2, <1>6 DEF Wifi!Goes, CtxOf, Busy, Wifi!Nothing
  <2> QED BY <1>2, <1>3, <1>4, <2>1, CalmNext, VerdictNone
<1>7. CASE Wifi!Mine(f) # {} /\ Wifi!Repeats(f, e)
  <2>1. /\ x6' = CtxOf(c, Wifi!Idle) /\ x7' = x7 /\ x9'.what = "hushed" /\ x9'.frame = f
    BY <1>2, <1>7 DEF Wifi!Done, CtxOf, Wifi!Verdict
  <2>2. x3' = [x3 EXCEPT ![f.lane].entry[i] = e]
    BY <1>2, <1>7 DEF Wifi!HeldBack
  <2> HIDE DEF e
  <2>3. /\ x3' \in Rings
        /\ \A m \in Wifi!Lanes, j \in 1..WifiSlots :
             x3'[m].entry[j] = IF m = f.lane /\ j = i THEN e ELSE x3[m].entry[j]
    <3>1. /\ x3 \in Rings /\ f.lane \in Wifi!Lanes /\ e \in Wifi!Slot
          /\ i \in 1..WifiSlots
      BY <1>3, <1>4, <1>5, <1>7
    <3> QED BY <3>1, <2>2, RingWritten, ZenonT(60)
  <2>4. \A m \in Wifi!Lanes, j \in 1..WifiSlots : x3'[m].entry[j] = x3[m].entry[j]
    BY <2>3 DEF e
  <2>5. Wifi!HushedWasTold'
    BY <1>2, <1>3, <1>5, <1>7, <2>1, HushedStep DEF e
  <2>6. Wifi!MovesMeansMoved'
    BY <2>1 DEF Wifi!MovesMeansMoved
  <2> QED BY <1>2, <1>3, <2>1, <2>3, <2>4, <2>5, <2>6, CalmNext
<1>8. CASE Wifi!Mine(f) # {} /\ ~Wifi!Repeats(f, e)
  <2>1. /\ x6' = CtxOf(c, Wifi!Idle) /\ Wifi!Passes(f)
        /\ x3' = [x3 EXCEPT ![f.lane].entry[i] = [e EXCEPT !.level = f.level, !.at = x1]]
    BY <1>2, <1>8 DEF Wifi!Done, CtxOf
  <2> HIDE DEF e
  <2>2. PICK d \in Wifi!Slot : /\ d = [e EXCEPT !.level = f.level, !.at = x1]
                              /\ d.key = f.key /\ d.level = f.level /\ d.at = x1
    <3> DEFINE n == [e EXCEPT !.level = f.level, !.at = x1]
    <3>1. e \in Wifi!Slot /\ e.key = f.key
      BY <1>5, <1>8
    <3>2. n \in Wifi!Slot /\ n.key = e.key /\ n.level = f.level /\ n.at = x1
      BY <3>1, <1>4, EntryRenewed
    <3> HIDE DEF n
    <3>3. \E d \in Wifi!Slot : d = n /\ d.key = f.key /\ d.level = f.level /\ d.at = x1
      BY <3>1, <3>2
    <3> QED BY <3>3 DEF n
  <2>3. /\ x3' \in Rings
        /\ \A m \in Wifi!Lanes, j \in 1..WifiSlots :
             x3'[m].entry[j] = IF m = f.lane /\ j = i THEN d ELSE x3[m].entry[j]
    <3>1. x3' = [x3 EXCEPT ![f.lane].entry[i] = d]
      BY <2>1, <2>2
    <3>2. /\ x3 \in Rings /\ f.lane \in Wifi!Lanes /\ d \in Wifi!Slot
          /\ i \in 1..WifiSlots
      BY <1>3, <1>4, <1>5, <1>8
    <3> QED BY <3>1, <3>2, RingWritten, ZenonT(60)
  <2>4. /\ x9'.what \in {"dropped", "told"}
        /\ x7' = x7 \/ x7' = ToldOf(f)
        /\ ~Wifi!Ordinary(f) => x7' = ToldOf(f)
    BY <2>1, <1>3, PassesStep
  <2>5. /\ x6' \in [Wifi!Contexts -> {Wifi!Idle} \cup Wifi!Working]
        /\ \A b \in Wifi!Contexts : b # c => x6'[b] = x6[b]
    BY <2>1, CtxOfWork
  <2>6. /\ x7' \in [Wifi!Keys -> SUBSET Wifi!Samplings]
        /\ \A k \in Wifi!Keys : x7[k] \subseteq x7'[k]
    BY <2>4, <1>3, TellOf DEF Wifi!TypedInv
  <2>7. Wifi!Ordinary(f) \/ Wifi!Vouched(d)'
    BY <2>2, <2>4, <1>2, <1>3, TellOf, VouchedNew
  <2>8. \A b \in Wifi!Slot : b.key \in Wifi!Keys /\ Wifi!Vouched(b) => Wifi!Vouched(b)'
    BY <2>5, <2>6, <1>2, VouchedStays
  <2>9. Wifi!LimiterInv'
    <3>1. x1' = x1 /\ d.key = f.key
      BY <1>2, <2>2
    <3>2. \A m \in Wifi!Lanes, j \in 1..WifiSlots :
            \/ x3'[m].entry[j] = x3[m].entry[j]
            \/ \E g \in Air, b \in Wifi!Slot :
                  /\ x3'[m].entry[j] = b /\ m = g.lane /\ b.key = g.key
                  /\ Wifi!Ordinary(g) \/ Wifi!Vouched(b)'
      BY <3>1, <2>3, <2>7
    <3> QED BY <3>1, <3>2, <2>8, LimiterStays
  <2> QED BY <1>2, <2>3, <2>4, <2>5, <2>6, <2>9, VerdictNone
<1> QED BY <1>6, <1>7, <1>8, SMTT(60)

LEMMA WriteNext ==
    ASSUME Wifi!TypedInv, Wifi!LimiterInv, NEW c \in Wifi!Contexts, Wifi!Write(c)
    PROVE  /\ UNCHANGED <<x1, x5, x7, x8>> /\ x9' = Wifi!Nothing
           /\ x3' \in Rings
           /\ x6' \in [Wifi!Contexts -> {Wifi!Idle} \cup Wifi!Working]
           /\ Wifi!LimiterInv'
<1>1. PICK f \in Air : f = x6[c].frame
  BY HandOf DEF Wifi!Write
<1> DEFINE n == x3[f.lane].next
           d0 == [key |-> f.key, level |-> f.level, at |-> x1]
<1>2. /\ x6[c].pc = "write" /\ UNCHANGED <<x1, x5, x7, x8>> /\ x9' = Wifi!Nothing
      /\ x3' = [x3 EXCEPT ![f.lane].entry[n] = d0] /\ x6' = CtxOf(c, Busy(f, "advance"))
  BY <1>1, SMTT(60) DEF Wifi!Write, Wifi!Goes, CtxOf, Busy
<1>3. f \in Air /\ f.lane \in Wifi!Lanes /\ f.key \in Wifi!Keys /\ f.level \in Int
  BY FrameOf
<1>4. x1 \in Nat /\ x3 \in Rings
  BY DEF Wifi!TypedInv, Rings
<1> HIDE DEF n
<1>5. PICK d \in Wifi!Slot : d = d0 /\ d.key = f.key /\ d.level = f.level /\ d.at = x1
  BY <1>3, <1>4, EntryNew
<1> HIDE DEF d0
<1>6. /\ x3' \in Rings
      /\ \A m \in Wifi!Lanes, j \in 1..WifiSlots :
           x3'[m].entry[j] = IF m = f.lane /\ j = n THEN d ELSE x3[m].entry[j]
  <2>1. x3' = [x3 EXCEPT ![f.lane].entry[n] = d]
    BY <1>2, <1>5
  <2>2. /\ x3 \in Rings /\ f.lane \in Wifi!Lanes /\ d \in Wifi!Slot
        /\ n \in 1..WifiSlots
    BY <1>3, <1>4 DEF Rings, n
  <2> QED BY <2>1, <2>2, RingWritten
<1>7. Busy(f, "advance") \in {Wifi!Idle} \cup Wifi!Working
      /\ Busy(f, "advance").pc = "advance" /\ Busy(f, "advance").frame = f
  BY <1>3, WorkOf DEF Busy
<1>8. /\ x6' \in [Wifi!Contexts -> {Wifi!Idle} \cup Wifi!Working]
      /\ \A b \in Wifi!Contexts : x6'[b] = IF b = c THEN Busy(f, "advance") ELSE x6[b]
  BY <1>2, <1>7, CtxOfWork
<1>9. Wifi!Ordinary(f) \/ Wifi!Vouched(d)'
  <2>1. x6'[c].pc = "advance" /\ x6'[c].frame = f
    BY <1>7, <1>8
  <2> QED BY <1>2, <1>3, <1>5, <2>1, VouchedNew
<1>10. \A b \in Wifi!Slot : b.key \in Wifi!Keys /\ Wifi!Vouched(b) => Wifi!Vouched(b)'
  <2>1. \A b \in Wifi!Contexts : x6[b].pc = "advance" => x6'[b] = x6[b]
    BY <1>2, <1>8
  <2> QED BY <2>1, <1>2, VouchedStays
<1>11. Wifi!LimiterInv'
  <2>1. x1' = x1 /\ d.key = f.key
    BY <1>2, <1>5
  <2>2. \A m \in Wifi!Lanes, j \in 1..WifiSlots :
          \/ x3'[m].entry[j] = x3[m].entry[j]
          \/ \E g \in Air, b \in Wifi!Slot :
                /\ x3'[m].entry[j] = b /\ m = g.lane /\ b.key = g.key
                /\ Wifi!Ordinary(g) \/ Wifi!Vouched(b)'
    BY <2>1, <1>6, <1>9
  <2> QED BY <2>1, <2>2, <1>10, LimiterStays
<1> QED BY <1>2, <1>6, <1>8, <1>11

LEMMA AdvanceNext ==
    ASSUME Wifi!TypedInv, Wifi!LimiterInv, NEW c \in Wifi!Contexts, Wifi!Advance(c)
    PROVE  /\ UNCHANGED <<x1, x5, x8>> /\ x9'.what \in {"dropped", "told"}
           /\ x3' \in Rings
           /\ x6' \in [Wifi!Contexts -> {Wifi!Idle} \cup Wifi!Working]
           /\ x7' \in [Wifi!Keys -> SUBSET Wifi!Samplings]
           /\ Wifi!LimiterInv'
<1>1. PICK f \in Air : f = x6[c].frame
  BY HandOf DEF Wifi!Advance
<1> DEFINE n == (x3[f.lane].next % WifiSlots) + 1
<1>2. /\ x6[c].pc = "advance" /\ UNCHANGED <<x1, x5, x8>>
      /\ x3' = [x3 EXCEPT ![f.lane].next = n] /\ x6' = CtxOf(c, Wifi!Idle) /\ Wifi!Passes(f)
  BY <1>1, SMTT(60) DEF Wifi!Advance, Wifi!Done, CtxOf
<1>3. f \in Air /\ f.lane \in Wifi!Lanes /\ f.key \in Wifi!Keys /\ f.level \in Int
  BY FrameOf
<1>4. x1 \in Nat /\ x3 \in Rings
  BY DEF Wifi!TypedInv, Rings
<1>5. n \in 1..WifiSlots
  <2>1. WifiSlots \in Nat \ {0}
    BY WifiAssumption
  <2>2. x3[f.lane].next \in 1..WifiSlots
    BY <1>3, <1>4 DEF Rings
  <2> QED BY <2>1, <2>2
<1> HIDE DEF n
<1>6. /\ x3' \in Rings
      /\ \A m \in Wifi!Lanes, j \in 1..WifiSlots : x3'[m].entry[j] = x3[m].entry[j]
  BY <1>2, <1>3, <1>4, <1>5, RingAdvanced
<1>7. /\ x9'.what \in {"dropped", "told"}
      /\ x7' = x7 \/ x7' = ToldOf(f)
      /\ ~Wifi!Ordinary(f) => x7' = ToldOf(f)
  BY <1>2, <1>3, PassesStep
<1>8. /\ x6' \in [Wifi!Contexts -> {Wifi!Idle} \cup Wifi!Working]
      /\ \A b \in Wifi!Contexts : b # c => x6'[b] = x6[b]
  BY <1>2, CtxOfWork
<1>9. /\ x7' \in [Wifi!Keys -> SUBSET Wifi!Samplings]
      /\ \A k \in Wifi!Keys : x7[k] \subseteq x7'[k]
  BY <1>7, <1>3, TellOf DEF Wifi!TypedInv
<1>10. ASSUME NEW e \in Wifi!Slot, e.key \in Wifi!Keys, Wifi!Vouched(e)
      PROVE  Wifi!Vouched(e)'
  <2>1. CASE [level |-> e.level, at |-> e.at] \in x7[e.key]
    BY <2>1, <1>9, <1>10 DEF Wifi!Vouched
  <2>2. ASSUME NEW d \in Wifi!Contexts, Wifi!Telling(d, e), d # c
        PROVE  Wifi!Vouched(e)'
    <3>1. Wifi!Telling(d, e)'
      BY <1>2, <1>8, <2>2 DEF Wifi!Telling
    <3> QED BY <3>1 DEF Wifi!Vouched
  <2>3. CASE Wifi!Telling(c, e)
    <3>1. ~Wifi!Ordinary(f) /\ e.key = f.key /\ e.level = f.level /\ e.at = x1
      BY <1>1, <2>3 DEF Wifi!Telling
    <3>2. [level |-> f.level, at |-> x1] \in x7'[f.key]
      BY <3>1, <1>3, <1>7, TellOf
    <3> QED BY <3>1, <3>2, <1>2, <1>3, VouchedNew
  <2> QED BY <1>10, <2>1, <2>2, <2>3 DEF Wifi!Vouched
<1>11. Wifi!LimiterInv'
  <2>1. x1' = x1
    BY <1>2
  <2>2. \A e \in Wifi!Slot : e.key \in Wifi!Keys /\ Wifi!Vouched(e) => Wifi!Vouched(e)'
    BY <1>10
  <2>3. \A m \in Wifi!Lanes, j \in 1..WifiSlots : x3'[m].entry[j] = x3[m].entry[j]
    BY <1>6
  <2> QED BY <2>1, <2>2, <2>3, LimiterStays
<1> QED BY <1>2, <1>6, <1>7, <1>8, <1>9, <1>11

LEMMA TickNext ==
    ASSUME Wifi!TypedInv, Wifi!LimiterInv, Wifi!Tick
    PROVE  /\ x1' \in Nat /\ UNCHANGED <<x3, x5, x6, x8>> /\ x9' = Wifi!Nothing
           /\ x7' \in [Wifi!Keys -> SUBSET Wifi!Samplings]
           /\ Wifi!LimiterInv'
<1>1. /\ x1' = x1 + 1 /\ UNCHANGED <<x3, x5, x6, x8>> /\ x9' = Wifi!Nothing
      /\ \A c \in Wifi!Contexts : x6[c].pc = "idle"
      /\ x7' = [k \in Wifi!Keys |-> {r \in x7[k] : x1 + 1 - r.at < Period}]
  BY DEF Wifi!Tick
<1>2. x1 \in Nat /\ x7 \in [Wifi!Keys -> SUBSET Wifi!Samplings]
  BY DEF Wifi!TypedInv
<1>3. x7' \in [Wifi!Keys -> SUBSET Wifi!Samplings]
  BY <1>1, <1>2
<1>4. ASSUME NEW f \in Air, NEW i \in 1..WifiSlots, NEW e, e = x3[f.lane].entry[i],
             ~Wifi!Ordinary(f), e.key = f.key, x1' - e.at < Period
      PROVE  Wifi!Vouched(e)'
  <2>1. f.lane \in Wifi!Lanes /\ f.key \in Wifi!Keys /\ Period \in Nat
    BY FrameOf, WifiAssumption
  <2>2. e \in Wifi!Slot
    BY <2>1, <1>4 DEF Wifi!TypedInv
  <2>3. e.at \in Nat
    BY <2>2 DEF Wifi!Slot
  <2>4. x1 - e.at < Period
    BY <2>1, <2>3, <1>1, <1>2, <1>4
  <2>5. Wifi!Vouched(e)
    BY <2>4, <1>4 DEF Wifi!LimiterInv
  <2> DEFINE r == [level |-> e.level, at |-> e.at]
  <2>6. r \in x7[e.key]
    BY <2>5, <1>1 DEF Wifi!Vouched, Wifi!Telling
  <2>7. x1 + 1 - r.at < Period
    <3>1. x1 + 1 - e.at < Period
      BY <1>1, <1>2, <1>4, <2>3
    <3>2. r.at = e.at
      OBVIOUS
    <3> HIDE DEF r
    <3> QED BY <3>1, <3>2
  <2> HIDE DEF r
  <2>8. r \in x7'[e.key]
    BY <2>1, <2>6, <2>7, <1>1, <1>4
  <2> QED BY <2>8 DEF r, Wifi!Vouched
<1>5. Wifi!LimiterInv'
  BY <1>1, <1>4 DEF Wifi!LimiterInv, Wifi!Vouched, Wifi!Telling, Wifi!Ordinary, Wifi!Named
<1> QED BY <1>1, <1>2, <1>3, <1>5

LEMMA WifiNext == Wifi!ReportsInv /\ [Wifi!Next]_(Wifi!vars) => Wifi!ReportsInv'
<1> SUFFICES ASSUME Wifi!ReportsInv, [Wifi!Next]_(Wifi!vars) PROVE Wifi!ReportsInv'
  OBVIOUS
<1>1. /\ Wifi!TypedInv /\ Wifi!LimiterInv /\ Wifi!TrackerInv
      /\ Wifi!HushedWasTold /\ Wifi!MovesMeansMoved
  BY DEF Wifi!ReportsInv
<1>2. /\ x1 \in Nat /\ x3 \in Rings
      /\ x6 \in [Wifi!Contexts -> {Wifi!Idle} \cup Wifi!Working]
      /\ x7 \in [Wifi!Keys -> SUBSET Wifi!Samplings]
      /\ x5 \in Seq([key : Wifi!Keys, heard : Seq(Int)]) /\ x8 \in [Wifi!Keys -> Seq(Int)]
  BY <1>1 DEF Wifi!TypedInv, Rings
<1>3. ASSUME x1' \in Nat, x3' \in Rings,
             x6' \in [Wifi!Contexts -> {Wifi!Idle} \cup Wifi!Working],
             x7' \in [Wifi!Keys -> SUBSET Wifi!Samplings],
             x5' \in Seq([key : Wifi!Keys, heard : Seq(Int)]), x8' \in [Wifi!Keys -> Seq(Int)]
      PROVE  Wifi!TypedInv'
  BY <1>3 DEF Wifi!TypedInv, Rings
<1>4. CASE UNCHANGED Wifi!vars
  <2>1. UNCHANGED <<x1, x3, x5, x6, x7, x8, x9>>
    BY <1>4 DEF Wifi!vars
  <2>2. Wifi!TypedInv'
    BY <2>1, <1>2, <1>3, SMTT(60)
  <2>3. Wifi!LimiterInv'
    BY <2>1, <1>1 DEF Wifi!LimiterInv, Wifi!Vouched, Wifi!Telling, Wifi!Ordinary, Wifi!Named
  <2>4. Wifi!TrackerInv'
    BY <2>1, <1>1, TrackerStays
  <2>5. Wifi!HushedWasTold'
    BY <2>1, <1>1 DEF Wifi!HushedWasTold, Wifi!Ordinary, Wifi!Named, Wifi!Interval, Wifi!Apart
  <2>6. Wifi!MovesMeansMoved'
    BY <2>1, <1>1 DEF Wifi!MovesMeansMoved, Wifi!Moved
  <2> QED BY <2>2, <2>3, <2>4, <2>5, <2>6 DEF Wifi!ReportsInv
<1>5. ASSUME NEW f \in Air, \/ Wifi!HearBeacon(f) \/ Wifi!HearRecord(f)
                            \/ Wifi!HearProbe(f) \/ Wifi!HearPair(f)
      PROVE  Wifi!ReportsInv'
  <2>1. /\ UNCHANGED <<x1, x3, x5, x8>> /\ x9'.what \in {"none", "told"}
        /\ x7' = x7 \/ x7' = ToldOf(f)
        /\ \E c \in Wifi!Contexts :
             /\ x6[c].pc = "idle"
             /\ \/ x6' = x6 \/ x6' = CtxOf(c, Busy(f, "look"))
                \/ x6' = CtxOf(c, Busy(f, "track"))
    BY <1>5, HearStep
  <2>2. PICK c \in Wifi!Contexts :
             /\ x6[c].pc = "idle"
             /\ \/ x6' = x6 \/ x6' = CtxOf(c, Busy(f, "look"))
                \/ x6' = CtxOf(c, Busy(f, "track"))
    BY <2>1
  <2>3. /\ x6' \in [Wifi!Contexts -> {Wifi!Idle} \cup Wifi!Working]
        /\ x7' \in [Wifi!Keys -> SUBSET Wifi!Samplings] /\ Wifi!LimiterInv'
    BY <2>1, <2>2, <1>1, CalmNext
  <2>4. Wifi!TypedInv'
    BY <2>1, <2>3, <1>2, <1>3
  <2>5. Wifi!TrackerInv'
    BY <2>1, <1>1, TrackerStays
  <2> QED BY <2>1, <2>3, <2>4, <2>5, VerdictNone DEF Wifi!ReportsInv
<1>6. ASSUME NEW c \in Wifi!Contexts, Wifi!Track(c) PROVE Wifi!ReportsInv'
  <2>1. PICK f \in Air : f = x6[c].frame
    BY <1>1, <1>6, HandOf DEF Wifi!Track
  <2> DEFINE t == Wifi!Tracked(f)
             p == [x8 EXCEPT ![f.key] = Wifi!Latest(Append(@, f.level), Samples)]
  <2>2. /\ x6[c].pc = "track" /\ UNCHANGED <<x1, x3>> /\ x5' = t.table /\ x8' = p
        /\ x7' = x7 \/ x7' = ToldOf(f)
        /\ x6' = CtxOf(c, Wifi!Idle) \/ x6' = CtxOf(c, Busy(f, "look"))
        /\ x9'.what \in {"still", "moves"}
        /\ x9'.what = "moves" => x9'.frame = f /\ t.moved
    BY <1>6, <2>1, TrackStep
  <2>3. /\ t.table \in Seq([key : Wifi!Keys, heard : Seq(Int)])
        /\ p \in [Wifi!Keys -> Seq(Int)]
        /\ \A i \in DOMAIN t.table :
              /\ Wifi!Suffix(t.table[i].heard, p[t.table[i].key])
              /\ \A j \in DOMAIN t.table : t.table[i].key = t.table[j].key => i = j
        /\ t.moved => Wifi!Moved(p[f.key])
    BY <1>1, SamplesNext
  <2> HIDE DEF t, p
  <2>4. /\ x6' \in [Wifi!Contexts -> {Wifi!Idle} \cup Wifi!Working]
        /\ x7' \in [Wifi!Keys -> SUBSET Wifi!Samplings] /\ Wifi!LimiterInv'
    BY <2>2, <1>1, CalmNext
  <2>5. Wifi!TypedInv'
    BY <2>2, <2>3, <2>4, <1>2, <1>3
  <2>6. Wifi!TrackerInv'
    BY <2>2, <2>3 DEF Wifi!TrackerInv, Wifi!Suffix
  <2>7. Wifi!HushedWasTold'
    BY <2>2 DEF Wifi!HushedWasTold
  <2>8. Wifi!MovesMeansMoved'
    BY <2>2, <2>3 DEF Wifi!MovesMeansMoved, Wifi!Moved
  <2> QED BY <2>4, <2>5, <2>6, <2>7, <2>8 DEF Wifi!ReportsInv
<1>7. ASSUME NEW c \in Wifi!Contexts, Wifi!Pressure(c) PROVE Wifi!ReportsInv'
  <2>1. PICK f \in Air : f = x6[c].frame
    BY <1>1, <1>7, HandOf DEF Wifi!Pressure
  <2>2. /\ x6[c].pc = "look" /\ UNCHANGED <<x1, x3, x5, x7, x8>>
        /\ x6' = CtxOf(c, Wifi!Idle) /\ x9'.what = "dropped"
    BY <1>7 DEF Wifi!Pressure, Wifi!Done, Wifi!Verdict, CtxOf
  <2>3. /\ x6' \in [Wifi!Contexts -> {Wifi!Idle} \cup Wifi!Working]
        /\ x7' \in [Wifi!Keys -> SUBSET Wifi!Samplings] /\ Wifi!LimiterInv'
    BY <2>2, <1>1, CalmNext
  <2>4. Wifi!TypedInv'
    BY <2>2, <2>3, <1>2, <1>3
  <2>5. Wifi!TrackerInv'
    BY <2>2, <1>1, TrackerStays
  <2> QED BY <2>2, <2>3, <2>4, <2>5, VerdictNone DEF Wifi!ReportsInv
<1>8. ASSUME NEW c \in Wifi!Contexts, Wifi!Look(c) PROVE Wifi!ReportsInv'
  <2>1. /\ UNCHANGED <<x1, x5, x8>> /\ x3' \in Rings
        /\ x6' \in [Wifi!Contexts -> {Wifi!Idle} \cup Wifi!Working]
        /\ x7' \in [Wifi!Keys -> SUBSET Wifi!Samplings]
        /\ Wifi!LimiterInv' /\ Wifi!HushedWasTold' /\ Wifi!MovesMeansMoved'
    BY <1>1, <1>8, LookNext
  <2>2. Wifi!TypedInv' /\ Wifi!TrackerInv'
    BY <2>1, <1>1, <1>2, <1>3, TrackerStays
  <2> QED BY <2>1, <2>2 DEF Wifi!ReportsInv
<1>9. ASSUME NEW c \in Wifi!Contexts, Wifi!Write(c) PROVE Wifi!ReportsInv'
  <2>1. /\ UNCHANGED <<x1, x5, x7, x8>> /\ x9' = Wifi!Nothing /\ x3' \in Rings
        /\ x6' \in [Wifi!Contexts -> {Wifi!Idle} \cup Wifi!Working]
        /\ Wifi!LimiterInv'
    BY <1>1, <1>9, WriteNext
  <2>2. Wifi!TypedInv' /\ Wifi!TrackerInv'
    BY <2>1, <1>1, <1>2, <1>3, TrackerStays
  <2>3. x9'.what = "none"
    BY <2>1 DEF Wifi!Nothing
  <2> QED BY <2>1, <2>2, <2>3, VerdictNone DEF Wifi!ReportsInv
<1>10. ASSUME NEW c \in Wifi!Contexts, Wifi!Advance(c) PROVE Wifi!ReportsInv'
  <2>1. /\ UNCHANGED <<x1, x5, x8>> /\ x9'.what \in {"dropped", "told"} /\ x3' \in Rings
        /\ x6' \in [Wifi!Contexts -> {Wifi!Idle} \cup Wifi!Working]
        /\ x7' \in [Wifi!Keys -> SUBSET Wifi!Samplings]
        /\ Wifi!LimiterInv'
    BY <1>1, <1>10, AdvanceNext
  <2>2. Wifi!TypedInv' /\ Wifi!TrackerInv'
    BY <2>1, <1>1, <1>2, <1>3, TrackerStays
  <2> QED BY <2>1, <2>2, VerdictNone DEF Wifi!ReportsInv
<1>11. CASE Wifi!Tick
  <2>1. /\ x1' \in Nat /\ UNCHANGED <<x3, x5, x6, x8>> /\ x9' = Wifi!Nothing
        /\ x7' \in [Wifi!Keys -> SUBSET Wifi!Samplings]
        /\ Wifi!LimiterInv'
    BY <1>1, <1>11, TickNext
  <2>2. Wifi!TypedInv' /\ Wifi!TrackerInv'
    BY <2>1, <1>1, <1>2, <1>3, TrackerStays
  <2>3. x9'.what = "none"
    BY <2>1 DEF Wifi!Nothing
  <2> QED BY <2>1, <2>2, <2>3, VerdictNone DEF Wifi!ReportsInv
<1> QED BY <1>4, <1>5, <1>6, <1>7, <1>8, <1>9, <1>10, <1>11 DEF Wifi!Next

-----------------------------------------------------------------------------
(* The clones (EvilTwin): x1 now, x2 left, x3 table, x4 heard, x5 told,      *)
(* x6 alert.  First the two tables, which are used alike.                    *)
LEMMA MinOf ==
    ASSUME NEW S, S \subseteq Nat, S # {}
    PROVE  Twin!Min(S) \in S
BY LeastOf DEF Twin!Min

LEMMA OldestOf ==
    ASSUME NEW q, DOMAIN q \subseteq Nat, DOMAIN q # {}, \A i \in DOMAIN q : q[i].at \in Nat
    PROVE  Twin!Oldest(q) \in DOMAIN q
<1> DEFINE f == [i \in DOMAIN q |-> q[i].at]
<1>1. \A i \in DOMAIN q : f[i] = q[i].at
  OBVIOUS
<1> HIDE DEF f
<1>2. \E i \in DOMAIN q : \A j \in DOMAIN q : f[i] < f[j] \/ (f[i] = f[j] /\ i <= j)
  BY <1>1, FirstLeastOf
<1>3. \E i \in DOMAIN q :
         \A j \in DOMAIN q : q[i].at < q[j].at \/ (q[i].at = q[j].at /\ i <= j)
  BY <1>1, <1>2
<1> QED BY <1>3 DEF Twin!Oldest

\* The place in a table: the own one, a free one, or that of the oldest entry.
LEMMA PlaceOf ==
    ASSUME NEW S, NEW q \in Seq(S), \A i \in 1..Len(q) : q[i].at \in Nat,
           NEW slots \in Nat \ {0}, NEW mine, mine \subseteq DOMAIN q
    PROVE  LET i == Twin!Place(q, slots, mine)
           IN  /\ i \in 1..(Len(q) + 1)
               /\ mine # {} => i \in mine
               /\ mine = {} /\ Len(q) < slots => i = Len(q) + 1
               /\ Len(q) \in Nat /\ DOMAIN q = 1..Len(q)
<1>1. Len(q) \in Nat /\ DOMAIN q = 1..Len(q)
  BY LenProperties
<1>2. CASE mine # {}
  <2>1. Twin!Min(mine) \in mine
    BY <1>1, <1>2, MinOf
  <2> QED BY <1>1, <1>2, <2>1 DEF Twin!Place
<1>3. CASE mine = {} /\ Len(q) < slots
  BY <1>1, <1>3 DEF Twin!Place
<1>4. CASE mine = {} /\ ~(Len(q) < slots)
  <2>1. Twin!Oldest(q) \in DOMAIN q
    <3>1. DOMAIN q \subseteq Nat /\ DOMAIN q # {}
      BY <1>1, <1>4
    <3>2. \A i \in DOMAIN q : q[i].at \in Nat
      BY <1>1
    <3> QED BY <3>1, <3>2, OldestOf
  <2> QED BY <1>1, <1>4, <2>1 DEF Twin!Place
<1> QED BY <1>2, <1>3, <1>4

LEMMA WithOf ==
    ASSUME NEW S, NEW q \in Seq(S), NEW i \in 1..(Len(q) + 1), NEW x \in S
    PROVE  LET w == Twin!With(q, i, x)
           IN  /\ w \in Seq(S) /\ DOMAIN w = 1..Len(w) /\ i \in DOMAIN w
               /\ \A j \in DOMAIN w : /\ w[j] = IF j = i THEN x ELSE q[j]
                                      /\ j # i => j \in DOMAIN q
               /\ \A j \in DOMAIN q : j \in DOMAIN w
               /\ Len(w) = IF i > Len(q) THEN Len(q) + 1 ELSE Len(q)
<1> DEFINE w == Twin!With(q, i, x)
<1>1. Len(q) \in Nat /\ DOMAIN q = 1..Len(q)
  BY LenProperties
<1>2. CASE i > Len(q)
  <2>1. w = Append(q, x) /\ i = Len(q) + 1
    BY <1>1, <1>2 DEF Twin!With
  <2> HIDE DEF w
  <2>2. /\ w \in Seq(S) /\ Len(w) = Len(q) + 1 /\ w[Len(q) + 1] = x
        /\ \A j \in 1..Len(q) : w[j] = q[j]
    BY <2>1, AppendProperties
  <2>3. DOMAIN w = 1..Len(w)
    BY <2>2, LenProperties
  <2> QED BY <1>1, <1>2, <2>1, <2>2, <2>3 DEF w
<1>3. CASE ~(i > Len(q))
  <2>1. w = [q EXCEPT ![i] = x] /\ i \in 1..Len(q)
    BY <1>1, <1>3 DEF Twin!With
  <2> HIDE DEF w
  <2>2. /\ w \in Seq(S) /\ Len(w) = Len(q)
        /\ \A j \in 1..Len(q) : w[j] = IF j = i THEN x ELSE q[j]
    BY <2>1, ExceptSeq
  <2>3. DOMAIN w = 1..Len(w)
    BY <2>2, LenProperties
  <2> QED BY <1>1, <1>3, <2>1, <2>2, <2>3 DEF w
<1> QED BY <1>2, <1>3

LEMMA SizeOf == \A S : Twin!Cardinality(S) = Cardinality(S)
BY DEF Twin!Cardinality, Cardinality

\* What has a member of its own for each of its places is no longer than the set.
LEMMA FewOf ==
    ASSUME NEW n \in Nat, NEW T, IsFiniteSet(T), NEW f \in [1..n -> T],
           \A i, j \in 1..n : f[i] = f[j] => i = j
    PROVE  n <= Twin!Cardinality(T)
<1>1. f \in Injection(1..n, T)
  BY DEF Injection, IsInjective
<1>2. Cardinality(1..n) <= Cardinality(T)
  BY <1>1, FS_Injection
<1>3. Cardinality(1..n) = n
  BY FS_Interval
<1> QED BY <1>2, <1>3, SizeOf

LEMMA MoreOf ==
    ASSUME NEW S, NEW T, IsFiniteSet(T), S \subseteq T
    PROVE  Twin!Cardinality(S) <= Twin!Cardinality(T) /\ Twin!Cardinality(S) \in Nat
           /\ Twin!Cardinality(T) \in Nat
BY FS_Subset, FS_CardinalityType, SizeOf

LEMMA FiniteAir ==
    IsFiniteSet(Twin!Ssids) /\ IsFiniteSet(Twin!Aps)
<1>1. IsFiniteSet(Sights)
  BY TwinAssumption
<1>2. [s \in Sights |-> s.ssid] \in Surjection(Sights, Twin!Ssids)
  BY DEF Surjection, Twin!Ssids
<1>3. [s \in Sights |-> s.ap] \in Surjection(Sights, Twin!Aps)
  BY DEF Surjection, Twin!Aps
<1> QED BY <1>1, <1>2, <1>3, FS_Surjection

\* A point is observed, among those of its name that the tables hold.
SeenIn(aps, s) ==
    LET mine == {i \in DOMAIN aps : aps[i].ap = s.ap}
        i    == Twin!Place(aps, ApSlots, mine)
        new  == IF mine # {} THEN [aps[i] EXCEPT !.auth = s.auth, !.weak = s.weak, !.at = x1]
                ELSE [ap |-> s.ap, auth |-> s.auth, weak |-> s.weak, at |-> x1, alert |-> 0]
    IN  [aps |-> Twin!With(aps, i, new), current |-> i, new |-> mine = {}]
There(here, s) == [here EXCEPT ![s.ap] = [auth |-> s.auth, weak |-> s.weak, at |-> x1]]

LEMMA SightOf ==
    ASSUME NEW s \in Sights
    PROVE  /\ s.ssid \in Twin!Ssids /\ s.ap \in Twin!Aps /\ s.auth \in Twin!Auths /\ s.weak \in Nat
<1>1. s.weak \in Nat
  BY TwinAssumption
<1> QED BY <1>1 DEF Twin!Ssids, Twin!Aps, Twin!Auths

LEMMA PointSeen ==
    ASSUME NEW p \in Twin!Point, NEW s \in Sights, x1 \in Nat \ {0}
    PROVE  LET n == [p EXCEPT !.auth = s.auth, !.weak = s.weak, !.at = x1]
           IN  /\ n \in Twin!Point /\ n.ap = p.ap /\ n.alert = p.alert
               /\ n.auth = s.auth /\ n.weak = s.weak /\ n.at = x1
BY SightOf DEF Twin!Point

LEMMA PointNew ==
    ASSUME NEW s \in Sights, x1 \in Nat \ {0}
    PROVE  [ap |-> s.ap, auth |-> s.auth, weak |-> s.weak, at |-> x1, alert |-> 0] \in Twin!Point
BY SightOf DEF Twin!Point

LEMMA ThereOf ==
    ASSUME NEW s \in Sights, NEW here \in [Twin!Aps -> Twin!Hearing], x1 \in Nat \ {0}
    PROVE  /\ There(here, s) \in [Twin!Aps -> Twin!Hearing]
           /\ \A a \in Twin!Aps : a # s.ap => There(here, s)[a] = here[a]
           /\ There(here, s)[s.ap].auth = s.auth /\ There(here, s)[s.ap].weak = s.weak
           /\ There(here, s)[s.ap].at = x1
<1> DEFINE h == [auth |-> s.auth, weak |-> s.weak, at |-> x1]
<1>1. h \in Twin!Hearing /\ h.auth = s.auth /\ h.weak = s.weak /\ h.at = x1
  BY SightOf DEF Twin!Hearing
<1>2. There(here, s) = [here EXCEPT ![s.ap] = h]
  BY DEF There
<1> HIDE DEF h
<1>3. s.ap \in Twin!Aps
  BY SightOf
<1> QED BY <1>1, <1>2, <1>3

\* The point observed, in its place among the others.
LEMMA SeenOf ==
    ASSUME NEW aps \in Seq(Twin!Point), NEW s \in Sights, x1 \in Nat \ {0}
    PROVE  LET n == SeenIn(aps, s)  i == n.current
               mine == {j \in DOMAIN aps : aps[j].ap = s.ap}
           IN  /\ n.aps \in Seq(Twin!Point) /\ DOMAIN n.aps = 1..Len(n.aps) /\ i \in DOMAIN n.aps
               /\ n.aps[i].ap = s.ap /\ n.aps[i].auth = s.auth
               /\ n.aps[i].weak = s.weak /\ n.aps[i].at = x1
               /\ \A j \in DOMAIN n.aps : j # i => j \in DOMAIN aps /\ n.aps[j] = aps[j]
               /\ \A j \in DOMAIN aps : j \in DOMAIN n.aps
               /\ mine # {} => i \in mine /\ n.aps[i].alert = aps[i].alert
               /\ mine = {} => n.aps[i].alert = 0 /\ (Len(aps) < ApSlots => i = Len(aps) + 1)
               /\ n.new <=> mine = {}
<1> DEFINE mine == {j \in DOMAIN aps : aps[j].ap = s.ap}
           i == Twin!Place(aps, ApSlots, mine)
           new == IF mine # {} THEN [aps[i] EXCEPT !.auth = s.auth, !.weak = s.weak, !.at = x1]
                  ELSE [ap |-> s.ap, auth |-> s.auth, weak |-> s.weak, at |-> x1, alert |-> 0]
           w == Twin!With(aps, i, new)
<1>1. SeenIn(aps, s) = [aps |-> w, current |-> i, new |-> mine = {}]
  BY DEF SeenIn
<1>2. /\ i \in 1..(Len(aps) + 1) /\ (mine # {} => i \in mine)
      /\ (mine = {} /\ Len(aps) < ApSlots => i = Len(aps) + 1)
  <2>1. \A j \in 1..Len(aps) : aps[j].at \in Nat
    <3>1. \A j \in 1..Len(aps) : aps[j] \in Twin!Point
      BY ElementOfSeq
    <3> QED BY <3>1 DEF Twin!Point
  <2>2. ApSlots \in Nat \ {0}
    BY TwinAssumption
  <2>3. mine \subseteq DOMAIN aps
    OBVIOUS
  <2> HIDE DEF mine
  <2> QED BY <2>1, <2>2, <2>3, PlaceOf
<1>3. /\ new \in Twin!Point /\ new.ap = s.ap /\ new.auth = s.auth /\ new.weak = s.weak
      /\ new.at = x1 /\ (mine # {} => new.alert = aps[i].alert) /\ (mine = {} => new.alert = 0)
  <2>1. CASE mine # {}
    <3>1. aps[i] \in Twin!Point /\ aps[i].ap = s.ap
      BY <2>1, <1>2, LenProperties, ElementOfSeq
    <3> DEFINE n == [aps[i] EXCEPT !.auth = s.auth, !.weak = s.weak, !.at = x1]
    <3>2. /\ n \in Twin!Point /\ n.ap = aps[i].ap /\ n.alert = aps[i].alert
          /\ n.auth = s.auth /\ n.weak = s.weak /\ n.at = x1
      BY <3>1, PointSeen
    <3>3. new = n
      BY <2>1
    <3> HIDE DEF n, new, mine, i
    <3> QED BY <3>1, <3>2, <3>3, <2>1
  <2>2. CASE mine = {}
    <3>1. new = [ap |-> s.ap, auth |-> s.auth, weak |-> s.weak, at |-> x1, alert |-> 0]
      BY <2>2
    <3> HIDE DEF new, mine, i
    <3> QED BY <3>1, <2>2, PointNew
  <2> QED BY <2>1, <2>2
<1> HIDE DEF i, new
<1>4. /\ w \in Seq(Twin!Point) /\ DOMAIN w = 1..Len(w) /\ i \in DOMAIN w
      /\ \A j \in DOMAIN w : /\ w[j] = IF j = i THEN new ELSE aps[j]
                             /\ j # i => j \in DOMAIN aps
      /\ \A j \in DOMAIN aps : j \in DOMAIN w
  <2>1. new \in Twin!Point /\ i \in 1..(Len(aps) + 1)
    BY <1>2, <1>3
  <2> QED BY <2>1, WithOf, SMTT(60)
<1> HIDE DEF w, mine
<1>5. /\ SeenIn(aps, s).aps = w /\ SeenIn(aps, s).current = i
      /\ SeenIn(aps, s).new <=> mine = {}
  <2>1. SeenIn(aps, s).aps = w /\ SeenIn(aps, s).current = i
    BY <1>1
  <2> DEFINE b == mine = {}
  <2>2. SeenIn(aps, s) = [aps |-> w, current |-> i, new |-> b]
    BY <1>1
  <2> HIDE DEF b
  <2>3. SeenIn(aps, s).new = b
    BY <2>2
  <2>4. SeenIn(aps, s).new = (mine = {})
    BY <2>3 DEF b
  <2> QED BY <2>1, <2>4
<1>6. /\ w[i] = new
      /\ \A j \in DOMAIN w : j # i => j \in DOMAIN aps /\ w[j] = aps[j]
  BY <1>4
<1> QED BY <1>2, <1>3, <1>4, <1>5, <1>6 DEF mine

LEMMA AgreesSeen ==
    ASSUME NEW aps \in Seq(Twin!Point), NEW s \in Sights, x1 \in Nat \ {0},
           NEW here \in [Twin!Aps -> Twin!Hearing], Twin!Agrees(aps, here)
    PROVE  Twin!Agrees(SeenIn(aps, s).aps, There(here, s))
<1> DEFINE n == SeenIn(aps, s)  w == n.aps  i == n.current  there == There(here, s)
<1>1. /\ i \in DOMAIN w /\ w[i].ap = s.ap /\ w[i].auth = s.auth
      /\ w[i].weak = s.weak /\ w[i].at = x1
      /\ \A j \in DOMAIN w : j # i => j \in DOMAIN aps /\ w[j] = aps[j]
  BY SeenOf
<1>2. {j \in DOMAIN aps : aps[j].ap = s.ap} # {} => i \in DOMAIN aps /\ aps[i].ap = s.ap
  BY SeenOf
<1>3. /\ \A a \in Twin!Aps : a # s.ap => there[a] = here[a]
      /\ there[s.ap].auth = s.auth /\ there[s.ap].weak = s.weak /\ there[s.ap].at = x1
  BY ThereOf
<1>4. \A j \in DOMAIN aps : aps[j].ap \in Twin!Aps
  <2>1. \A j \in DOMAIN aps : aps[j] \in Twin!Point
    BY LenProperties, ElementOfSeq
  <2> QED BY <2>1 DEF Twin!Point
<1> HIDE DEF n, w, i, there
<1>5. \A j \in DOMAIN w : j # i => aps[j].ap # s.ap
  BY <1>1, <1>2 DEF Twin!Agrees
<1>6. ASSUME NEW p \in DOMAIN w
      PROVE  /\ there[w[p].ap].auth = w[p].auth /\ there[w[p].ap].weak = w[p].weak
             /\ there[w[p].ap].at = w[p].at
             /\ \A q \in DOMAIN w : w[p].ap = w[q].ap => p = q
  <2>1. CASE p = i
    BY <1>1, <1>3, <1>5, <2>1
  <2>2. CASE p # i
    <3>1. p \in DOMAIN aps /\ w[p] = aps[p] /\ aps[p].ap # s.ap
      BY <1>1, <1>5, <2>2
    <3>2. there[aps[p].ap] = here[aps[p].ap]
      BY <3>1, <1>3, <1>4
    <3>3. /\ here[aps[p].ap].auth = aps[p].auth /\ here[aps[p].ap].weak = aps[p].weak
          /\ here[aps[p].ap].at = aps[p].at
          /\ \A q \in DOMAIN aps : aps[p].ap = aps[q].ap => p = q
      BY <3>1 DEF Twin!Agrees
    <3> QED BY <3>1, <3>2, <3>3, <1>1
  <2> QED BY <2>1, <2>2
<1> QED BY <1>6 DEF Twin!Agrees, n, w, there

LEMMA CompleteSeen ==
    ASSUME NEW aps \in Seq(Twin!Point), NEW s \in Sights, x1 \in Nat \ {0},
           NEW here \in [Twin!Aps -> Twin!Hearing], Twin!Agrees(aps, here),
           NEW tell \in [Twin!Aps -> Nat], Twin!Complete(aps, here, tell),
           here[s.ap].at = 0 => tell[s.ap] = 0,
           Twin!Cardinality({a \in Twin!Aps : There(here, s)[a].at > 0}) <= ApSlots
    PROVE  Twin!Complete(SeenIn(aps, s).aps, There(here, s), tell)
<1> DEFINE n == SeenIn(aps, s)  w == n.aps  i == n.current  there == There(here, s)
           mine == {j \in DOMAIN aps : aps[j].ap = s.ap}
           H == {a \in Twin!Aps : there[a].at > 0}
<1>1. /\ i \in DOMAIN w /\ w[i].ap = s.ap
      /\ \A j \in DOMAIN w : j # i => j \in DOMAIN aps /\ w[j] = aps[j]
      /\ \A j \in DOMAIN aps : j \in DOMAIN w
      /\ mine # {} => i \in mine /\ w[i].alert = aps[i].alert
      /\ mine = {} => w[i].alert = 0 /\ (Len(aps) < ApSlots => i = Len(aps) + 1)
  BY SeenOf
<1>2. /\ \A a \in Twin!Aps : a # s.ap => there[a] = here[a]
      /\ there[s.ap].at = x1 /\ there \in [Twin!Aps -> Twin!Hearing]
  BY ThereOf
<1>3. /\ s.ap \in Twin!Aps /\ Len(aps) \in Nat /\ DOMAIN aps = 1..Len(aps)
      /\ \A j \in DOMAIN aps : aps[j].ap \in Twin!Aps /\ aps[j].at \in Nat \ {0}
  <2>1. DOMAIN aps = 1..Len(aps) /\ Len(aps) \in Nat
    BY LenProperties
  <2>2. \A j \in DOMAIN aps : aps[j] \in Twin!Point
    BY <2>1, ElementOfSeq
  <2> QED BY <2>1, <2>2, SightOf DEF Twin!Point
<1>4. \A a \in Twin!Aps : here[a].at \in Nat
  BY DEF Twin!Hearing
<1>5. Twin!Cardinality(H) <= ApSlots
  OBVIOUS
<1> HIDE DEF n, w, i, there, mine
<1>6. \A j \in DOMAIN aps : here[aps[j].ap].at = aps[j].at
  BY DEF Twin!Agrees
<1>7. mine = {} => here[s.ap].at = 0
  <2> SUFFICES ASSUME here[s.ap].at > 0 PROVE mine # {}
    BY <1>3, <1>4
  <2>1. PICK p \in DOMAIN aps : aps[p].ap = s.ap
    BY <1>3 DEF Twin!Complete
  <2> QED BY <2>1 DEF mine
<1>8. mine = {} => i = Len(aps) + 1
  <2> SUFFICES ASSUME mine = {} PROVE Len(aps) < ApSlots
    BY <1>1
  <2> DEFINE m == Len(aps) + 1
             f == [j \in 1..m |-> IF j = m THEN s.ap ELSE aps[j].ap]
  <2>1. \A j \in 1..Len(aps) : aps[j].ap # s.ap
    BY <1>3 DEF mine
  <2>2. \A j \in 1..m : f[j] = IF j = m THEN s.ap ELSE aps[j].ap
    OBVIOUS
  <2>3. \A j \in 1..m : j = m \/ j \in 1..Len(aps)
    BY <1>3
  <2>4. \A j \in 1..m : f[j] \in H
    <3>1. s.ap \in H
      BY <1>2, <1>3
    <3>2. \A j \in 1..Len(aps) : aps[j].ap \in H
      BY <2>1, <1>2, <1>3, <1>6
    <3> HIDE DEF f, H
    <3> QED BY <3>1, <3>2, <2>2, <2>3
  <2>5. f \in [1..m -> H]
    <3> HIDE DEF H
    <3> QED BY <2>4
  <2> HIDE DEF f, H
  <2>6. \A j, k \in 1..m : f[j] = f[k] => j = k
    <3> SUFFICES ASSUME NEW j \in 1..m, NEW k \in 1..m, f[j] = f[k] PROVE j = k
      OBVIOUS
    <3>1. CASE j = m \/ k = m
      BY <3>1, <2>1, <2>2, <2>3
    <3>2. CASE j # m /\ k # m
      <4>1. j \in DOMAIN aps /\ k \in DOMAIN aps /\ aps[j].ap = aps[k].ap
        BY <3>2, <2>2, <2>3, <1>3
      <4> QED BY <4>1 DEF Twin!Agrees
    <3> QED BY <3>1, <3>2
  <2>7. IsFiniteSet(H)
    BY FiniteAir, FS_Subset DEF H
  <2>8. m <= Twin!Cardinality(H)
    <3>1. m \in Nat
      BY <1>3
    <3> HIDE DEF m
    <3> QED BY <3>1, <2>5, <2>6, <2>7, FewOf
  <2>9. Twin!Cardinality(H) \in Nat /\ ApSlots \in Nat
    BY <2>7, MoreOf, TwinAssumption
  <2> QED BY <2>8, <2>9, <1>3, <1>5
<1>9. w[i].alert = tell[s.ap]
  <2>1. CASE mine = {}
    BY <2>1, <1>1, <1>7
  <2>2. CASE mine # {}
    <3>1. i \in DOMAIN aps /\ aps[i].ap = s.ap /\ w[i].alert = aps[i].alert
      BY <2>2, <1>1 DEF mine
    <3>2. here[s.ap].at > 0
      BY <3>1, <1>3, <1>6
    <3>3. PICK p \in DOMAIN aps : aps[p].ap = s.ap /\ aps[p].alert = tell[s.ap]
      BY <3>2, <1>3 DEF Twin!Complete
    <3>4. p = i
      BY <3>1, <3>3 DEF Twin!Agrees
    <3> QED BY <3>1, <3>3, <3>4
  <2> QED BY <2>1, <2>2
<1>10. ASSUME NEW a \in Twin!Aps, there[a].at > 0
       PROVE  \E p \in DOMAIN w : w[p].ap = a /\ w[p].alert = tell[a]
  <2>1. CASE a = s.ap
    BY <2>1, <1>1, <1>9
  <2>2. CASE a # s.ap
    <3>1. here[a].at > 0
      BY <2>2, <1>2, <1>10
    <3>2. PICK p \in DOMAIN aps : aps[p].ap = a /\ aps[p].alert = tell[a]
      BY <3>1 DEF Twin!Complete
    <3>3. p # i
      <4>1. CASE mine = {}
        BY <4>1, <3>2, <1>3, <1>8
      <4>2. CASE mine # {}
        BY <4>2, <3>2, <2>2, <1>1 DEF mine
      <4> QED BY <4>1, <4>2
    <3>4. p \in DOMAIN w /\ w[p] = aps[p]
      BY <3>2, <3>3, <1>1, SMTT(60)
    <3> QED BY <3>2, <3>4
  <2> QED BY <2>1, <2>2
<1> QED BY <1>10 DEF Twin!Complete, n, w, there

\* Whether an alert is raised, of whom, against whom, and what it leaves.
Raised(n) == Twin!Alerts(n) # {}
Accused(n) == Twin!Suspect(n.aps[n.current], n.aps[Twin!Best(n)], n.current, Twin!Best(n))
Beside(n) == IF Accused(n) = n.current THEN Twin!Best(n) ELSE n.current
Marked(n) == IF Raised(n) THEN [n.aps EXCEPT ![Accused(n)].alert = x1] ELSE n.aps
Telling(tell, n) == IF Raised(n) THEN [tell EXCEPT ![Marked(n)[Accused(n)].ap] = x1] ELSE tell

LEMMA AlertOf ==
    ASSUME NEW n, n.aps \in Seq(Twin!Point), n.current \in DOMAIN n.aps, Raised(n)
    PROVE  LET i == n.current  j == Twin!Best(n)  k == Accused(n)
           IN  /\ j \in DOMAIN n.aps /\ j # i /\ k \in {i, j}
               /\ Beside(n) \in {i, j} /\ k # Beside(n)
               /\ x1 - n.aps[j].at <= Lately
               /\ \/ n.aps[k].auth = "open" /\ n.aps[Beside(n)].auth # "open"
                  \/ /\ n.aps[k].auth # "open" /\ n.aps[Beside(n)].auth # "open"
                     /\ n.aps[k].auth # n.aps[Beside(n)].auth
<1> DEFINE q == n.aps  i == n.current
           susp(j) == Twin!Suspect(q[i], q[j], i, j)
           A == Twin!Alerts(n)
           f == [j \in A |-> q[susp(j)].weak]
<1>1. DOMAIN q = 1..Len(q) /\ Len(q) \in Nat /\ \A j \in DOMAIN q : q[j].weak \in Nat
  <2>1. DOMAIN q = 1..Len(q) /\ Len(q) \in Nat
    BY LenProperties
  <2>2. \A j \in DOMAIN q : q[j] \in Twin!Point
    BY <2>1, ElementOfSeq
  <2> QED BY <2>1, <2>2 DEF Twin!Point
<1>2. \A j \in A : /\ j \in DOMAIN q /\ j # i /\ susp(j) \in {i, j}
                   /\ Twin!StillFresh(q[j])
                   /\ Twin!Mixed(q[i], q[j]) \/ Twin!StrongClone(q[i], q[j])
  BY DEF Twin!Alerts, Twin!Suspect
<1>3. DOMAIN f = A /\ A # {} /\ A \subseteq Nat /\ \A j \in A : f[j] \in Nat
  BY <1>1, <1>2 DEF Raised
<1>4. \A j \in A : f[j] = q[susp(j)].weak
  OBVIOUS
<1> HIDE DEF f
<1>5. \E j \in A : \A k \in A : f[j] < f[k] \/ (f[j] = f[k] /\ j <= k)
  BY <1>3, FirstLeastOf
<1>6. \E j \in A : \A k \in A : \/ q[susp(j)].weak < q[susp(k)].weak
                                \/ q[susp(j)].weak = q[susp(k)].weak /\ j <= k
  BY <1>4, <1>5
<1>7. Twin!Best(n) \in A
  BY <1>6 DEF Twin!Best
<1>8. Accused(n) = susp(Twin!Best(n))
  BY DEF Accused
<1>9. x1 - n.aps[Twin!Best(n)].at <= Lately
  BY <1>2, <1>7 DEF Twin!StillFresh
<1> QED BY <1>2, <1>7, <1>8, <1>9 DEF Twin!Suspect, Beside, Twin!Mixed, Twin!StrongClone

\* An alert changes nothing but when the suspect was told.
LEMMA MarkedOf ==
    ASSUME NEW n, n.aps \in Seq(Twin!Point), n.current \in DOMAIN n.aps, x1 \in Nat \ {0}
    PROVE  LET w == Marked(n)
           IN  /\ w \in Seq(Twin!Point) /\ DOMAIN w = DOMAIN n.aps
               /\ \A j \in DOMAIN w : /\ w[j].ap = n.aps[j].ap /\ w[j].auth = n.aps[j].auth
                                      /\ w[j].weak = n.aps[j].weak /\ w[j].at = n.aps[j].at
               /\ Raised(n) => /\ Accused(n) \in DOMAIN w /\ w[Accused(n)].alert = x1
                               /\ \A j \in DOMAIN w : j # Accused(n) => w[j].alert = n.aps[j].alert
<1>1. CASE ~Raised(n)
  BY <1>1 DEF Marked
<1>2. CASE Raised(n)
  <2> DEFINE q == n.aps  k == Accused(n)  p == [q[k] EXCEPT !.alert = x1]  w == [q EXCEPT ![k] = p]
  <2>1. k \in DOMAIN q
    BY <1>2, AlertOf
  <2>2. DOMAIN q = 1..Len(q) /\ Len(q) \in Nat
    BY LenProperties
  <2>3. q[k] \in Twin!Point
    BY <2>1, <2>2, ElementOfSeq
  <2>4. Marked(n) = w
    BY <1>2 DEF Marked
  <2> HIDE DEF k
  <2>5. /\ p \in Twin!Point /\ p.ap = q[k].ap /\ p.auth = q[k].auth /\ p.weak = q[k].weak
        /\ p.at = q[k].at /\ p.alert = x1
    BY <2>3 DEF Twin!Point
  <2> HIDE DEF p
  <2>6. /\ w \in Seq(Twin!Point) /\ Len(w) = Len(q)
        /\ \A j \in 1..Len(q) : w[j] = IF j = k THEN p ELSE q[j]
    BY <2>1, <2>2, <2>5, ExceptSeq
  <2>7. DOMAIN w = 1..Len(w)
    BY <2>6, LenProperties
  <2> HIDE DEF w
  <2> QED BY <1>2, <2>1, <2>2, <2>4, <2>5, <2>6, <2>7 DEF k
<1> QED BY <1>1, <1>2

LEMMA AgreesMarked ==
    ASSUME NEW n, n.aps \in Seq(Twin!Point), n.current \in DOMAIN n.aps, x1 \in Nat \ {0},
           NEW here, Twin!Agrees(n.aps, here)
    PROVE  Twin!Agrees(Marked(n), here)
<1> DEFINE w == Marked(n)
<1>1. /\ DOMAIN w = DOMAIN n.aps
      /\ \A j \in DOMAIN w : /\ w[j].ap = n.aps[j].ap /\ w[j].auth = n.aps[j].auth
                             /\ w[j].weak = n.aps[j].weak /\ w[j].at = n.aps[j].at
  BY MarkedOf
<1> HIDE DEF w
<1>2. Twin!Agrees(w, here)
  BY <1>1 DEF Twin!Agrees
<1> QED BY <1>2 DEF w

LEMMA CompleteMarked ==
    ASSUME NEW n, n.aps \in Seq(Twin!Point), n.current \in DOMAIN n.aps, x1 \in Nat \ {0},
           NEW here, Twin!Agrees(n.aps, here), NEW tell \in [Twin!Aps -> Nat],
           Twin!Complete(n.aps, here, tell)
    PROVE  Twin!Complete(Marked(n), here, Telling(tell, n))
<1>1. CASE ~Raised(n)
  BY <1>1 DEF Marked, Telling
<1>2. CASE Raised(n)
  <2> DEFINE w == Marked(n)  k == Accused(n)  q == n.aps
  <2>1. /\ DOMAIN w = DOMAIN q
        /\ \A j \in DOMAIN w : w[j].ap = q[j].ap
        /\ k \in DOMAIN w /\ w[k].alert = x1
        /\ \A j \in DOMAIN w : j # k => w[j].alert = q[j].alert
    BY <1>2, MarkedOf
  <2>2. Telling(tell, n) = [tell EXCEPT ![w[k].ap] = x1]
    BY <1>2 DEF Telling
  <2> HIDE DEF w, k
  <2>3. ASSUME NEW a \in Twin!Aps, here[a].at > 0
        PROVE  \E p \in DOMAIN w : w[p].ap = a /\ w[p].alert = Telling(tell, n)[a]
    <3>1. PICK p \in DOMAIN q : q[p].ap = a /\ q[p].alert = tell[a]
      BY <2>3 DEF Twin!Complete
    <3>2. CASE p = k
      BY <3>1, <3>2, <2>1, <2>2
    <3>3. CASE p # k
      <4>1. w[k].ap # a
        BY <3>1, <3>3, <2>1 DEF Twin!Agrees
      <4> QED BY <3>1, <3>3, <4>1, <2>1, <2>2
    <3> QED BY <3>2, <3>3
  <2> QED BY <2>3 DEF Twin!Complete, w
<1> QED BY <1>1, <1>2

LEMMA TellingOf ==
    ASSUME NEW n, n.aps \in Seq(Twin!Point), n.current \in DOMAIN n.aps, x1 \in Nat \ {0},
           NEW tell \in [Twin!Aps -> Nat]
    PROVE  /\ Telling(tell, n) \in [Twin!Aps -> Nat]
           /\ \A a \in Twin!Aps : Telling(tell, n)[a] # tell[a] =>
                Raised(n) /\ a = n.aps[Accused(n)].ap
           /\ Raised(n) => /\ Marked(n)[Accused(n)].ap \in Twin!Aps
                           /\ Telling(tell, n)[Marked(n)[Accused(n)].ap] = x1
<1>1. CASE ~Raised(n)
  BY <1>1 DEF Telling
<1>2. CASE Raised(n)
  <2> DEFINE w == Marked(n)  k == Accused(n)
  <2>1. w \in Seq(Twin!Point) /\ k \in DOMAIN w /\ w[k].ap = n.aps[k].ap
    BY <1>2, MarkedOf
  <2>2. w[k] \in Twin!Point
    BY <2>1, LenProperties, ElementOfSeq
  <2>3. Telling(tell, n) = [tell EXCEPT ![w[k].ap] = x1]
    BY <1>2 DEF Telling
  <2>4. w[k].ap \in Twin!Aps
    BY <2>2 DEF Twin!Point
  <2> HIDE DEF w, k
  <2> QED BY <1>2, <2>1, <2>3, <2>4 DEF w, k
<1> QED BY <1>1, <1>2

\* The invariants' parts, of any tables and histories.
TableIs(table, heard) ==
    \A i \in DOMAIN table : /\ Twin!Agrees(table[i].aps, heard[table[i].ssid])
                            /\ DOMAIN table[i].aps # {}
                            /\ \A j \in DOMAIN table : table[i].ssid = table[j].ssid => i = j
HeardIn(here) == {a \in Twin!Aps : here[a].at > 0}
RoomIs(heard) ==
    /\ Twin!Cardinality({s \in Twin!Ssids : HeardIn(heard[s]) # {}}) <= SsidSlots
    /\ \A s \in Twin!Ssids : Twin!Cardinality(HeardIn(heard[s])) <= ApSlots
KeptIs(table, heard, told) ==
    \A s \in Twin!Ssids : HeardIn(heard[s]) # {} =>
       \E i \in DOMAIN table : table[i].ssid = s /\ Twin!Complete(table[i].aps, heard[s], told[s])

LEMMA TwinParts ==
    /\ Twin!TableInv <=> TableIs(x3, x4)
    /\ Twin!Roomy <=> RoomIs(x4)
    /\ Twin!KeptInv <=> /\ \A s \in Twin!Ssids, a \in Twin!Aps : x4[s][a].at = 0 => x5[s][a] = 0
                        /\ RoomIs(x4) => KeptIs(x3, x4, x5)
<1>1. Twin!TableInv <=> TableIs(x3, x4)
  BY DEF Twin!TableInv, TableIs
<1>2. \A s : Twin!Heard(s) = HeardIn(x4[s])
  BY DEF Twin!Heard, HeardIn
<1>3. Twin!Roomy <=> RoomIs(x4)
  BY <1>2 DEF Twin!Roomy, RoomIs
<1> QED BY <1>1, <1>2, <1>3 DEF Twin!KeptInv, KeptIs

LEMMA TwinNextParts ==
    ASSUME NEW t, NEW h, NEW d, x3' = t, x4' = h, x5' = d
    PROVE  /\ Twin!TableInv' <=> TableIs(t, h)
           /\ Twin!Roomy' <=> RoomIs(h)
           /\ Twin!KeptInv' <=> /\ \A s \in Twin!Ssids, a \in Twin!Aps :
                                      h[s][a].at = 0 => d[s][a] = 0
                                /\ RoomIs(h) => KeptIs(t, h, d)
<1>1. Twin!TableInv' <=> TableIs(t, h)
  BY DEF Twin!TableInv, TableIs, Twin!Agrees
<1>2. \A s : Twin!Heard(s)' = HeardIn(h[s])
  BY DEF Twin!Heard, HeardIn
<1>3. Twin!Roomy' <=> RoomIs(h)
  BY <1>2 DEF Twin!Roomy, RoomIs
<1> QED BY <1>1, <1>3 DEF Twin!KeptInv, KeptIs, Twin!Complete, Twin!Heard, HeardIn

LEMMA TwinInitial == Twin!Init => Twin!TwinInv
<1> SUFFICES ASSUME Twin!Init PROVE Twin!TwinInv
  OBVIOUS
<1>1. /\ x1 = 1 /\ x3 = <<>> /\ x6 = Twin!Nothing
      /\ x4 = [s \in Twin!Ssids |-> [a \in Twin!Aps |-> Twin!Never]]
      /\ x5 = [s \in Twin!Ssids |-> [a \in Twin!Aps |-> 0]]
  BY DEF Twin!Init
<1>2. Twin!Never \in Twin!Hearing /\ Twin!Never.at = 0
  BY DEF Twin!Never, Twin!Hearing
<1>3. Twin!TypedInv
  BY <1>1, <1>2 DEF Twin!TypedInv
<1>4. Twin!TableInv
  BY <1>1 DEF Twin!TableInv
<1>5. \A s \in Twin!Ssids, a \in Twin!Aps : x4[s][a].at = 0 /\ x5[s][a] = 0
  BY <1>1, <1>2
<1>6. Twin!KeptInv
  BY <1>5 DEF Twin!KeptInv, Twin!Heard
<1>7. Twin!AlertIsReal /\ Twin!CloneIsTold
  BY <1>1 DEF Twin!AlertIsReal, Twin!CloneIsTold, Twin!Nothing
<1> QED BY <1>3, <1>4, <1>6, <1>7 DEF Twin!TwinInv

\* Where a name's points are, if anywhere.
LEMMA EntryOf ==
    ASSUME Twin!TypedInv, Twin!TableInv, NEW t \in Twin!Ssids
    PROVE  LET l == Twin!SsidPlace(t)  aps == Twin!ApsOf(t)
           IN  /\ aps \in Seq(Twin!Point) /\ Twin!Agrees(aps, x4[t])
               /\ l \in 1..(Len(x3) + 1) /\ DOMAIN x3 = 1..Len(x3) /\ Len(x3) \in Nat
               /\ \/ l \in DOMAIN x3 /\ x3[l].ssid = t /\ aps = x3[l].aps
                  \/ /\ \A i \in DOMAIN x3 : x3[i].ssid # t
                     /\ Len(x3) < SsidSlots => l = Len(x3) + 1
<1> DEFINE mine == {i \in DOMAIN x3 : x3[i].ssid = t}
           l == Twin!SsidPlace(t)  aps == Twin!ApsOf(t)
<1>1. /\ x3 \in Seq(Twin!Entry) /\ DOMAIN x3 = 1..Len(x3) /\ Len(x3) \in Nat
      /\ \A i \in DOMAIN x3 : x3[i] \in Twin!Entry
  <2>1. x3 \in Seq(Twin!Entry)
    BY DEF Twin!TypedInv
  <2>2. DOMAIN x3 = 1..Len(x3) /\ Len(x3) \in Nat
    BY <2>1, LenProperties
  <2> QED BY <2>1, <2>2, ElementOfSeq
<1>2. l = Twin!Place(x3, SsidSlots, mine)
  BY DEF Twin!SsidPlace
<1> HIDE DEF mine
<1>3. /\ l \in 1..(Len(x3) + 1) /\ (mine # {} => l \in mine)
      /\ (mine = {} /\ Len(x3) < SsidSlots => l = Len(x3) + 1)
  <2>1. \A i \in 1..Len(x3) : x3[i].at \in Nat
    BY <1>1 DEF Twin!Entry
  <2>2. SsidSlots \in Nat \ {0} /\ mine \subseteq DOMAIN x3
    BY TwinAssumption DEF mine
  <2> QED BY <1>1, <1>2, <2>1, <2>2, PlaceOf
<1>4. aps = IF l \in DOMAIN x3 /\ x3[l].ssid = t THEN x3[l].aps ELSE <<>>
  BY DEF Twin!ApsOf
<1> HIDE DEF l, aps
<1>5. CASE mine # {}
  <2>1. l \in DOMAIN x3 /\ x3[l].ssid = t /\ aps = x3[l].aps
    BY <1>3, <1>4, <1>5 DEF mine
  <2>2. x3[l] \in Twin!Entry /\ Twin!Agrees(x3[l].aps, x4[x3[l].ssid])
    BY <2>1, <1>1 DEF Twin!TableInv
  <2>3. aps \in Seq(Twin!Point)
    BY <2>1, <2>2 DEF Twin!Entry
  <2> QED BY <1>1, <1>3, <2>1, <2>2, <2>3 DEF l, aps
<1>6. CASE mine = {}
  <2>1. \A i \in DOMAIN x3 : x3[i].ssid # t
    BY <1>6 DEF mine
  <2>2. aps = <<>>
    BY <2>1, <1>4
  <2>3. aps \in Seq(Twin!Point) /\ Twin!Agrees(aps, x4[t])
    BY <2>2 DEF Twin!Agrees
  <2> QED BY <1>1, <1>3, <1>6, <2>1, <2>3 DEF l, aps
<1> QED BY <1>5, <1>6

\* An observation, in the parts the lemmas are about.
LEMMA ObserveOf ==
    ASSUME Twin!TypedInv, NEW s \in Sights, Twin!Observe(s)
    PROVE  LET n == SeenIn(Twin!ApsOf(s.ssid), s)
               there == There(x4[s.ssid], s)  tell == Telling(x5[s.ssid], n)
               e == [ssid |-> s.ssid, aps |-> Marked(n), at |-> x1]
           IN  /\ x1' = x1 /\ x3' = Twin!With(x3, Twin!SsidPlace(s.ssid), e)
               /\ x4' = [x4 EXCEPT ![s.ssid] = there]
               /\ x5' = [x5 EXCEPT ![s.ssid] = tell]
               /\ x6'.ssid = s.ssid /\ x6'.ap = s.ap
               /\ x6'.what = (IF Raised(n) THEN "alert" ELSE "seen")
               /\ Raised(n) => /\ x6'.suspect = Marked(n)[Accused(n)].ap
                               /\ x6'.reference = Marked(n)[Beside(n)].ap
<1> DEFINE n == SeenIn(Twin!ApsOf(s.ssid), s)
           there == There(x4[s.ssid], s)  tell == Telling(x5[s.ssid], n)
           e == [ssid |-> s.ssid, aps |-> Marked(n), at |-> x1]
<1>1. Twin!Seen(s) = n
  BY DEF Twin!Seen, SeenIn
<1>2. Accused(n) = Twin!Suspect(n.aps[n.current], n.aps[Twin!Best(n)], n.current, Twin!Best(n))
  BY DEF Accused
<1>3. Marked(n) = IF Twin!Alerts(n) # {} THEN [n.aps EXCEPT ![Accused(n)].alert = x1] ELSE n.aps
  BY DEF Marked, Raised
<1>4. Beside(n) = IF Accused(n) = n.current THEN Twin!Best(n) ELSE n.current
  BY SMTT(60) DEF Beside
<1> DEFINE raised == Twin!Alerts(n) # {}
<1> HIDE DEF n
<1>5. /\ x1' = x1 /\ x3' = Twin!With(x3, Twin!SsidPlace(s.ssid), e)
      /\ x4' = [x4 EXCEPT ![s.ssid][s.ap] = [auth |-> s.auth, weak |-> s.weak, at |-> x1]]
      /\ x5' = IF raised THEN [x5 EXCEPT ![s.ssid][Marked(n)[Accused(n)].ap] = x1] ELSE x5
      /\ x6' = [what |-> IF raised THEN "alert" ELSE "seen", ssid |-> s.ssid, ap |-> s.ap,
                suspect |-> IF raised THEN Marked(n)[Accused(n)].ap ELSE s.ap,
                reference |-> IF raised THEN Marked(n)[Beside(n)].ap ELSE s.ap]
  BY <1>1, <1>2, <1>3, <1>4 DEF Twin!Observe
<1>6. x4' = [x4 EXCEPT ![s.ssid] = there]
  BY <1>5 DEF There
<1>7. x5' = [x5 EXCEPT ![s.ssid] = tell]
  <2>1. CASE raised
    BY <2>1, <1>5 DEF Telling, Raised
  <2>2. CASE ~raised
    <3>1. tell = x5[s.ssid] /\ x5' = x5
      BY <2>2, <1>5 DEF Telling, Raised
    <3>2. x5 \in [Twin!Ssids -> [Twin!Aps -> Nat]] /\ s.ssid \in Twin!Ssids
      BY SightOf DEF Twin!TypedInv
    <3> HIDE DEF tell
    <3> QED BY <3>1, <3>2
  <2> QED BY <2>1, <2>2
<1>8. /\ x6'.ssid = s.ssid /\ x6'.ap = s.ap
      /\ x6'.what = (IF raised THEN "alert" ELSE "seen")
      /\ raised => /\ x6'.suspect = Marked(n)[Accused(n)].ap
                   /\ x6'.reference = Marked(n)[Beside(n)].ap
  BY <1>5
<1> QED BY <1>5, <1>6, <1>7, <1>8 DEF n, Raised

Sighted(s) == SeenIn(Twin!ApsOf(s.ssid), s)
Noted(s) == [ssid |-> s.ssid, aps |-> Marked(Sighted(s)), at |-> x1]
NewTable(s) == Twin!With(x3, Twin!SsidPlace(s.ssid), Noted(s))
NewHeard(s) == [x4 EXCEPT ![s.ssid] = There(x4[s.ssid], s)]
NewTold(s) == [x5 EXCEPT ![s.ssid] = Telling(x5[s.ssid], Sighted(s))]

LEMMA SightedOf ==
    ASSUME Twin!TypedInv, Twin!TableInv, NEW s \in Sights
    PROVE  LET n == Sighted(s)  there == There(x4[s.ssid], s)
           IN  /\ n.aps \in Seq(Twin!Point) /\ n.current \in DOMAIN n.aps
               /\ n.aps[n.current].ap = s.ap /\ n.aps[n.current].auth = s.auth
               /\ Twin!Agrees(n.aps, there) /\ there \in [Twin!Aps -> Twin!Hearing]
               /\ \A j \in DOMAIN n.aps : n.aps[j] \in Twin!Point
               /\ s.ssid \in Twin!Ssids /\ x4[s.ssid] \in [Twin!Aps -> Twin!Hearing]
               /\ x5[s.ssid] \in [Twin!Aps -> Nat] /\ x1 \in Nat \ {0}
<1>1. /\ s.ssid \in Twin!Ssids /\ x4[s.ssid] \in [Twin!Aps -> Twin!Hearing]
      /\ x5[s.ssid] \in [Twin!Aps -> Nat] /\ x1 \in Nat \ {0}
  BY SightOf DEF Twin!TypedInv
<1> DEFINE aps == Twin!ApsOf(s.ssid)  here == x4[s.ssid]  n == Sighted(s)
<1>2. aps \in Seq(Twin!Point) /\ Twin!Agrees(aps, here)
  BY <1>1, EntryOf
<1>3. n = SeenIn(aps, s)
  BY DEF Sighted
<1> HIDE DEF aps, here, n
<1>4. /\ n.aps \in Seq(Twin!Point) /\ n.current \in DOMAIN n.aps
      /\ n.aps[n.current].ap = s.ap /\ n.aps[n.current].auth = s.auth
  BY <1>1, <1>2, <1>3, SeenOf
<1>5. here \in [Twin!Aps -> Twin!Hearing]
  BY <1>1 DEF here
<1>6. Twin!Agrees(n.aps, There(here, s)) /\ There(here, s) \in [Twin!Aps -> Twin!Hearing]
  BY <1>1, <1>2, <1>3, <1>5, AgreesSeen, ThereOf
<1>7. \A j \in DOMAIN n.aps : n.aps[j] \in Twin!Point
  BY <1>4, LenProperties, ElementOfSeq
<1> QED BY <1>1, <1>4, <1>6, <1>7 DEF here, n

LEMMA NotedOf ==
    ASSUME Twin!TypedInv, Twin!TableInv, NEW s \in Sights
    PROVE  /\ Noted(s) \in Twin!Entry /\ Noted(s).ssid = s.ssid
           /\ Noted(s).aps = Marked(Sighted(s)) /\ DOMAIN Noted(s).aps # {}
           /\ Twin!Agrees(Noted(s).aps, There(x4[s.ssid], s))
           /\ Telling(x5[s.ssid], Sighted(s)) \in [Twin!Aps -> Nat]
<1> DEFINE n == Sighted(s)  there == There(x4[s.ssid], s)
<1>1. /\ n.aps \in Seq(Twin!Point) /\ n.current \in DOMAIN n.aps /\ Twin!Agrees(n.aps, there)
      /\ s.ssid \in Twin!Ssids /\ x5[s.ssid] \in [Twin!Aps -> Nat] /\ x1 \in Nat \ {0}
  BY SightedOf
<1> HIDE DEF n, there
<1>2. Marked(n) \in Seq(Twin!Point) /\ DOMAIN Marked(n) = DOMAIN n.aps
  BY <1>1, MarkedOf
<1>3. Twin!Agrees(Marked(n), there)
  BY <1>1, AgreesMarked
<1>4. Telling(x5[s.ssid], n) \in [Twin!Aps -> Nat]
  BY <1>1, TellingOf
<1>5. Noted(s) = [ssid |-> s.ssid, aps |-> Marked(n), at |-> x1]
  BY DEF Noted, n
<1>6. Noted(s) \in Twin!Entry /\ Noted(s).ssid = s.ssid /\ Noted(s).aps = Marked(n)
  BY <1>1, <1>2, <1>5 DEF Twin!Entry
<1> QED BY <1>1, <1>2, <1>3, <1>4, <1>6 DEF n, there

LEMMA NewTableOf ==
    ASSUME Twin!TypedInv, Twin!TableInv, NEW s \in Sights
    PROVE  LET t == NewTable(s)  l == Twin!SsidPlace(s.ssid)
           IN  /\ t \in Seq(Twin!Entry) /\ l \in DOMAIN t /\ t[l] = Noted(s)
               /\ \A j \in DOMAIN t : j # l => /\ j \in DOMAIN x3 /\ t[j] = x3[j]
                                               /\ x3[j].ssid # s.ssid
               /\ \A j \in DOMAIN x3 : j \in DOMAIN t
               /\ \/ l \in DOMAIN x3 /\ x3[l].ssid = s.ssid /\ Twin!ApsOf(s.ssid) = x3[l].aps
                  \/ /\ \A i \in DOMAIN x3 : x3[i].ssid # s.ssid
                     /\ Len(x3) < SsidSlots => l = Len(x3) + 1
               /\ DOMAIN x3 = 1..Len(x3) /\ Len(x3) \in Nat
<1> DEFINE t == NewTable(s)  l == Twin!SsidPlace(s.ssid)  e == Noted(s)
<1>1. /\ l \in 1..(Len(x3) + 1) /\ DOMAIN x3 = 1..Len(x3) /\ Len(x3) \in Nat
      /\ \/ l \in DOMAIN x3 /\ x3[l].ssid = s.ssid /\ Twin!ApsOf(s.ssid) = x3[l].aps
         \/ /\ \A i \in DOMAIN x3 : x3[i].ssid # s.ssid
            /\ Len(x3) < SsidSlots => l = Len(x3) + 1
  BY SightedOf, EntryOf
<1>2. e \in Twin!Entry /\ x3 \in Seq(Twin!Entry)
  BY NotedOf DEF Twin!TypedInv
<1>3. t = Twin!With(x3, l, e)
  BY DEF NewTable
<1> HIDE DEF t, l, e
<1>4. /\ t \in Seq(Twin!Entry) /\ l \in DOMAIN t
      /\ \A j \in DOMAIN t : /\ t[j] = IF j = l THEN e ELSE x3[j]
                             /\ j # l => j \in DOMAIN x3
      /\ \A j \in DOMAIN x3 : j \in DOMAIN t
  <2>1. e \in Twin!Entry /\ x3 \in Seq(Twin!Entry) /\ l \in 1..(Len(x3) + 1)
    BY <1>1, <1>2
  <2> DEFINE w == Twin!With(x3, l, e)
  <2>2. /\ w \in Seq(Twin!Entry) /\ DOMAIN w = 1..Len(w) /\ l \in DOMAIN w
        /\ \A j \in DOMAIN w : /\ w[j] = IF j = l THEN e ELSE x3[j]
                               /\ j # l => j \in DOMAIN x3
        /\ \A j \in DOMAIN x3 : j \in DOMAIN w
    BY <2>1, WithOf
  <2> HIDE DEF w
  <2>3. t = w
    BY <1>3 DEF w
  <2> QED BY <2>2, <2>3
<1>5. ASSUME NEW j \in DOMAIN x3, j # l PROVE x3[j].ssid # s.ssid
  BY <1>1, <1>5 DEF Twin!TableInv
<1> QED BY <1>1, <1>4, <1>5 DEF t, l, e

LEMMA NewHeardOf ==
    ASSUME Twin!TypedInv, Twin!TableInv, NEW s \in Sights
    PROVE  /\ NewHeard(s) \in [Twin!Ssids -> [Twin!Aps -> Twin!Hearing]]
           /\ NewHeard(s)[s.ssid] = There(x4[s.ssid], s)
           /\ \A t \in Twin!Ssids : t # s.ssid => NewHeard(s)[t] = x4[t]
           /\ NewTold(s) \in [Twin!Ssids -> [Twin!Aps -> Nat]]
           /\ NewTold(s)[s.ssid] = Telling(x5[s.ssid], Sighted(s))
           /\ \A t \in Twin!Ssids : t # s.ssid => NewTold(s)[t] = x5[t]
<1> DEFINE there == There(x4[s.ssid], s)  tell == Telling(x5[s.ssid], Sighted(s))
<1>1. there \in [Twin!Aps -> Twin!Hearing] /\ s.ssid \in Twin!Ssids /\ tell \in [Twin!Aps -> Nat]
  BY SightedOf, NotedOf
<1>2. NewHeard(s) = [x4 EXCEPT ![s.ssid] = there] /\ NewTold(s) = [x5 EXCEPT ![s.ssid] = tell]
  BY DEF NewHeard, NewTold
<1>3. /\ x4 \in [Twin!Ssids -> [Twin!Aps -> Twin!Hearing]]
      /\ x5 \in [Twin!Ssids -> [Twin!Aps -> Nat]]
  BY DEF Twin!TypedInv
<1> DEFINE HS == [Twin!Aps -> Twin!Hearing]  TS == [Twin!Aps -> Nat]
<1> HIDE DEF there, tell, HS, TS
<1>4. there \in HS /\ tell \in TS /\ x4 \in [Twin!Ssids -> HS] /\ x5 \in [Twin!Ssids -> TS]
  BY <1>1, <1>3 DEF HS, TS
<1>5. /\ NewHeard(s) \in [Twin!Ssids -> HS] /\ NewHeard(s)[s.ssid] = there
      /\ \A t \in Twin!Ssids : t # s.ssid => NewHeard(s)[t] = x4[t]
  BY <1>1, <1>2, <1>4
<1>6. /\ NewTold(s) \in [Twin!Ssids -> TS] /\ NewTold(s)[s.ssid] = tell
      /\ \A t \in Twin!Ssids : t # s.ssid => NewTold(s)[t] = x5[t]
  BY <1>1, <1>2, <1>4
<1> QED BY <1>5, <1>6 DEF there, tell, HS, TS

LEMMA TableNext ==
    ASSUME Twin!TypedInv, Twin!TableInv, NEW s \in Sights
    PROVE  TableIs(NewTable(s), NewHeard(s))
<1> DEFINE t == NewTable(s)  h == NewHeard(s)  l == Twin!SsidPlace(s.ssid)  e == Noted(s)
<1>1. /\ l \in DOMAIN t /\ t[l] = e
      /\ \A j \in DOMAIN t : j # l => /\ j \in DOMAIN x3 /\ t[j] = x3[j]
                                      /\ x3[j].ssid # s.ssid
  BY NewTableOf
<1>2. /\ h[s.ssid] = There(x4[s.ssid], s)
      /\ \A r \in Twin!Ssids : r # s.ssid => h[r] = x4[r]
  BY NewHeardOf
<1>3. /\ e.ssid = s.ssid /\ Twin!Agrees(e.aps, There(x4[s.ssid], s)) /\ DOMAIN e.aps # {}
  BY NotedOf
<1>4. \A j \in DOMAIN x3 : x3[j].ssid \in Twin!Ssids
  <2>1. x3 \in Seq(Twin!Entry)
    BY DEF Twin!TypedInv
  <2>2. \A j \in DOMAIN x3 : x3[j] \in Twin!Entry
    BY <2>1, LenProperties, ElementOfSeq
  <2> QED BY <2>2 DEF Twin!Entry
<1> HIDE DEF t, h, l, e
<1>5. \A j \in DOMAIN t : j # l => /\ Twin!Agrees(t[j].aps, h[t[j].ssid]) /\ DOMAIN t[j].aps # {}
                                   /\ t[j].ssid # s.ssid
  BY <1>1, <1>2, <1>4 DEF Twin!TableInv
<1>6. Twin!Agrees(t[l].aps, h[t[l].ssid]) /\ DOMAIN t[l].aps # {} /\ t[l].ssid = s.ssid
  BY <1>1, <1>2, <1>3
<1>7. \A i, j \in DOMAIN t : t[i].ssid = t[j].ssid => i = j
  BY <1>1, <1>5, <1>6 DEF Twin!TableInv
<1>8. TableIs(t, h)
  BY <1>5, <1>6, <1>7 DEF TableIs
<1> QED BY <1>8 DEF t, h

\* What has been heard stays heard.
LEMMA HeardStays ==
    ASSUME Twin!TypedInv, Twin!TableInv, NEW s \in Sights
    PROVE  /\ \A t \in Twin!Ssids : HeardIn(x4[t]) \subseteq HeardIn(NewHeard(s)[t])
           /\ s.ap \in HeardIn(NewHeard(s)[s.ssid])
<1> DEFINE h == NewHeard(s)  here == x4[s.ssid]  there == There(here, s)
<1>1. /\ h[s.ssid] = there /\ \A t \in Twin!Ssids : t # s.ssid => h[t] = x4[t]
  BY NewHeardOf
<1>2. here \in [Twin!Aps -> Twin!Hearing] /\ x1 \in Nat \ {0} /\ s.ap \in Twin!Aps
  BY SightedOf, SightOf
<1> HIDE DEF h, here
<1>3. there[s.ap].at = x1 /\ \A a \in Twin!Aps : a # s.ap => there[a] = here[a]
  BY <1>2, ThereOf
<1> HIDE DEF there
<1>4. HeardIn(here) \subseteq HeardIn(there) /\ s.ap \in HeardIn(there)
  BY <1>2, <1>3 DEF HeardIn
<1> QED BY <1>1, <1>4 DEF h, here

LEMMA RoomyBefore ==
    ASSUME Twin!TypedInv, Twin!TableInv, NEW s \in Sights, RoomIs(NewHeard(s))
    PROVE  RoomIs(x4)
<1> DEFINE h == NewHeard(s)
           S == {t \in Twin!Ssids : HeardIn(x4[t]) # {}}
           T == {t \in Twin!Ssids : HeardIn(h[t]) # {}}
<1>1. \A t \in Twin!Ssids : HeardIn(x4[t]) \subseteq HeardIn(h[t])
  BY HeardStays
<1> HIDE DEF h
<1>2. S \subseteq T /\ T \subseteq Twin!Ssids
  BY <1>1
<1>3. IsFiniteSet(T)
  BY <1>2, FiniteAir, FS_Subset
<1>4. Twin!Cardinality(T) <= SsidSlots
  BY DEF RoomIs, h
<1> HIDE DEF S, T
<1>5. Twin!Cardinality(S) <= SsidSlots
  <2>1. /\ Twin!Cardinality(S) <= Twin!Cardinality(T) /\ Twin!Cardinality(S) \in Nat
        /\ Twin!Cardinality(T) \in Nat
    BY <1>2, <1>3, MoreOf
  <2>2. SsidSlots \in Nat
    BY TwinAssumption
  <2> QED BY <2>1, <2>2, <1>4
<1>6. ASSUME NEW t \in Twin!Ssids PROVE Twin!Cardinality(HeardIn(x4[t])) <= ApSlots
  <2> DEFINE A == HeardIn(x4[t])  B == HeardIn(h[t])
  <2>1. A \subseteq B
    BY <1>1
  <2>2. IsFiniteSet(B)
    <3>1. B \subseteq Twin!Aps
      BY DEF HeardIn
    <3> QED BY <3>1, FiniteAir, FS_Subset
  <2>3. Twin!Cardinality(B) <= ApSlots
    BY DEF RoomIs, h
  <2> HIDE DEF A, B
  <2>4. /\ Twin!Cardinality(A) <= Twin!Cardinality(B) /\ Twin!Cardinality(A) \in Nat
        /\ Twin!Cardinality(B) \in Nat
    BY <2>1, <2>2, MoreOf
  <2>5. ApSlots \in Nat
    BY TwinAssumption
  <2>6. Twin!Cardinality(A) <= ApSlots
    BY <2>3, <2>4, <2>5
  <2> QED BY <2>6 DEF A
<1> QED BY <1>5, <1>6 DEF RoomIs, S

LEMMA NeverNext ==
    ASSUME Twin!TypedInv, Twin!TableInv, Twin!KeptInv, NEW s \in Sights,
           NEW t \in Twin!Ssids, NEW a \in Twin!Aps, NewHeard(s)[t][a].at = 0
    PROVE  NewTold(s)[t][a] = 0
<1> DEFINE n == Sighted(s)  here == x4[s.ssid]  there == There(here, s)
           told == x5[s.ssid]  tell == Telling(told, n)
<1>1. /\ NewHeard(s)[s.ssid] = there /\ \A r \in Twin!Ssids : r # s.ssid => NewHeard(s)[r] = x4[r]
      /\ NewTold(s)[s.ssid] = tell /\ \A r \in Twin!Ssids : r # s.ssid => NewTold(s)[r] = x5[r]
  BY NewHeardOf
<1>2. \A r \in Twin!Ssids, b \in Twin!Aps : x4[r][b].at = 0 => x5[r][b] = 0
  BY DEF Twin!KeptInv
<1>3. CASE t # s.ssid
  BY <1>1, <1>2, <1>3
<1>4. CASE t = s.ssid
  <2>1. /\ n.aps \in Seq(Twin!Point) /\ n.current \in DOMAIN n.aps /\ Twin!Agrees(n.aps, there)
        /\ \A j \in DOMAIN n.aps : n.aps[j] \in Twin!Point
        /\ here \in [Twin!Aps -> Twin!Hearing] /\ told \in [Twin!Aps -> Nat] /\ x1 \in Nat \ {0}
        /\ s.ssid \in Twin!Ssids
    BY SightedOf
  <2>2. there[s.ap].at = x1 /\ \A b \in Twin!Aps : b # s.ap => there[b] = here[b]
    <3> HIDE DEF here
    <3> QED BY <2>1, ThereOf
  <2>3. there[a].at = 0
    BY <1>1, <1>4
  <2> HIDE DEF n, there
  <2>4. here[a].at = 0
    BY <2>1, <2>2, <2>3
  <2>5. told[a] = 0
    BY <2>4, <2>1, <1>2
  <2>6. tell[a] = told[a]
    <3> SUFFICES ASSUME tell[a] # told[a] PROVE FALSE
      OBVIOUS
    <3> HIDE DEF told
    <3>1. Raised(n) /\ a = n.aps[Accused(n)].ap
      BY <2>1, TellingOf
    <3>2. Accused(n) \in DOMAIN n.aps
      BY <3>1, <2>1, AlertOf
    <3>3. there[a].at = n.aps[Accused(n)].at
      BY <3>1, <3>2, <2>1 DEF Twin!Agrees
    <3>4. n.aps[Accused(n)].at # 0
      BY <3>2, <2>1 DEF Twin!Point
    <3> QED BY <3>3, <3>4, <2>3
  <2> QED BY <1>1, <1>4, <2>5, <2>6
<1> QED BY <1>3, <1>4

\* As long as there is room, the name observed is complete again.
LEMMA CompleteHere ==
    ASSUME Twin!TypedInv, Twin!TableInv, Twin!KeptInv, NEW s \in Sights, RoomIs(NewHeard(s))
    PROVE  Twin!Complete(Sighted(s).aps, There(x4[s.ssid], s), x5[s.ssid])
<1> DEFINE aps == Twin!ApsOf(s.ssid)  here == x4[s.ssid]  tell == x5[s.ssid]
<1>1. /\ s.ssid \in Twin!Ssids /\ here \in [Twin!Aps -> Twin!Hearing]
      /\ tell \in [Twin!Aps -> Nat] /\ x1 \in Nat \ {0} /\ s.ap \in Twin!Aps
  BY SightedOf, SightOf
<1>2. aps \in Seq(Twin!Point) /\ Twin!Agrees(aps, here)
  BY <1>1, EntryOf
<1>3. here[s.ap].at = 0 => tell[s.ap] = 0
  BY <1>1 DEF Twin!KeptInv
<1>4. Twin!Cardinality({a \in Twin!Aps : There(here, s)[a].at > 0}) <= ApSlots
  <2>1. NewHeard(s)[s.ssid] = There(here, s)
    BY NewHeardOf
  <2> QED BY <1>1, <2>1 DEF RoomIs, HeardIn
<1>5. Twin!Complete(aps, here, tell)
  <2>1. CASE HeardIn(here) = {}
    BY <2>1 DEF Twin!Complete, HeardIn
  <2>2. CASE HeardIn(here) # {}
    <3>1. RoomIs(x4)
      BY RoomyBefore
    <3>2. KeptIs(x3, x4, x5)
      BY <3>1, TwinParts
    <3>3. PICK i \in DOMAIN x3 : x3[i].ssid = s.ssid /\ Twin!Complete(x3[i].aps, here, tell)
      BY <1>1, <2>2, <3>2 DEF KeptIs
    <3>4. PICK l \in DOMAIN x3 : x3[l].ssid = s.ssid /\ aps = x3[l].aps
      BY <3>3, <1>1, EntryOf
    <3>5. i = l
      BY <3>3, <3>4 DEF Twin!TableInv
    <3> QED BY <3>3, <3>4, <3>5
  <2> QED BY <2>1, <2>2
<1>6. Sighted(s).aps = SeenIn(aps, s).aps
  BY DEF Sighted
<1> HIDE DEF aps, here, tell
<1>7. Twin!Complete(SeenIn(aps, s).aps, There(here, s), tell)
  BY <1>1, <1>2, <1>3, <1>4, <1>5, CompleteSeen
<1> QED BY <1>6, <1>7 DEF here, tell

\* As long as there is room, a name not in the table finds a free place there.
LEMMA PlaceFree ==
    ASSUME Twin!TypedInv, Twin!TableInv, NEW s \in Sights, RoomIs(NewHeard(s)),
           \A i \in DOMAIN x3 : x3[i].ssid # s.ssid
    PROVE  Len(x3) < SsidSlots
<1> DEFINE h == NewHeard(s)  m == Len(x3) + 1
           T == {t \in Twin!Ssids : HeardIn(h[t]) # {}}
           f == [j \in 1..m |-> IF j = m THEN s.ssid ELSE x3[j].ssid]
<1>1. x3 \in Seq(Twin!Entry) /\ DOMAIN x3 = 1..Len(x3) /\ Len(x3) \in Nat
  <2>1. x3 \in Seq(Twin!Entry)
    BY DEF Twin!TypedInv
  <2> QED BY <2>1, LenProperties
<1>2. \A j \in DOMAIN x3 : x3[j] \in Twin!Entry
  BY <1>1, ElementOfSeq
<1>3. s.ssid \in Twin!Ssids /\ s.ap \in HeardIn(h[s.ssid])
      /\ \A t \in Twin!Ssids : HeardIn(x4[t]) \subseteq HeardIn(h[t])
  BY SightedOf, HeardStays
<1>4. ASSUME NEW j \in DOMAIN x3 PROVE x3[j].ssid \in Twin!Ssids /\ HeardIn(x4[x3[j].ssid]) # {}
  <2> DEFINE aps == x3[j].aps
  <2>1. x3[j].ssid \in Twin!Ssids /\ aps \in Seq(Twin!Point)
    BY <1>2 DEF Twin!Entry
  <2>2. Twin!Agrees(aps, x4[x3[j].ssid]) /\ DOMAIN aps # {}
    BY DEF Twin!TableInv
  <2> HIDE DEF aps
  <2>3. PICK p \in DOMAIN aps : TRUE
    BY <2>2
  <2>4. aps[p] \in Twin!Point
    BY <2>1, <2>3, LenProperties, ElementOfSeq
  <2>5. x4[x3[j].ssid][aps[p].ap].at = aps[p].at
    BY <2>2 DEF Twin!Agrees
  <2>6. aps[p].ap \in HeardIn(x4[x3[j].ssid])
    BY <2>4, <2>5 DEF HeardIn, Twin!Point
  <2> QED BY <2>1, <2>6
<1>5. Twin!Cardinality(T) <= SsidSlots
  BY DEF RoomIs
<1>6. \A j \in 1..m : f[j] = IF j = m THEN s.ssid ELSE x3[j].ssid
  OBVIOUS
<1>7. \A j \in 1..m : j = m \/ j \in DOMAIN x3
  BY <1>1
<1> HIDE DEF h
<1>8. s.ssid \in T /\ \A j \in DOMAIN x3 : x3[j].ssid \in T
  BY <1>3, <1>4
<1>9. f \in [1..m -> T]
  <2> HIDE DEF T
  <2>1. \A j \in 1..m : f[j] \in T
    BY <1>6, <1>7, <1>8
  <2> QED BY <2>1
<1>10. IsFiniteSet(T)
  BY FiniteAir, FS_Subset
<1> HIDE DEF T, f
<1>11. \A j, k \in 1..m : f[j] = f[k] => j = k
  BY <1>6, <1>7 DEF Twin!TableInv
<1>12. m <= Twin!Cardinality(T)
  <2>1. m \in Nat
    BY <1>1
  <2> HIDE DEF m
  <2> QED BY <2>1, <1>9, <1>10, <1>11, FewOf
<1>13. Twin!Cardinality(T) \in Nat /\ SsidSlots \in Nat
  BY <1>10, MoreOf, TwinAssumption
<1> QED BY <1>1, <1>5, <1>12, <1>13

LEMMA KeptNext ==
    ASSUME Twin!TypedInv, Twin!TableInv, Twin!KeptInv, NEW s \in Sights, RoomIs(NewHeard(s))
    PROVE  KeptIs(NewTable(s), NewHeard(s), NewTold(s))
<1> DEFINE t == NewTable(s)  h == NewHeard(s)  d == NewTold(s)  l == Twin!SsidPlace(s.ssid)
           e == Noted(s)  there == There(x4[s.ssid], s)  tell == Telling(x5[s.ssid], Sighted(s))
<1>1. /\ l \in DOMAIN t /\ t[l] = e
      /\ \A j \in DOMAIN t : j # l => t[j] = x3[j]
      /\ \A j \in DOMAIN x3 : j \in DOMAIN t
      /\ \/ l \in DOMAIN x3 /\ x3[l].ssid = s.ssid
         \/ /\ \A i \in DOMAIN x3 : x3[i].ssid # s.ssid
            /\ Len(x3) < SsidSlots => l = Len(x3) + 1
      /\ DOMAIN x3 = 1..Len(x3) /\ Len(x3) \in Nat
  BY NewTableOf
<1>2. /\ h[s.ssid] = there /\ \A r \in Twin!Ssids : r # s.ssid => h[r] = x4[r]
      /\ d[s.ssid] = tell /\ \A r \in Twin!Ssids : r # s.ssid => d[r] = x5[r]
  BY NewHeardOf
<1>3. e.ssid = s.ssid /\ Twin!Complete(e.aps, there, tell)
  <2> DEFINE n == Sighted(s)
  <2>1. /\ n.aps \in Seq(Twin!Point) /\ n.current \in DOMAIN n.aps /\ Twin!Agrees(n.aps, there)
        /\ x5[s.ssid] \in [Twin!Aps -> Nat] /\ x1 \in Nat \ {0}
    BY SightedOf
  <2>2. Twin!Complete(n.aps, there, x5[s.ssid])
    BY CompleteHere
  <2> HIDE DEF n, there
  <2>3. Twin!Complete(Marked(n), there, Telling(x5[s.ssid], n))
    BY <2>1, <2>2, CompleteMarked
  <2>4. e.ssid = s.ssid /\ e.aps = Marked(n)
    BY NotedOf DEF n
  <2> QED BY <2>3, <2>4 DEF n
<1>4. \A i \in DOMAIN x3 : x3[i].ssid # s.ssid => i # l
  <2>1. CASE l \in DOMAIN x3 /\ x3[l].ssid = s.ssid
    BY <2>1
  <2>2. CASE \A i \in DOMAIN x3 : x3[i].ssid # s.ssid
    <3>1. Len(x3) < SsidSlots
      BY <2>2, PlaceFree
    <3> QED BY <3>1, <2>2, <1>1
  <2> QED BY <2>1, <2>2, <1>1
<1>5. KeptIs(x3, x4, x5)
  BY RoomyBefore, TwinParts
<1> HIDE DEF t, h, d, l, e, there, tell
<1>6. ASSUME NEW r \in Twin!Ssids, HeardIn(h[r]) # {}
      PROVE  \E i \in DOMAIN t : t[i].ssid = r /\ Twin!Complete(t[i].aps, h[r], d[r])
  <2>1. CASE r = s.ssid
    BY <2>1, <1>1, <1>2, <1>3
  <2>2. CASE r # s.ssid
    <3>1. PICK i \in DOMAIN x3 : x3[i].ssid = r /\ Twin!Complete(x3[i].aps, x4[r], x5[r])
      BY <2>2, <1>2, <1>5, <1>6 DEF KeptIs
    <3>2. i \in DOMAIN t /\ t[i] = x3[i]
      BY <3>1, <2>2, <1>1, <1>4
    <3> QED BY <3>1, <3>2, <2>2, <1>2
  <2> QED BY <2>1, <2>2
<1> QED BY <1>6 DEF KeptIs, t, h, d

\* An alert is of two points as they were last heard.
LEMMA AlertReal ==
    ASSUME Twin!TypedInv, Twin!TableInv, NEW s \in Sights, Raised(Sighted(s))
    PROVE  LET n == Sighted(s)  there == There(x4[s.ssid], s)
               a == Marked(n)[Accused(n)].ap  b == Marked(n)[Beside(n)].ap
           IN  /\ a # b /\ there[a].at > 0 /\ there[b].at > 0
               /\ x1 - there[a].at <= Lately /\ x1 - there[b].at <= Lately
               /\ \/ there[a].auth = "open" /\ there[b].auth # "open"
                  \/ /\ there[a].auth # "open" /\ there[b].auth # "open"
                     /\ there[a].auth # there[b].auth
<1> DEFINE n == Sighted(s)  there == There(x4[s.ssid], s)  k == Accused(n)  r == Beside(n)
           i == n.current  j == Twin!Best(n)  q == n.aps  w == Marked(n)
<1>1. /\ q \in Seq(Twin!Point) /\ i \in DOMAIN q /\ q[i].ap = s.ap /\ Twin!Agrees(q, there)
      /\ \A p \in DOMAIN q : q[p] \in Twin!Point
      /\ x4[s.ssid] \in [Twin!Aps -> Twin!Hearing] /\ x1 \in Nat \ {0}
  BY SightedOf
<1>2. there[s.ap].at = x1
  BY <1>1, ThereOf
<1> HIDE DEF n, there
<1>3. /\ j \in DOMAIN q /\ j # i /\ k \in {i, j} /\ r \in {i, j} /\ k # r
      /\ x1 - q[j].at <= Lately
      /\ \/ q[k].auth = "open" /\ q[r].auth # "open"
         \/ /\ q[k].auth # "open" /\ q[r].auth # "open" /\ q[k].auth # q[r].auth
  <2>1. Raised(n)
    BY DEF n
  <2> QED BY <1>1, <2>1, AlertOf
<1>4. DOMAIN w = DOMAIN q /\ \A p \in DOMAIN w : w[p].ap = q[p].ap
  BY <1>1, MarkedOf
<1> HIDE DEF k, r, i, j, q, w
<1>5. k \in DOMAIN q /\ r \in DOMAIN q
  BY <1>1, <1>3
<1>6. \A p \in DOMAIN q : /\ there[q[p].ap].auth = q[p].auth /\ there[q[p].ap].at = q[p].at
                          /\ q[p].at \in Nat \ {0}
  BY <1>1 DEF Twin!Agrees, Twin!Point
<1>7. q[k].ap # q[r].ap
  BY <1>1, <1>3, <1>5 DEF Twin!Agrees
<1>8. Lately \in Nat
  BY TwinAssumption
<1>9. q[i].at = x1
  BY <1>1, <1>2, <1>6
<1>10. x1 - q[k].at <= Lately /\ x1 - q[r].at <= Lately
  BY <1>1, <1>3, <1>8, <1>9
<1>11. w[k].ap = q[k].ap /\ w[r].ap = q[r].ap
  BY <1>4, <1>5
<1>12. /\ there[q[k].ap].at > 0 /\ there[q[r].ap].at > 0
       /\ x1 - there[q[k].ap].at <= Lately /\ x1 - there[q[r].ap].at <= Lately
  BY <1>5, <1>6, <1>10
<1>13. there[q[k].ap].auth = q[k].auth /\ there[q[r].ap].auth = q[r].auth
  BY <1>5, <1>6
<1> QED BY <1>3, <1>7, <1>11, <1>12, <1>13 DEF n, there, k, r, w

\* A mixed pair heard lately has been told not longer than Quiet ago.
LEMMA PairTold ==
    ASSUME Twin!TypedInv, Twin!TableInv, NEW s \in Sights,
           Twin!Complete(Sighted(s).aps, There(x4[s.ssid], s), x5[s.ssid]),
           NEW a \in Twin!Aps, a # s.ap, There(x4[s.ssid], s)[a].at > 0,
           x1 - There(x4[s.ssid], s)[a].at <= Lately,
           Twin!Mixed(There(x4[s.ssid], s)[s.ap], There(x4[s.ssid], s)[a])
    PROVE  \E b \in Twin!Aps : LET d == Telling(x5[s.ssid], Sighted(s))[b]
                               IN  d > 0 /\ x1 - d < Quiet
<1> DEFINE n == Sighted(s)  there == There(x4[s.ssid], s)  tell == x5[s.ssid]
           i == n.current  q == n.aps
<1>1. /\ q \in Seq(Twin!Point) /\ i \in DOMAIN q /\ q[i].ap = s.ap /\ Twin!Agrees(q, there)
      /\ \A p \in DOMAIN q : q[p] \in Twin!Point
      /\ tell \in [Twin!Aps -> Nat] /\ x1 \in Nat \ {0}
  BY SightedOf
<1>2. Quiet \in Nat \ {0}
  BY TwinAssumption
<1> HIDE DEF n, there, tell
<1>3. CASE Raised(n)
  <2> DEFINE b == Marked(n)[Accused(n)].ap
  <2>1. b \in Twin!Aps /\ Telling(tell, n)[b] = x1
    BY <1>1, <1>3, TellingOf
  <2> HIDE DEF b
  <2>2. Telling(tell, n)[b] > 0 /\ x1 - Telling(tell, n)[b] < Quiet
    BY <2>1, <1>1, <1>2
  <2> QED BY <2>1, <2>2 DEF n, tell
<1>4. CASE ~Raised(n)
  <2>1. PICK p \in DOMAIN q : q[p].ap = a
    BY DEF Twin!Complete, n, there, tell
  <2>2. p # i
    BY <2>1, <1>1
  <2>3. /\ there[a].auth = q[p].auth /\ there[a].at = q[p].at /\ there[s.ap].auth = q[i].auth
    BY <2>1, <1>1 DEF Twin!Agrees
  <2>4. Twin!Mixed(q[i], q[p])
    BY <2>3 DEF Twin!Mixed, there
  <2>5. Twin!StillFresh(q[p])
    BY <2>3 DEF Twin!StillFresh, there
  <2> DEFINE k == Twin!Suspect(q[i], q[p], i, p)
  <2>6. k \in {i, p}
    BY DEF Twin!Suspect
  <2>7. Twin!Throttled(q[k])
    <3>1. p \notin Twin!Alerts(n)
      BY <1>4 DEF Raised
    <3> QED BY <3>1, <2>1, <2>2, <2>4, <2>5, SMTT(60) DEF Twin!Alerts
  <2> HIDE DEF k
  <2> DEFINE b == q[k].ap
  <2>8. k \in DOMAIN q
    BY <1>1, <2>6
  <2>9. b \in Twin!Aps /\ there[b].at > 0
    <3>1. q[k] \in Twin!Point
      BY <2>8, <1>1
    <3>2. there[b].at = q[k].at
      BY <2>8, <1>1 DEF Twin!Agrees
    <3> QED BY <3>1, <3>2 DEF Twin!Point
  <2>10. PICK m \in DOMAIN q : q[m].ap = b /\ q[m].alert = tell[b]
    BY <2>9 DEF Twin!Complete, n, there, tell
  <2>11. m = k
    BY <2>10, <2>8, <1>1 DEF Twin!Agrees
  <2>12. tell[b] > 0 /\ x1 - tell[b] < Quiet
    BY <2>7, <2>10, <2>11 DEF Twin!Throttled
  <2>13. Telling(tell, n) = tell
    BY <1>4 DEF Telling
  <2> QED BY <2>9, <2>12, <2>13 DEF n, tell
<1> QED BY <1>3, <1>4

LEMMA ObserveNext ==
    ASSUME Twin!TwinInv, NEW s \in Sights, Twin!Observe(s)
    PROVE  Twin!TwinInv'
<1>1. Twin!TypedInv /\ Twin!TableInv /\ Twin!KeptInv
  BY DEF Twin!TwinInv
<1>2. PICK t, h, d : t = NewTable(s) /\ h = NewHeard(s) /\ d = NewTold(s)
  OBVIOUS
<1>3. /\ x1' = x1 /\ x3' = t /\ x4' = h /\ x5' = d
      /\ x6'.ssid = s.ssid /\ x6'.ap = s.ap
      /\ x6'.what = (IF Raised(Sighted(s)) THEN "alert" ELSE "seen")
      /\ Raised(Sighted(s)) => /\ x6'.suspect = Marked(Sighted(s))[Accused(Sighted(s))].ap
                               /\ x6'.reference = Marked(Sighted(s))[Beside(Sighted(s))].ap
  BY <1>1, <1>2, ObserveOf DEF NewTable, NewHeard, NewTold, Noted, Sighted
<1>4. Twin!TypedInv'
  <2>1. /\ t \in Seq(Twin!Entry) /\ h \in [Twin!Ssids -> [Twin!Aps -> Twin!Hearing]]
        /\ d \in [Twin!Ssids -> [Twin!Aps -> Nat]] /\ x1 \in Nat \ {0}
    BY <1>1, <1>2, NewTableOf, NewHeardOf, SightedOf
  <2> QED BY <1>3, <2>1 DEF Twin!TypedInv
<1>5. Twin!TableInv'
  <2>1. TableIs(t, h)
    BY <1>1, <1>2, TableNext
  <2> QED BY <1>3, <2>1, TwinNextParts
<1>6. Twin!KeptInv'
  <2>1. \A r \in Twin!Ssids, a \in Twin!Aps : h[r][a].at = 0 => d[r][a] = 0
    BY <1>1, <1>2, NeverNext
  <2>2. RoomIs(h) => KeptIs(t, h, d)
    BY <1>1, <1>2, KeptNext
  <2> QED BY <1>3, <2>1, <2>2, TwinNextParts
<1>7. PICK here, tell : /\ here = There(x4[s.ssid], s) /\ tell = Telling(x5[s.ssid], Sighted(s))
                        /\ h[s.ssid] = here /\ d[s.ssid] = tell
  BY <1>1, <1>2, NewHeardOf
<1>8. Twin!AlertIsReal'
  <2>1. CASE Raised(Sighted(s))
    <3>1. PICK a, b : /\ a = Marked(Sighted(s))[Accused(Sighted(s))].ap
                      /\ b = Marked(Sighted(s))[Beside(Sighted(s))].ap
      OBVIOUS
    <3>2. /\ a # b /\ here[a].at > 0 /\ here[b].at > 0
          /\ x1 - here[a].at <= Lately /\ x1 - here[b].at <= Lately
          /\ \/ here[a].auth = "open" /\ here[b].auth # "open"
             \/ /\ here[a].auth # "open" /\ here[b].auth # "open"
                /\ here[a].auth # here[b].auth
      BY <1>1, <1>7, <2>1, <3>1, AlertReal
    <3>3. x6'.ssid = s.ssid /\ x6'.suspect = a /\ x6'.reference = b
      BY <1>3, <2>1, <3>1
    <3> QED BY <1>3, <1>7, <3>2, <3>3 DEF Twin!AlertIsReal
  <2>2. CASE ~Raised(Sighted(s))
    BY <1>3, <2>2 DEF Twin!AlertIsReal
  <2> QED BY <2>1, <2>2
<1>9. Twin!CloneIsTold'
  <2>1. Twin!Roomy' => RoomIs(h)
    BY <1>3, TwinNextParts
  <2>2. ASSUME RoomIs(h), NEW a \in Twin!Aps \ {s.ap}, here[a].at > 0,
               x1 - here[a].at <= Lately, Twin!Mixed(here[s.ap], here[a])
        PROVE  \E b \in Twin!Aps : tell[b] > 0 /\ x1 - tell[b] < Quiet
    <3>1. Twin!Complete(Sighted(s).aps, here, x5[s.ssid])
      BY <1>1, <1>2, <1>7, <2>2, CompleteHere
    <3> QED BY <1>1, <1>7, <2>2, <3>1, PairTold
  <2> QED BY <1>3, <1>7, <2>1, <2>2 DEF Twin!CloneIsTold, Twin!Mixed
<1> QED BY <1>4, <1>5, <1>6, <1>8, <1>9 DEF Twin!TwinInv

LEMMA TwinTickNext == Twin!TwinInv /\ Twin!Tick => Twin!TwinInv'
<1> SUFFICES ASSUME Twin!TwinInv, Twin!Tick PROVE Twin!TwinInv'
  OBVIOUS
<1>1. /\ Twin!TypedInv /\ Twin!TableInv /\ Twin!KeptInv
      /\ x1' = x1 + 1 /\ x3' = x3 /\ x4' = x4 /\ x5' = x5 /\ x6' = Twin!Nothing
  BY DEF Twin!TwinInv, Twin!Tick
<1>2. Twin!TypedInv'
  BY <1>1 DEF Twin!TypedInv
<1>3. PICK t, h, d : t = x3 /\ h = x4 /\ d = x5
  OBVIOUS
<1>4. Twin!TableInv' /\ Twin!KeptInv'
  BY <1>1, <1>3, TwinParts, TwinNextParts
<1>5. Twin!AlertIsReal' /\ Twin!CloneIsTold'
  BY <1>1 DEF Twin!AlertIsReal, Twin!CloneIsTold, Twin!Nothing
<1> QED BY <1>1, <1>2, <1>4, <1>5 DEF Twin!TwinInv

LEMMA TwinStutters == Twin!TwinInv /\ UNCHANGED Twin!vars => Twin!TwinInv'
<1> SUFFICES ASSUME Twin!TwinInv, UNCHANGED Twin!vars PROVE Twin!TwinInv'
  OBVIOUS
<1>1. PICK t, h, d : t = x3 /\ h = x4 /\ d = x5
  OBVIOUS
<1>2. x1' = x1 /\ x3' = x3 /\ x4' = x4 /\ x5' = x5 /\ x6' = x6
  BY DEF Twin!vars
<1>3. Twin!TableInv' /\ Twin!KeptInv' /\ (Twin!Roomy' => Twin!Roomy)
  BY <1>1, <1>2, TwinParts, TwinNextParts DEF Twin!TwinInv
<1>4. Twin!TypedInv'
  BY <1>2 DEF Twin!TwinInv, Twin!TypedInv
<1>5. Twin!AlertIsReal'
  BY <1>2 DEF Twin!TwinInv, Twin!AlertIsReal
<1>6. Twin!CloneIsTold'
  BY <1>2, <1>3 DEF Twin!TwinInv, Twin!CloneIsTold, Twin!Mixed
<1> QED BY <1>3, <1>4, <1>5, <1>6 DEF Twin!TwinInv

LEMMA TwinNext == Twin!TwinInv /\ [Twin!Next]_(Twin!vars) => Twin!TwinInv'
BY ObserveNext, TwinTickNext, TwinStutters DEF Twin!Next

-----------------------------------------------------------------------------
(* The stopped scanner (DetectionFlow): x1 tx, x2 pc, x4 det, x5 queue,      *)
(* x6 mutex, x9 ack, x10 acked, x12 up, x16 direct.                          *)
LEMMA SilenceInitial == Flow!Init => Flow!SilenceInv
<1> SUFFICES ASSUME Flow!Init PROVE Flow!SilenceInv
  OBVIOUS
<1>1. /\ x2 = "wait" /\ x4 = "none" /\ x5 = <<>> /\ x10 = FALSE
      /\ x12 = <<>> /\ x1 = FALSE /\ x6 = "free" /\ x16 = "none"
  BY DEF Flow!Init
<1>2. <<>> \in Seq(Flow!Devices) /\ <<>> \in Seq(Flow!Lines)
  BY EmptySeq
<1>3. "none" \in Flow!Lines
  BY DEF Flow!Lines
<1> QED BY <1>1, <1>2, <1>3 DEF Flow!SilenceInv, Flow!Typed

LEMMA LineAdded ==
    ASSUME NEW S, NEW q \in Seq(S), NEW x \in S
    PROVE  /\ Append(q, x) \in Seq(S) /\ Len(Append(q, x)) = Len(q) + 1
           /\ Flow!Last(Append(q, x)) = x
<1>1. /\ Append(q, x) \in Seq(S) /\ Len(Append(q, x)) = Len(q) + 1
      /\ Append(q, x)[Len(q) + 1] = x
  BY AppendProperties
<1> QED BY <1>1 DEF Flow!Last

LEMMA LineTaken ==
    ASSUME NEW S, NEW q \in Seq(S), q # <<>>
    PROVE  /\ Tail(q) \in Seq(S) /\ Len(Tail(q)) = Len(q) - 1 /\ Head(q) \in S
           /\ ~(Len(Tail(q)) > Len(q))
<1>1. Tail(q) \in Seq(S) /\ Len(Tail(q)) = Len(q) - 1 /\ Head(q) \in S /\ Len(q) \in Nat
  BY HeadTailProperties, LenProperties
<1> QED BY <1>1

\* A line was taken or none was written.
LEMMA NothingSaid ==
    ASSUME Flow!SilenceInv, x12' = x12 \/ (x12 # <<>> /\ x12' = Tail(x12))
    PROVE  Flow!NoTelemetry /\ x12' \in Seq(Flow!Lines)
<1>1. x12 \in Seq(Flow!Lines)
  BY DEF Flow!SilenceInv, Flow!Typed
<1>2. CASE x12' = x12
  BY <1>1, <1>2 DEF Flow!NoTelemetry
<1>3. CASE x12 # <<>> /\ x12' = Tail(x12)
  BY <1>1, <1>3, LineTaken DEF Flow!NoTelemetry
<1> QED BY <1>2, <1>3

LEMMA SilenceNext ==
    ASSUME Flow!SilenceInv, [Flow!Next]_(Flow!vars)
    PROVE  Flow!SilenceInv' /\ Flow!NoTelemetry
<1>1. /\ x5 \in Seq(Flow!Devices) /\ x12 \in Seq(Flow!Lines) /\ x4 \in Flow!Lines
      /\ x1 \in BOOLEAN /\ x10 \in BOOLEAN /\ (x10 => ~x1)
      /\ (x2 = "write" => x6 = "task" /\ (x10 => x4 = "info"))
      /\ x16 \in Flow!Devices \cup {"none"}
      /\ (x6 = "direct" => x16 # "none" /\ ~x10)
  BY DEF Flow!SilenceInv, Flow!Typed
<1>2. /\ Flow!Devices \subseteq Flow!Lines
      /\ {"info", "status", "none", "stop_ack"} \subseteq Flow!Lines
  BY DEF Flow!Lines
<1>3. ASSUME x12' = x12 \/ (x12 # <<>> /\ x12' = Tail(x12)),
             x5' = x5, x4' = x4, x1' = x1, x10' = x10, x2' = x2, x6' = x6, x16' = x16
      PROVE  Flow!SilenceInv' /\ Flow!NoTelemetry
  BY <1>1, <1>3, NothingSaid DEF Flow!SilenceInv, Flow!Typed
<1>4. ASSUME NEW d \in Flow!Devices, Flow!Sight(d)
      PROVE  Flow!SilenceInv' /\ Flow!NoTelemetry
  <2>1. /\ x5' = Append(x5, d) /\ x12' = x12 /\ x4' = x4 /\ x1' = x1 /\ x10' = x10
        /\ x2' = x2 /\ x6' = x6 /\ x16' = x16
    BY <1>4 DEF Flow!Sight
  <2>2. x5' \in Seq(Flow!Devices)
    BY <1>1, <2>1, AppendProperties
  <2> QED BY <1>1, <2>1, <2>2, NothingSaid DEF Flow!SilenceInv, Flow!Typed
<1>5. CASE Flow!WaitTick
  <2>1. /\ x2 = "wait" /\ x2' = x2 /\ x5' = x5 /\ x12' = x12 /\ x4' = x4 /\ x6' = x6
        /\ x1' \in BOOLEAN /\ x10' \in BOOLEAN /\ (x10' => ~x1' /\ x10) /\ x16' = x16
    BY <1>1, <1>5 DEF Flow!WaitTick
  <2> QED BY <1>1, <2>1, NothingSaid DEF Flow!SilenceInv, Flow!Typed
<1>6. CASE Flow!Enabled
  <2>1. /\ x2' # "write" /\ x5' = x5 /\ x12' = x12 /\ x4' \in {"info", x4} /\ x6' = x6
        /\ x1' = x1 /\ x10' = x10 /\ x16' = x16
    BY <1>6 DEF Flow!Enabled
  <2> QED BY <1>1, <1>2, <2>1, NothingSaid DEF Flow!SilenceInv, Flow!Typed
<1>7. CASE \E weak, news \in BOOLEAN : Flow!Receive(weak, news)
  <2>1. /\ x5 # <<>> /\ x5' = Tail(x5) /\ x2' # "write" /\ x4' \in {x4, Head(x5)}
        /\ x12' = x12 /\ x6' = x6 /\ x1' = x1 /\ x10' = x10 /\ x16' = x16
    BY <1>7 DEF Flow!Receive
  <2>2. Tail(x5) \in Seq(Flow!Devices) /\ Head(x5) \in Flow!Devices
    BY <1>1, <2>1, LineTaken
  <2> QED BY <1>1, <1>2, <2>1, <2>2, NothingSaid DEF Flow!SilenceInv, Flow!Typed
<1>8. CASE Flow!Maintain \/ Flow!Gate
  <2>1. /\ x5' = x5 /\ x2' # "write" /\ x4' \in {x4, "status"}
        /\ x12' = x12 /\ x6' = x6 /\ x1' = x1 /\ x10' = x10 /\ x16' = x16
    BY <1>8 DEF Flow!Maintain, Flow!Gate
  <2> QED BY <1>1, <1>2, <2>1, NothingSaid DEF Flow!SilenceInv, Flow!Typed
<1>9. CASE Flow!Lock
  <2>1. /\ x5' = x5 /\ x4' = x4 /\ x12' = x12 /\ x1' = x1 /\ x10' = x10 /\ x16' = x16
        /\ x6' = "direct" => x6 = "direct"
        /\ x2' = "write" => x6' = "task" /\ (x1 \/ x4 = "info")
    BY <1>9 DEF Flow!Lock, Flow!GateOpen
  <2> QED BY <1>1, <2>1, NothingSaid DEF Flow!SilenceInv, Flow!Typed
<1>10. CASE Flow!Write
  <2>1. /\ x2 = "write" /\ x12' = Append(x12, x4) /\ x2' = "run" /\ x4' = "none"
        /\ x5' = x5 /\ x1' = x1 /\ x10' = x10 /\ x6' = "free" /\ x16' = x16
    BY <1>10 DEF Flow!Write
  <2>2. x12' \in Seq(Flow!Lines) /\ Flow!Last(x12') = x4
    BY <1>1, <2>1, LineAdded
  <2> QED BY <1>1, <1>2, <2>1, <2>2 DEF Flow!SilenceInv, Flow!Typed, Flow!NoTelemetry
<1>11. CASE Flow!WindowEnds
  BY <1>3, <1>11 DEF Flow!WindowEnds
<1>12. CASE Flow!Command
  <2>1. /\ x1' \in BOOLEAN /\ x10' \in BOOLEAN /\ (x10' => ~x1' /\ x10)
        /\ x12' = x12 /\ x5' = x5 /\ x4' = x4 /\ x2' = x2 /\ x6' = x6 /\ x16' = x16
    BY <1>1, <1>12 DEF Flow!Command, Flow!Task
  <2> QED BY <1>1, <2>1, NothingSaid DEF Flow!SilenceInv, Flow!Typed
<1>13. CASE Flow!SendAck
  <2>1. /\ x6 = "free" /\ x12' = Append(x12, "stop_ack") /\ x10' = ~x1
        /\ x5' = x5 /\ x4' = x4 /\ x2' = x2 /\ x6' = x6 /\ x1' = x1 /\ x16' = x16
    BY <1>13 DEF Flow!SendAck, Flow!Task
  <2>2. x12' \in Seq(Flow!Lines) /\ Flow!Last(x12') = "stop_ack"
    BY <1>1, <1>2, <2>1, LineAdded
  <2> QED BY <1>1, <2>1, <2>2 DEF Flow!SilenceInv, Flow!Typed, Flow!NoTelemetry
<1>14. CASE \E weak, sent \in BOOLEAN : Flow!UplinkLine(weak, sent)
  BY <1>3, <1>14 DEF Flow!UplinkLine, Flow!Task
<1>15. CASE Flow!Drain \/ Flow!Ready \/ Flow!RelayStops
  BY <1>3, <1>15 DEF Flow!Drain, Flow!Ready, Flow!RelayStops, Flow!Task
<1>16. CASE Flow!Lost
  BY <1>3, <1>16 DEF Flow!Lost, Flow!Task
<1>17. CASE UNCHANGED Flow!vars
  BY <1>3, <1>17 DEF Flow!vars
<1>18. ASSUME NEW d \in Flow!Devices, Flow!DirectBegins(d)
       PROVE  Flow!SilenceInv' /\ Flow!NoTelemetry
  <2>1. /\ x5' = x5 /\ x12' = x12 /\ x4' = x4 /\ x1' = x1 /\ x10' = x10
        /\ x2' = x2 /\ x6' = x6 /\ x16 = "none" /\ x16' = d
    BY <1>18 DEF Flow!DirectBegins
  <2> QED BY <1>1, <2>1, NothingSaid DEF Flow!SilenceInv, Flow!Typed
<1>19. CASE Flow!DirectLocks
  <2>1. /\ x5' = x5 /\ x12' = x12 /\ x4' = x4 /\ x1' = x1 /\ x10' = x10
        /\ x2' = x2 /\ x6 = "free" /\ x16 # "none" /\ x16' \in {x16, "none"}
        /\ x6' = "direct" => x1 /\ x16' = x16
    BY <1>19 DEF Flow!DirectLocks
  <2>2. x2 # "write"
    BY <1>1, <2>1
  <2> QED BY <1>1, <2>1, <2>2, NothingSaid DEF Flow!SilenceInv, Flow!Typed
<1>20. CASE Flow!DirectWrites
  <2>1. /\ x6 = "direct" /\ x12' = Append(x12, x16) /\ x6' = "free" /\ x16' = "none"
        /\ x5' = x5 /\ x4' = x4 /\ x1' = x1 /\ x10' = x10 /\ x2' = x2
    BY <1>20 DEF Flow!DirectWrites
  <2>2. x16 \in Flow!Lines /\ ~x10 /\ x2 # "write"
    BY <1>1, <1>2, <2>1
  <2>3. x12' \in Seq(Flow!Lines)
    BY <1>1, <2>1, <2>2, LineAdded
  <2> QED BY <1>1, <2>1, <2>2, <2>3 DEF Flow!SilenceInv, Flow!Typed, Flow!NoTelemetry
<1> QED BY <1>4, <1>5, <1>6, <1>7, <1>8, <1>9, <1>10, <1>11, <1>12, <1>13, <1>14, <1>15,
           <1>16, <1>17, <1>18, <1>19, <1>20
        DEF Flow!Next, Flow!TransmitTask, Flow!Uplink, Flow!BleTask

-----------------------------------------------------------------------------
(* What waits for the backend (Uploader): x1 pc, x2 queue, x3 batch,         *)
(* x4 backlog, x12 acked.                                                    *)
LEMMA SetOfTail ==
    ASSUME NEW S, NEW q \in Seq(S), q # <<>>
    PROVE  /\ Tail(q) \in Seq(S) /\ Head(q) \in S /\ Len(Tail(q)) = Len(q) - 1
           /\ Upload!ToSet(q) = {Head(q)} \cup Upload!ToSet(Tail(q))
<1>1. /\ Tail(q) \in Seq(S) /\ Head(q) \in S /\ Len(Tail(q)) = Len(q) - 1
      /\ Head(q) = q[1] /\ Len(q) \in Nat \ {0}
      /\ \A i \in 1..Len(Tail(q)) : Tail(q)[i] = q[i + 1]
  BY HeadTailProperties, EmptySeq, LenProperties
<1>2. DOMAIN q = 1..Len(q) /\ DOMAIN Tail(q) = 1..(Len(q) - 1)
  BY <1>1, LenProperties
<1>3. ASSUME NEW i \in DOMAIN q PROVE q[i] \in {Head(q)} \cup Upload!ToSet(Tail(q))
  <2>1. CASE i = 1
    BY <1>1, <2>1
  <2>2. CASE i # 1
    <3>1. i - 1 \in DOMAIN Tail(q) /\ Tail(q)[i - 1] = q[i]
      BY <1>1, <1>2, <2>2
    <3> QED BY <3>1 DEF Upload!ToSet
  <2> QED BY <2>1, <2>2
<1>4. ASSUME NEW i \in DOMAIN Tail(q) PROVE Tail(q)[i] \in Upload!ToSet(q)
  <2>1. i + 1 \in DOMAIN q /\ Tail(q)[i] = q[i + 1]
    BY <1>1, <1>2
  <2> QED BY <2>1 DEF Upload!ToSet
<1>5. Head(q) \in Upload!ToSet(q)
  BY <1>1, <1>2 DEF Upload!ToSet
<1>6. \A x : x \in Upload!ToSet(q) <=> x \in {Head(q)} \cup Upload!ToSet(Tail(q))
  BY <1>3, <1>4, <1>5 DEF Upload!ToSet
<1> QED BY <1>1, <1>6

LEMMA SetOfAppend ==
    ASSUME NEW S, NEW q \in Seq(S), NEW x \in S
    PROVE  /\ Append(q, x) \in Seq(S) /\ Len(Append(q, x)) = Len(q) + 1
           /\ Upload!ToSet(Append(q, x)) = Upload!ToSet(q) \cup {x}
<1>1. /\ Append(q, x) \in Seq(S) /\ Len(Append(q, x)) = Len(q) + 1
      /\ Append(q, x)[Len(q) + 1] = x /\ \A i \in 1..Len(q) : Append(q, x)[i] = q[i]
  BY AppendProperties
<1>2. DOMAIN q = 1..Len(q) /\ Len(q) \in Nat /\ DOMAIN Append(q, x) = 1..(Len(q) + 1)
  BY <1>1, LenProperties
<1> DEFINE w == Append(q, x)
<1> HIDE DEF w
<1>3. \A i \in DOMAIN w : w[i] \in Upload!ToSet(q) \cup {x}
  <2> SUFFICES ASSUME NEW i \in DOMAIN w PROVE w[i] \in Upload!ToSet(q) \cup {x}
    OBVIOUS
  <2>1. CASE i = Len(q) + 1
    BY <1>1, <2>1 DEF w
  <2>2. CASE i # Len(q) + 1
    <3>1. i \in DOMAIN q /\ w[i] = q[i]
      BY <1>1, <1>2, <2>2 DEF w
    <3> QED BY <3>1 DEF Upload!ToSet
  <2> QED BY <2>1, <2>2
<1>4. x \in Upload!ToSet(w) /\ \A i \in DOMAIN q : q[i] \in Upload!ToSet(w)
  <2>1. Len(q) + 1 \in DOMAIN w /\ w[Len(q) + 1] = x
    BY <1>1, <1>2 DEF w
  <2>2. \A i \in DOMAIN q : i \in DOMAIN w /\ w[i] = q[i]
    BY <1>1, <1>2 DEF w
  <2> QED BY <2>1, <2>2 DEF Upload!ToSet
<1>5. \A y : y \in Upload!ToSet(w) <=> y \in Upload!ToSet(q) \cup {x}
  BY <1>3, <1>4 DEF Upload!ToSet
<1> QED BY <1>1, <1>5 DEF w

LEMMA SetOfNone == Upload!ToSet(<<>>) = {}
BY DEF Upload!ToSet

\* What the batches of a ring hold.
Stored(ring) == UNION {Upload!ToSet(b.items) : b \in Upload!ToSet(ring)}

LEMMA StoredTail ==
    ASSUME NEW q \in Seq(Upload!Batches), q # <<>>
    PROVE  /\ Tail(q) \in Seq(Upload!Batches) /\ Head(q) \in Upload!Batches
           /\ Len(Tail(q)) = Len(q) - 1
           /\ Stored(q) = Upload!ToSet(Head(q).items) \cup Stored(Tail(q))
<1>1. /\ Tail(q) \in Seq(Upload!Batches) /\ Head(q) \in Upload!Batches
      /\ Len(Tail(q)) = Len(q) - 1
      /\ Upload!ToSet(q) = {Head(q)} \cup Upload!ToSet(Tail(q))
  BY SetOfTail
<1> QED BY <1>1 DEF Stored

LEMMA StoredAppend ==
    ASSUME NEW q \in Seq(Upload!Batches), NEW b \in Upload!Batches
    PROVE  /\ Append(q, b) \in Seq(Upload!Batches) /\ Len(Append(q, b)) = Len(q) + 1
           /\ Stored(Append(q, b)) = Stored(q) \cup Upload!ToSet(b.items)
<1>1. /\ Append(q, b) \in Seq(Upload!Batches) /\ Len(Append(q, b)) = Len(q) + 1
      /\ Upload!ToSet(Append(q, b)) = Upload!ToSet(q) \cup {b}
  BY SetOfAppend
<1> QED BY <1>1 DEF Stored

LEMMA StoredNone == Stored(<<>>) = {}
BY SetOfNone DEF Stored

LEMMA HeldOf ==
    /\ Upload!Held = Upload!ToSet(x2) \cup Upload!ToSet(x3) \cup Stored(x4)
    /\ Upload!Held' = Upload!ToSet(x2') \cup Upload!ToSet(x3') \cup Stored(x4')
BY DEF Upload!Held, Upload!Backlogged, Stored, Upload!ToSet

LEMMA BacklogInitial == Upload!Init => Upload!RingInv
<1> SUFFICES ASSUME Upload!Init PROVE Upload!RingInv
  OBVIOUS
<1>1. x2 = <<>> /\ x3 = <<>> /\ x4 = <<>>
  BY DEF Upload!Init
<1>2. <<>> \in Seq(1..Things) /\ <<>> \in Seq(Upload!Batches) /\ Len(<<>>) = 0
  BY EmptySeq
<1>3. BacklogMax \in Nat \ {0}
  BY UploadAssumption
<1> QED BY <1>1, <1>2, <1>3 DEF Upload!RingInv

\* A batch is put into the ring; only of a full one the oldest is given up.
LEMMA PushOf ==
    ASSUME NEW q \in Seq(Upload!Batches), Len(q) <= BacklogMax, NEW b \in Upload!Batches
    PROVE  LET w == Upload!Push(q, b)
           IN  /\ w \in Seq(Upload!Batches) /\ Len(w) <= BacklogMax
               /\ Len(q) < BacklogMax => Stored(w) = Stored(q) \cup Upload!ToSet(b.items)
<1>1. BacklogMax \in Nat \ {0} /\ Len(q) \in Nat
  BY UploadAssumption, LenProperties
<1>2. CASE Len(q) = BacklogMax
  <2>1. q # <<>>
    BY <1>1, <1>2, EmptySeq
  <2>2. Tail(q) \in Seq(Upload!Batches) /\ Len(Tail(q)) = Len(q) - 1
    BY <2>1, StoredTail
  <2>3. Append(Tail(q), b) \in Seq(Upload!Batches) /\ Len(Append(Tail(q), b)) = Len(Tail(q)) + 1
    BY <2>2, StoredAppend
  <2>4. Upload!Push(q, b) = Append(Tail(q), b)
    BY <1>2 DEF Upload!Push
  <2> QED BY <1>1, <1>2, <2>2, <2>3, <2>4
<1>3. CASE Len(q) # BacklogMax
  <2>1. Upload!Push(q, b) = Append(q, b)
    BY <1>3 DEF Upload!Push
  <2>2. /\ Append(q, b) \in Seq(Upload!Batches) /\ Len(Append(q, b)) = Len(q) + 1
        /\ Stored(Append(q, b)) = Stored(q) \cup Upload!ToSet(b.items)
    BY StoredAppend
  <2> QED BY <1>1, <1>3, <2>1, <2>2
<1> QED BY <1>2, <1>3

LEMMA BacklogNext ==
    ASSUME Upload!RingInv, [Upload!Next]_(Upload!vars)
    PROVE  Upload!RingInv' /\ Upload!Kept
<1>1. /\ x2 \in Seq(1..Things) /\ x3 \in Seq(1..Things)
      /\ x4 \in Seq(Upload!Batches) /\ Len(x4) <= BacklogMax
  BY DEF Upload!RingInv
<1> DEFINE held == Upload!ToSet(x2) \cup Upload!ToSet(x3) \cup Stored(x4)
           held2 == Upload!ToSet(x2') \cup Upload!ToSet(x3') \cup Stored(x4')
           ring == /\ x2' \in Seq(1..Things) /\ x3' \in Seq(1..Things)
                   /\ x4' \in Seq(Upload!Batches) /\ Len(x4') <= BacklogMax
<1>2. SUFFICES ring /\ (held \ held2 \subseteq x12' \/ Upload!GivenUp)
  BY HeldOf DEF Upload!RingInv, Upload!Kept
<1>3. <<>> \in Seq(1..Things) /\ <<>> \in Seq(Upload!Batches) /\ Len(<<>>) <= BacklogMax
  <2>1. BacklogMax \in Nat \ {0}
    BY UploadAssumption
  <2> QED BY <2>1, EmptySeq
<1>4. ASSUME x2' = x2, x3' = x3, x4' = x4
      PROVE  ring /\ held \ held2 \subseteq x12'
  BY <1>1, <1>4
<1>5. CASE Upload!TopPaused
  <2>1. x2' = <<>> /\ x3' = <<>> /\ x4' = x4 /\ Upload!GivenUp
    BY <1>5 DEF Upload!TopPaused, Upload!GivenUp
  <2> QED BY <1>1, <1>3, <2>1
<1>6. CASE Upload!TopAlone
  <2>1. x2 # <<>> /\ x2' = Tail(x2) /\ x3' = x3 /\ x4' = x4 /\ Upload!GivenUp
    BY <1>6 DEF Upload!TopAlone, Upload!GivenUp
  <2>2. x2' \in Seq(1..Things)
    BY <1>1, <2>1, SetOfTail
  <2> QED BY <1>1, <2>1, <2>2
<1>7. CASE Upload!Top
  <2>1. CASE Upload!Stalled
    <3>1. x2' = x2 /\ x3' = x3 /\ x4' = <<>> /\ Upload!GivenUp
      BY <1>7, <2>1 DEF Upload!Top, Upload!GivenUp
    <3> QED BY <1>1, <1>3, <3>1
  <2>2. CASE ~Upload!Stalled
    BY <1>4, <1>7, <2>2 DEF Upload!Top
  <2> QED BY <2>1, <2>2
<1>8. CASE Upload!Drain
  <2>1. CASE x4' = x4
    BY <1>4, <1>8, <2>1 DEF Upload!Drain
  <2>2. CASE x4' # x4
    <3>1. PICK answer \in Upload!Answers :
            /\ x4 # <<>> /\ x2' = x2 /\ x3' = x3
            /\ x12' = Upload!Acked(Head(x4).items, answer)
            /\ x4' = IF answer = "stored" THEN Tail(x4) ELSE Upload!PutBack(Tail(x4), Head(x4))
      BY <1>8, <2>2 DEF Upload!Drain
    <3>2. /\ Tail(x4) \in Seq(Upload!Batches) /\ Head(x4) \in Upload!Batches
          /\ Len(Tail(x4)) = Len(x4) - 1
          /\ Stored(x4) = Upload!ToSet(Head(x4).items) \cup Stored(Tail(x4))
      BY <1>1, <3>1, StoredTail
    <3>3. Len(Tail(x4)) < BacklogMax
      <4>1. BacklogMax \in Nat /\ Len(x4) \in Nat
        BY <1>1, UploadAssumption, LenProperties
      <4> QED BY <4>1, <1>1, <3>2
    <3>4. CASE answer = "stored"
      <4>1. Upload!ToSet(Head(x4).items) \subseteq x12'
        BY <3>1, <3>4 DEF Upload!Acked
      <4>2. Len(Tail(x4)) <= BacklogMax
        <5>1. BacklogMax \in Nat /\ Len(x4) \in Nat
          BY <1>1, UploadAssumption, LenProperties
        <5> QED BY <5>1, <3>2, <3>3
      <4> QED BY <1>1, <3>1, <3>2, <3>4, <4>1, <4>2
    <3>5. CASE answer # "stored"
      <4>1. x4' = Upload!Push(Tail(x4), Head(x4))
        BY <3>1, <3>5 DEF Upload!PutBack
      <4>2. Len(Tail(x4)) <= BacklogMax
        <5>1. BacklogMax \in Nat /\ Len(x4) \in Nat
          BY <1>1, UploadAssumption, LenProperties
        <5> QED BY <5>1, <3>2, <3>3
      <4> DEFINE w == Upload!Push(Tail(x4), Head(x4))
      <4>3. /\ w \in Seq(Upload!Batches) /\ Len(w) <= BacklogMax
            /\ Stored(w) = Stored(Tail(x4)) \cup Upload!ToSet(Head(x4).items)
        BY <3>2, <3>3, <4>2, PushOf
      <4> HIDE DEF w
      <4>4. x4' = w
        BY <4>1 DEF w
      <4> QED BY <1>1, <3>1, <3>2, <4>3, <4>4
    <3> QED BY <3>4, <3>5
  <2> QED BY <2>1, <2>2
<1>9. CASE Upload!Collect
  <2>1. x2 # <<>> /\ x2' = Tail(x2) /\ x3' = Upload!Gathered(x3, Head(x2)) /\ x4' = x4
    BY <1>9 DEF Upload!Collect
  <2>2. /\ Tail(x2) \in Seq(1..Things) /\ Head(x2) \in 1..Things
        /\ Upload!ToSet(x2) = {Head(x2)} \cup Upload!ToSet(Tail(x2))
    BY <1>1, <2>1, SetOfTail
  <2> DEFINE d == Head(x2)  w == Append(x3, d)
  <2>3. /\ w \in Seq(1..Things) /\ Upload!ToSet(w) = Upload!ToSet(x3) \cup {d}
    BY <1>1, <2>2, SetOfAppend
  <2>4. x3' = IF d \in Upload!ToSet(x3) THEN x3 ELSE w
    BY <2>1 DEF Upload!Gathered
  <2> HIDE DEF d, w
  <2>5. x3' \in Seq(1..Things) /\ Upload!ToSet(x3') = Upload!ToSet(x3) \cup {d}
    BY <1>1, <2>3, <2>4
  <2> QED BY <1>1, <2>1, <2>2, <2>5 DEF d
<1>10. CASE Upload!CollectNothing
  BY <1>4, <1>10 DEF Upload!CollectNothing
<1>11. CASE Upload!SendStarved
  <2>1. x2' = x2 /\ x3' = <<>> /\ x4' = x4 /\ Upload!GivenUp
    BY <1>11 DEF Upload!SendStarved, Upload!GivenUp
  <2> QED BY <1>1, <1>3, <2>1
<1>12. CASE Upload!Send
  <2>1. PICK answer \in Upload!Answers :
          /\ x1 = "send" /\ x2' = x2 /\ x3' = <<>> /\ x12' = Upload!Acked(x3, answer)
          /\ x4' = IF answer = "stored" THEN x4 ELSE Upload!Push(x4, Upload!Truncated(x3))
    BY <1>12 DEF Upload!Send
  <2>2. CASE answer = "stored"
    <3>1. Upload!ToSet(x3) \subseteq x12'
      BY <2>1, <2>2 DEF Upload!Acked
    <3> QED BY <1>1, <1>3, <2>1, <2>2, <3>1
  <2>3. CASE answer # "stored"
    <3> DEFINE b == Upload!Truncated(x3)  w == Upload!Push(x4, b)
    <3>1. b \in Upload!Batches /\ b.items = x3
      BY <1>1 DEF Upload!Truncated, Upload!Batches
    <3> HIDE DEF b
    <3>2. /\ w \in Seq(Upload!Batches) /\ Len(w) <= BacklogMax
          /\ Len(x4) < BacklogMax => Stored(w) = Stored(x4) \cup Upload!ToSet(b.items)
      BY <1>1, <3>1, PushOf
    <3>3. x4' = w
      BY <2>1, <2>3 DEF b
    <3> HIDE DEF w
    <3>4. Len(x4) < BacklogMax \/ Upload!GivenUp
      <4>1. BacklogMax \in Nat /\ Len(x4) \in Nat
        BY <1>1, UploadAssumption, LenProperties
      <4> QED BY <4>1, <1>1, <2>1 DEF Upload!GivenUp
    <3> QED BY <1>1, <1>3, <2>1, <3>1, <3>2, <3>3, <3>4
  <2> QED BY <2>2, <2>3
<1>13. CASE Upload!Beat \/ Upload!Poll
  BY <1>4, <1>13 DEF Upload!Beat, Upload!Poll
<1>14. CASE Upload!Report
  <2>1. PICK d \in 1..Things : /\ x2' = x2 \/ x2' = Append(x2, d)
                               /\ x3' = x3 /\ x4' = x4
    BY <1>14 DEF Upload!Report
  <2> DEFINE w == Append(x2, d)  T == 1..Things
  <2>2. d \in T /\ x2 \in Seq(T)
    BY <1>1
  <2>3. w \in Seq(T) /\ Upload!ToSet(w) = Upload!ToSet(x2) \cup {d}
    <3> HIDE DEF T
    <3> QED BY <2>2, SetOfAppend
  <2>4. x2' = x2 \/ x2' = w
    BY <2>1
  <2> HIDE DEF w
  <2> QED BY <1>1, <2>1, <2>3, <2>4
<1>15. CASE Upload!Outage \/ Upload!Tick \/ Upload!PollComesDue \/ UNCHANGED Upload!vars
  BY <1>4, <1>15 DEF Upload!Outage, Upload!Tick, Upload!PollComesDue, Upload!vars
<1> QED BY <1>5, <1>6, <1>7, <1>8, <1>9, <1>10, <1>11, <1>12, <1>13, <1>14, <1>15
        DEF Upload!Next, Upload!Loop

-----------------------------------------------------------------------------
(* The parts in turn. *)
PartInv ==
    /\ part = "wifi" => Wifi!ReportsInv
    /\ part = "twin" => Twin!TwinInv
    /\ part = "flow" => Flow!SilenceInv
    /\ part = "status" => Status!EchoInv
    /\ part = "upload" => Upload!RingInv
    /\ part = "peers" => Peers!PeersInv
    /\ part = "game" => Game!GameInv

LEMMA PartInitial == Init => PartInv
<1> SUFFICES ASSUME Init PROVE PartInv
  OBVIOUS
<1>1. /\ part = "wifi" => Wifi!Init
      /\ part = "twin" => Twin!Init
      /\ part = "flow" => Flow!Init
      /\ part = "status" => Status!Init
      /\ part = "upload" => Upload!Init
      /\ part = "peers" => Peers!Init
      /\ part = "game" => Game!Init
  BY DEF Init
<1> QED BY <1>1, WifiInitial, TwinInitial, SilenceInitial, EchoInitial, BacklogInitial,
           PeersInitial, GameInitial DEF PartInv

\* A step of the whole is one of the part whose behaviour it is.
LEMMA PartStep ==
    ASSUME [Next]_vars
    PROVE  /\ part' = part
           /\ part = "wifi" => [Wifi!Next]_(Wifi!vars)
           /\ part = "twin" => [Twin!Next]_(Twin!vars)
           /\ part = "flow" => [Flow!Next]_(Flow!vars)
           /\ part = "status" => [Status!Next]_(Status!vars)
           /\ part = "upload" => [Upload!Next]_(Upload!vars)
           /\ part = "peers" => [Peers!Next]_(Peers!vars)
           /\ part = "game" => [Game!Next]_(Game!vars)
<1>1. CASE UNCHANGED vars
  BY <1>1 DEF vars, Wifi!vars, Twin!vars, Flow!vars, Status!vars, Upload!vars, Peers!vars,
              Game!vars
<1>2. CASE Next
  BY <1>2 DEF Next, WifiStep, TwinStep, FlowStep, StatusStep, ThreatsStep, NetworkStep,
              UploadStep, PeersStep, GameStep
<1> QED BY <1>1, <1>2

LEMMA PartNext == PartInv /\ [Next]_vars => PartInv'
<1> SUFFICES ASSUME PartInv, [Next]_vars PROVE PartInv'
  OBVIOUS
<1>1. part' = part
  BY PartStep
<1>2. part = "wifi" => Wifi!ReportsInv'
  BY PartStep, WifiNext DEF PartInv
<1>3. part = "twin" => Twin!TwinInv'
  BY PartStep, TwinNext DEF PartInv
<1>4. part = "flow" => Flow!SilenceInv'
  BY PartStep, SilenceNext DEF PartInv
<1>5. part = "status" => Status!EchoInv'
  BY PartStep, EchoNext DEF PartInv
<1>6. part = "upload" => Upload!RingInv'
  BY PartStep, BacklogNext DEF PartInv
<1>7. part = "peers" => Peers!PeersInv'
  BY PartStep, PeersNext DEF PartInv
<1>8. part = "game" => Game!GameInv'
  BY PartStep, GameNext DEF PartInv
<1> QED BY <1>1, <1>2, <1>3, <1>4, <1>5, <1>6, <1>7, <1>8 DEF PartInv

LEMMA ReportsReal == Wifi!ReportsInv => Wifi!HushedWasTold /\ Wifi!MovesMeansMoved
BY DEF Wifi!ReportsInv

LEMMA ClonesReal == Twin!TwinInv => Twin!AlertIsReal /\ Twin!CloneIsTold
BY DEF Twin!TwinInv

LEMMA GamePlayable == Game!GameInv => Game!Playable /\ Game!SeedAgrees
BY DEF Game!GameInv

LEMMA SelfOut == Peers!PeersInv => Peers!SelfStaysOut
BY DEF Peers!PeersInv, Peers!SelfInv

\* What is told was heard: a frame that is due is held back only for a report
\* that was made, a name moves only by its own signals, a clone is told when and
\* only when there is one, and a counter is counted once; for any frames and
\* sights in the air, any sizes of the tables, any loss and any restart
\* (wifi_scanner.c, detection_policy.c, uart_rx.c).
THEOREM EvidenceHolds == Spec => []EvidenceIsReal
<1>1. PartInv => EvidenceIsReal
  BY ReportsReal, ClonesReal, EchoNone DEF PartInv, EvidenceIsReal
<1> QED BY <1>1, PartInitial, PartNext, PTL DEF Spec

\* The game stays one that can be played, with the seed its record holds, and
\* the badge does not meet itself, for every number of packets, losses and
\* resets and every nearness (badge_con_game.c, badge_con_runtime.c,
\* badge_con_observer.c).
THEOREM GameSoundHolds == Spec => []GameStaysSound
<1>1. PartInv => GameStaysSound
  BY GamePlayable, SelfOut DEF PartInv, GameStaysSound
<1> QED BY <1>1, PartInitial, PartNext, PTL DEF Spec

\* No step takes a promise back: nothing is sent that was stopped, nothing held
\* for the backend is dropped but where the code gives it up, and no peer is
\* felt twice in a window, for any queues, rings, tables, losses and outages
\* (uart_tx.c, http_upload.c, badge_con_encounter.c).
THEOREM PromisesKept == Spec => PromisesHold
<1> DEFINE Promise == /\ part = "flow" => Flow!NoTelemetry
                      /\ part = "upload" => Upload!Kept
                      /\ part = "peers" => Peers!OneEffectAtMost
<1>1. PartInv /\ [Next]_vars => Promise
  BY PartStep, SilenceNext, BacklogNext, PeersNext DEF PartInv
<1>2. PartInv /\ [Next]_vars => [Promise]_vars
  BY <1>1
<1> HIDE DEF Promise
<1>3. Spec => [][Promise]_vars
  BY <1>2, PartInitial, PartNext, PTL DEF Spec
<1> QED BY <1>3 DEF PromisesHold, Promise
=============================================================================
