------------------------------- MODULE EvilTwin -------------------------------
(***************************************************************************)
(* Two networks of one name (shared/detection_policy.c, fed by the Wi-Fi     *)
(* scanner).  A small table keeps, for the names used last, the access       *)
(* points seen last.  An observation is compared with the other points of    *)
(* its name that are still fresh: an open one beside a protected one, or a   *)
(* strong new one of another vendor with other security, raises an alert of  *)
(* the suspect, unless it was raised less than Quiet ago.  When a table is   *)
(* full, the entry used longest ago makes room and is forgotten.             *)
(*                                                                         *)
(* An observation is one step.  Weakness is -rssi.  Times start at 1: zero   *)
(* means never.                                                            *)
(*                                                                         *)
(* Bounds: Sights that may be observed, Observations in all; SsidSlots,      *)
(* ApSlots; TimeMax.                                                        *)
(***************************************************************************)
EXTENDS Naturals, Sequences, FiniteSets, FiniteSetsExt

CONSTANTS Sights, SsidSlots, ApSlots, Fresh, Quiet, Observations, TimeMax

VARIABLES now, left, table,
          heard, \* the last observation of each name and point (history)
          told,  \* when each was last told as a suspect (history)
          alert  \* what the latest step observed and told (history)

vars == <<now, left, table, heard, told, alert>>

Ssids == {s.ssid : s \in Sights}
Aps   == {s.ap : s \in Sights}
Never == [auth |-> "none", weak |-> 0, at |-> 0]
Nothing == [what |-> "none"]

Init == /\ now = 1 /\ left = Observations /\ table = <<>>
        /\ heard = [s \in Ssids |-> [a \in Aps |-> Never]]
        /\ told = [s \in Ssids |-> [a \in Aps |-> 0]]
        /\ alert = Nothing

Apart(a, b) == IF a > b THEN a - b ELSE b - a

-----------------------------------------------------------------------------
(* evil_twin_find_or_claim_ssid, evil_twin_find_or_claim_ap. *)

Oldest(seq) == CHOOSE i \in DOMAIN seq :
                 \A j \in DOMAIN seq : seq[i].at < seq[j].at \/ (seq[i].at = seq[j].at /\ i <= j)
Place(seq, slots, mine) == IF mine # {} THEN Min(mine)
                           ELSE IF Len(seq) < slots THEN Len(seq) + 1 ELSE Oldest(seq)
With(seq, i, x) == IF i > Len(seq) THEN Append(seq, x) ELSE [seq EXCEPT ![i] = x]

SsidPlace(ssid) == Place(table, SsidSlots, {i \in DOMAIN table : table[i].ssid = ssid})
ApsOf(ssid) == LET i == SsidPlace(ssid)
               IN  IF i \in DOMAIN table /\ table[i].ssid = ssid THEN table[i].aps ELSE <<>>

\* The points of the name with the observation in its place.
Seen(s) ==
    LET aps  == ApsOf(s.ssid)
        mine == {i \in DOMAIN aps : aps[i].ap = s.ap}
        i    == Place(aps, ApSlots, mine)
        new  == IF mine # {} THEN [aps[i] EXCEPT !.auth = s.auth, !.weak = s.weak, !.at = now]
                ELSE [ap |-> s.ap, auth |-> s.auth, weak |-> s.weak, at |-> now, alert |-> 0]
    IN  [aps |-> With(aps, i, new), current |-> i, new |-> mine = {}]

-----------------------------------------------------------------------------
(* fof_policy_evil_twin_observe. *)

Mixed(a, b) == (a.auth = "open") # (b.auth = "open")
StrongClone(a, b) == /\ a.auth # b.auth /\ a.ap[1] # b.ap[1]      \* vendor
                     /\ Apart(a.weak, b.weak) <= 18 /\ (a.weak <= 65 \/ b.weak <= 65)

\* Mutant: a point heard long ago still counts.
EverSeen(o) == o.at > 0
StillFresh(o) == now - o.at <= Fresh

\* Of a mixed pair the open one is the suspect, of two strong ones the stronger.
\* Mutant: the one just observed.
JustSeen(cur, o, i, j) == i
Suspect(cur, o, i, j) ==
    IF Mixed(cur, o) THEN IF cur.auth = "open" THEN i ELSE j
    ELSE IF o.weak < cur.weak THEN j ELSE i

\* Mutant: a suspect is told once.
ToldBefore(s) == s.alert > 0
Throttled(s) == s.alert > 0 /\ now - s.alert < Quiet

Alerts(seen) ==
    LET i == seen.current  cur == seen.aps[i]
        susp(j) == Suspect(cur, seen.aps[j], i, j)
    IN  {j \in DOMAIN seen.aps \ {i} :
           LET o == seen.aps[j]  s == seen.aps[susp(j)] IN
           /\ StillFresh(o)
           /\ Mixed(cur, o) \/ (seen.new /\ StrongClone(cur, o))
           /\ ~Throttled(s)}

\* The first of the strongest suspects.
Best(seen) ==
    LET i == seen.current
        susp(j) == Suspect(seen.aps[i], seen.aps[j], i, j)
        weak(j) == seen.aps[susp(j)].weak
    IN  CHOOSE j \in Alerts(seen) :
          \A k \in Alerts(seen) : weak(j) < weak(k) \/ (weak(j) = weak(k) /\ j <= k)

Observe(s) ==
    LET seen == Seen(s)  i == seen.current
        j    == Best(seen)  k == Suspect(seen.aps[i], seen.aps[j], i, j)
        ref  == IF k = i THEN j ELSE i
        raised == Alerts(seen) # {}
        aps  == IF raised THEN [seen.aps EXCEPT ![k].alert = now] ELSE seen.aps
    IN  /\ left > 0 /\ left' = left - 1
        /\ table' = With(table, SsidPlace(s.ssid), [ssid |-> s.ssid, aps |-> aps, at |-> now])
        /\ heard' = [heard EXCEPT ![s.ssid][s.ap] = [auth |-> s.auth, weak |-> s.weak, at |-> now]]
        /\ told' = IF raised THEN [told EXCEPT ![s.ssid][aps[k].ap] = now] ELSE told
        /\ alert' = [what |-> IF raised THEN "alert" ELSE "seen", ssid |-> s.ssid, ap |-> s.ap,
                     suspect |-> IF raised THEN aps[k].ap ELSE s.ap,
                     reference |-> IF raised THEN aps[ref].ap ELSE s.ap]
        /\ UNCHANGED now

Tick == now < TimeMax /\ now' = now + 1 /\ alert' = Nothing /\ UNCHANGED <<left, table, heard, told>>

Next == (\E s \in Sights : Observe(s)) \/ Tick
Spec == Init /\ [][Next]_vars

-----------------------------------------------------------------------------
TypeOK ==
    /\ now \in 1..TimeMax /\ Len(table) <= SsidSlots
    /\ \A i \in DOMAIN table : Len(table[i].aps) <= ApSlots /\ table[i].at \in 1..now
    /\ \A s \in Ssids, a \in Aps : told[s][a] \in 0..now

\* An alert names two points of one name as they were last heard, both lately,
\* and the open one of a mixed pair, whatever the table had to forget.
AlertIsReal ==
    alert.what = "alert" =>
      LET s == heard[alert.ssid][alert.suspect]  r == heard[alert.ssid][alert.reference]
      IN  /\ alert.suspect # alert.reference
          /\ s.at > 0 /\ r.at > 0 /\ now - s.at <= Fresh /\ now - r.at <= Fresh
          /\ \/ s.auth = "open" /\ r.auth # "open"
             \/ s.auth # "open" /\ r.auth # "open" /\ s.auth # r.auth

Heard(s) == {a \in Aps : heard[s][a].at > 0}
Roomy == /\ Cardinality({s \in Ssids : Heard(s) # {}}) <= SsidSlots
         /\ \A s \in Ssids : Cardinality(Heard(s)) <= ApSlots

\* As long as the tables hold all there is, an open point beside a protected
\* one of its name has been told, or another of that name has, not longer than
\* Quiet ago, whichever of them is heard.
CloneIsTold ==
    alert.what # "none" /\ Roomy =>
      LET here == heard[alert.ssid]  cur == here[alert.ap] IN
      (\E a \in Aps \ {alert.ap} : here[a].at > 0 /\ now - here[a].at <= Fresh /\ Mixed(cur, here[a]))
        => \E a \in Aps : told[alert.ssid][a] > 0 /\ now - told[alert.ssid][a] < Quiet

-----------------------------------------------------------------------------
\* The inductive strengthenings.
Auths   == {s.auth : s \in Sights}
Point   == [ap : Aps, auth : Auths, weak : Nat, at : Nat \ {0}, alert : Nat]
Entry   == [ssid : Ssids, aps : Seq(Point), at : Nat]
Hearing == [auth : Auths \cup {"none"}, weak : Nat, at : Nat]
TypedInv ==
    /\ now \in Nat \ {0} /\ table \in Seq(Entry)
    /\ heard \in [Ssids -> [Aps -> Hearing]] /\ told \in [Ssids -> [Aps -> Nat]]

\* The tables hold a name once and each of its points, of which there are some,
\* once, as last heard.
Agrees(aps, here) ==
    \A p \in DOMAIN aps :
       LET h == here[aps[p].ap]
       IN  /\ h.auth = aps[p].auth /\ h.weak = aps[p].weak /\ h.at = aps[p].at
           /\ \A q \in DOMAIN aps : aps[p].ap = aps[q].ap => p = q
TableInv ==
    \A i \in DOMAIN table : /\ Agrees(table[i].aps, heard[table[i].ssid])
                            /\ DOMAIN table[i].aps # {}
                            /\ \A j \in DOMAIN table : table[i].ssid = table[j].ssid => i = j

\* As long as they hold all there is, they know when each was last told.
Complete(aps, here, tell) ==
    \A a \in Aps : here[a].at > 0 => \E p \in DOMAIN aps : aps[p].ap = a /\ aps[p].alert = tell[a]
KeptInv ==
    /\ \A s \in Ssids, a \in Aps : heard[s][a].at = 0 => told[s][a] = 0
    /\ Roomy => \A s \in Ssids :
         Heard(s) # {} => \E i \in DOMAIN table : /\ table[i].ssid = s
                                                 /\ Complete(table[i].aps, heard[s], told[s])

TwinInv == TypedInv /\ TableInv /\ KeptInv /\ AlertIsReal /\ CloneIsTold
=============================================================================
