------------------------------ MODULE ThreatTable ------------------------------
(***************************************************************************)
(* badge_threat_policy.c: the table of what was lately heard, the fading   *)
(* of its scores and the list the display shows.  Two tasks share it under *)
(* a mutex of uart_rx.c: the scanners' readers ingest, and the display,    *)
(* the web status and the serial status take snapshots, as often as they   *)
(* like: the display does with every frame.                                *)
(***************************************************************************)
EXTENDS ThreatClassify, FiniteSets, FiniteSetsExt

CONSTANTS MaxEntities,  \* BADGE_THREAT_MAX_ENTITIES
          Listed,       \* BADGE_THREAT_SNAPSHOT_ENTITIES
          Unit,         \* seconds of a step of time
          TimeMax       \* steps of time

VARIABLES entities,     \* the slots of badge_threat_state_t
          shown,        \* the last snapshot's list, best first
          counts,       \* active_counts of the classes the display asks for
          now
vars == <<entities, shown, counts, now>>

Slots == 1 .. MaxEntities
Empty == [key |-> <<>>]
Active(e) == e # Empty

Init ==
    /\ entities = [i \in Slots |-> Empty]
    /\ shown = <<>>
    /\ counts = [drone |-> 0, meta |-> 0]
    /\ now = 0

-----------------------------------------------------------------------------
SlotOf(key) == {i \in Slots : entities[i].key = key}

\* claim_entity_slot: the first free one, else the one not heard for longest,
\* whatever its class.
ClaimedSlot ==
    LET free == {i \in Slots : ~Active(entities[i])}
        oldest == {i \in Slots : \A j \in Slots : entities[i].seen <= entities[j].seen}
        among == IF free # {} THEN free ELSE oldest
    IN CHOOSE i \in among : \A j \in among : i <= j

Larger(a, b) == IF a > b THEN a ELSE b
Stronger(old, new) == IF new < 0 /\ (old = 0 \/ new > old) THEN new ELSE old

NewEntity(d, e) ==
    [key |-> Key(d, e), cls |-> e.cls, category |-> e.category, first |-> now, seen |-> now,
     score |-> e.base, base |-> e.base, rank |-> e.rank, last |-> d.rssi, strongest |-> d.rssi,
     id |-> d.fp, remote |-> e.remote]

\* A lesser event never renames an entity, and none lowers its rank or score.
Merged(x, d, e) ==
    [x EXCEPT !.cls = IF e.rank >= x.rank THEN e.cls ELSE @,
              !.category = IF e.rank >= x.rank THEN e.category ELSE @,
              !.remote = IF e.rank >= x.rank THEN e.remote ELSE @,
              !.seen = now, !.last = IF d.rssi < 0 THEN d.rssi ELSE @,
              !.strongest = Stronger(@, d.rssi),
              !.score = Larger(@, e.base), !.base = Larger(@, e.base),
              !.rank = Larger(@, e.rank)]

\* badge_threat_state_ingest.
Ingest(d) ==
    /\ Classify(d).visible
    /\ LET e == Classify(d).e
           known == SlotOf(Key(d, e))
       IN IF known = {}
          THEN entities' = [entities EXCEPT ![ClaimedSlot] = NewEntity(d, e)]
          ELSE \E i \in known : entities' = [entities EXCEPT ![i] = Merged(@, d, e)]
    /\ UNCHANGED <<shown, counts, now>>

-----------------------------------------------------------------------------
Age(x) == Unit * (now - x.seen)

Privacy(cls) == cls \in {"meta", "other"}
Hold == [meta |-> 300, tracker |-> 300, other |-> 300, drone |-> 90, wifi |-> 60, ble |-> 12]
Ttl(x) == IF x.cls = "drone" /\ x.category = "ssid" THEN 45
          ELSE [drone |-> 300, meta |-> 600, tracker |-> 900, wifi |-> 180, ble |-> 30,
                other |-> 900][x.cls]

\* entity_is_display_stale.
Stale(x) ==
    CASE x.cls = "drone" /\ x.category = "ssid" -> Age(x) > 15
      [] x.cls = "meta" -> Age(x) > 90
      [] x.cls = "other" -> Age(x) > 300
      [] x.cls = "drone" /\ x.category # "ssid" -> Age(x) > 90
      [] x.cls = "wifi" -> Age(x) > 60
      [] OTHER -> FALSE

\* entity_score_now.
DecayPerSecond(cls) ==
    IF Privacy(cls) THEN 12 ELSE IF cls = "drone" THEN 35 ELSE IF cls = "wifi" THEN 55 ELSE 800
Clamped(score) == IF score < 0 THEN 0 ELSE IF score > 10000 THEN 10000 ELSE score
ScoreNow(x) ==
    LET from == IF x.score > 0 THEN x.score ELSE x.base
        held == Age(x) - Hold[x.cls]
        sustained == Unit * (now - x.first) - 60
        fade == IF held > 0 THEN held * DecayPerSecond(x.cls) ELSE 0
        normal == IF sustained <= 0 THEN 0
                  ELSE IF sustained > 60 THEN 2000 ELSE (sustained * 100) \div 3
    IN Clamped(from - fade - normal)

Survives(x) == Active(x) /\ Age(x) <= Ttl(x) /\ ScoreNow(x) >= 500

\* What is displayed: a strong signal lifts it, staleness dims it.
Proximity(rssi) ==
    IF rssi >= 0 \/ rssi < -75 THEN 0 ELSE IF rssi >= -45 THEN 3 ELSE IF rssi >= -60 THEN 2 ELSE 1
Floor(cls, prox) ==
    IF prox = 0 THEN 0
    ELSE CASE cls = "ble" -> <<1000, 1800, 2600>>[prox]
           [] cls = "tracker" -> <<0, 0, 3800>>[prox]
           [] Privacy(cls) -> <<5400, 7600, 9200>>[prox]
           [] OTHER -> <<4400, 6600, 8400>>[prox]
Dim(cls) == IF Privacy(cls) THEN 45 ELSE IF cls = "drone" THEN 55
            ELSE IF cls = "wifi" THEN 50 ELSE 35
Item(x) ==
    LET prox == Proximity(IF x.cls = "meta" /\ x.last < 0 THEN x.last ELSE x.strongest)
        lifted == Larger(ScoreNow(x), IF Stale(x) THEN 0 ELSE Floor(x.cls, prox))
        score == IF Stale(x) THEN (lifted * Dim(x.cls)) \div 100 ELSE lifted
    IN [key |-> x.key, cls |-> x.cls, category |-> x.category, stale |-> Stale(x),
        score |-> score, weak |-> x.cls = "meta" /\ x.id = "", remote |-> x.remote,
        best |-> x.strongest, prox |-> prox,
        at |-> x.rank + ((score + 50) \div 100) + (IF Stale(x) THEN -160 ELSE 20 * prox)]

\* A mutant: the list is full before the better item comes.
InsertedIfRoom(list, item) ==
    IF Len(list) = Listed THEN list
    ELSE SelectSeq(list, LAMBDA o : o.at >= item.at) \o <<item>>
           \o SelectSeq(list, LAMBDA o : o.at < item.at)

\* The insertion by rank: shift what is worse, the last one falls off.
Inserted(list, item) ==
    LET better == SelectSeq(list, LAMBDA o : o.at >= item.at)
        worse == SelectSeq(list, LAMBDA o : o.at < item.at)
        all == better \o <<item>> \o worse
    IN IF Len(all) > Listed THEN SubSeq(all, 1, Listed) ELSE all

ListOf(survivors) ==
    FoldLeft(LAMBDA list, i : IF i \in survivors THEN Inserted(list, Item(entities[i])) ELSE list,
             <<>>, [i \in Slots |-> i])

Glasses(list) ==
    LET live == {i \in DOMAIN list : list[i].cls = "meta" /\ ~list[i].stale}
        strong == {i \in live : ~list[i].weak}
    IN IF strong # {} THEN Cardinality(strong) ELSE IF live # {} THEN 1 ELSE 0

\* What the top of the screen tells of drones: how many live ones the list
\* shows, and how near the nearest is.
Evidence(list) ==
    {i \in DOMAIN list : /\ list[i].cls = "drone" /\ ~list[i].stale
                         /\ list[i].remote \/ list[i].category = "ssid"}
Seen(list) == Cardinality({list[i].key : i \in Evidence(list)})
Percent(item) ==
    IF item.best < 0
    THEN IF item.best <= -90 THEN 0 ELSE IF item.best >= -40 THEN 100
         ELSE ((item.best + 90) * 100 + 25) \div 50
    ELSE <<0, 35, 70, 100>>[item.prox + 1]
Boosted(base, count) ==
    LET boost == IF count > 3 THEN 30 ELSE (count - 1) * 12
    IN IF count = 0 THEN 0 ELSE IF base + boost > 100 THEN 100 ELSE base + boost

\* A mutant: no warmth without a signal.
SignalHeat(list) ==
    IF Evidence(list) = {} THEN 0
    ELSE LET nearest == Max({Percent(list[i]) : i \in Evidence(list)})
         IN IF nearest = 0 THEN 0 ELSE Boosted(nearest, Seen(list))

DroneHeat(list) ==
    LET nearest == Max({Percent(list[i]) : i \in Evidence(list)})
    IN IF Evidence(list) = {} THEN 0
       ELSE Boosted(IF nearest = 0 THEN 18 ELSE nearest, Seen(list))

\* badge_threat_state_snapshot: the faded score is kept, and what has faded
\* away is erased.
Snapshot ==
    LET survivors == {i \in Slots : Survives(entities[i])}
    IN /\ entities' = [i \in Slots |-> IF i \in survivors
                                       THEN [entities[i] EXCEPT !.score = ScoreNow(entities[i])]
                                       ELSE Empty]
       /\ shown' = ListOf(survivors)
       /\ counts' = [drone |-> Cardinality({i \in survivors : entities[i].cls = "drone"
                                                              /\ ~Stale(entities[i])}),
                     meta |-> Glasses(ListOf(survivors))]
       /\ UNCHANGED now

Tick ==
    /\ now < TimeMax
    /\ now' = now + 1
    /\ UNCHANGED <<entities, shown, counts>>

Hear == \E d \in TheSignals : Ingest(d)
Next == Hear \/ Snapshot \/ Tick
Spec == Init /\ [][Next]_vars
FairSpec == Spec /\ WF_vars(Snapshot) /\ WF_vars(Tick)

-----------------------------------------------------------------------------
\* The list is in the order of the categories' priorities, whatever the scores,
\* the distances and the staleness add, and what is left out of a full list is
\* of no higher priority than what is in it.
InOrder ==
    Snapshot => LET over == {entities'[i] : i \in Slots} \ {Empty}
                    unlisted == {x \in over : \A i \in DOMAIN shown' : shown'[i].key # x.key}
                    prio(x) == Priority[x.category]
                IN /\ \A i, j \in DOMAIN shown' : i < j => prio(shown'[i]) >= prio(shown'[j])
                   /\ unlisted # {} => Len(shown') = Listed
                   /\ \A x \in unlisted, i \in DOMAIN shown' : prio(x) <= prio(shown'[i])
HighestFirst == [][InOrder]_vars

\* The heat on top of the screen is never cold while a live drone is listed,
\* however weak its signal, and warms for nothing else.
HeatMeansDrone == DroneHeat(shown) > 0 <=> Evidence(shown) # {}

\* A confirmed drone protocol is listed as a drone from any distance: nothing it
\* may mention besides makes it something else, short of a spam or tool warning.
Corner == [source : ConfirmedSources, kind : {"none"}, rssi : {-95, -80, -48, 0},
           confidence : {40, 90}, fp : {""}, id : {"a"}, family : {"f"},
           says : {{w, v} : w, v \in {"dji", "meta", "tracker", "flock", "camera", "evil twin",
                                      "deauth", "weak meta", "demo", "notable", "beacon"}}]
DroneAtAnyRange ==
    now = 0 => \A d \in Corner : Classify(d).visible /\ Classify(d).e.category = "drone"

\* badge_wifi_anomaly_memory_outlives_active_window: what was heard 90 seconds ago
\* is still listed, as stale, unless a newer entity needed its slot.
MemoryOutlivesActiveWindow ==
    [][Snapshot => \A i \in Slots : Active(entities[i]) /\ entities[i].cls = "wifi"
                                      /\ Age(entities[i]) <= 90 => Active(entities'[i])]_vars
================================================================================
