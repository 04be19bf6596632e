---------------------------- MODULE ThreatClassify ----------------------------
(***************************************************************************)
(* badge_threat_policy.c: what a detection is taken for.  The texts of a   *)
(* detection are the set of things they mention, its RSSI is in dBm (zero  *)
(* when unknown), its confidence in percent.  Scores are in hundredths of  *)
(* a point and times in seconds.                                           *)
(***************************************************************************)
EXTENDS Integers, Sequences, SequencesExt

ConfirmedSources == {"ble_rid", "wifi_dji_ie", "wifi_rid"}
DroneSources == ConfirmedSources \cup {"wifi_ssid", "wifi_oui"}
Overheard == {"wifi_probe", "wifi_assoc"}
FlockSources == Overheard \cup {"wifi_oui", "wifi_ssid", "wifi_inventory"}

Mentions(d, words) == d.says \cap words # {}

Ambient(d) ==
    /\ d.source \in Overheard \cup {"wifi_ssid"}
    /\ Mentions(d, {"demo"}) /\ ~Mentions(d, {"drone"})
EvilTwin(d) == d.source \in Overheard /\ Mentions(d, {"evil twin"})
Notable(d) == Mentions(d, {"notable"})
HasLift(d) ==
    \/ d.source \in ConfirmedSources
    \/ d.source \in {"wifi_ssid", "wifi_oui"} /\ Mentions(d, {"ssid", "maker"})
    \/ Mentions(d, {"ssid", "model", "operator", "dji"})
\* A pair of glasses that only a detector suspects, or only a status line names.
UnprovenGlasses(d) == d.fp = "" /\ Mentions(d, {"weak meta", "status meta"})
LcdWorthy(d) ==
    \/ Mentions(d, {"drone", "deauth", "disassoc", "evil twin", "beacon spam", "anomaly"})
    \/ d.source = "wifi_probe" /\ ~Mentions(d, {"routine"})
         /\ (d.confidence >= 62 \/ d.rssi \in -50 .. -1)

Ignored == [cls |-> "ignore", category |-> "none", base |-> 0, quality |-> 0]
As(c, k, b, q) == [cls |-> c, category |-> k, base |-> 100 * b, quality |-> q]
When(holds, event) == [when |-> holds, as |-> event]
Sure(d, percent, high, low) == IF d.confidence >= percent THEN high ELSE low

\* The chain of ifs of badge_threat_classify_detection, in its order: the first
\* rule that holds decides.
StrongRules(d) == <<
    When(d.kind = "spam", As("ble", "ble_spam", 72, 8)),
    When(EvilTwin(d), As("wifi", "wifi", Sure(d, 70, 75, 60), 6)),
    When(d.source = "wifi_inventory" /\ Mentions(d, {"privacy oui"}),
         As("other", "privacy", 45, 6)),
    When(d.source \in FlockSources /\ Mentions(d, {"flock"}), As("wifi", "flock", 78, 8)),
    When((d.source \in DroneSources \/ Mentions(d, {"drone"})) /\ ~HasLift(d), Ignored),
    When(d.source \in ConfirmedSources, As("drone", "drone", 82 + Sure(d, 80, 5, 0), 9)),
    When(d.source = "wifi_ssid", As("drone", "ssid", 68 + Sure(d, 80, 5, 0), 7)),
    When(d.source = "wifi_oui", As("drone", "ssid", 58 + Sure(d, 80, 5, 0), 5)),
    When(Mentions(d, {"drone"}), As("drone", "drone", 62 + Sure(d, 80, 5, 0), 4)),
    When(d.source \in Overheard /\ Notable(d), As("wifi", "ssid", 64, 6)) >>

BleRules(d) == <<
    When(d.source # "ble_fingerprint", Ignored),
    When(Mentions(d, {"flock"}), As("other", "flock", 74, 8)),
    When(Mentions(d, {"meta", "glasses"}) /\ UnprovenGlasses(d), Ignored),
    When(Mentions(d, {"meta"}), As("meta", "glass", 82, 8)),
    When(Mentions(d, {"glasses"}), As("meta", "glass", 68, 7)),
    When(Mentions(d, {"recorder"}), As("other", "listening", 44, 5)),
    When(Mentions(d, {"listening"}), As("other", "listening", 56, 6)),
    When(Mentions(d, {"beacon", "event badge", "hid", "auracast"})
           /\ d.rssi < -72 /\ d.confidence < 70, Ignored),
    When(Mentions(d, {"camera"}), As("other", "camera", 58, 6)),
    When(Mentions(d, {"lock"}), As("other", "lock", 50, 6)),
    When(Mentions(d, {"hid"}), As("other", "hid", 34, 4)),
    When(Mentions(d, {"event badge"}), As("other", "event_badge", 36, 4)),
    When(Mentions(d, {"beacon"}), As("other", "beacon", 28, 3)),
    When(Mentions(d, {"auracast"}), As("other", "audio", 22, 3)),
    When(Mentions(d, {"security"}), As("other", "privacy", 52, 5)),
    When(Mentions(d, {"tracker"}) /\ d.rssi >= -55, As("tracker", "tag_close", 36, 4)) >>

WifiRules(d) == <<
    When(d.source \in Overheard /\ ~LcdWorthy(d), Ignored),
    When(d.source \in Overheard /\ Mentions(d, {"deauth"}),
         As("wifi", "wifi", Sure(d, 70, 70, 55), 6)),
    When(d.source \in Overheard /\ Mentions(d, {"disassoc"}),
         As("wifi", "wifi", Sure(d, 70, 62, 46), 5)),
    When(d.source \in Overheard /\ Mentions(d, {"beacon spam"}),
         As("wifi", "wifi", Sure(d, 70, 60, 45), 5)),
    When(d.source \in Overheard, As("wifi", "wifi", Sure(d, 70, 55, 40), 4)),
    When(d.source = "wifi_inventory" /\ Mentions(d, {"attack tool"}),
         As("wifi", "wifi", Sure(d, 90, 74, 62), 7)),
    When(d.source = "wifi_inventory" /\ Mentions(d, {"alpr"}), As("other", "flock", 74, 8)),
    When(d.source = "wifi_inventory" /\ Mentions(d, {"privacy"}),
         As("other", "camera", 56, 6)) >>

Rules(d) == StrongRules(d) \o (IF d.source = "ble_fingerprint" THEN BleRules(d)
                                                               ELSE WifiRules(d))

Priority == [drone |-> 80, ssid |-> 70, flock |-> 60, glass |-> 50, ble_spam |-> 45,
             camera |-> 38, lock |-> 36, listening |-> 34, hid |-> 32, wifi |-> 30,
             event_badge |-> 24, tag_close |-> 20, beacon |-> 16, privacy |-> 15,
             audio |-> 14]

\* finalize_event_rank; remote is the label "Remote ID".
Ranked(d, e) ==
    [cls |-> e.cls, category |-> e.category, base |-> e.base, quality |-> e.quality,
     remote |-> e.cls = "drone" /\ d.source \in {"ble_rid", "wifi_rid"},
     rank |-> 1000 * Priority[e.category] + 10 * e.quality + ((e.base + 50) \div 100)]

\* A mutant: the floor is applied to every source.
FaintForAll(d) == d.rssi < -85

\* -85 dBm is the floor below which only a confirmed drone protocol counts.
TooFaint(d) == d.rssi < -85 /\ d.source \notin ConfirmedSources

Near(d) == d.rssi \in -50 .. -1

Classify(d) ==
    LET holding == SelectSeq(Rules(d), LAMBDA r : r.when)
        e == IF holding = <<>> THEN Ignored ELSE Head(holding).as
    IN IF \/ TooFaint(d) \/ Ambient(d) \/ Mentions(d, {"skimmer"}) \/ d.kind = "serial"
          \/ e = Ignored
       THEN [e |-> Ignored, visible |-> FALSE]
       ELSE [e |-> Ranked(d, [e EXCEPT !.base = LET b == IF Near(d) THEN @ + 1000 ELSE @
                                             IN IF b > 10000 THEN 10000 ELSE b]),
             visible |-> TRUE]

\* make_event_key: what makes two detections the same entity.
Key(d, e) ==
    CASE e.cls = "drone" /\ d.source = "wifi_ssid" -> <<"DRONE_SSID", d.family>>
      [] e.cls = "drone" /\ d.source # "wifi_ssid" -> <<"DRONE", d.id>>
      [] e.category = "ble_spam" /\ d.fp # "" -> <<"BLE:SPAM", d.fp>>
      [] e.cls = "wifi" /\ EvilTwin(d) -> <<"EVIL_TWIN", d.family>>
      [] e.cls = "wifi" /\ ~EvilTwin(d) /\ d.source \in Overheard /\ Notable(d)
           -> <<"SSID", d.family>>
      [] e.cls = "meta" -> IF d.fp # "" THEN <<"PRIV:META:GLASS", d.fp>>
                                        ELSE <<"PRIV:META:WEAK">>
      [] e.cls = "tracker" -> <<"PRIV:TAG", d.id>>
      [] e.category \in {"beacon", "event_badge", "audio", "listening"}
           -> <<"PRIV:AREA", e.category>>
      [] e.category \in {"camera", "lock", "hid", "flock"} /\ e.cls = "other"
           -> <<"PRIV", e.category, IF d.fp # "" THEN d.fp ELSE d.id>>
      [] e.category = "privacy" /\ d.rssi \in -60 .. -1 -> <<"PRIV:SIGNAL", d.id>>
      [] e.cls = "ble" /\ d.source = "ble_fingerprint" /\ d.fp = "" -> <<"BLE:NEARBY">>
      [] OTHER -> <<"IDENTITY", d.id>>

-----------------------------------------------------------------------------
(* Detections for small instances: a deauthentication burst, a drone's      *)
(* Remote ID, a spammed SSID, glasses and what may be glasses.              *)
Sample(source, says, rssi, who) ==
    [source |-> source, says |-> says, rssi |-> rssi, confidence |-> 75, kind |-> "none",
     fp |-> IF "meta" \in says THEN who ELSE "", id |-> who, family |-> who]

TheSignals == {Sample("wifi_assoc", {"deauth"}, -48, "ap"), Sample("ble_rid", {}, -92, "uas"),
               Sample("wifi_ssid", {"ssid"}, -70, "air"),
               Sample("ble_fingerprint", {"meta"}, -58, "frame"),
               Sample("ble_fingerprint", {"weak meta", "glasses"}, -58, "maybe")}
================================================================================
