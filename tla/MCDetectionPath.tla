-------------------------- MODULE MCDetectionPath ---------------------------
(***************************************************************************)
(* Small instances of the modules on the way of a detection: from the air  *)
(* (WifiReports, EvilTwin), over the scanner's line (DetectionFlow,        *)
(* StatusEvidence), to the badge's list (ThreatTable), to the backend      *)
(* (BadgeNetwork, Uploader), and from a packet in the air to the game      *)
(* (GameEncounter, BadgeConGame).                                          *)
(*                                                                         *)
(* The parts do not share state; each behaviour is one of one part, chosen *)
(* initially, and TLC explores them all in one run.  They take turns with  *)
(* the variables x1, x2, ...: the variables of the part, in its own order. *)
(***************************************************************************)
EXTENDS Integers, Sequences, FiniteSets

CONSTANTS
    Air, WifiSlots, Tracks, Period, Brief, Delta, MoveMin, Samples,       \* WifiReports
    Budget, Frames,
    Sights, SsidSlots, ApSlots, Lately, Quiet, Observations,           \* EvilTwin
    Kind, RateSlots, QMax, UMax, WireMax, Detections, Stops, AutoStart, \* DetectionFlow
    Sightings, Attacks, Restarts, ShownFor,                            \* StatusEvidence
    Things, Reports, QueueMax, BatchMax, BacklogMax, SwitchAt, Fits,   \* Uploader
    Faults, Outages,
    PeerIds, Self, PeerSlots, Window, Rate, Quorum, SeqMod, PeerTime,  \* GameEncounter
    Packets, Seeds, Eggs, Nearness,                                       \* BadgeConGame
    Losses, Resets, TimeMax                                            \* of several

\* A frame is of one lane, has a key, and within a lane its key says what it is.
ASSUME WifiAssumption ==
    /\ \A f \in Air : /\ f.lane \in {"beacon", "probe", "pair"} /\ f.key # "" /\ f.level \in Int
                      /\ \A g \in Air : f.lane = "probe" /\ g.lane = "probe" /\ f.key = g.key
                                       => ("drone" \in f.is <=> "drone" \in g.is)
    /\ WifiSlots \in Nat \ {0} /\ Samples \in Nat /\ Period \in Nat /\ Brief \in 0..Period
ASSUME TwinAssumption ==
    /\ IsFiniteSet(Sights) /\ \A s \in Sights : s.weak \in Nat
    /\ SsidSlots \in Nat \ {0} /\ ApSlots \in Nat \ {0} /\ Lately \in Nat /\ Quiet \in Nat \ {0}
ASSUME StatusAssumption == Sightings \in Nat /\ Attacks \in Nat /\ Restarts \in Nat
ASSUME UploadAssumption == BacklogMax \in Nat \ {0}
ASSUME PeersAssumption ==
    /\ Self # "nobody" /\ Quorum \in Nat \ {0} /\ SeqMod \in Nat \ {0}
    /\ Window \in Nat /\ Rate \in Nat /\ Window < Rate
ASSUME GameAssumption == Nearness \subseteq Nat

VARIABLES part, x1, x2, x3, x4, x5, x6, x7, x8, x9, x10, x11, x12, x13, x14, x15,
          x16
vars == <<part, x1, x2, x3, x4, x5, x6, x7, x8, x9, x10, x11, x12, x13, x14, x15,
          x16>>

Wifi == INSTANCE WifiReports WITH
    Slots <- WifiSlots, Move <- MoveMin,
    now <- x1, left <- x2, ring <- x3, budget <- x4, track <- x5, ctx <- x6, told <- x7,
    past <- x8, verdict <- x9

Twin == INSTANCE EvilTwin WITH
    Fresh <- Lately,
    now <- x1, left <- x2, table <- x3, heard <- x4, told <- x5, alert <- x6

Flow == INSTANCE DetectionFlow WITH
    Slots <- RateSlots, Sightings <- Detections,
    tx <- x1, pc <- x2, ticks <- x3, det <- x4, queue <- x5, mutex <- x6, limiter <- x7,
    due <- x8, ack <- x9, acked <- x10, down <- x11, up <- x12, uq <- x13, flag <- x14, left <- x15,
    direct <- x16

Status == INSTANCE StatusEvidence WITH
    Fresh <- ShownFor,
    scanner <- x1, uart <- x2, record <- x3, seen <- x4, told <- x5, latest <- x6, left <- x7

Threats == INSTANCE ThreatTable WITH
    MaxEntities <- 2, Listed <- 1, Unit <- 30,
    entities <- x1, shown <- x2, counts <- x3, now <- x4

Network == INSTANCE BadgeNetwork WITH
    Creds <- 2, Retries <- 1, Commands <- 1, Changes <- 1,
    session <- x1, applying <- x2, sta <- x3, timers <- x4, ap <- x5, radio <- x6,
    events <- x7, inRange <- x8, fresh <- x9, left <- x10

Upload == INSTANCE Uploader WITH
    pc <- x1, queue <- x2, batch <- x3, backlog <- x4, wifi <- x5, alive <- x6, url <- x7,
    sock <- x8, paused <- x9, fails <- x10, clock <- x11, acked <- x12, left <- x13

Peers == INSTANCE GameEncounter WITH
    Peers <- PeerIds, Slots <- PeerSlots, TimeMax <- PeerTime,
    now <- x1, air <- x2, table <- x3, own <- x4, heard <- x5, pending <- x6, felt <- x7, resets <- x8

Game == INSTANCE BadgeConGame WITH
    Near <- Nearness,
    game <- x1, late <- x2, claim <- x3, stored <- x4, egg <- x5, count <- x6

-----------------------------------------------------------------------------
\* The variables a part of so many leaves alone.
After13 == UNCHANGED <<x14, x15, x16>>
After10 == UNCHANGED <<x11, x12, x13>> /\ After13
After9 == UNCHANGED x10 /\ After10
After8 == UNCHANGED x9 /\ After9
After7 == UNCHANGED x8 /\ After8
After6 == UNCHANGED x7 /\ After7
After4 == UNCHANGED <<x5, x6>> /\ After6

InitTail10 == x11 = 0 /\ x12 = 0 /\ x13 = 0 /\ x14 = 0 /\ x15 = 0 /\ x16 = 0
InitTail9 == x10 = 0 /\ InitTail10
InitTail8 == x9 = 0 /\ InitTail9
InitTail7 == x8 = 0 /\ InitTail8
InitTail6 == x7 = 0 /\ InitTail7
InitTail4 == x5 = 0 /\ x6 = 0 /\ InitTail6
Init ==
    \/ part = "wifi" /\ Wifi!Init /\ InitTail9
    \/ part = "twin" /\ Twin!Init /\ InitTail6
    \/ part = "flow" /\ Flow!Init
    \/ part = "status" /\ Status!Init /\ InitTail7
    \/ part = "threats" /\ Threats!Init /\ InitTail4
    \/ part = "network" /\ Network!Init /\ InitTail10
    \/ part = "upload" /\ Upload!Init /\ x14 = 0 /\ x15 = 0 /\ x16 = 0
    \/ part = "peers" /\ Peers!Init /\ InitTail8
    \/ part = "game" /\ Game!Init /\ InitTail6

WifiStep == part = "wifi" /\ Wifi!Next /\ After9 /\ UNCHANGED part
TwinStep == part = "twin" /\ Twin!Next /\ After6 /\ UNCHANGED part
FlowStep == part = "flow" /\ Flow!Next /\ UNCHANGED part
StatusStep == part = "status" /\ Status!Next /\ After7 /\ UNCHANGED part
ThreatsStep == part = "threats" /\ Threats!Next /\ After4 /\ UNCHANGED part
NetworkStep == part = "network" /\ Network!Next /\ After10 /\ UNCHANGED part
UploadStep == part = "upload" /\ Upload!Next /\ After13 /\ UNCHANGED part
PeersStep == part = "peers" /\ Peers!Next /\ After8 /\ UNCHANGED part
GameStep == part = "game" /\ Game!Next /\ After6 /\ UNCHANGED part
Next == \/ WifiStep \/ TwinStep \/ FlowStep \/ StatusStep \/ ThreatsStep
        \/ NetworkStep \/ UploadStep \/ PeersStep \/ GameStep
Spec == Init /\ [][Next]_vars

-----------------------------------------------------------------------------
\* The k-th assumption of each part, as one assumption of the run: a behaviour
\* is one part's, so it says of that part what its own FairSpec says, or less
\* where two of its steps share an assumption.
Fair1 == \/ part = "flow" /\ Flow!TransmitTask
         \/ part = "status" /\ Status!Receive /\ After7
         \/ part = "network" /\ (Network!Driver \/ Network!Handle) /\ After10
         \/ part = "upload" /\ Upload!Loop /\ After13
         \/ part = "game" /\ Game!HalfMinute /\ After6
Fair2 == \/ part = "flow" /\ Flow!Command
         \/ part = "status" /\ Status!Tick /\ After7
         \/ part = "network" /\ (Network!Reconnect \/ Network!SwitchAp \/ Network!TimeOver) /\ After10
         \/ part = "upload" /\ Upload!Tick /\ After13
         \/ part = "game" /\ (Game!Persist \/ Game!Commit) /\ After6
Fair3 == \/ part = "flow" /\ (Flow!Drain \/ \E weak, sent \in BOOLEAN : Flow!UplinkLine(weak, sent))
         \/ part = "network" /\ (Network!Main \/ \E t \in Network!Callers : Network!Caller(t)) /\ After10
         \/ part = "upload" /\ Upload!Report /\ After13
Fair4 == part = "flow" /\ (Flow!Ready \/ Flow!BleTask)
Again == \/ part = "flow" /\ Flow!SendAck
         \/ part = "status" /\ Status!SendStatus /\ After7
         \/ part = "game" /\ Game!Snapshot /\ After6
Fairness == /\ WF_vars(UNCHANGED part /\ Fair1) /\ WF_vars(UNCHANGED part /\ Fair2)
            /\ WF_vars(UNCHANGED part /\ Fair3) /\ WF_vars(UNCHANGED part /\ Fair4)
            /\ SF_vars(UNCHANGED part /\ Again)
FairSpec == Spec /\ Fairness

-----------------------------------------------------------------------------
\* What a scanner or the badge says it has heard, it has: nothing due is held
\* back for a report that was not made, no name moves by another's signals, no
\* clone is told that is none or kept quiet that is one, and no counter is
\* counted twice (wifi_scanner.c, detection_policy.c, uart_rx.c).
EvidenceIsReal ==
    /\ part = "wifi" => Wifi!HushedWasTold /\ Wifi!MovesMeansMoved
    /\ part = "twin" => Twin!AlertIsReal /\ Twin!CloneIsTold
    /\ part = "status" => Status!NoEcho

\* The game stays one that can be played, with the seed its record holds, and
\* the badge does not meet itself (badge_con_game.c, badge_con_runtime.c,
\* badge_con_observer.c).
GameStaysSound ==
    /\ part = "game" => Game!Playable /\ Game!SeedAgrees
    /\ part = "peers" => Peers!SelfStaysOut

\* No step takes back what an earlier one promised: a stopped scanner stays
\* silent, what is held for the backend is kept until it has it, and a peer has
\* one effect in a window (uart_tx.c, http_upload.c, badge_con_encounter.c).
PromisesHold ==
    [][/\ part = "flow" => Flow!NoTelemetry
       /\ part = "upload" => Upload!Kept
       /\ part = "peers" => Peers!OneEffectAtMost]_vars

\* The badge's list shows the highest first, with heat on top of it exactly when
\* a live drone is in it, and a confirmed drone is taken for one from any
\* distance (badge_threat_policy.c).
ThreatsAreShown ==
    /\ [](part = "threats" => Threats!HeatMeansDrone /\ Threats!DroneAtAnyRange)
    /\ [][part = "threats" => Threats!InOrder]_vars

\* The flow comes back after every disturbance that ends: a stopped scanner is
\* started, the second sighting is noticed and an old one fades, a known
\* network is joined again, uploads go through again, and an infection ends.
Disturbed == \/ part = "flow" /\ Flow!Halted
             \/ part = "game" /\ Game!Sick
             \/ part = "status" /\ Status!Unheard(2)
Over == \/ part = "flow" /\ ~Flow!Halted
        \/ part = "game" /\ Game!Over
        \/ part = "status" /\ Status!Noticed(2)
Steady == /\ part = "network" => Network!Undisturbed
          /\ part = "upload" => Upload!Steady
FlowReturns ==
    /\ Disturbed ~> Over
    /\ <>[]Steady => /\ <>[](/\ part = "network" => Network!Online
                             /\ part = "status" => Status!Faded)
                     /\ []<>(part = "upload" => Upload!AllSent)

-----------------------------------------------------------------------------
\* The frames, the sights and the devices of the instance.
Frame(lane, key, is, level) == [lane |-> lane, key |-> key, is |-> is, level |-> level]
TheAir == {Frame("beacon", "b", {"drone", "privacy"}, 0), Frame("beacon", "b", {"drone", "protocol"}, 3),
           Frame("beacon", "b", {"privacy"}, 6),
           Frame("beacon", "s", {"soft"}, 0), Frame("beacon", "s", {"soft"}, 6),
           Frame("beacon", "t", {"soft"}, 0), Frame("beacon", "z", {}, 0),
           Frame("probe", "p", {"drone"}, 0), Frame("probe", "q", {}, 0),
           Frame("pair", "d", {"drone"}, 0)}
Sight(ssid, vendor, radio, auth, weak) ==
    [ssid |-> ssid, ap |-> <<vendor, radio>>, auth |-> auth, weak |-> weak]
TheSights == {Sight("a", "x", 1, "wpa2", 60), Sight("a", "x", 1, "open", 90), Sight("a", "x", 2, "open", 70),
              Sight("a", "y", 1, "open", 50), Sight("a", "y", 2, "wpa3", 70),
              Sight("b", "x", 1, "wpa2", 60), Sight("b", "y", 1, "open", 50)}
TheKinds == [a |-> "fp", b |-> "probe", c |-> "rid"]
=============================================================================
