--------------------------- MODULE MCTransferPath ---------------------------
(***************************************************************************)
(* Small instances of the modules that carry something over in pieces.     *)
(* UplinkOta, the badge's own image over USB, is extended, with its own    *)
(* variables and properties; the others are an image for the scanners over *)
(* USB (ScannerUpload) and over the network (NodeUpdates), the identity a  *)
(* campaign waits for (ScannerIdentity), and an investigation and its      *)
(* results (InvestigationScanner, InvestigationBadge).  They share no      *)
(* state: each behaviour is one of one part, chosen initially, and they    *)
(* take turns with the variables x1, x2, ...: the variables of the part,   *)
(* in its own order.                                                       *)
(***************************************************************************)
EXTENDS UplinkOta

CONSTANTS
    ImageSize, ImageCredit, PortRead, Restarts, Troubles, Intruders,  \* ScannerUpload
    Kinds, WireMax, UartRead, Boots, Fences, Events,                  \* ScannerIdentity
    HttpRequests, Checks, Relays, NodeFaults,                         \* NodeUpdates
    Investigations, HostFaults,                                       \* InvestigationScanner
    Starts, Chunks, UsbFaults                                         \* InvestigationBadge

ASSUME StagingAssumption == ImageSize \in Nat \ {0} /\ ImageCredit \in Nat /\ PortRead \in Nat
ASSUME IdentityAssumption == UartRead \in Nat
ASSUME InvestigationAssumption == Starts \in Nat /\ Chunks \in Nat /\ UsbFaults \in Nat

VARIABLES part, x1, x2, x3, x4, x5, x6, x7, x8, x9, x10, x11, x12, x13, x14
all == <<vars, part, x1, x2, x3, x4, x5, x6, x7, x8, x9, x10, x11, x12, x13, x14>>

Staging == INSTANCE ScannerUpload WITH
    Size <- ImageSize, Credit <- ImageCredit, ReadMax <- PortRead, Faults <- Troubles,
    host <- x1, down <- x2, up <- x3, stream <- x4, policy <- x5, store <- x6,
    claimed <- x7, flash <- x8, manifest <- x9, shadow <- x10, drained <- x11,
    left <- x12

Identity == INSTANCE ScannerIdentity WITH
    Lines <- Kinds, ReadMax <- UartRead,
    scanner <- x1, wire <- x2, arrived <- x3, rx <- x4, pause <- x5, ident <- x6,
    live <- x7, floor <- x8, worker <- x9, relay <- x10, era <- x11, left <- x12

Node == INSTANCE NodeUpdates WITH
    Requests <- HttpRequests, Faults <- NodeFaults,
    flash <- x1, running <- x2, boot <- x3, manifest <- x4, token <- x5, silent <- x6,
    rx <- x7, generation <- x8, job <- x9, prepared <- x10, sent <- x11,
    accepted <- x12, left <- x13

Investigator == INSTANCE InvestigationScanner WITH
    Requests <- Investigations, Faults <- HostFaults,
    core <- x1, fence <- x2, chunks <- x3, todo <- x4, mutex <- x5, backoff <- x6,
    link <- x7, events <- x8, proc <- x9, scan <- x10, quiet <- x11, begun <- x12,
    ended <- x13, left <- x14

Investigation == INSTANCE InvestigationBadge WITH
    Requests <- Starts, Faults <- UsbFaults,
    state <- x1, pending <- x2, fence <- x3, caller <- x4, uart <- x5, poll <- x6,
    emitter <- x7, told <- x8, left <- x9

-----------------------------------------------------------------------------
\* The variables a part of so many leaves alone.
After13 == UNCHANGED x14
After12 == UNCHANGED x13 /\ After13
After9 == UNCHANGED <<x10, x11, x12>> /\ After12
After0 == UNCHANGED <<x1, x2, x3, x4, x5, x6, x7, x8, x9>> /\ After9
Init13 == x14 = 0
Init12 == x13 = 0 /\ Init13
Init9 == x10 = 0 /\ x11 = 0 /\ x12 = 0 /\ Init12
Init0 == /\ x1 = 0 /\ x2 = 0 /\ x3 = 0 /\ x4 = 0 /\ x5 = 0 /\ x6 = 0 /\ x7 = 0 /\ x8 = 0
         /\ x9 = 0 /\ Init9

PartInit ==
    /\ Init
    /\ \/ part = "uplink" /\ Init0
       \/ part = "staging" /\ Staging!Init /\ Init12
       \/ part = "identity" /\ Identity!Init /\ Init12
       \/ part = "node" /\ Node!Init /\ Init13
       \/ part = "investigator" /\ Investigator!Init
       \/ part = "investigation" /\ Investigation!Init /\ Init9

UplinkStep == part = "uplink" /\ Next /\ UNCHANGED part /\ After0
StagingStep == part = "staging" /\ Staging!Next /\ After12 /\ UNCHANGED <<vars, part>>
IdentityStep == part = "identity" /\ Identity!Next /\ After12 /\ UNCHANGED <<vars, part>>
NodeStep == part = "node" /\ Node!Next /\ After13 /\ UNCHANGED <<vars, part>>
InvestigatorStep == part = "investigator" /\ Investigator!Next /\ UNCHANGED <<vars, part>>
InvestigationStep == part = "investigation" /\ Investigation!Next /\ After9 /\ UNCHANGED <<vars, part>>
Step == \/ UplinkStep \/ StagingStep \/ IdentityStep \/ NodeStep
        \/ InvestigatorStep \/ InvestigationStep
PartSpec == PartInit /\ [][Step]_all

-----------------------------------------------------------------------------
\* The k-th assumption of each part, as one assumption of the run: a behaviour
\* is one part's, so it says of that part what its own FairSpec says, or less
\* where two of its steps share an assumption.
Fair1 == \/ part = "investigator" /\ (Investigator!Command \/ Investigator!Shared("cmd"))
         \/ part = "investigation" /\ Investigation!StartSent /\ After9
         \/ part = "staging" /\ (Staging!Badge \/ Staging!IdleTimeout) /\ After12
         \/ part = "identity" /\ (Identity!Arrive \/ Identity!SendTail) /\ After12
         \/ part = "node" /\ Node!Program /\ After13
Fair2 == \/ part = "investigator" /\ (Investigator!Host \/ Investigator!Shared("host"))
         \/ part = "investigation" /\ Investigation!FinishEmit /\ After9
         \/ part = "staging" /\ (Staging!Host \/ Staging!Quiet) /\ After12
         \/ part = "identity" /\ Identity!Rx /\ After12
Fair3 == \/ part = "investigator" /\ Investigator!Deadline
         \/ part = "investigation" /\ Investigation!PollStep /\ After9
         \/ part = "identity" /\ (Identity!Fence \/ Identity!FenceFails) /\ After12
Fair4 == \/ part = "investigator" /\ Investigator!RetryDue
         \/ part = "investigation" /\ Investigation!Deadline /\ After9
         \/ part = "identity" /\ Identity!RelayEnds /\ After12
Again1 == \/ part = "investigator" /\ Investigator!CleanupBegins("cmd")
          \/ part = "investigation" /\ Investigation!Emit /\ After9
          \/ part = "identity" /\ Identity!SendHead("status") /\ After12
Again2 == \/ part = "investigator" /\ Investigator!CleanupBegins("host")
          \/ part = "investigation" /\ Investigation!PollBegins /\ After9
Rest == UNCHANGED <<vars, part>>
FairParts == /\ Fairness /\ WF_all(Rest /\ Fair1) /\ WF_all(Rest /\ Fair2) /\ WF_all(Rest /\ Fair3)
             /\ WF_all(Rest /\ Fair4) /\ SF_all(Rest /\ Again1) /\ SF_all(Rest /\ Again2)
FairPartSpec == PartSpec /\ FairParts

-----------------------------------------------------------------------------
\* An image is armed, accepted or believed only whole, whatever is cut, lost,
\* reset or written by another on its way, and an identity told as fresh was
\* sent whole, after the fence (fw_store.c, http_status.c, uart_rx.c).
WholeAndFresh ==
    /\ part = "staging" => Staging!ArmedIsWhole /\ Staging!BelievedIsArmed
    /\ part = "node" => Node!AcceptedIsWhole
    /\ part = "identity" => Identity!FenceHolds /\ Identity!RecordsAgree

\* What is begun is carried through or taken back whole: the counters of an
\* upload agree, one task at a time reads a scanner's UART, an investigation
\* leaves no connection behind and no end that is in nobody's hands
\* (badge_usb_transport.c, uart_rx.c, ble_investigator.c,
\* badge_ble_investigation.c).
NothingStaysBehind ==
    /\ [](/\ part = "staging" => Staging!CountersAgree
          /\ part = "node" => Node!OneReader
          /\ part = "investigator" => Investigator!NothingLeftBehind
          /\ part = "investigation" => Investigation!EndInHand)
    /\ [][part = "investigation" => Investigation!EndLeftBehind]_all

\* A host that uploads has its answer in the end, a fence is answered by a
\* fresh identity, what a job paused runs again, and an investigation ends and
\* is told, also one between two others.
Pending == \/ part = "identity" /\ Identity!Waits(1)
           \/ part = "node" /\ Node!Paused
           \/ part = "investigator" /\ Investigator!Investigates
           \/ part = "investigation" /\ Investigation!Started(2)
Done == \/ part = "identity" /\ Identity!Served(1)
        \/ part = "node" /\ Node!Released
        \/ part = "investigator" /\ Investigator!Resumed
        \/ part = "investigation" /\ Investigation!Told(2)
TransfersSettle ==
    /\ Pending ~> Done
    /\ <>[](part = "staging" => Staging!Answered)
=============================================================================
