--------------------------- MODULE MCCommandPath ----------------------------
(***************************************************************************)
(* Small instances of the modules on the way of a command: from the host   *)
(* or the operator over the two UARTs to what the program that takes it    *)
(* does, and back to the answer, with what the lines mean                  *)
(* (MessageContracts) and how a scanner cuts its bytes into lines          *)
(* (LineIngress).  FirmwareOperation is extended, with its own variables   *)
(* and properties; of the others, which share no state, each behaviour is  *)
(* one of one part, chosen initially, and they take turns with the         *)
(* variables x1, x2, ...: the variables of the part, in its own order.     *)
(***************************************************************************)
EXTENDS FirmwareOperation, Sequences

CONSTANTS
    MaxRetries, QueueMax, Explored,                 \* VhciPolicy
    Threshold, FaultMax,                            \* ScannerBoot
    Commands,                                       \* ScannerRadios
    Scanners, LineMax,                              \* PowerConvergence and Calibration
    Requests, Faults,                               \* PowerConvergence
    Starts, Losses, Resets, Busy,                   \* Calibration
    SelfMax, ScannerResets, BadgeResets, Works      \* GameHandshake, with Losses

ASSUME PartsAssumption ==
    /\ MaxRetries \in Nat /\ QueueMax \in Nat \ {0}
    /\ Starts \in Nat /\ Losses \in Nat /\ Resets \in Nat /\ Busy \in Nat
    /\ "none" \notin Scanners

VARIABLES part, x1, x2, x3, x4, x5, x6, x7, x8, x9, x10, x11
all == <<vars, part, x1, x2, x3, x4, x5, x6, x7, x8, x9, x10, x11>>

Radio == INSTANCE VhciPolicy WITH
    LateReplies <- FALSE,
    pol <- x1, slot <- x2, overflow <- x3, cmds <- x4, radioOn <- x5

Boot == INSTANCE ScannerBoot WITH
    broken <- x1, device <- x2, ram <- x3, forced <- x4, faults <- x5

Stacks == INSTANCE ScannerRadios WITH
    slot <- x1, mode <- x2, lock <- x3, todo <- x4, ble <- x5, host <- x6, wifi <- x7,
    scan <- x8, probe <- x9, link <- x10, left <- x11

Power == INSTANCE PowerConvergence WITH
    state <- x1, shown <- x2, due <- x3, poll <- x4, relay <- x5, scanner <- x6,
    fresh <- x7, down <- x8, up <- x9, requests <- x10, faults <- x11

Calibrating == INSTANCE Calibration WITH
    node <- x1, armed <- x2, info <- x3, heard <- x4, down <- x5, up <- x6,
    handler <- x7, told <- x8, fell <- x9, wanted <- x10, left <- x11

Handshake == INSTANCE GameHandshake WITH
    LineMax <- SelfMax,
    identity <- x1, knows <- x2, bootId <- x3, status <- x4, policy <- x5,
    selfAck <- x6, ready <- x7, yields <- x8, down <- x9, up <- x10, left <- x11

Message == INSTANCE MessageContracts WITH
    line <- x1, damaged <- x2, verdict <- x3

Ingress == INSTANCE LineIngress WITH
    ReadMax <- 3, BytesMax <- 6, TimeoutMax <- 2,
    framer <- x1, binary <- x2, started <- x3, ran <- x4, raw <- x5, age <- x6,
    want <- x7, left <- x8, gaps <- x9

-----------------------------------------------------------------------------
\* The variables a part of so many leaves alone.
After9 == UNCHANGED <<x10, x11>>
After5 == UNCHANGED <<x6, x7, x8, x9, x10, x11>>
After3 == UNCHANGED <<x4, x5>> /\ After5
After0 == UNCHANGED <<x1, x2, x3>> /\ After3
Init9 == x10 = 0 /\ x11 = 0
Init5 == x6 = 0 /\ x7 = 0 /\ x8 = 0 /\ x9 = 0 /\ x10 = 0 /\ x11 = 0
Init3 == x4 = 0 /\ x5 = 0 /\ Init5
Init0 == x1 = 0 /\ x2 = 0 /\ x3 = 0 /\ Init3

PartInit ==
    /\ Init
    /\ \/ part = "operation" /\ Init0
       \/ part = "radio" /\ Radio!Init /\ Init5
       \/ part = "boot" /\ Boot!Init /\ Init5
       \/ part = "stacks" /\ Stacks!Init
       \/ part = "power" /\ Power!Init
       \/ part = "calibration" /\ Calibrating!Init
       \/ part = "handshake" /\ Handshake!Init
       \/ part = "message" /\ Message!Init /\ Init3
       \/ part = "ingress" /\ Ingress!Init /\ Init9

OperationStep == part = "operation" /\ Next /\ UNCHANGED part /\ After0
RadioStep == part = "radio" /\ Radio!Next /\ After5 /\ UNCHANGED <<vars, part>>
BootStep == part = "boot" /\ Boot!Next /\ After5 /\ UNCHANGED <<vars, part>>
StacksStep == part = "stacks" /\ Stacks!Next /\ UNCHANGED <<vars, part>>
PowerStep == part = "power" /\ Power!Next /\ UNCHANGED <<vars, part>>
CalibrationStep == part = "calibration" /\ Calibrating!Next /\ UNCHANGED <<vars, part>>
HandshakeStep == part = "handshake" /\ Handshake!Next /\ UNCHANGED <<vars, part>>
MessageStep == part = "message" /\ Message!Next /\ After3 /\ UNCHANGED <<vars, part>>
IngressStep == part = "ingress" /\ Ingress!Next /\ After9 /\ UNCHANGED <<vars, part>>
Step == \/ OperationStep \/ RadioStep \/ BootStep \/ StacksStep \/ PowerStep
        \/ CalibrationStep \/ HandshakeStep \/ MessageStep \/ IngressStep
PartSpec == PartInit /\ [][Step]_all

-----------------------------------------------------------------------------
\* The k-th assumption of each part, as one assumption of the run: a behaviour
\* is one part's, so it says of that part what its own FairSpec says, or less
\* where two of its steps share an assumption.
Fair1 == \/ part = "radio" /\ Radio!PollRadio /\ After5
         \/ part = "boot" /\ Boot!Program /\ After5
         \/ part = "stacks" /\ Stacks!Main
         \/ part = "power" /\ Power!Task
         \/ part = "calibration" /\ Calibrating!Handler
         \/ part = "handshake" /\ Handshake!PollActs
Fair2 == \/ part = "radio" /\ Radio!TimePasses /\ After5
         \/ part = "stacks" /\ Stacks!Cmd
         \/ part = "power" /\ (Power!RelayEnds \/ \E s \in Scanners : Power!Interval(s))
         \/ part = "calibration" /\ Calibrating!EnoughOfIt
         \/ part = "handshake" /\ (Handshake!AckLate \/ Handshake!WorkEnds)
Fair3 == \/ part = "radio" /\ (Radio!ControllerAnswers \/ Radio!ControllerStaysSilent) /\ After5
         \/ part = "stacks" /\ Stacks!ScanStep
         \/ part = "power" /\ (\E s \in Scanners : Power!Hear(s) \/ Power!Acked(s))
         \/ part = "calibration" /\ (\E s \in Scanners : Calibrating!TakeStart(s) \/ Calibrating!TakeStop(s))
         \/ part = "handshake" /\ Handshake!TakeSelf(0)
Fair4 == \/ part = "stacks" /\ (Stacks!ProbeEnds \/ Stacks!FirmwareEnds)
         \/ part = "power" /\ (\E s \in Scanners : Power!Carry(s))
         \/ part = "calibration" /\ (\E s \in Scanners : Calibrating!ReadLine(s))
         \/ part = "handshake" /\ Handshake!Receive(0)
Fair5 == \/ part = "stacks" /\ Stacks!HostStep
         \/ part = "handshake" /\ (Handshake!TakeSelf(1) \/ Handshake!Receive(1))
Again1 == \/ part = "stacks" /\ Stacks!PowerRequest
          \/ part = "calibration" /\ Calibrating!PostStopAgain
          \/ part = "handshake" /\ Handshake!PollSends
Again2 == \/ part = "stacks" /\ Stacks!StartTx
          \/ part = "calibration" /\ (\E s \in Scanners : Calibrating!Status(s))
          \/ part = "handshake" /\ Handshake!Status(0)
Rest == UNCHANGED <<vars, part>>
Fairness == /\ WF_all(Rest /\ Fair1) /\ WF_all(Rest /\ Fair2) /\ WF_all(Rest /\ Fair3)
            /\ WF_all(Rest /\ Fair4) /\ WF_all(Rest /\ Fair5)
            /\ SF_all(Rest /\ Again1) /\ SF_all(Rest /\ Again2)
FairSpec == PartSpec /\ Fairness

-----------------------------------------------------------------------------
\* What is acknowledged is so: a game radio that is quiet is silent, a scanner
\* that confirmed a mode is in it, a badge that may advertise is filtered, and
\* safe mode that was asked for stays (badge_con_vhci_policy.c,
\* calibration_mode.c, badge_power_state.c, badge_con_runtime.c,
\* scanner_rollback.c).
AcknowledgedIsSo ==
    /\ part = "boot" => Boot!ForcedStays
    /\ part = "radio" => Radio!QuietMeansSilent
    /\ part = "stacks" => Stacks!QuietIsSilent
    /\ part = "power" => Power!ProofIsCurrent
    /\ part = "handshake" => Handshake!ReadyIsFiltered

\* Every line one program writes means to the program that reads it what its
\* writer meant, and a scanner executes whole lines only, each once
\* (fof_json_schema.c, scanner_uart_line_framer.c).
UnderstoodAsMeant ==
    /\ part = "message" => Message!Understood /\ Message!OneMeaning
    /\ part = "ingress" => Ingress!ExecutesWholeLines

\* No step goes behind what was agreed: no advertising is started under an
\* inhibit, and a calibration is answered "started" only with its scanners
\* armed (badge_con_vhci_policy.c, http_status.c).
NothingBehindTheBack ==
    [][/\ part = "radio" => Radio!NoNewStart
       /\ part = "calibration" => Calibrating!AnsweredTruly]_all

\* Every command is settled, whatever was lost, refused or reset on its way:
\* in the end a scanner runs, is on the air when it should, knows the badge and
\* is out of calibration; an inhibit of the game radio settles, and the proof
\* of the power mode is found again and again.
Settled == /\ part = "radio" => Radio!Settled
           /\ part = "boot" => Boot!Sound
           /\ part = "stacks" => Stacks!BackOnAir
           /\ part = "calibration" => Calibrating!AllNormal
           /\ part = "handshake" => Handshake!Known
CommandsSettle ==
    /\ []<>(part = "radio" /\ ~Radio!Inhibited) \/ <>[]Settled
    /\ []<>(part = "power" => Power!AllConverged)
=============================================================================
