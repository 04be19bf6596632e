----------------------------- MODULE VhciPolicy -----------------------------
(***************************************************************************)
(* The advertising state machine of the game radio                         *)
(* (esp32/shared/badge_con_vhci_policy.c), the one-event mailbox that      *)
(* feeds it (uplink/main/game/badge_con_vhci.c), and the BLE controller    *)
(* behind the HCI, which is external.  One poll of the display loop is one *)
(* step; a deadline is reduced to whether it has passed.                   *)
(***************************************************************************)
EXTENDS Naturals, Sequences

CONSTANTS
    MaxRetries,  \* BADGE_CON_VHCI_MAX_RETRIES
    QueueMax,    \* bound: commands the controller holds unprocessed
    LateReplies, \* may a reply come after its command's deadline?
    Explored     \* which of the optional events below an instance explores

ASSUME VhciAssumption ==
    /\ MaxRetries \in Nat /\ QueueMax \in Nat \ {0} /\ LateReplies \in BOOLEAN

VARIABLES
    pol,      \* s_policy
    slot,     \* s_pending_event: the one undelivered event, or NoEvent
    overflow, \* s_event_overflow
    cmds,     \* commands the controller has accepted, oldest first
    radioOn   \* whether the controller is advertising
radioVars == <<pol, slot, overflow, cmds, radioOn>>

SendingStates == {"SET_PARAMS", "SET_DATA", "ENABLE", "DISABLE"}
States == SendingStates \cup {"OFF", "INIT_CONTROLLER", "ADVERTISING", "FAILED"}

\* Enable and disable are one HCI opcode with a parameter.
Opcode(state) == IF state = "DISABLE" THEN "ENABLE" ELSE state
Events == [opcode : {"SET_PARAMS", "SET_DATA", "ENABLE", "OTHER"}, ok : BOOLEAN]
NoEvent == [opcode |-> "NONE", ok |-> FALSE]

PolicyType ==
    [state : States, ctrl : BOOLEAN, game : BOOLEAN, ready : BOOLEAN,
     inhibited : BOOLEAN, advertising : BOOLEAN, inFlight : BOOLEAN,
     uncertain : BOOLEAN, refresh : BOOLEAN, armed : BOOLEAN,
     retries : 0..MaxRetries]

\* badge_con_vhci_policy_init; "armed" stands for command_deadline_ms # 0.
InitPolicy ==
    [state |-> "INIT_CONTROLLER", ctrl |-> FALSE, game |-> FALSE,
     ready |-> FALSE, inhibited |-> TRUE, advertising |-> FALSE,
     inFlight |-> FALSE, uncertain |-> FALSE, refresh |-> FALSE,
     armed |-> FALSE, retries |-> 0]

InitRadio ==
    /\ pol = InitPolicy /\ slot = NoEvent /\ overflow = FALSE
    /\ cmds = << >> /\ radioOn = FALSE

TypeOK ==
    /\ pol \in PolicyType
    /\ slot \in Events \cup {NoEvent}
    /\ overflow \in BOOLEAN /\ radioOn \in BOOLEAN
    /\ cmds \in Seq(SendingStates) /\ Len(cmds) <= QueueMax

-----------------------------------------------------------------------------
(* The functions of the policy, each from a policy record to the next.     *)
(* A faulty variant that a property must notice stands before what it      *)
(* alters.                                                                 *)
Fail(v) == [v EXCEPT !.state = "FAILED", !.inFlight = FALSE, !.armed = FALSE]

Enter(v, state, refreshing) ==
    [v EXCEPT !.state = state, !.inFlight = FALSE, !.armed = FALSE,
              !.retries = 0, !.refresh = refreshing]

ControllerUp(v) == Enter([v EXCEPT !.ctrl = TRUE], "OFF", FALSE)

CommandFailedUncounted(v) == [v EXCEPT !.inFlight = FALSE, !.armed = FALSE]

CommandFailed(v) ==
    IF v.retries >= MaxRetries THEN Fail(v)
    ELSE [v EXCEPT !.inFlight = FALSE, !.armed = FALSE, !.retries = @ + 1]

CommandSucceeded(v) ==
    CASE v.state = "SET_PARAMS" -> Enter(v, "SET_DATA", FALSE)
      [] v.state = "SET_DATA" ->
           Enter(v, IF v.refresh THEN "ADVERTISING" ELSE "ENABLE", FALSE)
      [] v.state = "ENABLE" ->
           Enter([v EXCEPT !.advertising = TRUE, !.uncertain = FALSE],
                 "ADVERTISING", FALSE)
      [] v.state = "DISABLE" ->
           Enter([v EXCEPT !.advertising = FALSE, !.uncertain = FALSE],
                 "OFF", FALSE)
      [] OTHER -> Fail(v)

\* badge_con_vhci_policy_on_hci_event: only the pending opcode counts.
OnEvent(v, e) ==
    IF ~v.inFlight \/ e.opcode # Opcode(v.state) THEN v
    ELSE IF e.ok THEN CommandSucceeded(v)
    ELSE CommandFailed([v EXCEPT !.uncertain = @ /\ v.state # "ENABLE"])

Desired(v) == v.ctrl /\ v.game /\ v.ready /\ ~v.inhibited

SteerCommitted(v, due) ==
    IF v.inFlight \/ v.state \in SendingStates \ {"DISABLE"} THEN v
    ELSE IF ~Desired(v)
    THEN IF v.advertising
         THEN IF v.state = "DISABLE" THEN v ELSE Enter(v, "DISABLE", FALSE)
         ELSE IF v.state = "OFF" THEN v ELSE Enter(v, "OFF", FALSE)
    ELSE IF v.state = "OFF" THEN Enter(v, "SET_PARAMS", FALSE)
    ELSE IF v.state = "ADVERTISING" /\ due THEN Enter(v, "SET_DATA", TRUE)
    ELSE v

\* The part of the poll that chooses the state to be in.  due: the payload
\* epoch of the frame on the air is over.
Steer(v, due) ==
    IF v.inFlight THEN v
    ELSE IF ~Desired(v)
    THEN IF v.advertising
         THEN IF v.state = "DISABLE" THEN v ELSE Enter(v, "DISABLE", FALSE)
         ELSE IF v.state = "OFF" THEN v ELSE Enter(v, "OFF", FALSE)
    ELSE IF v.state = "OFF" THEN Enter(v, "SET_PARAMS", FALSE)
    ELSE IF v.state = "ADVERTISING" /\ due THEN Enter(v, "SET_DATA", TRUE)
    ELSE v

AttemptedUnmarked(v, sent) ==
    IF sent THEN [v EXCEPT !.inFlight = TRUE, !.armed = TRUE]
    ELSE [v EXCEPT !.armed = TRUE]

\* attempt_command: sent, or the controller had no room and the deadline runs.
Attempted(v, sent) ==
    IF sent
    THEN [v EXCEPT !.inFlight = TRUE, !.armed = TRUE,
                   !.uncertain = @ \/ v.state = "ENABLE"]
    ELSE [v EXCEPT !.armed = TRUE]

QuiescedWhenOff(v) == v.state \in {"OFF", "FAILED"} /\ ~v.inFlight

Quiesced(v) ==
    /\ ~v.advertising /\ ~v.uncertain /\ ~v.inFlight
    /\ v.state \in {"OFF", "FAILED"}

-----------------------------------------------------------------------------
(* badge_con_vhci_poll: take the mailbox, hand its event to the policy,    *)
(* then poll the policy; from: the policy as the inputs just set it.       *)
(* expired: the running deadline has passed;        *)
(* room: esp_vhci_host_check_send_available.                               *)
Delivered(v) == IF overflow THEN Fail(v) ELSE OnEvent(v, slot)

\* Without late replies a deadline passes only when no reply can come.
MayExpire(v) == v.armed /\ (LateReplies \/ ~v.inFlight \/ cmds = << >>)

PollResult(v, expired, due) ==
    LET timed == IF expired THEN CommandFailed(v) ELSE v
    IN  IF timed.state = "FAILED" THEN timed ELSE Steer(timed, due)

Poll(from, expired, due, room) ==
    LET v == Delivered(from)
        steered == PollResult(v, expired, due)
        sends == steered.state \in SendingStates /\ ~steered.inFlight
    IN  /\ due => "refresh" \in Explored
        /\ slot' = NoEvent /\ overflow' = FALSE
        /\ UNCHANGED radioOn
        /\ IF v.state \in {"FAILED", "INIT_CONTROLLER"}
           THEN pol' = v /\ UNCHANGED cmds
           ELSE /\ expired => MayExpire(v)
                /\ IF sends
                   THEN /\ room \/ "busy" \in Explored
                        /\ pol' = Attempted(steered, room)
                        /\ room => Len(cmds) < QueueMax
                        /\ cmds' = IF room THEN Append(cmds, steered.state)
                                   ELSE cmds
                   ELSE pol' = steered /\ UNCHANGED cmds

\* Explored: "busy", no room for a command; "refresh", the payload's epoch
\* passes; "refuse", "lose", "unasked", the controller's faults.
PollRadio == \E expired, due, room \in BOOLEAN : Poll(pol, expired, due, room)

-----------------------------------------------------------------------------
(* The controller, external: it works its commands off in order and        *)
(* answers each, or loses the answer, or loses the command.  It does not   *)
(* refuse to enable an advertiser that is on.                              *)

\* notify_host_recv: one event fits; a second before the next poll is lost.
Receive(e) ==
    IF slot = NoEvent THEN slot' = e /\ UNCHANGED overflow
    ELSE overflow' = TRUE /\ UNCHANGED slot

Switched(command) ==
    CASE command = "ENABLE" -> TRUE
      [] command = "DISABLE" -> FALSE
      [] OTHER -> radioOn

ControllerAnswers ==
    /\ cmds # << >>
    /\ cmds' = Tail(cmds)
    /\ \E ok \in BOOLEAN :
         /\ ok \/ ("refuse" \in Explored /\ ~(Head(cmds) = "ENABLE" /\ radioOn))
         /\ radioOn' = IF ok THEN Switched(Head(cmds)) ELSE radioOn
         /\ Receive([opcode |-> Opcode(Head(cmds)), ok |-> ok])
    /\ UNCHANGED pol

ControllerStaysSilent ==
    /\ "lose" \in Explored /\ cmds # << >>
    /\ cmds' = Tail(cmds)
    /\ radioOn' \in {radioOn, Switched(Head(cmds))}
    /\ UNCHANGED <<pol, slot, overflow>>

\* A command-complete event for no command of ours (flow-control credit).
ControllerSpeaksUnasked ==
    /\ "unasked" \in Explored /\ pol.state # "INIT_CONTROLLER"
    /\ \E ok \in BOOLEAN : Receive([opcode |-> "OTHER", ok |-> ok])
    /\ UNCHANGED <<pol, cmds, radioOn>>

Controller ==
    ControllerAnswers \/ ControllerStaysSilent \/ ControllerSpeaksUnasked

-----------------------------------------------------------------------------
(* The setters of the display loop and of the firmware operations, as this *)
(* module's own environment.                                               *)
InitializeController ==
    /\ pol.state = "INIT_CONTROLLER"
    /\ \/ pol' = ControllerUp(pol)
       \/ pol' = Fail(pol)
    /\ UNCHANGED <<slot, overflow, cmds, radioOn>>

SetInputs ==
    /\ \E game, ready, inhibited \in BOOLEAN :
         pol' = [pol EXCEPT !.game = game, !.ready = ready,
                            !.inhibited = inhibited]
    /\ UNCHANGED <<slot, overflow, cmds, radioOn>>

Init == InitRadio
Next == InitializeController \/ SetInputs \/ PollRadio \/ Controller
Spec == Init /\ [][Next]_radioVars

\* The display loop polls for ever and its clock advances; the controller
\* gets to every command it holds.
TimePasses == pol.armed /\ \E due, room \in BOOLEAN : Poll(pol, TRUE, due, room)
FairSpec ==
    /\ Spec
    /\ WF_radioVars(PollRadio) /\ WF_radioVars(TimePasses)
    /\ WF_radioVars(ControllerAnswers \/ ControllerStaysSilent)

-----------------------------------------------------------------------------
\* Quiescence, as reported to firmware operations
\* (badge_con_vhci_policy_radio_quiesced), is about the radio and not only
\* about the state machine: the controller is not advertising, and no command
\* it still holds can start it.
QuietMeansSilent ==
    Quiesced(pol) =>
        ~radioOn /\ \A i \in DOMAIN cmds : cmds[i] # "ENABLE"

\* While firmware work inhibits the radio, the policy never sends the command
\* that starts advertising (badge_con_vhci_policy_poll decides what it wants
\* again before each attempt).
NoNewStart ==
    pol.inhibited => \A i \in DOMAIN cmds' : cmds'[i] = "ENABLE" =>
                       \E j \in DOMAIN cmds : cmds[j] = "ENABLE"
NoStartWhileInhibited == [][NoNewStart]_radioVars

\* An inhibit that lasts is settled by the polls: the radio is quiet, or the
\* machine gave up, or an enable stayed unanswered and no later command may
\* be sent to find out (OFF with the radio's state uncertain).  It never
\* cycles between commands, and never waits on a lost answer.
Settled ==
    \/ Quiesced(pol)
    \/ pol.state \in {"FAILED", "INIT_CONTROLLER"}
    \/ pol.state = "OFF" /\ pol.uncertain
Inhibited == pol.inhibited
InhibitSettles == []<>~Inhibited \/ <>[]Settled
=============================================================================
