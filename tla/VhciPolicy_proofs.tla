-------------------------- MODULE VhciPolicy_proofs --------------------------
(***************************************************************************)
(* What is proved of the advertising machine, for every number of retries, *)
(* every queue of the controller and whatever faults are explored, for     *)
(* controllers that answer in time or not at all (~LateReplies).           *)
(***************************************************************************)
EXTENDS VhciPolicy, SequenceTheorems, TLAPS

Asks(command) == \E i \in DOMAIN cmds : cmds[i] = command
IsAnswer(e) == e.opcode \notin {"NONE", "OTHER"}

\* The policy v knows what may be on the air and what is under way: the
\* advertiser is on, or about to be, only if v says so or is in doubt, and the
\* controller holds at most the command that v is waiting for.
Coherent(v) ==
    /\ v \in PolicyType
    /\ radioOn \/ Asks("ENABLE") => v.advertising \/ v.uncertain
    /\ v.state = "FAILED" => ~v.inFlight
    /\ v.inFlight => v.state \in SendingStates
    /\ v.state # "FAILED" =>
         cmds = << >> \/ (v.inFlight /\ cmds = <<v.state>>)

\* An answer in the mailbox is the one v waits for, and what it says of the
\* advertiser is still so.
Answered(v) ==
    v.state # "FAILED" /\ IsAnswer(slot) =>
        /\ v.inFlight /\ cmds = << >> /\ slot.opcode = Opcode(v.state)
        /\ slot.ok /\ v.state = "DISABLE" => ~radioOn
        /\ ~slot.ok /\ v.state = "ENABLE" => ~radioOn

RadioInv == TypeOK /\ Coherent(pol) /\ Answered(pol)

-----------------------------------------------------------------------------
\* Commands asked for by a sequence of none, of one, or of the rest.
LEMMA AsksOf ==
    ASSUME cmds \in Seq(SendingStates)
    PROVE  /\ cmds = << >> => \A c : ~Asks(c)
           /\ \A s \in SendingStates : cmds = <<s>> => \A c : Asks(c) <=> c = s
BY DEF Asks

\* What the controller has still to do after the first of its commands.
LEMMA RestOf ==
    ASSUME cmds \in Seq(SendingStates), cmds # << >>, cmds' = Tail(cmds),
           Len(cmds) <= QueueMax, QueueMax \in Nat
    PROVE  /\ Head(cmds) \in SendingStates
           /\ cmds' \in Seq(SendingStates) /\ Len(cmds') <= QueueMax
           /\ \A c : Asks(c)' => Asks(c)
           /\ Asks(Head(cmds))
           /\ \A s : cmds = <<s>> => cmds' = << >> /\ Head(cmds) = s
<1>1. /\ Len(cmds) \in Nat \ {0} /\ DOMAIN cmds = 1..Len(cmds)
      /\ Head(cmds) = cmds[1] /\ cmds[1] \in SendingStates
  OBVIOUS
<1>2. /\ Tail(cmds) \in Seq(SendingStates) /\ Len(Tail(cmds)) = Len(cmds) - 1
      /\ \A i \in 1..Len(cmds) - 1 : Tail(cmds)[i] = cmds[i + 1]
  OBVIOUS
<1>3. \A c : Asks(c)' => Asks(c)
  <2> SUFFICES ASSUME NEW c, NEW i \in DOMAIN cmds', cmds'[i] = c PROVE Asks(c)
    BY DEF Asks
  <2>1. i \in 1..Len(cmds) - 1 /\ c = cmds[i + 1] /\ i + 1 \in DOMAIN cmds
    BY <1>1, <1>2
  <2> QED BY <2>1 DEF Asks
<1>4. \A s : cmds = <<s>> => cmds' = << >> /\ Head(cmds) = s
  OBVIOUS
<1> QED BY <1>1, <1>2, <1>3, <1>4 DEF Asks

-----------------------------------------------------------------------------
(* The fields the functions of the policy leave.                           *)
LEMMA FailFields ==
    ASSUME NEW v \in PolicyType
    PROVE  /\ Fail(v) \in PolicyType
           /\ Fail(v).state = "FAILED" /\ Fail(v).inFlight = FALSE
           /\ Fail(v).advertising = v.advertising /\ Fail(v).uncertain = v.uncertain
           /\ Fail(v).inhibited = v.inhibited
BY DEF Fail, PolicyType, States

LEMMA EnterFields ==
    ASSUME NEW v \in PolicyType, NEW s \in States, NEW r \in BOOLEAN
    PROVE  /\ Enter(v, s, r) \in PolicyType
           /\ Enter(v, s, r).state = s /\ Enter(v, s, r).inFlight = FALSE
           /\ Enter(v, s, r).advertising = v.advertising
           /\ Enter(v, s, r).uncertain = v.uncertain
           /\ Enter(v, s, r).inhibited = v.inhibited
<1>1. 0 \in 0..MaxRetries
  BY VhciAssumption DEF VhciAssumption
<1>2. Enter(v, s, r) \in PolicyType
  BY <1>1 DEF Enter, PolicyType
<1> QED BY <1>2 DEF Enter, PolicyType

LEMMA FailedFields ==
    ASSUME NEW v \in PolicyType
    PROVE  /\ CommandFailed(v) \in PolicyType
           /\ CommandFailed(v).state \in {v.state, "FAILED"}
           /\ CommandFailed(v).inFlight = FALSE
           /\ CommandFailed(v).advertising = v.advertising
           /\ CommandFailed(v).uncertain = v.uncertain
           /\ CommandFailed(v).inhibited = v.inhibited
<1>1. CASE v.retries >= MaxRetries
  BY <1>1, FailFields DEF CommandFailed
<1>2. CASE ~(v.retries >= MaxRetries)
  <2> DEFINE w == [v EXCEPT !.inFlight = FALSE, !.armed = FALSE, !.retries = @ + 1]
  <2>1. CommandFailed(v) = w
    BY <1>2 DEF CommandFailed
  <2>2. v.retries \in 0..MaxRetries
    BY DEF PolicyType
  <2>3. v.retries + 1 \in 0..MaxRetries
    BY <1>2, <2>2, VhciAssumption DEF VhciAssumption
  <2>4. w \in PolicyType
    BY <2>3 DEF PolicyType
  <2> QED BY <2>1, <2>4 DEF PolicyType
<1> QED BY <1>1, <1>2

LEMMA StatesNamed ==
    /\ "DISABLE" \in States /\ "OFF" \in States /\ "SET_PARAMS" \in States
    /\ "SET_DATA" \in States /\ "ENABLE" \in States /\ "ADVERTISING" \in States
BY DEF States, SendingStates

\* Where the steering leads: it enters another state, or stays.
LEMMA SteerChoices ==
    ASSUME NEW v \in PolicyType, NEW due, ~v.inFlight
    PROVE  \/ Steer(v, due) = v /\ (~Desired(v) => v.state = IF v.advertising
                                                           THEN "DISABLE" ELSE "OFF")
           \/ /\ Steer(v, due) = Enter(v, IF v.advertising THEN "DISABLE" ELSE "OFF",
                                        FALSE)
              /\ ~Desired(v)
           \/ Steer(v, due) = Enter(v, "SET_PARAMS", FALSE) /\ Desired(v)
           \/ Steer(v, due) = Enter(v, "SET_DATA", TRUE) /\ Desired(v)
BY DEF Steer

LEMMA SteerFields ==
    ASSUME NEW v \in PolicyType, NEW due, ~v.inFlight
    PROVE  /\ Steer(v, due) \in PolicyType /\ Steer(v, due).inFlight = FALSE
           /\ Steer(v, due).advertising = v.advertising
           /\ Steer(v, due).uncertain = v.uncertain
           /\ Steer(v, due).inhibited = v.inhibited
           /\ Steer(v, due).state = "FAILED" => v.state = "FAILED"
           /\ v.inhibited => Steer(v, due).state \in {"DISABLE", "OFF"}
           /\ v.inhibited /\ ~v.advertising => Steer(v, due).state = "OFF"
<1> DEFINE target == IF v.advertising THEN "DISABLE" ELSE "OFF"
<1>1. v.inhibited => ~Desired(v)
  BY DEF Desired
<1>2. CASE Steer(v, due) = v /\ (~Desired(v) => v.state = target)
  <2>1. v.inFlight = FALSE
    BY DEF PolicyType
  <2> QED BY <1>1, <1>2, <2>1
<1>3. CASE Steer(v, due) = Enter(v, target, FALSE) /\ ~Desired(v)
  <2>1. target \in States /\ target # "FAILED"
    BY StatesNamed
  <2> HIDE DEF target
  <2>2. /\ Enter(v, target, FALSE) \in PolicyType
        /\ Enter(v, target, FALSE).state = target
        /\ Enter(v, target, FALSE).inFlight = FALSE
        /\ Enter(v, target, FALSE).advertising = v.advertising
        /\ Enter(v, target, FALSE).uncertain = v.uncertain
        /\ Enter(v, target, FALSE).inhibited = v.inhibited
    BY <2>1, EnterFields
  <2>3. Steer(v, due).state = target
    BY <1>3, <2>2
  <2> QED BY <1>3, <2>1, <2>2, <2>3 DEF target
<1>4. CASE Desired(v) /\ \E s \in {"SET_PARAMS", "SET_DATA"}, r \in BOOLEAN :
                Steer(v, due) = Enter(v, s, r)
  <2>1. PICK s \in {"SET_PARAMS", "SET_DATA"}, r \in BOOLEAN :
            Steer(v, due) = Enter(v, s, r)
    BY <1>4
  <2>2. s \in States /\ s # "FAILED"
    BY StatesNamed
  <2>3. /\ Enter(v, s, r) \in PolicyType /\ Enter(v, s, r).state = s
        /\ Enter(v, s, r).inFlight = FALSE
        /\ Enter(v, s, r).advertising = v.advertising
        /\ Enter(v, s, r).uncertain = v.uncertain
        /\ Enter(v, s, r).inhibited = v.inhibited
    BY <2>2, EnterFields
  <2> QED BY <1>1, <1>4, <2>1, <2>2, <2>3
<1> QED BY <1>2, <1>3, <1>4, SteerChoices

LEMMA SucceededFields ==
    ASSUME NEW v \in PolicyType
    PROVE  /\ CommandSucceeded(v) \in PolicyType
           /\ CommandSucceeded(v).inFlight = FALSE
           /\ CommandSucceeded(v).inhibited = v.inhibited
           /\ v.state # "DISABLE" /\ (v.advertising \/ v.uncertain) =>
                CommandSucceeded(v).advertising \/ CommandSucceeded(v).uncertain
<1>1. CASE v.state \in {"SET_PARAMS", "SET_DATA"}
  <2>1. PICK s \in States : CommandSucceeded(v) = Enter(v, s, FALSE)
    BY <1>1, StatesNamed DEF CommandSucceeded
  <2>2. /\ Enter(v, s, FALSE) \in PolicyType /\ Enter(v, s, FALSE).inFlight = FALSE
        /\ Enter(v, s, FALSE).advertising = v.advertising
        /\ Enter(v, s, FALSE).uncertain = v.uncertain
        /\ Enter(v, s, FALSE).inhibited = v.inhibited
    BY EnterFields
  <2> QED BY <2>1, <2>2
<1>2. CASE v.state = "ENABLE"
  <2> DEFINE w == [v EXCEPT !.advertising = TRUE, !.uncertain = FALSE]
  <2>1. w \in PolicyType /\ w.advertising = TRUE /\ w.inhibited = v.inhibited
    BY DEF PolicyType
  <2>2. CommandSucceeded(v) = Enter(w, "ADVERTISING", FALSE)
    BY <1>2 DEF CommandSucceeded
  <2> HIDE DEF w
  <2>3. /\ Enter(w, "ADVERTISING", FALSE) \in PolicyType
        /\ Enter(w, "ADVERTISING", FALSE).inFlight = FALSE
        /\ Enter(w, "ADVERTISING", FALSE).advertising = w.advertising
        /\ Enter(w, "ADVERTISING", FALSE).inhibited = w.inhibited
    BY <2>1, StatesNamed, EnterFields
  <2> QED BY <2>1, <2>2, <2>3
<1>3. CASE v.state = "DISABLE"
  <2> DEFINE w == [v EXCEPT !.advertising = FALSE, !.uncertain = FALSE]
  <2>1. w \in PolicyType /\ w.inhibited = v.inhibited
    BY DEF PolicyType
  <2>2. CommandSucceeded(v) = Enter(w, "OFF", FALSE)
    BY <1>3 DEF CommandSucceeded
  <2> HIDE DEF w
  <2>3. /\ Enter(w, "OFF", FALSE) \in PolicyType
        /\ Enter(w, "OFF", FALSE).inFlight = FALSE
        /\ Enter(w, "OFF", FALSE).inhibited = w.inhibited
    BY <2>1, StatesNamed, EnterFields
  <2> QED BY <1>3, <2>1, <2>2, <2>3
<1>4. CASE v.state \notin SendingStates
  BY <1>4, FailFields DEF CommandSucceeded, SendingStates
<1> QED BY <1>1, <1>2, <1>3, <1>4 DEF SendingStates

LEMMA AttemptedFields ==
    ASSUME NEW v \in PolicyType, NEW sent, v.state \in SendingStates
    PROVE  /\ Attempted(v, sent) \in PolicyType
           /\ Attempted(v, sent).state = v.state
           /\ Attempted(v, sent).inFlight = (sent \/ v.inFlight)
           /\ Attempted(v, sent).advertising = v.advertising
           /\ Attempted(v, sent).uncertain =
                (v.uncertain \/ (sent /\ v.state = "ENABLE"))
           /\ Attempted(v, sent).inhibited = v.inhibited
BY DEF Attempted, PolicyType, SendingStates

-----------------------------------------------------------------------------
(* The poll, from the delivered event to the attempted command.            *)
LEMMA DeliveredCoherent ==
    ASSUME TypeOK, NEW v, Coherent(v), Answered(v)
    PROVE  Coherent(Delivered(v)) /\ Delivered(v).inhibited = v.inhibited
<1>1. CASE overflow
  BY <1>1, FailFields DEF Delivered, Coherent
<1>2. CASE ~overflow /\ (~v.inFlight \/ slot.opcode # Opcode(v.state))
  BY <1>2 DEF Delivered, OnEvent
<1>3. CASE ~overflow /\ v.inFlight /\ slot.opcode = Opcode(v.state)
  <2>1. /\ v \in PolicyType /\ v.state # "FAILED" /\ v.state \in SendingStates
        /\ slot.opcode \notin {"NONE", "OTHER"}
    BY <1>3 DEF Coherent, SendingStates, Opcode
  <2>2. /\ cmds = << >> /\ ~Asks("ENABLE")
        /\ slot.ok /\ v.state = "DISABLE" => ~radioOn
        /\ ~slot.ok /\ v.state = "ENABLE" => ~radioOn
        /\ radioOn => v.advertising \/ v.uncertain
    BY <2>1, AsksOf DEF Coherent, Answered, IsAnswer, TypeOK
  <2>3. CASE slot.ok
    <3>1. Delivered(v) = CommandSucceeded(v)
      BY <1>3, <2>3 DEF Delivered, OnEvent
    <3>2. CommandSucceeded(v).inFlight = FALSE
      BY <2>1, SucceededFields
    <3>3. radioOn => CommandSucceeded(v).advertising \/ CommandSucceeded(v).uncertain
      BY <2>1, <2>2, <2>3, SucceededFields
    <3> QED BY <2>1, <2>2, <3>1, <3>2, <3>3, SucceededFields DEF Coherent
  <2>4. CASE ~slot.ok
    <3> DEFINE w == [v EXCEPT !.uncertain = @ /\ v.state # "ENABLE"]
    <3>1. /\ Delivered(v) = CommandFailed(w)
          /\ w \in PolicyType /\ w.inhibited = v.inhibited
          /\ radioOn => w.advertising \/ w.uncertain
      BY <1>3, <2>1, <2>2, <2>4 DEF Delivered, OnEvent, PolicyType
    <3> HIDE DEF w
    <3> QED BY <2>2, <3>1, FailedFields DEF Coherent
  <2> QED BY <2>3, <2>4
<1> QED BY <1>1, <1>2, <1>3

\* A deadline that may pass passes when nothing is under way any more.
LEMMA TimedCoherent ==
    ASSUME ~LateReplies, NEW v, Coherent(v), v.state # "FAILED", MayExpire(v)
    PROVE  Coherent(CommandFailed(v)) /\ cmds = << >>
BY FailedFields DEF Coherent, MayExpire

LEMMA SteeredCoherent ==
    ASSUME NEW v, NEW due, Coherent(v), v.state # "FAILED"
    PROVE  /\ Coherent(Steer(v, due))
           /\ ~Steer(v, due).inFlight => cmds = << >>
           /\ Steer(v, due).inhibited = v.inhibited
           /\ v.inhibited /\ ~Steer(v, due).inFlight =>
                Steer(v, due).state \in {"DISABLE", "OFF"}
           /\ Steer(v, due).state # "FAILED"
<1>1. CASE v.inFlight
  BY <1>1 DEF Steer
<1>2. CASE ~v.inFlight
  <2> DEFINE w == Steer(v, due)
  <2>1. v \in PolicyType /\ cmds = << >>
    BY <1>2 DEF Coherent
  <2>2. /\ w \in PolicyType /\ w.inFlight = FALSE
        /\ w.advertising = v.advertising
        /\ w.uncertain = v.uncertain
        /\ w.inhibited = v.inhibited
        /\ w.state = "FAILED" => v.state = "FAILED"
        /\ v.inhibited => w.state \in {"DISABLE", "OFF"}
    BY <1>2, <2>1, SteerFields
  <2> HIDE DEF w
  <2>3. Coherent(w)
    BY <2>1, <2>2 DEF Coherent
  <2>4. /\ Coherent(w) /\ (~w.inFlight => cmds = << >>)
        /\ w.inhibited = v.inhibited
        /\ (v.inhibited /\ ~w.inFlight => w.state \in {"DISABLE", "OFF"})
        /\ w.state # "FAILED"
    BY <2>1, <2>2, <2>3
  <2> QED BY <2>4 DEF w
<1> QED BY <1>1, <1>2

LEMMA AttemptedCoherent ==
    ASSUME NEW v, NEW room, Coherent(v), v.state \in SendingStates, cmds = << >>,
           cmds' = IF room THEN <<v.state>> ELSE << >>, UNCHANGED radioOn,
           pol' = Attempted(v, room), QueueMax \in Nat \ {0}
    PROVE  Coherent(pol)' /\ cmds' \in Seq(SendingStates) /\ Len(cmds') <= QueueMax
<1>1. /\ v \in PolicyType /\ v.state # "FAILED" /\ pol' \in PolicyType
      /\ pol'.state = v.state /\ pol'.inFlight = (room \/ v.inFlight)
      /\ pol'.advertising = v.advertising
      /\ pol'.uncertain = (v.uncertain \/ (room /\ v.state = "ENABLE"))
  BY AttemptedFields DEF Coherent, SendingStates
<1>2. cmds' \in Seq(SendingStates) /\ Len(cmds') <= QueueMax
  OBVIOUS
<1>3. /\ Asks("ENABLE")' => room /\ v.state = "ENABLE"
      /\ cmds' = << >> \/ (room /\ cmds' = <<v.state>>)
  BY DEF Asks
<1>4. radioOn => v.advertising \/ v.uncertain
  BY DEF Coherent
<1> QED BY <1>1, <1>2, <1>3, <1>4 DEF Coherent

\* A poll leaves the policy knowing what is on the air and under way; what is
\* inhibited stays so, and starts nothing.
LEMMA PollCoherent ==
    ASSUME NEW from, NEW expired, NEW due, NEW room,
           ~LateReplies, TypeOK, Coherent(from), Answered(from),
           Poll(from, expired, due, room)
    PROVE  /\ RadioInv'
           /\ pol'.inhibited = from.inhibited
           /\ from.inhibited => \A i \in DOMAIN cmds' : cmds'[i] = "ENABLE" =>
                                  \E j \in DOMAIN cmds : cmds[j] = "ENABLE"
<1> DEFINE v == Delivered(from)
           timed == IF expired THEN CommandFailed(v) ELSE v
           steered == PollResult(v, expired, due)
<1>1. Coherent(v) /\ v.inhibited = from.inhibited
  BY DeliveredCoherent
<1>2. slot' = NoEvent /\ overflow' = FALSE /\ UNCHANGED radioOn
  BY DEF Poll
<1>3. Answered(pol)' /\ slot' \in Events \cup {NoEvent}
  BY <1>2 DEF Answered, IsAnswer, NoEvent
<1>4. SUFFICES /\ Coherent(pol)' /\ pol'.inhibited = from.inhibited
               /\ cmds' \in Seq(SendingStates) /\ Len(cmds') <= QueueMax
               /\ \/ cmds' = cmds
                  \/ from.inhibited => cmds' = << >> \/ cmds' = <<"DISABLE">>
  <2>1. pol' \in PolicyType /\ overflow' \in BOOLEAN /\ radioOn' \in BOOLEAN
    BY <1>2, <1>4 DEF Coherent, TypeOK
  <2>2. from.inhibited => \A i \in DOMAIN cmds' : cmds'[i] = "ENABLE" =>
                             \E j \in DOMAIN cmds : cmds[j] = "ENABLE"
    BY <1>4
  <2> QED BY <1>2, <1>3, <1>4, <2>1, <2>2 DEF RadioInv, TypeOK
<1>5. CASE v.state \in {"FAILED", "INIT_CONTROLLER"}
  <2>1. pol' = v /\ cmds' = cmds
    BY <1>5 DEF Poll
  <2> QED BY <1>1, <1>2, <2>1 DEF Coherent, Asks, TypeOK
<1>6. CASE v.state \notin {"FAILED", "INIT_CONTROLLER"}
  <2> HIDE DEF v
  <2>1. expired => MayExpire(v)
    BY <1>6 DEF Poll, v
  <2>2. Coherent(timed) /\ timed.inhibited = from.inhibited
    BY <1>1, <1>6, <2>1, TimedCoherent, FailedFields DEF Coherent
  <2>3. steered = IF timed.state = "FAILED" THEN timed ELSE Steer(timed, due)
    BY DEF PollResult
  <2> HIDE DEF timed
  <2>4. /\ Coherent(steered) /\ steered.inhibited = from.inhibited
        /\ steered.state \in SendingStates /\ ~steered.inFlight => cmds = << >>
        /\ from.inhibited /\ ~steered.inFlight => steered.state \in {"DISABLE", "OFF", "FAILED"}
    <3>1. CASE timed.state = "FAILED"
      BY <2>2, <2>3, <3>1 DEF SendingStates
    <3>2. CASE timed.state # "FAILED"
      BY <2>2, <2>3, <3>2, SteeredCoherent
    <3> QED BY <3>1, <3>2
  <2> DEFINE sends == steered.state \in SendingStates /\ ~steered.inFlight
  <2>5. /\ ~sends => pol' = steered /\ cmds' = cmds
        /\ sends => /\ pol' = Attempted(steered, room)
                    /\ cmds' = IF room THEN Append(cmds, steered.state) ELSE cmds
    BY <1>6 DEF Poll, v
  <2> HIDE DEF steered
  <2>6. CASE ~sends
    BY <1>2, <2>4, <2>5, <2>6 DEF Coherent, Asks, TypeOK
  <2>7. CASE sends
    <3>1. cmds = << >> /\ steered \in PolicyType
      BY <2>4, <2>7 DEF Coherent
    <3>2. cmds' = IF room THEN <<steered.state>> ELSE << >>
      BY <2>5, <2>7, <3>1
    <3>3. Coherent(pol)' /\ cmds' \in Seq(SendingStates) /\ Len(cmds') <= QueueMax
      BY <1>2, <2>4, <2>5, <2>7, <3>1, <3>2, AttemptedCoherent, VhciAssumption
         DEF VhciAssumption
    <3>4. pol'.inhibited = from.inhibited
      BY <2>4, <2>5, <2>7, <3>1, AttemptedFields
    <3>5. from.inhibited => cmds' = << >> \/ cmds' = <<"DISABLE">>
      BY <2>4, <2>7, <3>2 DEF SendingStates
    <3> QED BY <3>3, <3>4, <3>5
  <2> QED BY <2>6, <2>7
<1> QED BY <1>5, <1>6

\* What has been quiet and inhibited stays quiet through every poll.
LEMMA PollStaysQuiet ==
    ASSUME NEW from, NEW expired, NEW due, NEW room,
           TypeOK, Coherent(from), from.inhibited, Quiesced(from),
           Poll(from, expired, due, room)
    PROVE  Quiesced(pol)' /\ UNCHANGED cmds
<1> DEFINE v == Delivered(from)
           timed == IF expired THEN CommandFailed(v) ELSE v
           steered == PollResult(v, expired, due)
<1>1. from \in PolicyType /\ from.inFlight = FALSE
  BY DEF Coherent, Quiesced, PolicyType
<1>2. /\ v \in PolicyType /\ v.state \in {"OFF", "FAILED"} /\ v.inFlight = FALSE
      /\ ~v.advertising /\ ~v.uncertain /\ v.inhibited
  BY <1>1, FailFields DEF Delivered, OnEvent, Quiesced
<1>3. CASE v.state \in {"FAILED", "INIT_CONTROLLER"}
  BY <1>2, <1>3 DEF Poll, Quiesced
<1>4. CASE v.state \notin {"FAILED", "INIT_CONTROLLER"}
  <2> HIDE DEF v
  <2>1. /\ timed \in PolicyType /\ timed.state \in {"OFF", "FAILED"}
        /\ timed.inFlight = FALSE
        /\ ~timed.advertising /\ ~timed.uncertain /\ timed.inhibited
    BY <1>2, <1>4, FailedFields
  <2>2. steered = IF timed.state = "FAILED" THEN timed ELSE Steer(timed, due)
    BY DEF PollResult
  <2> HIDE DEF timed
  <2>3. steered.state \in {"OFF", "FAILED"} /\ Quiesced(steered)
    <3>1. CASE timed.state = "FAILED"
      BY <2>1, <2>2, <3>1 DEF Quiesced
    <3>2. CASE timed.state # "FAILED"
      <4>1. steered = Steer(timed, due) /\ timed.state = "OFF" /\ ~Desired(timed)
        BY <2>1, <2>2, <3>2 DEF Desired
      <4>2. Steer(timed, due) = timed
        BY <2>1, <4>1 DEF Steer
      <4> QED BY <2>1, <4>1, <4>2 DEF Quiesced
    <3> QED BY <3>1, <3>2
  <2>4. pol' = steered /\ cmds' = cmds
    BY <1>4, <2>3 DEF Poll, v, SendingStates
  <2> QED BY <2>3, <2>4 DEF Quiesced
<1> QED BY <1>3, <1>4

\* The setters of inputs leave the machine where it is.
SameMachine(v, w) ==
    /\ w \in PolicyType
    /\ w.state = v.state /\ w.inFlight = v.inFlight
    /\ w.advertising = v.advertising /\ w.uncertain = v.uncertain

LEMMA InputsCoherent ==
    ASSUME NEW v, NEW w, Coherent(v), Answered(v), SameMachine(v, w)
    PROVE  Coherent(w) /\ Answered(w) /\ (Quiesced(v) <=> Quiesced(w))
BY DEF Coherent, Answered, SameMachine, Quiesced

\* A machine that waits for its controller has nothing under way; brought up
\* or given up, it is where it may be.
LEMMA StartCoherent ==
    ASSUME NEW v, Coherent(v), Answered(v), v.state = "INIT_CONTROLLER"
    PROVE  /\ Coherent(ControllerUp(v)) /\ Answered(ControllerUp(v))
           /\ ControllerUp(v).inhibited = v.inhibited
           /\ Coherent(Fail(v)) /\ Answered(Fail(v))
           /\ Fail(v).inhibited = v.inhibited
<1> DEFINE w == [v EXCEPT !.ctrl = TRUE]
<1>1. /\ v \in PolicyType /\ cmds = << >> /\ ~v.inFlight /\ ~IsAnswer(slot)
      /\ radioOn \/ Asks("ENABLE") => v.advertising \/ v.uncertain
  BY DEF Coherent, Answered, SendingStates
<1>2. /\ w \in PolicyType /\ w.advertising = v.advertising
      /\ w.uncertain = v.uncertain /\ w.inhibited = v.inhibited
  BY <1>1 DEF PolicyType
<1>3. ControllerUp(v) = Enter(w, "OFF", FALSE)
  BY DEF ControllerUp
<1> HIDE DEF w
<1>4. /\ Enter(w, "OFF", FALSE) \in PolicyType
      /\ Enter(w, "OFF", FALSE).state = "OFF"
      /\ Enter(w, "OFF", FALSE).inFlight = FALSE
      /\ Enter(w, "OFF", FALSE).advertising = w.advertising
      /\ Enter(w, "OFF", FALSE).uncertain = w.uncertain
      /\ Enter(w, "OFF", FALSE).inhibited = w.inhibited
  BY <1>2, StatesNamed, EnterFields
<1>5. Coherent(ControllerUp(v)) /\ Answered(ControllerUp(v))
  BY <1>1, <1>2, <1>3, <1>4 DEF Coherent, Answered
<1>6. Coherent(Fail(v)) /\ Answered(Fail(v))
  BY <1>1, FailFields DEF Coherent, Answered
<1> QED BY <1>1, <1>2, <1>3, <1>4, <1>5, <1>6, FailFields

-----------------------------------------------------------------------------
(* The controller.                                                         *)
LEMMA ReceiveType ==
    ASSUME NEW e \in Events, TypeOK, Receive(e)
    PROVE  /\ slot' \in Events \cup {NoEvent} /\ overflow' \in BOOLEAN
           /\ slot' = slot \/ (slot = NoEvent /\ slot' = e)
BY DEF Receive, TypeOK

LEMMA ControllerCoherent ==
    ASSUME RadioInv, Controller
    PROVE  /\ RadioInv' /\ pol' = pol
           /\ \A c : Asks(c)' => Asks(c)
           /\ radioOn' => radioOn \/ Asks("ENABLE")
<1> USE DEF RadioInv
<1>1. TypeOK /\ Coherent(pol) /\ Answered(pol) /\ QueueMax \in Nat
  BY VhciAssumption DEF VhciAssumption
<1>2. CASE ControllerAnswers
  <2>1. PICK ok \in BOOLEAN :
          /\ ok \/ ~(Head(cmds) = "ENABLE" /\ radioOn)
          /\ radioOn' = IF ok THEN Switched(Head(cmds)) ELSE radioOn
          /\ Receive([opcode |-> Opcode(Head(cmds)), ok |-> ok])
    BY <1>2 DEF ControllerAnswers
  <2>2. cmds # << >> /\ cmds' = Tail(cmds) /\ pol' = pol
    BY <1>2 DEF ControllerAnswers
  <2>3. /\ Head(cmds) \in SendingStates
        /\ cmds' \in Seq(SendingStates) /\ Len(cmds') <= QueueMax
        /\ \A c : Asks(c)' => Asks(c)
        /\ Asks(Head(cmds))
        /\ \A s : cmds = <<s>> => cmds' = << >> /\ Head(cmds) = s
    BY <1>1, <2>2, RestOf DEF TypeOK
  <2> DEFINE e == [opcode |-> Opcode(Head(cmds)), ok |-> ok]
  <2>4. e \in Events
    BY <2>3 DEF Events, Opcode, SendingStates
  <2>5. /\ slot' \in Events \cup {NoEvent} /\ overflow' \in BOOLEAN
        /\ slot' = slot \/ (slot = NoEvent /\ slot' = e)
    BY <1>1, <2>1, <2>4, ReceiveType
  <2>6. /\ radioOn' \in BOOLEAN
        /\ radioOn' => radioOn \/ Head(cmds) = "ENABLE"
        /\ ok /\ Head(cmds) = "DISABLE" => ~radioOn'
        /\ ~ok /\ Head(cmds) = "ENABLE" => ~radioOn'
    BY <1>1, <2>1 DEF Switched, TypeOK
  <2>7. TypeOK'
    BY <1>1, <2>2, <2>3, <2>5, <2>6 DEF TypeOK
  <2>8. Coherent(pol)'
    BY <1>1, <2>2, <2>3, <2>6 DEF Coherent
  <2>9. Answered(pol)'
    <3>1. SUFFICES ASSUME pol.state # "FAILED", IsAnswer(slot')
                   PROVE  /\ pol.inFlight /\ cmds' = << >> /\ slot'.opcode = Opcode(pol.state)
                          /\ slot'.ok /\ pol.state = "DISABLE" => ~radioOn'
                          /\ ~slot'.ok /\ pol.state = "ENABLE" => ~radioOn'
      BY <2>2 DEF Answered, IsAnswer
    <3>2. pol.inFlight /\ cmds = <<pol.state>>
      BY <1>1, <2>2, <3>1 DEF Coherent
    <3>3. cmds' = << >> /\ Head(cmds) = pol.state
      BY <2>3, <3>2
    <3>4. slot' = e
      BY <1>1, <2>2, <2>5, <3>1 DEF Answered
    <3>5. slot'.opcode = Opcode(pol.state) /\ slot'.ok = ok
      BY <3>3, <3>4
    <3> QED BY <2>6, <3>2, <3>3, <3>5
  <2> QED BY <2>2, <2>3, <2>6, <2>7, <2>8, <2>9
<1>3. CASE ControllerStaysSilent
  <2>1. cmds # << >> /\ cmds' = Tail(cmds) /\ UNCHANGED <<pol, slot, overflow>>
    BY <1>3 DEF ControllerStaysSilent
  <2>2. /\ Head(cmds) \in SendingStates
        /\ cmds' \in Seq(SendingStates) /\ Len(cmds') <= QueueMax
        /\ \A c : Asks(c)' => Asks(c)
        /\ Asks(Head(cmds))
        /\ \A s : cmds = <<s>> => cmds' = << >> /\ Head(cmds) = s
    BY <1>1, <2>1, RestOf DEF TypeOK
  <2>3. radioOn' \in BOOLEAN /\ (radioOn' => radioOn \/ Head(cmds) = "ENABLE")
    BY <1>1, <1>3 DEF ControllerStaysSilent, Switched, TypeOK
  <2>4. TypeOK'
    BY <1>1, <2>1, <2>2, <2>3 DEF TypeOK
  <2>5. Coherent(pol)'
    BY <1>1, <2>1, <2>2, <2>3 DEF Coherent
  <2>6. Answered(pol)'
    BY <1>1, <2>1 DEF Answered, IsAnswer
  <2> QED BY <2>1, <2>2, <2>3, <2>4, <2>5, <2>6
<1>4. CASE ControllerSpeaksUnasked
  <2>1. PICK ok \in BOOLEAN : Receive([opcode |-> "OTHER", ok |-> ok])
    BY <1>4 DEF ControllerSpeaksUnasked
  <2>2. UNCHANGED <<pol, cmds, radioOn>>
    BY <1>4 DEF ControllerSpeaksUnasked
  <2>3. [opcode |-> "OTHER", ok |-> ok] \in Events
    BY DEF Events
  <2>4. /\ slot' \in Events \cup {NoEvent} /\ overflow' \in BOOLEAN
        /\ slot' = slot \/ slot' = [opcode |-> "OTHER", ok |-> ok]
    BY <1>1, <2>1, <2>3, ReceiveType
  <2>5. TypeOK'
    BY <1>1, <2>2, <2>4 DEF TypeOK
  <2>6. Coherent(pol)' /\ Answered(pol)'
    BY <1>1, <2>2, <2>4 DEF Coherent, Answered, IsAnswer, Asks
  <2> QED BY <2>2, <2>5, <2>6 DEF Asks
<1> QED BY <1>2, <1>3, <1>4 DEF Controller

-----------------------------------------------------------------------------
(* The machine with any setter of its inputs.                              *)
LEMMA InitialRadio == InitRadio => RadioInv
<1> SUFFICES ASSUME InitRadio PROVE RadioInv
  OBVIOUS
<1>1. InitPolicy \in PolicyType
  <2>1. 0 \in 0..MaxRetries
    BY VhciAssumption DEF VhciAssumption
  <2> QED BY <2>1 DEF InitPolicy, PolicyType, States
<1>2. /\ cmds = << >> /\ pol = InitPolicy /\ slot = NoEvent
      /\ overflow = FALSE /\ radioOn = FALSE
  BY DEF InitRadio
<1>3. TypeOK
  <2>1. cmds \in Seq(SendingStates) /\ Len(cmds) = 0 /\ 0 <= QueueMax
    BY <1>2, VhciAssumption DEF VhciAssumption
  <2> QED BY <1>1, <1>2, <2>1 DEF TypeOK
<1>4. Coherent(pol) /\ Answered(pol)
  BY <1>1, <1>2 DEF Coherent, Answered, IsAnswer, NoEvent, InitPolicy, Asks
<1> QED BY <1>3, <1>4 DEF RadioInv

LEMMA NextRadio ==
    ASSUME ~LateReplies, RadioInv, [Next]_radioVars
    PROVE  RadioInv' /\ NoNewStart
<1>1. TypeOK /\ Coherent(pol) /\ Answered(pol)
  BY DEF RadioInv
<1>2. CASE InitializeController
  <2>1. /\ pol' = ControllerUp(pol) \/ pol' = Fail(pol)
        /\ pol.state = "INIT_CONTROLLER"
        /\ UNCHANGED <<slot, overflow, cmds, radioOn>>
    BY <1>2 DEF InitializeController
  <2>2. /\ Coherent(ControllerUp(pol)) /\ Answered(ControllerUp(pol))
        /\ Coherent(Fail(pol)) /\ Answered(Fail(pol))
    BY <1>1, <2>1, StartCoherent
  <2>3. Coherent(pol)' /\ Answered(pol)'
    BY <2>1, <2>2 DEF Coherent, Answered, Asks
  <2> QED BY <1>1, <2>1, <2>3 DEF RadioInv, TypeOK, Coherent, NoNewStart
<1>3. CASE SetInputs
  <2>1. UNCHANGED <<slot, overflow, cmds, radioOn>> /\ SameMachine(pol, pol')
    BY <1>1, <1>3 DEF SetInputs, SameMachine, TypeOK, PolicyType
  <2>2. Coherent(pol') /\ Answered(pol')
    BY <1>1, <2>1, InputsCoherent
  <2>3. Coherent(pol)' /\ Answered(pol)'
    BY <2>1, <2>2 DEF Coherent, Answered, Asks
  <2> QED BY <1>1, <2>1, <2>3 DEF RadioInv, TypeOK, Coherent, NoNewStart
<1>4. CASE PollRadio
  BY <1>1, <1>4, PollCoherent DEF PollRadio, NoNewStart
<1>5. CASE Controller
  BY <1>5, ControllerCoherent DEF Asks, NoNewStart
<1>6. CASE UNCHANGED radioVars
  BY <1>1, <1>6 DEF RadioInv, radioVars, TypeOK, Coherent, Answered, Asks, NoNewStart
<1> QED BY <1>2, <1>3, <1>4, <1>5, <1>6 DEF Next

\* The policy always knows what may be on the air and what is under way.
THEOREM RadioKnown ==
    ASSUME ~LateReplies
    PROVE  Spec => []RadioInv
<1>1. Init => RadioInv
  BY InitialRadio DEF Init
<1>2. RadioInv /\ [Next]_radioVars => RadioInv'
  BY NextRadio
<1> QED BY <1>1, <1>2, PTL DEF Spec

\* The radio that badge_con_vhci_policy_radio_quiesced calls quiet is off, and
\* the controller holds no command that could start it.
THEOREM QuietIsSilent ==
    ASSUME ~LateReplies
    PROVE  Spec => []QuietMeansSilent
<1>1. RadioInv => QuietMeansSilent
  BY DEF RadioInv, Coherent, Quiesced, QuietMeansSilent, Asks
<1> QED BY <1>1, RadioKnown, PTL

\* While it is inhibited the machine never asks the controller to advertise.
THEOREM NothingStartsInhibited ==
    ASSUME ~LateReplies
    PROVE  Spec => NoStartWhileInhibited
<1>1. RadioInv /\ [Next]_radioVars => [NoNewStart]_radioVars
  BY NextRadio
<1> QED BY <1>1, RadioKnown, PTL DEF Spec, NoStartWhileInhibited
=============================================================================
