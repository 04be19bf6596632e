--------------------------- MODULE PowerConvergence ---------------------------
(***************************************************************************)
(* The badge's quiet mode and the scanners' proofs of it:                  *)
(* badge_power_state.c and badge_power_runtime.c, with the lines of        *)
(* uart_rx.c that tell them of a scanner's identity and acknowledgement.   *)
(* The poll task sends the wanted mode over the UARTs and takes a scanner  *)
(* for converged only on an acknowledgement of exactly this generation     *)
(* that carries the facts.  Lines may be lost, never reordered; a scanner  *)
(* (here only its mode, see ScannerRadios) may restart, which makes it     *)
(* active; it says who it is after the restart and again from time to      *)
(* time.  A firmware relay may keep the UARTs to itself.                   *)
(***************************************************************************)
EXTENDS Naturals, Sequences

CONSTANTS Scanners,
          Requests,     \* mode changes asked for
          Faults,       \* restarts of scanners, lost lines and firmware relays
          LineMax       \* lines under way in one direction

VARIABLES state,        \* s_state: quiet, generation, per scanner connected, acked
          shown,        \* s_applied_quiet, s_relay_was_active
          due,          \* scanners whose last send is not within the interval
          poll,         \* the poll task, with what it is about to send
          relay,        \* fw_store_is_relay_active
          scanner,      \* per scanner its mode, and whether its restart is unsaid
          fresh, down, up,
          requests, faults
vars == <<state, shown, due, poll, relay, scanner, fresh, down, up, requests, faults>>

Rest == [pc |-> "rest", left |-> {}, to |-> "none", quiet |-> FALSE, generation |-> 0]
Identity == [is |-> "identity", quiet |-> FALSE, generation |-> 0, ok |-> TRUE]
Unknown == [connected |-> FALSE, acked |-> FALSE]
Started(unsaid) == [mode |-> "active", unsaid |-> unsaid]

Init ==
    /\ state = [quiet |-> FALSE, generation |-> 0, of |-> [s \in Scanners |-> Unknown]]
    /\ shown = [quiet |-> FALSE, relay |-> FALSE]
    /\ due = Scanners
    /\ poll = Rest
    /\ relay = FALSE
    /\ scanner = [s \in Scanners |-> Started(FALSE)]
    /\ fresh = {}
    /\ down = [s \in Scanners |-> <<>>]
    /\ up = [s \in Scanners |-> <<Identity>>]
    /\ requests = 0
    /\ faults = 0

Heard(s) == [state EXCEPT !.of[s] = [connected |-> TRUE, acked |-> FALSE]]
Lost(s) == [state EXCEPT !.of[s] = Unknown]
AllAs(connected) == [state EXCEPT !.of =
    [s \in Scanners |-> [connected |-> s \in connected, acked |-> FALSE]]]

\* badge_power_runtime_request, badge_power_runtime_toggle; a request waits
\* while a command is on its way out.
Request ==
    /\ requests < Requests /\ poll.pc # "send"
    /\ requests' = requests + 1
    /\ state' = [AllAs({s \in Scanners : state.of[s].connected}) EXCEPT
                   !.quiet = ~@, !.generation = @ + 1]
    /\ due' = Scanners
    /\ UNCHANGED <<shown, poll, relay, scanner, fresh, down, up, faults>>

-----------------------------------------------------------------------------
(* badge_power_runtime_poll.                                               *)
Poll ==
    /\ poll.pc = "rest"
    /\ IF relay
       THEN /\ state' = IF shown.relay THEN state ELSE AllAs({})
            /\ due' = IF shown.relay THEN due ELSE Scanners
            /\ poll' = poll
       ELSE /\ state' = IF shown.relay THEN AllAs(fresh) ELSE state
            /\ due' = IF shown.relay THEN Scanners ELSE due
            /\ poll' = [poll EXCEPT !.pc = "scanner", !.left = Scanners]
    /\ shown' = [quiet |-> state.quiet, relay |-> relay]
    /\ UNCHANGED <<relay, scanner, fresh, down, up, requests, faults>>

\* Per scanner: the freshness of its UART is taken over, and a probe that is
\* due is a new obligation to prove the mode.
Probe(s) ==
    /\ poll.pc = "scanner" /\ s \in poll.left
    /\ LET seen == CASE s \in fresh /\ ~state.of[s].connected -> Heard(s)
                     [] s \notin fresh /\ state.of[s].connected -> Lost(s)
                     [] OTHER -> state
       IN IF s \in due
          THEN /\ state' = IF s \in fresh THEN Heard(s) ELSE Lost(s)
               /\ poll' = [poll EXCEPT !.pc = "lock", !.left = @ \ {s}, !.to = s]
          ELSE /\ state' = seen
               /\ poll' = [poll EXCEPT !.left = @ \ {s}]
    /\ UNCHANGED <<shown, due, relay, scanner, fresh, down, up, requests, faults>>

PollEnds ==
    /\ poll.pc = "scanner" /\ poll.left = {}
    /\ poll' = Rest
    /\ UNCHANGED <<state, shown, due, relay, scanner, fresh, down, up, requests, faults>>

\* What is sent is taken again once no request can come in between.
Locked ==
    /\ poll.pc = "lock"
    /\ poll' = [poll EXCEPT !.pc = "send", !.quiet = state.quiet,
                            !.generation = state.generation]
    /\ UNCHANGED <<state, shown, due, relay, scanner, fresh, down, up, requests, faults>>

Line(s) == [quiet |-> poll.quiet, generation |-> poll.generation]

Send ==
    /\ poll.pc = "send"
    /\ LET s == poll.to
           sent == ~relay /\ Len(down[s]) < LineMax
       IN /\ down' = IF sent THEN [down EXCEPT ![s] = Append(@, Line(s))] ELSE down
          /\ due' = IF sent THEN due \ {s} ELSE due
    /\ poll' = [poll EXCEPT !.pc = "scanner", !.to = "none"]
    /\ UNCHANGED <<state, shown, relay, scanner, fresh, up, requests, faults>>

\* Half a second, or ten when it was acknowledged.
Interval(s) ==
    /\ s \notin due
    /\ due' = due \cup {s}
    /\ UNCHANGED <<state, shown, poll, relay, scanner, fresh, down, up, requests, faults>>

-----------------------------------------------------------------------------
(* uart_rx.c hands over what a scanner says.                               *)
Hear(s) ==
    /\ up[s] # <<>> /\ ~relay /\ Head(up[s]).is = "identity"
    /\ up' = [up EXCEPT ![s] = Tail(@)]
    /\ fresh' = fresh \cup {s}
    /\ state' = Heard(s)
    /\ due' = due \cup {s}
    /\ UNCHANGED <<shown, poll, relay, scanner, down, requests, faults>>

SameMode(ack) == ack.ok /\ ack.quiet = state.quiet

\* badge_power_state_note_ack.
Proves(ack) == ack.ok /\ ack.quiet = state.quiet /\ ack.generation = state.generation

Acked(s) ==
    /\ up[s] # <<>> /\ ~relay /\ Head(up[s]).is = "ack"
    /\ up' = [up EXCEPT ![s] = Tail(@)]
    /\ fresh' = fresh \cup {s}
    /\ state' = [state EXCEPT !.of[s] = [connected |-> TRUE, acked |-> Proves(Head(up[s]))]]
    /\ UNCHANGED <<shown, due, poll, relay, scanner, down, requests, faults>>

\* Fifteen seconds without a line.
Stale(s) ==
    /\ s \in fresh /\ faults < Faults
    /\ faults' = faults + 1
    /\ fresh' = fresh \ {s}
    /\ UNCHANGED <<state, shown, due, poll, relay, scanner, down, up, requests>>

-----------------------------------------------------------------------------
(* The scanner: it carries out the command and tells that it did, or that  *)
(* it is not there yet.                                                    *)
Says(s, line) ==
    IF Len(up[s]) < LineMax THEN up' = [up EXCEPT ![s] = Append(@, line)] ELSE UNCHANGED up

Mode(quiet) == IF quiet THEN "quiet" ELSE "active"
Answer(c, ok) == [is |-> "ack", quiet |-> c.quiet, generation |-> c.generation, ok |-> ok]

Carry(s) ==
    /\ down[s] # <<>>
    /\ LET c == Head(down[s]) IN
       /\ down' = [down EXCEPT ![s] = Tail(@)]
       /\ scanner' = [scanner EXCEPT ![s] = [mode |-> Mode(c.quiet), unsaid |-> FALSE]]
       /\ Says(s, Answer(c, TRUE))
    /\ UNCHANGED <<state, shown, due, poll, relay, fresh, requests, faults>>

NotYet(s) ==
    /\ down[s] # <<>> /\ faults < Faults
    /\ faults' = faults + 1
    /\ LET c == Head(down[s]) IN
       /\ down' = [down EXCEPT ![s] = Tail(@)]
       /\ scanner' = [scanner EXCEPT ![s].mode = IF @ = Mode(c.quiet) THEN @ ELSE "between"]
       /\ Says(s, Answer(c, FALSE))
    /\ UNCHANGED <<state, shown, due, poll, relay, fresh, requests>>

\* What it had said is still in the badge's receive buffer; the line in which
\* it says who it is may be lost.
Restart(s) ==
    /\ faults < Faults /\ Len(up[s]) <= LineMax
    /\ faults' = faults + 1
    /\ down' = [down EXCEPT ![s] = <<>>]
    /\ \E unsaid \in BOOLEAN :
         /\ scanner' = [scanner EXCEPT ![s] = Started(unsaid)]
         /\ up' = [up EXCEPT ![s] = IF unsaid THEN @ ELSE Append(@, Identity)]
    /\ UNCHANGED <<state, shown, due, poll, relay, fresh, requests>>

\* It says who it is every ten seconds; one such line is under way at a time.
Identify(s) ==
    /\ Len(up[s]) < LineMax /\ \A i \in 1..Len(up[s]) : up[s][i].is # "identity"
    /\ up' = [up EXCEPT ![s] = Append(@, Identity)]
    /\ scanner' = [scanner EXCEPT ![s].unsaid = FALSE]
    /\ UNCHANGED <<state, shown, due, poll, relay, fresh, down, requests, faults>>

LoseLine(s) ==
    /\ down[s] # <<>> /\ faults < Faults
    /\ faults' = faults + 1
    /\ down' = [down EXCEPT ![s] = Tail(@)]
    /\ UNCHANGED <<state, shown, due, poll, relay, scanner, fresh, up, requests>>

\* A firmware operation takes the UARTs, with the lease, and gives them back.
Relay ==
    /\ ~relay /\ poll.pc # "send" /\ faults < Faults
    /\ faults' = faults + 1
    /\ relay' = TRUE
    /\ UNCHANGED <<state, shown, due, poll, scanner, fresh, down, up, requests>>

RelayEnds ==
    /\ relay
    /\ relay' = FALSE
    /\ UNCHANGED <<state, shown, due, poll, scanner, fresh, down, up, requests, faults>>

-----------------------------------------------------------------------------
Task == Poll \/ (\E s \in Scanners : Probe(s)) \/ PollEnds \/ Locked \/ Send
Next ==
    \/ Request \/ Task \/ Relay \/ RelayEnds
    \/ \E s \in Scanners : \/ Interval(s) \/ Hear(s) \/ Acked(s) \/ Stale(s)
                           \/ Carry(s) \/ NotYet(s) \/ Restart(s) \/ Identify(s)
                           \/ LoseLine(s)

Spec == Init /\ [][Next]_vars
FairSpec ==
    /\ Spec
    /\ WF_vars(Task) /\ WF_vars(RelayEnds)
    /\ \A s \in Scanners : WF_vars(Interval(s)) /\ WF_vars(Hear(s) \/ Acked(s))
                           /\ WF_vars(Carry(s))

-----------------------------------------------------------------------------
\* badge_power_state_converged, for one scanner.
Converged(s) == state.of[s].connected /\ state.of[s].acked

\* A scanner taken for converged is in the wanted mode, unless it has
\* restarted and its identity is still on the way, or was lost and is to be
\* said again: no answer to an earlier request counts.
ProofIsCurrent ==
    \A s \in Scanners : Converged(s) =>
        \/ scanner[s].mode = Mode(state.quiet) \/ scanner[s].unsaid
        \/ \E i \in 1..Len(up[s]) : up[s][i].is = "identity"

\* Whatever was lost, the badge gets its proof again and again.
AllConverged == \A s \in Scanners : Converged(s)
ConvergesAgain == []<>AllConverged
-----------------------------------------------------------------------------
(* Why a proof is current: generations only grow, commands arrive in the    *)
(* order they were sent, and an acknowledgement of this generation was said *)
(* by a scanner that every command on its way will leave as it is.          *)
Lines == [quiet : BOOLEAN, generation : Nat]
Answers == [is : {"identity", "ack"}, quiet : BOOLEAN, generation : Nat, ok : BOOLEAN]
TypeOK ==
    /\ state \in [quiet : BOOLEAN, generation : Nat,
                  of : [Scanners -> [connected : BOOLEAN, acked : BOOLEAN]]]
    /\ poll \in [pc : {"rest", "scanner", "lock", "send"}, left : SUBSET Scanners,
                 to : Scanners \cup {"none"}, quiet : BOOLEAN, generation : Nat]
    /\ poll.pc \in {"lock", "send"} => poll.to \in Scanners
    /\ scanner \in [Scanners -> [mode : {"active", "quiet", "between"}, unsaid : BOOLEAN]]
    /\ fresh \subseteq Scanners
    /\ down \in [Scanners -> Seq(Lines)] /\ up \in [Scanners -> Seq(Answers)]

\* What is about to be sent is what is wanted, and so is the newest line.
SendsWanted ==
    poll.pc = "send" => poll.quiet = state.quiet /\ poll.generation = state.generation
InOrder(s) ==
    /\ \A i \in DOMAIN down[s] :
          /\ down[s][i].generation <= state.generation
          /\ down[s][i].generation = state.generation => down[s][i].quiet = state.quiet
    /\ \A i, j \in DOMAIN down[s] : i <= j => down[s][i].generation <= down[s][j].generation
    /\ \A i \in DOMAIN up[s] : up[s][i].generation <= state.generation

AllCurrent(s) == \A i \in DOMAIN down[s] : down[s][i].generation = state.generation
InMode(s, from) ==
    \/ scanner[s].mode = Mode(state.quiet) \/ scanner[s].unsaid
    \/ \E i \in from..Len(up[s]) : up[s][i].is = "identity"
AcksAreProofs(s) ==
    \A i \in DOMAIN up[s] :
        up[s][i].is = "ack" /\ Proves(up[s][i]) => AllCurrent(s) /\ InMode(s, i + 1)
ProofInv ==
    /\ SendsWanted
    /\ \A s \in Scanners :
        /\ InOrder(s) /\ AcksAreProofs(s)
        /\ Converged(s) => AllCurrent(s) /\ InMode(s, 1)
=============================================================================
