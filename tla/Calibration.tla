----------------------------- MODULE Calibration -----------------------------
(***************************************************************************)
(* The calibration session of a networked node (http_status.c, uart_rx.c,   *)
(* calibration_mode.c).  An HTTP request arms every connected scanner for   *)
(* one advertised identity and waits for all of them; a request that times  *)
(* out is undone with a stop it does not wait long for.  What the node      *)
(* knows of a scanner is its last status or acknowledgement.  The scanners  *)
(* have no time limit of their own, so the operator's stop must get through.*)
(* Identities are fresh for every start (the tool that asks for the session *)
(* draws them), the one HTTP server task runs the handlers one at a time.   *)
(*                                                                         *)
(* Bounds: Starts sessions, Losses lost lines, Resets scanner resets, Busy  *)
(* refusals by a scanner that investigates, LineMax lines on a wire.        *)
(***************************************************************************)
EXTENDS Naturals, Sequences

CONSTANTS Scanners, Starts, Losses, Resets, Busy, LineMax

Normal == 0                         \* "no identity" is the normal mode

VARIABLES node,    \* the identity the node calibrates for, or Normal
          armed,   \* per scanner, the identity it is armed for
          info,    \* per scanner, what the node last read: mode and acked
          heard,   \* the scanners that count as connected
          down, up,\* the UART lines to and from each scanner
          handler, \* the HTTP handler that runs, the identity, whom it awaits
          told,    \* the answer to the last request
          fell,    \* the scanners that have reset since the session was asked for
          wanted,  \* the operator wants calibration, or the end of it
          left     \* what remains of each bound

vars == <<node, armed, info, heard, down, up, handler, told, fell, wanted, left>>

Idle  == [at |-> "idle", id |-> Normal, who |-> {}]

Init == /\ node = Normal /\ armed = [s \in Scanners |-> Normal]
        /\ info = [s \in Scanners |-> [mode |-> Normal, acked |-> FALSE]]
        /\ heard = Scanners
        /\ down = [s \in Scanners |-> <<>>] /\ up = [s \in Scanners |-> <<>>]
        /\ handler = Idle /\ told = "none" /\ fell = {} /\ wanted = FALSE
        /\ left = [starts |-> Starts, losses |-> Losses, resets |-> Resets, busy |-> Busy]

-----------------------------------------------------------------------------
(* The node. *)

AnyMode(s, id) == info[s].mode # Normal \/ id = Normal
Matches(s, id) == info[s].mode = id
MatchesAcked(s, id) == info[s].acked /\ Matches(s, id)

Aggregate == IF node = Normal /\ \A s \in heard : Matches(s, Normal) THEN "normal"
             ELSE IF node # Normal /\ \A s \in heard : MatchesAcked(s, node) THEN "calibration"
             ELSE "degraded"

\* Every scanner gets the line, unless its wire has no room for it.
SendAll(m) == down' = [s \in Scanners |-> IF Len(down[s]) < LineMax
                                          THEN Append(down[s], m) ELSE down[s]]

SetNode(id) == /\ node' = id
               /\ info' = [s \in Scanners |-> [info[s] EXCEPT !.acked = FALSE]]

PostStart ==
  /\ handler = Idle /\ wanted /\ left.starts > 0
  /\ left' = [left EXCEPT !.starts = @ - 1]
  /\ IF Aggregate # "normal"
     THEN told' = "conflict" /\ UNCHANGED <<node, info, down, handler, fell>>
     ELSE LET id == Starts - left.starts + 1 IN
          /\ SetNode(id) /\ SendAll(id)
          /\ handler' = [at |-> "start", id |-> id, who |-> heard]
          /\ told' = "none" /\ fell' = {}
  /\ UNCHANGED <<armed, heard, up, wanted>>

\* The awaited scanners match; with none to await a wait fails at once.
WaitMet == /\ handler.who # {}
           /\ \A s \in handler.who : IF handler.at = "start" THEN MatchesAcked(s, handler.id)
                                     ELSE Matches(s, Normal)

StartMet ==
  /\ handler.at = "start" /\ WaitMet
  /\ handler' = Idle /\ told' = "started"
  /\ UNCHANGED <<node, armed, info, heard, down, up, fell, wanted, left>>

StartLate ==
  /\ handler.at = "start" /\ ~WaitMet
  /\ SendAll(Normal)
  /\ handler' = [at |-> "undo", id |-> Normal, who |-> heard]
  /\ UNCHANGED <<node, armed, info, heard, up, told, fell, wanted, left>>

\* The undo's wait may be met or late: its result is not looked at.
Undone ==
  /\ handler.at = "undo"
  /\ SetNode(Normal)
  /\ handler' = Idle /\ told' = "failed"
  /\ UNCHANGED <<armed, heard, down, up, fell, wanted, left>>

NodeIsNormal == node = Normal
AlreadyNormal == node = Normal /\ Aggregate = "normal"
PostStop ==
  /\ handler = Idle /\ ~wanted
  /\ IF AlreadyNormal THEN told' = "stopped" /\ UNCHANGED <<down, handler>>
     ELSE /\ SendAll(Normal)
          /\ handler' = [at |-> "stop", id |-> Normal, who |-> heard]
          /\ told' = "none"
  /\ UNCHANGED <<node, armed, info, heard, up, fell, wanted, left>>

StopMet ==
  /\ handler.at = "stop" /\ WaitMet
  /\ SetNode(Normal)
  /\ handler' = Idle /\ told' = "stopped"
  /\ UNCHANGED <<armed, heard, down, up, fell, wanted, left>>

StopLate ==
  /\ handler.at = "stop" /\ ~WaitMet
  /\ handler' = Idle /\ told' = "degraded"
  /\ UNCHANGED <<node, armed, info, heard, down, up, fell, wanted, left>>

-----------------------------------------------------------------------------
(* The scanners. *)

Say(s, m) == IF Len(up[s]) < LineMax THEN up' = [up EXCEPT ![s] = Append(@, m)]
             ELSE UNCHANGED up

Arm(s, id) == armed' = [armed EXCEPT ![s] = id]
Disarm(s)  == armed' = [armed EXCEPT ![s] = Normal]

\* A start arms the scanner unless it investigates; a stop always ends it.
TakeStart(s) ==
  /\ down[s] # <<>> /\ Head(down[s]) # Normal
  /\ down' = [down EXCEPT ![s] = Tail(@)]
  /\ \/ /\ Arm(s, Head(down[s])) /\ UNCHANGED left
        /\ Say(s, [mode |-> Head(down[s]), acked |-> TRUE])
     \/ /\ left.busy > 0 /\ left' = [left EXCEPT !.busy = @ - 1]
        /\ Say(s, [mode |-> armed[s], acked |-> FALSE]) /\ UNCHANGED armed
  /\ UNCHANGED <<node, info, heard, handler, told, fell, wanted>>

TakeStop(s) ==
  /\ down[s] # <<>> /\ Head(down[s]) = Normal
  /\ down' = [down EXCEPT ![s] = Tail(@)]
  /\ Disarm(s) /\ Say(s, [mode |-> Normal, acked |-> TRUE])
  /\ UNCHANGED <<node, info, heard, handler, told, fell, wanted, left>>

\* A status acknowledges calibration by naming the identity.
Status(s) ==
  /\ up[s] = <<>> /\ (info[s].mode # armed[s] \/ s \notin heard)
  /\ Say(s, [mode |-> armed[s], acked |-> armed[s] # Normal])
  /\ UNCHANGED <<node, armed, info, heard, down, handler, told, fell, wanted, left>>

ReadLine(s) ==
  /\ up[s] # <<>>
  /\ up' = [up EXCEPT ![s] = Tail(@)]
  /\ info' = [info EXCEPT ![s] = Head(up[s])]
  /\ heard' = heard \cup {s}
  /\ UNCHANGED <<node, armed, down, handler, told, fell, wanted, left>>

Reset(s) ==
  /\ left.resets > 0
  /\ left' = [left EXCEPT !.resets = @ - 1]
  /\ armed' = [armed EXCEPT ![s] = Normal]
  /\ down' = [down EXCEPT ![s] = <<>>]
  /\ fell' = fell \cup {s}
  /\ UNCHANGED <<node, info, heard, up, handler, told, wanted>>

-----------------------------------------------------------------------------
(* The wires and the operator. *)

Lose(s) ==
  /\ left.losses > 0
  /\ left' = [left EXCEPT !.losses = @ - 1]
  /\ \/ down[s] # <<>> /\ down' = [down EXCEPT ![s] = Tail(@)] /\ UNCHANGED <<up, heard>>
     \/ up[s] # <<>> /\ up' = [up EXCEPT ![s] = Tail(@)] /\ UNCHANGED <<down, heard>>
     \/ heard' = heard \ {s} /\ UNCHANGED <<down, up>>          \* silent too long
  /\ UNCHANGED <<node, armed, info, handler, told, fell, wanted>>

Ask == /\ ~wanted /\ left.starts > 0 /\ wanted' = TRUE
       /\ UNCHANGED <<node, armed, info, heard, down, up, handler, told, fell, left>>
EnoughOfIt == /\ wanted /\ wanted' = FALSE
              /\ UNCHANGED <<node, armed, info, heard, down, up, handler, told, fell, left>>

Next == \/ PostStart \/ StartMet \/ StartLate \/ Undone
        \/ PostStop \/ StopMet \/ StopLate \/ Ask \/ EnoughOfIt
        \/ \E s \in Scanners : TakeStart(s) \/ TakeStop(s) \/ Status(s) \/ ReadLine(s) \/ Reset(s) \/ Lose(s)

Spec == Init /\ [][Next]_vars

\* Tasks run, what is not lost arrives, and an operator who wants the end of a
\* session asks for it as long as the node is not normal.
Handler == StartMet \/ StartLate \/ Undone \/ StopMet \/ StopLate
PostStopAgain == PostStop /\ Aggregate # "normal"
Fairness == /\ WF_vars(Handler) /\ WF_vars(EnoughOfIt) /\ SF_vars(PostStopAgain)
            /\ \A s \in Scanners : WF_vars(TakeStart(s) \/ TakeStop(s)) /\ SF_vars(Status(s)) /\ WF_vars(ReadLine(s))
FairSpec == Spec /\ Fairness

-----------------------------------------------------------------------------
\* A session that is answered "started" is one every awaited scanner is armed
\* for, unless it has reset: no acknowledgement of an earlier session, and no
\* status older than it, is taken for one of it (http_status.c:455).
AnsweredTruly ==
  told' = "started" /\ told # "started"
    => \A s \in handler.who : armed[s] = handler.id \/ s \in fell
StartedMeansArmed == [][AnsweredTruly]_vars

\* An operator who wants the session over gets there: in the end the node and
\* every scanner are back to normal, whatever was lost, late or reset.
AllNormal == node = Normal /\ \A s \in Scanners : armed[s] = Normal
CalibrationEnds == <>[]AllNormal
-----------------------------------------------------------------------------
(* Why "started" is true: identities only grow, so whatever names the one   *)
(* asked for now was said after the scanner took it, and nothing is sent    *)
(* after it while the handler waits.                                        *)
Begun == Starts - left.starts
Ids == 0..Begun
TypeOK ==
    /\ left \in [starts : 0..Starts, losses : Nat, resets : Nat, busy : Nat]
    /\ handler \in [at : {"idle", "start", "undo", "stop"}, id : Ids, who : SUBSET Scanners]
    /\ armed \in [Scanners -> Ids] /\ info \in [Scanners -> [mode : Ids, acked : BOOLEAN]]
    /\ heard \subseteq Scanners /\ fell \subseteq Scanners
    /\ down \in [Scanners -> Seq(Ids)]
    /\ up \in [Scanners -> Seq([mode : Ids, acked : BOOLEAN])]
OnlyLast(s, id) == \A i \in DOMAIN down[s] : down[s][i] = id => i = Len(down[s])
SaysSo(s, id) ==
    /\ OnlyLast(s, id)
    /\ armed[s] = id => down[s] = <<>>
    /\ \A i \in DOMAIN up[s] : up[s][i].mode = id => armed[s] = id
    /\ info[s].mode = id => armed[s] = id
StartedInv ==
    handler.at = "start" =>
        /\ handler.id = Begun /\ handler.id # Normal
        /\ \A s \in Scanners \ fell : SaysSo(s, handler.id)
=============================================================================
