---------------------------- MODULE ExclusiveUse ----------------------------
(***************************************************************************)
(* What the operation token and the lease promise their callers: at most   *)
(* one task is inside a firmware operation; a task inside one may hold the *)
(* scanner UARTs for itself, and gives them up before the next task gets   *)
(* in; once the badge is closed for a restart nobody gets in until it has  *)
(* restarted.                                                              *)
(***************************************************************************)
CONSTANTS Tasks, NoTask

VARIABLES
    owner,   \* the task inside an operation
    stream,  \* whether it has the UARTs to itself
    closed   \* nobody may enter until the restart

Init == owner = NoTask /\ stream = FALSE /\ closed = FALSE

Enter(t) ==
    /\ owner = NoTask /\ ~closed
    /\ owner' = t
    /\ UNCHANGED <<stream, closed>>

StartStream ==
    /\ owner # NoTask /\ ~stream
    /\ stream' = TRUE
    /\ UNCHANGED <<owner, closed>>

StopStream ==
    /\ stream
    /\ stream' = FALSE
    /\ UNCHANGED <<owner, closed>>

\* Leaving gives up the UARTs with it.
Leave ==
    /\ owner # NoTask
    /\ owner' = NoTask /\ stream' = FALSE
    /\ UNCHANGED closed

Close == closed' = TRUE /\ UNCHANGED <<owner, stream>>

Restart == owner' = NoTask /\ stream' = FALSE /\ closed' = FALSE

Next ==
    \/ \E t \in Tasks : Enter(t)
    \/ StartStream \/ StopStream \/ Leave \/ Close \/ Restart

Spec == Init /\ [][Next]_<<owner, stream, closed>>
=============================================================================
