--------------------------- MODULE OperationToken ---------------------------
(***************************************************************************)
(* The exclusive firmware-operation token of the uplink MCU                *)
(* (esp32/shared/firmware_operation_token.c).  Every function of that file *)
(* is called under one spinlock (s_operation_lock of fw_store.c), so each  *)
(* is one atomic step: here a guard "CanX" over the token record and the   *)
(* record the call leaves, "X".  The modules that extend this one keep the *)
(* record in a variable and interleave the callers.                        *)
(***************************************************************************)
EXTENDS Naturals

CONSTANTS
    Owners,    \* the valid values of fw_operation_owner_t
    NoOwner,   \* FW_OPERATION_OWNER_NONE
    GenMax,    \* UINT32_MAX: the last generation that is ever issued
    EpochLast, \* UINT32_MAX: the epoch after which the counter wraps to 1
    EpochMax   \* bound: ownership and inhibit edges counted in one boot

ASSUME OwnersAssumption == NoOwner \notin Owners
ASSUME GenMaxAssumption == GenMax \in Nat \ {0}
\* Half the counter's span: the distance over which epochs are ordered.
ASSUME EpochAssumption ==
    EpochLast \in Nat /\ EpochMax \in Nat \ {0} /\ 2 * EpochMax <= EpochLast

OperationState ==
    [active : BOOLEAN, owner : Owners \cup {NoOwner}, generation : 0..GenMax,
     epoch : 0..EpochLast, lease : BOOLEAN, reserved : BOOLEAN,
     inhibited : BOOLEAN, preempt : BOOLEAN]

InitOperation ==
    [active |-> FALSE, owner |-> NoOwner, generation |-> 0, epoch |-> 0,
     lease |-> FALSE, reserved |-> FALSE, inhibited |-> FALSE, preempt |-> FALSE]

\* A caller's copy of the token; a zeroed copy is not valid.
Token == [owner : Owners \cup {NoOwner}, generation : 0..GenMax]
NoToken == [owner |-> NoOwner, generation |-> 0]

TokenMatches(s, tok) ==
    /\ s.active
    /\ tok # NoToken
    /\ tok.owner = s.owner
    /\ tok.generation # 0
    /\ tok.generation = s.generation

NextEpoch(e) == IF e = EpochLast THEN 1 ELSE e + 1

\* Whether the bound leaves room for one more edge.
Room(s) == s.epoch < EpochMax

-----------------------------------------------------------------------------
\* Faulty variants the properties must notice stand before what they alter.
CanBeginUnlimited(s) == ~s.active /\ ~s.reserved /\ ~s.preempt
CanBeginWhilePreempted(s) == ~s.active /\ ~s.reserved /\ s.generation # GenMax

CanBegin(s) ==
    /\ ~s.active
    /\ ~s.reserved
    /\ ~s.preempt
    /\ s.generation # GenMax

Begin(s, o) ==
    [s EXCEPT !.active = TRUE, !.owner = o, !.generation = @ + 1,
              !.epoch = NextEpoch(@), !.lease = FALSE, !.inhibited = TRUE]

\* The token fw_operation_state_try_begin hands to its caller.
IssuedToken(s, o) == [owner |-> o, generation |-> s.generation + 1]

CanBeginQuiesced(s, acknowledged) ==
    /\ s.inhibited
    /\ s.epoch = acknowledged
    /\ CanBegin(s)

CanAttachLease(s, tok) == TokenMatches(s, tok) /\ ~s.lease
AttachLease(s) == [s EXCEPT !.lease = TRUE]

CanEndAnyGeneration(s, tok) ==
    s.active /\ tok # NoToken /\ tok.owner = s.owner

CanEnd(s, tok) == TokenMatches(s, tok)
End(s) ==
    [s EXCEPT !.active = FALSE, !.owner = NoOwner,
              !.epoch = NextEpoch(@), !.lease = FALSE]

CanReserveWhileActive(s) == ~s.reserved /\ ~s.preempt

CanReserveRestart(s) == ~s.active /\ ~s.reserved /\ ~s.preempt
ReserveRestart(s) == [s EXCEPT !.reserved = TRUE, !.epoch = NextEpoch(@)]

\* The requests whose refusal changes nothing: the callers ignore the result.
RequestInhibit(s) ==
    IF s.inhibited THEN s
    ELSE [s EXCEPT !.inhibited = TRUE, !.epoch = NextEpoch(@)]

RequestPreemption(s) ==
    IF s.reserved \/ (s.preempt /\ s.inhibited) THEN s
    ELSE [s EXCEPT !.preempt = TRUE, !.inhibited = TRUE, !.epoch = NextEpoch(@)]

ClearInhibit(s) ==
    IF s.active \/ s.preempt \/ ~s.inhibited THEN s
    ELSE [s EXCEPT !.inhibited = FALSE, !.epoch = NextEpoch(@)]
=============================================================================
