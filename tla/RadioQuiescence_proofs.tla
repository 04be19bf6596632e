------------------------ MODULE RadioQuiescence_proofs ------------------------
(***************************************************************************)
(* What is proved of the radio and firmware work, for any callers, bounds  *)
(* and faults explored: while an operation is active the radio is silent,  *)
(* and the grant of a maintenance reboot stays true.  The argument is      *)
(* about epochs.  Every edge of the token counts one up, so a party that   *)
(* acts on a copy acts on the token itself exactly when the epochs agree,  *)
(* and the gate, which refuses what is older, keeps the newest inhibit.    *)
(***************************************************************************)
EXTENDS RadioQuiescence, VhciPolicy_proofs

\* Copies of the epoch are never ahead of the token's, which counts up to two
\* past the bound: for the end of an operation and for a preemption.
EpochOrder ==
    /\ op.epoch <= EpochMax + 2
    /\ op.active \/ ~op.preempt => op.epoch <= EpochMax + 1
    /\ op.active /\ ~op.preempt => op.epoch <= EpochMax
    /\ loop.seen.epoch <= op.epoch /\ loop.epoch <= op.epoch
    /\ gate.epoch <= op.epoch
    /\ \A c \in Clients : client[c].epoch <= op.epoch
    /\ prepare.epoch <= op.epoch

OpShape ==
    /\ op.preempt => op.inhibited
    /\ op.active => op.inhibited

\* The radio before its start, during it, and told of the gate.
StartShape ==
    /\ startup = "absent" =>
         /\ pol = InitPolicy /\ slot = NoEvent /\ overflow = FALSE
         /\ cmds = << >> /\ radioOn = FALSE
    /\ startup = "starting" <=> loop.pc = "wait"
    /\ startup = "starting" => pol.state = "INIT_CONTROLLER"
    /\ startup # "absent" /\ gate.observed /\ gate.inhibited => pol.inhibited
    /\ ~gate.observed => gate.epoch = 0 /\ startup = "absent"
    /\ loop.pc = "idle" => loop.tries < SampleAttempts

\* A permit for the token's own epoch is one that the token gives.
PermitIsCurrent ==
    /\ loop.pc = "apply" /\ ~loop.yield /\ loop.epoch = op.epoch =>
         ~op.active /\ ~op.inhibited
    /\ gate.observed /\ ~gate.inhibited /\ gate.epoch = op.epoch =>
         ~op.active /\ ~op.inhibited

Quiet ==
    /\ gate.observed /\ gate.inhibited /\ startup # "starting"
    /\ startup = "absent" \/ Quiesced(pol)

\* The quiet a caller has seen still holds when it claims at that epoch.
ClaimIsQuiet ==
    \A c \in Clients :
       client[c].pc = "claim" /\ client[c].epoch = op.epoch /\ op.inhibited =>
          Quiet /\ gate.epoch = op.epoch

\* While an operation is active no permit on its way is newer than the gate.
ActiveIsQuiet ==
    op.active =>
       /\ Quiet
       /\ loop.pc = "apply" /\ ~loop.yield => loop.epoch <= gate.epoch

\* The steps of a preparation after the mutex.
Latched ==
    prepare.pc \in {"resample", "confirm", "verify", "ask"} \/ prepare.result # "none"
Frozen == prepare.pc \in {"confirm", "verify", "ask"} \/ prepare.result # "none"

GrantShape ==
    /\ prepare.pc # "idle" \/ prepare.result # "none" => op.preempt
    /\ Latched => suspend /\ worker = "SUSPENDED"
    /\ Frozen => ~op.active
    /\ prepare.pc = "ask" => prepare.epoch = op.epoch
    /\ prepare.result = "quiesced" => Quiet /\ gate.epoch = op.epoch

\* A result ends the preparation.
ResultIsLast == prepare.pc = "idle" \/ prepare.result = "none"

QInv ==
    /\ QTypeOK /\ RadioInv /\ EpochOrder /\ OpShape /\ StartShape
    /\ PermitIsCurrent /\ ClaimIsQuiet /\ ActiveIsQuiet /\ GrantShape /\ ResultIsLast

-----------------------------------------------------------------------------
(* Numbers.                                                                *)
LEMMA Span ==
    /\ EpochMax \in Nat /\ EpochLast \in Nat
    /\ 2 * EpochMax + 4 <= EpochLast
BY EpochAssumption, SpanAssumption DEF EpochAssumption, SpanAssumption

\* Within the span, newer means greater: badge_con_vhci_epoch_gate orders the
\* epochs of a boot as they were counted.
LEMMA GateOrder ==
    ASSUME NEW e \in 0..EpochMax + 2, NEW g \in 0..EpochMax + 2
    PROVE  IsNewer(e, g) <=> e > g
BY Span DEF IsNewer, Distance

-----------------------------------------------------------------------------
(* The token: each of its edges counts one up, and a preempted token that  *)
(* is not active never changes again.                                      *)
EpochBound(s) ==
    /\ s.epoch <= EpochMax + 2
    /\ s.active \/ ~s.preempt => s.epoch <= EpochMax + 1
    /\ s.active /\ ~s.preempt => s.epoch <= EpochMax

OpEdge ==
    /\ op' \in OperationState
    /\ op' = op \/ op'.epoch = op.epoch + 1
    /\ EpochBound(op') /\ OpShape'
    /\ op.preempt => op'.preempt
    /\ op.preempt /\ ~op.active => op' = op
    /\ op'.active => op.active

LEMMA CountsUp ==
    ASSUME NEW s \in OperationState, s.epoch <= EpochMax + 1
    PROVE  NextEpoch(s.epoch) = s.epoch + 1 /\ NextEpoch(s.epoch) \in 0..EpochLast
BY Span DEF NextEpoch, OperationState

\* An edge, told by the fields that count.
LEMMA EdgeFields ==
    ASSUME QInv, op' \in OperationState, op'.epoch = op.epoch + 1,
           op.preempt => op.active /\ op'.preempt,
           op'.preempt => op'.inhibited, op'.active => op.active /\ op'.inhibited,
           op.epoch < EpochMax \/ (op.active /\ ~op'.active /\ op'.preempt = op.preempt)
              \/ (~op.preempt /\ op'.preempt /\ op'.active = op.active)
    PROVE  OpEdge
<1>1. op \in OperationState /\ EpochBound(op) /\ OpShape
  BY DEF QInv, QTypeOK, EpochOrder, EpochBound
<1>2. op.epoch \in Nat /\ op'.epoch \in Nat /\ op.active \in BOOLEAN
      /\ op.preempt \in BOOLEAN /\ op'.active \in BOOLEAN /\ op'.preempt \in BOOLEAN
  BY <1>1 DEF OperationState
<1>3. EpochBound(op')
  BY <1>1, <1>2, Span DEF EpochBound
<1> QED BY <1>1, <1>2, <1>3 DEF OpEdge, OpShape

LEMMA NoEdge ==
    ASSUME QInv, op' = op
    PROVE  OpEdge
BY DEF QInv, QTypeOK, EpochOrder, EpochBound, OpEdge, OpShape

LEMMA ReconcileEdge ==
    ASSUME QInv, SetOp(RequestInhibit(op)) \/ SetOp(ClearInhibit(op))
    PROVE  OpEdge
<1>1. op \in OperationState /\ OpShape
  BY DEF QInv, QTypeOK
<1>2. CASE op' # op
  <2>1. Room(op) /\ (op' = RequestInhibit(op) \/ op' = ClearInhibit(op))
    BY <1>2 DEF SetOp, Bounded
  <2>2. op.epoch < EpochMax /\ NextEpoch(op.epoch) = op.epoch + 1
        /\ NextEpoch(op.epoch) \in 0..EpochLast
    BY <1>1, <2>1, CountsUp, Span DEF Room, OperationState
  <2>3. CASE op' = RequestInhibit(op)
    <3>1. ~op.inhibited /\ op' = [op EXCEPT !.inhibited = TRUE, !.epoch = NextEpoch(@)]
      BY <1>2, <2>3 DEF RequestInhibit
    <3>2. op' \in OperationState
      BY <1>1, <2>2, <3>1 DEF OperationState
    <3>3. /\ op'.epoch = op.epoch + 1 /\ op'.active = op.active
          /\ op'.preempt = op.preempt /\ op'.inhibited = TRUE
      BY <1>1, <2>2, <3>1 DEF OperationState
    <3> QED BY <1>1, <2>2, <3>1, <3>2, <3>3, EdgeFields DEF OpShape
  <2>4. CASE op' = ClearInhibit(op)
    <3>1. /\ ~op.active /\ ~op.preempt
          /\ op' = [op EXCEPT !.inhibited = FALSE, !.epoch = NextEpoch(@)]
      BY <1>2, <2>4 DEF ClearInhibit
    <3>2. op' \in OperationState
      BY <1>1, <2>2, <3>1 DEF OperationState
    <3>3. /\ op'.epoch = op.epoch + 1 /\ op'.active = op.active
          /\ op'.preempt = op.preempt
      BY <1>1, <2>2, <3>1 DEF OperationState
    <3> QED BY <2>2, <3>1, <3>2, <3>3, EdgeFields
  <2> QED BY <2>1, <2>3, <2>4
<1> QED BY <1>2, NoEdge

LEMMA EndEdge ==
    ASSUME QInv, op.active, op' = End(op)
    PROVE  OpEdge
<1>1. op \in OperationState /\ EpochBound(op) /\ OpShape
  BY DEF QInv, QTypeOK, EpochOrder, EpochBound
<1>2. NextEpoch(op.epoch) = op.epoch + 1 /\ NextEpoch(op.epoch) \in 0..EpochLast
  BY <1>1, CountsUp, Span DEF EpochBound, OperationState
<1>3. op' \in OperationState
  BY <1>1, <1>2 DEF End, OperationState
<1>4. /\ op'.epoch = op.epoch + 1 /\ op'.active = FALSE
      /\ op'.preempt = op.preempt /\ op'.inhibited = op.inhibited
  BY <1>1, <1>2 DEF End, OperationState
<1> QED BY <1>1, <1>3, <1>4, EdgeFields DEF OpShape

LEMMA ReserveEdge ==
    ASSUME QInv, CanReserveRestart(op), Room(op), op' = ReserveRestart(op)
    PROVE  OpEdge
<1>1. op \in OperationState /\ OpShape /\ ~op.active /\ ~op.preempt
  BY DEF QInv, QTypeOK, CanReserveRestart
<1>2. op.epoch < EpochMax /\ NextEpoch(op.epoch) = op.epoch + 1
      /\ NextEpoch(op.epoch) \in 0..EpochLast
  BY <1>1, CountsUp, Span DEF Room, OperationState
<1>3. op' \in OperationState
  BY <1>1, <1>2 DEF ReserveRestart, OperationState
<1>4. /\ op'.epoch = op.epoch + 1 /\ op'.active = op.active /\ op'.preempt = op.preempt
  BY <1>1, <1>2 DEF ReserveRestart, OperationState
<1> QED BY <1>1, <1>2, <1>3, <1>4, EdgeFields

LEMMA PreemptEdge ==
    ASSUME QInv, op' = RequestPreemption(op)
    PROVE  OpEdge /\ (~op.reserved => op'.preempt)
<1>1. op \in OperationState /\ EpochBound(op) /\ OpShape
  BY DEF QInv, QTypeOK, EpochOrder, EpochBound
<1>2. CASE op' = op
  <2>1. ~op.reserved => op.preempt
    BY <1>1, <1>2 DEF RequestPreemption, OperationState
  <2> QED BY <1>2, <2>1, NoEdge
<1>3. CASE op' # op
  <2>1. /\ ~op.preempt
        /\ op' = [op EXCEPT !.preempt = TRUE, !.inhibited = TRUE, !.epoch = NextEpoch(@)]
    BY <1>1, <1>3 DEF RequestPreemption, OpShape
  <2>2. NextEpoch(op.epoch) = op.epoch + 1 /\ NextEpoch(op.epoch) \in 0..EpochLast
    BY <1>1, <2>1, CountsUp, Span DEF EpochBound, OperationState
  <2>3. op' \in OperationState
    BY <1>1, <2>1, <2>2 DEF OperationState
  <2>4. /\ op'.epoch = op.epoch + 1 /\ op'.active = op.active
        /\ op'.preempt = TRUE /\ op'.inhibited = TRUE
    BY <1>1, <2>1, <2>2 DEF OperationState
  <2> QED BY <1>1, <2>1, <2>3, <2>4, EdgeFields
<1> QED BY <1>2, <1>3

\* An edge that is nobody's begin disturbs no part of the invariant.
LEMMA EdgeKeeps ==
    ASSUME QInv, OpEdge, QTypeOK',
           UNCHANGED <<radioVars, gate, startup, loop, prepare>>,
           \A c \in Clients : \/ client'[c] = client[c]
                              \/ /\ client'[c].pc # "claim"
                                 /\ client'[c].epoch <= op'.epoch,
           Latched => suspend' /\ worker' = "SUSPENDED"
    PROVE  QInv'
<1>1. /\ op \in OperationState /\ op' \in OperationState
      /\ op.epoch \in Nat /\ op'.epoch \in Nat
      /\ op' = op \/ op'.epoch = op.epoch + 1
  BY DEF QInv, QTypeOK, OpEdge, OperationState
<1>2. RadioInv'
  BY DEF QInv, RadioInv, TypeOK, Coherent, Answered, Asks, radioVars
<1>3. EpochOrder'
  BY <1>1 DEF QInv, EpochOrder, OpEdge, EpochBound, QTypeOK, OperationState
<1>4. StartShape'
  BY DEF QInv, StartShape, radioVars
<1>5. PermitIsCurrent'
  BY <1>1 DEF QInv, PermitIsCurrent, EpochOrder, QTypeOK
<1>6. Quiet' <=> Quiet
  BY DEF Quiet, Quiesced, radioVars
<1>7. ClaimIsQuiet'
  BY <1>1, <1>6 DEF QInv, ClaimIsQuiet, EpochOrder, QTypeOK
<1>8. ActiveIsQuiet'
  BY <1>6 DEF QInv, ActiveIsQuiet, OpEdge
<1>9. GrantShape'
  BY <1>6 DEF QInv, GrantShape, Latched, Frozen, OpEdge
<1> QED BY <1>2, <1>3, <1>4, <1>5, <1>7, <1>8, <1>9 DEF QInv, ResultIsLast, OpEdge

-----------------------------------------------------------------------------
(* The callers of fw_store_operation_try_begin.                            *)
ClientState == [pc : ClientPcs, epoch : 0..EpochLast, token : Token]

LEMMA ClientMoves ==
    ASSUME QTypeOK, NEW c \in Clients, NEW r \in ClientState,
           client' = [client EXCEPT ![c] = r]
    PROVE  /\ client' \in [Clients -> ClientState] /\ client'[c] = r
           /\ \A d \in Clients : d # c => client'[d] = client[d]
BY DEF QTypeOK, ClientState

LEMMA ZeroEpoch == 0 \in 0..EpochLast
BY Span

LEMMA IdleClientType == IdleClient \in ClientState /\ IdleClient.epoch = 0 /\ IdleClient.pc = "idle"
<1>1. NoToken \in Token
  <2>1. 0 \in 0..GenMax
    BY GenMaxAssumption DEF GenMaxAssumption
  <2> QED BY <2>1 DEF NoToken, Token
<1> QED BY <1>1, ZeroEpoch DEF IdleClient, ClientState, ClientPcs

\* Only the token and one caller change, and the caller claims nothing.
LEMMA CallerEdge ==
    ASSUME QInv, OpEdge, NEW c \in Clients, NEW r \in ClientState,
           client' = [client EXCEPT ![c] = r], r.pc # "claim", r.epoch <= op'.epoch,
           UNCHANGED <<radioVars, holder, safe, suspend, worker, gate, startup, loop,
                       prepare>>
    PROVE  QInv'
<1>1. QTypeOK
  BY DEF QInv
<1>2. /\ client' \in [Clients -> ClientState] /\ client'[c] = r
      /\ \A d \in Clients : d # c => client'[d] = client[d]
  BY <1>1, ClientMoves
<1>3. QTypeOK'
  BY <1>1, <1>2 DEF QTypeOK, TypeOK, OpEdge, ClientState, radioVars
<1>4. \A d \in Clients : \/ client'[d] = client[d]
                         \/ client'[d].pc # "claim" /\ client'[d].epoch <= op'.epoch
  BY <1>2
<1>5. Latched => suspend' /\ worker' = "SUSPENDED"
  BY DEF QInv, GrantShape
<1> QED BY <1>3, <1>4, <1>5, EdgeKeeps

LEMMA KeepsRequestBegin ==
    ASSUME QInv, NEW c \in Clients, RequestBegin(c)
    PROVE  QInv'
<1>1. OpEdge
  BY ReconcileEdge DEF RequestBegin
<1> DEFINE r == [client[c] EXCEPT !.pc = "request", !.epoch = op'.epoch]
<1>2. client' = [client EXCEPT ![c] = r] /\ client[c] \in ClientState
  BY DEF RequestBegin, QInv, QTypeOK, ClientState
<1>3. r \in ClientState /\ r.pc = "request" /\ r.epoch = op'.epoch
  BY <1>1, <1>2 DEF ClientState, ClientPcs, OpEdge, OperationState
<1>4. r.epoch <= op'.epoch
  BY <1>1, <1>3 DEF OpEdge, OperationState
<1> HIDE DEF r
<1> QED BY <1>1, <1>2, <1>3, <1>4, CallerEdge DEF RequestBegin

LEMMA KeepsEndOperation ==
    ASSUME QInv, NEW c \in Clients, EndOperation(c)
    PROVE  QInv'
<1>1. OpEdge
  BY EndEdge DEF EndOperation, CanEnd, TokenMatches
<1> DEFINE r == [IdleClient EXCEPT !.pc = "reconcile"]
<1>2. client' = [client EXCEPT ![c] = r]
  BY DEF EndOperation
<1>3. r \in ClientState /\ r.pc = "reconcile" /\ r.epoch = 0
  BY IdleClientType DEF ClientState, ClientPcs
<1>4. r.epoch <= op'.epoch
  BY <1>1, <1>3 DEF OpEdge, OperationState
<1> HIDE DEF r
<1> QED BY <1>1, <1>2, <1>3, <1>4, CallerEdge DEF EndOperation

LEMMA KeepsReconcileAfterEnd ==
    ASSUME QInv, NEW c \in Clients, ReconcileAfterEnd(c)
    PROVE  QInv'
<1>1. OpEdge
  BY ReconcileEdge DEF ReconcileAfterEnd, Reconciled
<1>2. client' = [client EXCEPT ![c] = IdleClient]
  BY DEF ReconcileAfterEnd, GiveUp
<1>3. IdleClient.epoch <= op'.epoch
  BY <1>1, IdleClientType DEF OpEdge, OperationState
<1> QED BY <1>1, <1>2, <1>3, IdleClientType, CallerEdge DEF ReconcileAfterEnd

LEMMA KeepsGivingUp ==
    ASSUME QInv, NEW c \in Clients, GiveUp(c),
           UNCHANGED <<radioVars, opVars, gate, startup, loop, prepare>>
    PROVE  QInv'
<1>1. OpEdge
  BY NoEdge DEF opVars
<1>2. IdleClient.epoch <= op'.epoch
  BY <1>1, IdleClientType DEF OpEdge, OperationState
<1> QED BY <1>1, <1>2, IdleClientType, CallerEdge DEF GiveUp, opVars

LEMMA GoesOn ==
    ASSUME QInv, NEW c \in Clients, NEW pc \in ClientPcs, Goto(c, pc)
    PROVE  /\ client' \in [Clients -> ClientState]
           /\ client'[c].pc = pc /\ client'[c].epoch = client[c].epoch
           /\ \A d \in Clients : d # c => client'[d] = client[d]
<1> DEFINE r == [client[c] EXCEPT !.pc = pc]
<1>1. client' = [client EXCEPT ![c] = r] /\ client[c] \in ClientState /\ QTypeOK
  BY DEF Goto, QInv, QTypeOK, ClientState
<1>2. r \in ClientState /\ r.pc = pc /\ r.epoch = client[c].epoch
  BY <1>1 DEF ClientState
<1> HIDE DEF r
<1> QED BY <1>1, <1>2, ClientMoves

\* The check finds the radio quiet at the caller's epoch: if that is the
\* token's, the claim may rely on it.
LEMMA KeepsCheckQuiet ==
    ASSUME QInv, NEW c \in Clients, CheckQuiet(c)
    PROVE  QInv'
<1>1. CASE GiveUp(c)
  BY <1>1, KeepsGivingUp DEF CheckQuiet
<1>2. CASE RadioQuietAt(client[c].epoch) /\ Goto(c, "claim")
  <2>1. /\ client' \in [Clients -> ClientState]
        /\ client'[c].pc = "claim" /\ client'[c].epoch = client[c].epoch
        /\ \A d \in Clients : d # c => client'[d] = client[d]
    BY <1>2, GoesOn DEF ClientPcs
  <2>2. UNCHANGED <<radioVars, opVars, gate, startup, loop, prepare>>
    BY DEF CheckQuiet
  <2>3. QTypeOK'
    BY <2>1, <2>2 DEF QInv, QTypeOK, TypeOK, radioVars, opVars, ClientState
  <2>4. RadioInv' /\ EpochOrder' /\ OpShape' /\ StartShape' /\ PermitIsCurrent'
    BY <2>1, <2>2 DEF QInv, RadioInv, TypeOK, Coherent, Answered, Asks, EpochOrder,
       OpShape, StartShape, PermitIsCurrent, radioVars, opVars
  <2>5. (Quiet' <=> Quiet) /\ (RadioQuietAt(client[c].epoch) => Quiet)
    BY <2>2 DEF Quiet, Quiesced, RadioQuietAt, radioVars
  <2>6. ClaimIsQuiet'
    BY <1>2, <2>1, <2>2, <2>5 DEF QInv, ClaimIsQuiet, RadioQuietAt, opVars
  <2>7. ActiveIsQuiet' /\ GrantShape'
    BY <2>2, <2>5 DEF QInv, ActiveIsQuiet, GrantShape, Latched, Frozen, opVars
  <2> QED BY <2>2, <2>3, <2>4, <2>6, <2>7 DEF QInv, ResultIsLast
<1> QED BY <1>1, <1>2 DEF CheckQuiet

\* The claim: the radio is quiet, and every permit on its way is older.
LEMMA KeepsClaim ==
    ASSUME QInv, NEW c \in Clients, Claim(c)
    PROVE  QInv'
<1>1. CASE ~CanBeginQuiesced(op, client[c].epoch)
  <2>1. GiveUp(c) /\ UNCHANGED <<radioVars, opVars, gate, startup, loop, prepare>>
    BY <1>1 DEF Claim, opVars
  <2> QED BY <2>1, KeepsGivingUp
<1>2. CASE CanBeginQuiesced(op, client[c].epoch)
  <2>1. /\ op.inhibited /\ op.epoch = client[c].epoch /\ client[c].pc = "claim"
        /\ ~op.active /\ ~op.reserved /\ ~op.preempt /\ op.generation # GenMax
        /\ Room(op) /\ op' = Begin(op, c)
        /\ client' = [client EXCEPT ![c].pc = "own", ![c].epoch = 0,
                                     ![c].token = IssuedToken(op, c)]
        /\ UNCHANGED <<radioVars, holder, safe, suspend, worker, gate, startup, loop,
                       prepare>>
    BY <1>2 DEF Claim, CanBeginQuiesced, CanBegin
  <2>2. op \in OperationState /\ EpochBound(op) /\ QTypeOK /\ c \in Owners
    BY ClientsAssumption DEF QInv, QTypeOK, EpochOrder, EpochBound, ClientsAssumption
  <2>3. /\ op.epoch < EpochMax /\ NextEpoch(op.epoch) = op.epoch + 1
        /\ NextEpoch(op.epoch) \in 0..EpochLast
    BY <2>1, <2>2, CountsUp, Span DEF Room, OperationState
  <2>4. op.generation + 1 \in 0..GenMax
    BY <2>1, <2>2, GenMaxAssumption DEF OperationState, GenMaxAssumption
  <2>5. op' \in OperationState
    BY <2>1, <2>2, <2>3, <2>4 DEF Begin, OperationState
  <2>6. /\ op'.epoch = op.epoch + 1 /\ op'.active = TRUE /\ op'.inhibited = TRUE
        /\ op'.preempt = op.preempt
    BY <2>1, <2>2, <2>3 DEF Begin, OperationState
  <2> DEFINE r == [client[c] EXCEPT !.pc = "own", !.epoch = 0,
                                    !.token = IssuedToken(op, c)]
  <2>7. client' = [client EXCEPT ![c] = r] /\ client[c] \in ClientState
    BY <2>1, <2>2 DEF QTypeOK, ClientState
  <2>8. IssuedToken(op, c) \in Token
    BY <2>2, <2>4 DEF IssuedToken, Token
  <2>9. r \in ClientState /\ r.pc = "own" /\ r.epoch = 0
    BY <2>7, <2>8, ZeroEpoch DEF ClientState, ClientPcs
  <2> HIDE DEF r
  <2>10. /\ client' \in [Clients -> ClientState] /\ client'[c] = r
         /\ \A d \in Clients : d # c => client'[d] = client[d]
    BY <2>2, <2>7, <2>9, ClientMoves
  <2>11. QTypeOK'
    BY <2>1, <2>2, <2>5, <2>10 DEF QTypeOK, TypeOK, radioVars, ClientState
  <2>12. RadioInv' /\ StartShape'
    BY <2>1 DEF QInv, RadioInv, TypeOK, Coherent, Answered, Asks, StartShape, radioVars
  <2>13. op.epoch \in Nat /\ op'.epoch \in Nat /\ op.preempt = FALSE
    BY <2>1, <2>2, <2>5 DEF OperationState
  <2>14. EpochOrder' /\ OpShape'
    BY <2>1, <2>3, <2>6, <2>9, <2>10, <2>13, Span
       DEF QInv, EpochOrder, OpShape, QTypeOK, ClientState, OperationState
  <2>15. Quiet /\ gate.epoch = op.epoch /\ (Quiet' <=> Quiet)
    BY <2>1 DEF QInv, ClaimIsQuiet, Quiet, Quiesced, radioVars
  <2>16. PermitIsCurrent'
    BY <2>1, <2>6, <2>13 DEF QInv, PermitIsCurrent, EpochOrder, QTypeOK
  <2>17. ClaimIsQuiet'
    BY <2>1, <2>6, <2>9, <2>10, <2>13 DEF QInv, ClaimIsQuiet, EpochOrder, QTypeOK
  <2>18. ActiveIsQuiet'
    BY <2>1, <2>15 DEF QInv, ActiveIsQuiet, EpochOrder
  <2>19. GrantShape'
    BY <2>1, <2>13 DEF QInv, GrantShape, Latched, Frozen
  <2> QED BY <2>1, <2>11, <2>12, <2>14, <2>16, <2>17, <2>18, <2>19 DEF QInv, ResultIsLast
<1> QED BY <1>1, <1>2

-----------------------------------------------------------------------------
(* The coordinator.                                                        *)
LEMMA KeepsBeginSave ==
    ASSUME QInv, BeginSave
    PROVE  QInv'
<1>1. OpEdge
  BY NoEdge DEF BeginSave
<1>2. QTypeOK'
  BY DEF QInv, QTypeOK, TypeOK, BeginSave, unchangedByCoordinator, radioVars
<1>3. Latched => suspend' /\ worker' = "SUSPENDED"
  BY DEF QInv, GrantShape, BeginSave
<1> QED BY <1>1, <1>2, <1>3, EdgeKeeps DEF BeginSave, unchangedByCoordinator

LEMMA KeepsEndSave ==
    ASSUME QInv, EndSave
    PROVE  QInv'
<1>1. OpEdge
  BY ReconcileEdge DEF EndSave, Reconciled
<1>2. QTypeOK'
  <2>1. safe' \in BOOLEAN /\ holder' = "free"
    BY DEF QInv, QTypeOK, EndSave
  <2>2. UNCHANGED <<unchangedByCoordinator, suspend, worker>>
    BY DEF EndSave
  <2> QED BY <1>1, <2>1, <2>2
          DEF QInv, QTypeOK, TypeOK, unchangedByCoordinator, radioVars, OpEdge
<1>3. Latched => suspend' /\ worker' = "SUSPENDED"
  BY DEF QInv, GrantShape, EndSave
<1> QED BY <1>1, <1>2, <1>3, EdgeKeeps DEF EndSave, unchangedByCoordinator

LEMMA KeepsStartWorker ==
    ASSUME QInv, StartWorker
    PROVE  QInv'
<1>1. OpEdge
  BY ReconcileEdge, NoEdge DEF StartWorker
<1>2. QTypeOK'
  BY <1>1 DEF QInv, QTypeOK, TypeOK, StartWorker, unchangedByCoordinator, radioVars, OpEdge
<1>3. Latched => suspend' /\ worker' = "SUSPENDED"
  BY DEF QInv, GrantShape, StartWorker
<1> QED BY <1>1, <1>2, <1>3, EdgeKeeps DEF StartWorker, unchangedByCoordinator

LEMMA KeepsStopWorker ==
    ASSUME QInv, StopWorker
    PROVE  QInv'
<1>1. OpEdge
  BY ReconcileEdge DEF StopWorker, Reconciled
<1>2. QTypeOK'
  BY <1>1 DEF QInv, QTypeOK, TypeOK, StopWorker, unchangedByCoordinator, radioVars, OpEdge
<1>3. Latched => suspend' /\ worker' = "SUSPENDED"
  BY DEF QInv, GrantShape, StopWorker
<1> QED BY <1>1, <1>2, <1>3, EdgeKeeps DEF StopWorker, unchangedByCoordinator

LEMMA KeepsReserveRecovery ==
    ASSUME QInv, ReserveRecovery
    PROVE  QInv'
<1>1. OpEdge
  BY ReserveEdge DEF ReserveRecovery
<1>2. QTypeOK'
  BY <1>1 DEF QInv, QTypeOK, TypeOK, ReserveRecovery, unchangedByCoordinator, radioVars,
              OpEdge
<1>3. Latched => suspend' /\ worker' = "SUSPENDED"
  BY DEF QInv, GrantShape, ReserveRecovery
<1> QED BY <1>1, <1>2, <1>3, EdgeKeeps DEF ReserveRecovery, unchangedByCoordinator

-----------------------------------------------------------------------------
(* The display loop up to the gate: only its own variable changes.         *)
LoopState == [pc : LoopPcs, seen : OperationState, tries : 0..SampleAttempts,
              safe : BOOLEAN, epoch : 0..EpochLast, yield : BOOLEAN]

\* Whatever the loop has sampled or decided is not ahead of the token, and a
\* permit it has decided on is the token's when their epochs agree.
LEMMA LoopKeeps ==
    ASSUME QInv, loop' \in LoopState,
           UNCHANGED <<radioVars, opVars, gate, startup, client, prepare>>,
           loop.pc # "wait", loop'.pc # "wait",
           loop'.seen.epoch <= op.epoch, loop'.epoch <= op.epoch,
           loop'.pc = "idle" => loop'.tries < SampleAttempts,
           loop'.pc = "apply" /\ ~loop'.yield =>
              loop'.epoch = op.epoch /\ ~op.active /\ ~op.inhibited
    PROVE  QInv'
<1>1. QTypeOK'
  BY DEF QInv, QTypeOK, TypeOK, radioVars, opVars, LoopState
<1>2. RadioInv' /\ OpShape'
  BY DEF QInv, RadioInv, TypeOK, Coherent, Answered, Asks, OpShape, radioVars, opVars
<1>3. EpochOrder'
  BY DEF QInv, EpochOrder, opVars
<1>4. StartShape' /\ PermitIsCurrent'
  BY DEF QInv, StartShape, PermitIsCurrent, radioVars, opVars
<1>5. Quiet' <=> Quiet
  BY DEF Quiet, Quiesced, radioVars
<1>6. ClaimIsQuiet' /\ ActiveIsQuiet' /\ GrantShape'
  BY <1>5 DEF QInv, ClaimIsQuiet, ActiveIsQuiet, GrantShape, Latched, Frozen, opVars
<1> QED BY <1>1, <1>2, <1>3, <1>4, <1>6 DEF QInv, ResultIsLast

LEMMA VisibleType ==
    ASSUME NEW s \in OperationState
    PROVE  /\ Visible(s) \in OperationState /\ Visible(s).epoch = s.epoch
           /\ Visible(s).active = s.active /\ Visible(s).inhibited = s.inhibited
<1>1. 0 \in 0..GenMax
  BY GenMaxAssumption DEF GenMaxAssumption
<1> QED BY <1>1 DEF Visible, OperationState

LEMMA IdleLoopType ==
    /\ IdleLoop \in LoopState /\ IdleLoop.seen.epoch = 0 /\ IdleLoop.tries = 0
    /\ IdleLoop.epoch = 0 /\ IdleLoop.pc = "idle" /\ IdleLoop.yield = TRUE
<1>1. 0 \in 0..GenMax /\ 0 \in 0..SampleAttempts
  BY GenMaxAssumption, ClientsAssumption DEF GenMaxAssumption, ClientsAssumption
<1>2. NoSnapshot \in OperationState /\ NoSnapshot.epoch = 0
  BY <1>1, ZeroEpoch DEF NoSnapshot, InitOperation, OperationState
<1> QED BY <1>1, <1>2, ZeroEpoch DEF IdleLoop, LoopState, LoopPcs

LEMMA DecideType ==
    ASSUME NEW e \in 0..EpochLast, NEW y \in BOOLEAN, Decide(e, y)
    PROVE  /\ loop' \in LoopState /\ loop'.pc = "apply" /\ loop'.epoch = e
           /\ loop'.yield = y /\ loop'.seen.epoch = 0
BY IdleLoopType DEF Decide, LoopState, LoopPcs

LEMMA KeepsSampling ==
    ASSUME QInv, Sample \/ ReadCoordinator \/ Compare \/ SampleFinally
    PROVE  QInv'
<1>1. /\ loop \in LoopState /\ op \in OperationState /\ op.epoch \in 0..EpochLast
      /\ loop.seen \in OperationState /\ loop.seen.epoch \in 0..EpochLast
      /\ loop.tries \in 0..SampleAttempts /\ safe \in BOOLEAN
      /\ loop.safe \in BOOLEAN /\ op.active \in BOOLEAN /\ op.inhibited \in BOOLEAN
      /\ loop.seen.epoch <= op.epoch /\ loop.epoch <= op.epoch /\ 0 <= op.epoch
  BY DEF QInv, QTypeOK, LoopState, EpochOrder, OperationState
<1>2. CASE Sample
  <2> DEFINE l == [loop EXCEPT !.pc = "sampled", !.seen = Visible(op), !.tries = @ + 1]
  <2>1. loop' = l /\ loop.tries + 1 \in 0..SampleAttempts
    BY <1>1, <1>2, ClientsAssumption DEF Sample, QInv, StartShape, ClientsAssumption
  <2>2. Visible(op) \in OperationState /\ Visible(op).epoch = op.epoch
    BY <1>1, VisibleType
  <2>3. l \in LoopState
    BY <1>1, <2>1, <2>2 DEF LoopState, LoopPcs
  <2>4. l.pc = "sampled" /\ l.seen = Visible(op) /\ l.epoch = loop.epoch
    BY <1>1 DEF LoopState
  <2> HIDE DEF l
  <2> QED BY <1>1, <1>2, <2>1, <2>2, <2>3, <2>4, LoopKeeps DEF Sample
<1>3. CASE ReadCoordinator
  <2>1. CASE Decide(loop.seen.epoch, TRUE)
    <3>1. /\ loop' \in LoopState /\ loop'.pc = "apply" /\ loop'.epoch = loop.seen.epoch
          /\ loop'.yield = TRUE /\ loop'.seen.epoch = 0
      BY <1>1, <2>1, DecideType
    <3> QED BY <1>1, <1>3, <3>1, LoopKeeps DEF ReadCoordinator
  <2>2. CASE loop' = [loop EXCEPT !.pc = "compare", !.safe = safe]
    <3>1. loop' \in LoopState
      BY <1>1, <2>2 DEF LoopState, LoopPcs
    <3>2. loop'.pc = "compare" /\ loop'.seen = loop.seen /\ loop'.epoch = loop.epoch
      BY <1>1, <2>2 DEF LoopState
    <3> QED BY <1>1, <1>3, <3>1, <3>2, LoopKeeps DEF ReadCoordinator
  <2> QED BY <1>3, <2>1, <2>2 DEF ReadCoordinator
<1>4. CASE Compare
  <2>1. CASE Visible(op) # loop.seen
    <3> DEFINE next == IF loop.tries < SampleAttempts THEN "idle" ELSE "final"
    <3>1. loop' = [loop EXCEPT !.pc = next, !.seen = NoSnapshot, !.safe = FALSE]
      BY <1>4, <2>1 DEF Compare
    <3>2. next \in LoopPcs /\ next \in {"idle", "final"}
          /\ (next = "idle" => loop.tries < SampleAttempts)
      BY DEF LoopPcs
    <3> HIDE DEF next
    <3>3. NoSnapshot \in OperationState /\ NoSnapshot.epoch = 0
      BY IdleLoopType DEF IdleLoop, LoopState
    <3>4. loop' \in LoopState
      BY <1>1, <3>1, <3>2, <3>3 DEF LoopState
    <3>5. /\ loop'.pc = next /\ loop'.seen = NoSnapshot /\ loop'.epoch = loop.epoch
          /\ loop'.tries = loop.tries
      BY <1>1, <3>1 DEF LoopState
    <3> QED BY <1>1, <1>4, <3>2, <3>3, <3>4, <3>5, LoopKeeps DEF Compare
  <2>2. CASE Visible(op) = loop.seen
    <3> DEFINE y == ~loop.safe \/ op.active \/ op.inhibited
    <3>1. Decide(op.epoch, y) /\ y \in BOOLEAN
      BY <1>1, <1>4, <2>2 DEF Compare
    <3>2. ~y => ~op.active /\ ~op.inhibited
      OBVIOUS
    <3> HIDE DEF y
    <3>3. /\ loop' \in LoopState /\ loop'.pc = "apply" /\ loop'.epoch = op.epoch
          /\ loop'.yield = y /\ loop'.seen.epoch = 0
      BY <1>1, <3>1, DecideType
    <3> QED BY <1>1, <1>4, <3>2, <3>3, LoopKeeps DEF Compare
  <2> QED BY <2>1, <2>2
<1>5. CASE SampleFinally
  <2>1. /\ loop' \in LoopState /\ loop'.pc = "apply" /\ loop'.epoch = op.epoch
        /\ loop'.yield = TRUE /\ loop'.seen.epoch = 0
    BY <1>1, <1>5, DecideType DEF SampleFinally
  <2> QED BY <1>1, <1>5, <2>1, LoopKeeps DEF SampleFinally
<1> QED BY <1>2, <1>3, <1>4, <1>5

-----------------------------------------------------------------------------
(* The gate: what is applied is the loop's decision or a request to be     *)
(* off, and neither undoes a quiet that belongs to the token's epoch.      *)
GateState == [observed : BOOLEAN, epoch : 0..EpochLast, inhibited : BOOLEAN]

\* What every application of a decision leaves so.
GateSound ==
    /\ gate' \in GateState /\ RadioInv' /\ (gate'.observed \/ gate' = gate)
    /\ pol'.state = pol.state /\ (startup = "absent" => pol' = pol)
    /\ gate'.epoch <= op.epoch /\ gate.epoch <= gate'.epoch
    /\ startup # "absent" /\ gate'.observed /\ gate'.inhibited => pol'.inhibited
    /\ gate'.observed /\ ~gate'.inhibited /\ gate'.epoch = op.epoch =>
         ~op.active /\ ~op.inhibited
    /\ Quiet /\ gate.epoch = op.epoch => Quiet' /\ gate'.epoch = op.epoch
    /\ op.active => Quiet'

LEMMA GateUntouched ==
    ASSUME QInv, UNCHANGED <<radioVars, gate, startup>>
    PROVE  GateSound
<1>1. gate \in GateState /\ gate.epoch \in Nat
  BY DEF QInv, QTypeOK, GateState
<1>2. RadioInv'
  BY DEF QInv, RadioInv, TypeOK, Coherent, Answered, Asks, radioVars
<1>3. Quiet' <=> Quiet
  BY DEF Quiet, Quiesced, radioVars
<1> QED BY <1>1, <1>2, <1>3 DEF GateSound, QInv, EpochOrder, StartShape, PermitIsCurrent,
        ActiveIsQuiet, radioVars

LEMMA ToldCoherent ==
    ASSUME NEW inhibit, inhibit \in BOOLEAN, RadioInv,
           pol' = [pol EXCEPT !.inhibited = inhibit],
           UNCHANGED <<slot, overflow, cmds, radioOn>>
    PROVE  /\ RadioInv' /\ pol'.state = pol.state /\ pol'.inhibited = inhibit
           /\ Quiesced(pol') <=> Quiesced(pol)
<1>1. TypeOK /\ Coherent(pol) /\ Answered(pol) /\ pol \in PolicyType
  BY DEF RadioInv, TypeOK
<1>2. SameMachine(pol, pol') /\ pol'.inhibited = inhibit
  BY <1>1 DEF SameMachine, PolicyType
<1>3. Coherent(pol') /\ Answered(pol') /\ (Quiesced(pol) <=> Quiesced(pol'))
  BY <1>1, <1>2, InputsCoherent
<1>4. Coherent(pol)' /\ Answered(pol)'
  BY <1>3 DEF Coherent, Answered, Asks
<1> QED BY <1>1, <1>2, <1>3, <1>4 DEF RadioInv, TypeOK, SameMachine

LEMMA GateApplied ==
    ASSUME NEW e, NEW inhibit, e \in 0..EpochLast, inhibit \in BOOLEAN,
           QInv, ApplyGate(e, inhibit), e <= op.epoch,
           ~inhibit /\ e = op.epoch => ~op.active /\ ~op.inhibited,
           op.active /\ ~inhibit => e <= gate.epoch,
           UNCHANGED <<op, startup, slot, overflow, cmds, radioOn>>
    PROVE  GateSound
<1>1. /\ gate \in GateState /\ gate.epoch \in 0..EpochMax + 2 /\ e \in 0..EpochMax + 2
      /\ op.epoch \in 0..EpochMax + 2 /\ gate.epoch <= op.epoch
  BY Span DEF QInv, QTypeOK, GateState, EpochOrder, OperationState
<1>2. IsNewer(e, gate.epoch) <=> e > gate.epoch
  BY <1>1, GateOrder
<1>3. CASE ~GateAccepts(e, inhibit)
  <2>1. UNCHANGED <<radioVars, gate, startup>>
    BY <1>3 DEF ApplyGate, radioVars
  <2> QED BY <2>1, GateUntouched
<1>4. CASE GateAccepts(e, inhibit)
  <2>1. /\ gate' = [observed |-> TRUE, epoch |-> e, inhibited |-> inhibit]
        /\ startup = "absent" => pol' = pol
        /\ startup # "absent" => pol' = [pol EXCEPT !.inhibited = inhibit]
    BY <1>4 DEF ApplyGate, GateAfter
  <2>2. /\ gate' \in GateState /\ gate'.observed = TRUE /\ gate'.epoch = e
        /\ gate'.inhibited = inhibit
    BY <2>1 DEF GateState
  <2>3. /\ ~gate.observed => gate.epoch = 0
        /\ gate.observed => e > gate.epoch \/ (e = gate.epoch /\ (gate.inhibited => inhibit))
    BY <1>2, <1>4 DEF GateAccepts, QInv, StartShape
  <2>4. gate'.epoch <= op.epoch /\ gate.epoch <= gate'.epoch
    BY <1>1, <2>2, <2>3
  <2>5. /\ RadioInv' /\ pol'.state = pol.state /\ (Quiesced(pol') <=> Quiesced(pol))
        /\ startup # "absent" => pol'.inhibited = inhibit
    <3>1. CASE startup = "absent"
      BY <2>1, <3>1 DEF QInv, RadioInv, TypeOK, Coherent, Answered, Asks
    <3>2. CASE startup # "absent"
      BY <2>1, <3>2, ToldCoherent DEF QInv
    <3> QED BY <3>1, <3>2
  <2>6. Quiet /\ inhibit => Quiet'
    BY <2>2, <2>5 DEF Quiet
  <2>7. Quiet /\ gate.epoch = op.epoch => inhibit /\ gate'.epoch = op.epoch
    BY <1>1, <2>2, <2>3 DEF Quiet
  <2>8. op.active => Quiet /\ inhibit
    BY <1>1, <2>3 DEF QInv, ActiveIsQuiet, Quiet
  <2> QED BY <2>1, <2>2, <2>4, <2>5, <2>6, <2>7, <2>8 DEF GateSound
<1> QED BY <1>3, <1>4

\* What the parties may do beside the gate's change.
LEMMA GateKeeps ==
    ASSUME QInv, GateSound, QTypeOK',
           UNCHANGED <<opVars, startup, slot, overflow, cmds, radioOn>>,
           \/ loop' = loop
           \/ /\ loop.pc = "apply" /\ loop'.pc = "start"
              /\ loop'.seen = loop.seen /\ loop'.epoch = 0,
           \A c \in Clients : \/ client'[c] = client[c]
                              \/ /\ client'[c].pc # "claim"
                                 /\ client'[c].epoch = client[c].epoch,
           \/ prepare' = prepare
           \/ /\ prepare'.epoch = prepare.epoch /\ prepare'.result = prepare.result
              /\ prepare.result = "none"
              /\ \/ prepare.pc = "request" /\ prepare'.pc = "suspend"
                 \/ prepare.pc = "confirm" /\ prepare'.pc = "verify"
    PROVE  QInv'
<1>1. EpochOrder' /\ OpShape'
  <2>1. op' = op /\ op.epoch \in Nat /\ EpochOrder /\ OpShape
    BY DEF QInv, opVars, QTypeOK, OperationState
  <2>2. loop'.seen.epoch <= op.epoch /\ loop'.epoch <= op.epoch
    BY <2>1 DEF EpochOrder
  <2>3. gate'.epoch <= op.epoch /\ prepare'.epoch <= op.epoch
    BY <2>1 DEF EpochOrder, GateSound
  <2>4. \A c \in Clients : client'[c].epoch <= op.epoch
    BY <2>1 DEF EpochOrder
  <2> QED BY <2>1, <2>2, <2>3, <2>4 DEF EpochOrder, OpShape
<1>2. StartShape'
  BY DEF QInv, StartShape, GateSound, opVars
<1>3. PermitIsCurrent'
  BY DEF QInv, PermitIsCurrent, GateSound, opVars
<1>4. ClaimIsQuiet'
  BY DEF QInv, ClaimIsQuiet, GateSound, opVars
<1>5. ActiveIsQuiet'
  BY DEF QInv, ActiveIsQuiet, GateSound, opVars, QTypeOK, OperationState
<1>6. GrantShape'
  BY DEF QInv, GrantShape, Latched, Frozen, GateSound, opVars
<1> QED BY <1>1, <1>2, <1>3, <1>4, <1>5, <1>6 DEF QInv, ResultIsLast, GateSound

LEMMA KeepsApplyPolicy ==
    ASSUME QInv, ApplyPolicy
    PROVE  QInv'
<1>1. /\ loop \in LoopState /\ loop.epoch \in 0..EpochLast /\ loop.yield \in BOOLEAN
      /\ loop.epoch <= op.epoch
  BY DEF QInv, QTypeOK, LoopState, EpochOrder
<1>2. /\ loop.pc = "apply" /\ ApplyGate(loop.epoch, loop.yield)
      /\ UNCHANGED <<slot, overflow, cmds, radioOn, opVars, startup, client, prepare>>
  BY DEF ApplyPolicy
<1>3. GateSound
  BY <1>1, <1>2, GateApplied DEF QInv, PermitIsCurrent, ActiveIsQuiet, opVars
<1>4. /\ loop' \in LoopState /\ loop'.pc = "start"
      /\ loop'.seen = loop.seen /\ loop'.epoch = 0
  <2>1. PICK y \in BOOLEAN :
          loop' = [loop EXCEPT !.pc = "start", !.epoch = 0, !.yield = y]
    BY DEF ApplyPolicy
  <2> QED BY <1>1, <2>1, ZeroEpoch DEF LoopState, LoopPcs
<1>5. QTypeOK'
  BY <1>2, <1>3, <1>4 DEF QInv, QTypeOK, GateSound, GateState, RadioInv, LoopState, opVars
<1> QED BY <1>2, <1>3, <1>4, <1>5, GateKeeps

LEMMA KeepsRequestQuiescence ==
    ASSUME QInv, NEW c \in Clients, RequestQuiescence(c)
    PROVE  QInv'
<1>1. CASE GiveUp(c) /\ UNCHANGED <<gate, pol>>
  BY <1>1, KeepsGivingUp DEF RequestQuiescence, radioVars
<1>2. CASE ApplyGate(client[c].epoch, TRUE) /\ Goto(c, "check")
  <2>1. UNCHANGED <<slot, overflow, cmds, radioOn, opVars, startup, loop, prepare>>
    BY DEF RequestQuiescence
  <2>2. client[c].epoch \in 0..EpochLast /\ client[c].epoch <= op.epoch
    BY DEF QInv, QTypeOK, EpochOrder
  <2>3. GateSound
    BY <1>2, <2>1, <2>2, GateApplied DEF opVars
  <2>4. /\ client' \in [Clients -> ClientState]
        /\ client'[c].pc = "check" /\ client'[c].epoch = client[c].epoch
        /\ \A d \in Clients : d # c => client'[d] = client[d]
    BY <1>2, GoesOn DEF ClientPcs
  <2>5. QTypeOK'
    BY <2>1, <2>3, <2>4
       DEF QInv, QTypeOK, GateSound, GateState, RadioInv, ClientState, opVars
  <2>6. \A d \in Clients : \/ client'[d] = client[d]
                           \/ /\ client'[d].pc # "claim"
                              /\ client'[d].epoch = client[d].epoch
    BY <2>4
  <2> QED BY <2>1, <2>3, <2>5, <2>6, GateKeeps
<1> QED BY <1>1, <1>2 DEF RequestQuiescence

-----------------------------------------------------------------------------
(* The preparation of the maintenance reboot.                              *)
PrepareState ==
    [pc : PreparePcs, active : BOOLEAN, epoch : 0..EpochLast,
     accepted : BOOLEAN, result : {"none", "safe", "quiesced"}]

LEMMA IdlePrepareType ==
    /\ IdlePrepare \in PrepareState /\ IdlePrepare.pc = "idle"
    /\ IdlePrepare.epoch = 0 /\ IdlePrepare.result = "none"
BY ZeroEpoch DEF IdlePrepare, PrepareState, PreparePcs

LEMMA KeepsRequestOff ==
    ASSUME QInv, NEW from, NEW to, NEW before, before \in BOOLEAN,
           RequestOff(from, to, before),
           \/ from = "request" /\ to = "suspend"
           \/ from = "confirm" /\ to = "verify"
    PROVE  QInv'
<1>1. /\ prepare \in PrepareState /\ prepare.pc = from
      /\ prepare.epoch \in 0..EpochLast /\ prepare.epoch <= op.epoch
      /\ to \in PreparePcs
      /\ UNCHANGED <<slot, overflow, cmds, radioOn, opVars, startup, loop, client>>
  BY DEF RequestOff, QInv, QTypeOK, PrepareState, EpochOrder, PreparePcs
<1>2. PICK a \in BOOLEAN : prepare' = [prepare EXCEPT !.pc = to, !.accepted = a]
  BY DEF RequestOff
<1>3. /\ prepare' \in PrepareState /\ prepare'.pc = to
      /\ prepare'.epoch = prepare.epoch /\ prepare'.result = prepare.result
  BY <1>1, <1>2 DEF PrepareState
<1>4. GateSound
  <2>1. CASE UNCHANGED <<gate, pol>>
    BY <1>1, <2>1, GateUntouched DEF radioVars
  <2>2. CASE ApplyGate(prepare.epoch, TRUE)
    BY <1>1, <2>2, GateApplied DEF opVars
  <2> QED BY <2>1, <2>2 DEF RequestOff
<1>5. QTypeOK'
  BY <1>1, <1>3, <1>4
     DEF QInv, QTypeOK, GateSound, GateState, RadioInv, PrepareState, opVars
<1>6. prepare.result = "none"
  BY <1>1 DEF QInv, ResultIsLast
<1> QED BY <1>1, <1>3, <1>4, <1>5, <1>6, GateKeeps

\* A step that reads, and changes the preparation only: it gives up, or goes
\* on with what it has read being so.
LEMMA PrepareKeeps ==
    ASSUME QInv, prepare' \in PrepareState,
           UNCHANGED <<radioVars, op, holder, safe, gate, startup, loop, client>>,
           suspend' \in BOOLEAN, worker' \in {"QUIESCING", "SUSPENDED", worker},
           worker = "SUSPENDED" => worker' = "SUSPENDED", suspend => suspend',
           prepare'.epoch <= op.epoch, prepare'.pc = "idle" \/ prepare'.result = "none",
           prepare'.pc # "idle" \/ prepare'.result # "none" => op.preempt,
           Latched' => suspend' /\ worker' = "SUSPENDED",
           Frozen' => ~op.active,
           prepare'.pc = "ask" => prepare'.epoch = op.epoch,
           prepare'.result = "quiesced" => Quiet /\ gate.epoch = op.epoch
    PROVE  QInv'
<1>1. QTypeOK'
  BY DEF QInv, QTypeOK, TypeOK, radioVars, PrepareState
<1>2. RadioInv' /\ OpShape' /\ EpochOrder'
  BY DEF QInv, RadioInv, TypeOK, Coherent, Answered, Asks, OpShape, EpochOrder, radioVars
<1>3. StartShape' /\ PermitIsCurrent'
  BY DEF QInv, StartShape, PermitIsCurrent, radioVars
<1>4. Quiet' <=> Quiet
  BY DEF Quiet, Quiesced, radioVars
<1>5. ClaimIsQuiet' /\ ActiveIsQuiet'
  BY <1>4 DEF QInv, ClaimIsQuiet, ActiveIsQuiet
<1>6. GrantShape'
  BY <1>4 DEF QInv, GrantShape, Latched, Frozen
<1> QED BY <1>1, <1>2, <1>3, <1>5, <1>6 DEF QInv, ResultIsLast

\* The request for preemption starts over with the token as it then is.
LEMMA PreemptKeeps ==
    ASSUME QInv, OpEdge, op'.preempt, prepare' \in PrepareState,
           prepare.pc = "idle", prepare.result = "none", prepare'.pc = "request",
           prepare'.epoch = op'.epoch, prepare'.result = "none",
           UNCHANGED <<radioVars, holder, safe, suspend, worker, gate, startup, loop,
                       client>>
    PROVE  QInv'
<1>1. /\ op \in OperationState /\ op' \in OperationState
      /\ op.epoch \in Nat /\ op'.epoch \in Nat
      /\ op' = op \/ op'.epoch = op.epoch + 1
  BY DEF QInv, QTypeOK, OpEdge, OperationState
<1>2. QTypeOK'
  BY DEF QInv, QTypeOK, TypeOK, radioVars, PrepareState, OpEdge
<1>3. RadioInv' /\ StartShape' /\ OpShape' /\ ResultIsLast'
  BY DEF QInv, RadioInv, TypeOK, Coherent, Answered, Asks, StartShape, radioVars, OpEdge,
     ResultIsLast
<1>4. EpochOrder'
  BY <1>1 DEF QInv, EpochOrder, OpEdge, EpochBound, QTypeOK, OperationState
<1>5. PermitIsCurrent'
  BY <1>1 DEF QInv, PermitIsCurrent, EpochOrder, QTypeOK
<1>6. Quiet' <=> Quiet
  BY DEF Quiet, Quiesced, radioVars
<1>7. ClaimIsQuiet'
  BY <1>1, <1>6 DEF QInv, ClaimIsQuiet, EpochOrder, QTypeOK
<1>8. ActiveIsQuiet' /\ GrantShape'
  BY <1>6 DEF QInv, ActiveIsQuiet, GrantShape, Latched, Frozen, OpEdge
<1> QED BY <1>2, <1>3, <1>4, <1>5, <1>7, <1>8 DEF QInv

LEMMA KeepsPreparation ==
    ASSUME QInv, Preparation
    PROVE  QInv'
<1>1. /\ prepare \in PrepareState /\ op.epoch \in 0..EpochLast
      /\ prepare.epoch \in 0..EpochLast /\ prepare.epoch <= op.epoch /\ 0 <= op.epoch
      /\ suspend \in BOOLEAN /\ op.active \in BOOLEAN /\ prepare.accepted \in BOOLEAN
      /\ op \in OperationState
  BY DEF QInv, QTypeOK, PrepareState, EpochOrder, OperationState
<1>2. CASE RequestPreempt
  <2>1. /\ prepare.pc = "idle" /\ prepare.result = "none"
        /\ op' = RequestPreemption(op)
        /\ UNCHANGED <<radioVars, holder, safe, suspend, worker, gate, startup, loop,
                       client>>
    BY <1>2 DEF RequestPreempt
  <2>2. OpEdge /\ (~op.reserved => op'.preempt)
    BY <2>1, PreemptEdge
  <2>3. CASE op.reserved
    <3>1. prepare' = prepare
      BY <1>2, <2>3 DEF RequestPreempt
    <3>2. QTypeOK'
      BY <2>1, <2>2, <3>1 DEF QInv, QTypeOK, TypeOK, radioVars, OpEdge
    <3>3. Latched => suspend' /\ worker' = "SUSPENDED"
      BY <2>1 DEF QInv, GrantShape
    <3> QED BY <2>1, <2>2, <3>1, <3>2, <3>3, EdgeKeeps
  <2>4. CASE ~op.reserved
    <3>1. prepare' = [prepare EXCEPT !.pc = "request", !.active = op'.active,
                                     !.epoch = op'.epoch]
      BY <1>2, <2>4 DEF RequestPreempt
    <3>2. op'.active \in BOOLEAN /\ op'.epoch \in 0..EpochLast
      BY <2>2 DEF OpEdge, OperationState
    <3>3. /\ prepare' \in PrepareState /\ prepare'.pc = "request"
          /\ prepare'.epoch = op'.epoch /\ prepare'.result = "none"
      BY <1>1, <2>1, <3>1, <3>2 DEF PrepareState, PreparePcs
    <3> QED BY <2>1, <2>2, <2>4, <3>3, PreemptKeeps
  <2> QED BY <2>3, <2>4
<1>3. CASE PrepareRequest
  BY <1>3, KeepsRequestOff DEF PrepareRequest
<1>4. CASE PrepareConfirm
  BY <1>1, <1>4, KeepsRequestOff DEF PrepareConfirm
<1>5. CASE Refused /\ UNCHANGED <<radioVars, opVars, gate, startup, loop, client>>
  BY <1>1, <1>5, IdlePrepareType, PrepareKeeps DEF Refused, opVars, Latched, Frozen
<1>6. CASE PrepareLocked
  <2>1. /\ prepare.pc = "suspend" /\ suspend' = TRUE
        /\ UNCHANGED <<radioVars, op, holder, safe, gate, startup, loop, client>>
    BY <1>6 DEF PrepareLocked
  <2>2. CASE worker \in {"RUNNING", "QUIESCING"}
    <3>1. worker' = "QUIESCING" /\ prepare' = IdlePrepare
      BY <1>6, <2>2 DEF PrepareLocked, Refused
    <3> QED BY <1>1, <2>1, <2>2, <3>1, IdlePrepareType, PrepareKeeps
            DEF Latched, Frozen
  <2>3. CASE worker \notin {"RUNNING", "QUIESCING"} /\ prepare.active
    <3>1. worker' = "SUSPENDED" /\ prepare' = IdlePrepare
      BY <1>6, <2>3 DEF PrepareLocked, Refused
    <3> QED BY <1>1, <2>1, <3>1, IdlePrepareType, PrepareKeeps DEF Latched, Frozen
  <2>4. CASE worker \notin {"RUNNING", "QUIESCING"} /\ ~prepare.active
    <3>1. /\ worker' = "SUSPENDED"
          /\ prepare' = [prepare EXCEPT !.pc = "resample", !.epoch = 0]
      BY <1>6, <2>4 DEF PrepareLocked
    <3>2. prepare.result = "none" /\ op.preempt
      BY <2>1 DEF QInv, ResultIsLast, GrantShape
    <3>3. /\ prepare' \in PrepareState /\ prepare'.pc = "resample"
          /\ prepare'.epoch = 0 /\ prepare'.result = "none"
      BY <1>1, <3>1, <3>2, ZeroEpoch DEF PrepareState, PreparePcs
    <3> QED BY <1>1, <2>1, <3>1, <3>2, <3>3, PrepareKeeps DEF Latched, Frozen
  <2> QED BY <2>2, <2>3, <2>4
<1>7. CASE PrepareResample /\ ~op.active
  <2>1. /\ prepare.pc = "resample" /\ UNCHANGED <<radioVars, opVars, gate, startup, loop, client>>
        /\ prepare' = [prepare EXCEPT !.pc = "confirm", !.epoch = op.epoch]
    BY <1>7 DEF PrepareResample
  <2>2. prepare.result = "none" /\ op.preempt /\ suspend /\ worker = "SUSPENDED"
    BY <2>1 DEF QInv, ResultIsLast, GrantShape, Latched
  <2>3. /\ prepare' \in PrepareState /\ prepare'.pc = "confirm"
        /\ prepare'.epoch = op.epoch /\ prepare'.result = "none"
    BY <1>1, <2>1, <2>2 DEF PrepareState, PreparePcs
  <2> QED BY <1>1, <1>7, <2>1, <2>2, <2>3, PrepareKeeps DEF Latched, Frozen, opVars
<1>8. CASE PrepareVerify /\ ~(op.epoch # prepare.epoch \/ ~op.inhibited \/ ~op.preempt)
  <2>1. /\ prepare.pc = "verify" /\ UNCHANGED <<radioVars, opVars, gate, startup, loop, client>>
        /\ prepare' = [prepare EXCEPT !.pc = "ask", !.active = op.active]
        /\ prepare.epoch = op.epoch /\ op.preempt
    BY <1>8 DEF PrepareVerify
  <2>2. prepare.result = "none" /\ suspend /\ worker = "SUSPENDED" /\ ~op.active
    BY <2>1 DEF QInv, ResultIsLast, GrantShape, Latched, Frozen
  <2>3. /\ prepare' \in PrepareState /\ prepare'.pc = "ask"
        /\ prepare'.epoch = prepare.epoch /\ prepare'.result = "none"
    BY <1>1, <2>1, <2>2 DEF PrepareState, PreparePcs
  <2> QED BY <1>1, <2>1, <2>2, <2>3, PrepareKeeps DEF Latched, Frozen, opVars
<1>9. CASE PrepareDecide /\ ~Refused
  <2>1. /\ prepare.pc = "ask" /\ UNCHANGED <<radioVars, opVars, gate, startup, loop, client>>
        /\ \/ prepare' = [IdlePrepare EXCEPT !.result = "safe"]
           \/ /\ RadioQuietAt(prepare.epoch)
              /\ prepare' = [IdlePrepare EXCEPT !.result = "quiesced"]
    BY <1>9 DEF PrepareDecide
  <2>2. /\ op.preempt /\ suspend /\ worker = "SUSPENDED" /\ ~op.active
        /\ prepare.epoch = op.epoch
    BY <2>1 DEF QInv, GrantShape, Latched, Frozen
  <2>3. /\ prepare' \in PrepareState /\ prepare'.pc = "idle" /\ prepare'.epoch = 0
        /\ prepare'.result \in {"safe", "quiesced"}
        /\ prepare'.result = "quiesced" => RadioQuietAt(prepare.epoch)
    BY <2>1, IdlePrepareType DEF PrepareState
  <2>4. RadioQuietAt(prepare.epoch) => Quiet /\ gate.epoch = op.epoch
    BY <2>2 DEF RadioQuietAt, Quiet
  <2> QED BY <1>1, <2>1, <2>2, <2>3, <2>4, PrepareKeeps DEF Latched, Frozen, opVars
<1> QED BY <1>2, <1>3, <1>4, <1>5, <1>6, <1>7, <1>8, <1>9
        DEF Preparation, PrepareSuspend, PrepareResample, PrepareVerify, PrepareDecide

-----------------------------------------------------------------------------
(* The radio: its start, its polls and its controller.                     *)
LEMMA RadioKeeps ==
    ASSUME QInv, RadioInv', StartShape', loop' \in LoopState,
           startup' \in {"absent", "starting", "done"},
           UNCHANGED <<opVars, gate, client, prepare>>,
           loop' = loop \/ loop'.pc # "apply",
           loop'.seen.epoch <= op.epoch, loop'.epoch <= op.epoch,
           Quiet => Quiet'
    PROVE  QInv'
<1>1. QTypeOK'
  BY DEF QInv, QTypeOK, RadioInv, LoopState, opVars
<1>2. EpochOrder' /\ OpShape' /\ ResultIsLast'
  BY DEF QInv, EpochOrder, OpShape, ResultIsLast, opVars
<1>3. PermitIsCurrent'
  BY DEF QInv, PermitIsCurrent, opVars
<1>4. ClaimIsQuiet' /\ ActiveIsQuiet'
  BY DEF QInv, ClaimIsQuiet, ActiveIsQuiet, opVars
<1>5. GrantShape'
  BY DEF QInv, GrantShape, Latched, Frozen, opVars
<1> QED BY <1>1, <1>2, <1>3, <1>4, <1>5 DEF QInv

LEMMA LoopGoesOn ==
    ASSUME QInv, NEW pc \in LoopPcs, loop' = [loop EXCEPT !.pc = pc]
    PROVE  /\ loop' \in LoopState /\ loop'.pc = pc
           /\ loop'.seen.epoch <= op.epoch /\ loop'.epoch <= op.epoch
BY DEF QInv, QTypeOK, LoopState, EpochOrder

LEMMA GivenUp ==
    ASSUME RadioInv, pol.state = "INIT_CONTROLLER", pol' = Fail(pol),
           UNCHANGED <<slot, overflow, cmds, radioOn>>
    PROVE  RadioInv' /\ pol'.inhibited = pol.inhibited /\ pol'.state = "FAILED"
<1>1. Coherent(pol) /\ Answered(pol) /\ TypeOK /\ pol \in PolicyType
  BY DEF RadioInv, TypeOK
<1>2. Coherent(Fail(pol)) /\ Answered(Fail(pol)) /\ Fail(pol).inhibited = pol.inhibited
  BY <1>1, StartCoherent
<1>3. Coherent(pol)' /\ Answered(pol)'
  BY <1>2 DEF Coherent, Answered, Asks
<1> QED BY <1>1, <1>2, <1>3, FailFields DEF RadioInv, TypeOK

LEMMA StartChoices ==
    ASSUME StartRadio
    PROVE  \/ loop' = [loop EXCEPT !.pc = "poll"] /\ UNCHANGED <<pol, startup>>
           \/ /\ startup = "absent" /\ gate.observed /\ ~gate.inhibited
              /\ \/ /\ startup' = "starting" /\ loop' = [loop EXCEPT !.pc = "wait"]
                    /\ pol' = [InitPolicy EXCEPT !.inhibited = gate.inhibited]
                 \/ /\ startup' = "done" /\ loop' = [loop EXCEPT !.pc = "poll"]
                    /\ pol' = Fail(InitPolicy)
BY DEF StartRadio

LEMMA KeepsStartRadio ==
    ASSUME QInv, StartRadio
    PROVE  QInv'
<1>1. /\ loop.pc = "start" /\ startup # "starting" /\ RadioInv
      /\ UNCHANGED <<slot, overflow, cmds, radioOn, opVars, gate, client, prepare>>
      /\ startup \in {"absent", "starting", "done"}
  BY DEF StartRadio, QInv, StartShape, QTypeOK
<1>2. CASE loop' = [loop EXCEPT !.pc = "poll"] /\ UNCHANGED <<pol, startup>>
  <2>1. /\ loop' \in LoopState /\ loop'.pc = "poll"
        /\ loop'.seen.epoch <= op.epoch /\ loop'.epoch <= op.epoch
    BY <1>2, LoopGoesOn DEF LoopPcs
  <2>2. RadioInv' /\ (Quiet' <=> Quiet)
    BY <1>1, <1>2 DEF RadioInv, TypeOK, Coherent, Answered, Asks, Quiet, Quiesced
  <2>3. StartShape'
    BY <1>1, <1>2, <2>1 DEF QInv, StartShape
  <2> QED BY <1>1, <1>2, <2>1, <2>2, <2>3, RadioKeeps
<1>3. CASE /\ startup = "absent" /\ gate.observed /\ ~gate.inhibited
           /\ ~(loop' = [loop EXCEPT !.pc = "poll"] /\ UNCHANGED <<pol, startup>>)
  <2>1. pol = InitPolicy /\ pol.state = "INIT_CONTROLLER" /\ ~Quiet
        /\ gate.inhibited \in BOOLEAN
    BY <1>3 DEF QInv, QTypeOK, StartShape, InitPolicy, Quiet
  <2>2. CASE /\ startup' = "starting" /\ loop' = [loop EXCEPT !.pc = "wait"]
             /\ pol' = [InitPolicy EXCEPT !.inhibited = gate.inhibited]
    <3>1. /\ loop' \in LoopState /\ loop'.pc = "wait"
          /\ loop'.seen.epoch <= op.epoch /\ loop'.epoch <= op.epoch
      BY <2>2, LoopGoesOn DEF LoopPcs
    <3>2. RadioInv' /\ pol'.state = "INIT_CONTROLLER"
      BY <1>1, <2>1, <2>2, ToldCoherent
    <3>3. StartShape'
      BY <1>1, <1>3, <2>2, <3>1, <3>2 DEF QInv, StartShape
    <3> QED BY <1>1, <2>1, <2>2, <3>1, <3>2, <3>3, RadioKeeps
  <2>3. CASE /\ startup' = "done" /\ loop' = [loop EXCEPT !.pc = "poll"]
             /\ pol' = Fail(InitPolicy)
    <3>1. /\ loop' \in LoopState /\ loop'.pc = "poll"
          /\ loop'.seen.epoch <= op.epoch /\ loop'.epoch <= op.epoch
      BY <2>3, LoopGoesOn DEF LoopPcs
    <3>2. RadioInv'
      BY <1>1, <2>1, <2>3, GivenUp
    <3>3. StartShape'
      BY <1>1, <1>3, <2>3, <3>1 DEF QInv, StartShape
    <3> QED BY <1>1, <2>1, <2>3, <3>1, <3>2, <3>3, RadioKeeps
  <2> QED BY <1>1, <1>3, <2>1, <2>2, <2>3, StartChoices
<1> QED BY <1>2, <1>3, StartChoices

LEMMA KeepsRadioStarted ==
    ASSUME QInv, RadioStarted
    PROVE  QInv'
<1>1. /\ loop.pc = "wait" /\ startup = "starting" /\ startup' = "done"
      /\ loop' = [loop EXCEPT !.pc = "poll"] /\ RadioInv
      /\ pol.state = "INIT_CONTROLLER" /\ ~Quiet /\ gate.inhibited \in BOOLEAN
      /\ UNCHANGED <<slot, overflow, cmds, radioOn, opVars, gate, client, prepare>>
  BY DEF RadioStarted, QInv, QTypeOK, StartShape, Quiet
<1>2. /\ loop' \in LoopState /\ loop'.pc = "poll"
      /\ loop'.seen.epoch <= op.epoch /\ loop'.epoch <= op.epoch
  BY <1>1, LoopGoesOn DEF LoopPcs
<1>3. RadioInv' /\ (gate.observed /\ gate.inhibited => pol'.inhibited)
  <2>1. CASE pol' = [ControllerUp(pol) EXCEPT !.inhibited = gate.inhibited]
    <3> DEFINE up == ControllerUp(pol)
    <3>1. Coherent(up) /\ Answered(up) /\ TypeOK
      BY <1>1, StartCoherent DEF RadioInv
    <3> HIDE DEF up
    <3>2. SameMachine(up, pol') /\ pol'.inhibited = gate.inhibited
      BY <1>1, <2>1, <3>1 DEF SameMachine, Coherent, PolicyType, up
    <3>3. Coherent(pol') /\ Answered(pol')
      BY <3>1, <3>2, InputsCoherent
    <3>4. Coherent(pol)' /\ Answered(pol)'
      BY <1>1, <3>3 DEF Coherent, Answered, Asks
    <3> QED BY <1>1, <3>1, <3>2, <3>4 DEF RadioInv, TypeOK, SameMachine
  <2>2. CASE pol' = Fail(pol)
    BY <1>1, <2>2, GivenUp DEF QInv, StartShape
  <2> QED BY <2>1, <2>2 DEF RadioStarted
<1>4. StartShape'
  BY <1>1, <1>2, <1>3 DEF QInv, StartShape
<1> QED BY <1>1, <1>2, <1>3, <1>4, RadioKeeps

LEMMA KeepsPollRound ==
    ASSUME ~LateReplies, QInv, PollRound
    PROVE  QInv'
<1>1. PICK expired, due, room, ready \in BOOLEAN :
        Poll(IF startup = "absent" THEN pol
             ELSE [pol EXCEPT !.game = ready, !.ready = ~loop.yield /\ ready],
             expired, due, room)
  BY DEF PollRound
<1> DEFINE told == IF startup = "absent" THEN pol
                   ELSE [pol EXCEPT !.game = ready, !.ready = ~loop.yield /\ ready]
<1>2. Poll(told, expired, due, room)
  BY <1>1
<1>3. /\ loop.pc = "poll" /\ loop' = IdleLoop /\ startup # "starting"
      /\ UNCHANGED <<opVars, gate, startup, client, prepare>>
      /\ TypeOK /\ Coherent(pol) /\ Answered(pol) /\ pol \in PolicyType
      /\ startup \in {"absent", "starting", "done"} /\ op.epoch \in Nat
  BY DEF PollRound, QInv, QTypeOK, StartShape, RadioInv, TypeOK, OperationState
<1>4. SameMachine(pol, told) /\ told.inhibited = pol.inhibited
  BY <1>3, ZenonT(60) DEF SameMachine, PolicyType
<1>5. startup = "absent" => told = pol
  OBVIOUS
<1> HIDE DEF told
<1>6. Coherent(told) /\ Answered(told) /\ (Quiesced(pol) <=> Quiesced(told))
  BY <1>3, <1>4, InputsCoherent
<1>7. RadioInv' /\ pol'.inhibited = pol.inhibited
  BY <1>2, <1>3, <1>4, <1>6, PollCoherent
<1>8. startup = "absent" =>
        /\ pol' = InitPolicy /\ slot' = NoEvent /\ overflow' = FALSE
        /\ cmds' = << >> /\ radioOn' = FALSE
  <2>1. SUFFICES ASSUME startup = "absent"
                 PROVE  /\ pol' = InitPolicy /\ slot' = NoEvent /\ overflow' = FALSE
                        /\ cmds' = << >> /\ radioOn' = FALSE
    OBVIOUS
  <2>2. /\ told = InitPolicy /\ overflow = FALSE /\ cmds = << >> /\ radioOn = FALSE
        /\ ~InitPolicy.inFlight /\ InitPolicy.state = "INIT_CONTROLLER"
    BY <1>5, <2>1 DEF QInv, StartShape, InitPolicy
  <2>3. Delivered(told) = InitPolicy
    BY <2>2 DEF Delivered, OnEvent
  <2> QED BY <1>2, <2>2, <2>3 DEF Poll
<1>9. Quiet => Quiet'
  <2>1. SUFFICES ASSUME Quiet, startup # "absent" PROVE Quiesced(pol)'
    BY <1>3 DEF Quiet
  <2>2. Quiesced(told) /\ told.inhibited
    BY <1>4, <1>6, <2>1 DEF Quiet, QInv, StartShape
  <2> QED BY <1>2, <1>3, <1>6, <2>2, PollStaysQuiet
<1>10. StartShape'
  <2>1. IdleLoop.pc = "idle" /\ IdleLoop.tries < SampleAttempts
    BY IdleLoopType, ClientsAssumption DEF ClientsAssumption
  <2> QED BY <1>3, <1>7, <1>8, <2>1 DEF QInv, StartShape
<1>11. /\ loop' \in LoopState /\ loop'.pc = "idle"
       /\ loop'.seen.epoch <= op.epoch /\ loop'.epoch <= op.epoch
  BY <1>3, IdleLoopType
<1> QED BY <1>3, <1>7, <1>9, <1>10, <1>11, RadioKeeps

LEMMA KeepsControllerStep ==
    ASSUME QInv, ControllerStep
    PROVE  QInv'
<1>1. /\ Controller /\ UNCHANGED <<opVars, gate, startup, loop, client, prepare>>
      /\ loop \in LoopState /\ startup \in {"absent", "starting", "done"}
  BY DEF ControllerStep, QInv, QTypeOK, LoopState
<1>2. RadioInv' /\ pol' = pol
  BY <1>1, ControllerCoherent DEF QInv
<1>3. startup # "absent"
  <2>1. Controller => cmds # << >> \/ pol.state # "INIT_CONTROLLER"
    BY DEF Controller, ControllerAnswers, ControllerStaysSilent, ControllerSpeaksUnasked
  <2>2. startup = "absent" => cmds = << >> /\ pol.state = "INIT_CONTROLLER"
    BY DEF QInv, StartShape, InitPolicy
  <2> QED BY <1>1, <2>1, <2>2
<1>4. StartShape' /\ (Quiet' <=> Quiet)
  BY <1>1, <1>2, <1>3 DEF QInv, StartShape, Quiet, Quiesced
<1> QED BY <1>1, <1>2, <1>4, RadioKeeps DEF QInv, EpochOrder

-----------------------------------------------------------------------------
(* The invariant, and what it says of every behaviour.                     *)
LEMMA InitialQuiescence == QInit => QInv
<1> SUFFICES ASSUME QInit PROVE QInv
  OBVIOUS
<1>1. InitOperation \in OperationState /\ InitOperation.epoch = 0
      /\ ~InitOperation.active /\ ~InitOperation.inhibited /\ ~InitOperation.preempt
  <2>1. 0 \in 0..GenMax /\ 0 \in 0..EpochLast
    BY ZeroEpoch, GenMaxAssumption DEF GenMaxAssumption
  <2> QED BY <2>1 DEF InitOperation, OperationState
<1>2. client \in [Clients -> ClientState]
      /\ \A c \in Clients : client[c].epoch = 0 /\ client[c].pc = "idle"
  BY IdleClientType DEF QInit
<1>3. RadioInv
  BY InitialRadio DEF QInit
<1>4. QTypeOK
  BY <1>1, <1>2, <1>3, ZeroEpoch, IdleLoopType, IdlePrepareType
  DEF QInit, QTypeOK, RadioInv, ClientState, LoopState, PrepareState
<1>5. EpochOrder
  BY <1>1, <1>2, Span, IdleLoopType, IdlePrepareType DEF QInit, EpochOrder
<1>6. StartShape
  BY IdleLoopType, ClientsAssumption DEF QInit, InitRadio, StartShape, ClientsAssumption
<1>7. OpShape /\ PermitIsCurrent /\ ClaimIsQuiet /\ ActiveIsQuiet
  BY <1>1, <1>2, IdleLoopType
  DEF QInit, OpShape, PermitIsCurrent, ClaimIsQuiet, ActiveIsQuiet
<1>8. GrantShape /\ ResultIsLast
  BY DEF QInit, IdlePrepare, GrantShape, ResultIsLast, Latched, Frozen
<1> QED BY <1>3, <1>4, <1>5, <1>6, <1>7, <1>8 DEF QInv

LEMMA NextQuiescence ==
    ASSUME ~LateReplies, QInv, [QNext]_vars
    PROVE  QInv'
<1>1. CASE DisplayLoop
  BY <1>1, KeepsSampling, KeepsApplyPolicy, KeepsStartRadio, KeepsRadioStarted,
     KeepsPollRound DEF DisplayLoop
<1>2. CASE ControllerStep
  BY <1>2, KeepsControllerStep
<1>3. ASSUME NEW c \in Clients, ClientStep(c) PROVE QInv'
  BY <1>3, KeepsRequestBegin, KeepsRequestQuiescence, KeepsCheckQuiet, KeepsClaim,
     KeepsEndOperation, KeepsReconcileAfterEnd DEF ClientStep
<1>4. CASE Coordinator
  BY <1>4, KeepsBeginSave, KeepsEndSave, KeepsStartWorker, KeepsStopWorker DEF Coordinator
<1>5. CASE ReserveRecovery
  BY <1>5, KeepsReserveRecovery
<1>6. CASE Preparation
  BY <1>6, KeepsPreparation
<1>7. CASE UNCHANGED vars
  <2>1. OpEdge
    BY <1>7, NoEdge DEF vars
  <2>2. QTypeOK'
    BY <1>7 DEF QInv, QTypeOK, TypeOK, vars
  <2> QED BY <1>7, <2>1, <2>2, EdgeKeeps DEF QInv, GrantShape, vars, radioVars
<1> QED BY <1>1, <1>2, <1>3, <1>4, <1>5, <1>6, <1>7 DEF QNext

\* For any callers, bounds and faults, with a controller that answers in time
\* or not at all, every step keeps the invariant.
THEOREM EpochsOrdered ==
    ASSUME ~LateReplies
    PROVE  QSpec => []QInv
<1>1. QInit => QInv
  BY InitialQuiescence
<1>2. QInv /\ [QNext]_vars => QInv'
  BY NextQuiescence
<1> QED BY <1>1, <1>2, PTL DEF QSpec

\* While a firmware operation holds the token the radio is off, and the
\* controller holds no command that could start it: whatever the display loop
\* sampled, however late it applies it, and whoever claims, ends or preempts.
THEOREM RadioYields ==
    ASSUME ~LateReplies
    PROVE  QSpec => []OperationRadioSilent
<1>1. QInv => OperationRadioSilent
  <2>1. SUFFICES ASSUME QInv, op.active
                 PROVE  ~radioOn /\ \A i \in DOMAIN cmds : cmds[i] # "ENABLE"
    BY DEF OperationRadioSilent
  <2>2. startup = "absent" \/ Quiesced(pol)
    BY <2>1 DEF QInv, ActiveIsQuiet, Quiet
  <2>3. CASE startup = "absent"
    BY <2>1, <2>3 DEF QInv, StartShape
  <2>4. CASE Quiesced(pol)
    BY <2>1, <2>4 DEF QInv, RadioInv, Coherent, Quiesced, Asks
  <2> QED BY <2>2, <2>3, <2>4
<1> QED BY <1>1, EpochsOrdered, PTL

\* A grant of the maintenance reboot stays true: no operation is active, the
\* worker is at its safe point, and after "quiesced" the radio is off.
THEOREM GrantIsKept ==
    ASSUME ~LateReplies
    PROVE  QSpec => []GrantStays
<1>1. QInv => GrantStays
  <2>1. SUFFICES ASSUME QInv, prepare.result # "none"
                 PROVE  /\ ~op.active /\ worker = "SUSPENDED"
                        /\ prepare.result = "quiesced" => ~radioOn
    BY DEF GrantStays
  <2>2. ~op.active /\ worker = "SUSPENDED"
    BY <2>1 DEF QInv, GrantShape, Latched, Frozen
  <2>3. prepare.result = "quiesced" => startup = "absent" \/ Quiesced(pol)
    BY <2>1 DEF QInv, GrantShape, Quiet
  <2>4. startup = "absent" => ~radioOn
    BY <2>1 DEF QInv, StartShape
  <2>5. Quiesced(pol) => ~radioOn
    BY <2>1 DEF QInv, RadioInv, Coherent, Quiesced
  <2> QED BY <2>2, <2>3, <2>4, <2>5
<1> QED BY <1>1, EpochsOrdered, PTL
=============================================================================
