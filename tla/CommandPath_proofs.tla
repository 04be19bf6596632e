------------------------- MODULE CommandPath_proofs -------------------------
(***************************************************************************)
(* What is proved of the way of a command (MCCommandPath), for every value *)
(* of its constants: what is acknowledged is so, and nothing goes behind   *)
(* what was agreed.  One section per part, with the inductive invariant    *)
(* that stands at the end of the part's module; then the parts in turn;    *)
(* last the operation token, whose module MCCommandPath extends.           *)
(***************************************************************************)
EXTENDS MCCommandPath, SequenceTheorems, TLAPS

-----------------------------------------------------------------------------
(* The two ends of a queue.                                                *)
LEMMA TailOf ==
    ASSUME NEW S, NEW q \in Seq(S), q # << >>
    PROVE  /\ Len(q) \in Nat \ {0} /\ DOMAIN q = 1..Len(q)
           /\ Head(q) = q[1] /\ Head(q) \in S /\ 1 \in DOMAIN q
           /\ Tail(q) \in Seq(S) /\ Len(Tail(q)) = Len(q) - 1
           /\ DOMAIN Tail(q) = 1..Len(q) - 1
           /\ \A i \in 1..Len(q) - 1 : i + 1 \in DOMAIN q /\ Tail(q)[i] = q[i + 1]
           /\ Len(q) = 1 => Tail(q) = << >>
<1>1. /\ Len(q) \in Nat \ {0} /\ DOMAIN q = 1..Len(q)
      /\ Head(q) = q[1] /\ Head(q) \in S /\ 1 \in DOMAIN q
      /\ Tail(q) \in Seq(S) /\ Len(Tail(q)) = Len(q) - 1
      /\ DOMAIN Tail(q) = 1..Len(q) - 1
      /\ \A i \in 1..Len(q) - 1 : i + 1 \in DOMAIN q /\ Tail(q)[i] = q[i + 1]
  OBVIOUS
<1>2. Len(q) = 1 => Tail(q) = << >>
  BY <1>1, EmptySeq
<1> QED BY <1>1, <1>2

LEMMA AppendOf ==
    ASSUME NEW S, NEW q \in Seq(S), NEW e \in S
    PROVE  /\ Len(q) \in Nat /\ DOMAIN q = 1..Len(q)
           /\ Append(q, e) \in Seq(S) /\ Len(Append(q, e)) = Len(q) + 1
           /\ DOMAIN Append(q, e) = 1..Len(q) + 1
           /\ \A i \in 1..Len(q) : Append(q, e)[i] = q[i]
           /\ Append(q, e)[Len(q) + 1] = e
OBVIOUS

LEMMA ElementOf ==
    ASSUME NEW S, NEW q \in Seq(S)
    PROVE  \A i \in DOMAIN q : q[i] \in S
OBVIOUS

LEMMA SeqMono ==
    ASSUME NEW S, NEW T, S \subseteq T
    PROVE  Seq(S) \subseteq Seq(T)
OBVIOUS

-----------------------------------------------------------------------------
(* Safe mode (ScannerBoot): x1 broken, x2 device, x3 ram, x4 forced,        *)
(* x5 faults.                                                               *)
BootInv == Boot!TypeOK /\ Boot!ForcedInv

LEMMA BootInitial == Boot!Init => BootInv
<1> SUFFICES ASSUME Boot!Init PROVE BootInv
  OBVIOUS
<1>1. Boot!TypeOK
  <2>1. /\ x2 = [image |-> "old", new |-> "none", rtc |-> FALSE, reset |-> "power",
                 nvs |-> [count |-> 0, force |-> FALSE, clear |-> FALSE]]
        /\ x3 = [pc |-> "off", pending |-> FALSE, safe |-> FALSE, count |-> 0,
                 told |-> FALSE, task |-> "none"]
        /\ x4 = FALSE
    BY DEF Boot!Init, Boot!NoRam, Boot!NoNvs
  <2> QED BY <2>1 DEF Boot!TypeOK
<1> QED BY <1>1 DEF Boot!Init, BootInv, Boot!ForcedInv, Boot!ForcedStays, Boot!Up, Boot!NoRam

LEMMA BootNext == BootInv /\ [Boot!Next]_(Boot!vars) => BootInv'
<1> SUFFICES ASSUME BootInv, [Boot!Next]_(Boot!vars) PROVE BootInv'
  OBVIOUS
<1> USE DEF BootInv, Boot!ForcedInv, Boot!ForcedStays, Boot!Up, Boot!ClearArmed
<1>1. CASE Boot!Boot
  BY <1>1 DEF Boot!Boot, Boot!Load, Boot!NoRam, Boot!TypeOK
<1>2. CASE Boot!InitClear
  <2>1. CASE Boot!ClearArmed
    <3>1. x2' = [x2 EXCEPT !.rtc = FALSE] /\ x3' = [x3 EXCEPT !.pc = "erase"]
      BY <1>2, <2>1 DEF Boot!InitClear
    <3>2. x4' = x4 /\ x3.pc = "init"
      BY <1>2 DEF Boot!InitClear
    <3>3. Boot!TypeOK'
      BY <3>1, <3>2 DEF Boot!TypeOK
    <3>4. /\ x2'.rtc = FALSE /\ x2'.nvs = x2.nvs /\ x3'.pc = "erase"
          /\ (Boot!ForcedStays <=> Boot!ForcedStays')
      BY <3>1, <3>2 DEF Boot!TypeOK
    <3> QED BY <2>1, <3>2, <3>3, <3>4
  <2>2. CASE ~Boot!ClearArmed
    BY <1>2, <2>2 DEF Boot!InitClear, Boot!TypeOK
  <2> QED BY <2>1, <2>2
<1>3. CASE Boot!InitErase
  BY <1>3 DEF Boot!InitErase, Boot!NvsErased, Boot!NoNvs, Boot!TypeOK
<1>4. CASE Boot!Decide
  <2> DEFINE crashed == x2.reset = "crash"
             pending == x2.image = "new" /\ x2.new = "pending"
             count   == x2.nvs.count + IF crashed THEN 1 ELSE 0
             bad     == crashed /\ pending
             safe    == x2.nvs.force \/ (crashed /\ ~pending /\ Boot!CrashLoop(count))
             new     == IF safe /\ pending /\ ~bad THEN "valid" ELSE x2.new
  <2>1. /\ x2' = [x2 EXCEPT !.nvs.count = count, !.new = new]
        /\ x3' = [x3 EXCEPT !.pc = IF bad THEN "rollback" ELSE "up",
                     !.pending = pending /\ ~safe, !.safe = safe, !.count = count,
                     !.task = IF safe THEN "none" ELSE "waiting"]
        /\ x3.pc = "decide" /\ UNCHANGED <<x1, x4, x5>>
    BY <1>4 DEF Boot!Decide
  <2>2. /\ count \in Nat /\ safe \in BOOLEAN /\ pending \in BOOLEAN
        /\ new \in {"none", "written", "pending", "aborted", "valid"}
        /\ x2.nvs.force => safe
    BY DEF Boot!TypeOK
  <2> HIDE DEF count, safe, pending, new, bad
  <2>3. /\ x2'.nvs.force = x2.nvs.force /\ x2'.nvs.clear = x2.nvs.clear /\ x2'.rtc = x2.rtc
        /\ x3'.pc \in {"rollback", "up"} /\ x3'.safe = safe
    BY <2>1 DEF Boot!TypeOK
  <2>4. Boot!TypeOK'
    BY <2>1, <2>2 DEF Boot!TypeOK
  <2> QED BY <2>1, <2>2, <2>3, <2>4
<1>5. CASE Boot!RollBack
  BY <1>5 DEF Boot!RollBack, Boot!Off, Boot!NoRam, Boot!TypeOK
<1>6. CASE Boot!Crash
  BY <1>6 DEF Boot!Crash, Boot!Halt, Boot!Off, Boot!NoRam, Boot!TypeOK
<1>7. CASE Boot!Told
  BY <1>7 DEF Boot!Told, Boot!TypeOK
<1>8. CASE Boot!Healthy \/ Boot!GiveUp
  <2>1. CASE Boot!MarkValid /\ Boot!Up /\ UNCHANGED <<x1, x4, x5>>
    <3> DEFINE count == IF x3.count # 0 THEN 0 ELSE x2.nvs.count
               new   == IF x3.pending THEN "valid" ELSE x2.new
    <3>1. /\ x2' = [x2 EXCEPT !.nvs.count = count, !.new = new]
          /\ x3' = [x3 EXCEPT !.pending = FALSE, !.count = 0, !.task = "done"]
      BY <2>1 DEF Boot!MarkValid
    <3>2. count \in Nat /\ new \in {"none", "written", "pending", "aborted", "valid"}
      BY DEF Boot!TypeOK
    <3> HIDE DEF count, new
    <3>3. /\ x2'.nvs.force = x2.nvs.force /\ x2'.nvs.clear = x2.nvs.clear /\ x2'.rtc = x2.rtc
          /\ x3'.pc = x3.pc /\ x3'.safe = x3.safe
      BY <3>1 DEF Boot!TypeOK
    <3>4. Boot!TypeOK'
      BY <2>1, <3>1, <3>2 DEF Boot!TypeOK
    <3> QED BY <2>1, <3>3, <3>4
  <2>2. CASE x3' = [x3 EXCEPT !.task = "done"] /\ UNCHANGED <<x1, x2, x4, x5>>
    BY <2>2 DEF Boot!TypeOK
  <2> QED BY <1>8, <2>1, <2>2 DEF Boot!Healthy, Boot!GiveUp
<1>9. CASE Boot!RebootOrRestart
  <2>1. /\ x2' = [Boot!Off("soft") EXCEPT !.image = "old", !.new = "aborted"]
           \/ x2' = Boot!Off("soft")
        /\ x3' = Boot!NoRam /\ UNCHANGED x4
    BY <1>9 DEF Boot!RebootOrRestart
  <2> QED BY <2>1, ZenonT(60) DEF Boot!Off, Boot!NoRam, Boot!TypeOK
<1>10. CASE Boot!Update
  BY <1>10 DEF Boot!Update, Boot!TypeOK
<1>11. CASE \E reason \in {"soft", "crash"} : Boot!UpdateEnds(reason)
  BY <1>11 DEF Boot!UpdateEnds, Boot!Halt, Boot!Off, Boot!NoRam, Boot!TypeOK
<1>12. CASE Boot!ForceSafe
  BY <1>12 DEF Boot!ForceSafe, Boot!TypeOK
<1>13. CASE Boot!ForceSafeEnds
  BY <1>13 DEF Boot!ForceSafeEnds, Boot!Off, Boot!NoRam, Boot!TypeOK
<1>14. CASE Boot!ClearRtc
  BY <1>14 DEF Boot!ClearRtc, Boot!TypeOK
<1>15. CASE Boot!ClearNvs
  BY <1>15 DEF Boot!ClearNvs, Boot!NoNvs, Boot!TypeOK
<1>16. CASE Boot!ClearOnce
  BY <1>16 DEF Boot!ClearOnce, Boot!Off, Boot!NoRam, Boot!TypeOK
<1>17. CASE Boot!PowerCut
  BY <1>17 DEF Boot!PowerCut, Boot!Off, Boot!NoRam, Boot!TypeOK
<1>18. CASE UNCHANGED Boot!vars
  BY <1>18 DEF Boot!vars, Boot!TypeOK
<1> QED BY <1>1, <1>2, <1>3, <1>4, <1>5, <1>6, <1>7, <1>8, <1>9, <1>10, <1>11, <1>12,
           <1>13, <1>14, <1>15, <1>16, <1>17, <1>18 DEF Boot!Next

-----------------------------------------------------------------------------
(* Calibration: x1 node, x2 armed, x3 info, x4 heard, x5 down, x6 up,       *)
(* x7 handler, x8 told, x9 fell, x10 wanted, x11 left.                      *)
CalInv == Calibrating!TypeOK /\ Calibrating!StartedInv
Said == [mode : Calibrating!Ids, acked : BOOLEAN]
SaidBy == [Scanners -> Seq(Said)]

LEMMA CalInitial == Calibrating!Init => CalInv
<1> SUFFICES ASSUME Calibrating!Init PROVE CalInv
  OBVIOUS
<1>1. x11 = [starts |-> Starts, losses |-> Losses, resets |-> Resets, busy |-> Busy]
      /\ x7 = [at |-> "idle", id |-> 0, who |-> {}]
  BY DEF Calibrating!Init, Calibrating!Idle, Calibrating!Normal
<1>2. Calibrating!Ids = 0..0
  BY <1>1, PartsAssumption DEF PartsAssumption, Calibrating!Ids, Calibrating!Begun
<1>3. 0 \in Calibrating!Ids
  BY <1>2
<1>4. /\ x2 = [s \in Scanners |-> 0] /\ x3 = [s \in Scanners |-> [mode |-> 0, acked |-> FALSE]]
      /\ x4 = Scanners /\ x9 = {}
      /\ x5 = [s \in Scanners |-> << >>] /\ x6 = [s \in Scanners |-> << >>]
  BY DEF Calibrating!Init, Calibrating!Normal
<1>5. x11 \in [starts : 0..Starts, losses : Nat, resets : Nat, busy : Nat]
  BY <1>1, PartsAssumption DEF PartsAssumption
<1>6. x7 \in [at : {"idle", "start", "undo", "stop"}, id : Calibrating!Ids, who : SUBSET Scanners]
  BY <1>1, <1>3
<1>7. Calibrating!TypeOK
  BY <1>3, <1>4, <1>5, <1>6 DEF Calibrating!TypeOK
<1> QED BY <1>1, <1>7 DEF CalInv, Calibrating!StartedInv

\* The identities a later start adds to.
LEMMA CalSame ==
    ASSUME x11'.starts = x11.starts
    PROVE  Calibrating!Begun' = Calibrating!Begun /\ Calibrating!Ids' = Calibrating!Ids
BY DEF Calibrating!Begun, Calibrating!Ids

\* A line sent to everybody, unless the wire is full.
LEMMA CalSent ==
    ASSUME NEW S, x5 \in [Scanners -> Seq(S)], NEW m \in S, Calibrating!SendAll(m)
    PROVE  /\ x5' \in [Scanners -> Seq(S)]
           /\ \A s \in Scanners : x5'[s] = x5[s] \/ x5'[s] = Append(x5[s], m)
<1>1. \A s \in Scanners : Append(x5[s], m) \in Seq(S)
  OBVIOUS
<1> QED BY <1>1 DEF Calibrating!SendAll

LEMMA CalStart == CalInv /\ Calibrating!PostStart => CalInv'
<1> SUFFICES ASSUME CalInv, Calibrating!PostStart PROVE CalInv'
  OBVIOUS
<1> DEFINE id == Starts - x11.starts + 1
<1>1. /\ x7 = Calibrating!Idle /\ x11.starts > 0 /\ x11' = [x11 EXCEPT !.starts = @ - 1]
      /\ UNCHANGED <<x2, x4, x6, x10>>
  BY DEF Calibrating!PostStart
<1>2. /\ x11 \in [starts : 0..Starts, losses : Nat, resets : Nat, busy : Nat]
      /\ x11.starts \in 0..Starts /\ Starts \in Nat
  BY PartsAssumption DEF CalInv, Calibrating!TypeOK, PartsAssumption
<1>3. x11'.starts = x11.starts - 1
  BY <1>1, <1>2
<1>4. /\ x11.starts - 1 \in 0..Starts
      /\ Starts - (x11.starts - 1) = id /\ id \in Nat \ {0} /\ Starts - x11.starts = id - 1
  BY <1>1, <1>2
<1>5. x11' \in [starts : 0..Starts, losses : Nat, resets : Nat, busy : Nat]
  BY <1>1, <1>2, <1>4
<1>6. Calibrating!Begun' = id /\ Calibrating!Begun = id - 1
  BY <1>3, <1>4 DEF Calibrating!Begun
<1>7. /\ Calibrating!Ids \subseteq Calibrating!Ids' /\ id \in Calibrating!Ids'
      /\ 0 \in Calibrating!Ids' /\ id \notin Calibrating!Ids
  BY <1>4, <1>6 DEF Calibrating!Ids
<1> HIDE DEF id
<1> DEFINE I == Calibrating!Ids
           J == Calibrating!Ids'
<1>8. /\ x2 \in [Scanners -> I] /\ x3 \in [Scanners -> [mode : I, acked : BOOLEAN]]
      /\ x4 \subseteq Scanners /\ x9 \subseteq Scanners
      /\ x5 \in [Scanners -> Seq(I)] /\ x6 \in [Scanners -> Seq([mode : I, acked : BOOLEAN])]
  BY DEF CalInv, Calibrating!TypeOK
<1>9. I \subseteq J
  BY <1>7
<1> HIDE DEF I, J
<1>10. /\ x2 \in [Scanners -> J] /\ x3 \in [Scanners -> [mode : J, acked : BOOLEAN]]
       /\ x5 \in [Scanners -> Seq(J)] /\ x6 \in [Scanners -> Seq([mode : J, acked : BOOLEAN])]
  <2>1. [mode : I, acked : BOOLEAN] \subseteq [mode : J, acked : BOOLEAN]
    BY <1>9
  <2>2. Seq(I) \subseteq Seq(J)
    BY <1>9
  <2>3. Seq([mode : I, acked : BOOLEAN]) \subseteq Seq([mode : J, acked : BOOLEAN])
    BY <2>1, SeqMono
  <2> QED BY <1>8, <1>9, <2>1, <2>2, <2>3
<1>11. CASE UNCHANGED <<x1, x3, x5, x7, x9>>
  <2>1. x7' = [at |-> "idle", id |-> 0, who |-> {}]
    BY <1>1, <1>11 DEF Calibrating!Idle, Calibrating!Normal
  <2>2. x7' \in [at : {"idle", "start", "undo", "stop"}, id : J, who : SUBSET Scanners]
    BY <2>1, <1>7 DEF J
  <2>3. Calibrating!TypeOK'
    BY <1>1, <1>5, <1>8, <1>10, <1>11, <2>2 DEF Calibrating!TypeOK, J
  <2> QED BY <2>1, <2>3 DEF CalInv, Calibrating!StartedInv
<1>12. CASE /\ Calibrating!SetNode(id) /\ Calibrating!SendAll(id)
            /\ x7' = [at |-> "start", id |-> id, who |-> x4] /\ x9' = {}
  <2>1. id \in J
    BY <1>7 DEF J
  <2>2. /\ x5' \in [Scanners -> Seq(J)]
        /\ \A s \in Scanners : x5'[s] = x5[s] \/ x5'[s] = Append(x5[s], id)
    BY <1>10, <1>12, <2>1, CalSent
  <2>3. /\ x3' \in [Scanners -> [mode : J, acked : BOOLEAN]]
        /\ \A s \in Scanners : x3'[s].mode = x3[s].mode
    BY <1>10, <1>12 DEF Calibrating!SetNode
  <2>4. x7' \in [at : {"idle", "start", "undo", "stop"}, id : J, who : SUBSET Scanners]
    BY <1>8, <1>12, <2>1
  <2>5. x9' \subseteq Scanners /\ x2' \in [Scanners -> J] /\ x4' \subseteq Scanners
        /\ x6' \in [Scanners -> Seq([mode : J, acked : BOOLEAN])]
    BY <1>1, <1>8, <1>10, <1>12
  <2>6. Calibrating!TypeOK'
    BY <1>5, <2>2, <2>3, <2>4, <2>5 DEF Calibrating!TypeOK, J
  <2>7. ASSUME NEW s \in Scanners, NEW n, n = id PROVE Calibrating!SaysSo(s, n)'
    <3>1. /\ x2'[s] # id /\ x3'[s].mode # id /\ \A i \in DOMAIN x6'[s] : x6'[s][i].mode # id
      <4>1. x2[s] \in I /\ x3[s].mode \in I /\ \A i \in DOMAIN x6[s] : x6[s][i].mode \in I
        <5>1. x6[s] \in Seq([mode : I, acked : BOOLEAN])
          BY <1>8
        <5>2. \A i \in DOMAIN x6[s] : x6[s][i] \in [mode : I, acked : BOOLEAN]
          BY <5>1, ElementOf
        <5> QED BY <1>8, <5>2
      <4>2. id \notin I
        BY <1>7 DEF I
      <4> QED BY <1>1, <2>3, <4>1, <4>2
    <3>2. \A i \in DOMAIN x5'[s] : x5'[s][i] = id => i = Len(x5'[s])
      <4>1. x5[s] \in Seq(I) /\ \A i \in DOMAIN x5[s] : x5[s][i] \in I
        BY <1>8
      <4>2. id \notin I
        BY <1>7 DEF I
      <4>3. x5[s] \in Seq(J)
        BY <1>10
      <4>4. CASE x5'[s] = x5[s]
        BY <4>1, <4>2, <4>4
      <4>5. CASE x5'[s] = Append(x5[s], id)
        BY <4>1, <4>2, <4>3, <4>5, <2>1, AppendOf
      <4>6. x5'[s] = x5[s] \/ x5'[s] = Append(x5[s], id)
        BY <2>2
      <4> QED BY <4>4, <4>5, <4>6
    <3> QED BY <2>7, <3>1, <3>2 DEF Calibrating!SaysSo, Calibrating!OnlyLast
  <2>8. /\ x7'.at = "start" /\ x7'.id = id /\ id # 0
    BY <1>4, <1>12
  <2>9. \A s \in Scanners : Calibrating!SaysSo(s, x7.id)'
    <3>1. SUFFICES ASSUME NEW s \in Scanners, NEW n, n = x7'.id
                   PROVE  Calibrating!SaysSo(s, n)'
      BY DEF Calibrating!SaysSo, Calibrating!OnlyLast
    <3> QED BY <2>7, <2>8, <3>1
  <2>10. Calibrating!StartedInv'
    BY <1>6, <2>8, <2>9 DEF Calibrating!StartedInv, Calibrating!Normal
  <2> QED BY <2>6, <2>10 DEF CalInv
<1> QED BY <1>11, <1>12 DEF Calibrating!PostStart, id


\* What the handlers do besides starting a session.
LEMMA CalHandlers ==
    ASSUME CalInv, \/ Calibrating!StartMet \/ Calibrating!StartLate \/ Calibrating!Undone
                   \/ Calibrating!PostStop \/ Calibrating!StopMet \/ Calibrating!StopLate
    PROVE  CalInv'
<1> DEFINE I == Calibrating!Ids
<1>1. UNCHANGED <<x2, x4, x6, x9, x11>>
  BY DEF Calibrating!StartMet, Calibrating!StartLate, Calibrating!Undone, Calibrating!PostStop,
         Calibrating!StopMet, Calibrating!StopLate
<1>2. Calibrating!Begun' = Calibrating!Begun /\ I' = I
  BY <1>1, CalSame
<1>3. 0 \in I
  BY PartsAssumption DEF PartsAssumption, I, Calibrating!Ids, Calibrating!Begun, CalInv, Calibrating!TypeOK
<1>4. x3' \in [Scanners -> [mode : I, acked : BOOLEAN]]
  <2>1. UNCHANGED x3 \/ Calibrating!SetNode(Calibrating!Normal)
    BY DEF Calibrating!StartMet, Calibrating!StartLate, Calibrating!Undone, Calibrating!PostStop,
           Calibrating!StopMet, Calibrating!StopLate
  <2>2. x3 \in [Scanners -> [mode : I, acked : BOOLEAN]]
    BY DEF CalInv, Calibrating!TypeOK
  <2> QED BY <2>1, <2>2 DEF Calibrating!SetNode
<1>5. x5' \in [Scanners -> Seq(I)]
  <2>1. UNCHANGED x5 \/ Calibrating!SendAll(Calibrating!Normal)
    BY DEF Calibrating!StartMet, Calibrating!StartLate, Calibrating!Undone, Calibrating!PostStop,
           Calibrating!StopMet, Calibrating!StopLate
  <2>2. x5 \in [Scanners -> Seq(I)]
    BY DEF CalInv, Calibrating!TypeOK
  <2> QED BY <1>3, <2>1, <2>2, CalSent DEF Calibrating!Normal
<1>6. /\ x7' \in [at : {"idle", "start", "undo", "stop"}, id : I, who : SUBSET Scanners]
      /\ x7'.at # "start"
  <2>1. \/ x7' = [at |-> "idle", id |-> 0, who |-> {}]
        \/ x7' = [at |-> "undo", id |-> 0, who |-> x4]
        \/ x7' = [at |-> "stop", id |-> 0, who |-> x4]
    BY DEF Calibrating!StartMet, Calibrating!StartLate, Calibrating!Undone, Calibrating!PostStop,
           Calibrating!StopMet, Calibrating!StopLate, Calibrating!Idle, Calibrating!Normal
  <2>2. x4 \subseteq Scanners
    BY DEF CalInv, Calibrating!TypeOK
  <2> QED BY <1>3, <2>1, <2>2
<1>7. Calibrating!TypeOK'
  <2>1. /\ x11 \in [starts : 0..Starts, losses : Nat, resets : Nat, busy : Nat]
        /\ x2 \in [Scanners -> I] /\ x4 \subseteq Scanners /\ x9 \subseteq Scanners
        /\ x6 \in [Scanners -> Seq([mode : I, acked : BOOLEAN])]
    BY DEF CalInv, Calibrating!TypeOK
  <2> HIDE DEF I
  <2>2. /\ x11' \in [starts : 0..Starts, losses : Nat, resets : Nat, busy : Nat]
        /\ x2' \in [Scanners -> I] /\ x4' \subseteq Scanners /\ x9' \subseteq Scanners
        /\ x6' \in [Scanners -> Seq([mode : I, acked : BOOLEAN])]
    BY <1>1, <2>1
  <2>3. Calibrating!Ids' = I
    BY <1>2 DEF I
  <2> QED BY <1>4, <1>5, <1>6, <2>2, <2>3 DEF Calibrating!TypeOK
<1>8. Calibrating!StartedInv'
  BY <1>6 DEF Calibrating!StartedInv
<1> QED BY <1>7, <1>8 DEF CalInv

\* A line of a scanner's, unless the wire is full.
LEMMA CalSay ==
    ASSUME x6 \in SaidBy, NEW s \in Scanners, NEW m \in Said, Calibrating!Say(s, m)
    PROVE  /\ x6' \in SaidBy
           /\ \A t \in Scanners : t # s => x6'[t] = x6[t]
           /\ \A i \in DOMAIN x6'[s] : x6'[s][i] = m \/ (i \in DOMAIN x6[s] /\ x6'[s][i] = x6[s][i])
<1>1. CASE UNCHANGED x6
  BY <1>1
<1>2. CASE x6' = [x6 EXCEPT ![s] = Append(@, m)]
  <2>1. x6[s] \in Seq(Said)
    BY DEF SaidBy
  <2>2. /\ Append(x6[s], m) \in Seq(Said)
        /\ \A i \in DOMAIN Append(x6[s], m) :
              \/ Append(x6[s], m)[i] = m
              \/ i \in DOMAIN x6[s] /\ Append(x6[s], m)[i] = x6[s][i]
    BY <2>1, AppendOf
  <2>3. x6'[s] = Append(x6[s], m)
    BY <1>2 DEF SaidBy
  <2> QED BY <1>2, <2>2, <2>3 DEF SaidBy
<1> QED BY <1>1, <1>2 DEF Calibrating!Say

LEMMA CalScanners ==
    ASSUME CalInv, NEW s \in Scanners,
           \/ Calibrating!TakeStart(s) \/ Calibrating!TakeStop(s) \/ Calibrating!Status(s)
           \/ Calibrating!ReadLine(s) \/ Calibrating!Reset(s) \/ Calibrating!Lose(s)
    PROVE  CalInv'
<1> DEFINE I == Calibrating!Ids
           M == [mode : I, acked : BOOLEAN]
<1>1. /\ x11 \in [starts : 0..Starts, losses : Nat, resets : Nat, busy : Nat]
      /\ x7 \in [at : {"idle", "start", "undo", "stop"}, id : I, who : SUBSET Scanners]
      /\ x2 \in [Scanners -> I] /\ x3 \in [Scanners -> M]
      /\ x4 \subseteq Scanners /\ x9 \subseteq Scanners
      /\ x5 \in [Scanners -> Seq(I)] /\ x6 \in [Scanners -> Seq(M)]
  BY DEF CalInv, Calibrating!TypeOK
<1>2. 0 \in I
  BY PartsAssumption, <1>1 DEF PartsAssumption, Calibrating!Ids, Calibrating!Begun
<1>3. /\ x11' \in [starts : 0..Starts, losses : Nat, resets : Nat, busy : Nat]
      /\ x11'.starts = x11.starts
  <2>1. \/ UNCHANGED x11
        \/ x11.busy > 0 /\ x11' = [x11 EXCEPT !.busy = @ - 1]
        \/ x11.resets > 0 /\ x11' = [x11 EXCEPT !.resets = @ - 1]
        \/ x11.losses > 0 /\ x11' = [x11 EXCEPT !.losses = @ - 1]
    BY DEF Calibrating!TakeStart, Calibrating!TakeStop, Calibrating!Status,
           Calibrating!ReadLine, Calibrating!Reset, Calibrating!Lose
  <2>2. CASE UNCHANGED x11
    BY <1>1, <2>2
  <2>3. CASE x11.busy > 0 /\ x11' = [x11 EXCEPT !.busy = @ - 1]
    <3>1. x11.busy - 1 \in Nat
      BY <1>1, <2>3
    <3> QED BY <1>1, <2>3, <3>1
  <2>4. CASE x11.resets > 0 /\ x11' = [x11 EXCEPT !.resets = @ - 1]
    <3>1. x11.resets - 1 \in Nat
      BY <1>1, <2>4
    <3> QED BY <1>1, <2>4, <3>1
  <2>5. CASE x11.losses > 0 /\ x11' = [x11 EXCEPT !.losses = @ - 1]
    <3>1. x11.losses - 1 \in Nat
      BY <1>1, <2>5
    <3> QED BY <1>1, <2>5, <3>1
  <2> QED BY <2>1, <2>2, <2>3, <2>4, <2>5
<1>4. Calibrating!Begun' = Calibrating!Begun /\ Calibrating!Ids' = I
  BY <1>3, CalSame
<1> HIDE DEF I
<1>5. x7' = x7 /\ x9 \subseteq x9'
  BY DEF Calibrating!TakeStart, Calibrating!TakeStop, Calibrating!Status,
         Calibrating!ReadLine, Calibrating!Reset, Calibrating!Lose
<1>6. SUFFICES /\ x2' \in [Scanners -> I] /\ x3' \in [Scanners -> M]
               /\ x4' \subseteq Scanners /\ x9' \subseteq Scanners
               /\ x5' \in [Scanners -> Seq(I)] /\ x6' \in [Scanners -> Seq(M)]
               /\ \A t \in Scanners : t # s =>
                    x2'[t] = x2[t] /\ x3'[t] = x3[t] /\ x5'[t] = x5[t] /\ x6'[t] = x6[t]
               /\ s \notin x9' => \A id \in I : Calibrating!SaysSo(s, id) /\ id # 0
                                     => Calibrating!SaysSo(s, id)'
  <2>1. Calibrating!TypeOK'
    BY <1>1, <1>3, <1>4, <1>5, <1>6 DEF Calibrating!TypeOK
  <2>2. Calibrating!StartedInv'
    <3>1. SUFFICES ASSUME x7.at = "start", NEW t \in Scanners \ x9', NEW id \in I, id = x7.id,
                          id # 0, Calibrating!SaysSo(t, id)
                   PROVE  Calibrating!SaysSo(t, id)'
      <4>1. ASSUME x7.at = "start" PROVE /\ x7.id = Calibrating!Begun /\ x7.id # 0 /\ x7.id \in I
                                         /\ \A t \in Scanners \ x9 : Calibrating!SaysSo(t, x7.id)
        BY <1>1, <4>1 DEF CalInv, Calibrating!StartedInv, Calibrating!Normal
      <4>2. ASSUME x7.at = "start", NEW t \in Scanners \ x9', NEW id, id = x7.id
            PROVE  Calibrating!SaysSo(t, id)'
        BY <3>1, <4>1, <4>2, <1>5
      <4>3. ASSUME x7.at = "start", NEW t \in Scanners \ x9'
            PROVE  Calibrating!SaysSo(t, x7.id)'
        BY <4>2, <4>3, <1>5, ZenonT(60) DEF Calibrating!SaysSo, Calibrating!OnlyLast
      <4> QED BY <4>1, <4>3, <1>4, <1>5 DEF Calibrating!StartedInv, Calibrating!Normal
    <3>2. CASE t = s
      BY <1>6, <3>1, <3>2
    <3>3. CASE t # s
      BY <1>6, <3>1, <3>3 DEF Calibrating!SaysSo, Calibrating!OnlyLast
    <3> QED BY <3>2, <3>3
  <2> QED BY <2>1, <2>2 DEF CalInv
<1>7. x5[s] \in Seq(I) /\ x6[s] \in Seq(M) /\ x2[s] \in I /\ x3[s] \in M
  BY <1>1
<1> DEFINE q == x5[s]
           u == x6[s]
<1>8. ASSUME q # << >>
      PROVE  /\ Tail(q) \in Seq(I) /\ Head(q) \in I /\ Head(q) = q[1] /\ 1 \in DOMAIN q
             /\ \A id : (\A i \in DOMAIN q : q[i] = id => i = Len(q))
                   => /\ \A i \in DOMAIN Tail(q) : Tail(q)[i] = id => i = Len(Tail(q))
                      /\ Head(q) = id => Tail(q) = << >>
  <2>1. /\ Len(q) \in Nat \ {0} /\ DOMAIN q = 1..Len(q)
        /\ Head(q) = q[1] /\ Head(q) \in I /\ 1 \in DOMAIN q
        /\ Tail(q) \in Seq(I) /\ Len(Tail(q)) = Len(q) - 1
        /\ DOMAIN Tail(q) = 1..Len(q) - 1
        /\ \A i \in 1..Len(q) - 1 : i + 1 \in DOMAIN q /\ Tail(q)[i] = q[i + 1]
        /\ Len(q) = 1 => Tail(q) = << >>
    BY <1>7, <1>8, TailOf
  <2> HIDE DEF q
  <2> QED BY <2>1
<1>9. ASSUME u # << >>
      PROVE  /\ Tail(u) \in Seq(M) /\ Head(u) \in M /\ Head(u) = u[1] /\ 1 \in DOMAIN u
             /\ \A i \in DOMAIN Tail(u) : i + 1 \in DOMAIN u /\ Tail(u)[i] = u[i + 1]
  <2>1. /\ Head(u) = u[1] /\ Head(u) \in M /\ 1 \in DOMAIN u
        /\ Tail(u) \in Seq(M)
        /\ DOMAIN Tail(u) = 1..Len(u) - 1
        /\ \A i \in 1..Len(u) - 1 : i + 1 \in DOMAIN u /\ Tail(u)[i] = u[i + 1]
    BY <1>7, <1>9, TailOf
  <2> QED BY <2>1
<1>10. CASE Calibrating!TakeStart(s)
  <2>1. /\ q # << >> /\ x5' = [x5 EXCEPT ![s] = Tail(q)] /\ Head(q) # 0
        /\ UNCHANGED <<x3, x4, x9>>
    BY <1>10 DEF Calibrating!TakeStart, Calibrating!Normal
  <2>2. x5' \in [Scanners -> Seq(I)] /\ x5'[s] = Tail(q) /\ \A t \in Scanners : t # s => x5'[t] = x5[t]
    BY <1>1, <1>8, <2>1
  <2>3. PICK a \in I, m \in M : /\ x2' = [x2 EXCEPT ![s] = a] /\ Calibrating!Say(s, m)
                                /\ m.mode = a /\ (a = Head(q) \/ a = x2[s])
    <3>1. CASE Calibrating!Arm(s, Head(q)) /\ Calibrating!Say(s, [mode |-> Head(q), acked |-> TRUE])
      <4>1. [mode |-> Head(q), acked |-> TRUE] \in M
        BY <1>8, <2>1
      <4> QED BY <1>8, <2>1, <3>1, <4>1 DEF Calibrating!Arm
    <3>2. CASE UNCHANGED x2 /\ Calibrating!Say(s, [mode |-> x2[s], acked |-> FALSE])
      <4>1. [mode |-> x2[s], acked |-> FALSE] \in M
        BY <1>7
      <4>2. x2' = [x2 EXCEPT ![s] = x2[s]]
        BY <1>1, <3>2
      <4> QED BY <1>7, <3>2, <4>1, <4>2
    <3> QED BY <1>10, <3>1, <3>2 DEF Calibrating!TakeStart
  <2>4. /\ x6' \in [Scanners -> Seq(M)]
        /\ \A t \in Scanners : t # s => x6'[t] = x6[t]
        /\ \A i \in DOMAIN x6'[s] : x6'[s][i] = m \/ (i \in DOMAIN x6[s] /\ x6'[s][i] = x6[s][i])
    <3>1. x6 \in SaidBy /\ m \in Said /\ Calibrating!Say(s, m)
      BY <1>1, <2>3 DEF I, M, SaidBy, Said
    <3>2. /\ x6' \in SaidBy
          /\ \A t \in Scanners : t # s => x6'[t] = x6[t]
          /\ \A i \in DOMAIN x6'[s] : x6'[s][i] = m \/ (i \in DOMAIN x6[s] /\ x6'[s][i] = x6[s][i])
      BY <3>1, CalSay
    <3> QED BY <3>2 DEF I, M, SaidBy, Said
  <2>5. x2' \in [Scanners -> I] /\ x2'[s] = a /\ \A t \in Scanners : t # s => x2'[t] = x2[t]
    BY <1>1, <2>3
  <2>6. ASSUME NEW id \in I, Calibrating!SaysSo(s, id) PROVE Calibrating!SaysSo(s, id)'
    <3>1. /\ \A i \in DOMAIN q : q[i] = id => i = Len(q)
          /\ x2[s] = id => q = << >>
          /\ \A i \in DOMAIN u : u[i].mode = id => x2[s] = id
          /\ x3[s].mode = id => x2[s] = id
      BY <2>6 DEF Calibrating!SaysSo, Calibrating!OnlyLast
    <3>2. x2[s] # id
      BY <2>1, <3>1
    <3>3. /\ \A i \in DOMAIN Tail(q) : Tail(q)[i] = id => i = Len(Tail(q))
          /\ a = id => Tail(q) = << >>
      BY <1>8, <2>1, <2>3, <3>1, <3>2
    <3>4. \A i \in DOMAIN x6'[s] : x6'[s][i].mode = id => a = id
      BY <2>3, <2>4, <3>1, <3>2
    <3>5. x3'[s].mode = id => a = id
      BY <2>1, <3>1, <3>2
    <3> QED BY <2>2, <2>5, <3>3, <3>4, <3>5 DEF Calibrating!SaysSo, Calibrating!OnlyLast
  <2> QED BY <1>1, <2>1, <2>2, <2>4, <2>5, <2>6
<1>11. CASE Calibrating!TakeStop(s)
  <2> DEFINE m == [mode |-> 0, acked |-> TRUE]
  <2>1. /\ q # << >> /\ x5' = [x5 EXCEPT ![s] = Tail(q)]
        /\ x2' = [x2 EXCEPT ![s] = 0] /\ Calibrating!Say(s, m)
        /\ UNCHANGED <<x3, x4, x9>>
    BY <1>11 DEF Calibrating!TakeStop, Calibrating!Disarm, Calibrating!Normal
  <2>2. /\ x5' \in [Scanners -> Seq(I)] /\ x5'[s] = Tail(q)
        /\ x2' \in [Scanners -> I] /\ x2'[s] = 0
        /\ \A t \in Scanners : t # s => x5'[t] = x5[t] /\ x2'[t] = x2[t]
    BY <1>1, <1>2, <1>8, <2>1
  <2>3. m \in M /\ m.mode = 0
    BY <1>2
  <2> HIDE DEF m
  <2>4. /\ x6' \in [Scanners -> Seq(M)]
        /\ \A t \in Scanners : t # s => x6'[t] = x6[t]
        /\ \A i \in DOMAIN x6'[s] : x6'[s][i] = m \/ (i \in DOMAIN x6[s] /\ x6'[s][i] = x6[s][i])
    <3>1. x6 \in SaidBy /\ m \in Said /\ Calibrating!Say(s, m)
      BY <1>1, <2>1, <2>3 DEF I, M, SaidBy, Said
    <3>2. /\ x6' \in SaidBy
          /\ \A t \in Scanners : t # s => x6'[t] = x6[t]
          /\ \A i \in DOMAIN x6'[s] : x6'[s][i] = m \/ (i \in DOMAIN x6[s] /\ x6'[s][i] = x6[s][i])
      BY <3>1, CalSay
    <3> QED BY <3>2 DEF I, M, SaidBy, Said
  <2>5. ASSUME NEW id \in I, id # 0, Calibrating!SaysSo(s, id) PROVE Calibrating!SaysSo(s, id)'
    <3>1. /\ \A i \in DOMAIN q : q[i] = id => i = Len(q)
          /\ x2[s] = id => q = << >>
          /\ \A i \in DOMAIN u : u[i].mode = id => x2[s] = id
          /\ x3[s].mode = id => x2[s] = id
      BY <2>5 DEF Calibrating!SaysSo, Calibrating!OnlyLast
    <3>2. x2[s] # id
      BY <2>1, <3>1
    <3>3. \A i \in DOMAIN Tail(q) : Tail(q)[i] = id => i = Len(Tail(q))
      BY <1>8, <2>1, <3>1
    <3>4. \A i \in DOMAIN x6'[s] : x6'[s][i].mode # id
      BY <2>3, <2>4, <2>5, <3>1, <3>2
    <3>5. x3'[s].mode # id
      BY <2>1, <3>1, <3>2
    <3> QED BY <2>2, <2>5, <3>3, <3>4, <3>5 DEF Calibrating!SaysSo, Calibrating!OnlyLast
  <2> QED BY <1>1, <2>1, <2>2, <2>4, <2>5
<1>12. CASE Calibrating!Status(s)
  <2> DEFINE m == [mode |-> x2[s], acked |-> x2[s] # 0]
  <2>1. Calibrating!Say(s, m) /\ UNCHANGED <<x2, x3, x4, x5, x9>>
    BY <1>12 DEF Calibrating!Status, Calibrating!Normal
  <2>2. m \in M /\ m.mode = x2[s]
    BY <1>7
  <2> HIDE DEF m
  <2>3. /\ x6' \in [Scanners -> Seq(M)]
        /\ \A t \in Scanners : t # s => x6'[t] = x6[t]
        /\ \A i \in DOMAIN x6'[s] : x6'[s][i] = m \/ (i \in DOMAIN x6[s] /\ x6'[s][i] = x6[s][i])
    <3>1. x6 \in SaidBy /\ m \in Said /\ Calibrating!Say(s, m)
      BY <1>1, <2>1, <2>2 DEF I, M, SaidBy, Said
    <3>2. /\ x6' \in SaidBy
          /\ \A t \in Scanners : t # s => x6'[t] = x6[t]
          /\ \A i \in DOMAIN x6'[s] : x6'[s][i] = m \/ (i \in DOMAIN x6[s] /\ x6'[s][i] = x6[s][i])
      BY <3>1, CalSay
    <3> QED BY <3>2 DEF I, M, SaidBy, Said
  <2>4. ASSUME NEW id \in I, Calibrating!SaysSo(s, id) PROVE Calibrating!SaysSo(s, id)'
    BY <2>1, <2>2, <2>3, <2>4 DEF Calibrating!SaysSo, Calibrating!OnlyLast
  <2> QED BY <1>1, <2>1, <2>3, <2>4
<1>13. CASE Calibrating!ReadLine(s)
  <2>1. /\ u # << >> /\ x6' = [x6 EXCEPT ![s] = Tail(u)] /\ x3' = [x3 EXCEPT ![s] = Head(u)]
        /\ x4' = x4 \cup {s} /\ UNCHANGED <<x2, x5, x9>>
    BY <1>13 DEF Calibrating!ReadLine
  <2>2. /\ x6' \in [Scanners -> Seq(M)] /\ x6'[s] = Tail(u)
        /\ x3' \in [Scanners -> M] /\ x3'[s] = Head(u)
        /\ \A t \in Scanners : t # s => x6'[t] = x6[t] /\ x3'[t] = x3[t]
    <3> HIDE DEF M
    <3> QED BY <1>1, <1>9, <2>1
  <2>3. ASSUME NEW id \in I, Calibrating!SaysSo(s, id) PROVE Calibrating!SaysSo(s, id)'
    BY <1>9, <2>1, <2>2, <2>3 DEF Calibrating!SaysSo, Calibrating!OnlyLast
  <2> QED BY <1>1, <2>1, <2>2, <2>3
<1>14. CASE Calibrating!Reset(s)
  <2>1. /\ x2' = [x2 EXCEPT ![s] = 0] /\ x5' = [x5 EXCEPT ![s] = << >>]
        /\ x9' = x9 \cup {s} /\ UNCHANGED <<x3, x4, x6>>
    BY <1>14 DEF Calibrating!Reset, Calibrating!Normal
  <2>2. << >> \in Seq(I)
    OBVIOUS
  <2> QED BY <1>1, <1>2, <2>1, <2>2
<1>15. CASE Calibrating!Lose(s)
  <2>1. UNCHANGED <<x2, x3, x9>>
    BY <1>15 DEF Calibrating!Lose
  <2>2. CASE q # << >> /\ x5' = [x5 EXCEPT ![s] = Tail(q)] /\ UNCHANGED <<x6, x4>>
    <3>1. /\ x5' \in [Scanners -> Seq(I)] /\ x5'[s] = Tail(q)
          /\ \A t \in Scanners : t # s => x5'[t] = x5[t]
      BY <1>1, <1>8, <2>2
    <3>2. ASSUME NEW id \in I, Calibrating!SaysSo(s, id) PROVE Calibrating!SaysSo(s, id)'
      BY <1>8, <2>1, <2>2, <3>1, <3>2 DEF Calibrating!SaysSo, Calibrating!OnlyLast
    <3> QED BY <1>1, <2>1, <2>2, <3>1, <3>2
  <2>3. CASE u # << >> /\ x6' = [x6 EXCEPT ![s] = Tail(u)] /\ UNCHANGED <<x5, x4>>
    <3>1. /\ x6' \in [Scanners -> Seq(M)] /\ x6'[s] = Tail(u)
          /\ \A t \in Scanners : t # s => x6'[t] = x6[t]
      <4> HIDE DEF M
      <4> QED BY <1>1, <1>9, <2>3
    <3>2. ASSUME NEW id \in I, Calibrating!SaysSo(s, id) PROVE Calibrating!SaysSo(s, id)'
      BY <1>9, <2>1, <2>3, <3>1, <3>2 DEF Calibrating!SaysSo, Calibrating!OnlyLast
    <3> QED BY <1>1, <2>1, <2>3, <3>1, <3>2
  <2>4. CASE x4' = x4 \ {s} /\ UNCHANGED <<x5, x6>>
    BY <1>1, <2>1, <2>4 DEF Calibrating!SaysSo, Calibrating!OnlyLast
  <2> QED BY <1>15, <2>2, <2>3, <2>4 DEF Calibrating!Lose
<1> QED BY <1>10, <1>11, <1>12, <1>13, <1>14, <1>15

LEMMA CalNext == CalInv /\ [Calibrating!Next]_(Calibrating!vars) => CalInv'
<1> SUFFICES ASSUME CalInv, [Calibrating!Next]_(Calibrating!vars) PROVE CalInv'
  OBVIOUS
<1>1. CASE UNCHANGED <<x2, x3, x4, x5, x6, x7, x9, x11>>
  <2>1. Calibrating!Begun' = Calibrating!Begun /\ Calibrating!Ids' = Calibrating!Ids
    BY <1>1, CalSame
  <2> QED BY <1>1, <2>1 DEF CalInv, Calibrating!TypeOK, Calibrating!StartedInv,
                            Calibrating!SaysSo, Calibrating!OnlyLast
<1>2. CASE Calibrating!Ask \/ Calibrating!EnoughOfIt \/ UNCHANGED Calibrating!vars
  BY <1>1, <1>2 DEF Calibrating!Ask, Calibrating!EnoughOfIt, Calibrating!vars
<1> QED BY <1>2, CalStart, CalHandlers, CalScanners DEF Calibrating!Next

\* An answer "started" is given only with the awaited scanners armed.
LEMMA CalTruly ==
    ASSUME CalInv, [Calibrating!Next]_(Calibrating!vars)
    PROVE  Calibrating!AnsweredTruly
<1> SUFFICES ASSUME x8' = "started", x8 # "started", NEW s \in x7.who, s \notin x9
             PROVE  x2[s] = x7.id
  BY DEF Calibrating!AnsweredTruly
<1>1. Calibrating!StartMet
  BY DEF Calibrating!Next, Calibrating!vars, Calibrating!PostStart, Calibrating!StartLate,
         Calibrating!Undone, Calibrating!PostStop, Calibrating!StopMet, Calibrating!StopLate,
         Calibrating!Ask, Calibrating!EnoughOfIt, Calibrating!TakeStart, Calibrating!TakeStop,
         Calibrating!Status, Calibrating!ReadLine, Calibrating!Reset, Calibrating!Lose
<1>2. x7.at = "start" /\ x3[s].mode = x7.id
  BY <1>1 DEF Calibrating!StartMet, Calibrating!WaitMet, Calibrating!MatchesAcked, Calibrating!Matches
<1>3. s \in Scanners \ x9
  BY DEF CalInv, Calibrating!TypeOK
<1> QED BY <1>2, <1>3 DEF CalInv, Calibrating!StartedInv, Calibrating!SaysSo

\* A session that is answered "started" is one every awaited scanner that has
\* not reset since is armed for (http_status.c).
THEOREM StartedIsArmed == Calibrating!Spec => Calibrating!StartedMeansArmed
<1>1. CalInv /\ [Calibrating!Next]_(Calibrating!vars) => Calibrating!AnsweredTruly
  BY CalTruly
<1> QED BY <1>1, CalInitial, CalNext, PTL DEF Calibrating!Spec, Calibrating!StartedMeansArmed

-----------------------------------------------------------------------------
(* The game's handshake: x1 identity, x2 knows, x3 bootId, x4 status,       *)
(* x5 policy, x6 selfAck, x7 ready, x8 yields, x9 down, x10 up, x11 left.   *)
HandInv == Handshake!TypeOK /\ Handshake!FilteredInv
Policies == [told : SUBSET {0, 1}, waiting : BOOLEAN, due : BOOLEAN, boots : [{0, 1} -> Nat]]
Heard == [k : {"ack", "status"}, v : Nat]

LEMMA HandTypes ==
    Handshake!TypeOK <=>
        /\ x1 \in Nat \ {0} /\ x2 \in 0..x1 /\ x6 \in {0, x1}
        /\ x3 \in [{0, 1} -> Nat] /\ x4 \in [{0, 1} -> Nat]
        /\ x5 \in Policies /\ x7 \in BOOLEAN
        /\ x9 \in [{0, 1} -> Seq(Nat)] /\ x10 \in [{0, 1} -> Seq(Heard)]
BY DEF Handshake!TypeOK, Handshake!Lanes, Handshake!None, Policies, Heard

LEMMA HandInitial == Handshake!Init => HandInv
<1> SUFFICES ASSUME Handshake!Init PROVE HandInv
  OBVIOUS
<1>1. /\ x1 = 1 /\ x2 = 0 /\ x6 = 0 /\ x7 = FALSE
      /\ x3 = [l \in {0, 1} |-> 1] /\ x4 = [l \in {0, 1} |-> 0]
      /\ x5 = [told |-> {}, waiting |-> FALSE, due |-> FALSE, boots |-> [l \in {0, 1} |-> 0]]
      /\ x9 = [l \in {0, 1} |-> << >>] /\ x10 = [l \in {0, 1} |-> << >>]
  BY DEF Handshake!Init, Handshake!Lanes, Handshake!None, Handshake!Blank
<1>2. Handshake!TypeOK
  <2>1. [l \in {0, 1} |-> 0] \in [{0, 1} -> Nat] /\ [l \in {0, 1} |-> 1] \in [{0, 1} -> Nat]
    OBVIOUS
  <2>2. x5 \in Policies
    BY <1>1, <2>1 DEF Policies
  <2>3. x9 \in [{0, 1} -> Seq(Nat)] /\ x10 \in [{0, 1} -> Seq(Heard)]
    BY <1>1
  <2>4. 1 \in Nat \ {0} /\ 0 \in 0..1
    OBVIOUS
  <2>5. x1 \in Nat \ {0} /\ x2 \in 0..x1 /\ x6 \in {0, x1}
    BY <1>1, <2>4
  <2>6. x7 \in BOOLEAN
    BY <1>1
  <2> QED BY <1>1, <2>1, <2>2, <2>3, <2>5, <2>6, HandTypes
<1> QED BY <1>1, <1>2 DEF HandInv, Handshake!FilteredInv, Handshake!SentInOrder,
                          Handshake!BootsKnown, Handshake!AcksAreOurs, Handshake!OnlyBleAcks

\* What the poll makes of the boots it reads and of a late acknowledgement.
LEMMA HandLooked ==
    ASSUME Handshake!TypeOK
    PROVE  /\ Handshake!Looked[1] \in Policies
           /\ Handshake!Looked[1].boots[0] = IF x4[0] = 0 THEN x5.boots[0] ELSE x4[0]
           /\ Handshake!Looked[2] \in {0, x6}
           /\ x4[0] \notin {0, x5.boots[0]} => Handshake!Looked[2] = 0
<1> DEFINE seen == [x5 EXCEPT !.boots = Handshake!Observed]
           p == IF Handshake!NewBoots # {} THEN Handshake!Cleared(seen) ELSE seen
           a == IF Handshake!NewBoots # {} THEN 0 ELSE x6
           L == Handshake!Looked
<1>1. /\ x5 \in Policies /\ x4 \in [{0, 1} -> Nat]
      /\ Handshake!Observed = [l \in {0, 1} |-> IF x4[l] = 0 THEN x5.boots[l] ELSE x4[l]]
  BY HandTypes DEF Handshake!Observed, Handshake!Lanes, Handshake!None
<1>2. /\ Handshake!Observed \in [{0, 1} -> Nat]
      /\ Handshake!Observed[0] = IF x4[0] = 0 THEN x5.boots[0] ELSE x4[0]
  BY <1>1 DEF Policies
<1>3. seen \in Policies /\ seen.boots = Handshake!Observed
  BY <1>1, <1>2 DEF Policies
<1> HIDE DEF seen
<1>4. ASSUME NEW r \in Policies
      PROVE  Handshake!Cleared(r) \in Policies /\ Handshake!Cleared(r).boots = r.boots
  BY DEF Policies, Handshake!Cleared
<1>5. p \in Policies /\ p.boots = Handshake!Observed
  BY <1>3, <1>4
<1>6. x4[0] \notin {0, x5.boots[0]} => Handshake!NewBoots # {}
  BY DEF Handshake!NewBoots, Handshake!Lanes, Handshake!None
<1>7. a \in {0, x6} /\ (x4[0] \notin {0, x5.boots[0]} => a = 0)
  BY <1>6
<1>8. \/ L = <<[p EXCEPT !.waiting = FALSE, !.due = FALSE], a>>
      \/ L = <<Handshake!Cleared(p), 0>>
      \/ L = <<p, a>>
  BY DEF Handshake!Looked, seen, Handshake!None
<1> HIDE DEF p, a, L
<1>9. /\ [p EXCEPT !.waiting = FALSE, !.due = FALSE] \in Policies
      /\ [p EXCEPT !.waiting = FALSE, !.due = FALSE].boots = p.boots
  BY <1>5 DEF Policies
<1>10. L[1] \in Policies /\ L[1].boots = Handshake!Observed /\ L[2] \in {0, a}
  <2>1. CASE L = <<[p EXCEPT !.waiting = FALSE, !.due = FALSE], a>>
    BY <1>5, <1>9, <2>1
  <2>2. CASE L = <<Handshake!Cleared(p), 0>>
    BY <1>4, <1>5, <2>2
  <2>3. CASE L = <<p, a>>
    BY <1>5, <2>3
  <2> QED BY <1>8, <2>1, <2>2, <2>3
<1> QED BY <1>2, <1>7, <1>10 DEF L

LEMMA HandPoll == HandInv /\ Handshake!Poll => HandInv'
<1> SUFFICES ASSUME HandInv, Handshake!Poll PROVE HandInv'
  OBVIOUS
<1> DEFINE p == Handshake!Looked[1]
           a == Handshake!Looked[2]
           next == CHOOSE l \in Handshake!Lanes \ p.told :
                      \A k \in Handshake!Lanes \ p.told : l <= k
<1>1. /\ x1 \in Nat \ {0} /\ x2 \in 0..x1 /\ x6 \in {0, x1}
      /\ x3 \in [{0, 1} -> Nat] /\ x4 \in [{0, 1} -> Nat]
      /\ x5 \in Policies /\ x7 \in BOOLEAN
      /\ x9 \in [{0, 1} -> Seq(Nat)] /\ x10 \in [{0, 1} -> Seq(Heard)]
  BY HandTypes DEF HandInv
<1>2. /\ p \in Policies /\ a \in {0, x6}
      /\ p.boots[0] = IF x4[0] = 0 THEN x5.boots[0] ELSE x4[0]
      /\ x4[0] \notin {0, x5.boots[0]} => a = 0
  BY HandLooked DEF HandInv
<1>3. /\ UNCHANGED <<x1, x2, x3, x4, x8, x10, x11>>
      /\ x6' = a /\ (x7' => a = x1) /\ x7' \in BOOLEAN
      /\ \/ x5' = p /\ x9' = x9
         \/ /\ p.told # {0, 1} /\ x5' = Handshake!Told(p, next)
            /\ x9' = [x9 EXCEPT ![next] = Append(@, x1)]
  BY DEF Handshake!Poll, Handshake!Matches, Handshake!Lanes
<1>4. p.told # {0, 1} => next \in {0, 1}
  <2> SUFFICES ASSUME p.told # {0, 1} PROVE next \in {0, 1}
    OBVIOUS
  <2>1. p.told \subseteq {0, 1}
    BY <1>2 DEF Policies
  <2> HIDE DEF p
  <2>2. \E l \in {0, 1} \ p.told : \A k \in {0, 1} \ p.told : l <= k
    <3>1. CASE 0 \notin p.told
      BY <3>1
    <3>2. CASE 0 \in p.told
      BY <2>1, <3>2
    <3> QED BY <3>1, <3>2
  <2> QED BY <2>2 DEF Handshake!Lanes
<1> HIDE DEF p, a, next
<1>5. x5' \in Policies /\ x5'.boots = p.boots
  <2>1. CASE x5' = p
    BY <1>2, <2>1
  <2>2. CASE p.told # {0, 1} /\ x5' = Handshake!Told(p, next)
    <3>1. next \in {0, 1}
      BY <1>4, <2>2
    <3> DEFINE t == p.told \cup {next}
               w == p.waiting \/ t = {0, 1}
    <3>2. Handshake!Told(p, next) = [p EXCEPT !.told = t, !.waiting = w]
      BY DEF Handshake!Told, Handshake!Lanes
    <3>3. t \subseteq {0, 1} /\ w \in BOOLEAN
      BY <1>2, <3>1 DEF Policies
    <3> HIDE DEF t, w
    <3>4. [p EXCEPT !.told = t, !.waiting = w] \in Policies
          /\ [p EXCEPT !.told = t, !.waiting = w].boots = p.boots
      BY <1>2, <3>3 DEF Policies
    <3> QED BY <2>2, <3>2, <3>4
  <2> QED BY <1>3, <2>1, <2>2
<1>6. /\ x9' \in [{0, 1} -> Seq(Nat)]
      /\ x9'[0] = x9[0] \/ x9'[0] = Append(x9[0], x1)
  <2>1. CASE x9' = x9
    BY <1>1, <2>1
  <2>2. CASE p.told # {0, 1} /\ x9' = [x9 EXCEPT ![next] = Append(@, x1)]
    <3>1. next \in {0, 1} /\ x9[next] \in Seq(Nat) /\ Append(x9[next], x1) \in Seq(Nat)
      BY <1>1, <1>4, <2>2
    <3> QED BY <1>1, <2>2, <3>1
  <2> QED BY <1>3, <2>1, <2>2
<1>7. Handshake!TypeOK'
  <2>1. x6' \in {0, x1'}
    BY <1>1, <1>2, <1>3
  <2> QED BY <1>1, <1>3, <1>5, <1>6, <2>1 DEF Handshake!TypeOK, Handshake!Lanes,
           Handshake!None, Policies, Heard
<1>8. Handshake!SentInOrder'
  <2>1. CASE x9'[0] = x9[0]
    BY <1>3, <2>1 DEF HandInv, Handshake!FilteredInv, Handshake!SentInOrder
  <2>2. CASE x9'[0] = Append(x9[0], x1)
    <3>1. x9[0] \in Seq(Nat)
      BY <1>1
    <3>2. /\ DOMAIN x9[0] = 1..Len(x9[0]) /\ Len(x9[0]) \in Nat
          /\ DOMAIN x9'[0] = 1..Len(x9[0]) + 1
          /\ \A i \in 1..Len(x9[0]) : x9'[0][i] = x9[0][i]
          /\ x9'[0][Len(x9[0]) + 1] = x1
      BY <1>1, <2>2, <3>1, AppendOf
    <3>3. \A i \in 1..Len(x9[0]) : x9[0][i] \in Nat
      BY <3>1, <3>2, ElementOf
    <3>4. /\ \A i \in 1..Len(x9[0]) : x9[0][i] <= x1
          /\ \A i, j \in 1..Len(x9[0]) : i <= j => x9[0][i] <= x9[0][j]
          /\ x2 = x1 => \A i \in 1..Len(x9[0]) : x9[0][i] = x1
      BY <3>2 DEF HandInv, Handshake!FilteredInv, Handshake!SentInOrder
    <3>5. \A i \in 1..Len(x9[0]) + 1 : i \in 1..Len(x9[0]) \/ i = Len(x9[0]) + 1
      BY <3>2
    <3>6. \A i \in DOMAIN x9'[0] : x9'[0][i] <= x1'
      <4> SUFFICES ASSUME NEW i \in DOMAIN x9'[0] PROVE x9'[0][i] <= x1
        BY <1>3
      <4>1. CASE i \in 1..Len(x9[0])
        BY <3>2, <3>4, <4>1
      <4>2. CASE i = Len(x9[0]) + 1
        BY <1>1, <3>2, <4>2
      <4> QED BY <3>2, <3>5, <4>1, <4>2
    <3>7. \A i, j \in DOMAIN x9'[0] : i <= j => x9'[0][i] <= x9'[0][j]
      <4> SUFFICES ASSUME NEW i \in DOMAIN x9'[0], NEW j \in DOMAIN x9'[0], i <= j
                   PROVE  x9'[0][i] <= x9'[0][j]
        OBVIOUS
      <4>1. CASE j = Len(x9[0]) + 1
        BY <1>3, <3>2, <3>6, <4>1
      <4>2. CASE j \in 1..Len(x9[0])
        <5>1. i \in 1..Len(x9[0])
          BY <3>2, <4>2
        <5> QED BY <3>2, <3>4, <4>2, <5>1
      <4> QED BY <3>2, <3>5, <4>1, <4>2
    <3>8. x2' = x1' => \A i \in DOMAIN x9'[0] : x9'[0][i] = x1'
      BY <1>3, <3>2, <3>4, <3>5
    <3> QED BY <3>6, <3>7, <3>8 DEF Handshake!SentInOrder
  <2> QED BY <1>6, <2>1, <2>2
<1>9. /\ x5.boots[0] \in Nat /\ x4[0] \in Nat /\ x3[0] \in Nat
      /\ x5'.boots[0] \in {x5.boots[0], x4[0]}
  BY <1>1, <1>2, <1>5 DEF Policies
<1>10. Handshake!BootsKnown'
  BY <1>3, <1>9 DEF HandInv, Handshake!FilteredInv, Handshake!BootsKnown
<1>11. Handshake!AcksAreOurs'
  BY <1>3, <1>9 DEF HandInv, Handshake!FilteredInv, Handshake!AcksAreOurs, Handshake!Unread
<1>12. x6' = x1' => x2' = x1' \/ x5'.boots[0] # x3'[0]
  <2> SUFFICES ASSUME x6' = x1' PROVE x2 = x1 \/ x5'.boots[0] # x3[0]
    BY <1>3
  <2>1. x6 = x1 /\ a # 0
    BY <1>1, <1>2, <1>3
  <2>2. x5'.boots[0] = x5.boots[0]
    BY <1>2, <1>5, <2>1
  <2> QED BY <2>1, <2>2 DEF HandInv, Handshake!FilteredInv
<1>13. Handshake!OnlyBleAcks'
  BY <1>3 DEF HandInv, Handshake!FilteredInv, Handshake!OnlyBleAcks
<1> QED BY <1>3, <1>7, <1>8, <1>10, <1>11, <1>12, <1>13 DEF HandInv, Handshake!FilteredInv

LEMMA HandBadge ==
    ASSUME HandInv, \/ Handshake!AckLate \/ Handshake!BadgeReset
                    \/ Handshake!WorkStarts \/ Handshake!WorkEnds
    PROVE  HandInv'
<1>1. /\ x1 \in Nat \ {0} /\ x2 \in 0..x1 /\ x6 \in {0, x1}
      /\ x3 \in [{0, 1} -> Nat] /\ x4 \in [{0, 1} -> Nat]
      /\ x5 \in Policies /\ x7 \in BOOLEAN
      /\ x9 \in [{0, 1} -> Seq(Nat)] /\ x10 \in [{0, 1} -> Seq(Heard)]
  BY HandTypes DEF HandInv
<1>2. CASE Handshake!BadgeReset
  <2>1. /\ x1' = x1 + 1 /\ x2' = x2 /\ x6' = 0 /\ x7' = FALSE /\ x3' = x3
        /\ x4' = [l \in {0, 1} |-> 0]
        /\ x5' = [told |-> {}, waiting |-> FALSE, due |-> FALSE, boots |-> [l \in {0, 1} |-> 0]]
        /\ x9' = x9 /\ x10' = [l \in {0, 1} |-> << >>]
    BY <1>2 DEF Handshake!BadgeReset, Handshake!Lanes, Handshake!None, Handshake!Blank
  <2>2. x1' \in Nat \ {0} /\ x2' \in 0..x1' /\ x6' \in {0, x1'} /\ x2' # x1'
    BY <1>1, <2>1
  <2>3. x5' \in Policies /\ x10' \in [{0, 1} -> Seq(Heard)] /\ x4' \in [{0, 1} -> Nat]
    BY <2>1 DEF Policies
  <2>4. Handshake!TypeOK'
    BY <1>1, <2>1, <2>2, <2>3 DEF Handshake!TypeOK, Handshake!Lanes,
           Handshake!None, Policies, Heard
  <2>5. Handshake!SentInOrder'
    <3>1. x9[0] \in Seq(Nat) /\ \A i \in DOMAIN x9[0] : x9[0][i] \in Nat
      BY <1>1, ElementOf
    <3> QED BY <1>1, <2>1, <2>2, <3>1 DEF HandInv, Handshake!FilteredInv, Handshake!SentInOrder
  <2>6. Handshake!BootsKnown' /\ Handshake!AcksAreOurs' /\ Handshake!OnlyBleAcks'
    <3>1. x10'[0] = << >> /\ x10'[1] = << >> /\ x5'.boots[0] = 0 /\ x4'[0] = 0 /\ x3'[0] \in Nat
      BY <1>1, <2>1
    <3> QED BY <3>1 DEF Handshake!BootsKnown, Handshake!AcksAreOurs, Handshake!OnlyBleAcks
  <2> QED BY <2>1, <2>2, <2>4, <2>5, <2>6 DEF HandInv, Handshake!FilteredInv
<1>3. CASE Handshake!AckLate \/ Handshake!WorkStarts \/ Handshake!WorkEnds
  <2>1. /\ UNCHANGED <<x1, x2, x3, x4, x6, x7, x9, x10>>
        /\ x5' = x5 \/ x5' = [x5 EXCEPT !.due = TRUE]
    BY <1>3 DEF Handshake!AckLate, Handshake!WorkStarts, Handshake!WorkEnds
  <2>2. x5' \in Policies /\ x5'.boots = x5.boots
    BY <1>1, <2>1 DEF Policies
  <2>3. Handshake!TypeOK'
    BY <1>1, <2>1, <2>2 DEF Handshake!TypeOK, Handshake!Lanes,
           Handshake!None, Policies, Heard
  <2> QED BY <2>1, <2>2, <2>3 DEF HandInv, Handshake!FilteredInv, Handshake!SentInOrder,
            Handshake!BootsKnown, Handshake!AcksAreOurs, Handshake!Unread, Handshake!OnlyBleAcks
<1> QED BY <1>2, <1>3


\* A line the BLE scanner takes, and the acknowledgement it sends for it.
LEMMA HandTakes == HandInv /\ Handshake!TakeSelf(0) => HandInv'
<1> SUFFICES ASSUME HandInv, Handshake!TakeSelf(0) PROVE HandInv'
  OBVIOUS
<1> DEFINE q == x9[0]
           u == x10[0]
           h == Head(q)
           m == [k |-> "ack", v |-> h]
<1>1. /\ x1 \in Nat \ {0} /\ x2 \in 0..x1 /\ x6 \in {0, x1}
      /\ x3 \in [{0, 1} -> Nat] /\ x4 \in [{0, 1} -> Nat]
      /\ x5 \in Policies /\ x7 \in BOOLEAN
      /\ x9 \in [{0, 1} -> Seq(Nat)] /\ x10 \in [{0, 1} -> Seq(Heard)]
  BY HandTypes DEF HandInv
<1>2. /\ q # << >> /\ x9' = [x9 EXCEPT ![0] = Tail(q)] /\ x2' = h
      /\ \/ x10' = [x10 EXCEPT ![0] = Append(u, m)]
         \/ x10' = x10
      /\ UNCHANGED <<x1, x3, x4, x5, x6, x7>>
  BY DEF Handshake!TakeSelf
<1>3. /\ Len(q) \in Nat \ {0} /\ DOMAIN q = 1..Len(q) /\ h = q[1] /\ h \in Nat /\ 1 \in DOMAIN q
      /\ Tail(q) \in Seq(Nat) /\ DOMAIN Tail(q) = 1..Len(q) - 1
      /\ \A i \in 1..Len(q) - 1 : i + 1 \in DOMAIN q /\ Tail(q)[i] = q[i + 1]
  <2>1. q \in Seq(Nat) /\ q # << >>
    BY <1>1, <1>2
  <2> QED BY <2>1, TailOf
<1>4. /\ \A i \in DOMAIN q : q[i] <= x1
      /\ \A i, j \in DOMAIN q : i <= j => q[i] <= q[j]
      /\ x2 = x1 => \A i \in DOMAIN q : q[i] = x1
  BY DEF HandInv, Handshake!FilteredInv, Handshake!SentInOrder
<1>5. /\ x9' \in [{0, 1} -> Seq(Nat)] /\ x9'[0] = Tail(q)
  BY <1>1, <1>2, <1>3
<1>6. \A i \in DOMAIN q : q[i] \in Nat
  <2>1. q \in Seq(Nat)
    BY <1>1
  <2> QED BY <2>1, ElementOf
<1> HIDE DEF q
<1>7. Handshake!SentInOrder'
  <2>1. \A i \in DOMAIN Tail(q) : Tail(q)[i] <= x1
    BY <1>3, <1>4
  <2>2. \A i, j \in DOMAIN Tail(q) : i <= j => Tail(q)[i] <= Tail(q)[j]
    <3> SUFFICES ASSUME NEW i \in 1..Len(q) - 1, NEW j \in 1..Len(q) - 1, i <= j
                 PROVE  q[i + 1] <= q[j + 1]
      BY <1>3, ZenonT(60)
    <3> QED BY <1>3, <1>4
  <2>3. h = x1 => \A i \in DOMAIN Tail(q) : Tail(q)[i] = x1
    <3> SUFFICES ASSUME h = x1, NEW i \in 1..Len(q) - 1 PROVE q[i + 1] = x1
      BY <1>3
    <3>1. i + 1 \in DOMAIN q /\ 1 <= i + 1
      BY <1>3
    <3>2. q[1] <= q[i + 1] /\ q[i + 1] <= x1
      BY <1>3, <1>4, <3>1
    <3> QED BY <1>1, <1>3, <1>6, <3>1, <3>2, SMTT(60)
  <2> QED BY <1>2, <1>5, <2>1, <2>2, <2>3 DEF Handshake!SentInOrder
<1>8. x2' \in 0..x1' /\ (x2 = x1 => x2' = x1)
  <2>1. h \in Nat /\ h <= x1 /\ (x2 = x1 => h = x1)
    BY <1>3, <1>4
  <2> HIDE DEF h
  <2> QED BY <1>1, <1>2, <2>1
<1>9. /\ x10' \in [{0, 1} -> Seq(Heard)]
      /\ \A i \in DOMAIN x10'[0] :
            \/ i \in DOMAIN u /\ x10'[0][i] = u[i] /\ \A j \in 1..i : j \in DOMAIN u /\ x10'[0][j] = u[j]
            \/ x10'[0][i] = m
  <2>1. CASE x10' = x10
    <3>1. u \in Seq(Heard) /\ Len(u) \in Nat /\ DOMAIN u = 1..Len(u)
      BY <1>1
    <3>2. \A i \in 1..Len(u) : \A j \in 1..i : j \in 1..Len(u)
      BY <3>1
    <3> QED BY <1>1, <2>1, <3>1, <3>2
  <2>2. CASE x10' = [x10 EXCEPT ![0] = Append(u, m)]
    <3>1. u \in Seq(Heard) /\ m \in Heard
      BY <1>1, <1>3 DEF Heard
    <3> HIDE DEF m
    <3>2. /\ Len(u) \in Nat /\ DOMAIN u = 1..Len(u)
          /\ Append(u, m) \in Seq(Heard) /\ DOMAIN Append(u, m) = 1..Len(u) + 1
          /\ \A i \in 1..Len(u) : Append(u, m)[i] = u[i]
          /\ Append(u, m)[Len(u) + 1] = m
      BY <3>1, AppendOf
    <3>3. x10' \in [{0, 1} -> Seq(Heard)] /\ x10'[0] = Append(u, m)
      BY <1>1, <2>2, <3>2
    <3> HIDE DEF u
    <3>4. ASSUME NEW i \in 1..Len(u) + 1
          PROVE  \/ i \in 1..Len(u) /\ \A j \in 1..i : j \in 1..Len(u)
                 \/ i = Len(u) + 1
      BY <3>2
    <3> QED BY <3>2, <3>3, <3>4
  <2> QED BY <1>2, <2>1, <2>2
<1>10. Handshake!TypeOK'
  BY <1>1, <1>2, <1>5, <1>8, <1>9 DEF Handshake!TypeOK, Handshake!Lanes,
     Handshake!None, Policies, Heard
<1>11. Handshake!BootsKnown'
  <2>1. \A i \in DOMAIN x10'[0] : x10'[0][i].k = "status" => x10'[0][i].v <= x3[0]
    <3>1. \A i \in DOMAIN u : u[i].k = "status" => u[i].v <= x3[0]
      BY DEF HandInv, Handshake!FilteredInv, Handshake!BootsKnown
    <3>2. m.k # "status"
      OBVIOUS
    <3> HIDE DEF m, u
    <3> QED BY <1>9, <3>1, <3>2
  <2> QED BY <1>2, <2>1 DEF HandInv, Handshake!FilteredInv, Handshake!BootsKnown
<1>12. Handshake!AcksAreOurs'
  <2> SUFFICES ASSUME NEW i \in DOMAIN x10'[0], x10'[0][i] = [k |-> "ack", v |-> x1], x2' # x1
               PROVE  Handshake!Unread(i)'
    BY <1>2 DEF Handshake!AcksAreOurs
  <2>1. x2 # x1
    BY <1>8
  <2>2. x10'[0][i] # m
    BY <1>2
  <2>3. i \in DOMAIN u /\ x10'[0][i] = u[i] /\ \A j \in 1..i : j \in DOMAIN u /\ x10'[0][j] = u[j]
    BY <1>9, <2>2
  <2>4. Handshake!Unread(i)
    BY <2>1, <2>3 DEF HandInv, Handshake!FilteredInv, Handshake!AcksAreOurs
  <2> QED BY <1>2, <2>3, <2>4 DEF Handshake!Unread
<1>13. Handshake!OnlyBleAcks'
  <2>1. x10'[1] = x10[1]
    BY <1>1, <1>2
  <2> QED BY <2>1 DEF HandInv, Handshake!FilteredInv, Handshake!OnlyBleAcks
<1> QED BY <1>2, <1>7, <1>8, <1>10, <1>11, <1>12, <1>13 DEF HandInv, Handshake!FilteredInv

\* What leaves the BLE scanner and its wires alone.
LEMMA HandStays ==
    ASSUME HandInv, Handshake!TypeOK', UNCHANGED <<x1, x2, x5, x6, x7>>, x9'[0] = x9[0],
           x10'[0] = x10[0], x3'[0] = x3[0], x4'[0] = x4[0], Handshake!OnlyBleAcks'
    PROVE  HandInv'
BY DEF HandInv, Handshake!FilteredInv, Handshake!SentInOrder, Handshake!BootsKnown,
       Handshake!AcksAreOurs, Handshake!Unread

\* The first line off a wire u, and the statuses before an acknowledgement.
LEMMA HandPopped ==
    ASSUME HandInv, NEW u \in Seq(Heard), u = x10[0], u # << >>, x10'[0] = Tail(u),
           UNCHANGED <<x1, x2, x3, x5>>,
           x4'[0] = x4[0] \/ (u[1].k = "status" /\ x4'[0] = u[1].v)
    PROVE  /\ Handshake!AcksAreOurs'
           /\ \A i \in DOMAIN x10'[0] : x10'[0][i].k = "status" => x10'[0][i].v <= x3[0]
           /\ u[1] = [k |-> "ack", v |-> x1] => x2 = x1 \/ x5.boots[0] # x3[0]
           /\ u[1].k = "status" => u[1].v <= x3[0]
<1>1. /\ Len(u) \in Nat \ {0} /\ DOMAIN u = 1..Len(u) /\ 1 \in DOMAIN u
      /\ DOMAIN Tail(u) = 1..Len(u) - 1
      /\ \A i \in 1..Len(u) - 1 : i + 1 \in DOMAIN u /\ Tail(u)[i] = u[i + 1]
  BY TailOf
<1>2. \A i \in DOMAIN u : u[i] = [k |-> "ack", v |-> x1] =>
         \/ x2 = x1
         \/ /\ x5.boots[0] # x3[0] /\ x4[0] # x3[0]
            /\ \A j \in 1..i : u[j].k = "status" => u[j].v # x3[0]
  BY DEF HandInv, Handshake!FilteredInv, Handshake!AcksAreOurs, Handshake!Unread
<1>3. \A i \in DOMAIN u : u[i].k = "status" => u[i].v <= x3[0]
  BY DEF HandInv, Handshake!FilteredInv, Handshake!BootsKnown
<1>4. ASSUME NEW i \in DOMAIN x10'[0], x10'[0][i] = [k |-> "ack", v |-> x1], x2 # x1
      PROVE  Handshake!Unread(i)'
  <2>1. i \in 1..Len(u) - 1 /\ i + 1 \in DOMAIN u /\ u[i + 1] = [k |-> "ack", v |-> x1]
    BY <1>1, <1>4
  <2>2. /\ x5.boots[0] # x3[0] /\ x4[0] # x3[0]
        /\ \A j \in 1..i + 1 : u[j].k = "status" => u[j].v # x3[0]
    BY <1>2, <1>4, <2>1
  <2>3. 1 \in 1..i + 1 /\ \A j \in 1..i : j \in 1..Len(u) - 1 /\ j + 1 \in 1..i + 1
    BY <1>1, <2>1
  <2>4. \A j \in 1..i : x10'[0][j] = u[j + 1]
    BY <1>1, <2>3
  <2>5. x4'[0] # x3[0]
    BY <2>2, <2>3
  <2>6. \A j \in 1..i : x10'[0][j].k = "status" => x10'[0][j].v # x3[0]
    BY <2>2, <2>3, <2>4
  <2> QED BY <2>2, <2>5, <2>6 DEF Handshake!Unread
<1>5. Handshake!AcksAreOurs'
  BY <1>4 DEF Handshake!AcksAreOurs
<1>6. \A i \in DOMAIN x10'[0] : x10'[0][i].k = "status" => x10'[0][i].v <= x3[0]
  <2> SUFFICES ASSUME NEW i \in DOMAIN x10'[0], x10'[0][i].k = "status"
                PROVE  x10'[0][i].v <= x3[0]
    OBVIOUS
  <2>1. i + 1 \in DOMAIN u /\ x10'[0][i] = u[i + 1]
    BY <1>1
  <2> QED BY <1>3, <2>1
<1> QED BY <1>1, <1>2, <1>3, <1>5, <1>6

\* A line lost on its way to the BLE scanner.
LEMMA HandSentTail ==
    ASSUME HandInv, NEW q \in Seq(Nat), q = x9[0], q # << >>, x9'[0] = Tail(q), UNCHANGED <<x1, x2>>
    PROVE  Handshake!SentInOrder'
<1>1. /\ Len(q) \in Nat \ {0} /\ DOMAIN q = 1..Len(q)
      /\ DOMAIN Tail(q) = 1..Len(q) - 1
      /\ \A i \in 1..Len(q) - 1 : i + 1 \in DOMAIN q /\ Tail(q)[i] = q[i + 1]
  BY TailOf
<1>2. /\ \A i \in DOMAIN q : q[i] <= x1
      /\ \A i, j \in DOMAIN q : i <= j => q[i] <= q[j]
      /\ x2 = x1 => \A i \in DOMAIN q : q[i] = x1
  BY DEF HandInv, Handshake!FilteredInv, Handshake!SentInOrder
<1>3. \A i, j \in DOMAIN Tail(q) : i <= j => Tail(q)[i] <= Tail(q)[j]
  <2> SUFFICES ASSUME NEW i \in DOMAIN Tail(q), NEW j \in DOMAIN Tail(q), i <= j
               PROVE  Tail(q)[i] <= Tail(q)[j]
    OBVIOUS
  <2>1. /\ i + 1 \in DOMAIN q /\ j + 1 \in DOMAIN q
        /\ Tail(q)[i] = q[i + 1] /\ Tail(q)[j] = q[j + 1]
    BY <1>1
  <2>2. i + 1 <= j + 1
    BY <1>1
  <2>3. q[i + 1] <= q[j + 1]
    BY <1>2, <2>1, <2>2
  <2> QED BY <2>1, <2>3
<1> QED BY <1>1, <1>2, <1>3 DEF Handshake!SentInOrder

LEMMA HandOther ==
    ASSUME HandInv, NEW l \in {0, 1},
           \/ Handshake!TakeSelf(1) \/ Handshake!Status(l) \/ Handshake!Receive(l)
           \/ Handshake!Lose(l) \/ Handshake!ScannerReset(l)
    PROVE  HandInv'
<1>1. /\ x1 \in Nat \ {0} /\ x2 \in 0..x1 /\ x6 \in {0, x1}
      /\ x3 \in [{0, 1} -> Nat] /\ x4 \in [{0, 1} -> Nat]
      /\ x5 \in Policies /\ x7 \in BOOLEAN
      /\ x9 \in [{0, 1} -> Seq(Nat)] /\ x10 \in [{0, 1} -> Seq(Heard)]
  BY HandTypes DEF HandInv
<1>2. x1' = x1 /\ x5' = x5 /\ x7' = x7
  BY DEF Handshake!TakeSelf, Handshake!Status, Handshake!Receive, Handshake!Lose, Handshake!ScannerReset
<1>3. ASSUME NEW k \in {0, 1}, x10[k] # << >>
      PROVE  /\ Head(x10[k]) = x10[k][1] /\ Head(x10[k]) \in Heard /\ 1 \in DOMAIN x10[k]
             /\ Tail(x10[k]) \in Seq(Heard) /\ DOMAIN Tail(x10[k]) = 1..Len(x10[k]) - 1
             /\ \A i \in 1..Len(x10[k]) - 1 : i + 1 \in DOMAIN x10[k] /\ Tail(x10[k])[i] = x10[k][i + 1]
  <2>1. x10[k] \in Seq(Heard)
    BY <1>1
  <2> QED BY <1>3, <2>1, TailOf
<1>4. ASSUME NEW k \in {0, 1}, x9[k] # << >> PROVE Tail(x9[k]) \in Seq(Nat)
  <2>1. x9[k] \in Seq(Nat)
    BY <1>1
  <2> QED BY <1>4, <2>1, TailOf
<1>5. ASSUME NEW k \in {0, 1}, x10[k] # << >>, x10' = [x10 EXCEPT ![k] = Tail(x10[k])]
      PROVE  x10' \in [{0, 1} -> Seq(Heard)] /\ Handshake!OnlyBleAcks'
  <2>1. x10' \in [{0, 1} -> Seq(Heard)] /\ x10'[k] = Tail(x10[k])
    BY <1>1, <1>3, <1>5
  <2>2. \A i \in DOMAIN x10[1] : x10[1][i].k = "status"
    BY DEF HandInv, Handshake!FilteredInv, Handshake!OnlyBleAcks
  <2>3. CASE k = 0
    <3>1. x10'[1] = x10[1]
      BY <1>1, <1>5, <2>3
    <3> QED BY <2>1, <2>2, <3>1 DEF Handshake!OnlyBleAcks
  <2>4. CASE k = 1
    BY <1>3, <1>5, <2>1, <2>2, <2>4 DEF Handshake!OnlyBleAcks
  <2> QED BY <2>1, <2>3, <2>4
<1>6. x10' = x10 => Handshake!OnlyBleAcks'
  BY DEF HandInv, Handshake!FilteredInv, Handshake!OnlyBleAcks
<1>7. CASE Handshake!TakeSelf(1)
  <2>1. /\ x9[1] # << >> /\ x9' = [x9 EXCEPT ![1] = Tail(x9[1])]
        /\ UNCHANGED <<x2, x3, x4, x6, x10>>
    BY <1>7 DEF Handshake!TakeSelf
  <2>2. x9' \in [{0, 1} -> Seq(Nat)] /\ x9'[0] = x9[0]
    BY <1>1, <1>4, <2>1
  <2>3. Handshake!TypeOK'
    BY <1>1, <1>2, <2>1, <2>2 DEF Handshake!TypeOK, Handshake!Lanes,
           Handshake!None, Policies, Heard
  <2> QED BY <1>2, <1>6, <2>1, <2>2, <2>3, HandStays
<1>8. CASE Handshake!Status(l)
  <2> DEFINE m == [k |-> "status", v |-> x3[l]]
  <2>1. /\ x10' = [x10 EXCEPT ![l] = Append(x10[l], m)]
        /\ UNCHANGED <<x2, x3, x4, x6, x9>>
    BY <1>8 DEF Handshake!Status
  <2>2. x10[l] \in Seq(Heard) /\ m \in Heard
    BY <1>1 DEF Heard
  <2>3. m.k = "status" /\ m.v = x3[l]
    OBVIOUS
  <2> HIDE DEF m
  <2> DEFINE u == x10[l]
  <2>4. /\ Len(u) \in Nat /\ DOMAIN u = 1..Len(u)
        /\ Append(u, m) \in Seq(Heard) /\ DOMAIN Append(u, m) = 1..Len(u) + 1
        /\ \A i \in 1..Len(u) : Append(u, m)[i] = u[i]
        /\ Append(u, m)[Len(u) + 1] = m
    BY <2>2, AppendOf
  <2>5. x10' \in [{0, 1} -> Seq(Heard)] /\ x10'[l] = Append(u, m)
    BY <1>1, <2>1, <2>4
  <2>6. Handshake!TypeOK'
    BY <1>1, <1>2, <2>1, <2>5 DEF Handshake!TypeOK, Handshake!Lanes,
           Handshake!None, Policies, Heard
  <2>7. \A i \in 1..Len(u) + 1 : i \in 1..Len(u) \/ i = Len(u) + 1
    BY <2>4
  <2>8. CASE l = 1
    <3>1. x10'[0] = x10[0]
      BY <1>1, <2>1, <2>8
    <3>2. Handshake!OnlyBleAcks'
      <4>1. \A i \in 1..Len(u) : u[i].k = "status"
        BY <2>4, <2>8 DEF HandInv, Handshake!FilteredInv, Handshake!OnlyBleAcks
      <4> HIDE DEF u
      <4>2. \A i \in DOMAIN x10'[l] : x10'[l][i].k = "status"
        BY <2>3, <2>4, <2>5, <2>7, <4>1
      <4> QED BY <2>8, <4>2 DEF Handshake!OnlyBleAcks
    <3> QED BY <1>2, <2>1, <2>6, <3>1, <3>2, HandStays
  <2>9. CASE l = 0
    <3>1. Handshake!OnlyBleAcks'
      <4>1. x10'[1] = x10[1]
        BY <1>1, <2>1, <2>9
      <4> QED BY <4>1 DEF HandInv, Handshake!FilteredInv, Handshake!OnlyBleAcks
    <3>2. x3[0] \in Nat /\ x3'[0] = x3[0] /\ x4'[0] = x4[0] /\ m.v = x3[0]
      BY <1>1, <2>1, <2>3, <2>9
    <3>3. /\ \A i \in 1..Len(u) : u[i].k = "status" => u[i].v <= x3[0]
          /\ \A i \in 1..Len(u) : u[i] = [k |-> "ack", v |-> x1] => x2 = x1 \/ Handshake!Unread(i)
          /\ x5.boots[0] <= x3[0] /\ x4[0] <= x3[0]
      BY <2>4, <2>9 DEF HandInv, Handshake!FilteredInv, Handshake!BootsKnown, Handshake!AcksAreOurs
    <3>4. /\ DOMAIN x10'[0] = 1..Len(u) + 1 /\ x10'[0][Len(u) + 1] = m
          /\ \A i \in 1..Len(u) : x10'[0][i] = u[i] /\ x10'[0][i] = x10[0][i]
      BY <2>4, <2>5, <2>9
    <3> HIDE DEF u
    <3>5. Handshake!BootsKnown'
      BY <1>2, <2>1, <2>7, <3>2, <3>3, <3>4 DEF Handshake!BootsKnown
    <3>6. Handshake!AcksAreOurs'
      <4> SUFFICES ASSUME NEW i \in DOMAIN x10'[0], x10'[0][i] = [k |-> "ack", v |-> x1], x2 # x1
                   PROVE  Handshake!Unread(i)'
        BY <1>2, <2>1 DEF Handshake!AcksAreOurs
      <4>1. i \in 1..Len(u)
        BY <2>3, <2>7, <3>4
      <4>2. Handshake!Unread(i)
        BY <3>3, <3>4, <4>1
      <4>3. \A j \in 1..i : j \in 1..Len(u)
        BY <2>4, <4>1
      <4> QED BY <1>2, <2>1, <3>2, <3>4, <4>2, <4>3 DEF Handshake!Unread
    <3>7. Handshake!SentInOrder'
      BY <1>2, <2>1 DEF HandInv, Handshake!FilteredInv, Handshake!SentInOrder
    <3> QED BY <1>2, <2>1, <2>6, <3>1, <3>2, <3>5, <3>6, <3>7 DEF HandInv, Handshake!FilteredInv
  <2> QED BY <2>8, <2>9
<1>9. CASE Handshake!Receive(l)
  <2>1. /\ x10[l] # << >> /\ x10' = [x10 EXCEPT ![l] = Tail(x10[l])]
        /\ UNCHANGED <<x2, x3, x9>>
        /\ \/ /\ Head(x10[l]).k = "status" /\ x4' = [x4 EXCEPT ![l] = Head(x10[l]).v]
              /\ x6' = x6
           \/ /\ Head(x10[l]).k = "ack" /\ x4' = x4
              /\ x6' = IF Head(x10[l]).v = x1 THEN x1 ELSE x6
    BY <1>9 DEF Handshake!Receive, Handshake!AckIsOurs
  <2>2. x10' \in [{0, 1} -> Seq(Heard)] /\ Handshake!OnlyBleAcks'
    BY <1>5, <2>1
  <2>3. /\ Head(x10[l]) = x10[l][1] /\ Head(x10[l]) \in Heard /\ 1 \in DOMAIN x10[l]
        /\ Head(x10[l]).v \in Nat
    BY <1>3, <2>1 DEF Heard
  <2>4. x4' \in [{0, 1} -> Nat] /\ x6' \in {0, x1}
    BY <1>1, <2>1, <2>3
  <2>5. Handshake!TypeOK'
    BY <1>1, <1>2, <2>1, <2>2, <2>4 DEF Handshake!TypeOK, Handshake!Lanes,
           Handshake!None, Policies, Heard
  <2>6. CASE l = 1
    <3>1. Head(x10[1]).k = "status"
      BY <2>3, <2>6 DEF HandInv, Handshake!FilteredInv, Handshake!OnlyBleAcks
    <3>2. x10'[0] = x10[0] /\ x4'[0] = x4[0] /\ x6' = x6
      BY <1>1, <2>1, <2>6, <3>1
    <3> QED BY <1>2, <2>1, <2>2, <2>5, <3>2, HandStays
  <2>7. CASE l = 0
    <3> DEFINE u == x10[0]
    <3>1. /\ u \in Seq(Heard) /\ u # << >> /\ x10'[0] = Tail(u)
          /\ x4'[0] = x4[0] \/ (u[1].k = "status" /\ x4'[0] = u[1].v)
      BY <1>1, <2>1, <2>3, <2>7
    <3>2. /\ Handshake!AcksAreOurs'
          /\ \A i \in DOMAIN x10'[0] : x10'[0][i].k = "status" => x10'[0][i].v <= x3[0]
          /\ u[1] = [k |-> "ack", v |-> x1] => x2 = x1 \/ x5.boots[0] # x3[0]
          /\ u[1].k = "status" => u[1].v <= x3[0]
      BY <1>2, <2>1, <3>1, HandPopped
    <3>3. Handshake!BootsKnown'
      BY <1>2, <2>1, <3>1, <3>2 DEF HandInv, Handshake!FilteredInv, Handshake!BootsKnown
    <3>4. Handshake!SentInOrder'
      BY <1>2, <2>1 DEF HandInv, Handshake!FilteredInv, Handshake!SentInOrder
    <3>5. x6' = x1 => x2 = x1 \/ x5.boots[0] # x3[0]
      <4>1. x6 = x1 => x2 = x1 \/ x5.boots[0] # x3[0]
        BY DEF HandInv, Handshake!FilteredInv
      <4>2. CASE u[1].k = "ack" /\ u[1].v = x1
        <5>1. u[1] = [k |-> "ack", v |-> x1]
          BY <2>3, <2>7, <4>2 DEF Heard
        <5> QED BY <3>2, <5>1
      <4> QED BY <2>1, <2>3, <2>7, <4>1, <4>2
    <3>6. x7 => x6' = x1
      BY <2>1 DEF HandInv, Handshake!FilteredInv
    <3> QED BY <1>2, <2>1, <2>2, <2>5, <3>2, <3>3, <3>4, <3>5, <3>6 DEF HandInv, Handshake!FilteredInv
  <2> QED BY <2>6, <2>7
<1>10. CASE Handshake!Lose(l)
  <2>1. /\ UNCHANGED <<x2, x3, x4, x6>>
        /\ \/ x9[l] # << >> /\ x9' = [x9 EXCEPT ![l] = Tail(x9[l])] /\ x10' = x10
           \/ x10[l] # << >> /\ x10' = [x10 EXCEPT ![l] = Tail(x10[l])] /\ x9' = x9
    BY <1>10 DEF Handshake!Lose
  <2>2. /\ x9' \in [{0, 1} -> Seq(Nat)] /\ x10' \in [{0, 1} -> Seq(Heard)]
        /\ Handshake!OnlyBleAcks'
    <3>1. CASE x9[l] # << >> /\ x9' = [x9 EXCEPT ![l] = Tail(x9[l])] /\ x10' = x10
      BY <1>1, <1>4, <1>6, <3>1
    <3>2. CASE x10[l] # << >> /\ x10' = [x10 EXCEPT ![l] = Tail(x10[l])] /\ x9' = x9
      BY <1>1, <1>5, <3>2
    <3> QED BY <2>1, <3>1, <3>2
  <2>3. Handshake!TypeOK'
    BY <1>1, <1>2, <2>1, <2>2 DEF Handshake!TypeOK, Handshake!Lanes,
           Handshake!None, Policies, Heard
  <2>4. CASE l = 1
    <3>1. x9'[0] = x9[0] /\ x10'[0] = x10[0]
      BY <1>1, <2>1, <2>4
    <3> QED BY <1>2, <2>1, <2>2, <2>3, <3>1, HandStays
  <2>5. CASE l = 0 /\ x9[0] # << >> /\ x9' = [x9 EXCEPT ![0] = Tail(x9[0])] /\ x10' = x10
    <3>1. x9[0] \in Seq(Nat) /\ x9'[0] = Tail(x9[0])
      BY <1>1, <2>5
    <3>2. Handshake!SentInOrder'
      BY <1>2, <2>1, <2>5, <3>1, HandSentTail
    <3> QED BY <1>2, <2>1, <2>2, <2>3, <2>5, <3>2 DEF HandInv, Handshake!FilteredInv,
               Handshake!BootsKnown, Handshake!AcksAreOurs, Handshake!Unread
  <2>6. CASE l = 0 /\ x10[0] # << >> /\ x10' = [x10 EXCEPT ![0] = Tail(x10[0])] /\ x9' = x9
    <3>1. x10[0] \in Seq(Heard) /\ x10'[0] = Tail(x10[0])
      BY <1>1, <2>6
    <3>2. /\ Handshake!AcksAreOurs'
          /\ \A i \in DOMAIN x10'[0] : x10'[0][i].k = "status" => x10'[0][i].v <= x3[0]
      BY <1>2, <2>1, <2>6, <3>1, HandPopped
    <3>3. Handshake!BootsKnown'
      BY <1>2, <2>1, <3>2 DEF HandInv, Handshake!FilteredInv, Handshake!BootsKnown
    <3>4. Handshake!SentInOrder'
      BY <1>2, <2>1, <2>6 DEF HandInv, Handshake!FilteredInv, Handshake!SentInOrder
    <3> QED BY <1>2, <2>1, <2>2, <2>3, <3>2, <3>3, <3>4 DEF HandInv, Handshake!FilteredInv
  <2> QED BY <2>1, <2>4, <2>5, <2>6
<1>11. CASE Handshake!ScannerReset(l)
  <2>1. /\ x3' = [x3 EXCEPT ![l] = @ + 1] /\ x2' = (IF l = 0 THEN 0 ELSE x2)
        /\ x9' = [x9 EXCEPT ![l] = << >>] /\ UNCHANGED <<x4, x6, x10>>
    BY <1>11 DEF Handshake!ScannerReset, Handshake!None
  <2>2. /\ x3' \in [{0, 1} -> Nat] /\ x3'[l] = x3[l] + 1
        /\ x9' \in [{0, 1} -> Seq(Nat)] /\ x9'[l] = << >> /\ x2' \in 0..x1
    BY <1>1, <2>1
  <2>3. Handshake!TypeOK'
    BY <1>1, <1>2, <2>1, <2>2 DEF Handshake!TypeOK, Handshake!Lanes,
           Handshake!None, Policies, Heard
  <2>4. CASE l = 1
    <3>1. x9'[0] = x9[0] /\ x3'[0] = x3[0] /\ x2' = x2
      BY <1>1, <2>1, <2>4
    <3> QED BY <1>2, <1>6, <2>1, <2>3, <3>1, HandStays
  <2>5. CASE l = 0
    <3>1. x2' = 0 /\ x2' # x1 /\ x9'[0] = << >> /\ x3'[0] = x3[0] + 1 /\ x3[0] \in Nat
      BY <1>1, <2>1, <2>2, <2>5
    <3>2. /\ x5.boots[0] <= x3[0] /\ x4[0] <= x3[0] /\ x5.boots[0] \in Nat /\ x4[0] \in Nat
          /\ \A i \in DOMAIN x10[0] : x10[0][i].k = "status" => x10[0][i].v <= x3[0]
      BY <1>1 DEF HandInv, Handshake!FilteredInv, Handshake!BootsKnown, Policies
    <3>3. \A i \in DOMAIN x10[0] : x10[0][i].v \in Nat
      <4>1. x10[0] \in Seq(Heard)
        BY <1>1
      <4>2. \A i \in DOMAIN x10[0] : x10[0][i] \in Heard
        BY <4>1, ElementOf
      <4> QED BY <4>2 DEF Heard
    <3>4. /\ x5.boots[0] <= x3'[0] /\ x4[0] <= x3'[0] /\ x5.boots[0] # x3'[0] /\ x4[0] # x3'[0]
      BY <3>1, <3>2
    <3>5. \A i \in DOMAIN x10[0] : x10[0][i].k = "status" =>
             x10[0][i].v <= x3'[0] /\ x10[0][i].v # x3'[0]
      BY <3>1, <3>2, <3>3
    <3>6. Handshake!BootsKnown'
      BY <1>2, <2>1, <3>4, <3>5 DEF Handshake!BootsKnown
    <3>7. Handshake!AcksAreOurs'
      <4>1. x10[0] \in Seq(Heard) /\ DOMAIN x10[0] = 1..Len(x10[0]) /\ Len(x10[0]) \in Nat
        BY <1>1
      <4>2. \A i \in DOMAIN x10[0] : \A j \in 1..i : j \in DOMAIN x10[0]
        BY <4>1
      <4> QED BY <1>2, <2>1, <3>4, <3>5, <4>2 DEF Handshake!AcksAreOurs, Handshake!Unread
    <3>8. Handshake!SentInOrder'
      BY <1>2, <3>1 DEF Handshake!SentInOrder
    <3>9. x5'.boots[0] # x3'[0] /\ (x7' => x6' = x1')
      BY <1>2, <2>1, <3>4 DEF HandInv, Handshake!FilteredInv
    <3> QED BY <1>6, <2>1, <2>3, <3>6, <3>7, <3>8, <3>9 DEF HandInv, Handshake!FilteredInv
  <2> QED BY <2>4, <2>5
<1> QED BY <1>7, <1>8, <1>9, <1>10, <1>11

LEMMA HandNext == HandInv /\ [Handshake!Next]_(Handshake!vars) => HandInv'
<1> SUFFICES ASSUME HandInv, [Handshake!Next]_(Handshake!vars) PROVE HandInv'
  OBVIOUS
<1>1. CASE UNCHANGED Handshake!vars
  BY <1>1 DEF Handshake!vars, HandInv, Handshake!TypeOK, Handshake!FilteredInv, Handshake!SentInOrder,
              Handshake!BootsKnown, Handshake!AcksAreOurs, Handshake!Unread, Handshake!OnlyBleAcks
<1>2. CASE \E l \in {0, 1} : \/ Handshake!TakeSelf(l) \/ Handshake!Status(l) \/ Handshake!Receive(l)
                             \/ Handshake!Lose(l) \/ Handshake!ScannerReset(l)
  <2>1. PICK l \in {0, 1} : \/ Handshake!TakeSelf(l) \/ Handshake!Status(l) \/ Handshake!Receive(l)
                            \/ Handshake!Lose(l) \/ Handshake!ScannerReset(l)
    BY <1>2
  <2>2. CASE Handshake!TakeSelf(l)
    BY <2>2, HandTakes, HandOther
  <2> QED BY <2>1, <2>2, HandOther
<1> QED BY <1>1, <1>2, HandPoll, HandBadge DEF Handshake!Next, Handshake!Lanes

-----------------------------------------------------------------------------
(* Power (PowerConvergence): x1 state, x4 poll, x6 scanner, x7 fresh,       *)
(* x8 down, x9 up.  What the invariant says of one scanner is a fact about  *)
(* the lines q on their way down, the answers u on their way up, the        *)
(* scanner's mode and unsaid restart m, the wanted generation g and mode w, *)
(* and whether the scanner is taken for converged, c.                       *)
PowerInv == Power!TypeOK /\ Power!ProofInv

Ordered(q, g, w) ==
    /\ \A i \in DOMAIN q : q[i].generation <= g /\ (q[i].generation = g => q[i].quiet = w)
    /\ \A i, j \in DOMAIN q : i <= j => q[i].generation <= q[j].generation
Older(u, g) == \A i \in DOMAIN u : u[i].generation <= g
Current(q, g) == \A i \in DOMAIN q : q[i].generation = g
Proof(a, g, w) == a.is = "ack" /\ a.ok /\ a.quiet = w /\ a.generation = g
Leaves(u, from, m, w) ==
    m.mode = Power!Mode(w) \/ m.unsaid \/ \E i \in from..Len(u) : u[i].is = "identity"
ProofsHold(q, u, m, g, w) ==
    \A i \in DOMAIN u : Proof(u[i], g, w) => Current(q, g) /\ Leaves(u, i + 1, m, w)
LinkOk(q, u, m, g, w, c) ==
    /\ Ordered(q, g, w) /\ Older(u, g) /\ ProofsHold(q, u, m, g, w)
    /\ c => Current(q, g) /\ Leaves(u, 1, m, w)

\* A new request outdates every line.
LEMMA LinkNewer ==
    ASSUME NEW q \in Seq(Power!Lines), NEW u \in Seq(Power!Answers), NEW m, NEW g \in Nat,
           NEW w, NEW c, NEW v, LinkOk(q, u, m, g, w, c)
    PROVE  LinkOk(q, u, m, g + 1, v, FALSE)
<1>1. \A i \in DOMAIN q : q[i].generation \in Nat
  <2>1. \A i \in DOMAIN q : q[i] \in Power!Lines
    BY ElementOf
  <2> QED BY <2>1 DEF Power!Lines
<1>2. \A i \in DOMAIN u : u[i].generation \in Nat
  <2>1. \A i \in DOMAIN u : u[i] \in Power!Answers
    BY ElementOf
  <2> QED BY <2>1 DEF Power!Answers
<1>3. /\ \A i \in DOMAIN q : q[i].generation <= g + 1 /\ q[i].generation # g + 1
      /\ \A i \in DOMAIN u : u[i].generation <= g + 1 /\ u[i].generation # g + 1
  BY <1>1, <1>2 DEF LinkOk, Ordered, Older
<1> QED BY <1>3 DEF LinkOk, Ordered, Older, ProofsHold, Proof

\* The newest line is the wanted one.
LEMMA LinkSent ==
    ASSUME NEW q \in Seq(Power!Lines), NEW u \in Seq(Power!Answers), NEW m, NEW g \in Nat,
           NEW w \in BOOLEAN, NEW c, NEW l \in Power!Lines, l.quiet = w, l.generation = g,
           LinkOk(q, u, m, g, w, c)
    PROVE  LinkOk(Append(q, l), u, m, g, w, c)
<1>1. /\ Len(q) \in Nat /\ DOMAIN q = 1..Len(q)
      /\ DOMAIN Append(q, l) = 1..Len(q) + 1
      /\ \A i \in 1..Len(q) : Append(q, l)[i] = q[i]
      /\ Append(q, l)[Len(q) + 1] = l
  BY AppendOf
<1> DEFINE p == Append(q, l)
<1>2. \A i \in 1..Len(q) + 1 : i \in 1..Len(q) \/ i = Len(q) + 1
  BY <1>1
<1>3. \A i \in 1..Len(q), j \in 1..Len(q) + 1 : j <= i => j # Len(q) + 1
  BY <1>1
<1> HIDE DEF p
<1>4. /\ DOMAIN p = 1..Len(q) + 1 /\ \A i \in 1..Len(q) : p[i] = q[i]
      /\ p[Len(q) + 1] = l
  BY <1>1 DEF p
<1>5. \A i \in DOMAIN p : p[i].generation <= g /\ (p[i].generation = g => p[i].quiet = w)
  BY <1>1, <1>2, <1>4 DEF LinkOk, Ordered
<1>6. \A i, j \in DOMAIN p : i <= j => p[i].generation <= p[j].generation
  <2> SUFFICES ASSUME NEW i \in DOMAIN p, NEW j \in DOMAIN p, i <= j
               PROVE  p[i].generation <= p[j].generation
    OBVIOUS
  <2>1. CASE j = Len(q) + 1
    BY <1>4, <1>5, <2>1
  <2>2. CASE j \in 1..Len(q)
    <3>1. i \in 1..Len(q)
      BY <1>1, <1>4, <2>2
    <3> QED BY <1>1, <1>4, <2>2, <3>1 DEF LinkOk, Ordered
  <2> QED BY <1>2, <1>4, <2>1, <2>2
<1>7. Current(q, g) => Current(p, g)
  BY <1>1, <1>2, <1>4 DEF Current
<1>8. LinkOk(p, u, m, g, w, c)
  BY <1>5, <1>6, <1>7 DEF LinkOk, Ordered, ProofsHold
<1> QED BY <1>8 DEF p

\* The badge reads an answer: only a proof makes the scanner converged.
LEMMA LinkRead ==
    ASSUME NEW q \in Seq(Power!Lines), NEW u \in Seq(Power!Answers), NEW m, NEW g \in Nat,
           NEW w, NEW c, NEW d, u # << >>, LinkOk(q, u, m, g, w, c), d => Proof(u[1], g, w)
    PROVE  LinkOk(q, Tail(u), m, g, w, d)
<1>1. /\ Len(u) \in Nat \ {0} /\ DOMAIN u = 1..Len(u) /\ 1 \in DOMAIN u
      /\ Len(Tail(u)) = Len(u) - 1 /\ DOMAIN Tail(u) = 1..Len(u) - 1
      /\ \A i \in 1..Len(u) - 1 : i + 1 \in DOMAIN u /\ Tail(u)[i] = u[i + 1]
  BY TailOf
<1> DEFINE t == Tail(u)
<1> HIDE DEF t
<1>2. /\ Len(t) = Len(u) - 1 /\ DOMAIN t = 1..Len(u) - 1
      /\ \A i \in 1..Len(u) - 1 : i + 1 \in DOMAIN u /\ t[i] = u[i + 1]
  BY <1>1 DEF t
<1>3. ASSUME NEW i \in Nat \ {0}, Leaves(u, i + 1, m, w) PROVE Leaves(t, i, m, w)
  <2>1. CASE m.mode = Power!Mode(w) \/ m.unsaid
    BY <2>1 DEF Leaves
  <2>2. CASE \E j \in i + 1..Len(u) : u[j].is = "identity"
    <3>1. PICK j \in i + 1..Len(u) : u[j].is = "identity"
      BY <2>2
    <3>2. j - 1 \in i..Len(u) - 1 /\ j - 1 \in 1..Len(u) - 1 /\ (j - 1) + 1 = j
      BY <1>1, <3>1
    <3>3. t[j - 1] = u[j]
      BY <1>2, <3>2
    <3>4. j - 1 \in i..Len(t) /\ t[j - 1].is = "identity"
      BY <1>2, <3>1, <3>2, <3>3
    <3> QED BY <3>4 DEF Leaves
  <2> QED BY <1>3, <2>1, <2>2 DEF Leaves
<1>4. Older(t, g)
  BY <1>2 DEF LinkOk, Older
<1>5. ASSUME NEW i \in DOMAIN t, Proof(t[i], g, w)
      PROVE  Current(q, g) /\ Leaves(t, i + 1, m, w)
  <2>1. i + 1 \in DOMAIN u /\ t[i] = u[i + 1] /\ i + 1 \in Nat \ {0}
    BY <1>1, <1>2
  <2>2. Current(q, g) /\ Leaves(u, (i + 1) + 1, m, w)
    BY <1>5, <2>1 DEF LinkOk, ProofsHold
  <2> QED BY <1>3, <2>1, <2>2
<1>6. d => Current(q, g) /\ Leaves(t, 1, m, w)
  <2>1. d => Current(q, g) /\ Leaves(u, 1 + 1, m, w)
    BY <1>1 DEF LinkOk, ProofsHold
  <2> QED BY <1>3, <2>1
<1>7. LinkOk(q, t, m, g, w, d)
  BY <1>4, <1>5, <1>6 DEF LinkOk, ProofsHold
<1> QED BY <1>7 DEF t

\* A line that goes, carried out or lost, leaves the rest in order.
LEMMA OrderedTail ==
    ASSUME NEW q \in Seq(Power!Lines), q # << >>, NEW g \in Nat, NEW w, Ordered(q, g, w)
    PROVE  /\ Ordered(Tail(q), g, w) /\ (Current(q, g) => Current(Tail(q), g))
           /\ Head(q) = q[1] /\ Head(q) \in Power!Lines /\ q[1].generation <= g
           /\ q[1].generation = g => q[1].quiet = w /\ Current(Tail(q), g)
<1>1. /\ Len(q) \in Nat \ {0} /\ DOMAIN q = 1..Len(q)
      /\ Head(q) = q[1] /\ Head(q) \in Power!Lines /\ 1 \in DOMAIN q
      /\ DOMAIN Tail(q) = 1..Len(q) - 1
      /\ \A i \in 1..Len(q) - 1 : i + 1 \in DOMAIN q /\ Tail(q)[i] = q[i + 1]
  BY TailOf
<1> DEFINE t == Tail(q)
<1> HIDE DEF t
<1>2. /\ DOMAIN t = 1..Len(q) - 1
      /\ \A i \in 1..Len(q) - 1 : i + 1 \in DOMAIN q /\ t[i] = q[i + 1]
  BY <1>1 DEF t
<1>3. \A i, j \in DOMAIN t : i <= j => t[i].generation <= t[j].generation
  <2> SUFFICES ASSUME NEW i \in DOMAIN t, NEW j \in DOMAIN t, i <= j
               PROVE  t[i].generation <= t[j].generation
    OBVIOUS
  <2>1. /\ i + 1 \in DOMAIN q /\ j + 1 \in DOMAIN q /\ i + 1 <= j + 1
        /\ t[i] = q[i + 1] /\ t[j] = q[j + 1]
    BY <1>1, <1>2
  <2> QED BY <2>1 DEF Ordered
<1>4. Ordered(t, g, w) /\ (Current(q, g) => Current(t, g))
  BY <1>2, <1>3 DEF Ordered, Current
<1>5. q[1].generation = g => Current(t, g)
  <2> SUFFICES ASSUME q[1].generation = g, NEW i \in DOMAIN t PROVE t[i].generation = g
    BY DEF Current
  <2>1. i + 1 \in DOMAIN q /\ t[i] = q[i + 1] /\ 1 <= i + 1
    BY <1>1, <1>2
  <2>2. q[1].generation <= q[i + 1].generation /\ q[i + 1].generation <= g
    BY <1>1, <2>1 DEF Ordered
  <2>3. q[i + 1].generation \in Nat
    <3>1. q[i + 1] \in Power!Lines
      BY <2>1, ElementOf
    <3> QED BY <3>1 DEF Power!Lines
  <2> QED BY <2>1, <2>2, <2>3
<1>6. q[1].generation <= g /\ (q[1].generation = g => q[1].quiet = w)
  BY <1>1 DEF Ordered
<1> QED BY <1>1, <1>4, <1>5, <1>6 DEF t

LEMMA LinkLost ==
    ASSUME NEW q \in Seq(Power!Lines), NEW u \in Seq(Power!Answers), NEW m, NEW g \in Nat,
           NEW w, NEW c, q # << >>, LinkOk(q, u, m, g, w, c)
    PROVE  LinkOk(Tail(q), u, m, g, w, c)
<1>1. Ordered(Tail(q), g, w) /\ (Current(q, g) => Current(Tail(q), g))
  BY OrderedTail DEF LinkOk
<1> QED BY <1>1 DEF LinkOk, ProofsHold

\* The scanner carries a command out, or fails to, and may say so.
LEMMA LinkCarried ==
    ASSUME NEW q \in Seq(Power!Lines), NEW u \in Seq(Power!Answers), NEW m, NEW g \in Nat,
           NEW w, NEW c, q # << >>, LinkOk(q, u, m, g, w, c),
           NEW a \in Power!Answers, a.quiet = q[1].quiet, a.generation = q[1].generation,
           NEW n, m.mode = Power!Mode(q[1].quiet) => n.mode = m.mode,
           m.unsaid => n.unsaid \/ n.mode = Power!Mode(q[1].quiet),
           a.ok => n.mode = Power!Mode(q[1].quiet),
           NEW v, v \in {u, Append(u, a)}
    PROVE  LinkOk(Tail(q), v, n, g, w, c)
<1>1. /\ Ordered(Tail(q), g, w) /\ (Current(q, g) => Current(Tail(q), g))
      /\ q[1].generation <= g
      /\ q[1].generation = g => q[1].quiet = w /\ Current(Tail(q), g)
  BY OrderedTail DEF LinkOk
<1>2. 1 \in DOMAIN q
  BY TailOf
<1>3. Current(q, g) => q[1].quiet = w
  BY <1>1, <1>2 DEF Current
<1>4. /\ Len(u) \in Nat /\ DOMAIN u = 1..Len(u)
      /\ Len(Append(u, a)) = Len(u) + 1 /\ DOMAIN Append(u, a) = 1..Len(u) + 1
      /\ \A i \in 1..Len(u) : Append(u, a)[i] = u[i]
      /\ Append(u, a)[Len(u) + 1] = a
  BY AppendOf
<1>5. /\ Len(u) <= Len(v) /\ Len(v) \in Nat /\ \A i \in 1..Len(u) : v[i] = u[i]
      /\ DOMAIN v = 1..Len(v)
      /\ \A i \in DOMAIN v : i \in 1..Len(u) \/ (i = Len(u) + 1 /\ v[i] = a)
  <2>1. CASE v = u
    BY <1>4, <2>1
  <2>2. CASE v = Append(u, a)
    BY <1>4, <2>2
  <2> QED BY <2>1, <2>2
<1>6. ASSUME NEW i \in Nat \ {0}, Current(q, g), Leaves(u, i, m, w) PROVE Leaves(v, i, n, w)
  <2>1. CASE m.mode = Power!Mode(w) \/ m.unsaid
    BY <1>3, <1>6, <2>1 DEF Leaves
  <2>2. CASE \E j \in i..Len(u) : u[j].is = "identity"
    <3>1. PICK j \in i..Len(u) : u[j].is = "identity"
      BY <2>2
    <3>2. j \in 1..Len(u) /\ j \in i..Len(v)
      <4>1. Len(u) \in Nat /\ Len(v) \in Nat /\ Len(u) <= Len(v) /\ i \in Nat \ {0}
        BY <1>4, <1>5, ZenonT(60)
      <4> QED BY <3>1, <4>1, SMTT(60)
    <3>3. v[j] = u[j]
      BY <1>5, <3>2, ZenonT(60)
    <3> QED BY <3>1, <3>2, <3>3 DEF Leaves
  <2> QED BY <1>6, <2>1, <2>2 DEF Leaves
<1>7. ASSUME NEW i \in DOMAIN v, Proof(v[i], g, w)
      PROVE  Current(Tail(q), g) /\ Leaves(v, i + 1, n, w)
  <2>1. CASE i \in 1..Len(u)
    <3>1. Current(q, g) /\ Leaves(u, i + 1, m, w)
      BY <1>4, <1>5, <1>7, <2>1 DEF LinkOk, ProofsHold
    <3>2. i + 1 \in Nat \ {0}
      BY <2>1
    <3> QED BY <1>1, <1>6, <3>1, <3>2, SMTT(60)
  <2>2. CASE v[i] = a
    BY <1>1, <1>7, <2>2, SMTT(60) DEF Proof, Leaves
  <2> QED BY <1>5, <2>1, <2>2
<1>8. Older(v, g)
  <2>1. \A i \in 1..Len(u) : v[i].generation <= g
    BY <1>4, <1>5 DEF LinkOk, Older
  <2> QED BY <1>1, <1>5, <2>1, ZenonT(60) DEF Older
<1>9. c => Current(Tail(q), g) /\ Leaves(v, 1, n, w)
  BY <1>1, <1>6 DEF LinkOk
<1> QED BY <1>1, <1>7, <1>8, <1>9 DEF LinkOk, ProofsHold

\* A scanner that says who it is, behind all it had said, may have restarted
\* and lost its commands.
LEMMA LinkIdentified ==
    ASSUME NEW q \in Seq(Power!Lines), NEW u \in Seq(Power!Answers), NEW m, NEW g \in Nat,
           NEW w, NEW c, LinkOk(q, u, m, g, w, c), NEW n, NEW p \in {q, << >>},
           NEW a \in Power!Answers, a.is = "identity", a.generation = 0
    PROVE  LinkOk(p, Append(u, a), n, g, w, c)
<1> DEFINE v == Append(u, a)
<1>1. /\ Len(u) \in Nat /\ DOMAIN u = 1..Len(u)
      /\ Len(v) = Len(u) + 1 /\ DOMAIN v = 1..Len(u) + 1
      /\ \A i \in 1..Len(u) : v[i] = u[i]
      /\ v[Len(u) + 1] = a
  BY AppendOf
<1> HIDE DEF v
<1>2. \A i \in 1..Len(u) + 1 : i \in 1..Len(u) \/ i = Len(u) + 1
  BY <1>1
<1>3. \A i \in 1..Len(u) : Len(u) + 1 \in (i + 1)..Len(v)
  BY <1>1
<1>4. Len(u) + 1 \in 1..Len(v)
  BY <1>1
<1>5. Ordered(p, g, w) /\ (Current(q, g) => Current(p, g))
  BY DEF LinkOk, Ordered, Current
<1>6. Older(v, g)
  BY <1>1, <1>2 DEF Older, LinkOk
<1>7. ProofsHold(p, v, n, g, w)
  BY <1>1, <1>2, <1>3, <1>5 DEF LinkOk, ProofsHold, Proof, Leaves
<1>8. LinkOk(p, v, n, g, w, c)
  BY <1>1, <1>4, <1>5, <1>6, <1>7 DEF LinkOk, Leaves
<1> QED BY <1>8 DEF v

\* A restart whose identity is lost.
LEMMA LinkUnsaid ==
    ASSUME NEW q, NEW u, NEW m, NEW g, NEW w, NEW c, LinkOk(q, u, m, g, w, c), NEW n, n.unsaid
    PROVE  LinkOk(<< >>, u, n, g, w, c)
BY DEF LinkOk, Ordered, Current, ProofsHold, Leaves

LEMMA PowerLinks ==
    Power!ProofInv <=> /\ Power!SendsWanted
                       /\ \A s \in Scanners : LinkOk(x8[s], x9[s], x6[s], x1.generation, x1.quiet,
                                                     Power!Converged(s))
BY DEF Power!ProofInv, Power!InOrder, Power!AcksAreProofs, Power!AllCurrent, Power!InMode,
       Power!Proves, LinkOk, Ordered, Older, ProofsHold, Current, Proof, Leaves

LEMMA PowerInitial == Power!Init => PowerInv
<1> SUFFICES ASSUME Power!Init PROVE PowerInv
  OBVIOUS
<1>1. /\ x1 = [quiet |-> FALSE, generation |-> 0,
               of |-> [s \in Scanners |-> [connected |-> FALSE, acked |-> FALSE]]]
      /\ x4 = [pc |-> "rest", left |-> {}, to |-> "none", quiet |-> FALSE, generation |-> 0]
      /\ x6 = [s \in Scanners |-> Power!Started(FALSE)] /\ x7 = {}
      /\ x8 = [s \in Scanners |-> << >>] /\ x9 = [s \in Scanners |-> <<Power!Identity>>]
  BY DEF Power!Init, Power!Unknown, Power!Rest
<1>2. Power!Identity \in Power!Answers /\ Power!Identity.is = "identity"
      /\ Power!Identity.generation = 0
  BY DEF Power!Identity, Power!Answers
<1> DEFINE u == <<Power!Identity>>
<1>3. u \in Seq(Power!Answers) /\ DOMAIN u = 1..1 /\ u[1] = Power!Identity
  BY <1>2
<1> HIDE DEF u
<1>4. Power!TypeOK
  <2>1. x9 \in [Scanners -> Seq(Power!Answers)]
    BY <1>1, <1>3 DEF u
  <2>2. x8 \in [Scanners -> Seq(Power!Lines)]
    BY <1>1
  <2> QED BY <1>1, <2>1, <2>2 DEF Power!TypeOK, Power!Started
<1>5. ASSUME NEW s \in Scanners
      PROVE  LinkOk(x8[s], x9[s], x6[s], x1.generation, x1.quiet, Power!Converged(s))
  <2>1. /\ x8[s] = << >> /\ x9[s] = u /\ ~Power!Converged(s) /\ x1.generation = 0
    BY <1>1 DEF Power!Converged, u
  <2>2. Ordered(<< >>, 0, x1.quiet)
    BY DEF Ordered
  <2>3. Older(u, 0) /\ \A i \in DOMAIN u : u[i].is = "identity"
    BY <1>2, <1>3 DEF Older
  <2> QED BY <2>1, <2>2, <2>3 DEF LinkOk, ProofsHold, Proof
<1>6. Power!SendsWanted
  BY <1>1 DEF Power!SendsWanted
<1> QED BY <1>4, <1>5, <1>6, PowerLinks DEF PowerInv

PowerLink(s) == LinkOk(x8[s], x9[s], x6[s], x1.generation, x1.quiet, Power!Converged(s))
Modal == [mode : {"active", "quiet", "between"}, unsaid : BOOLEAN]
Scanned == [connected : BOOLEAN, acked : BOOLEAN]
Wanted == [quiet : BOOLEAN, generation : Nat, of : [Scanners -> Scanned]]

LEMMA PowerTypes == Power!TypeOK =>
    /\ x1 \in Wanted /\ x1.generation \in Nat /\ x1.quiet \in BOOLEAN
    /\ x1.of \in [Scanners -> Scanned]
    /\ x6 \in [Scanners -> Modal]
    /\ x8 \in [Scanners -> Seq(Power!Lines)] /\ x9 \in [Scanners -> Seq(Power!Answers)]
BY DEF Power!TypeOK, Wanted, Scanned, Modal

LEMMA PowerThen ==
    ASSUME Power!TypeOK', Power!SendsWanted', \A s \in Scanners : PowerLink(s)'
    PROVE  PowerInv'
BY DEF PowerInv, PowerLink, Power!ProofInv, Power!InOrder, Power!AcksAreProofs, Power!AllCurrent,
       Power!InMode, Power!Proves, LinkOk, Ordered, Older, ProofsHold, Current, Proof, Leaves,
       Power!Converged

LEMMA PowerNow == PowerInv => Power!TypeOK /\ Power!SendsWanted /\ \A s \in Scanners : PowerLink(s)
BY PowerLinks DEF PowerInv, PowerLink

\* A scanner heard of, given up or asked anew is no longer converged.
LEMMA PowerLowered ==
    ASSUME Power!TypeOK,
           \/ x1' = x1 \/ \E c : x1' = Power!AllAs(c)
           \/ \E s \in Scanners : x1' = Power!Heard(s) \/ x1' = Power!Lost(s)
    PROVE  /\ x1' \in Wanted /\ x1'.generation = x1.generation /\ x1'.quiet = x1.quiet
           /\ \A s \in Scanners : Power!Converged(s)' => Power!Converged(s)
<1>1. x1 \in Wanted /\ x1.of \in [Scanners -> Scanned]
  BY PowerTypes
<1>2. CASE x1' = x1
  BY <1>1, <1>2 DEF Power!Converged
<1>3. CASE \E c : x1' = Power!AllAs(c)
  <2>1. PICK c : x1' = Power!AllAs(c)
    BY <1>3
  <2> DEFINE n == [s \in Scanners |-> [connected |-> s \in c, acked |-> FALSE]]
  <2>2. n \in [Scanners -> Scanned] /\ \A s \in Scanners : n[s].acked = FALSE
    BY DEF Scanned
  <2>3. x1' = [x1 EXCEPT !.of = n]
    BY <2>1 DEF Power!AllAs
  <2> HIDE DEF n
  <2> QED BY <1>1, <2>2, <2>3 DEF Power!Converged, Wanted
<1>4. CASE \E s \in Scanners : x1' = Power!Heard(s) \/ x1' = Power!Lost(s)
  <2>1. PICK s \in Scanners : x1' = Power!Heard(s) \/ x1' = Power!Lost(s)
    BY <1>4
  <2>2. PICK e \in Scanned : x1' = [x1 EXCEPT !.of[s] = e] /\ e.acked = FALSE
    BY <2>1, ZenonT(60) DEF Power!Heard, Power!Lost, Power!Unknown, Scanned
  <2>3. /\ x1' \in Wanted /\ x1'.generation = x1.generation /\ x1'.quiet = x1.quiet
        /\ x1'.of = [x1.of EXCEPT ![s] = e]
    BY <1>1, <2>2 DEF Wanted
  <2> QED BY <1>1, <2>2, <2>3 DEF Power!Converged
<1> QED BY <1>2, <1>3, <1>4

\* The lines and the scanners stay as they are, and nothing is proved.
LEMMA PowerQuiet ==
    ASSUME PowerInv, UNCHANGED <<x6, x8, x9>>,
           \/ x1' = x1 \/ \E c : x1' = Power!AllAs(c)
           \/ \E s \in Scanners : x1' = Power!Heard(s) \/ x1' = Power!Lost(s),
           x7' \subseteq Scanners, Power!SendsWanted',
           x4' \in [pc : {"rest", "scanner", "lock", "send"}, left : SUBSET Scanners,
                    to : Scanners \cup {"none"}, quiet : BOOLEAN, generation : Nat],
           x4'.pc \in {"lock", "send"} => x4'.to \in Scanners
    PROVE  PowerInv'
<1>1. Power!TypeOK /\ \A s \in Scanners : PowerLink(s)
  BY PowerNow
<1>2. /\ x1' \in Wanted /\ x1'.generation = x1.generation /\ x1'.quiet = x1.quiet
      /\ \A s \in Scanners : Power!Converged(s)' => Power!Converged(s)
  BY <1>1, PowerLowered
<1>3. Power!TypeOK'
  BY <1>1, <1>2 DEF Power!TypeOK, Wanted, Scanned
<1>4. \A s \in Scanners : PowerLink(s)'
  BY <1>1, <1>2 DEF PowerLink, LinkOk
<1> QED BY <1>3, <1>4, PowerThen

LEMMA PowerTask ==
    ASSUME PowerInv,
           \/ Power!Poll \/ Power!PollEnds \/ Power!Locked \/ Power!Relay \/ Power!RelayEnds
           \/ \E s \in Scanners : Power!Probe(s) \/ Power!Interval(s) \/ Power!Stale(s)
    PROVE  PowerInv'
<1>1. Power!TypeOK /\ Power!SendsWanted
  BY PowerNow
<1> USE DEF Power!TypeOK
<1>2. UNCHANGED <<x6, x8, x9>> /\ x7' \subseteq Scanners
  BY <1>1 DEF Power!Poll, Power!PollEnds, Power!Locked, Power!Relay, Power!RelayEnds,
              Power!Probe, Power!Interval, Power!Stale
<1>3. CASE Power!Poll
  <2>1. x1' = x1 \/ \E c : x1' = Power!AllAs(c)
    BY <1>3 DEF Power!Poll
  <2>2. x4' = x4 \/ x4' = [x4 EXCEPT !.pc = "scanner", !.left = Scanners]
    BY <1>3 DEF Power!Poll
  <2>3. x4.pc = "rest"
    BY <1>3 DEF Power!Poll
  <2>4. x4'.pc \in {"rest", "scanner"}
    BY <1>1, <2>2, <2>3
  <2> QED BY <1>1, <1>2, <2>1, <2>2, <2>4, PowerQuiet DEF Power!SendsWanted
<1>4. CASE Power!PollEnds
  BY <1>1, <1>2, <1>4, PowerQuiet DEF Power!PollEnds, Power!Rest, Power!SendsWanted
<1>5. CASE Power!Locked
  <2>1. /\ x1' = x1 /\ x4.pc = "lock"
        /\ x4' = [x4 EXCEPT !.pc = "send", !.quiet = x1.quiet, !.generation = x1.generation]
    BY <1>5 DEF Power!Locked
  <2>2. Power!SendsWanted'
    BY <1>1, <2>1 DEF Power!SendsWanted
  <2> QED BY <1>1, <1>2, <2>1, <2>2, PowerQuiet
<1>6. CASE Power!Relay \/ Power!RelayEnds \/ \E s \in Scanners : Power!Interval(s) \/ Power!Stale(s)
  <2>1. x1' = x1 /\ x4' = x4
    BY <1>6 DEF Power!Relay, Power!RelayEnds, Power!Interval, Power!Stale
  <2> QED BY <1>1, <1>2, <2>1, PowerQuiet DEF Power!SendsWanted
<1>7. CASE \E s \in Scanners : Power!Probe(s)
  <2>1. PICK s \in Scanners : Power!Probe(s)
    BY <1>7, SMTT(60)
  <2>2. x1' = x1 \/ x1' = Power!Heard(s) \/ x1' = Power!Lost(s)
    BY <2>1 DEF Power!Probe
  <2>3. /\ x4.pc = "scanner"
        /\ \/ x4' = [x4 EXCEPT !.pc = "lock", !.left = @ \ {s}, !.to = s]
           \/ x4' = [x4 EXCEPT !.left = @ \ {s}]
    BY <2>1 DEF Power!Probe
  <2> DEFINE Polls == [pc : {"rest", "scanner", "lock", "send"}, left : SUBSET Scanners,
                       to : Scanners \cup {"none"}, quiet : BOOLEAN, generation : Nat]
             rest == x4.left \ {s}
  <2>4. x4 \in Polls /\ x4.pc = "scanner" /\ rest \in SUBSET Scanners
    BY <1>1, <2>3
  <2>5. \/ x4' = [x4 EXCEPT !.pc = "lock", !.left = rest, !.to = s]
        \/ x4' = [x4 EXCEPT !.left = rest]
    BY <2>3
  <2> HIDE DEF rest
  <2>6. x4' \in Polls /\ x4'.pc \in {"lock", "scanner"} /\ (x4'.pc = "lock" => x4'.to = s)
    <3>1. CASE x4' = [x4 EXCEPT !.pc = "lock", !.left = rest, !.to = s]
      BY <2>4, <3>1
    <3>2. CASE x4' = [x4 EXCEPT !.left = rest]
      BY <2>4, <3>2
    <3> QED BY <2>5, <3>1, <3>2
  <2>7. Power!SendsWanted'
    BY <2>6 DEF Power!SendsWanted
  <2>8. \E t \in Scanners : x1' = Power!Heard(t) \/ x1' = Power!Lost(t) \/ x1' = x1
    BY <2>2
  <2> HIDE DEF Power!TypeOK
  <2> QED BY <1>2, <2>2, <2>6, <2>7, <2>8, PowerQuiet
<1> QED BY <1>3, <1>4, <1>5, <1>6, <1>7

LEMMA PowerRequest == PowerInv /\ Power!Request => PowerInv'
<1> SUFFICES ASSUME PowerInv, Power!Request PROVE PowerInv'
  OBVIOUS
<1>1. Power!TypeOK /\ \A s \in Scanners : PowerLink(s)
  BY PowerNow
<1>2. /\ x1 \in Wanted /\ x1.generation \in Nat /\ x8 \in [Scanners -> Seq(Power!Lines)]
      /\ x9 \in [Scanners -> Seq(Power!Answers)]
  BY <1>1, PowerTypes
<1> DEFINE n == [s \in Scanners |-> [connected |-> s \in {t \in Scanners : x1.of[t].connected},
                                     acked |-> FALSE]]
<1>3. n \in [Scanners -> Scanned] /\ \A s \in Scanners : n[s].acked = FALSE
  BY DEF Scanned
<1>4. x1' = [[x1 EXCEPT !.of = n] EXCEPT !.quiet = ~@, !.generation = @ + 1]
  BY DEF Power!Request, Power!AllAs
<1> HIDE DEF n
<1>5. /\ x1' \in Wanted /\ x1'.generation = x1.generation + 1 /\ x1'.of = n
      /\ x4.pc # "send" /\ UNCHANGED <<x4, x6, x7, x8, x9>>
  <2>1. x1' = [quiet |-> ~x1.quiet, generation |-> x1.generation + 1, of |-> n]
    BY <1>2, <1>4 DEF Wanted
  <2>2. x1.generation + 1 \in Nat /\ (~x1.quiet) \in BOOLEAN
    BY <1>2
  <2>3. x1' \in Wanted
    BY <1>3, <2>1, <2>2 DEF Wanted
  <2>4. x4.pc # "send" /\ UNCHANGED <<x4, x6, x7, x8, x9>>
    BY DEF Power!Request
  <2> QED BY <2>1, <2>3, <2>4
<1>6. Power!TypeOK'
  BY <1>1, <1>5 DEF Power!TypeOK, Wanted, Scanned
<1>7. ASSUME NEW s \in Scanners PROVE PowerLink(s)'
  <2>1. LinkOk(x8[s], x9[s], x6[s], x1.generation, x1.quiet, Power!Converged(s))
    BY <1>1 DEF PowerLink
  <2>2. x8[s] \in Seq(Power!Lines) /\ x9[s] \in Seq(Power!Answers)
    BY <1>2
  <2>3. LinkOk(x8[s], x9[s], x6[s], x1.generation + 1, x1'.quiet, FALSE)
    BY <1>2, <2>1, <2>2, LinkNewer
  <2>4. ~Power!Converged(s)'
    BY <1>3, <1>5 DEF Power!Converged
  <2> QED BY <1>5, <2>3, <2>4 DEF PowerLink, LinkOk
<1> QED BY <1>5, <1>6, <1>7, PowerThen DEF Power!SendsWanted

LEMMA PowerSend == PowerInv /\ Power!Send => PowerInv'
<1> SUFFICES ASSUME PowerInv, Power!Send PROVE PowerInv'
  OBVIOUS
<1>1. Power!TypeOK /\ Power!SendsWanted /\ \A s \in Scanners : PowerLink(s)
  BY PowerNow
<1>2. /\ x1 \in Wanted /\ x1.generation \in Nat /\ x1.quiet \in BOOLEAN
      /\ x8 \in [Scanners -> Seq(Power!Lines)] /\ x9 \in [Scanners -> Seq(Power!Answers)]
  BY <1>1, PowerTypes
<1> DEFINE r == x4.to
           l == [quiet |-> x4.quiet, generation |-> x4.generation]
<1>3. /\ x4.pc = "send" /\ r \in Scanners /\ UNCHANGED <<x1, x6, x7, x9>>
      /\ x4' = [x4 EXCEPT !.pc = "scanner", !.to = "none"]
      /\ x8' = x8 \/ x8' = [x8 EXCEPT ![r] = Append(@, l)]
  BY <1>1 DEF Power!Send, Power!Line, Power!TypeOK
<1>4. l \in Power!Lines /\ l.quiet = x1.quiet /\ l.generation = x1.generation
  BY <1>1, <1>2, <1>3 DEF Power!Lines, Power!SendsWanted
<1> HIDE DEF r, l
<1>5. x8' \in [Scanners -> Seq(Power!Lines)]
  <2>1. Append(x8[r], l) \in Seq(Power!Lines)
    BY <1>2, <1>3, <1>4
  <2> QED BY <1>2, <1>3, <2>1
<1>6. Power!TypeOK'
  BY <1>1, <1>3, <1>5 DEF Power!TypeOK
<1>7. ASSUME NEW s \in Scanners PROVE PowerLink(s)'
  <2>1. LinkOk(x8[s], x9[s], x6[s], x1.generation, x1.quiet, Power!Converged(s))
    BY <1>1 DEF PowerLink
  <2>2. x8[s] \in Seq(Power!Lines) /\ x9[s] \in Seq(Power!Answers)
    BY <1>2
  <2>3. LinkOk(Append(x8[s], l), x9[s], x6[s], x1.generation, x1.quiet, Power!Converged(s))
    BY <1>2, <1>4, <2>1, <2>2, LinkSent
  <2>4. x8'[s] = x8[s] \/ x8'[s] = Append(x8[s], l)
    BY <1>2, <1>3
  <2>5. Power!Converged(s)' <=> Power!Converged(s)
    BY <1>3 DEF Power!Converged
  <2> QED BY <1>3, <2>1, <2>3, <2>4, <2>5 DEF PowerLink, LinkOk
<1>8. Power!SendsWanted'
  BY <1>1, <1>3 DEF Power!SendsWanted, Power!TypeOK
<1> QED BY <1>6, <1>7, <1>8, PowerThen

LEMMA PowerHears ==
    ASSUME PowerInv, NEW r \in Scanners, Power!Hear(r) \/ Power!Acked(r)
    PROVE  PowerInv'
<1>1. Power!TypeOK /\ Power!SendsWanted /\ \A s \in Scanners : PowerLink(s)
  BY PowerNow
<1>2. /\ x1 \in Wanted /\ x1.generation \in Nat /\ x1.quiet \in BOOLEAN
      /\ x1.of \in [Scanners -> Scanned]
      /\ x8 \in [Scanners -> Seq(Power!Lines)] /\ x9 \in [Scanners -> Seq(Power!Answers)]
  BY <1>1, PowerTypes
<1>3. /\ x9[r] # << >> /\ x9' = [x9 EXCEPT ![r] = Tail(@)] /\ x7' = x7 \cup {r}
      /\ UNCHANGED <<x4, x6, x8>>
  BY DEF Power!Hear, Power!Acked
<1>4. Head(x9[r]) = x9[r][1] /\ Tail(x9[r]) \in Seq(Power!Answers) /\ Head(x9[r]) \in Power!Answers
  <2>1. x9[r] \in Seq(Power!Answers)
    BY <1>2
  <2> QED BY <1>3, <2>1, TailOf
<1>5. \E e \in Scanned : /\ x1' = [x1 EXCEPT !.of[r] = e]
                         /\ e.acked => Proof(x9[r][1], x1.generation, x1.quiet)
  <2>1. CASE Power!Hear(r)
    <3> DEFINE e == [connected |-> TRUE, acked |-> FALSE]
    <3>1. x1' = [x1 EXCEPT !.of[r] = e]
      BY <2>1 DEF Power!Hear, Power!Heard
    <3>2. e \in Scanned /\ e.acked = FALSE
      BY DEF Scanned
    <3> HIDE DEF e
    <3> QED BY <3>1, <3>2
  <2>2. CASE Power!Acked(r)
    <3> DEFINE h == Head(x9[r])
               b == Power!Proves(h)
               e == [connected |-> TRUE, acked |-> b]
    <3>1. /\ x1' = [x1 EXCEPT !.of[r] = e] /\ h.is = "ack"
      BY <2>2 DEF Power!Acked
    <3>2. b \in BOOLEAN /\ (b => h.ok /\ h.quiet = x1.quiet /\ h.generation = x1.generation)
      BY <1>4 DEF Power!Proves, Power!Answers
    <3>3. h = x9[r][1]
      BY <1>4
    <3> HIDE DEF h, b
    <3>4. e \in Scanned /\ e.acked = b
      BY <3>2 DEF Scanned
    <3> HIDE DEF e
    <3> QED BY <3>1, <3>2, <3>3, <3>4 DEF Proof
  <2> QED BY <2>1, <2>2
<1>6. PICK e \in Scanned : /\ x1' = [x1 EXCEPT !.of[r] = e]
                           /\ e.acked => Proof(x9[r][1], x1.generation, x1.quiet)
  BY <1>5
<1>7. /\ x1' \in Wanted /\ x1'.generation = x1.generation /\ x1'.quiet = x1.quiet
      /\ x1'.of = [x1.of EXCEPT ![r] = e]
  BY <1>2, <1>6 DEF Wanted
<1>8. x9' \in [Scanners -> Seq(Power!Answers)]
  BY <1>2, <1>3, <1>4
<1>9. Power!TypeOK'
  BY <1>1, <1>3, <1>7, <1>8 DEF Power!TypeOK, Wanted, Scanned
<1>10. ASSUME NEW s \in Scanners PROVE PowerLink(s)'
  <2>1. LinkOk(x8[s], x9[s], x6[s], x1.generation, x1.quiet, Power!Converged(s))
    BY <1>1 DEF PowerLink
  <2>2. x8[s] \in Seq(Power!Lines) /\ x9[s] \in Seq(Power!Answers)
    BY <1>2
  <2>3. CASE s = r
    <3>1. Power!Converged(s)' => Proof(x9[s][1], x1.generation, x1.quiet)
      BY <1>2, <1>6, <1>7, <2>3 DEF Power!Converged
    <3>2. LinkOk(x8[s], Tail(x9[s]), x6[s], x1.generation, x1.quiet, Power!Converged(s)')
      BY <1>2, <1>3, <2>1, <2>2, <2>3, <3>1, LinkRead
    <3>3. x9'[s] = Tail(x9[s])
      BY <1>2, <1>3, <2>3
    <3> QED BY <1>3, <1>7, <3>2, <3>3 DEF PowerLink
  <2>4. CASE s # r
    <3>1. x9'[s] = x9[s] /\ (Power!Converged(s)' <=> Power!Converged(s))
      BY <1>2, <1>3, <1>7, <2>4 DEF Power!Converged
    <3> QED BY <1>3, <1>7, <2>1, <3>1 DEF PowerLink, LinkOk
  <2> QED BY <2>3, <2>4
<1>11. Power!SendsWanted'
  BY <1>1, <1>3, <1>7 DEF Power!SendsWanted
<1> QED BY <1>9, <1>10, <1>11, PowerThen

LEMMA PowerScanner ==
    ASSUME PowerInv, NEW r \in Scanners,
           \/ Power!Carry(r) \/ Power!NotYet(r) \/ Power!Restart(r) \/ Power!Identify(r)
           \/ Power!LoseLine(r)
    PROVE  PowerInv'
<1>1. Power!TypeOK /\ Power!SendsWanted /\ \A s \in Scanners : PowerLink(s)
  BY PowerNow
<1>2. /\ x1 \in Wanted /\ x1.generation \in Nat /\ x1.quiet \in BOOLEAN
      /\ x6 \in [Scanners -> Modal]
      /\ x8 \in [Scanners -> Seq(Power!Lines)] /\ x9 \in [Scanners -> Seq(Power!Answers)]
  BY <1>1, PowerTypes
<1>3. UNCHANGED <<x1, x4, x7>>
  BY DEF Power!Carry, Power!NotYet, Power!Restart, Power!Identify, Power!LoseLine
<1> DEFINE q == x8[r]
           u == x9[r]
           m == x6[r]
<1>4. /\ q \in Seq(Power!Lines) /\ u \in Seq(Power!Answers)
      /\ LinkOk(q, u, m, x1.generation, x1.quiet, Power!Converged(r))
  BY <1>1, <1>2 DEF PowerLink
<1> HIDE DEF q, u, m
<1>5. \E p \in Seq(Power!Lines), v \in Seq(Power!Answers), n \in Modal :
         /\ x8' = [x8 EXCEPT ![r] = p] /\ x9' = [x9 EXCEPT ![r] = v] /\ x6' = [x6 EXCEPT ![r] = n]
         /\ LinkOk(p, v, n, x1.generation, x1.quiet, Power!Converged(r))
  <2>1. CASE Power!LoseLine(r)
    <3>1. q # << >> /\ x8' = [x8 EXCEPT ![r] = Tail(q)] /\ UNCHANGED <<x6, x9>>
      BY <2>1 DEF Power!LoseLine, q
    <3>2. LinkOk(Tail(q), u, m, x1.generation, x1.quiet, Power!Converged(r))
      BY <1>2, <1>4, <3>1, LinkLost
    <3>3. Tail(q) \in Seq(Power!Lines)
      BY <1>4, <3>1
    <3>4. x9' = [x9 EXCEPT ![r] = u] /\ x6' = [x6 EXCEPT ![r] = m]
          /\ m \in Modal
      BY <1>2, <3>1 DEF u, m
    <3> QED BY <1>4, <3>1, <3>2, <3>3, <3>4
  <2>2. CASE Power!Restart(r) \/ Power!Identify(r)
    <3> DEFINE a == Power!Identity
    <3>1. PICK p \in {q, << >>}, n \in Modal :
             /\ x8' = [x8 EXCEPT ![r] = p] /\ x6' = [x6 EXCEPT ![r] = n]
             /\ \/ x9' = [x9 EXCEPT ![r] = Append(u, a)]
                \/ p = << >> /\ n.unsaid /\ x9' = [x9 EXCEPT ![r] = u]
      <4>1. CASE Power!Restart(r)
        <5>1. PICK unsaid \in BOOLEAN :
                 /\ x6' = [x6 EXCEPT ![r] = Power!Started(unsaid)]
                 /\ x9' = [x9 EXCEPT ![r] = IF unsaid THEN u ELSE Append(u, a)]
          BY <4>1 DEF Power!Restart, u
        <5>2. Power!Started(unsaid) \in Modal /\ Power!Started(unsaid).unsaid = unsaid
          BY DEF Power!Started, Modal
        <5>3. x8' = [x8 EXCEPT ![r] = << >>]
          BY <4>1 DEF Power!Restart
        <5>4. x9' = [x9 EXCEPT ![r] = u] \/ x9' = [x9 EXCEPT ![r] = Append(u, a)]
          BY <5>1
        <5> QED BY <5>1, <5>2, <5>3, <5>4
      <4>2. CASE Power!Identify(r)
        <5> DEFINE n == [m EXCEPT !.unsaid = FALSE]
        <5>1. n \in Modal
          BY <1>2 DEF m, Modal
        <5>2. /\ x6' = [x6 EXCEPT ![r] = n] /\ x9' = [x9 EXCEPT ![r] = Append(u, a)]
              /\ x8' = [x8 EXCEPT ![r] = q]
          BY <1>2, <4>2 DEF Power!Identify, m, u, q
        <5> HIDE DEF n
        <5> QED BY <5>1, <5>2
      <4> QED BY <2>2, <4>1, <4>2
    <3>2. a \in Power!Answers /\ a.is = "identity" /\ a.generation = 0
      BY DEF Power!Identity, Power!Answers
    <3> HIDE DEF a
    <3>3. LinkOk(p, Append(u, a), n, x1.generation, x1.quiet, Power!Converged(r))
      BY <1>2, <1>4, <3>2, LinkIdentified
    <3>4. p = << >> /\ n.unsaid => LinkOk(p, u, n, x1.generation, x1.quiet, Power!Converged(r))
      BY <1>4, LinkUnsaid
    <3>5. p \in Seq(Power!Lines)
      <4>1. << >> \in Seq(Power!Lines)
        OBVIOUS
      <4> QED BY <1>4, <3>1, <4>1
    <3>6. Append(u, a) \in Seq(Power!Answers)
      BY <1>4, <3>2
    <3> QED BY <1>4, <3>1, <3>3, <3>4, <3>5, <3>6
  <2>3. CASE Power!Carry(r) \/ Power!NotYet(r)
    <3> DEFINE After(ok) ==
                 IF ok THEN [mode |-> Power!Mode(Head(q).quiet), unsaid |-> FALSE]
                 ELSE [m EXCEPT !.mode = IF @ = Power!Mode(Head(q).quiet) THEN @ ELSE "between"]
    <3>1. PICK ok \in BOOLEAN :
             /\ q # << >> /\ x8' = [x8 EXCEPT ![r] = Tail(q)]
             /\ Power!Says(r, Power!Answer(Head(q), ok))
             /\ x6' = [x6 EXCEPT ![r] = After(ok)]
      <4>1. CASE Power!Carry(r)
        BY <4>1 DEF Power!Carry, q, m
      <4>2. CASE Power!NotYet(r)
        BY <1>2, <4>2 DEF Power!NotYet, q, m
      <4> QED BY <2>3, <4>1, <4>2
    <3> DEFINE a == Power!Answer(Head(q), ok)
               n == After(ok)
    <3>2. Head(q) = q[1] /\ Head(q) \in Power!Lines /\ Tail(q) \in Seq(Power!Lines)
      BY <1>4, <3>1, TailOf
    <3>3. /\ a \in Power!Answers /\ a.quiet = q[1].quiet /\ a.generation = q[1].generation
          /\ a.ok = ok
      BY <3>2 DEF Power!Answers, Power!Answer, Power!Lines
    <3>4. /\ n \in Modal
          /\ (m.mode = Power!Mode(q[1].quiet) => n.mode = m.mode)
          /\ (m.unsaid => n.unsaid \/ n.mode = Power!Mode(q[1].quiet))
          /\ (a.ok => n.mode = Power!Mode(q[1].quiet))
      <4>1. m \in Modal /\ Power!Mode(q[1].quiet) \in {"active", "quiet", "between"}
        BY <1>2 DEF m, Power!Mode
      <4>2. CASE ok
        BY <3>2, <3>3, <4>1, <4>2 DEF Modal
      <4>3. CASE ~ok
        BY <3>2, <3>3, <4>1, <4>3 DEF Modal
      <4> QED BY <4>2, <4>3
    <3>5. PICK v \in {u, Append(u, a)} : x9' = [x9 EXCEPT ![r] = v]
      BY <1>2, <3>1 DEF Power!Says, u
    <3>6. x6' = [x6 EXCEPT ![r] = n]
      BY <3>1
    <3> HIDE DEF a, n
    <3>7. LinkOk(Tail(q), v, n, x1.generation, x1.quiet, Power!Converged(r))
      BY <1>2, <1>4, <3>1, <3>3, <3>4, <3>5, LinkCarried
    <3>8. v \in Seq(Power!Answers)
      BY <1>4, <3>3, <3>5
    <3> DEFINE p == Tail(q)
    <3>9. /\ x8' = [x8 EXCEPT ![r] = p] /\ x9' = [x9 EXCEPT ![r] = v] /\ x6' = [x6 EXCEPT ![r] = n]
          /\ LinkOk(p, v, n, x1.generation, x1.quiet, Power!Converged(r))
          /\ p \in Seq(Power!Lines)
      BY <3>1, <3>2, <3>5, <3>6, <3>7
    <3> HIDE DEF p
    <3> QED BY <3>4, <3>8, <3>9
  <2> QED BY <2>1, <2>2, <2>3
<1>6. PICK p \in Seq(Power!Lines), v \in Seq(Power!Answers), n \in Modal :
         /\ x8' = [x8 EXCEPT ![r] = p] /\ x9' = [x9 EXCEPT ![r] = v] /\ x6' = [x6 EXCEPT ![r] = n]
         /\ LinkOk(p, v, n, x1.generation, x1.quiet, Power!Converged(r))
  BY <1>5
<1>7. /\ x8' \in [Scanners -> Seq(Power!Lines)] /\ x9' \in [Scanners -> Seq(Power!Answers)]
      /\ x6' \in [Scanners -> Modal]
  BY <1>2, <1>6
<1>8. Power!TypeOK'
  BY <1>1, <1>3, <1>7 DEF Power!TypeOK, Modal
<1>9. ASSUME NEW s \in Scanners PROVE PowerLink(s)'
  <2>1. LinkOk(x8[s], x9[s], x6[s], x1.generation, x1.quiet, Power!Converged(s))
    BY <1>1 DEF PowerLink
  <2>2. Power!Converged(s)' <=> Power!Converged(s)
    BY <1>3 DEF Power!Converged
  <2>3. CASE s = r
    <3>1. x8'[s] = p /\ x9'[s] = v /\ x6'[s] = n
      BY <1>2, <1>6, <2>3
    <3> QED BY <1>3, <1>6, <2>2, <2>3, <3>1 DEF PowerLink, LinkOk
  <2>4. CASE s # r
    <3>1. x8'[s] = x8[s] /\ x9'[s] = x9[s] /\ x6'[s] = x6[s]
      BY <1>2, <1>6, <2>4
    <3> QED BY <1>3, <2>1, <2>2, <3>1 DEF PowerLink, LinkOk
  <2> QED BY <2>3, <2>4
<1>10. Power!SendsWanted'
  BY <1>1, <1>3 DEF Power!SendsWanted
<1> QED BY <1>8, <1>9, <1>10, PowerThen

LEMMA PowerNext == PowerInv /\ [Power!Next]_(Power!vars) => PowerInv'
<1> SUFFICES ASSUME PowerInv, [Power!Next]_(Power!vars) PROVE PowerInv'
  OBVIOUS
<1>1. CASE UNCHANGED Power!vars
  <2>1. Power!TypeOK /\ Power!SendsWanted
    BY PowerNow
  <2>2. UNCHANGED <<x1, x4, x6, x7, x8, x9>>
    BY <1>1 DEF Power!vars
  <2> QED BY <2>1, <2>2, PowerQuiet DEF Power!TypeOK, Power!SendsWanted
<1>2. CASE Power!Task \/ Power!Relay \/ Power!RelayEnds
  BY <1>2, PowerTask, PowerSend DEF Power!Task
<1>3. CASE \E s \in Scanners : \/ Power!Interval(s) \/ Power!Hear(s) \/ Power!Acked(s)
                               \/ Power!Stale(s) \/ Power!Carry(s) \/ Power!NotYet(s)
                               \/ Power!Restart(s) \/ Power!Identify(s) \/ Power!LoseLine(s)
  BY <1>3, PowerTask, PowerHears, PowerScanner
<1> QED BY <1>1, <1>2, <1>3, PowerRequest DEF Power!Next

LEMMA PowerCurrent == PowerInv => Power!ProofIsCurrent
BY DEF PowerInv, Power!ProofInv, Power!ProofIsCurrent, Power!InMode

-----------------------------------------------------------------------------
(* The game radio (VhciPolicy): x1 pol, x2 slot, x3 overflow, x4 cmds,      *)
(* x5 radioOn.  What VhciPolicy_proofs proves of the machine it proves of   *)
(* this instance of it.                                                     *)
RP == INSTANCE VhciPolicy_proofs WITH
    LateReplies <- FALSE, pol <- x1, slot <- x2, overflow <- x3, cmds <- x4, radioOn <- x5

LEMMA RadioSame ==
    /\ RP!Init <=> Radio!Init
    /\ RP!Next <=> Radio!Next
    /\ RP!radioVars = Radio!radioVars
    /\ RP!QuietMeansSilent <=> Radio!QuietMeansSilent
    /\ RP!NoNewStart <=> Radio!NoNewStart
<1>1. /\ RP!SendingStates = Radio!SendingStates /\ RP!NoEvent = Radio!NoEvent
      /\ RP!InitPolicy = Radio!InitPolicy
      /\ \A s : RP!Opcode(s) = Radio!Opcode(s)
      /\ \A v : RP!Fail(v) = Radio!Fail(v)
      /\ \A v, s, r : RP!Enter(v, s, r) = Radio!Enter(v, s, r)
      /\ \A v : RP!Desired(v) = Radio!Desired(v)
      /\ \A v : RP!MayExpire(v) = Radio!MayExpire(v)
      /\ \A v, s : RP!Attempted(v, s) = Radio!Attempted(v, s)
      /\ \A c : RP!Switched(c) = Radio!Switched(c)
      /\ \A e : RP!Receive(e) = Radio!Receive(e)
      /\ \A v : RP!Quiesced(v) = Radio!Quiesced(v)
  BY SMTT(60) DEF RP!SendingStates, Radio!SendingStates, RP!NoEvent, Radio!NoEvent, RP!InitPolicy,
         Radio!InitPolicy, RP!Opcode, Radio!Opcode, RP!Fail, Radio!Fail, RP!Enter, Radio!Enter,
         RP!Desired, Radio!Desired, RP!MayExpire, Radio!MayExpire, RP!Attempted, Radio!Attempted,
         RP!Switched, Radio!Switched, RP!Receive, Radio!Receive, RP!Quiesced, Radio!Quiesced
<1>2. /\ \A v : RP!ControllerUp(v) = Radio!ControllerUp(v)
      /\ \A v : RP!CommandFailed(v) = Radio!CommandFailed(v)
      /\ \A v : RP!CommandSucceeded(v) = Radio!CommandSucceeded(v)
      /\ \A v, d : RP!Steer(v, d) = Radio!Steer(v, d)
  BY <1>1, ZenonT(60) DEF RP!ControllerUp, Radio!ControllerUp, RP!CommandFailed, Radio!CommandFailed,
         RP!CommandSucceeded, Radio!CommandSucceeded, RP!Steer, Radio!Steer
<1>3. /\ \A v, e : RP!OnEvent(v, e) = Radio!OnEvent(v, e)
      /\ \A v, e, d : RP!PollResult(v, e, d) = Radio!PollResult(v, e, d)
  BY <1>1, <1>2 DEF RP!OnEvent, Radio!OnEvent, RP!PollResult, Radio!PollResult
<1>4. \A v : RP!Delivered(v) = Radio!Delivered(v)
  BY <1>1, <1>3 DEF RP!Delivered, Radio!Delivered
<1>5. \A f, e, d, r : RP!Poll(f, e, d, r) <=> Radio!Poll(f, e, d, r)
  BY <1>1, <1>3, <1>4 DEF RP!Poll, Radio!Poll
<1>6. /\ RP!PollRadio <=> Radio!PollRadio
      /\ RP!Controller <=> Radio!Controller
      /\ RP!InitializeController <=> Radio!InitializeController
      /\ RP!SetInputs <=> Radio!SetInputs
      /\ RP!Init <=> Radio!Init
  BY <1>1, <1>2, <1>5 DEF RP!PollRadio, Radio!PollRadio, RP!Controller, Radio!Controller,
         RP!ControllerAnswers, Radio!ControllerAnswers, RP!ControllerStaysSilent,
         Radio!ControllerStaysSilent, RP!ControllerSpeaksUnasked, Radio!ControllerSpeaksUnasked,
         RP!InitializeController, Radio!InitializeController, RP!SetInputs, Radio!SetInputs,
         RP!Init, Radio!Init, RP!InitRadio, Radio!InitRadio
<1>7. RP!Next <=> Radio!Next
  BY <1>6 DEF RP!Next, Radio!Next
<1>8. /\ RP!radioVars = Radio!radioVars
      /\ RP!QuietMeansSilent <=> Radio!QuietMeansSilent
      /\ RP!NoNewStart <=> Radio!NoNewStart
  BY <1>1 DEF RP!radioVars, Radio!radioVars, RP!QuietMeansSilent, Radio!QuietMeansSilent,
         RP!NoNewStart, Radio!NoNewStart
<1> QED BY <1>6, <1>7, <1>8

LEMMA RadioAssumed == RP!VhciAssumption
BY PartsAssumption DEF PartsAssumption, RP!VhciAssumption

LEMMA RadioInitial == Radio!Init => RP!RadioInv
BY RadioSame, RadioAssumed, RP!InitialRadio DEF RP!Init

LEMMA RadioNext ==
    RP!RadioInv /\ [Radio!Next]_(Radio!radioVars) => RP!RadioInv' /\ Radio!NoNewStart
<1> SUFFICES ASSUME RP!RadioInv, [Radio!Next]_(Radio!radioVars)
             PROVE  RP!RadioInv' /\ Radio!NoNewStart
  OBVIOUS
<1>1. [RP!Next]_(RP!radioVars)
  <2>1. CASE Radio!Next
    BY <2>1, RadioSame
  <2>2. CASE UNCHANGED Radio!radioVars
    BY <2>2 DEF RP!radioVars, Radio!radioVars
  <2> QED BY <2>1, <2>2
<1>2. RP!RadioInv' /\ RP!NoNewStart
  BY <1>1, RadioAssumed, RP!NextRadio
<1> QED BY <1>2, RadioSame

LEMMA RadioSilent == RP!RadioInv => Radio!QuietMeansSilent
<1>1. RP!RadioInv => RP!QuietMeansSilent
  BY DEF RP!RadioInv, RP!Coherent, RP!Quiesced, RP!QuietMeansSilent, RP!Asks
<1> QED BY <1>1, RadioSame

-----------------------------------------------------------------------------
(* The radios (ScannerRadios): x1 slot, x2 mode, x3 lock, x4 todo, x5 ble,  *)
(* x6 host, x7 wifi, x8 scan, x9 probe, x10 link, x11 left.  First the      *)
(* sequences of steps, as constants; then what is pending, StackTodo; then  *)
(* the radios themselves, StackFacts.                                       *)
StackInv == Stacks!TypeOK /\ Stacks!SilentInv

Starts4 == Stacks!Critical \cup {"start_check"}
Quietly == Stacks!Harmless \ {"restore"}
Ordinary == Quietly \ {"start_check"}
AnyStep == Stacks!Harmless \cup Stacks!Critical \cup Stacks!PowerSteps
Unpowered == Stacks!Harmless \cup Stacks!Critical
Fine(p) == p \in Seq(Quietly) /\ Stacks!Clean(p)
MarkedBy(q, on) == Stacks!Clean(q) \/ (on /\ (Stacks!Starting(q) \/ Stacks!Restarting(q)))

LEMMA StepSets ==
    /\ Ordinary \subseteq Quietly /\ Quietly \subseteq Stacks!Harmless
    /\ Quietly \subseteq Unpowered \ {"restore"}
    /\ Unpowered \ {"restore"} \subseteq Unpowered
    /\ Unpowered \subseteq AnyStep /\ Stacks!Harmless \subseteq AnyStep
    /\ Quietly \subseteq Stacks!Harmless \cup Stacks!PowerSteps
    /\ Stacks!Harmless \cup Stacks!PowerSteps \subseteq AnyStep
    /\ Stacks!Critical \cap (Stacks!Harmless \cup Stacks!PowerSteps) = {}
BY DEF Ordinary, Quietly, Unpowered, AnyStep, Stacks!Harmless, Stacks!Critical, Stacks!PowerSteps

LEMMA CleanTail ==
    ASSUME NEW S, NEW q \in Seq(S), q # << >>, Stacks!Clean(q)
    PROVE  /\ Head(q) \notin Stacks!Critical /\ Head(q) # "start_check"
           /\ Stacks!Clean(Tail(q)) \/ (Head(q) = "start_enter" /\ Stacks!Starting(Tail(q)))
<1>1. /\ Len(q) \in Nat \ {0} /\ DOMAIN q = 1..Len(q)
      /\ Head(q) = q[1] /\ 1 \in DOMAIN q
      /\ Tail(q) \in Seq(S) /\ DOMAIN Tail(q) = 1..Len(q) - 1
      /\ \A i \in 1..Len(q) - 1 : i + 1 \in DOMAIN q /\ Tail(q)[i] = q[i + 1]
  BY TailOf
<1> DEFINE t == Tail(q)
<1> HIDE DEF t
<1>2. /\ t \in Seq(S) /\ DOMAIN t = 1..Len(q) - 1 /\ Len(q) - 1 \in Nat
      /\ \A i \in 1..Len(q) - 1 : i + 1 \in DOMAIN q /\ t[i] = q[i + 1]
  BY <1>1 DEF t
<1>3. \A i \in DOMAIN q : /\ q[i] \notin Stacks!Critical
                          /\ q[i] = "start_check" => i > 1 /\ q[i - 1] = "start_enter"
  BY DEF Stacks!Clean
<1>4. Head(q) \notin Stacks!Critical /\ Head(q) # "start_check"
  BY <1>1, <1>3
<1>5. ASSUME NEW i \in DOMAIN t, i > 1, t[i] = "start_check"
      PROVE  t[i - 1] = "start_enter"
  <2>1. i + 1 \in DOMAIN q /\ q[i + 1] = "start_check" /\ i \in 1..Len(q) - 1
    BY <1>2, <1>5
  <2>2. q[(i + 1) - 1] = "start_enter"
    BY <1>3, <2>1
  <2>3. (i + 1) - 1 = i /\ i - 1 \in 1..Len(q) - 1 /\ (i - 1) + 1 = i
    BY <1>1, <1>5, <2>1
  <2> QED BY <1>2, <2>2, <2>3
<1>6. \A i \in DOMAIN t : t[i] \notin Stacks!Critical
  BY <1>2, <1>3
<1>7. CASE ~(1 \in DOMAIN t /\ t[1] = "start_check")
  <2>1. \A i \in DOMAIN t : i > 1 \/ i = 1
    BY <1>2
  <2>2. Stacks!Clean(t)
    BY <1>5, <1>6, <1>7, <2>1 DEF Stacks!Clean
  <2> QED BY <1>4, <2>2 DEF t
<1>8. CASE 1 \in DOMAIN t /\ t[1] = "start_check"
  <2>1. q[2] = "start_check" /\ 2 \in DOMAIN q
    BY <1>2, <1>8
  <2>2. Head(q) = "start_enter"
    <3>1. q[2 - 1] = "start_enter"
      BY <1>3, <2>1
    <3> QED BY <1>1, <3>1
  <2>3. t # << >>
    BY <1>2, <1>8
  <2> DEFINE v == Tail(t)
  <2>4. /\ Head(t) = t[1] /\ Len(t) = Len(q) - 1
        /\ DOMAIN v = 1..Len(t) - 1
        /\ \A i \in 1..Len(t) - 1 : i + 1 \in DOMAIN t /\ v[i] = t[i + 1]
    BY <1>2, <2>3, TailOf
  <2> HIDE DEF v
  <2>5. ASSUME NEW i \in DOMAIN v
        PROVE  v[i] \notin Stacks!Critical /\ (v[i] = "start_check" => i > 1 /\ v[i - 1] = "start_enter")
    <3>1. i + 1 \in DOMAIN t /\ v[i] = t[i + 1] /\ i \in 1..Len(t) - 1
      BY <2>4
    <3>2. v[i] \notin Stacks!Critical
      BY <1>6, <3>1
    <3>3. ASSUME v[i] = "start_check" PROVE i > 1 /\ v[i - 1] = "start_enter"
      <4>1. i + 1 > 1 /\ (i + 1) - 1 = i
        BY <1>2, <2>4, <3>1
      <4>2. t[i] = "start_enter"
        BY <1>5, <3>1, <3>3, <4>1
      <4>3. i # 1
        BY <1>8, <4>2
      <4>4. i > 1 /\ i - 1 \in 1..Len(t) - 1 /\ (i - 1) + 1 = i
        BY <1>2, <2>4, <3>1, <4>3
      <4> QED BY <2>4, <4>2, <4>4
    <3> QED BY <3>2, <3>3
  <2>6. Stacks!Starting(t)
    BY <1>8, <2>3, <2>4, <2>5 DEF Stacks!Starting, Stacks!Clean, v
  <2> QED BY <1>4, <2>2, <2>6 DEF t
<1> QED BY <1>7, <1>8

LEMMA ConcatOf ==
    ASSUME NEW S, NEW p \in Seq(S), NEW q \in Seq(S)
    PROVE  /\ p \o q \in Seq(S) /\ Len(p) \in Nat /\ Len(q) \in Nat
           /\ DOMAIN p = 1..Len(p) /\ DOMAIN q = 1..Len(q)
           /\ DOMAIN (p \o q) = 1..Len(p) + Len(q)
           /\ \A i \in 1..Len(p) + Len(q) :
                 (p \o q)[i] = IF i <= Len(p) THEN p[i] ELSE q[i - Len(p)]
OBVIOUS

LEMMA CleanConcat ==
    ASSUME NEW S, NEW p \in Seq(S), NEW q \in Seq(S), Stacks!Clean(p), Stacks!Clean(q)
    PROVE  p \o q \in Seq(S) /\ Stacks!Clean(p \o q)
<1> DEFINE n == Len(p)
           c == p \o q
<1>1. /\ c \in Seq(S) /\ n \in Nat /\ Len(q) \in Nat
      /\ DOMAIN p = 1..n /\ DOMAIN q = 1..Len(q) /\ DOMAIN c = 1..n + Len(q)
      /\ \A i \in 1..n + Len(q) : c[i] = IF i <= n THEN p[i] ELSE q[i - n]
  BY ConcatOf
<1> HIDE DEF n, c
<1>2. ASSUME NEW i \in DOMAIN c
      PROVE  c[i] \notin Stacks!Critical /\ (c[i] = "start_check" => i > 1 /\ c[i - 1] = "start_enter")
  <2>1. CASE i <= n
    <3>1. i \in 1..n /\ c[i] = p[i]
      BY <1>1, <1>2, <2>1
    <3>2. p[i] \notin Stacks!Critical /\ (p[i] = "start_check" => i > 1 /\ p[i - 1] = "start_enter")
      BY <1>1, <3>1 DEF Stacks!Clean
    <3>3. i > 1 => i - 1 \in 1..n + Len(q) /\ i - 1 <= n
      BY <1>1, <3>1
    <3>4. i > 1 => c[i - 1] = p[i - 1]
      BY <1>1, <3>3
    <3> QED BY <3>1, <3>2, <3>4
  <2>2. CASE i > n
    <3> DEFINE j == i - n
    <3>1. j \in 1..Len(q) /\ c[i] = q[j] /\ i \in 1..n + Len(q)
      BY <1>1, <1>2, <2>2
    <3>2. q[j] \notin Stacks!Critical /\ (q[j] = "start_check" => j > 1 /\ q[j - 1] = "start_enter")
      BY <1>1, <3>1 DEF Stacks!Clean
    <3>3. j > 1 => i > 1 /\ i - 1 \in 1..n + Len(q) /\ ~(i - 1 <= n) /\ (i - 1) - n = j - 1
      BY <1>1, <3>1
    <3>4. j > 1 => c[i - 1] = q[j - 1]
      BY <1>1, <3>3
    <3> HIDE DEF j
    <3> QED BY <3>1, <3>2, <3>3, <3>4
  <2> QED BY <1>1, <1>2, <2>1, <2>2
<1>3. Stacks!Clean(c)
  BY <1>2 DEF Stacks!Clean
<1> QED BY <1>1, <1>3 DEF c

LEMMA FineConcat ==
    ASSUME NEW p, NEW q, Fine(p), Fine(q)
    PROVE  Fine(p \o q)
BY CleanConcat DEF Fine

LEMMA FineNone == Fine(<< >>)
BY DEF Fine, Stacks!Clean

LEMMA FineOne ==
    ASSUME NEW a \in Ordinary
    PROVE  Fine(<<a>>)
<1>1. a \in Quietly /\ a # "start_check" /\ a \notin Stacks!Critical
  BY StepSets DEF Ordinary
<1> DEFINE q == <<a>>
<1>2. q \in Seq(Quietly) /\ DOMAIN q = 1..1 /\ q[1] = a
  BY <1>1
<1> HIDE DEF q
<1>3. Fine(q)
  BY <1>1, <1>2 DEF Fine, Stacks!Clean
<1> QED BY <1>3 DEF q

LEMMA FineTwo ==
    ASSUME NEW a \in Ordinary, NEW b \in Ordinary
    PROVE  Fine(<<a, b>>)
<1>1. /\ a \in Quietly /\ a # "start_check" /\ a \notin Stacks!Critical
      /\ b \in Quietly /\ b # "start_check" /\ b \notin Stacks!Critical
  BY StepSets DEF Ordinary
<1> DEFINE q == <<a, b>>
<1>2. q \in Seq(Quietly) /\ DOMAIN q = 1..2 /\ q[1] = a /\ q[2] = b
  BY <1>1
<1> HIDE DEF q
<1>3. \A i \in 1..2 : i = 1 \/ i = 2
  OBVIOUS
<1>4. Fine(q)
  BY <1>1, <1>2, <1>3 DEF Fine, Stacks!Clean
<1> QED BY <1>4 DEF q

LEMMA FineStart == Fine(Stacks!BleStart)
<1> DEFINE q == <<"start_enter", "start_check", "start_leave">>
<1>1. {"start_enter", "start_check", "start_leave"} \subseteq Quietly
  BY DEF Quietly, Stacks!Harmless
<1>2. /\ q \in Seq(Quietly) /\ DOMAIN q = 1..3
      /\ q[1] = "start_enter" /\ q[2] = "start_check" /\ q[3] = "start_leave"
  BY <1>1
<1> HIDE DEF q
<1>3. \A i \in 1..3 : i = 1 \/ i = 2 \/ i = 3
  OBVIOUS
<1>4. Stacks!Clean(q)
  BY <1>2, <1>3 DEF Stacks!Clean, Stacks!Critical
<1> QED BY <1>2, <1>4 DEF Fine, q, Stacks!BleStart

LEMMA FineThree ==
    ASSUME NEW a \in Ordinary, NEW b \in Ordinary, NEW c \in Ordinary
    PROVE  Fine(<<a, b, c>>)
<1>1. /\ a \in Quietly /\ a # "start_check" /\ a \notin Stacks!Critical
      /\ b \in Quietly /\ b # "start_check" /\ b \notin Stacks!Critical
      /\ c \in Quietly /\ c # "start_check" /\ c \notin Stacks!Critical
  BY StepSets DEF Ordinary
<1> DEFINE q == <<a, b, c>>
<1>2. q \in Seq(Quietly) /\ DOMAIN q = 1..3 /\ q[1] = a /\ q[2] = b /\ q[3] = c
  BY <1>1
<1> HIDE DEF q
<1>3. \A i \in 1..3 : i = 1 \/ i = 2 \/ i = 3
  OBVIOUS
<1>4. Fine(q)
  BY <1>1, <1>2, <1>3 DEF Fine, Stacks!Clean
<1> QED BY <1>4 DEF q

LEMMA FineFour ==
    ASSUME NEW a \in Ordinary, NEW b \in Ordinary, NEW c \in Ordinary, NEW d \in Ordinary
    PROVE  Fine(<<a, b, c, d>>)
<1>1. /\ a \in Quietly /\ a # "start_check" /\ a \notin Stacks!Critical
      /\ b \in Quietly /\ b # "start_check" /\ b \notin Stacks!Critical
      /\ c \in Quietly /\ c # "start_check" /\ c \notin Stacks!Critical
      /\ d \in Quietly /\ d # "start_check" /\ d \notin Stacks!Critical
  BY StepSets DEF Ordinary
<1> DEFINE q == <<a, b, c, d>>
<1>2. q \in Seq(Quietly) /\ DOMAIN q = 1..4 /\ q[1] = a /\ q[2] = b /\ q[3] = c /\ q[4] = d
  BY <1>1
<1> HIDE DEF q
<1>3. \A i \in 1..4 : i = 1 \/ i = 2 \/ i = 3 \/ i = 4
  OBVIOUS
<1>4. Fine(q)
  BY <1>1, <1>2, <1>3 DEF Fine, Stacks!Clean
<1> QED BY <1>4 DEF q

\* Whatever a call does, it is made of fine steps.
LEMMA FineCalls ==
    /\ Fine(Stacks!WifiPause) /\ Fine(Stacks!WifiResume) /\ Fine(Stacks!BleStop)
    /\ Fine(Stacks!BleOff) /\ Fine(Stacks!BleOn) /\ Fine(Stacks!QuietRadios)
    /\ Fine(Stacks!ApplyProfile) /\ Fine(Stacks!Apply) /\ Fine(Stacks!NoteReady)
    /\ Fine(Stacks!Bring)
<1> DEFINE L == {"await_role", "lock", "unlock", "apply", "ble_off", "ble_on", "start_radio",
                 "note_ready", "wifi_pause", "wifi_wait", "resume_enter", "resume_leave",
                 "resume_unpause", "resume_promisc", "wifi_init", "wifi_start", "stop",
                 "stop_wait", "ble_disabled", "ble_enabled", "ble_init", "runtime"}
<1>1. L \subseteq Ordinary
  BY DEF Ordinary, Quietly, Stacks!Harmless
<1>2. \A a \in L : a \in Ordinary
  BY <1>1
<1>3. Fine(Stacks!WifiPause) /\ Fine(Stacks!BleStop)
  BY <1>2, FineTwo DEF Stacks!WifiPause, Stacks!BleStop
<1>4. Fine(Stacks!WifiResume)
  BY <1>2, FineFour DEF Stacks!WifiResume
<1>5. Fine(Stacks!Apply)
  BY <1>2, FineThree DEF Stacks!Apply
<1>6. /\ Fine(Stacks!NoteReady) /\ Fine(<<"ble_off">>) /\ Fine(<<"ble_on">>)
      /\ Fine(<<"ble_disabled">>) /\ Fine(<<"ble_enabled">>) /\ Fine(<<"ble_init">>)
      /\ Fine(<<"wifi_init">>) /\ Fine(<<"wifi_start">>) /\ Fine(<<"start_radio">>)
      /\ Fine(<<"runtime">>) /\ Fine(<< >>)
  BY <1>2, FineOne, FineNone DEF Stacks!NoteReady
<1> HIDE DEF L
<1>7. Fine(Stacks!BleOff)
  BY <1>3, <1>6, FineConcat DEF Stacks!BleOff
<1>8. Fine(Stacks!BleOn)
  BY <1>6, FineStart, FineConcat DEF Stacks!BleOn
<1>9. Fine(Stacks!QuietRadios)
  BY <1>3, <1>6, FineConcat DEF Stacks!QuietRadios
<1>10. Fine(Stacks!ApplyProfile)
  <2>1. Fine(Stacks!WifiPause \o <<"ble_on">>) /\ Fine(<<"ble_off">> \o Stacks!WifiResume)
    BY <1>3, <1>4, <1>6, FineConcat
  <2> QED BY <1>6, <1>9, <2>1 DEF Stacks!ApplyProfile
<1>11. Fine(Stacks!Bring)
  <2> DEFINE a == IF x1 = "ble" THEN <<"ble_init">> ELSE <<"wifi_init">>
             b == IF x1 = "wifi" THEN <<"wifi_start">> ELSE << >>
  <2>1. Fine(a) /\ Fine(b)
    BY <1>6
  <2>2. Stacks!Bring = ((((a \o <<"start_radio">>) \o b) \o <<"runtime">>) \o Stacks!Apply)
                       \o Stacks!NoteReady
    BY DEF Stacks!Bring
  <2> HIDE DEF a, b
  <2>3. Fine(a \o <<"start_radio">>)
    BY <1>6, <2>1, FineConcat
  <2>4. Fine((a \o <<"start_radio">>) \o b)
    BY <2>1, <2>3, FineConcat
  <2>5. Fine(((a \o <<"start_radio">>) \o b) \o <<"runtime">>)
    BY <1>6, <2>4, FineConcat
  <2>6. Fine((((a \o <<"start_radio">>) \o b) \o <<"runtime">>) \o Stacks!Apply)
    BY <1>5, <2>5, FineConcat
  <2> QED BY <1>6, <2>2, <2>6, FineConcat
<1> QED BY <1>3, <1>4, <1>5, <1>6, <1>7, <1>8, <1>9, <1>10, <1>11

LEMMA ConsOf ==
    ASSUME NEW S, NEW t \in Seq(S), NEW c \in S
    PROVE  /\ <<c>> \o t \in Seq(S) /\ <<c>> \o t # << >>
           /\ Head(<<c>> \o t) = c /\ Tail(<<c>> \o t) = t
<1> DEFINE r == <<c>> \o t
<1>1. <<c>> \in Seq(S) /\ Len(<<c>>) = 1 /\ <<c>>[1] = c
  OBVIOUS
<1>2. /\ r \in Seq(S) /\ Len(t) \in Nat /\ DOMAIN r = 1..1 + Len(t) /\ Len(r) = 1 + Len(t)
      /\ \A i \in 1..1 + Len(t) : r[i] = IF i <= 1 THEN <<c>>[i] ELSE t[i - 1]
  <2>1. /\ r \in Seq(S) /\ Len(t) \in Nat /\ DOMAIN r = 1..Len(<<c>>) + Len(t)
        /\ \A i \in 1..Len(<<c>>) + Len(t) :
             r[i] = IF i <= Len(<<c>>) THEN <<c>>[i] ELSE t[i - Len(<<c>>)]
    BY <1>1, ConcatOf
  <2>2. Len(r) = Len(<<c>>) + Len(t)
    BY <1>1, ConcatProperties
  <2> QED BY <1>1, <2>1, <2>2
<1> HIDE DEF r
<1>3. r # << >> /\ r[1] = c
  BY <1>1, <1>2
<1>4. /\ Head(r) = r[1] /\ Tail(r) \in Seq(S) /\ Len(Tail(r)) = Len(r) - 1
      /\ \A i \in 1..Len(r) - 1 : Tail(r)[i] = r[i + 1]
  BY <1>2, <1>3, TailOf
<1>5. \A i \in 1..Len(t) : Tail(r)[i] = t[i]
  <2> SUFFICES ASSUME NEW i \in 1..Len(t) PROVE Tail(r)[i] = t[i]
    OBVIOUS
  <2>1. i \in 1..Len(r) - 1 /\ i + 1 \in 1..1 + Len(t) /\ ~(i + 1 <= 1) /\ (i + 1) - 1 = i
    BY <1>2
  <2> QED BY <1>2, <1>4, <2>1
<1>6. Tail(r) = t
  <2>1. Len(Tail(r)) = Len(t)
    BY <1>2, <1>4
  <2> QED BY <1>4, <1>5, <2>1, SeqEqual
<1> QED BY <1>2, <1>3, <1>4, <1>6 DEF r

\* What a step leaves of a task's pending steps.
Leads == {<< >>, <<"create">>, <<"discover">>, <<"recheck">>, <<"stop_wait", "restart">>}

LEMMA MarkedAfter ==
    ASSUME NEW q \in Seq(AnyStep), q # << >>, NEW on \in BOOLEAN, MarkedBy(q, on),
           NEW h, h = Head(q), NEW p \in Seq(AnyStep)
    PROVE  /\ h \notin Starts4 \cup {"start_enter", "stop_wait"} /\ Stacks!Clean(p) =>
                Stacks!Clean(p \o Tail(q))
           /\ h = "stop_wait" /\ p = << >> => MarkedBy(p \o Tail(q), on)
           /\ h = "start_enter" /\ p = << >> => MarkedBy(p \o Tail(q), TRUE)
           /\ h \in Starts4 /\ p \in Leads => on /\ MarkedBy(p \o Tail(q), TRUE)
           /\ h = "start_exit" => Stacks!Clean(q)
<1>1. Tail(q) \in Seq(AnyStep)
  BY TailOf
<1>2. << >> \o Tail(q) = Tail(q)
  BY <1>1, ConcatEmptySeq
<1>3. Stacks!Clean(q) => /\ h \notin Starts4
                         /\ Stacks!Clean(Tail(q)) \/ (h = "start_enter" /\ Stacks!Starting(Tail(q)))
  BY CleanTail DEF Starts4
<1>4. Stacks!Starting(q) => h \in Starts4 /\ Stacks!Clean(Tail(q))
  BY DEF Stacks!Starting, Starts4
<1>5. Stacks!Restarting(q) => h = "stop_wait" /\ Stacks!Starting(Tail(q))
  BY DEF Stacks!Restarting
<1>6. "start_enter" \notin Starts4 /\ "stop_wait" \notin Starts4 /\ "start_exit" \notin Starts4
  BY DEF Starts4, Stacks!Critical
<1>7. ASSUME h \notin Starts4 \cup {"start_enter", "stop_wait"}, Stacks!Clean(p)
      PROVE  Stacks!Clean(p \o Tail(q))
  <2>1. Stacks!Clean(Tail(q))
    BY <1>3, <1>4, <1>5, <1>7 DEF MarkedBy
  <2> QED BY <1>1, <1>7, <2>1, CleanConcat
<1>8. ASSUME h = "stop_wait", p = << >> PROVE MarkedBy(p \o Tail(q), on)
  BY <1>2, <1>3, <1>4, <1>5, <1>6, <1>8 DEF MarkedBy
<1>9. ASSUME h = "start_enter", p = << >> PROVE MarkedBy(p \o Tail(q), TRUE)
  BY <1>2, <1>3, <1>4, <1>5, <1>6, <1>9 DEF MarkedBy
<1>10. ASSUME h \in Starts4, p \in Leads PROVE on /\ MarkedBy(p \o Tail(q), TRUE)
  <2> DEFINE t == Tail(q)
  <2>1. on /\ Stacks!Clean(t)
    BY <1>3, <1>4, <1>5, <1>6, <1>10 DEF MarkedBy
  <2>2. t \in Seq(AnyStep) /\ << >> \o t = t
    BY <1>1, <1>2
  <2> HIDE DEF t
  <2>3. CASE p = << >>
    BY <2>1, <2>2, <2>3 DEF MarkedBy, t
  <2>4. ASSUME NEW c \in {"create", "discover", "recheck", "restart"}
        PROVE  <<c>> \o t \in Seq(AnyStep) /\ Stacks!Starting(<<c>> \o t)
    <3>1. c \in AnyStep /\ c \in Stacks!Critical
      BY <2>4 DEF AnyStep, Stacks!Critical
    <3>2. /\ <<c>> \o t \in Seq(AnyStep) /\ <<c>> \o t # << >>
          /\ Head(<<c>> \o t) = c /\ Tail(<<c>> \o t) = t
      BY <2>2, <3>1, ConsOf
    <3> QED BY <2>1, <3>1, <3>2 DEF Stacks!Starting
  <2>5. CASE p \in {<<"create">>, <<"discover">>, <<"recheck">>}
    BY <2>1, <2>4, <2>5 DEF MarkedBy, t
  <2>6. CASE p = <<"stop_wait", "restart">>
    <3> DEFINE r == <<"restart">> \o t
    <3>1. r \in Seq(AnyStep) /\ Stacks!Starting(r)
      BY <2>4
    <3>2. <<"stop_wait", "restart">> = <<"stop_wait">> \o <<"restart">>
      <4>1. /\ <<"stop_wait">> \in Seq(AnyStep) /\ <<"restart">> \in Seq(AnyStep)
            /\ <<"stop_wait", "restart">> \in Seq(AnyStep)
        BY DEF AnyStep, Stacks!Harmless, Stacks!Critical
      <4>2. /\ <<"stop_wait">> \o <<"restart">> \in Seq(AnyStep)
            /\ Len(<<"stop_wait">> \o <<"restart">>) = 2
            /\ (<<"stop_wait">> \o <<"restart">>)[1] = "stop_wait"
            /\ (<<"stop_wait">> \o <<"restart">>)[2] = "restart"
        <5>1. Len(<<"stop_wait">>) = 1 /\ Len(<<"restart">>) = 1
          OBVIOUS
        <5>2. /\ <<"stop_wait">> \o <<"restart">> \in Seq(AnyStep)
              /\ Len(<<"stop_wait">> \o <<"restart">>) = Len(<<"stop_wait">>) + Len(<<"restart">>)
              /\ \A i \in 1..Len(<<"stop_wait">>) + Len(<<"restart">>) :
                    (<<"stop_wait">> \o <<"restart">>)[i] =
                      IF i <= Len(<<"stop_wait">>) THEN <<"stop_wait">>[i]
                      ELSE <<"restart">>[i - Len(<<"stop_wait">>)]
          BY <4>1, ConcatProperties
        <5> QED BY <5>1, <5>2
      <4>3. /\ Len(<<"stop_wait", "restart">>) = 2
            /\ \A i \in 1..2 : <<"stop_wait", "restart">>[i] = (<<"stop_wait">> \o <<"restart">>)[i]
        BY <4>2
      <4> QED BY <4>1, <4>2, <4>3, SeqEqual
    <3>3. p \o t = <<"stop_wait">> \o r
      <4>1. <<"stop_wait">> \in Seq(AnyStep) /\ <<"restart">> \in Seq(AnyStep)
        BY DEF AnyStep, Stacks!Harmless, Stacks!Critical
      <4> QED BY <2>2, <2>6, <3>2, <4>1, ConcatAssociative
    <3> HIDE DEF r
    <3>4. "stop_wait" \in AnyStep
      BY DEF AnyStep, Stacks!Harmless
    <3>5. /\ <<"stop_wait">> \o r # << >> /\ Head(<<"stop_wait">> \o r) = "stop_wait"
          /\ Tail(<<"stop_wait">> \o r) = r
      BY <3>1, <3>4, ConsOf
    <3>6. Stacks!Restarting(<<"stop_wait">> \o r)
      BY <3>1, <3>5 DEF Stacks!Restarting
    <3> QED BY <2>1, <3>3, <3>6 DEF MarkedBy, t
  <2> QED BY <1>10, <2>3, <2>5, <2>6 DEF Leads
<1>11. h = "start_exit" => Stacks!Clean(q)
  BY <1>4, <1>5, <1>6 DEF MarkedBy
<1> QED BY <1>7, <1>8, <1>9, <1>10, <1>11

LEMMA LeadsTyped == \A p \in Leads : p \in Seq(Unpowered \ {"restore"})
<1> DEFINE S == Unpowered \ {"restore"}
<1>1. "create" \in S /\ "discover" \in S /\ "recheck" \in S /\ "restart" \in S /\ "stop_wait" \in S
  BY DEF Unpowered, Stacks!Harmless, Stacks!Critical
<1> HIDE DEF S
<1>2. << >> \in Seq(S)
  OBVIOUS
<1>3. <<"create">> \in Seq(S) /\ <<"discover">> \in Seq(S) /\ <<"recheck">> \in Seq(S)
  BY <1>1
<1>4. <<"stop_wait", "restart">> \in Seq(S)
  BY <1>1
<1> QED BY <1>2, <1>3, <1>4 DEF Leads, S

LEMMA SeqOf ==
    ASSUME NEW S, NEW T, NEW q \in Seq(S), \A i \in DOMAIN q : q[i] \in T
    PROVE  q \in Seq(T)
<1>1. Len(q) \in Nat /\ DOMAIN q = 1..Len(q) /\ q \in [1..Len(q) -> T]
  OBVIOUS
<1> QED BY <1>1

LEMMA CleanHushed ==
    ASSUME NEW q \in Seq(AnyStep), Stacks!Clean(q)
    PROVE  q \in Seq(Stacks!Harmless \cup Stacks!PowerSteps)
<1>1. \A i \in DOMAIN q : q[i] \in AnyStep /\ q[i] \notin Stacks!Critical
  BY ElementOf DEF Stacks!Clean
<1>2. \A i \in DOMAIN q : q[i] \in Stacks!Harmless \cup Stacks!PowerSteps
  BY <1>1 DEF AnyStep
<1> QED BY <1>2, SeqOf

-----------------------------------------------------------------------------
(* What is pending.                                                        *)
Hushed == \A t \in Stacks!BothTasks : x4[t] \in Seq(Stacks!Harmless \cup Stacks!PowerSteps)
StackTodo ==
    /\ Stacks!MarkedOf("main") /\ Stacks!MarkedOf("cmd") /\ Stacks!CommandPending
    /\ x10.silent => Hushed
PowerShapes == {<<"lock", "quiet">>, <<"quiet">>, <<"lock", "wake">>, <<"wake">>}
PendingOk(q, quiet) ==
    \/ q \in PowerShapes
    \/ q \in Seq(Unpowered) /\ (quiet => q \in Seq(Unpowered \ {"restore"}))

LEMMA TodoIs ==
    /\ StackTodo <=>
        /\ \A t \in Stacks!BothTasks : MarkedBy(x4[t], t \in x5.inflight)
        /\ PendingOk(x4["cmd"], x2.quiet) /\ (x10.silent => Hushed)
    /\ Stacks!TypeOK => /\ x4 \in [Stacks!BothTasks -> Seq(AnyStep)] /\ x2.quiet \in BOOLEAN
                        /\ "main" \in Stacks!BothTasks /\ "cmd" \in Stacks!BothTasks
BY DEF StackTodo, Stacks!MarkedOf, Stacks!CommandPending, Stacks!BothTasks, MarkedBy, PendingOk,
       PowerShapes, Unpowered, AnyStep, Stacks!TypeOK

LEMMA TodoBy ==
    ASSUME \A t \in Stacks!BothTasks : MarkedBy(x4'[t], t \in x5'.inflight),
           PendingOk(x4'["cmd"], x2'.quiet), x10'.silent => Hushed'
    PROVE  StackTodo'
BY DEF StackTodo, Stacks!MarkedOf, Stacks!CommandPending, Stacks!BothTasks, MarkedBy, PendingOk,
       PowerShapes, Unpowered

\* A power command waits for the lock.
LEMMA ShapeOf ==
    ASSUME NEW q \in PowerShapes, NEW h, h = Head(q)
    PROVE  /\ h \in {"lock", "quiet", "wake"}
           /\ h = "lock" => << >> \o Tail(q) \in PowerShapes
           /\ h \in Stacks!PowerSteps => Tail(q) = << >>
<1>1. q \in {<<"lock", "quiet">>, <<"lock", "wake">>} => h = "lock"
  OBVIOUS
<1>2. q = <<"quiet">> => h = "quiet" /\ Tail(q) = << >>
  OBVIOUS
<1>3. q = <<"wake">> => h = "wake" /\ Tail(q) = << >>
  OBVIOUS
<1>4. ASSUME NEW c \in {"quiet", "wake"}, q = <<"lock", c>> PROVE << >> \o Tail(q) = <<c>>
  <2>1. q \in Seq({"lock", "quiet", "wake"}) /\ Len(q) = 2 /\ q[2] = c /\ q # << >>
    BY <1>4
  <2>2. Tail(q) \in Seq({"lock", "quiet", "wake"}) /\ Len(Tail(q)) = 1 /\ Tail(q)[1] = c
    <3>1. /\ Tail(q) \in Seq({"lock", "quiet", "wake"}) /\ Len(Tail(q)) = Len(q) - 1
          /\ \A i \in 1..Len(q) - 1 : Tail(q)[i] = q[i + 1]
      BY <2>1, TailOf
    <3>2. Len(Tail(q)) = 2 - 1 /\ \A i \in 1..2 - 1 : Tail(q)[i] = q[i + 1]
      BY <2>1, <3>1
    <3>3. 2 - 1 = 1 /\ 1 \in 1..1 /\ 1 + 1 = 2
      OBVIOUS
    <3> QED BY <2>1, <3>1, <3>2, <3>3
  <2>3. /\ <<c>> \in Seq({"lock", "quiet", "wake"}) /\ Len(<<c>>) = 1 /\ <<c>>[1] = c
    OBVIOUS
  <2>4. Tail(q) = <<c>>
    <3>1. \A i \in 1..1 : Tail(q)[i] = <<c>>[i]
      BY <2>2, <2>3
    <3> QED BY <2>2, <2>3, <3>1, SeqEqual
  <2> QED BY <2>2, <2>4, ConcatEmptySeq
<1> QED BY <1>1, <1>2, <1>3, <1>4 DEF PowerShapes, Stacks!PowerSteps

\* A task takes a step and goes on with p.
LEMMA StackMoves ==
    ASSUME Stacks!TypeOK, StackTodo, NEW t \in Stacks!BothTasks, x4[t] # << >>,
           NEW h, h = Head(x4[t]), h \notin Stacks!PowerSteps,
           NEW p \in Seq(Unpowered \ {"restore"}), h = "lock" => p = << >>,
           x4' = [x4 EXCEPT ![t] = p \o Tail(@)],
           \/ h \notin Starts4 \cup {"start_enter", "stop_wait"} /\ Stacks!Clean(p)
           \/ h = "stop_wait" /\ p = << >>
           \/ h = "start_enter" /\ p = << >> /\ t \in x5'.inflight
           \/ h \in Starts4 /\ p \in Leads,
           \A u \in x5.inflight : (u = t => h # "start_exit") => u \in x5'.inflight,
           x2'.quiet = x2.quiet,
           x10'.silent => x10.silent \/ (x5.inflight = {} /\ p = << >>),
           x10'.silent /\ h \notin Stacks!Critical => p \in Seq(Stacks!Harmless)
    PROVE  StackTodo' /\ x4' \in [Stacks!BothTasks -> Seq(AnyStep)]
<1>1. /\ x4 \in [Stacks!BothTasks -> Seq(AnyStep)] /\ x4[t] \in Seq(AnyStep)
      /\ "cmd" \in Stacks!BothTasks
      /\ \A u \in Stacks!BothTasks : MarkedBy(x4[u], u \in x5.inflight)
      /\ PendingOk(x4["cmd"], x2.quiet) /\ (x10.silent => Hushed)
  BY TodoIs
<1> DEFINE q == x4[t]
           on == t \in x5.inflight
<1>2. /\ q \in Seq(AnyStep) /\ q # << >> /\ on \in BOOLEAN /\ MarkedBy(q, on) /\ h = Head(q)
  BY <1>1
<1>3. p \in Seq(AnyStep) /\ p \in Seq(Unpowered)
  BY StepSets, SeqMono
<1> HIDE DEF q, on
<1>4. Tail(q) \in Seq(AnyStep) /\ p \o Tail(q) \in Seq(AnyStep)
  <2>1. Tail(q) \in Seq(AnyStep)
    BY <1>2, TailOf
  <2> QED BY <1>3, <2>1, ConcatOf
<1>5. /\ x4' \in [Stacks!BothTasks -> Seq(AnyStep)] /\ x4'[t] = p \o Tail(q)
      /\ \A u \in Stacks!BothTasks : u # t => x4'[u] = x4[u]
  BY <1>1, <1>4 DEF q
<1>6. MarkedBy(p \o Tail(q), t \in x5'.inflight)
  <2>1. /\ h \notin Starts4 \cup {"start_enter", "stop_wait"} /\ Stacks!Clean(p) =>
                Stacks!Clean(p \o Tail(q))
        /\ h = "stop_wait" /\ p = << >> => MarkedBy(p \o Tail(q), on)
        /\ h = "start_enter" /\ p = << >> => MarkedBy(p \o Tail(q), TRUE)
        /\ h \in Starts4 /\ p \in Leads => on /\ MarkedBy(p \o Tail(q), TRUE)
    BY <1>2, <1>3, MarkedAfter
  <2>2. h \in Starts4 \cup {"stop_wait"} => h # "start_exit"
    BY DEF Starts4, Stacks!Critical
  <2>3. on /\ h \in Starts4 \cup {"stop_wait"} => t \in x5'.inflight
    BY <2>2 DEF on
  <2> QED BY <2>1, <2>3 DEF MarkedBy
<1>7. ASSUME NEW u \in Stacks!BothTasks PROVE MarkedBy(x4'[u], u \in x5'.inflight)
  <2>1. CASE u = t
    BY <1>5, <1>6, <2>1
  <2>2. CASE u # t
    <3>1. u \in x5.inflight => u \in x5'.inflight
      BY <2>2
    <3> QED BY <1>1, <1>5, <2>2, <3>1 DEF MarkedBy
  <2> QED BY <2>1, <2>2
<1>8. PendingOk(x4'["cmd"], x2'.quiet)
  <2>1. CASE t # "cmd"
    BY <1>1, <1>5, <2>1
  <2>2. CASE t = "cmd" /\ q \in PowerShapes
    <3>1. h = "lock" /\ << >> \o Tail(q) \in PowerShapes
      <4>1. /\ h \in {"lock", "quiet", "wake"}
            /\ h = "lock" => << >> \o Tail(q) \in PowerShapes
        BY <1>2, <2>2, ShapeOf
      <4> QED BY <4>1 DEF Stacks!PowerSteps
    <3> QED BY <1>5, <2>2, <3>1 DEF PendingOk
  <2>3. CASE t = "cmd" /\ q \notin PowerShapes
    <3>1. q \in Seq(Unpowered) /\ (x2.quiet => q \in Seq(Unpowered \ {"restore"}))
      BY <1>1, <2>3 DEF PendingOk, q
    <3>2. p \o Tail(q) \in Seq(Unpowered)
      <4>1. Tail(q) \in Seq(Unpowered)
        BY <1>2, <3>1, TailOf
      <4> QED BY <1>3, <4>1, ConcatOf
    <3>3. ASSUME x2.quiet PROVE p \o Tail(q) \in Seq(Unpowered \ {"restore"})
      <4>1. q \in Seq(Unpowered \ {"restore"})
        BY <3>1, <3>3
      <4>2. Tail(q) \in Seq(Unpowered \ {"restore"})
        BY <1>2, <4>1, TailOf
      <4> QED BY <4>2, ConcatOf
    <3> QED BY <1>5, <2>3, <3>2, <3>3 DEF PendingOk
  <2> QED BY <2>1, <2>2, <2>3
<1>9. ASSUME x10'.silent PROVE Hushed'
  <2> DEFINE H == Stacks!Harmless \cup Stacks!PowerSteps
  <2>1. \A u \in Stacks!BothTasks : x4[u] \in Seq(H)
    <3>1. CASE x10.silent
      BY <1>1, <3>1 DEF Hushed
    <3>2. CASE x5.inflight = {}
      <4>1. \A u \in Stacks!BothTasks : x4[u] \in Seq(AnyStep) /\ Stacks!Clean(x4[u])
        BY <1>1, <3>2 DEF MarkedBy
      <4> QED BY <4>1, CleanHushed
    <3> QED BY <1>9, <3>1, <3>2
  <2>2. q \in Seq(H) /\ Head(q) \in H /\ Tail(q) \in Seq(H)
    <3>1. q \in Seq(H)
      BY <2>1 DEF q
    <3> QED BY <1>2, <3>1, TailOf
  <2>3. p \in Seq(Stacks!Harmless)
    <3>1. h \notin Stacks!Critical
      BY <1>2, <2>2, StepSets
    <3> QED BY <1>9, <3>1
  <2>4. p \in Seq(H)
    <3>1. Stacks!Harmless \subseteq H
      OBVIOUS
    <3> HIDE DEF H
    <3> QED BY <2>3, <3>1, SeqMono
  <2> HIDE DEF H
  <2>5. p \o Tail(q) \in Seq(H)
    BY <2>2, <2>4, ConcatOf
  <2>6. \A u \in Stacks!BothTasks : x4'[u] \in Seq(H)
    BY <1>5, <2>1, <2>5
  <2> QED BY <2>6 DEF Hushed, H
<1>10. StackTodo'
  BY <1>7, <1>8, <1>9, TodoBy
<1> QED BY <1>5, <1>10

LEMMA FineTyped ==
    ASSUME NEW p, Fine(p)
    PROVE  /\ Stacks!Clean(p) /\ p \in Seq(Unpowered \ {"restore"}) /\ p \in Seq(Stacks!Harmless)
           /\ p \in Seq(Unpowered) /\ p \in Seq(AnyStep)
           /\ p \in Seq(Stacks!Harmless \cup Stacks!PowerSteps)
<1>1. p \in Seq(Quietly) /\ Stacks!Clean(p)
  BY DEF Fine
<1>2. /\ Quietly \subseteq Unpowered \ {"restore"} /\ Quietly \subseteq Stacks!Harmless
      /\ Quietly \subseteq Unpowered /\ Quietly \subseteq AnyStep
      /\ Quietly \subseteq Stacks!Harmless \cup Stacks!PowerSteps
  BY StepSets
<1> QED BY <1>1, <1>2, SeqMono

\* The same for a step that starts nothing.
LEMMA StackOrdinary ==
    ASSUME Stacks!TypeOK, StackTodo, NEW t \in Stacks!BothTasks, x4[t] # << >>,
           NEW h, h = Head(x4[t]),
           h \in Stacks!Harmless \ {"start_check", "start_enter", "stop_wait", "start_exit"},
           NEW p, Fine(p), h = "lock" => p = << >>,
           x4' = [x4 EXCEPT ![t] = p \o Tail(@)],
           x5'.inflight = x5.inflight, x2'.quiet = x2.quiet,
           x10'.silent => x10.silent \/ (x5.inflight = {} /\ p = << >>)
    PROVE  StackTodo' /\ x4' \in [Stacks!BothTasks -> Seq(AnyStep)]
<1>1. /\ Stacks!Clean(p) /\ p \in Seq(Unpowered \ {"restore"}) /\ p \in Seq(Stacks!Harmless)
  BY FineTyped
<1>2. /\ h \notin Stacks!PowerSteps /\ h \notin Starts4 \cup {"start_enter", "stop_wait"}
      /\ h # "start_exit"
  BY DEF Stacks!Harmless, Stacks!PowerSteps, Starts4, Stacks!Critical
<1> QED BY <1>1, <1>2, StackMoves

\* A listener that waits for a command gets one.
LEMMA StackTaken ==
    ASSUME Stacks!TypeOK, StackTodo, NEW p, Stacks!Clean(p), p \in Seq(AnyStep),
           x4' = [x4 EXCEPT !["cmd"] = p], PendingOk(p, x2'.quiet),
           x10'.silent => x10.silent /\ p \in Seq(Stacks!Harmless \cup Stacks!PowerSteps),
           x5'.inflight = x5.inflight
    PROVE  StackTodo' /\ x4' \in [Stacks!BothTasks -> Seq(AnyStep)]
<1>1. /\ x4 \in [Stacks!BothTasks -> Seq(AnyStep)] /\ "cmd" \in Stacks!BothTasks
      /\ \A u \in Stacks!BothTasks : MarkedBy(x4[u], u \in x5.inflight)
      /\ x10.silent => Hushed
  BY TodoIs
<1>2. /\ x4' \in [Stacks!BothTasks -> Seq(AnyStep)] /\ x4'["cmd"] = p
      /\ \A u \in Stacks!BothTasks : u # "cmd" => x4'[u] = x4[u]
  BY <1>1
<1>3. \A u \in Stacks!BothTasks : MarkedBy(x4'[u], u \in x5'.inflight)
  BY <1>1, <1>2 DEF MarkedBy
<1>4. x10'.silent => Hushed'
  BY <1>1, <1>2 DEF Hushed
<1> QED BY <1>2, <1>3, <1>4, TodoBy

-----------------------------------------------------------------------------
(* The radios.                                                             *)
StackFacts ==
    /\ x7.promisc => x7.init
    /\ x6.air => x6.pc \in {"run", "sync", "check"}
    /\ x6.pc # "none" => x5.handle
    /\ x2.quiet => ~x2.tx
    /\ x10.silent => /\ x2.quiet /\ x7.paused /\ ~x7.promisc /\ x8 \notin {"go", "scan"}
                     /\ x6.pc = "none"
Modes == [role : BOOLEAN, quiet : BOOLEAN, active : BOOLEAN, runtime : BOOLEAN,
          ready : BOOLEAN, window : BOOLEAN, late : BOOLEAN, complete : BOOLEAN,
          tx : BOOLEAN, restore : BOOLEAN, firmware : BOOLEAN, ota : BOOLEAN]
Bles == [init : BOOLEAN, scanning : BOOLEAN, active : BOOLEAN, requested : BOOLEAN,
         synced : BOOLEAN, handle : BOOLEAN, inflight : SUBSET Stacks!BothTasks,
         enabled : BOOLEAN, gatt : BOOLEAN, resume : BOOLEAN]
Hosts == [pc : {"none", "created", "run", "sync", "check", "ended"}, stop : BOOLEAN,
          air : BOOLEAN, reset : {"no", "yes", "deaf"}]
Wifis == [paused : BOOLEAN, init : BOOLEAN, promisc : BOOLEAN, inflight : SUBSET Stacks!BothTasks]
Scans == {"none", "idle", "found", "armed", "go", "scan"}
LinkStates == [wants : {"awake", "quiet"}, acked : BOOLEAN, silent : BOOLEAN, ok : BOOLEAN]
StackTyped == x2 \in Modes /\ x5 \in Bles /\ x6 \in Hosts /\ x7 \in Wifis /\ x8 \in Scans
              /\ x10 \in LinkStates

LEMMA StackSplit ==
    /\ StackInv <=> Stacks!TypeOK /\ StackTodo /\ StackFacts
    /\ Stacks!TypeOK <=> StackTyped /\ x4 \in [Stacks!BothTasks -> Seq(AnyStep)]
BY DEF StackInv, Stacks!SilentInv, StackTodo, StackFacts, Hushed, Stacks!TypeOK, StackTyped,
       Stacks!HostRuns, Modes, Bles, Hosts, Wifis, Scans, LinkStates, AnyStep

LEMMA StackThen ==
    ASSUME StackTodo', StackFacts', StackTyped', x4' \in [Stacks!BothTasks -> Seq(AnyStep)]
    PROVE  StackInv'
BY DEF StackInv, Stacks!SilentInv, StackTodo, StackFacts, Hushed, Stacks!TypeOK, StackTyped,
       Stacks!HostRuns, Modes, Bles, Hosts, Wifis, Scans, LinkStates, AnyStep

LEMMA StackNow == StackInv => /\ Stacks!TypeOK /\ StackTodo /\ StackFacts /\ StackTyped
                              /\ x4 \in [Stacks!BothTasks -> Seq(AnyStep)]
BY StackSplit

LEMMA StackInitial == Stacks!Init => StackInv
<1> SUFFICES ASSUME Stacks!Init PROVE StackInv
  OBVIOUS
<1>1. StackTyped /\ StackFacts
  BY DEF Stacks!Init, StackTyped, StackFacts, Modes, Bles, Hosts, Wifis, Scans, LinkStates,
         Stacks!BothTasks
<1>2. x4 = [main |-> <<"await_role">>, cmd |-> << >>]
  BY DEF Stacks!Init, Stacks!BootSteps
<1>3. Fine(<<"await_role">>) /\ Fine(<< >>)
  <2>1. "await_role" \in Ordinary
    BY DEF Ordinary, Quietly, Stacks!Harmless
  <2> QED BY <2>1, FineOne, FineNone
<1>4. /\ <<"await_role">> \in Seq(AnyStep) /\ << >> \in Seq(AnyStep)
      /\ Stacks!Clean(<<"await_role">>) /\ Stacks!Clean(<< >>)
      /\ << >> \in Seq(Unpowered) /\ << >> \in Seq(Unpowered \ {"restore"})
  BY <1>3, FineTyped
<1>5. x4 \in [Stacks!BothTasks -> Seq(AnyStep)]
  <2> DEFINE S == Seq(AnyStep)
             a == <<"await_role">>
             b == << >>
  <2>1. x4 = [main |-> a, cmd |-> b] /\ a \in S /\ b \in S
    BY <1>2, <1>4
  <2> HIDE DEF S, a, b
  <2>2. x4 = [u \in {"main", "cmd"} |-> IF u = "main" THEN a ELSE b]
    BY <2>1
  <2>3. x4 \in [{"main", "cmd"} -> S]
    BY <2>1, <2>2
  <2> QED BY <2>3 DEF Stacks!BothTasks, S
<1>6. ~x10.silent
  BY DEF Stacks!Init
<1>7. \A t \in Stacks!BothTasks : MarkedBy(x4[t], t \in x5.inflight)
  BY <1>2, <1>4 DEF Stacks!BothTasks, MarkedBy
<1>8. StackTodo
  BY <1>2, <1>4, <1>6, <1>7, TodoIs DEF PendingOk
<1> QED BY <1>1, <1>5, <1>8, StackSplit

\* The steps that start nothing and leave the radios alone: the lock, the
\* calls that choose what comes next, what is noted, told and calmed.
LEMMA StackNotes ==
    ASSUME StackInv, NEW t \in Stacks!BothTasks,
           \/ Stacks!Lock(t) \/ Stacks!Unlock(t) \/ Stacks!Expand(t) \/ Stacks!Noted(t)
           \/ Stacks!StartLeave(t) \/ Stacks!Runtime(t)
           \/ Stacks!WifiStart(t)
           \/ (t = "main" /\ Stacks!AwaitRole)
           \/ (t = "cmd" /\ (\/ Stacks!LateRadio \/ Stacks!ApplyNow \/ Stacks!Calm
                             \/ Stacks!Result \/ Stacks!RestoreTx))
    PROVE  StackInv'
<1>1. Stacks!TypeOK /\ StackTodo /\ StackFacts /\ StackTyped
  BY StackNow
<1> DEFINE h == Head(x4[t])
           O == Stacks!Harmless \ {"start_check", "start_enter", "stop_wait", "start_exit"}
<1>2. /\ "lock" \in O /\ "unlock" \in O /\ "apply" \in O /\ "ble_off" \in O /\ "ble_on" \in O
      /\ "start_radio" \in O /\ "note_ready" \in O /\ "start_leave" \in O /\ "runtime" \in O
      /\ "complete" \in O /\ "wifi_start" \in O /\ "await_role" \in O /\ "late" \in O
      /\ "apply_now" \in O /\ "calm" \in O /\ "result" \in O /\ "restore" \in O
  BY DEF Stacks!Harmless
<1>3. Fine(<< >>) /\ Fine(<<"start_exit">>) /\ Fine(<<"complete">>)
  <2>1. "start_exit" \in Ordinary /\ "complete" \in Ordinary
    BY DEF Ordinary, Quietly, Stacks!Harmless
  <2> QED BY <2>1, FineOne, FineNone
<1> HIDE DEF O
<1>4. UNCHANGED <<x5, x6, x7>>
  BY DEF Stacks!Lock, Stacks!Unlock, Stacks!Expand, Stacks!Noted, Stacks!StartLeave,
         Stacks!Runtime, Stacks!WifiStart, Stacks!AwaitRole, Stacks!LateRadio, Stacks!ApplyNow,
         Stacks!Calm, Stacks!Result, Stacks!RestoreTx
<1>5. \E p : /\ x4[t] # << >> /\ h \in O /\ Fine(p) /\ (h = "lock" => p = << >>)
             /\ x4' = [x4 EXCEPT ![t] = p \o Tail(@)]
  <2>1. CASE Stacks!Lock(t) \/ Stacks!Unlock(t) \/ Stacks!Noted(t) \/ Stacks!Runtime(t)
             \/ Stacks!WifiStart(t)
    BY <1>2, <1>3, <2>1 DEF Stacks!Lock, Stacks!Unlock, Stacks!Noted, Stacks!Runtime,
       Stacks!WifiStart, Stacks!Ready, Stacks!Then
  <2>2. CASE Stacks!Expand(t)
    <3>1. CASE Stacks!Ready(t, "apply")
               /\ Stacks!Then(t, IF x2.runtime THEN Stacks!ApplyProfile ELSE << >>)
      <4>1. Fine(IF x2.runtime THEN Stacks!ApplyProfile ELSE << >>)
        BY <1>3, FineCalls
      <4> QED BY <1>2, <3>1, <4>1 DEF Stacks!Ready, Stacks!Then
    <3>2. CASE Stacks!Ready(t, "ble_off") /\ Stacks!Then(t, Stacks!BleOff)
      BY <1>2, <3>2, FineCalls DEF Stacks!Ready, Stacks!Then
    <3>3. CASE Stacks!Ready(t, "ble_on") /\ Stacks!Then(t, Stacks!BleOn)
      BY <1>2, <3>3, FineCalls DEF Stacks!Ready, Stacks!Then
    <3>4. CASE \E p \in {Stacks!BleStart, Stacks!WifiResume, Stacks!WifiPause, << >>} :
                  Stacks!Ready(t, "start_radio") /\ Stacks!Then(t, p)
      BY <1>2, <1>3, <3>4, FineCalls, FineStart DEF Stacks!Ready, Stacks!Then
    <3> QED BY <2>2, <3>1, <3>2, <3>3, <3>4 DEF Stacks!Expand
  <2>3. CASE Stacks!StartLeave(t)
    <3> DEFINE b == IF x2.quiet THEN Stacks!BleStop ELSE << >>
    <3>1. Fine(b \o <<"start_exit">>)
      <4>1. Fine(b)
        BY <1>3, FineCalls
      <4> HIDE DEF b
      <4> QED BY <1>3, <4>1, FineConcat
    <3>2. Stacks!Ready(t, "start_leave") /\ Stacks!Then(t, b \o <<"start_exit">>)
      BY <2>3 DEF Stacks!StartLeave
    <3> HIDE DEF b
    <3> QED BY <1>2, <3>1, <3>2 DEF Stacks!Ready, Stacks!Then
  <2>4. CASE t = "main" /\ Stacks!AwaitRole
    <3> DEFINE b == IF x2.role THEN Stacks!Bring ELSE Stacks!WifiPause
    <3>1. Fine(b \o <<"complete">>)
      <4>1. Fine(b)
        BY FineCalls
      <4> HIDE DEF b
      <4> QED BY <1>3, <4>1, FineConcat
    <3>2. Stacks!Ready(t, "await_role") /\ Stacks!Then(t, b \o <<"complete">>)
      BY <2>4 DEF Stacks!AwaitRole
    <3> HIDE DEF b
    <3> QED BY <1>2, <3>1, <3>2 DEF Stacks!Ready, Stacks!Then
  <2>5. CASE t = "cmd" /\ Stacks!LateRadio
    <3> DEFINE b == IF x5.init \/ x7.init THEN << >> ELSE Stacks!Bring
    <3>1. Fine(b)
      BY <1>3, FineCalls
    <3>2. Stacks!Ready(t, "late") /\ Stacks!Then(t, b)
      BY <2>5 DEF Stacks!LateRadio
    <3> HIDE DEF b
    <3> QED BY <1>2, <3>1, <3>2 DEF Stacks!Ready, Stacks!Then
  <2>6. CASE t = "cmd" /\ (Stacks!ApplyNow \/ Stacks!Calm \/ Stacks!Result \/ Stacks!RestoreTx)
    BY <1>2, <1>3, <2>6, FineCalls DEF Stacks!ApplyNow, Stacks!Calm, Stacks!Result,
       Stacks!RestoreTx, Stacks!Ready, Stacks!Then
  <2> HIDE DEF h
  <2> QED BY <2>1, <2>2, <2>3, <2>4, <2>5, <2>6
<1>6. PICK p : /\ x4[t] # << >> /\ h \in O /\ Fine(p) /\ (h = "lock" => p = << >>)
               /\ x4' = [x4 EXCEPT ![t] = p \o Tail(@)]
  BY <1>5
<1>7. /\ x2' \in Modes /\ x8' \in Scans /\ x10' \in LinkStates
      /\ x2'.quiet = x2.quiet /\ x10'.silent = x10.silent
  <2>1. CASE Stacks!Lock(t) \/ Stacks!Unlock(t) \/ Stacks!Expand(t) \/ Stacks!StartLeave(t)
             \/ Stacks!LateRadio \/ Stacks!ApplyNow \/ Stacks!Calm
    BY <1>1, <2>1 DEF Stacks!Lock, Stacks!Unlock, Stacks!Expand, Stacks!StartLeave,
       Stacks!LateRadio, Stacks!ApplyNow, Stacks!Calm, StackTyped
  <2>2. CASE Stacks!WifiStart(t)
    BY <1>1, <2>2 DEF Stacks!WifiStart, StackTyped, Scans
  <2>3. CASE Stacks!Runtime(t)
    BY <1>1, <2>3 DEF Stacks!Runtime, StackTyped, Modes
  <2>4. CASE Stacks!AwaitRole \/ Stacks!RestoreTx
    BY <1>1, <2>4 DEF Stacks!AwaitRole, Stacks!RestoreTx, StackTyped, Modes
  <2>5. CASE Stacks!Noted(t)
    <3> DEFINE b == Stacks!RadiosReady
    <3>1. x2' = [x2 EXCEPT !.ready = b] /\ x8' = x8 /\ x10' = x10
      BY <2>5 DEF Stacks!Noted
    <3>2. b \in BOOLEAN
      BY DEF Stacks!RadiosReady, Stacks!NormalReady, Stacks!WifiQuiesced, Stacks!WifiActive,
             Stacks!BleQuiesced, Stacks!BleActive
    <3> HIDE DEF b
    <3> QED BY <1>1, <3>1, <3>2 DEF StackTyped, Modes
  <2>6. CASE Stacks!Result
    <3> DEFINE b == Stacks!RadiosReady /\ (x2.quiet => ~x2.tx)
    <3>1. x10' = [x10 EXCEPT !.ok = b] /\ x8' = x8 /\ x2' = x2
      BY <2>6 DEF Stacks!Result
    <3>2. b \in BOOLEAN
      OBVIOUS
    <3> HIDE DEF b
    <3> QED BY <1>1, <3>1, <3>2 DEF StackTyped, LinkStates
  <2> QED BY <2>1, <2>2, <2>3, <2>4, <2>5, <2>6
<1>8. StackTodo' /\ x4' \in [Stacks!BothTasks -> Seq(AnyStep)]
  <2>1. x10'.silent => x10.silent
    BY <1>7
  <2> HIDE DEF h
  <2> QED BY <1>1, <1>4, <1>6, <1>7, <2>1, StackOrdinary DEF O, h
<1>9. x2'.quiet => ~x2'.tx
  <2>1. CASE Stacks!RestoreTx /\ t = "cmd"
    <3>1. h = "restore" /\ x4["cmd"] # << >>
      BY <1>6, <2>1 DEF Stacks!RestoreTx, Stacks!Ready
    <3>2. x4["cmd"] \notin PowerShapes
      <4>1. x4["cmd"] \in PowerShapes => h \in {"lock", "quiet", "wake"}
        BY <2>1, ShapeOf
      <4> QED BY <3>1, <4>1
    <3>3. x2.quiet => x4["cmd"] \in Seq(Unpowered \ {"restore"})
      BY <1>1, <3>2, TodoIs DEF PendingOk
    <3>4. x2.quiet => h \in Unpowered \ {"restore"}
      BY <2>1, <3>1, <3>3, TailOf
    <3> QED BY <1>7, <3>1, <3>4
  <2>2. CASE ~(Stacks!RestoreTx /\ t = "cmd")
    <3>1. x2'.tx = x2.tx
      <4>1. CASE UNCHANGED x2
        BY <4>1
      <4>2. CASE Stacks!Runtime(t) \/ Stacks!Noted(t) \/ Stacks!AwaitRole
        <5>1. x2 \in Modes
          BY <1>1 DEF StackTyped
        <5>2. CASE Stacks!Runtime(t)
          BY <5>1, <5>2 DEF Stacks!Runtime, Modes
        <5>3. CASE Stacks!Noted(t)
          BY <5>1, <5>3 DEF Stacks!Noted, Modes
        <5>4. CASE Stacks!AwaitRole
          BY <5>1, <5>4 DEF Stacks!AwaitRole, Modes
        <5> QED BY <4>2, <5>2, <5>3, <5>4
      <4> QED BY <2>2, <4>1, <4>2 DEF Stacks!Lock, Stacks!Unlock, Stacks!Expand,
                 Stacks!StartLeave, Stacks!WifiStart, Stacks!LateRadio, Stacks!ApplyNow,
                 Stacks!Calm, Stacks!Result
    <3> QED BY <1>1, <1>7, <3>1 DEF StackFacts
  <2> QED BY <2>1, <2>2
<1>10. x8' \in {x8, "idle"}
  BY DEF Stacks!Lock, Stacks!Unlock, Stacks!Expand, Stacks!Noted, Stacks!StartLeave,
         Stacks!Runtime, Stacks!WifiStart, Stacks!AwaitRole, Stacks!LateRadio, Stacks!ApplyNow,
         Stacks!Calm, Stacks!Result, Stacks!RestoreTx
<1>11. StackFacts' /\ StackTyped'
  BY <1>1, <1>4, <1>7, <1>9, <1>10 DEF StackFacts, StackTyped
<1> QED BY <1>8, <1>11, StackThen

\* The acknowledgement sees every fact, and that no task is starting a host.
LEMMA StackAck ==
    ASSUME StackInv, Stacks!Ack
    PROVE  StackInv'
<1>1. Stacks!TypeOK /\ StackTodo /\ StackFacts /\ StackTyped
  BY StackNow
<1> DEFINE ok == /\ x10.ok /\ x2.ready /\ Stacks!RadiosReady
                 /\ x2.quiet = (x10.wants = "quiet")
<1>2. /\ x10' = [x10 EXCEPT !.acked = ok, !.silent = ok /\ x2.quiet]
      /\ x4["cmd"] # << >> /\ Head(x4["cmd"]) = "ack"
      /\ x4' = [x4 EXCEPT !["cmd"] = << >> \o Tail(@)]
      /\ UNCHANGED <<x2, x5, x6, x7, x8>>
  BY DEF Stacks!Ack, Stacks!Ready, Stacks!Then
<1>3. ok \in BOOLEAN /\ x2.quiet \in BOOLEAN
  BY <1>1 DEF StackTyped, Modes
<1>4. ok /\ x2.quiet => Stacks!WifiQuiesced /\ Stacks!BleQuiesced
  BY DEF Stacks!RadiosReady
<1> HIDE DEF ok
<1>5. x10' \in LinkStates /\ (x10'.silent => ok /\ x2.quiet)
  BY <1>1, <1>2, <1>3 DEF StackTyped, LinkStates
<1>6. x10'.silent => x5.inflight = {} /\ ~x5.handle
  BY <1>4, <1>5 DEF Stacks!BleQuiesced
<1>7. x10'.silent => x7.paused /\ (x7.init => ~x7.promisc) /\ x8 \notin {"go", "scan"}
  BY <1>4, <1>5 DEF Stacks!WifiQuiesced
<1>8. StackTodo' /\ x4' \in [Stacks!BothTasks -> Seq(AnyStep)]
  <2>1. "ack" \in Stacks!Harmless \ {"start_check", "start_enter", "stop_wait", "start_exit"}
    BY DEF Stacks!Harmless
  <2>2. x2'.quiet = x2.quiet /\ x5'.inflight = x5.inflight /\ "cmd" \in Stacks!BothTasks
    BY <1>2 DEF Stacks!BothTasks
  <2> QED BY <1>1, <1>2, <1>6, <2>1, <2>2, FineNone, StackOrdinary
<1>9. StackFacts' /\ StackTyped'
  BY <1>1, <1>2, <1>5, <1>6, <1>7 DEF StackFacts, StackTyped
<1> QED BY <1>8, <1>9, StackThen

\* What a start's check leads to; under quiet it leads to nothing.
LEMMA StackStarts ==
    ASSUME StackInv, NEW t \in Stacks!BothTasks,
           Stacks!StartCheck(t) \/ Stacks!HostRestart(t) \/ Stacks!Restarted(t)
    PROVE  StackInv'
<1>1. Stacks!TypeOK /\ StackTodo /\ StackFacts /\ StackTyped
  BY StackNow
<1> DEFINE h == Head(x4[t])
<1>2. UNCHANGED <<x2, x5, x6, x7, x8, x10>>
  BY DEF Stacks!StartCheck, Stacks!HostRestart, Stacks!Restarted
<1>3. \E p \in Leads : /\ x4[t] # << >> /\ h \in {"start_check", "restart"}
                       /\ x4' = [x4 EXCEPT ![t] = p \o Tail(@)]
                       /\ h = "start_check" /\ x2.quiet => p = << >>
  <2>1. CASE Stacks!StartCheck(t)
    <3>1. \E p \in {<< >>, <<"create">>, <<"discover">>} :
             /\ Stacks!Then(t, p) /\ (x2.quiet => p = << >>)
      BY <2>1 DEF Stacks!StartCheck
    <3> QED BY <2>1, <3>1 DEF Stacks!StartCheck, Stacks!Ready, Stacks!Then, Leads
  <2>2. CASE Stacks!HostRestart(t)
    BY <2>2 DEF Stacks!HostRestart, Stacks!Ready, Stacks!Then, Leads
  <2>3. CASE Stacks!Restarted(t)
    <3>1. \E p \in {<< >>, <<"create">>} : Stacks!Then(t, p)
      BY <2>3 DEF Stacks!Restarted
    <3> QED BY <2>3, <3>1 DEF Stacks!Restarted, Stacks!Ready, Stacks!Then, Leads
  <2> QED BY <2>1, <2>2, <2>3
<1>4. PICK p \in Leads : /\ x4[t] # << >> /\ h \in {"start_check", "restart"}
                         /\ x4' = [x4 EXCEPT ![t] = p \o Tail(@)]
                         /\ h = "start_check" /\ x2.quiet => p = << >>
  BY <1>3
<1> HIDE DEF h
<1>5. p \in Seq(Unpowered \ {"restore"})
  BY LeadsTyped
<1>6. h \in Starts4 /\ h \notin Stacks!PowerSteps /\ h # "lock" /\ h # "start_exit"
      /\ (h \notin Stacks!Critical => h = "start_check")
  BY <1>4 DEF Starts4, Stacks!Critical, Stacks!PowerSteps
<1>7. x10'.silent /\ h \notin Stacks!Critical => p \in Seq(Stacks!Harmless)
  <2>1. x10'.silent => x2.quiet
    BY <1>1, <1>2 DEF StackFacts
  <2>2. << >> \in Seq(Stacks!Harmless)
    BY FineNone, FineTyped
  <2> QED BY <1>4, <1>6, <2>1, <2>2
<1>8. StackTodo' /\ x4' \in [Stacks!BothTasks -> Seq(AnyStep)]
  <2>1. x10'.silent => x10.silent
    BY <1>2
  <2>2. \A u \in x5.inflight : (u = t => h # "start_exit") => u \in x5'.inflight
    BY <1>2
  <2>3. x2'.quiet = x2.quiet
    BY <1>2
  <2> QED BY <1>1, <1>4, <1>5, <1>6, <1>7, <2>1, <2>2, <2>3, StackMoves DEF h
<1>9. StackFacts' /\ StackTyped'
  BY <1>1, <1>2 DEF StackFacts, StackTyped
<1> QED BY <1>8, <1>9, StackThen

\* Under quiet nothing takes the pause off, and nothing listens while paused.
LEMMA StackWifi ==
    ASSUME StackInv, NEW t \in Stacks!BothTasks, Stacks!WifiStep(t) \/ Stacks!WifiInit(t)
    PROVE  StackInv'
<1>1. Stacks!TypeOK /\ StackTodo /\ StackFacts /\ StackTyped
  BY StackNow
<1>2. /\ UNCHANGED <<x2, x5, x6, x8, x10>> /\ x4[t] # << >>
      /\ x4' = [x4 EXCEPT ![t] = << >> \o Tail(@)]
      /\ Head(x4[t]) \in {"wifi_pause", "wifi_wait", "resume_enter", "resume_leave",
                          "resume_unpause", "resume_promisc", "wifi_init"}
  BY DEF Stacks!WifiStep, Stacks!WifiInit, Stacks!Ready, Stacks!Then
<1>3. StackTodo' /\ x4' \in [Stacks!BothTasks -> Seq(AnyStep)]
  <2>1. Head(x4[t]) \in Stacks!Harmless \ {"start_check", "start_enter", "stop_wait", "start_exit"}
    BY <1>2 DEF Stacks!Harmless
  <2>2. x2'.quiet = x2.quiet /\ x5'.inflight = x5.inflight /\ (x10'.silent => x10.silent)
    BY <1>2
  <2> QED BY <1>1, <1>2, <2>1, <2>2, FineNone, StackOrdinary
<1>4. /\ x7' \in Wifis /\ (x7'.promisc => x7'.init)
      /\ x2.quiet /\ x7.paused /\ ~x7.promisc => x7'.paused /\ ~x7'.promisc
  <2>1. x7 \in Wifis /\ x2.quiet \in BOOLEAN /\ (x7.promisc => x7.init)
    BY <1>1 DEF StackTyped, Modes, StackFacts
  <2>2. CASE Stacks!WifiInit(t)
    BY <2>1, <2>2 DEF Stacks!WifiInit, Wifis
  <2>3. CASE \/ x7' = [x7 EXCEPT !.paused = TRUE, !.promisc = FALSE]
             \/ x7' = [x7 EXCEPT !.promisc = FALSE]
             \/ x7' = [x7 EXCEPT !.inflight = @ \cup {t}]
             \/ x7' = [x7 EXCEPT !.inflight = @ \ {t}]
             \/ x7' = [x7 EXCEPT !.paused = x2.quiet \/ ~x7.init]
    BY <2>1, <2>3 DEF Wifis
  <2>4. CASE LET back == x2.quiet \/ ~x7.init
             IN  x7' = [x7 EXCEPT !.paused = @ \/ back, !.promisc = ~back]
    BY <2>1, <2>4 DEF Wifis
  <2> QED BY <2>2, <2>3, <2>4 DEF Stacks!WifiStep
<1>5. StackFacts' /\ StackTyped'
  BY <1>1, <1>2, <1>4 DEF StackFacts, StackTyped
<1> QED BY <1>3, <1>5, StackThen

\* No host is created, and nothing discovers, behind an acknowledged quiet.
LEMMA StackBle ==
    ASSUME StackInv, NEW t \in Stacks!BothTasks,
           Stacks!BleStep(t) \/ Stacks!Discovered(t) \/ Stacks!Stop(t) \/ Stacks!StopWait(t)
    PROVE  StackInv'
<1>1. Stacks!TypeOK /\ StackTodo /\ StackFacts /\ StackTyped
  BY StackNow
<1> DEFINE h == Head(x4[t])
<1>2. UNCHANGED <<x2, x7, x8, x10>> /\ x4[t] # << >>
  BY DEF Stacks!BleStep, Stacks!Discovered, Stacks!Stop, Stacks!StopWait, Stacks!Ready
<1>3. x10.silent => h \notin Stacks!Critical
  <2>1. x10.silent => x4[t] \in Seq(Stacks!Harmless \cup Stacks!PowerSteps)
    BY <1>1, TodoIs DEF Hushed
  <2>2. x10.silent => h \in Stacks!Harmless \cup Stacks!PowerSteps
    BY <1>2, <2>1, TailOf
  <2> QED BY <2>2, StepSets
<1>4. /\ x5 \in Bles /\ x6 \in Hosts /\ (x6.air => x6.pc \in {"run", "sync", "check"})
      /\ (x6.pc # "none" => x5.handle) /\ (x10.silent => x2.quiet /\ x6.pc = "none")
      /\ x2.quiet \in BOOLEAN
  BY <1>1 DEF StackTyped, StackFacts, Modes
<1>5. /\ x5' \in Bles /\ x6' \in Hosts /\ (x6'.air => x6'.pc \in {"run", "sync", "check"})
      /\ (x6'.pc # "none" => x5'.handle) /\ (x10.silent => x6'.pc = "none")
  <2>1. CASE Stacks!BleStep(t)
    <3>1. CASE h = "create" /\ Stacks!BleStep(t)
      <4>1. /\ x6.pc = "none" /\ x6' = [x6 EXCEPT !.pc = "created", !.reset = "no"]
            /\ x5' = [x5 EXCEPT !.requested = TRUE, !.synced = FALSE, !.scanning = FALSE,
                                !.handle = TRUE]
        BY <3>1 DEF Stacks!BleStep, Stacks!Ready
      <4>2. ~x10.silent
        BY <1>3, <3>1 DEF Stacks!Critical
      <4> QED BY <1>4, <4>1, <4>2 DEF Bles, Hosts
    <3>2. CASE Stacks!Recheck(FALSE)
      <4>1. CASE x2.quiet
        <5>1. x6' = [x6 EXCEPT !.air = FALSE] /\ x5' = [x5 EXCEPT !.scanning = FALSE]
          BY <3>2, <4>1 DEF Stacks!Recheck
        <5> QED BY <1>4, <5>1 DEF Bles, Hosts
      <4>2. CASE ~x2.quiet
        <5>1. /\ x6' = x6 /\ x5.gatt \in BOOLEAN
              /\ x5' = [x5 EXCEPT !.resume = FALSE, !.gatt = @ /\ ~FALSE]
          BY <1>4, <3>2, <4>2 DEF Stacks!Recheck, Bles
        <5> QED BY <1>4, <5>1 DEF Bles
      <4> QED BY <4>1, <4>2
    <3>3. CASE x6' = x6 /\ \/ x5' = [x5 EXCEPT !.inflight = @ \cup {t}]
                           \/ x5' = [x5 EXCEPT !.inflight = @ \ {t}]
                           \/ x5' = [x5 EXCEPT !.enabled = FALSE]
                           \/ x5' = [x5 EXCEPT !.enabled = TRUE]
                           \/ \E works \in BOOLEAN : x5' = [x5 EXCEPT !.init = works]
      <4>1. x5 \in Bles /\ x5.inflight \in SUBSET Stacks!BothTasks
        BY <1>4 DEF Bles
      <4> SUFFICES x5' \in Bles /\ (x5'.handle <=> x5.handle)
        BY <1>4, <3>3
      <4>2. CASE x5' = [x5 EXCEPT !.inflight = @ \cup {t}]
        <5> DEFINE v == x5.inflight \cup {t}
        <5>1. v \in SUBSET Stacks!BothTasks
          BY <4>1
        <5> HIDE DEF v
        <5>2. x5' = [x5 EXCEPT !.inflight = v]
          BY <4>2 DEF v
        <5> QED BY <4>1, <5>1, <5>2 DEF Bles
      <4>3. CASE x5' = [x5 EXCEPT !.inflight = @ \ {t}]
        <5> DEFINE v == x5.inflight \ {t}
        <5>1. v \in SUBSET Stacks!BothTasks
          BY <4>1
        <5> HIDE DEF v
        <5>2. x5' = [x5 EXCEPT !.inflight = v]
          BY <4>3 DEF v
        <5> QED BY <4>1, <5>1, <5>2 DEF Bles
      <4>4. CASE x5' = [x5 EXCEPT !.enabled = FALSE]
        BY <4>1, <4>4 DEF Bles
      <4>5. CASE x5' = [x5 EXCEPT !.enabled = TRUE]
        BY <4>1, <4>5 DEF Bles
      <4>6. ASSUME NEW works \in BOOLEAN, x5' = [x5 EXCEPT !.init = works]
            PROVE  x5' \in Bles /\ (x5'.handle <=> x5.handle)
        BY <4>1, <4>6 DEF Bles
      <4> QED BY <3>3, <4>2, <4>3, <4>4, <4>5, <4>6
    <3> QED BY <2>1, <3>1, <3>2, <3>3 DEF Stacks!BleStep, Stacks!Ready
  <2>2. CASE Stacks!Discovered(t)
    <3>1. x6' = [x6 EXCEPT !.air = Stacks!Discovers] /\ x5' = [x5 EXCEPT !.scanning = Stacks!Discovers]
      BY <2>2 DEF Stacks!Discovered, Stacks!Discover
    <3>2. /\ Stacks!Discovers \in BOOLEAN
          /\ (Stacks!Discovers => x6.pc \in {"run", "sync", "check"})
      BY <1>4 DEF Stacks!Discovers, Stacks!HostRuns, Bles
    <3> QED BY <1>4, <3>1, <3>2 DEF Bles, Hosts
  <2>3. CASE Stacks!Stop(t) \/ Stacks!StopWait(t)
    <3>1. \/ UNCHANGED <<x5, x6>>
          \/ /\ x5' = [x5 EXCEPT !.requested = FALSE, !.gatt = FALSE, !.resume = FALSE,
                                 !.scanning = FALSE]
             /\ x6' = [x6 EXCEPT !.air = FALSE, !.stop = @ \/ Stacks!HostRuns]
          \/ x5' = x5 /\ x6' = [x6 EXCEPT !.stop = @ \/ Stacks!HostRuns]
      BY <2>3 DEF Stacks!Stop, Stacks!StopWait
    <3> DEFINE stop == x6.stop \/ Stacks!HostRuns
    <3>2. stop \in BOOLEAN
      BY DEF Stacks!HostRuns
    <3>3. \/ UNCHANGED <<x5, x6>>
          \/ /\ x5' = [x5 EXCEPT !.requested = FALSE, !.gatt = FALSE, !.resume = FALSE,
                                 !.scanning = FALSE]
             /\ x6' = [x6 EXCEPT !.air = FALSE, !.stop = stop]
          \/ x5' = x5 /\ x6' = [x6 EXCEPT !.stop = stop]
      BY <3>1
    <3> HIDE DEF stop
    <3>4. CASE /\ x5' = [x5 EXCEPT !.requested = FALSE, !.gatt = FALSE, !.resume = FALSE,
                                   !.scanning = FALSE]
               /\ x6' = [x6 EXCEPT !.air = FALSE, !.stop = stop]
      BY <1>4, <3>2, <3>4 DEF Bles, Hosts
    <3>5. CASE x5' = x5 /\ x6' = [x6 EXCEPT !.stop = stop]
      BY <1>4, <3>2, <3>5 DEF Hosts
    <3> QED BY <1>4, <3>3, <3>4, <3>5
  <2> QED BY <2>1, <2>2, <2>3
<1>6. StackFacts' /\ StackTyped'
  BY <1>1, <1>2, <1>5 DEF StackFacts, StackTyped
<1>7. StackTodo' /\ x4' \in [Stacks!BothTasks -> Seq(AnyStep)]
  <2>1. x10'.silent => x10.silent
    BY <1>2
  <2>2. x2'.quiet = x2.quiet
    BY <1>2
  <2>3. \A u \in x5.inflight : (u = t => h # "start_exit") => u \in x5'.inflight
    <3>1. \/ x5'.inflight = x5.inflight
          \/ h = "start_exit" /\ x5'.inflight = x5.inflight \ {t}
          \/ x5'.inflight = x5.inflight \cup {t}
      BY <1>4 DEF Stacks!BleStep, Stacks!Discovered, Stacks!Discover, Stacks!Stop,
         Stacks!StopWait, Stacks!Ready, Stacks!Recheck, Bles
    <3> HIDE DEF h
    <3> QED BY <3>1
  <2>4. \E p \in Leads :
           /\ x4' = [x4 EXCEPT ![t] = p \o Tail(@)]
           /\ \/ h \in {"start_exit", "ble_disabled", "ble_enabled", "ble_init", "stop"} /\ p = << >>
              \/ h = "stop_wait" /\ p = << >>
              \/ h = "start_enter" /\ p = << >> /\ t \in x5'.inflight
              \/ h \in {"create", "recheck", "discover"}
    <3>1. CASE Stacks!BleStep(t)
      <4>1. h = "start_enter" => t \in x5'.inflight
        BY <1>4, <3>1 DEF Stacks!BleStep, Stacks!Ready, Bles
      <4>2. /\ h \in {"start_exit", "ble_disabled", "ble_enabled", "ble_init", "start_enter",
                      "create", "recheck"}
            /\ x4' = [x4 EXCEPT ![t] = << >> \o Tail(@)]
        BY <3>1 DEF Stacks!BleStep, Stacks!Ready, Stacks!Then
      <4> HIDE DEF h
      <4> QED BY <4>1, <4>2 DEF Leads
    <3>2. CASE Stacks!Discovered(t)
      <4>1. \E p \in {<< >>, <<"recheck">>} : Stacks!Then(t, p)
        BY <3>2 DEF Stacks!Discovered
      <4> QED BY <3>2, <4>1 DEF Stacks!Discovered, Stacks!Ready, Stacks!Then, Leads
    <3>3. CASE Stacks!Stop(t) \/ Stacks!StopWait(t)
      BY <3>3 DEF Stacks!Stop, Stacks!StopWait, Stacks!Ready, Stacks!Then, Leads
    <3> QED BY <3>1, <3>2, <3>3
  <2>5. PICK p \in Leads :
           /\ x4' = [x4 EXCEPT ![t] = p \o Tail(@)]
           /\ \/ h \in {"start_exit", "ble_disabled", "ble_enabled", "ble_init", "stop"} /\ p = << >>
              \/ h = "stop_wait" /\ p = << >>
              \/ h = "start_enter" /\ p = << >> /\ t \in x5'.inflight
              \/ h \in {"create", "recheck", "discover"}
    BY <2>4
  <2> HIDE DEF h
  <2>6. p \in Seq(Unpowered \ {"restore"}) /\ Stacks!Clean(<< >>)
        /\ (p = << >> => p \in Seq(Stacks!Harmless))
    <3>1. p \in Seq(Unpowered \ {"restore"})
      BY LeadsTyped
    <3>2. Stacks!Clean(<< >>) /\ << >> \in Seq(Stacks!Harmless)
      BY FineNone, FineTyped
    <3> QED BY <3>1, <3>2
  <2>7. /\ h \notin Stacks!PowerSteps /\ h # "lock"
        /\ h \in {"create", "recheck", "discover"} => h \in Starts4 /\ h \in Stacks!Critical
        /\ h \in {"start_exit", "ble_disabled", "ble_enabled", "ble_init", "stop"} =>
              h \notin Starts4 \cup {"start_enter", "stop_wait"}
    BY <2>5 DEF Starts4, Stacks!Critical, Stacks!PowerSteps
  <2>8. \/ h \notin Starts4 \cup {"start_enter", "stop_wait"} /\ Stacks!Clean(p)
        \/ h = "stop_wait" /\ p = << >>
        \/ h = "start_enter" /\ p = << >> /\ t \in x5'.inflight
        \/ h \in Starts4 /\ p \in Leads
    BY <2>5, <2>6, <2>7
  <2>9. x10'.silent /\ h \notin Stacks!Critical => p \in Seq(Stacks!Harmless)
    BY <2>5, <2>6, <2>7
  <2> QED BY <1>1, <1>2, <2>1, <2>2, <2>3, <2>5, <2>6, <2>7, <2>8, <2>9, StackMoves DEF h
<1> QED BY <1>6, <1>7, StackThen

\* What leaves the pending steps as they are.
LEMMA StackStays ==
    ASSUME StackInv, UNCHANGED x4, x5'.inflight = x5.inflight, x2'.quiet = x2.quiet,
           x10'.silent = x10.silent, StackFacts', StackTyped'
    PROVE  StackInv'
<1>1. Stacks!TypeOK /\ StackTodo /\ x4 \in [Stacks!BothTasks -> Seq(AnyStep)]
  BY StackNow
<1>2. /\ \A u \in Stacks!BothTasks : MarkedBy(x4[u], u \in x5.inflight)
      /\ PendingOk(x4["cmd"], x2.quiet) /\ (x10.silent => Hushed)
  BY <1>1, TodoIs
<1>3. StackTodo'
  BY <1>2, TodoBy DEF Hushed
<1> QED BY <1>1, <1>3, StackThen

\* The host, the scan and an investigation run beside the tasks.
LEMMA StackRuns ==
    ASSUME StackInv, \/ Stacks!ScanStep \/ Stacks!HostStep \/ Stacks!HostReset
                     \/ Stacks!Investigate \/ Stacks!ProbeEnds
                     \/ (\E power \in {"quiet", "awake"} : Stacks!Wants(power))
                     \/ (\E firmware \in BOOLEAN : Stacks!StopTx(firmware))
    PROVE  StackInv'
<1>1. StackFacts /\ StackTyped
  BY StackNow
<1>2. /\ x2 \in Modes /\ x5 \in Bles /\ x6 \in Hosts /\ x7 \in Wifis /\ x8 \in Scans
      /\ x10 \in LinkStates
      /\ (x6.air => x6.pc \in {"run", "sync", "check"})
      /\ (x6.pc # "none" => x5.handle) /\ (x2.quiet => ~x2.tx)
      /\ (x10.silent => x2.quiet /\ x7.paused /\ x8 \notin {"go", "scan"} /\ x6.pc = "none")
  BY <1>1 DEF StackTyped, StackFacts
<1>3. CASE Stacks!ScanStep
  <2>1. UNCHANGED <<x2, x4, x5, x6, x7, x10>>
    BY <1>3 DEF Stacks!ScanStep
  <2>2. x8' \in Scans /\ (x10.silent => x8' \notin {"go", "scan"})
    BY <1>2, <1>3 DEF Stacks!ScanStep, Scans
  <2>3. StackFacts' /\ StackTyped'
    BY <1>1, <2>1, <2>2 DEF StackFacts, StackTyped
  <2> QED BY <2>1, <2>3, StackStays
<1>4. CASE \/ Stacks!HostStep \/ Stacks!HostReset \/ Stacks!Investigate \/ Stacks!ProbeEnds
  <2>1. UNCHANGED <<x2, x4, x7, x8, x10>>
    BY <1>4 DEF Stacks!HostStep, Stacks!HostReset, Stacks!Investigate, Stacks!ProbeEnds
  <2>2. x2.quiet \in BOOLEAN
    BY <1>2 DEF Modes
  <2>7. /\ x5' \in Bles /\ x5'.inflight = x5.inflight /\ x6' \in Hosts
        /\ (x6'.air => x6'.pc \in {"run", "sync", "check"})
        /\ (x6'.pc # "none" => x5'.handle) /\ (x10.silent => x6'.pc = "none")
    <3>3. CASE Stacks!HostStep
      <4>1. x6.pc # "none" /\ ~x10.silent
        BY <1>2, <3>3 DEF Stacks!HostStep
      <4>2. CASE /\ x6' = [x6 EXCEPT !.pc = "run"]
                 /\ x5' = [x5 EXCEPT !.requested = FALSE, !.active = TRUE]
                 /\ x6.pc = "created"
        BY <1>2, <4>1, <4>2 DEF Bles, Hosts
      <4>3. CASE /\ x6' = [x6 EXCEPT !.pc = "sync"] /\ x5' = [x5 EXCEPT !.synced = TRUE]
        BY <1>2, <4>1, <4>3 DEF Bles, Hosts
      <4>4. CASE /\ x6' = [x6 EXCEPT !.pc = "run"]
                 /\ x5' = [x5 EXCEPT !.scanning = @ /\ ~x2.quiet]
        BY <1>2, <2>2, <4>1, <4>4 DEF Bles, Hosts
      <4>5. CASE /\ x6' = [x6 EXCEPT !.pc = "check", !.air = TRUE]
                 /\ x5' = [x5 EXCEPT !.scanning = TRUE]
        BY <1>2, <4>1, <4>5 DEF Bles, Hosts
      <4>6. CASE /\ x6' = [x6 EXCEPT !.pc = "run", !.air = @ /\ ~x2.quiet]
                 /\ \/ x5' = [x5 EXCEPT !.scanning = FALSE]
                    \/ x5' = [x5 EXCEPT !.resume = FALSE]
        BY <1>2, <2>2, <4>1, <4>6, ZenonT(60) DEF Bles, Hosts
      <4>7. CASE /\ x6' = [x6 EXCEPT !.pc = "ended", !.stop = FALSE, !.air = FALSE] /\ x5' = x5
        BY <1>2, <4>1, <4>7, ZenonT(60) DEF Bles, Hosts
      <4>8. CASE /\ x6' = [x6 EXCEPT !.pc = "none"] /\ x6.pc = "ended"
                 /\ x5' = [x5 EXCEPT !.active = FALSE, !.requested = FALSE, !.synced = FALSE,
                                     !.scanning = FALSE, !.handle = FALSE]
        BY <1>2, <4>1, <4>8 DEF Bles, Hosts
      <4> QED BY <3>3, <4>2, <4>3, <4>4, <4>5, <4>6, <4>7, <4>8 DEF Stacks!HostStep
    <3>4. CASE Stacks!HostReset
      <4>1. PICK reset \in {"yes", "deaf"} : x6' = [x6 EXCEPT !.air = FALSE, !.reset = reset]
        BY <3>4 DEF Stacks!HostReset
      <4>2. x5' = [x5 EXCEPT !.synced = FALSE, !.scanning = FALSE]
        BY <3>4 DEF Stacks!HostReset
      <4> QED BY <1>2, <4>1, <4>2 DEF Bles, Hosts
    <3>5. CASE Stacks!Investigate
      BY <1>2, <3>5 DEF Stacks!Investigate, Bles, Hosts
    <3>6. CASE Stacks!ProbeEnds
      <4>1. CASE x6' = x6 /\ \/ x5' = [x5 EXCEPT !.gatt = FALSE, !.resume = FALSE]
                             \/ x5' = [x5 EXCEPT !.resume = TRUE]
                             \/ x5' = [x5 EXCEPT !.scanning = FALSE]
                             \/ x5' = x5
        BY <1>2, <4>1, ZenonT(60) DEF Bles
      <4>2. CASE Stacks!Discover
        <5>1. /\ x6' = [x6 EXCEPT !.air = Stacks!Discovers]
              /\ x5' = [x5 EXCEPT !.scanning = Stacks!Discovers]
          BY <4>2 DEF Stacks!Discover
        <5>2. /\ Stacks!Discovers \in BOOLEAN
              /\ (Stacks!Discovers => x6.pc \in {"run", "sync", "check"})
          BY <1>2 DEF Stacks!Discovers, Stacks!HostRuns, Bles
        <5> QED BY <1>2, <5>1, <5>2 DEF Bles, Hosts
      <4>3. CASE Stacks!Recheck(TRUE)
        <5>1. CASE x2.quiet
          <6>1. x6' = [x6 EXCEPT !.air = FALSE] /\ x5' = [x5 EXCEPT !.scanning = FALSE]
            BY <4>3, <5>1 DEF Stacks!Recheck
          <6> QED BY <1>2, <6>1 DEF Bles, Hosts
        <5>2. CASE ~x2.quiet
          <6>1. /\ x6' = x6 /\ x5.gatt \in BOOLEAN
                /\ x5' = [x5 EXCEPT !.resume = FALSE, !.gatt = @ /\ ~TRUE]
            BY <1>2, <4>3, <5>2 DEF Stacks!Recheck, Bles
          <6> QED BY <1>2, <6>1 DEF Bles
        <5> QED BY <5>1, <5>2
      <4> QED BY <3>6, <4>1, <4>2, <4>3 DEF Stacks!ProbeEnds
    <3> QED BY <1>4, <3>3, <3>4, <3>5, <3>6
  <2>8. StackFacts' /\ StackTyped'
    BY <1>1, <2>1, <2>7 DEF StackFacts, StackTyped
  <2> QED BY <2>1, <2>7, <2>8, StackStays
<1>5. CASE \/ (\E power \in {"quiet", "awake"} : Stacks!Wants(power))
           \/ (\E firmware \in BOOLEAN : Stacks!StopTx(firmware))
  <2>1. UNCHANGED <<x4, x5, x6, x7, x8>>
    BY <1>5 DEF Stacks!Wants, Stacks!StopTx
  <2>2. /\ x2' \in Modes /\ x2'.quiet = x2.quiet /\ (x2'.quiet => ~x2'.tx)
        /\ x10' \in LinkStates /\ x10'.silent = x10.silent
    <3>1. CASE \E power \in {"quiet", "awake"} : Stacks!Wants(power)
      BY <1>2, <3>1 DEF Stacks!Wants, LinkStates
    <3>2. CASE \E firmware \in BOOLEAN : Stacks!StopTx(firmware)
      BY <1>2, <3>2, ZenonT(60) DEF Stacks!StopTx, Modes
    <3> QED BY <1>5, <3>1, <3>2
  <2>3. StackFacts' /\ StackTyped'
    BY <1>1, <2>1, <2>2 DEF StackFacts, StackTyped
  <2> QED BY <2>1, <2>2, <2>3, StackStays
<1> QED BY <1>3, <1>4, <1>5

LEMMA FineAny ==
    ASSUME NEW p, Fine(p), NEW quiet
    PROVE  PendingOk(p, quiet)
BY FineTyped DEF PendingOk

\* The commands the listener takes without a lock of its own.
LEMMA StackTakes ==
    ASSUME StackInv, \/ Stacks!SlotRole \/ Stacks!StartTx \/ Stacks!Calibrate
                     \/ Stacks!CalibrationEnds \/ Stacks!OtaBegin \/ Stacks!FirmwareEnds
    PROVE  StackInv'
<1>1. Stacks!TypeOK /\ StackTodo /\ StackFacts /\ StackTyped
  BY StackNow
<1>2. UNCHANGED <<x5, x6, x7, x8, x10>>
  BY DEF Stacks!SlotRole, Stacks!StartTx, Stacks!Calibrate, Stacks!CalibrationEnds,
         Stacks!OtaBegin, Stacks!FirmwareEnds
<1>3. \E p : Fine(p) /\ x4' = [x4 EXCEPT !["cmd"] = p]
  <2>1. /\ "late" \in Ordinary /\ "ble_on" \in Ordinary /\ "unlock" \in Ordinary
        /\ "apply_now" \in Ordinary
    BY DEF Ordinary, Quietly, Stacks!Harmless
  <2>2. /\ Fine(<<"late">>) /\ Fine(<<"ble_on", "unlock">>) /\ Fine(<<"apply_now", "unlock">>)
        /\ Fine(Stacks!Apply) /\ Fine(Stacks!NoteReady) /\ Fine(Stacks!WifiPause)
    BY <2>1, FineOne, FineTwo, FineCalls
  <2>3. Fine(Stacks!Apply \o Stacks!NoteReady) /\ Fine(Stacks!WifiPause \o <<"ble_on", "unlock">>)
    BY <2>2, FineConcat
  <2>4. CASE Stacks!SlotRole
    <3>1. \E p \in {<<"late">>, Stacks!Apply} : x4' = [x4 EXCEPT !["cmd"] = p]
      BY <2>4 DEF Stacks!SlotRole
    <3> QED BY <2>2, <3>1
  <2>5. CASE Stacks!StartTx
    BY <2>3, <2>5 DEF Stacks!StartTx
  <2>6. CASE Stacks!Calibrate
    BY <2>3, <2>6 DEF Stacks!Calibrate
  <2>7. CASE Stacks!CalibrationEnds
    BY <2>2, <2>7 DEF Stacks!CalibrationEnds
  <2>8. CASE Stacks!OtaBegin
    <3> DEFINE h == IF x2.ota THEN Stacks!Apply ELSE << >>
    <3>1. Fine(h)
      BY <2>2, FineNone
    <3>2. x4' = [x4 EXCEPT !["cmd"] = h \o Stacks!WifiPause \o Stacks!BleStop]
      BY <2>8 DEF Stacks!OtaBegin
    <3> HIDE DEF h
    <3>3. Fine((h \o Stacks!WifiPause) \o Stacks!BleStop)
      BY <2>2, <3>1, FineCalls, FineConcat
    <3> QED BY <3>2, <3>3
  <2>9. CASE Stacks!FirmwareEnds
    <3>1. \E p \in {<< >>, Stacks!Apply} : x4' = [x4 EXCEPT !["cmd"] = p]
      BY <2>9 DEF Stacks!FirmwareEnds
    <3> QED BY <2>2, <3>1, FineNone
  <2> QED BY <2>4, <2>5, <2>6, <2>7, <2>8, <2>9
<1>4. PICK p : Fine(p) /\ x4' = [x4 EXCEPT !["cmd"] = p]
  BY <1>3
<1>5. /\ x2' \in Modes /\ x2'.quiet = x2.quiet /\ (x2'.quiet => ~x2'.tx)
  <2>1. x2 \in Modes /\ (x2.quiet => ~x2.tx)
    BY <1>1 DEF StackTyped, StackFacts
  <2>2. CASE Stacks!SlotRole
    <3> DEFINE late == Stacks!LateRecovery
           v == x2.late /\ ~late
           w == x2.runtime /\ ~late
    <3>2. v \in BOOLEAN /\ w \in BOOLEAN
      OBVIOUS
    <3>3. x2' = [x2 EXCEPT !.role = TRUE, !.late = v, !.runtime = w]
      BY <2>2 DEF Stacks!SlotRole
    <3> HIDE DEF v, w
    <3> QED BY <2>1, <3>2, <3>3 DEF Modes
  <2>3. CASE Stacks!StartTx
    BY <2>1, <2>3 DEF Stacks!StartTx, Modes
  <2>4. CASE Stacks!Calibrate
    BY <2>1, <2>4 DEF Stacks!Calibrate, Modes
  <2>5. CASE Stacks!CalibrationEnds
    BY <2>1, <2>5 DEF Stacks!CalibrationEnds, Modes
  <2>6. CASE Stacks!OtaBegin
    BY <2>1, <2>6 DEF Stacks!OtaBegin, Modes
  <2>7. CASE Stacks!FirmwareEnds
    BY <2>1, <2>7 DEF Stacks!FirmwareEnds, Modes
  <2> QED BY <2>2, <2>3, <2>4, <2>5, <2>6, <2>7
<1>6. StackTodo' /\ x4' \in [Stacks!BothTasks -> Seq(AnyStep)]
  <2>1. Stacks!Clean(p) /\ p \in Seq(AnyStep) /\ p \in Seq(Stacks!Harmless \cup Stacks!PowerSteps)
    BY <1>4, FineTyped
  <2>2. PendingOk(p, x2'.quiet)
    BY <1>4, FineAny
  <2> QED BY <1>1, <1>2, <1>4, <2>1, <2>2, StackTaken
<1>7. StackFacts' /\ StackTyped'
  BY <1>1, <1>2, <1>5 DEF StackFacts, StackTyped
<1> QED BY <1>6, <1>7, StackThen

LEMMA QuietlyPairs ==
    ASSUME NEW c \in {"quiet", "wake"}
    PROVE  /\ Stacks!Clean(<<"lock", c>>) /\ <<"lock", c>> \in PowerShapes
           /\ <<"lock", c>> \in Seq(AnyStep)
           /\ <<"lock", c>> \in Seq(Stacks!Harmless \cup Stacks!PowerSteps)
<1> DEFINE q == <<"lock", c>>
           H == Stacks!Harmless \cup Stacks!PowerSteps
<1>1. "lock" \in H /\ c \in H /\ H \subseteq AnyStep
  BY StepSets DEF Stacks!Harmless, Stacks!PowerSteps
<1>2. "lock" \notin Stacks!Critical /\ c \notin Stacks!Critical
  BY DEF Stacks!Critical
<1> HIDE DEF H
<1>3. q \in Seq(H) /\ DOMAIN q = 1..2 /\ q[1] = "lock" /\ q[2] = c
  BY <1>1
<1>4. q \in PowerShapes
  BY DEF PowerShapes
<1> HIDE DEF q
<1>5. \A i \in 1..2 : i = 1 \/ i = 2
  OBVIOUS
<1>6. Stacks!Clean(q)
  BY <1>2, <1>3, <1>5 DEF Stacks!Clean
<1>7. q \in Seq(AnyStep)
  BY <1>1, <1>3, SeqMono
<1> QED BY <1>3, <1>4, <1>6, <1>7 DEF q, H

\* The uplink's power request is taken when the listener is idle.
LEMMA StackRequest ==
    ASSUME StackInv, Stacks!PowerRequest
    PROVE  StackInv'
<1>1. Stacks!TypeOK /\ StackTodo /\ StackFacts /\ StackTyped
  BY StackNow
<1>2. UNCHANGED <<x2, x5, x6, x7, x8, x10>>
  BY DEF Stacks!PowerRequest
<1>3. PICK c \in {"quiet", "wake"} : x4' = [x4 EXCEPT !["cmd"] = <<"lock", c>>]
  BY DEF Stacks!PowerRequest
<1> DEFINE p == <<"lock", c>>
<1>4. /\ Stacks!Clean(p) /\ p \in PowerShapes /\ p \in Seq(AnyStep)
      /\ p \in Seq(Stacks!Harmless \cup Stacks!PowerSteps)
  BY QuietlyPairs
<1>5. x4' = [x4 EXCEPT !["cmd"] = p]
  BY <1>3
<1> HIDE DEF p
<1>6. PendingOk(p, x2'.quiet)
  BY <1>4 DEF PendingOk
<1>7. x5'.inflight = x5.inflight /\ (x10'.silent => x10.silent)
  BY <1>2
<1>8. StackTodo' /\ x4' \in [Stacks!BothTasks -> Seq(AnyStep)]
  BY <1>1, <1>4, <1>5, <1>6, <1>7, StackTaken
<1>9. StackFacts' /\ StackTyped'
  BY <1>1, <1>2 DEF StackFacts, StackTyped
<1> QED BY <1>8, <1>9, StackThen

\* A power command's step is the last that is pending.
LEMMA PowerLast ==
    ASSUME StackInv, x4["cmd"] # << >>, Head(x4["cmd"]) \in Stacks!PowerSteps, NEW p,
           x4' = [x4 EXCEPT !["cmd"] = p \o Tail(@)], NEW S, p \in Seq(S)
    PROVE  x4' = [x4 EXCEPT !["cmd"] = p]
<1>1. Stacks!TypeOK /\ StackTodo
  BY StackNow
<1>2. PendingOk(x4["cmd"], x2.quiet)
  BY <1>1, TodoIs
<1>3. x4["cmd"] \in PowerShapes
  <2>1. x4["cmd"] \in Seq(Unpowered) => Head(x4["cmd"]) \in Unpowered
    BY TailOf
  <2>2. Unpowered \cap Stacks!PowerSteps = {}
    BY DEF Unpowered, Stacks!Harmless, Stacks!Critical, Stacks!PowerSteps
  <2> QED BY <1>2, <2>1, <2>2 DEF PendingOk
<1>4. Tail(x4["cmd"]) = << >>
  BY <1>3, ShapeOf
<1>5. p \o << >> = p
  BY ConcatEmptySeq
<1> QED BY <1>4, <1>5

\* Quiet is published before anything is switched off.
LEMMA StackQuiet ==
    ASSUME StackInv, Stacks!Quiet
    PROVE  StackInv'
<1>1. Stacks!TypeOK /\ StackTodo /\ StackFacts /\ StackTyped
  BY StackNow
<1>2. UNCHANGED <<x5, x6, x7, x8, x10>>
  BY DEF Stacks!Quiet
<1> DEFINE e == <<"result", "unlock", "calm", "ack">>
           p == Stacks!QuietRadios \o e
<1>3. Fine(p)
  <2>1. "result" \in Ordinary /\ "unlock" \in Ordinary /\ "calm" \in Ordinary /\ "ack" \in Ordinary
    BY DEF Ordinary, Quietly, Stacks!Harmless
  <2>2. Fine(e)
    BY <2>1, FineFour
  <2> HIDE DEF e
  <2> QED BY <2>2, FineCalls, FineConcat
<1>4. /\ x4["cmd"] # << >> /\ Head(x4["cmd"]) = "quiet"
      /\ x4' = [x4 EXCEPT !["cmd"] = p \o Tail(@)]
  BY DEF Stacks!Quiet, Stacks!Ready, Stacks!Then
<1> HIDE DEF p
<1>5. /\ Stacks!Clean(p) /\ p \in Seq(AnyStep)
      /\ p \in Seq(Stacks!Harmless \cup Stacks!PowerSteps)
  BY <1>3, FineTyped
<1>6. PendingOk(p, x2'.quiet)
  BY <1>3, FineAny
<1>7. x4' = [x4 EXCEPT !["cmd"] = p]
  <2>1. Head(x4["cmd"]) \in Stacks!PowerSteps
    BY <1>4 DEF Stacks!PowerSteps
  <2> QED BY <1>4, <1>5, <2>1, PowerLast
<1>8. x5'.inflight = x5.inflight /\ (x10'.silent => x10.silent)
  BY <1>2
<1>9. StackTodo' /\ x4' \in [Stacks!BothTasks -> Seq(AnyStep)]
  BY <1>1, <1>5, <1>6, <1>7, <1>8, StackTaken
<1>10. x2' \in Modes /\ x2'.quiet /\ ~x2'.tx
  <2> DEFINE a == x2.active /\ x2.quiet
             r == IF x2.quiet THEN x2.restore ELSE x2.tx
  <2>1. x2 \in Modes
    BY <1>1 DEF StackTyped
  <2>2. a \in BOOLEAN /\ r \in BOOLEAN
    BY <2>1 DEF Modes
  <2>3. x2' = [x2 EXCEPT !.quiet = TRUE, !.active = a, !.restore = r, !.tx = FALSE]
    BY DEF Stacks!Quiet
  <2> HIDE DEF a, r
  <2> QED BY <2>1, <2>2, <2>3, ZenonT(60) DEF Modes
<1>11. StackFacts' /\ StackTyped'
  BY <1>1, <1>2, <1>10 DEF StackFacts, StackTyped
<1> QED BY <1>9, <1>11, StackThen

\* A wake command ends the silence, and only then what was sent before is
\* restored.
LEMMA StackWake ==
    ASSUME StackInv, Stacks!Wake
    PROVE  StackInv'
<1>1. Stacks!TypeOK /\ StackTodo /\ StackFacts /\ StackTyped
  BY StackNow
<1>2. UNCHANGED <<x5, x6, x7, x8>>
  BY DEF Stacks!Wake
<1> DEFINE e == <<"restore", "result", "unlock", "ack">>
           a == IF x2.runtime THEN <<"apply">> ELSE << >>
           p == a \o e
<1>3. p \in Seq(Stacks!Harmless) /\ Stacks!Clean(p)
  <2>1. e \in Seq(Stacks!Harmless) /\ Stacks!Clean(e)
    <3>1. /\ e \in Seq(Stacks!Harmless) /\ DOMAIN e = 1..4
          /\ e[1] = "restore" /\ e[2] = "result" /\ e[3] = "unlock" /\ e[4] = "ack"
      <4>1. {"restore", "result", "unlock", "ack"} \subseteq Stacks!Harmless
        BY DEF Stacks!Harmless
      <4> QED BY <4>1
    <3> HIDE DEF e
    <3>2. \A i \in 1..4 : i = 1 \/ i = 2 \/ i = 3 \/ i = 4
      OBVIOUS
    <3> QED BY <3>1, <3>2 DEF Stacks!Clean, Stacks!Critical
  <2>2. a \in Seq(Stacks!Harmless) /\ Stacks!Clean(a)
    <3>1. "apply" \in Ordinary
      BY DEF Ordinary, Quietly, Stacks!Harmless
    <3>2. Fine(<<"apply">>) /\ Fine(<< >>)
      BY <3>1, FineOne, FineNone
    <3> QED BY <3>2, FineTyped
  <2> HIDE DEF a, e
  <2> QED BY <2>1, <2>2, CleanConcat
<1>4. /\ x4["cmd"] # << >> /\ Head(x4["cmd"]) = "wake"
      /\ x4' = [x4 EXCEPT !["cmd"] = p \o Tail(@)]
      /\ x2' = [x2 EXCEPT !.quiet = FALSE] /\ x10' = [x10 EXCEPT !.silent = FALSE]
  BY DEF Stacks!Wake, Stacks!Ready, Stacks!Then
<1> HIDE DEF p
<1>5. /\ p \in Seq(AnyStep) /\ p \in Seq(Unpowered)
  BY <1>3, StepSets, SeqMono DEF Unpowered
<1>6. /\ x2' \in Modes /\ ~x2'.quiet /\ x10' \in LinkStates /\ ~x10'.silent
  BY <1>1, <1>4 DEF StackTyped, Modes, LinkStates
<1>7. PendingOk(p, x2'.quiet)
  BY <1>5, <1>6 DEF PendingOk
<1>8. x4' = [x4 EXCEPT !["cmd"] = p]
  <2>1. Head(x4["cmd"]) \in Stacks!PowerSteps
    BY <1>4 DEF Stacks!PowerSteps
  <2> QED BY <1>4, <1>5, <2>1, PowerLast
<1>9. x5'.inflight = x5.inflight
  BY <1>2
<1>10. StackTodo' /\ x4' \in [Stacks!BothTasks -> Seq(AnyStep)]
  BY <1>1, <1>3, <1>5, <1>6, <1>7, <1>8, <1>9, StackTaken
<1>11. StackFacts' /\ StackTyped'
  BY <1>1, <1>2, <1>6 DEF StackFacts, StackTyped
<1> QED BY <1>10, <1>11, StackThen

LEMMA StackNext == StackInv /\ [Stacks!Next]_(Stacks!vars) => StackInv'
<1> SUFFICES ASSUME StackInv, [Stacks!Next]_(Stacks!vars) PROVE StackInv'
  OBVIOUS
<1>1. ASSUME NEW t \in Stacks!BothTasks, Stacks!TaskStep(t) PROVE StackInv'
  BY <1>1, StackNotes, StackStarts, StackWifi, StackBle DEF Stacks!TaskStep
<1>2. "main" \in Stacks!BothTasks /\ "cmd" \in Stacks!BothTasks
  BY DEF Stacks!BothTasks
<1>3. CASE Stacks!Main
  <2>1. CASE Stacks!AwaitRole
    BY <1>2, <2>1, StackNotes
  <2> QED BY <1>1, <1>2, <1>3, <2>1 DEF Stacks!Main
<1>4. CASE Stacks!Cmd
  <2>1. CASE Stacks!LateRadio \/ Stacks!ApplyNow \/ Stacks!Calm \/ Stacks!Result \/ Stacks!RestoreTx
    BY <1>2, <2>1, StackNotes
  <2>2. CASE Stacks!Quiet
    BY <2>2, StackQuiet
  <2>3. CASE Stacks!Wake
    BY <2>3, StackWake
  <2>4. CASE Stacks!Ack
    BY <2>4, StackAck
  <2> QED BY <1>1, <1>2, <1>4, <2>1, <2>2, <2>3, <2>4 DEF Stacks!Cmd
<1>5. CASE UNCHANGED Stacks!vars
  <2>1. UNCHANGED <<x2, x4, x5, x6, x7, x8, x10>>
    BY <1>5 DEF Stacks!vars
  <2>2. StackFacts /\ StackTyped
    BY StackNow
  <2>3. StackFacts' /\ StackTyped'
    BY <2>1, <2>2 DEF StackFacts, StackTyped
  <2> QED BY <2>1, <2>3, StackStays
<1> QED BY <1>3, <1>4, <1>5, StackRuns, StackTakes, StackRequest DEF Stacks!Next

LEMMA StackSilent == StackInv => Stacks!QuietIsSilent
<1> SUFFICES ASSUME StackInv PROVE Stacks!QuietIsSilent
  OBVIOUS
<1>1. StackFacts
  BY StackNow
<1> QED BY <1>1 DEF StackFacts, Stacks!QuietIsSilent, Stacks!Silent

-----------------------------------------------------------------------------
(* The parts in turn: a behaviour is one part's, and what that part keeps   *)
(* it keeps.                                                                *)
PartInv ==
    /\ part = "boot" => BootInv
    /\ part = "radio" => RP!RadioInv
    /\ part = "stacks" => StackInv
    /\ part = "power" => PowerInv
    /\ part = "calibration" => CalInv
    /\ part = "handshake" => HandInv

LEMMA BootForced == BootInv => Boot!ForcedStays
BY DEF BootInv, Boot!ForcedInv

LEMMA HandReady == HandInv => Handshake!ReadyIsFiltered
BY DEF HandInv, Handshake!FilteredInv, Handshake!ReadyIsFiltered

LEMMA PartInitial == PartInit => PartInv
<1> SUFFICES ASSUME PartInit PROVE PartInv
  OBVIOUS
<1>1. CASE part = "operation"
  BY <1>1 DEF PartInv
<1>2. CASE part = "radio" /\ Radio!Init
  BY <1>2, RadioInitial DEF PartInv
<1>3. CASE part = "boot" /\ Boot!Init
  BY <1>3, BootInitial DEF PartInv
<1>4. CASE part = "stacks" /\ Stacks!Init
  BY <1>4, StackInitial DEF PartInv
<1>5. CASE part = "power" /\ Power!Init
  BY <1>5, PowerInitial DEF PartInv
<1>6. CASE part = "calibration" /\ Calibrating!Init
  BY <1>6, CalInitial DEF PartInv
<1>7. CASE part = "handshake" /\ Handshake!Init
  BY <1>7, HandInitial DEF PartInv
<1>8. CASE part \in {"message", "ingress"}
  BY <1>8 DEF PartInv
<1> QED BY <1>1, <1>2, <1>3, <1>4, <1>5, <1>6, <1>7, <1>8 DEF PartInit

\* A step of the whole is one of the part whose behaviour it is.
LEMMA PartStep ==
    ASSUME [Step]_all
    PROVE  /\ part' = part
           /\ part = "boot" => [Boot!Next]_(Boot!vars)
           /\ part = "radio" => [Radio!Next]_(Radio!radioVars)
           /\ part = "stacks" => [Stacks!Next]_(Stacks!vars)
           /\ part = "power" => [Power!Next]_(Power!vars)
           /\ part = "calibration" => [Calibrating!Next]_(Calibrating!vars)
           /\ part = "handshake" => [Handshake!Next]_(Handshake!vars)
<1>1. CASE UNCHANGED all
  BY <1>1 DEF all, Boot!vars, Radio!radioVars, Stacks!vars, Power!vars, Calibrating!vars,
              Handshake!vars
<1>2. CASE Step
  BY <1>2 DEF Step, OperationStep, RadioStep, BootStep, StacksStep, PowerStep, CalibrationStep,
              HandshakeStep, MessageStep, IngressStep
<1> QED BY <1>1, <1>2

LEMMA PartNext == PartInv /\ [Step]_all => PartInv'
<1> SUFFICES ASSUME PartInv, [Step]_all PROVE PartInv'
  OBVIOUS
<1>1. part' = part
  BY PartStep
<1>2. part = "boot" => BootInv'
  BY PartStep, BootNext DEF PartInv
<1>3. part = "radio" => RP!RadioInv'
  BY PartStep, RadioNext DEF PartInv
<1>4. part = "stacks" => StackInv'
  BY PartStep, StackNext DEF PartInv
<1>5. part = "power" => PowerInv'
  BY PartStep, PowerNext DEF PartInv
<1>6. part = "calibration" => CalInv'
  BY PartStep, CalNext DEF PartInv
<1>7. part = "handshake" => HandInv'
  BY PartStep, HandNext DEF PartInv
<1> QED BY <1>1, <1>2, <1>3, <1>4, <1>5, <1>6, <1>7 DEF PartInv

\* What is acknowledged is so, for every number of scanners, lines, faults and
\* commands: safe mode that was asked for stays, a quiet game radio and a quiet
\* scanner are silent, the proof of a power mode is current, and a badge that
\* may advertise is filtered (scanner_rollback.c, badge_con_vhci_policy.c,
\* calibration_mode.c, badge_power_state.c, badge_con_runtime.c).
THEOREM AcknowledgedHolds == PartSpec => []AcknowledgedIsSo
<1>1. PartInv => AcknowledgedIsSo
  BY BootForced, RadioSilent, StackSilent, PowerCurrent, HandReady
     DEF PartInv, AcknowledgedIsSo
<1> QED BY <1>1, PartInitial, PartNext, PTL DEF PartSpec

Agreed == /\ part = "radio" => Radio!NoNewStart
          /\ part = "calibration" => Calibrating!AnsweredTruly

\* No advertising is started under an inhibit, and a calibration is answered
\* "started" only with its scanners armed (badge_con_vhci_policy.c,
\* http_status.c).
THEOREM NothingBehindHolds == PartSpec => NothingBehindTheBack
<1>1. PartInv /\ [Step]_all => Agreed
  BY PartStep, RadioNext, CalTruly DEF PartInv, Agreed
<1> QED BY <1>1, PartInitial, PartNext, PTL DEF PartSpec, NothingBehindTheBack, Agreed

\* The part of a scanner that is reset and updated at any time: safe mode an
\* operator asked for outlasts every reset, update and earlier clear
\* (scanner_rollback.c).
THEOREM ForcedHolds == Boot!Spec => []Boot!ForcedStays
BY BootInitial, BootNext, BootForced, PTL DEF Boot!Spec

\* From the acknowledgement of a quiet request to the next wake command nothing
\* is on the air, however the tasks that start radios are interleaved with it
\* (calibration_mode.c, ble_remote_id.c, wifi_scanner.c).
THEOREM QuietHolds == Stacks!Spec => []Stacks!QuietIsSilent
BY StackInitial, StackNext, StackSilent, PTL DEF Stacks!Spec

\* A scanner the badge takes for converged is in the wanted power mode, unless
\* the identity of a restart of it is on its way (badge_power_state.c).
THEOREM ProofHolds == Power!Spec => []Power!ProofIsCurrent
BY PowerInitial, PowerNext, PowerCurrent, PTL DEF Power!Spec

\* A badge that may advertise is filtered by its scanner, or that scanner has
\* reset and not yet said so (badge_con_runtime.c).
THEOREM FilteredHolds == Handshake!Spec => []Handshake!ReadyIsFiltered
BY HandInitial, HandNext, HandReady, PTL DEF Handshake!Spec

-----------------------------------------------------------------------------
(* The operation token (FirmwareOperation, the module that is extended),    *)
(* for any number of tasks and owners and for every bound.                  *)

\* What makes OneOwner inductive: a copy that is not in use is a copy of an
\* earlier generation, and the token's lease flag says how far its owner got.
CopiesAreOld ==
    \A t \in Tasks :
       /\ tok[t].generation <= op.generation
       /\ ~Owning(t) => ~TokenMatches(op, tok[t])

LeaseFlag ==
    \A t \in Tasks :
       /\ pc[t] \in {"claimed", "leased"} => tok[t].owner \in LeasedOwners
       /\ pc[t] \in {"preparing", "released"} => tok[t].owner \in PreparedOwners
       /\ Owning(t) => (op.lease <=> /\ pc[t] = "running"
                                     /\ tok[t].owner \in LeasedOwners)

\* A line is written by a task that is idle or inside its operation.
LinePlace == \A t \in Tasks : line[t] => pc[t] \in {"idle", "running"}

OperationInv ==
    /\ TypeOK /\ OneOwner /\ LeaseBalanced /\ RestartInterruptsNothing
    /\ CopiesAreOld /\ LeaseFlag /\ LinePlace

USE OwnersAssumption, GenMaxAssumption, EpochAssumption, TasksAssumption,
    StylesAssumption

-----------------------------------------------------------------------------
(* The token's operators keep it a token record.                           *)

LEMMA NextEpochType ==
    ASSUME NEW s \in OperationState, Room(s)
    PROVE  NextEpoch(s.epoch) \in 0..EpochLast
BY DEF Room, NextEpoch, OperationState

LEMMA BeginType ==
    ASSUME NEW s \in OperationState, NEW o \in Owners, Room(s), CanBegin(s)
    PROVE  Begin(s, o) \in OperationState /\ IssuedToken(s, o) \in Token
<1>1. s.generation + 1 \in 0..GenMax
  BY DEF CanBegin, OperationState
<1>. QED BY <1>1, NextEpochType DEF Begin, IssuedToken, OperationState, Token

LEMMA EndType ==
    ASSUME NEW s \in OperationState, Room(s)
    PROVE  End(s) \in OperationState
BY NextEpochType DEF End, OperationState

\* A reconciliation changes the inhibit and the epoch, and lets no radio
\* permit through while an operation is active.
LEMMA ReconcileKeeps ==
    ASSUME NEW s \in OperationState, Room(s),
           NEW r \in {ClearInhibit(s), RequestInhibit(s)}
    PROVE  /\ r \in OperationState
           /\ r.active = s.active /\ r.owner = s.owner
           /\ r.generation = s.generation /\ r.lease = s.lease
           /\ r.reserved = s.reserved /\ r.preempt = s.preempt
<1>1. CASE r = ClearInhibit(s)
  BY <1>1, NextEpochType DEF ClearInhibit, OperationState
<1>2. CASE r = RequestInhibit(s)
  BY <1>2, NextEpochType DEF RequestInhibit, OperationState
<1>. QED BY <1>1, <1>2

LEMMA PreemptionKeeps ==
    ASSUME NEW s \in OperationState, Room(s)
    PROVE  LET r == RequestPreemption(s) IN
           /\ r \in OperationState
           /\ r.active = s.active /\ r.owner = s.owner
           /\ r.generation = s.generation /\ r.lease = s.lease
           /\ r.reserved = s.reserved
BY NextEpochType DEF RequestPreemption, OperationState

LEMMA ReserveKeeps ==
    ASSUME NEW s \in OperationState, Room(s)
    PROVE  LET r == ReserveRestart(s) IN
           /\ r \in OperationState
           /\ r.active = s.active /\ r.owner = s.owner
           /\ r.generation = s.generation /\ r.lease = s.lease
BY NextEpochType DEF ReserveRestart, OperationState

-----------------------------------------------------------------------------
(* One lemma per action: it preserves the inductive invariant.             *)

LEMMA BeginOperationStep ==
    ASSUME OperationInv, NEW t \in Tasks, NEW o \in Owners, BeginOperation(t, o)
    PROVE  OperationInv'
<1>. USE DEF BeginOperation, Goto, Begin, CanBegin, IssuedToken,
         OperationInv, TypeOK, OneOwner, LeaseFlag, Owning, Streaming, TokenMatches
<1>0. op' \in OperationState /\ tok' \in [Tasks -> Token]
  BY BeginType
<1>1. TypeOK'
  BY <1>0 DEF OperationState, Token
<1>2. OneOwner'
  BY <1>0 DEF CopiesAreOld, OperationState, Token, NoToken
<1>3. LeaseBalanced'
  BY <1>0 DEF LeaseBalanced, LeaseUses, LinePlace
<1>4. RestartInterruptsNothing'
  BY <1>0 DEF RestartInterruptsNothing, OperationState
<1>5. CopiesAreOld'
  BY <1>0 DEF CopiesAreOld, OperationState, Token
<1>6. LeaseFlag'
  BY <1>0 DEF OperationState, Token
<1>7. LinePlace'
  BY <1>0 DEF LinePlace
<1>. QED BY <1>1, <1>2, <1>3, <1>4, <1>5, <1>6, <1>7

LEMMA AcquireLeaseStep ==
    ASSUME OperationInv, NEW t \in Tasks, AcquireLease(t)
    PROVE  OperationInv'
<1>. USE DEF AcquireLease, Goto, CanTake, Taken,
         OperationInv, TypeOK, OneOwner, LeaseFlag, Owning, Streaming, TokenMatches
<1>1. TypeOK'
  BY DEF OperationState, Token
<1>2. OneOwner'
  BY DEF CopiesAreOld, OperationState, Token
<1>3. LeaseBalanced'
  BY DEF LeaseBalanced, LeaseUses, LinePlace
<1>4. RestartInterruptsNothing'
  BY DEF RestartInterruptsNothing, OperationState
<1>5. CopiesAreOld'
  BY DEF CopiesAreOld, OperationState, Token
<1>6. LeaseFlag'
  BY DEF OperationState, Token
<1>7. LinePlace'
  BY DEF LinePlace
<1>. QED BY <1>1, <1>2, <1>3, <1>4, <1>5, <1>6, <1>7

LEMMA LeaseTimeoutStep ==
    ASSUME OperationInv, NEW t \in Tasks, LeaseTimeout(t)
    PROVE  OperationInv'
<1>. USE DEF LeaseTimeout, Goto, CanTake, End, CanEnd, NoToken,
         OperationInv, TypeOK, OneOwner, LeaseFlag, Owning, Streaming, TokenMatches
<1>0. op' \in OperationState
  BY EndType
<1>1. TypeOK'
  BY <1>0 DEF OperationState, Token
<1>2. OneOwner'
  BY <1>0 DEF CopiesAreOld, OperationState, Token
<1>3. LeaseBalanced'
  BY <1>0 DEF LeaseBalanced, LeaseUses, LinePlace
<1>4. RestartInterruptsNothing'
  BY <1>0 DEF RestartInterruptsNothing, OperationState
<1>5. CopiesAreOld'
  BY <1>0 DEF CopiesAreOld, OperationState, Token
<1>6. LeaseFlag'
  BY <1>0 DEF OperationState, Token
<1>7. LinePlace'
  BY <1>0 DEF LinePlace
<1>. QED BY <1>1, <1>2, <1>3, <1>4, <1>5, <1>6, <1>7

LEMMA AttachStep ==
    ASSUME OperationInv, NEW t \in Tasks, Attach(t)
    PROVE  OperationInv'
<1>. USE DEF Attach, Goto, CanAttachLease, AttachLease, Given, End, CanEnd, NoToken,
         OperationInv, TypeOK, OneOwner, LeaseFlag, Owning, Streaming, TokenMatches
<1>a. AttachLease(op) \in OperationState
  BY DEF OperationState
<1>0. op' \in OperationState
  BY <1>a, EndType
<1>1. TypeOK'
  BY <1>0 DEF OperationState, Token
<1>2. OneOwner'
  BY <1>0 DEF CopiesAreOld, OperationState, Token
<1>3. LeaseBalanced'
  BY <1>0 DEF LeaseBalanced, LeaseUses, LinePlace
<1>4. RestartInterruptsNothing'
  BY <1>0 DEF RestartInterruptsNothing, OperationState
<1>5. CopiesAreOld'
  BY <1>0 DEF CopiesAreOld, OperationState, Token
<1>6. LeaseFlag'
  BY <1>0 DEF OperationState, Token
<1>7. LinePlace'
  BY <1>0 DEF LinePlace
<1>. QED BY <1>1, <1>2, <1>3, <1>4, <1>5, <1>6, <1>7

LEMMA EndOperationStep ==
    ASSUME OperationInv, NEW t \in Tasks, EndOperation(t)
    PROVE  OperationInv'
<1>a. CanEnd(op, tok[t])
  BY DEF EndOperation, OperationInv, OneOwner, Owning, CanEnd
<1>b. /\ pc[t] \in {"running", "released"} /\ Room(op) /\ op' = End(op)
      /\ pc' = [pc EXCEPT ![t] = IF op.lease THEN "dropping" ELSE "reconciling"]
      /\ tok[t].owner \in PreparedOwners => pc[t] = "released"
      /\ ~line[t] /\ UNCHANGED <<tok, lease, line>>
  BY <1>a DEF EndOperation, EndCall, Goto
<1>. USE <1>a, <1>b
     DEF End, CanEnd,
         OperationInv, TypeOK, OneOwner, LeaseFlag, Owning, Streaming, TokenMatches
<1>0. op' \in OperationState
  BY EndType
<1>1. TypeOK'
  BY <1>0 DEF OperationState, Token
<1>2. OneOwner'
  BY <1>0 DEF CopiesAreOld, OperationState, Token
<1>3. LeaseBalanced'
  BY <1>0 DEF LeaseBalanced, LeaseUses, LinePlace
<1>4. RestartInterruptsNothing'
  BY <1>0 DEF RestartInterruptsNothing, OperationState
<1>5. CopiesAreOld'
  BY <1>0 DEF CopiesAreOld, OperationState, Token
<1>6. LeaseFlag'
  BY <1>0 DEF OperationState, Token
<1>7. LinePlace'
  BY <1>0 DEF LinePlace
<1>. QED BY <1>1, <1>2, <1>3, <1>4, <1>5, <1>6, <1>7

LEMMA EndAgainStep ==
    ASSUME OperationInv, NEW t \in Tasks, EndAgain(t)
    PROVE  OperationInv'
\* An idle task's copy is too old for the token to answer to.
<1>1. ~CanEnd(op, tok[t])
  BY DEF EndAgain, OperationInv, TypeOK, CopiesAreOld, CanEnd, Owning
<1>2. UNCHANGED vars
  BY <1>1 DEF EndAgain, EndCall
<1>. QED
  BY <1>2 DEF vars, OperationInv, TypeOK, OneOwner, LeaseFlag, Owning, Streaming,
       LeaseBalanced, LeaseUses, RestartInterruptsNothing, CopiesAreOld,
       LinePlace, TokenMatches

LEMMA ReleasePreparedStep ==
    ASSUME OperationInv, NEW t \in Tasks, ReleasePrepared(t)
    PROVE  OperationInv'
<1>. USE DEF ReleasePrepared, Goto, Given,
         OperationInv, TypeOK, OneOwner, LeaseFlag, Owning, Streaming, TokenMatches
<1>1. TypeOK'
  BY DEF LeaseBalanced, LeaseUses
<1>2. OneOwner'
  BY DEF CopiesAreOld, OperationState, Token
<1>3. LeaseBalanced'
  BY DEF LeaseBalanced, LeaseUses, LinePlace
<1>4. RestartInterruptsNothing'
  BY DEF RestartInterruptsNothing, OperationState
<1>5. CopiesAreOld'
  BY DEF CopiesAreOld, OperationState, Token
<1>6. LeaseFlag'
  BY DEF OperationState, Token
<1>7. LinePlace'
  BY DEF LinePlace
<1>. QED BY <1>1, <1>2, <1>3, <1>4, <1>5, <1>6, <1>7

LEMMA DropLeaseStep ==
    ASSUME OperationInv, NEW t \in Tasks, DropLease(t)
    PROVE  OperationInv'
<1>. USE DEF DropLease, Goto, Given,
         OperationInv, TypeOK, OneOwner, LeaseFlag, Owning, Streaming, TokenMatches
<1>1. TypeOK'
  BY DEF LeaseBalanced, LeaseUses
<1>2. OneOwner'
  BY DEF CopiesAreOld, OperationState, Token
<1>3. LeaseBalanced'
  BY DEF LeaseBalanced, LeaseUses, LinePlace
<1>4. RestartInterruptsNothing'
  BY DEF RestartInterruptsNothing, OperationState
<1>5. CopiesAreOld'
  BY DEF CopiesAreOld, OperationState, Token
<1>6. LeaseFlag'
  BY DEF OperationState, Token
<1>7. LinePlace'
  BY DEF LinePlace
<1>. QED BY <1>1, <1>2, <1>3, <1>4, <1>5, <1>6, <1>7

LEMMA ReconcileStep ==
    ASSUME OperationInv, NEW t \in Tasks, Reconcile(t)
    PROVE  OperationInv'
<1>. USE DEF Reconcile, Goto,
         OperationInv, TypeOK, OneOwner, LeaseFlag, Owning, Streaming, TokenMatches
<1>0. /\ op' \in OperationState
      /\ op'.active = op.active /\ op'.owner = op.owner
      /\ op'.generation = op.generation /\ op'.lease = op.lease
      /\ op'.reserved = op.reserved
  BY ReconcileKeeps
<1>1. TypeOK'
  BY <1>0 DEF OperationState, Token
<1>2. OneOwner'
  BY <1>0 DEF CopiesAreOld, OperationState, Token
<1>3. LeaseBalanced'
  BY <1>0 DEF LeaseBalanced, LeaseUses, LinePlace
<1>4. RestartInterruptsNothing'
  BY <1>0 DEF RestartInterruptsNothing, OperationState
<1>5. CopiesAreOld'
  BY <1>0 DEF CopiesAreOld, OperationState, Token
<1>6. LeaseFlag'
  BY <1>0 DEF OperationState, Token
<1>7. LinePlace'
  BY <1>0 DEF LinePlace
<1>. QED BY <1>1, <1>2, <1>3, <1>4, <1>5, <1>6, <1>7

LEMMA LineStartStep ==
    ASSUME OperationInv, NEW t \in Tasks, LineStart(t)
    PROVE  OperationInv'
<1>. USE DEF LineStart, CanTake, Taken,
         OperationInv, TypeOK, OneOwner, LeaseFlag, Owning, Streaming, TokenMatches
<1>1. TypeOK'
  BY DEF OperationState, Token
<1>2. OneOwner'
  BY DEF CopiesAreOld, OperationState, Token
<1>3. LeaseBalanced'
  BY DEF LeaseBalanced, LeaseUses, LinePlace
<1>4. RestartInterruptsNothing'
  BY DEF RestartInterruptsNothing, OperationState
<1>5. CopiesAreOld'
  BY DEF CopiesAreOld, OperationState, Token
<1>6. LeaseFlag'
  BY DEF OperationState, Token
<1>7. LinePlace'
  BY DEF LinePlace
<1>. QED BY <1>1, <1>2, <1>3, <1>4, <1>5, <1>6, <1>7

LEMMA LineEndStep ==
    ASSUME OperationInv, NEW t \in Tasks, LineEnd(t)
    PROVE  OperationInv'
<1>. USE DEF LineEnd, Given,
         OperationInv, TypeOK, OneOwner, LeaseFlag, Owning, Streaming, TokenMatches
<1>1. TypeOK'
  BY DEF LeaseBalanced, LeaseUses
<1>2. OneOwner'
  BY DEF CopiesAreOld, OperationState, Token
<1>3. LeaseBalanced'
  BY DEF LeaseBalanced, LeaseUses, LinePlace
<1>4. RestartInterruptsNothing'
  BY DEF RestartInterruptsNothing, OperationState
<1>5. CopiesAreOld'
  BY DEF CopiesAreOld, OperationState, Token
<1>6. LeaseFlag'
  BY DEF OperationState, Token
<1>7. LinePlace'
  BY DEF LinePlace
<1>. QED BY <1>1, <1>2, <1>3, <1>4, <1>5, <1>6, <1>7

LEMMA EnvironmentStep ==
    ASSUME OperationInv,
           ReserveRecoveryRestart \/ RequestUpdatePreemption \/ Restart
    PROVE  OperationInv'
<1>. USE DEF OperationInv, TypeOK, OneOwner, LeaseFlag, Owning, Streaming,
             LeaseBalanced, LeaseUses, RestartInterruptsNothing, CopiesAreOld,
             LinePlace, TokenMatches
<1>1. CASE ReserveRecoveryRestart
  <2>1. /\ op' \in OperationState
        /\ op'.active = op.active /\ op'.owner = op.owner
        /\ op'.generation = op.generation /\ op'.lease = op.lease
    BY <1>1, ReserveKeeps DEF ReserveRecoveryRestart
  \* The reservation is refused while the token is active, so nobody owns it.
  <2>2. \A t \in Tasks : ~Owning(t)
    BY <1>1 DEF ReserveRecoveryRestart, CanReserveRestart
  <2>. QED BY <1>1, <2>1, <2>2 DEF ReserveRecoveryRestart
<1>2. CASE RequestUpdatePreemption
  <2>1. /\ op' \in OperationState
        /\ op'.active = op.active /\ op'.owner = op.owner
        /\ op'.generation = op.generation /\ op'.lease = op.lease
        /\ op'.reserved = op.reserved
    BY <1>2, PreemptionKeeps DEF RequestUpdatePreemption
  <2>. QED BY <1>2, <2>1 DEF RequestUpdatePreemption
<1>3. CASE Restart
  BY <1>3 DEF Restart, InitOperation, OperationState, Token, NoToken
<1>. QED BY <1>1, <1>2, <1>3

-----------------------------------------------------------------------------

LEMMA OperationInitial == Init => OperationInv
BY DEF Init, OperationInv, TypeOK, OneOwner, LeaseFlag, Owning, Streaming,
       LeaseBalanced, LeaseUses, RestartInterruptsNothing, CopiesAreOld,
       LinePlace, TokenMatches, InitOperation, OperationState, Token, NoToken

LEMMA OperationNext == OperationInv /\ [Next]_vars => OperationInv'
<1>. SUFFICES ASSUME OperationInv, [Next]_vars PROVE OperationInv'
  OBVIOUS
<1>1. CASE \E t \in Tasks : TaskStep(t)
  <2>. PICK t \in Tasks : TaskStep(t)
    BY <1>1
  <2>. QED
    BY BeginOperationStep, AcquireLeaseStep, LeaseTimeoutStep, AttachStep,
       EndOperationStep, EndAgainStep, ReleasePreparedStep, DropLeaseStep,
       ReconcileStep, LineStartStep, LineEndStep DEF TaskStep
<1>2. CASE ReserveRecoveryRestart \/ RequestUpdatePreemption \/ Restart
  BY <1>2, EnvironmentStep
<1>3. CASE UNCHANGED vars
  BY <1>3 DEF vars, OperationInv, TypeOK, OneOwner, LeaseFlag, Owning, Streaming,
       LeaseBalanced, LeaseUses, RestartInterruptsNothing, CopiesAreOld,
       LinePlace, TokenMatches
<1>. QED BY <1>1, <1>2, <1>3 DEF Next

\* Every reachable state satisfies the inductive invariant.
THEOREM OperationInvariance == Spec => []OperationInv
BY OperationInitial, OperationNext, PTL DEF Spec

\* The types of the token, the tasks and the lease.
THEOREM TypeCorrect == Spec => []TypeOK
<1>1. OperationInv => TypeOK
  BY DEF OperationInv
<1>. QED BY <1>1, OperationInvariance, PTL

\* The token admits one task at a time and is never left without its owner,
\* for any number of tasks, any owners and any interleaving of the begin,
\* end, double release, preemption and restart of the code.
THEOREM OperationsExclude == Spec => []OneOwner
<1>1. OperationInv => OneOwner
  BY DEF OperationInv
<1>. QED BY <1>1, OperationInvariance, PTL

\* The recursive lease is neither leaked nor given back early.
THEOREM LeaseIsBalanced == Spec => []LeaseBalanced
<1>1. OperationInv => LeaseBalanced
  BY DEF OperationInv
<1>. QED BY <1>1, OperationInvariance, PTL

\* No other task writes to the scanner UARTs during a binary stream: two
\* uses of the lease by two tasks would need two holders.
THEOREM StreamsUndisturbed == Spec => []StreamUndisturbed
<1>1. OperationInv => StreamUndisturbed
  BY DEF OperationInv, TypeOK, LeaseBalanced, LeaseUses, StreamUndisturbed, Streaming
<1>. QED BY <1>1, OperationInvariance, PTL

\* A committed recovery restart and a firmware operation exclude each other.
THEOREM RestartIsSafe == Spec => []RestartInterruptsNothing
<1>1. OperationInv => RestartInterruptsNothing
  BY DEF OperationInv
<1>. QED BY <1>1, OperationInvariance, PTL

-----------------------------------------------------------------------------
(* The refinement of ExclusiveUse.                                         *)

\* The owner the abstraction shows, in a state and in its successor.
OwnerShown ==
    /\ \A t \in Tasks : Owning(t) => TheOwner = t
    /\ (\A t \in Tasks : ~Owning(t)) => TheOwner = NoTask

LEMMA OwnerIsShown == OperationInv => OwnerShown
BY DEF OperationInv, OneOwner, TheOwner, OwnerShown

LEMMA InitRefines == Init => Exclusive!Init
BY DEF Init, Exclusive!Init, TheOwner, Owning, Streaming, InitOperation

AbstractStutter ==
    /\ TheOwner' = TheOwner
    /\ (\E t \in Tasks : Streaming(t))' = (\E t \in Tasks : Streaming(t))
    /\ (op.reserved \/ op.preempt)' = (op.reserved \/ op.preempt)

LEMMA TaskStepRefines ==
    ASSUME OperationInv, OperationInv', NEW t \in Tasks, TaskStep(t)
    PROVE  Exclusive!Next \/ AbstractStutter
<1>1. OwnerShown /\ OwnerShown'
  BY DEF OperationInv, OneOwner, TheOwner, OwnerShown
<1>. USE <1>1 DEF OperationInv, TypeOK, OneOwner, Owning, Streaming, OwnerShown, Goto
<1>2. ASSUME NEW o \in Owners, BeginOperation(t, o) PROVE Exclusive!Enter(t)
  <2>1. \A u \in Tasks : ~Owning(u)
    BY <1>2 DEF BeginOperation, CanBegin, TokenMatches
  <2>2. ~(op.reserved \/ op.preempt) /\ ~(op.reserved \/ op.preempt)'
    BY <1>2 DEF BeginOperation, CanBegin, Begin, OperationState
  <2>3. Owning(t)' /\ tok'[t].owner = o
    BY <1>2 DEF BeginOperation, IssuedToken
  <2>. QED
    BY <1>2, <2>1, <2>2, <2>3 DEF BeginOperation, Exclusive!Enter
<1>3. CASE AcquireLease(t)
  <2>1. TheOwner = t /\ TheOwner' = t
    BY <1>3 DEF AcquireLease
  <2>2. CASE pc[t] = "claimed"
    BY <1>3, <2>1, <2>2 DEF AcquireLease, AbstractStutter
  <2>3. CASE pc[t] = "preparing"
    BY <1>3, <2>1, <2>3, TasksAssumption
       DEF AcquireLease, LeaseFlag, Exclusive!Next, Exclusive!StartStream
  <2>. QED BY <1>3, <2>2, <2>3 DEF AcquireLease
<1>4. ASSUME LeaseTimeout(t) PROVE Exclusive!Leave
  <2>1. TheOwner = t /\ CanEnd(op, tok[t])
    BY <1>4 DEF LeaseTimeout, CanEnd
  <2>2. ~Owning(t)' /\ ~op'.active
    BY <1>4, <2>1 DEF LeaseTimeout, End, OperationState
  <2>. QED
    BY <1>4, <2>1, <2>2, TasksAssumption
       DEF LeaseTimeout, End, OperationState, Exclusive!Leave
<1>5. ASSUME Attach(t) PROVE Exclusive!StartStream
  <2>1. TheOwner = t /\ CanAttachLease(op, tok[t])
    BY <1>5 DEF Attach, CanAttachLease, LeaseFlag
  <2>2. TheOwner' = t /\ Streaming(t)' /\ \A u \in Tasks : ~Streaming(u)
    BY <1>5, <2>1 DEF Attach, LeaseFlag
  <2>. QED
    BY <1>5, <2>1, <2>2, TasksAssumption
       DEF Attach, AttachLease, OperationState, Exclusive!StartStream
<1>6. ASSUME EndOperation(t) PROVE Exclusive!Leave
  <2>1. TheOwner = t /\ Owning(t) /\ CanEnd(op, tok[t])
    BY <1>6 DEF EndOperation, CanEnd
  <2>2. \A u \in Tasks : ~Owning(u)'
    BY <1>6, <2>1 DEF EndOperation, EndCall
  <2>3. op' = End(op)
    BY <1>6, <2>1 DEF EndOperation, EndCall
  <2>4. op'.reserved = op.reserved /\ op'.preempt = op.preempt
    BY <2>3 DEF End, OperationState
  <2>5. TheOwner' = NoTask /\ TheOwner # NoTask
    BY <2>1, <2>2, TasksAssumption
  <2>. QED BY <2>2, <2>4, <2>5 DEF Exclusive!Leave
<1>7. CASE EndAgain(t)
  BY <1>7 DEF EndAgain, EndCall, CanEnd, CopiesAreOld, vars, TheOwner,
              AbstractStutter
<1>8. ASSUME ReleasePrepared(t) PROVE Exclusive!StopStream
  <2>1. TheOwner = t /\ TheOwner' = t /\ Streaming(t)
    BY <1>8 DEF ReleasePrepared
  <2>2. \A u \in Tasks : ~Streaming(u)'
    BY <1>8, <2>1 DEF ReleasePrepared
  <2>. QED BY <1>8, <2>1, <2>2 DEF ReleasePrepared, Exclusive!StopStream
<1>9. CASE DropLease(t) \/ Reconcile(t)
  <2>1. op'.reserved = op.reserved /\ op'.preempt = op.preempt
    BY <1>9, ReconcileKeeps DEF DropLease, Reconcile
  <2>2. \A u \in Tasks : /\ Owning(u)' <=> Owning(u)
                         /\ Streaming(u)' <=> Streaming(u)
    BY <1>9 DEF DropLease, Reconcile
  <2>3. TheOwner' = TheOwner
    BY <2>2
  <2>. QED BY <2>1, <2>2, <2>3 DEF AbstractStutter
<1>10. CASE LineStart(t) \/ LineEnd(t)
  BY <1>10 DEF LineStart, LineEnd, AbstractStutter, TheOwner
<1>. QED
  BY <1>2, <1>3, <1>4, <1>5, <1>6, <1>7, <1>8, <1>9, <1>10
     DEF TaskStep, Exclusive!Next

LEMMA EnvironmentStepRefines ==
    ASSUME OperationInv,
           ReserveRecoveryRestart \/ RequestUpdatePreemption \/ Restart
    PROVE  Exclusive!Next \/ AbstractStutter
<1>1. CASE ReserveRecoveryRestart
  <2>1. TheOwner' = TheOwner
    BY <1>1 DEF ReserveRecoveryRestart, TheOwner, Owning
  <2>2. op'.reserved
    BY <1>1 DEF ReserveRecoveryRestart, ReserveRestart, OperationInv, TypeOK,
                OperationState
  <2>. QED
    BY <1>1, <2>1, <2>2 DEF ReserveRecoveryRestart, Streaming,
       Exclusive!Next, Exclusive!Close
<1>2. CASE RequestUpdatePreemption
  <2>1. TheOwner' = TheOwner
    BY <1>2 DEF RequestUpdatePreemption, TheOwner, Owning
  <2>2. op'.preempt
    BY <1>2 DEF RequestUpdatePreemption, RequestPreemption, OperationInv, TypeOK,
                OperationState
  <2>. QED
    BY <1>2, <2>1, <2>2 DEF RequestUpdatePreemption, Streaming,
       Exclusive!Next, Exclusive!Close
<1>3. CASE Restart
  BY <1>3 DEF Restart, InitOperation, TheOwner, Owning, Streaming,
              Exclusive!Next, Exclusive!Restart
<1>. QED BY <1>1, <1>2, <1>3

\* The code's begin, end, lease, preemption and restart paths implement one
\* exclusive resource with a door that closes before a restart.
THEOREM Refinement == Spec => ImplementsExclusiveUse
<1>1. OperationInv /\ OperationInv' /\ [Next]_vars
      => [Exclusive!Next]_<<TheOwner, \E t \in Tasks : Streaming(t),
                           op.reserved \/ op.preempt>>
  <2>. SUFFICES ASSUME OperationInv, OperationInv', [Next]_vars
                PROVE  Exclusive!Next \/ AbstractStutter
    BY DEF AbstractStutter
  <2>1. CASE \E t \in Tasks : TaskStep(t)
    BY <2>1, TaskStepRefines
  <2>2. CASE ReserveRecoveryRestart \/ RequestUpdatePreemption \/ Restart
    BY <2>2, EnvironmentStepRefines
  <2>3. CASE UNCHANGED vars
    BY <2>3 DEF vars, AbstractStutter, TheOwner, Owning, Streaming
  <2>. QED BY <2>1, <2>2, <2>3 DEF Next
<1>. QED
  BY <1>1, InitRefines, OperationInvariance, PTL
     DEF Spec, ImplementsExclusiveUse, Exclusive!Spec
=============================================================================
