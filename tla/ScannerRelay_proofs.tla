------------------------- MODULE ScannerRelay_proofs -------------------------
(***************************************************************************)
(* What is proved of the relay, for images of any number of chunks and any *)
(* number of relays, retries and faults: a relay that reports success has  *)
(* left its image on the scanner for good.                                 *)
(*                                                                         *)
(* A scanner that is seen to run the new image, confirmed, after a boot of *)
(* this relay keeps it, unless a begin is still on its way to it.  None is:*)
(* a begin goes out only on an empty wire, so it precedes every frame of   *)
(* its session, and the receipt that let the relay go on to its end comes  *)
(* after the last of them.                                                 *)
(***************************************************************************)
EXTENDS ScannerRelay, SequenceTheorems, TLAPS

\* The types of the parts.
Commands == {"start", "offer", "stop", "begin", "end", "abort", "sentinel"}
Answers == {"stop_ack", "ack", "error", "nack", "progress", "staged", "done", "ready"}
Images == {"old", "new"}
UpLine == [k : Commands \cup Frames, s : Nat, n : Nat]
Answer == [k : Answers, s : Nat, n : Nat]
Identity == [k : {"info"}, s : {0}, n : {0}, boot : Nat, image : Images, pending : BOOLEAN]
DownLine == Answer \cup Identity
Waiting == {"stop", "begin", "send", "poll", "await", "end"}
RelayType ==
    [pc : Waiting \cup {"idle", "health"}, mode : Modes \cup {"none"},
     session : Nat, boot : Nat, seq : Nat, nack : Nat, last : Nat, runs : Nat,
     accepted : BOOLEAN, sends : Nat, committed : BOOLEAN,
     result : {"none", "failed", "ok"}, paused : BOOLEAN, ready : BOOLEAN]
ScannerType ==
    [boot : Nat, image : Images, pending : BOOLEAN, next : Images,
     tx : BOOLEAN, told : BOOLEAN, latch : BOOLEAN,
     fw : {"idle", "offered", "ready", "updating", "deferred", "error", "refused"},
     backoff : BOOLEAN, garbage : BOOLEAN,
     ota : {"idle", "staging", "awaiting", "flashing", "rebooting"},
     session : Nat, same : BOOLEAN, buffer : Seq(Nat), mid : {"no", "data", "discard"}]
Typed ==
    /\ relay \in RelayType /\ seen \in Identity
    /\ up \in Seq(UpLine) /\ down \in Seq(DownLine) /\ scanner \in ScannerType

\* The lines of a wire.
Lines(q) == {q[i] : i \in DOMAIN q}
NoBegin(q) == \A m \in Lines(q) : m.k # "begin"
NoFrame(q) == \A m \in Lines(q) : m.k \notin Frames
BeginFirst(q) == \A i \in DOMAIN q : q[i].k = "begin" => i = 1
Staged(q) == \E m \in Lines(q) : m.k = "staged" /\ m.s = relay.session

\* The scanner has heard of the session, or is about to.
Known ==
    \/ scanner.session = relay.session
    \/ \E m \in Lines(up) : m.k = "begin" /\ m.s = relay.session

RelayShape ==
    /\ relay.paused <=> relay.pc \in Waiting
    /\ relay.result = "ok" => relay.pc = "idle"
    /\ relay.paused => relay.session > 0

SessionsPast ==
    /\ scanner.session <= relay.session
    /\ \A m \in Lines(up) : m.s <= relay.session

\* Until it has its begin acknowledged, a relay has no frames on the wire
\* that the scanner could take for its own.
Beginning ==
    /\ relay.pc = "stop" => ~Known
    /\ relay.pc = "begin" => (Known => NoFrame(up))
    /\ relay.pc \in {"stop", "begin"} => ~Staged(down)

\* No begin follows the receipt of the whole image.
Ending ==
    /\ BeginFirst(up)
    /\ relay.pc \in {"send", "poll", "await"} => (Staged(down) => NoBegin(up))
    /\ relay.pc \in {"end", "health"} \/ relay.result = "ok" => NoBegin(up)

\* The new image runs and no reset brings the old one back.
Settled(sc) ==
    sc.image = "new" /\ sc.next = "new" /\ ~sc.pending /\ sc.ota = "idle"

\* What the uplink reads of the scanner's identity is new, if it is, because
\* of this relay.
Old(m) == m.k = "info" => m.image = "old"
Proof(m) == m.k = "info" /\ Converged(m) => Settled(scanner)
Evidence ==
    /\ relay.pc \in Waiting => seen.boot = relay.boot /\ \A m \in Lines(down) : Old(m)
    /\ relay.pc = "health" => Proof(seen) /\ \A m \in Lines(down) : Proof(m)
    /\ relay.result = "ok" => Settled(scanner)
    /\ scanner.ota # "rebooting" => scanner.next = scanner.image

IInv == Typed /\ RelayShape /\ SessionsPast /\ Beginning /\ Ending /\ Evidence

-----------------------------------------------------------------------------
(* The wires.                                                              *)

\* A line is added at the end of a wire; a begin stays the first line when
\* what is added is no begin, or is the only line.
LEMMA LinesAppended ==
    ASSUME NEW S, NEW q, q \in Seq(S), NEW m, m \in S
    PROVE  /\ Append(q, m) \in Seq(S) /\ Lines(Append(q, m)) = Lines(q) \cup {m}
           /\ BeginFirst(q) /\ (m.k # "begin" \/ q = <<>>) => BeginFirst(Append(q, m))
<1> DEFINE a == Append(q, m)
           n == Len(q)
<1>1. /\ a \in Seq(S) /\ n \in Nat /\ DOMAIN q = 1..n /\ DOMAIN a = 1..(n + 1)
      /\ a[n + 1] = m /\ \A i \in 1..n : a[i] = q[i]
  OBVIOUS
<1>2. q = <<>> => n = 0
  OBVIOUS
<1> HIDE DEF a, n
<1>3. Lines(a) = Lines(q) \cup {m}
  BY <1>1 DEF Lines
<1>4. ASSUME BeginFirst(q), m.k # "begin" \/ q = <<>>
      PROVE  BeginFirst(a)
  BY <1>1, <1>2, <1>4 DEF BeginFirst
<1> QED BY <1>1, <1>3, <1>4 DEF a

\* The first line is taken.
LEMMA LinesTaken ==
    ASSUME NEW S, NEW q, q \in Seq(S), q # <<>>
    PROVE  /\ Head(q) \in S /\ Tail(q) \in Seq(S) /\ Head(q) \in Lines(q)
           /\ Lines(Tail(q)) \subseteq Lines(q)
           /\ BeginFirst(q) => BeginFirst(Tail(q)) /\ NoBegin(Tail(q))
<1> DEFINE t == Tail(q)
           n == Len(q)
<1>1. /\ t \in Seq(S) /\ n \in Nat \ {0} /\ DOMAIN q = 1..n /\ DOMAIN t = 1..(n - 1)
      /\ Head(q) = q[1] /\ \A i \in 1..(n - 1) : t[i] = q[i + 1]
      /\ q[1] \in S
  OBVIOUS
<1> HIDE DEF t, n
<1>2. Lines(t) \subseteq Lines(q) /\ Head(q) \in Lines(q)
  BY <1>1 DEF Lines
<1>3. \A i \in 1..(n - 1) : i + 1 \in 1..n /\ i + 1 # 1
  BY <1>1
<1>4. BeginFirst(q) => \A i \in DOMAIN t : t[i].k # "begin"
  BY <1>1, <1>3 DEF BeginFirst
<1>5. BeginFirst(q) => BeginFirst(t) /\ NoBegin(t)
  BY <1>4 DEF BeginFirst, NoBegin, Lines
<1> QED BY <1>1, <1>2, <1>5 DEF t

\* Lines are added that are no begins.
LEMMA LinesJoined ==
    ASSUME NEW S, NEW p, p \in Seq(S), NEW q, q \in Seq(S)
    PROVE  /\ p \o q \in Seq(S) /\ Lines(p \o q) = Lines(p) \cup Lines(q)
           /\ BeginFirst(p) /\ NoBegin(q) => BeginFirst(p \o q)
<1> DEFINE c == p \o q
           n == Len(p)
           k == Len(q)
<1>1. /\ c \in Seq(S) /\ n \in Nat /\ k \in Nat
      /\ DOMAIN p = 1..n /\ DOMAIN q = 1..k /\ DOMAIN c = 1..(n + k)
      /\ \A i \in 1..(n + k) : c[i] = IF i <= n THEN p[i] ELSE q[i - n]
  BY ConcatProperties
<1> HIDE DEF c, n, k
<1>2. \A i \in 1..n : i \in 1..(n + k) /\ c[i] = p[i]
  BY <1>1
<1>3. \A i \in 1..k : n + i \in 1..(n + k) /\ c[n + i] = q[i]
  BY <1>1
<1>4. \A i \in 1..(n + k) : i \in 1..n \/ (i - n \in 1..k /\ c[i] = q[i - n])
  BY <1>1
<1>5. Lines(c) = Lines(p) \cup Lines(q)
  <2>1. Lines(p) \subseteq Lines(c)
    BY <1>1, <1>2 DEF Lines
  <2>2. Lines(q) \subseteq Lines(c)
    <3>1. \A m \in Lines(q) : \E i \in 1..k : m = c[n + i] /\ n + i \in DOMAIN c
      BY <1>1, <1>3 DEF Lines
    <3> QED BY <3>1 DEF Lines
  <2>3. ASSUME NEW m \in Lines(c) PROVE m \in Lines(p) \cup Lines(q)
    <3>1. PICK i \in 1..(n + k) : m = c[i]
      BY <1>1 DEF Lines
    <3>2. CASE i \in 1..n
      BY <1>1, <1>2, <3>1, <3>2 DEF Lines
    <3>3. CASE i - n \in 1..k /\ c[i] = q[i - n]
      BY <1>1, <3>1, <3>3 DEF Lines
    <3> QED BY <1>4, <3>2, <3>3
  <2> QED BY <2>1, <2>2, <2>3
<1>6. BeginFirst(p) /\ NoBegin(q) => BeginFirst(c)
  BY <1>1, <1>2, <1>4 DEF BeginFirst, NoBegin, Lines
<1> QED BY <1>1, <1>5, <1>6 DEF c

\* Wires with few lines.
LEMMA FewLines ==
    ASSUME NEW S
    PROVE  /\ <<>> \in Seq(S) /\ Lines(<<>>) = {} /\ BeginFirst(<<>>)
           /\ \A a \in S : <<a>> \in Seq(S) /\ Lines(<<a>>) = {a}
           /\ \A a, b \in S : <<a, b>> \in Seq(S) /\ Lines(<<a, b>>) = {a, b}
<1>1. <<>> \in Seq(S) /\ Lines(<<>>) = {} /\ BeginFirst(<<>>)
  BY DEF Lines, BeginFirst
<1>2. \A a \in S : <<a>> \in Seq(S) /\ Lines(<<a>>) = {a}
  BY DEF Lines
<1>3. \A a, b \in S : <<a, b>> \in Seq(S) /\ Lines(<<a, b>>) = {a, b}
  <2> SUFFICES ASSUME NEW a \in S, NEW b \in S
               PROVE  <<a, b>> \in Seq(S) /\ Lines(<<a, b>>) = {a, b}
    OBVIOUS
  <2> DEFINE q == <<a, b>>
  <2>1. q \in Seq(S) /\ DOMAIN q = {1, 2} /\ q[1] = a /\ q[2] = b
    OBVIOUS
  <2> HIDE DEF q
  <2>2. Lines(q) = {a, b}
    BY <2>1 DEF Lines
  <2> QED BY <2>1, <2>2 DEF q
<1> QED BY <1>1, <1>2, <1>3

\* The first lines are dropped.
LEMMA LinesDropped ==
    ASSUME NEW S, NEW q, q \in Seq(S), NEW n, n \in 0..Len(q)
    PROVE  /\ SubSeq(q, n + 1, Len(q)) \in Seq(S)
           /\ Lines(SubSeq(q, n + 1, Len(q))) \subseteq Lines(q)
<1> DEFINE k == Len(q)
           j == n + 1
           r == SubSeq(q, j, k)
<1>1. /\ k \in Nat /\ k \in Int /\ DOMAIN q = 1..k /\ n \in 0..k /\ j = n + 1 /\ j \in Int
      /\ \A i \in 1..k : q[i] \in S
  OBVIOUS
<1> HIDE DEF k, j
<1>2. \A i \in j..k : i \in 1..k /\ q[i] \in S
  BY <1>1
<1>3. /\ r \in Seq(S) /\ Len(r) = IF j <= k THEN k - j + 1 ELSE 0
      /\ \A i \in 1..(k - j + 1) : r[i] = q[j + i - 1]
  BY <1>1, <1>2, SubSeqProperties
<1>4. DOMAIN r = 1..Len(r)
  BY <1>3
<1> HIDE DEF r
<1>5. Len(r) = k - n /\ k - j + 1 = k - n
  BY <1>1, <1>3
<1>6. \A i \in 1..(k - n) : j + i - 1 \in 1..k
  BY <1>1
<1>7. \A i \in DOMAIN r : r[i] = q[j + i - 1] /\ j + i - 1 \in DOMAIN q
  BY <1>1, <1>3, <1>4, <1>5, <1>6
<1>8. Lines(r) \subseteq Lines(q)
  BY <1>7 DEF Lines
<1> QED BY <1>3, <1>8 DEF r, k, j

-----------------------------------------------------------------------------
(* Steps that leave the relay where it is.                                 *)

\* What is on the wire to the scanner was there, perhaps as another frame, or
\* begins nothing.
Carried(m) ==
    \E o \in Lines(up) :
        o.s = m.s /\ (o.k = m.k \/ (o.k \in Frames /\ m.k \in Frames))
Harmless(m) == m.k \notin Frames \cup {"begin"} /\ m.s <= relay.session

\* What the scanner may add: the receipt after a frame, its identity.
Said(m) ==
    /\ (m.k = "staged" /\ m.s = relay.session) =>
         /\ scanner.session = relay.session /\ ~NoFrame(up) /\ NoBegin(up')
    /\ m.k = "info" =>
         \/ m.image = "old"
         \/ ~relay.paused /\ (m.image = "new" /\ ~m.pending => Settled(scanner'))

SameRelay ==
    /\ relay'.pc = relay.pc /\ relay'.session = relay.session /\ relay'.boot = relay.boot
    /\ relay'.paused = relay.paused /\ relay'.result = relay.result

ScannerKeeps ==
    /\ \/ scanner'.session \in {scanner.session, 0}
       \/ \E m \in Lines(up) : m.k = "begin" /\ scanner'.session = m.s
    /\ Settled(scanner) /\ NoBegin(up) => Settled(scanner')
    /\ scanner'.ota # "rebooting" => scanner'.next = scanner'.image

Minor ==
    /\ SameRelay /\ seen' = seen /\ ScannerKeeps
    /\ BeginFirst(up') /\ \A m \in Lines(up') : Carried(m) \/ Harmless(m)
    /\ \A m \in Lines(down') : m \in Lines(down) \/ Said(m)

\* What the scanner knows, it knew, or was about to hear.
LEMMA StillUnknown ==
    ASSUME IInv, Minor, relay.paused, Known'
    PROVE  Known
<1>1. relay.session > 0 /\ relay'.session = relay.session
  BY DEF IInv, RelayShape, Minor, SameRelay
<1>2. CASE scanner'.session = relay.session
  BY <1>1, <1>2 DEF Minor, ScannerKeeps, Known
<1>3. ASSUME NEW m \in Lines(up'), m.k = "begin", m.s = relay.session
      PROVE  Known
  <2>1. Carried(m)
    BY <1>3 DEF Minor, Harmless
  <2>2. m.k \notin Frames
    BY <1>3 DEF Frames
  <2> QED BY <1>3, <2>1, <2>2 DEF Carried, Known
<1> QED BY <1>1, <1>2, <1>3 DEF Known

LEMMA MinorStep ==
    ASSUME IInv, Typed', Minor
    PROVE  IInv'
<1>1. SameRelay
  BY DEF Minor
<1>2. relay.session \in Nat /\ relay.boot \in Nat
  BY DEF IInv, Typed, RelayType
<1>3. RelayShape'
  BY <1>1 DEF IInv, RelayShape, SameRelay
<1>4. NoBegin(up) => NoBegin(up')
  <2>1. ASSUME NEW m \in Lines(up'), m.k = "begin" PROVE ~NoBegin(up)
    <3>1. Carried(m) /\ m.k \notin Frames
      BY <2>1 DEF Minor, Harmless, Frames
    <3> QED BY <2>1, <3>1 DEF Carried, NoBegin
  <2> QED BY <2>1 DEF NoBegin
<1>5. NoFrame(up) => NoFrame(up')
  BY DEF Minor, Carried, Harmless, NoFrame
<1>6. SessionsPast'
  <2>1. scanner'.session <= relay.session
    BY <1>2 DEF Minor, ScannerKeeps, IInv, SessionsPast
  <2>2. \A m \in Lines(up') : m.s <= relay.session
    BY DEF Minor, Carried, Harmless, IInv, SessionsPast
  <2> QED BY <1>1, <2>1, <2>2 DEF SessionsPast, SameRelay
<1>7. ASSUME relay.pc \in {"stop", "begin"} PROVE relay.paused
  BY <1>7 DEF IInv, RelayShape, Waiting
<1>8. ASSUME NEW m \in Lines(down'), m.k = "staged", m.s = relay.session
      PROVE  Staged(down) \/ (Known /\ ~NoFrame(up) /\ NoBegin(up'))
  BY <1>8 DEF Minor, Said, Staged, Known
<1>9. Beginning'
  <2>1. relay.pc = "stop" => ~Known'
    BY <1>7, StillUnknown DEF IInv, Beginning
  <2>2. ASSUME relay.pc = "begin", Known' PROVE NoFrame(up')
    BY <1>5, <1>7, <2>2, StillUnknown DEF IInv, Beginning
  <2>3. relay.pc \in {"stop", "begin"} => ~(\E m \in Lines(down') : m.k = "staged" /\ m.s = relay.session)
    BY <1>8 DEF IInv, Beginning
  <2> QED BY <1>1, <2>1, <2>2, <2>3 DEF Beginning, SameRelay, Staged
<1>10. Ending'
  <2>1. BeginFirst(up')
    BY DEF Minor
  <2>2. relay.pc \in {"send", "poll", "await"} =>
          ((\E m \in Lines(down') : m.k = "staged" /\ m.s = relay.session) => NoBegin(up'))
    BY <1>4, <1>8 DEF IInv, Ending
  <2>3. relay.pc \in {"end", "health"} \/ relay.result = "ok" => NoBegin(up')
    BY <1>4 DEF IInv, Ending
  <2> QED BY <1>1, <2>1, <2>2, <2>3 DEF Ending, SameRelay, Staged
<1>11. Evidence'
  <2>1. ASSUME relay.pc \in Waiting
        PROVE  seen'.boot = relay.boot /\ \A m \in Lines(down') : Old(m)
    <3>1. relay.paused
      BY <2>1 DEF IInv, RelayShape
    <3> QED BY <2>1, <3>1 DEF Minor, Said, Old, IInv, Evidence
  <2>2. Settled(scanner) /\ NoBegin(up) => Settled(scanner')
    BY DEF Minor, ScannerKeeps
  <2>3. ASSUME relay.pc = "health", NEW m, m \in Lines(down') \/ m = seen,
               m.k = "info", Converged(m)
        PROVE  Settled(scanner')
    <3>1. NoBegin(up)
      BY <2>3 DEF IInv, Ending
    <3>2. CASE m \in Lines(down) \/ m = seen
      BY <2>2, <2>3, <3>1, <3>2 DEF IInv, Evidence, Proof
    <3>3. CASE m \in Lines(down') /\ Said(m)
      BY <2>3, <3>3 DEF Said, Converged
    <3> QED BY <2>3, <3>2, <3>3 DEF Minor
  <2>4. \A m : Converged(m) <=> Converged(m)'
    BY <1>1 DEF Converged, SameRelay
  <2>5. relay.result = "ok" => Settled(scanner')
    BY <2>2 DEF IInv, Evidence, Ending
  <2>6. scanner'.ota # "rebooting" => scanner'.next = scanner'.image
    BY DEF Minor, ScannerKeeps
  <2>7. relay.pc = "health" => \A m \in Lines(down') \cup {seen'} : Proof(m)'
    BY <2>3, <2>4 DEF Proof, Minor
  <2> QED BY <1>1, <2>1, <2>5, <2>6, <2>7 DEF Evidence, SameRelay, Old
<1> QED BY <1>3, <1>6, <1>9, <1>10, <1>11 DEF IInv

-----------------------------------------------------------------------------
(* Steps of the relay to another place.                                    *)
Turn ==
    \/ relay'.pc = "idle" /\ relay'.result = "failed"
    \/ relay.pc = "stop" /\ relay'.pc = "begin" /\ up' = up
    \/ relay.pc = "begin" /\ relay'.pc = "send"
    \/ relay.pc \in {"send", "poll", "await"} /\ relay'.pc \in {"send", "poll", "await"}
    \/ relay.pc = "await" /\ relay'.pc = "end" /\ Staged(down)
    \/ relay.pc = "end" /\ relay'.pc = "health"
    \/ relay.pc = "health" /\ relay'.pc = "idle" /\ Converged(seen)

Move ==
    /\ relay'.session = relay.session /\ relay'.boot = relay.boot
    /\ relay'.paused <=> relay'.pc \in Waiting
    /\ relay'.pc = "idle" \/ relay'.result = relay.result
    /\ relay.pc # "idle"
    /\ seen' = seen /\ scanner' = scanner
    /\ Lines(down') \subseteq Lines(down)
    /\ BeginFirst(up')
    /\ \A m \in Lines(up') : m \in Lines(up) \/ (m.k # "begin" /\ m.s <= relay.session)
    /\ Turn

LEMMA MoveStep ==
    ASSUME IInv, Typed', Move
    PROVE  IInv'
<1>1. relay.session \in Nat /\ relay'.session = relay.session /\ relay'.boot = relay.boot
  BY DEF IInv, Typed, RelayType, Move
<1>2. relay.result # "ok"
  BY DEF IInv, RelayShape, Move
<1>3. relay.paused \/ relay.pc = "health"
  BY DEF IInv, RelayShape, Move, Typed, RelayType
<1>4. RelayShape'
  <2>1. relay'.paused <=> relay'.pc \in Waiting
    BY DEF Move
  <2>2. relay'.result = "ok" => relay'.pc = "idle"
    BY <1>2 DEF Move
  <2>3. relay'.paused => relay.paused
    BY <2>1, <1>3 DEF Move, Turn, Waiting
  <2> QED BY <1>1, <2>1, <2>2, <2>3 DEF RelayShape, IInv
<1>5. SessionsPast'
  BY <1>1 DEF IInv, SessionsPast, Move
<1>6. NoBegin(up) => NoBegin(up')
  BY DEF Move, NoBegin
<1>7. Staged(down)' => Staged(down)
  BY <1>1 DEF Move, Staged
<1>8. Beginning'
  <2>1. relay'.pc # "stop"
    BY DEF Move, Turn
  <2>2. relay'.pc = "begin" => relay.pc = "stop" /\ up' = up
    BY DEF Move, Turn
  <2>3. relay'.pc = "begin" => ~Known' /\ ~Staged(down)'
    BY <1>1, <1>7, <2>2 DEF IInv, Beginning, Known, Move
  <2> QED BY <2>1, <2>3 DEF Beginning
<1>9. Ending'
  <2>1. BeginFirst(up')
    BY DEF Move
  <2>2. relay'.pc \in {"send", "poll", "await"} => (Staged(down)' => NoBegin(up'))
    <3>1. relay'.pc \in {"send", "poll", "await"} =>
            relay.pc \in {"begin", "send", "poll", "await"}
      BY DEF Move, Turn
    <3> QED BY <1>6, <1>7, <3>1 DEF IInv, Beginning, Ending
  <2>3. relay'.pc \in {"end", "health"} => NoBegin(up')
    <3>1. relay'.pc \in {"end", "health"} =>
            relay.pc = "end" \/ (relay.pc = "await" /\ Staged(down))
      BY DEF Move, Turn
    <3> QED BY <1>6, <3>1 DEF IInv, Ending
  <2>4. relay'.result = "ok" => NoBegin(up')
    <3>1. relay'.result = "ok" => relay.pc = "health"
      BY <1>2 DEF Move, Turn
    <3> QED BY <1>6, <3>1 DEF IInv, Ending
  <2> QED BY <2>1, <2>2, <2>3, <2>4 DEF Ending
<1>10. Evidence'
  <2>1. relay'.pc \in Waiting => seen.boot = relay.boot /\ \A m \in Lines(down') : Old(m)
    <3>1. relay'.pc \in Waiting => relay.pc \in Waiting
      BY DEF Move, Turn, Waiting
    <3> QED BY <3>1 DEF IInv, Evidence, Move
  <2>2. ASSUME relay'.pc = "health", NEW m, m \in Lines(down') \/ m = seen,
               m.k = "info", Converged(m)
        PROVE  FALSE
    <3>1. relay.pc = "end"
      BY <2>2 DEF Move, Turn
    <3>2. seen.boot = relay.boot /\ \A o \in Lines(down) : Old(o)
      BY <3>1 DEF IInv, Evidence, Waiting
    <3>3. relay.boot \in Nat
      BY DEF IInv, Typed, RelayType
    <3> QED BY <2>2, <3>2, <3>3 DEF Move, Old, Converged
  <2>3. relay'.result = "ok" => Settled(scanner)
    <3>1. relay'.result = "ok" => relay.pc = "health" /\ Converged(seen)
      BY <1>2 DEF Move, Turn
    <3>2. seen.k = "info"
      BY DEF IInv, Typed, Identity
    <3> QED BY <3>1, <3>2 DEF IInv, Evidence, Proof
  <2>4. \A m : Converged(m) <=> Converged(m)'
    BY <1>1 DEF Converged
  <2>5. relay'.pc = "health" => \A m \in Lines(down') \cup {seen'} : Proof(m)'
    BY <2>2, <2>4 DEF Proof, Move
  <2> QED BY <1>1, <2>1, <2>3, <2>5 DEF Evidence, Old, Move, IInv
<1> QED BY <1>4, <1>5, <1>8, <1>9, <1>10 DEF IInv

-----------------------------------------------------------------------------
(* What the scanner makes of a line.                                       *)
Kept(sc, t) ==
    /\ t \in ScannerType
    /\ t.image = sc.image /\ t.pending = sc.pending /\ t.next = sc.next
Says(sc, m, q) ==
    /\ q \in Seq(DownLine)
    /\ \A o \in Lines(q) : /\ o.k = "staged" => m.k \in Frames /\ o.s = sc.session
                           /\ o.k = "info" => o.image = "old"
Reply(sc, m, r) ==
    /\ Kept(sc, r.sc) /\ Says(sc, m, r.out) /\ r.sc.ota # "rebooting"
    /\ r.sc.session \in {sc.session, 0} \/ (m.k = "begin" /\ r.sc.session = m.s)
    /\ sc.ota = "idle" /\ m.k # "begin" => r.sc.ota = "idle"

LEMMA AnswerTyped ==
    ASSUME NEW k, k \in Answers, NEW s, s \in Nat, NEW n, n \in Nat
    PROVE  Msg(k, s, n) \in DownLine /\ Msg(k, s, n).k = k /\ Msg(k, s, n).s = s
<1>1. Msg(k, s, n) \in Answer
  BY DEF Msg, Answer
<1> QED BY <1>1 DEF Msg, DownLine

LEMMA SaysLittle ==
    ASSUME NEW sc, NEW m
    PROVE  /\ Says(sc, m, <<>>)
           /\ \A k \in Answers \ {"staged"} : \A s, n \in Nat : Says(sc, m, <<Msg(k, s, n)>>)
<1>1. Says(sc, m, <<>>)
  BY FewLines DEF Says
<1>2. ASSUME NEW k \in Answers \ {"staged"}, NEW s \in Nat, NEW n \in Nat
      PROVE  Says(sc, m, <<Msg(k, s, n)>>)
  <2> DEFINE o == Msg(k, s, n)
  <2>1. o \in DownLine /\ o.k = k
    BY <1>2, AnswerTyped
  <2> HIDE DEF o
  <2>2. <<o>> \in Seq(DownLine) /\ Lines(<<o>>) = {o}
    BY <2>1, FewLines
  <2>3. o.k # "staged" /\ o.k # "info"
    BY <2>1, <1>2 DEF Answers
  <2>4. Says(sc, m, <<o>>)
    BY <2>2, <2>3 DEF Says
  <2> QED BY <2>4 DEF o
<1> QED BY <1>1, <1>2

LEMMA CleanedFacts ==
    ASSUME NEW sc, sc \in ScannerType
    PROVE  /\ Kept(sc, CleanedUp(sc)) /\ CleanedUp(sc).ota = "idle"
           /\ CleanedUp(sc).session = 0
<1>1. <<>> \in Seq(Nat)
  OBVIOUS
<1> QED BY <1>1 DEF CleanedUp, Kept, ScannerType

LEMMA ErredFacts ==
    ASSUME NEW sc, sc \in ScannerType
    PROVE  /\ Kept(sc, Erred(sc)) /\ Erred(sc).ota = sc.ota /\ Erred(sc).session = sc.session
           /\ Kept(sc, Unlatched(sc)) /\ Unlatched(sc).ota = sc.ota
           /\ Unlatched(sc).session = sc.session
<1>1. Kept(sc, Erred(sc)) /\ Erred(sc).ota = sc.ota /\ Erred(sc).session = sc.session
  BY DEF Erred, Kept, ScannerType
<1> DEFINE e == Erred(sc)
<1>2. Unlatched(sc) = [e EXCEPT !.latch = FALSE]
  BY DEF Unlatched
<1> HIDE DEF e
<1>3. e \in ScannerType
  BY <1>1 DEF e, Kept
<1>4. Kept(e, Unlatched(sc)) /\ Unlatched(sc).ota = e.ota /\ Unlatched(sc).session = e.session
  BY <1>2, <1>3 DEF Kept, ScannerType
<1> QED BY <1>1, <1>4 DEF e, Kept

LEMMA FailedFacts ==
    ASSUME NEW sc, sc \in ScannerType
    PROVE  /\ Kept(sc, Failed(sc).sc) /\ Failed(sc).sc.ota = "idle"
           /\ Failed(sc).sc.session = 0
           /\ Failed(sc).out = <<Msg("error", sc.session, 0)>>
           /\ \A m : Says(sc, m, Failed(sc).out)
<1> DEFINE c == CleanedUp(sc)
<1>1. Kept(sc, c) /\ c.ota = "idle" /\ c.session = 0
  BY CleanedFacts
<1>2. Failed(sc).sc = Erred(c) /\ Failed(sc).out = <<Msg("error", sc.session, 0)>>
  BY DEF Failed, After
<1> HIDE DEF c
<1>3. c \in ScannerType
  BY <1>1 DEF Kept
<1>4. Kept(c, Erred(c)) /\ Erred(c).ota = c.ota /\ Erred(c).session = c.session
  BY <1>3, ErredFacts
<1>5. "error" \in Answers \ {"staged"} /\ sc.session \in Nat /\ 0 \in Nat
  BY DEF Answers, ScannerType
<1>6. \A m : Says(sc, m, <<Msg("error", sc.session, 0)>>)
  BY <1>5, SaysLittle
<1> QED BY <1>1, <1>2, <1>4, <1>6 DEF Kept

LEMMA FailedReply ==
    ASSUME NEW sc, sc \in ScannerType, NEW m
    PROVE  Reply(sc, m, Failed(sc))
BY FailedFacts DEF Reply

\* A frame that the scanner does not take.
LEMMA NackReply ==
    ASSUME NEW sc, sc \in ScannerType, NEW m, NEW d, Kept(sc, d),
           d.session = sc.session, d.ota = sc.ota, sc.ota # "rebooting"
    PROVE  Reply(sc, m, After(d, <<>>)) /\ Reply(sc, m, After(d, Nack(sc)))
<1>1. Len(sc.buffer) \in Nat /\ sc.session \in Nat /\ "nack" \in Answers \ {"staged"}
  BY DEF ScannerType, Answers
<1>2. Says(sc, m, <<>>) /\ Says(sc, m, Nack(sc))
  BY <1>1, SaysLittle DEF Nack
<1> QED BY <1>2 DEF Reply, After

LEMMA ReplyThrough ==
    ASSUME NEW sc, NEW d, NEW m, NEW r, Kept(sc, d), d.session = sc.session, d.ota = sc.ota,
           Reply(d, m, r)
    PROVE  Reply(sc, m, r)
BY DEF Reply, Kept, Says

LEMMA AcceptReply ==
    ASSUME NEW sc, sc \in ScannerType, NEW m, m \in UpLine, m.k \in Frames,
           sc.ota = "staging"
    PROVE  Reply(sc, m, Accept(sc, m))
<1> DEFINE d == [sc EXCEPT !.buffer = Append(@, m.n)]
           e == [d EXCEPT !.ota = "awaiting"]
           progress == Msg("progress", sc.session, 0)
           staged == Msg("staged", sc.session, 0)
<1>1. sc.buffer \in Seq(Nat) /\ m.n \in Nat /\ sc.session \in Nat
  BY DEF ScannerType, UpLine
<1>2. Append(sc.buffer, m.n) \in Seq(Nat)
  BY <1>1
<1>3. Kept(sc, d) /\ d.session = sc.session /\ d.ota = sc.ota
  BY <1>2 DEF Kept, ScannerType
<1>4. \/ Accept(sc, m) = After(d, <<>>)
      \/ Accept(sc, m) = Failed(d)
      \/ Accept(sc, m) = After(e, <<progress, staged>>)
  BY DEF Accept
<1> HIDE DEF d
<1>5. d \in ScannerType
  BY <1>3 DEF Kept
<1>6. CASE Accept(sc, m) = After(d, <<>>)
  BY <1>3, <1>6, NackReply
<1>7. CASE Accept(sc, m) = Failed(d)
  BY <1>3, <1>5, <1>7, FailedReply, ReplyThrough
<1>8. CASE Accept(sc, m) = After(e, <<progress, staged>>)
  <2>1. Kept(d, e) /\ e.session = d.session /\ e.ota = "awaiting"
    BY <1>5 DEF Kept, ScannerType
  <2>2. /\ progress \in DownLine /\ progress.k = "progress"
        /\ staged \in DownLine /\ staged.k = "staged" /\ staged.s = sc.session
    BY <1>1, AnswerTyped DEF Answers
  <2> HIDE DEF e, progress, staged
  <2>3. /\ <<progress, staged>> \in Seq(DownLine)
        /\ Lines(<<progress, staged>>) = {progress, staged}
    BY <2>2, FewLines
  <2>4. Says(sc, m, <<progress, staged>>)
    BY <2>2, <2>3 DEF Says
  <2> QED BY <1>3, <1>8, <2>1, <2>4 DEF Reply, Kept, After
<1> QED BY <1>4, <1>6, <1>7, <1>8

LEMMA StagingReply ==
    ASSUME NEW sc, sc \in ScannerType, NEW m, m \in UpLine, sc.ota = "staging"
    PROVE  Reply(sc, m, Staging(sc, m))
<1>1. \A x \in {"no", "data", "discard"} :
        /\ Kept(sc, [sc EXCEPT !.mid = x]) /\ [sc EXCEPT !.mid = x].session = sc.session
        /\ [sc EXCEPT !.mid = x].ota = sc.ota
  BY DEF Kept, ScannerType
<1>2. \A x \in {"no", "data", "discard"} :
        /\ Reply(sc, m, After([sc EXCEPT !.mid = x], <<>>))
        /\ Reply(sc, m, After([sc EXCEPT !.mid = x], Nack(sc)))
  <2> TAKE x \in {"no", "data", "discard"}
  <2> DEFINE d == [sc EXCEPT !.mid = x]
  <2>1. Kept(sc, d) /\ d.session = sc.session /\ d.ota = sc.ota
    BY <1>1
  <2> HIDE DEF d
  <2>2. Reply(sc, m, After(d, <<>>)) /\ Reply(sc, m, After(d, Nack(sc)))
    BY <2>1, NackReply
  <2> QED BY <2>2 DEF d
<1>3. Reply(sc, m, Failed(sc))
  BY FailedReply
<1>4. Kept(sc, sc)
  BY DEF Kept
<1>5. Reply(sc, m, After(sc, <<>>)) /\ Reply(sc, m, After(sc, Nack(sc)))
  BY <1>4, NackReply
<1>6. ASSUME m.k \in Frames PROVE Reply(sc, m, Frame(sc, m))
  <2>1. Reply(sc, m, Accept(sc, m))
    BY <1>6, AcceptReply
  <2>2. sc.mid \in {"no", "data", "discard"}
    BY DEF ScannerType
  <2>3. CASE sc.mid = "discard"
    BY <1>2, <2>3 DEF Frame
  <2>4. CASE sc.mid = "data"
    BY <1>2, <2>4 DEF Frame
  <2>5. CASE sc.mid = "no" /\ m.k = "badlen"
    BY <1>3, <2>5 DEF Frame
  <2>6. CASE sc.mid = "no" /\ m.k # "badlen" /\ m.n # Len(sc.buffer)
    <3>1. Frame(sc, m) = After([sc EXCEPT !.mid = IF m.k = "short" THEN "discard" ELSE "no"],
                               Nack(sc))
      BY <2>6 DEF Frame
    <3> QED BY <3>1, <1>2
  <2>7. CASE sc.mid = "no" /\ m.k # "badlen" /\ m.n = Len(sc.buffer)
    <3>1. Frame(sc, m) = CASE m.k = "short"  -> After([sc EXCEPT !.mid = "data"], <<>>)
                           [] m.k = "badcrc" -> After(sc, Nack(sc))
                           [] m.k = "chunk"  -> Accept(sc, m)
      BY <2>7 DEF Frame
    <3>2. m.k \in {"short", "badcrc", "chunk"}
      BY <1>6, <2>7 DEF Frames
    <3>3. CASE m.k = "short"
      BY <1>2, <3>1, <3>3
    <3>4. CASE m.k = "badcrc"
      BY <1>5, <3>1, <3>4
    <3>5. CASE m.k = "chunk"
      BY <2>1, <3>1, <3>5
    <3> QED BY <3>2, <3>3, <3>4, <3>5
  <2> QED BY <2>2, <2>3, <2>4, <2>5, <2>6, <2>7
<1> QED BY <1>3, <1>5, <1>6 DEF Staging

LEMMA ErrorReply ==
    ASSUME NEW sc, sc \in ScannerType, NEW m, NEW d, Kept(sc, d), NEW s, s \in Nat,
           d.session \in {sc.session, 0} \/ (m.k = "begin" /\ d.session = m.s),
           d.ota \in {sc.ota, "idle"}, sc.ota # "rebooting"
    PROVE  Reply(sc, m, After(d, <<Msg("error", s, 0)>>))
<1>1. "error" \in Answers \ {"staged"} /\ 0 \in Nat
  BY DEF Answers
<1>2. Says(sc, m, <<Msg("error", s, 0)>>)
  BY <1>1, SaysLittle
<1> QED BY <1>2 DEF Reply, After

Resting(sc) == sc.ota \in {"idle", "awaiting"}

LEMMA StartStopReply ==
    ASSUME NEW sc, sc \in ScannerType, NEW m, Resting(sc)
    PROVE  Reply(sc, m, After(Start(sc), <<>>)) /\ Reply(sc, m, Stop(sc))
<1>1. sc.ota # "rebooting"
  BY DEF Resting
<1>2. Kept(sc, Start(sc)) /\ Start(sc).session = sc.session /\ Start(sc).ota = sc.ota
  BY DEF Kept, ScannerType, Start
<1>3. Reply(sc, m, After(Start(sc), <<>>))
  BY <1>1, <1>2, NackReply
<1> DEFINE d == [sc EXCEPT !.tx = FALSE]
<1>4. Kept(sc, d) /\ d.session = sc.session /\ d.ota = sc.ota
  BY DEF Kept, ScannerType
<1>5. Stop(sc) = After(d, <<Msg("stop_ack", 0, 0)>>)
  BY DEF Stop
<1> HIDE DEF d
<1>6. "stop_ack" \in Answers \ {"staged"} /\ 0 \in Nat
  BY DEF Answers
<1>7. Says(sc, m, <<Msg("stop_ack", 0, 0)>>)
  BY <1>6, SaysLittle
<1>8. Reply(sc, m, Stop(sc))
  BY <1>1, <1>4, <1>5, <1>7 DEF Reply, After
<1> QED BY <1>3, <1>8

\* What a scanner announces is of the image it runs.
LEMMA InfoTyped ==
    ASSUME NEW sc, sc \in ScannerType
    PROVE  /\ Info(sc) \in Identity /\ Info(sc).k = "info" /\ Info(sc).image = sc.image
           /\ Info(sc).pending = sc.pending /\ Info(sc).boot = sc.boot
BY DEF Info, Identity, ScannerType

LEMMA OfferReply ==
    ASSUME NEW sc, sc \in ScannerType, NEW m, Resting(sc)
    PROVE  Reply(sc, m, Offer(sc))
<1> DEFINE a == [sc EXCEPT !.fw = "refused", !.latch = FALSE, !.backoff = TRUE]
           b == [sc EXCEPT !.fw = "deferred"]
           d == [sc EXCEPT !.tx = FALSE, !.fw = "ready", !.latch = TRUE]
           ready == Msg("ready", 0, 0)
           info == Info(sc)
<1>1. sc.ota # "rebooting"
  BY DEF Resting
<1>2. Kept(sc, a) /\ a.session = sc.session /\ a.ota = sc.ota
  BY DEF Kept, ScannerType
<1>3. Kept(sc, b) /\ b.session = sc.session /\ b.ota = sc.ota
  BY DEF Kept, ScannerType
<1>4. Kept(sc, d) /\ d.session = sc.session /\ d.ota = sc.ota
  BY DEF Kept, ScannerType
<1>5. \/ Offer(sc) = After(a, <<>>)
      \/ Offer(sc) = After(b, <<>>)
      \/ sc.image # "new" /\ Offer(sc) = After(d, <<ready, info>>)
  BY DEF Offer
<1>6. /\ ready \in DownLine /\ ready.k = "ready"
      /\ info \in DownLine /\ info.k = "info" /\ info.image = sc.image
  BY AnswerTyped, InfoTyped DEF Answers, DownLine
<1> HIDE DEF a, b, d, ready, info
<1>7. CASE Offer(sc) = After(a, <<>>)
  BY <1>1, <1>2, <1>7, NackReply
<1>8. CASE Offer(sc) = After(b, <<>>)
  BY <1>1, <1>3, <1>8, NackReply
<1>9. CASE sc.image # "new" /\ Offer(sc) = After(d, <<ready, info>>)
  <2>1. <<ready, info>> \in Seq(DownLine) /\ Lines(<<ready, info>>) = {ready, info}
    BY <1>6, FewLines
  <2>2. info.image = "old"
    BY <1>6, <1>9 DEF ScannerType, Images
  <2>3. Says(sc, m, <<ready, info>>)
    BY <1>6, <2>1, <2>2 DEF Says
  <2> QED BY <1>1, <1>4, <1>9, <2>3 DEF Reply, After
<1> QED BY <1>5, <1>7, <1>8, <1>9

LEMMA BeginReply ==
    ASSUME NEW sc, sc \in ScannerType, NEW m, m \in UpLine, m.k = "begin", Resting(sc)
    PROVE  Reply(sc, m, Begin(sc, m))
<1> DEFINE d == CleanedUp(sc)
           e == [d EXCEPT !.session = m.s]
           u == Unlatched(e)
           f == [d EXCEPT !.ota = "staging", !.session = m.s, !.same = (m.n = 1),
                          !.fw = "updating"]
           v == Unlatched(sc)
<1>1. sc.ota # "rebooting" /\ m.s \in Nat /\ 0 \in Nat
  BY DEF Resting, UpLine
<1>2. Kept(sc, d) /\ d.ota = "idle"
  BY CleanedFacts
<1>3. \/ Begin(sc, m) = After(u, <<Msg("error", m.s, 0)>>)
      \/ Begin(sc, m) = After(f, <<Msg("ack", m.s, 0)>>)
      \/ Begin(sc, m) = After(v, <<Msg("error", 0, 0)>>)
  BY DEF Begin, BeginUpdate
<1> HIDE DEF d
<1>4. d \in ScannerType
  BY <1>2 DEF Kept
<1>5. Kept(sc, v) /\ v.ota = sc.ota /\ v.session = sc.session
  BY ErredFacts
<1>6. Kept(d, e) /\ e.session = m.s /\ e.ota = "idle"
  BY <1>1, <1>2, <1>4 DEF Kept, ScannerType
<1>7. Kept(d, f) /\ f.session = m.s /\ f.ota = "staging"
  <2> DEFINE same == (m.n = 1)
  <2>1. same \in BOOLEAN
    OBVIOUS
  <2>2. f = [d EXCEPT !.ota = "staging", !.session = m.s, !.same = same, !.fw = "updating"]
    OBVIOUS
  <2> HIDE DEF same, f
  <2> QED BY <1>1, <1>4, <2>1, <2>2 DEF Kept, ScannerType
<1> HIDE DEF e, f, v
<1>8. e \in ScannerType
  BY <1>6 DEF Kept
<1>9. Kept(e, u) /\ u.ota = e.ota /\ u.session = e.session
  BY <1>8, ErredFacts
<1> HIDE DEF u
<1>10. CASE Begin(sc, m) = After(u, <<Msg("error", m.s, 0)>>)
  <2>1. Kept(sc, u) /\ u.ota = "idle" /\ u.session = m.s
    BY <1>2, <1>6, <1>9 DEF Kept
  <2> QED BY <1>1, <1>10, <2>1, ErrorReply
<1>11. CASE Begin(sc, m) = After(v, <<Msg("error", 0, 0)>>)
  BY <1>1, <1>5, <1>11, ErrorReply
<1>12. CASE Begin(sc, m) = After(f, <<Msg("ack", m.s, 0)>>)
  <2>1. "ack" \in Answers \ {"staged"}
    BY DEF Answers
  <2>2. Says(sc, m, <<Msg("ack", m.s, 0)>>)
    BY <1>1, <2>1, SaysLittle
  <2>3. Kept(sc, f)
    BY <1>2, <1>7 DEF Kept
  <2> QED BY <1>7, <1>12, <2>2, <2>3 DEF Reply, After
<1> QED BY <1>3, <1>10, <1>11, <1>12

LEMMA EndAbortReply ==
    ASSUME NEW sc, sc \in ScannerType, NEW m, m \in UpLine, Resting(sc)
    PROVE  Reply(sc, m, EndOf(sc, m)) /\ Reply(sc, m, Abort(sc, m))
<1> DEFINE f == [sc EXCEPT !.ota = "flashing"]
           c == CleanedUp(sc)
           u == Unlatched(c)
<1>1. sc.ota # "rebooting" /\ 0 \in Nat /\ m.s \in Nat /\ Kept(sc, sc)
  BY DEF Resting, Kept, UpLine
<1>2. Reply(sc, m, After(sc, <<Msg("error", 0, 0)>>))
  BY <1>1, ErrorReply
<1>3. /\ EndOf(sc, m) = IF Active(sc, m) THEN After(f, <<>>)
                        ELSE After(sc, <<Msg("error", 0, 0)>>)
      /\ Abort(sc, m) = IF Active(sc, m) THEN After(u, <<Msg("error", m.s, 0)>>)
                        ELSE After(sc, <<Msg("error", 0, 0)>>)
  BY DEF EndOf, Abort
<1>4. Kept(sc, f) /\ f.session = sc.session /\ f.ota = "flashing"
  BY DEF Kept, ScannerType
<1>5. Kept(sc, c) /\ c.session = 0 /\ c.ota = "idle"
  BY CleanedFacts
<1> HIDE DEF f, c
<1>6. Kept(c, u) /\ u.session = c.session /\ u.ota = c.ota
  BY <1>5, ErredFacts DEF Kept
<1> HIDE DEF u
<1>7. Active(sc, m) => Reply(sc, m, After(f, <<>>))
  <2>1. Says(sc, m, <<>>)
    BY SaysLittle
  <2> QED BY <1>4, <2>1 DEF Reply, After, Active
<1>8. Reply(sc, m, After(u, <<Msg("error", m.s, 0)>>))
  <2>1. Kept(sc, u) /\ u.session = 0 /\ u.ota = "idle"
    BY <1>5, <1>6 DEF Kept
  <2> QED BY <1>1, <2>1, ErrorReply
<1> QED BY <1>2, <1>3, <1>7, <1>8

LEMMA ReceivedReply ==
    ASSUME NEW sc, sc \in ScannerType, NEW m, m \in UpLine,
           sc.ota \notin {"flashing", "rebooting"}
    PROVE  Reply(sc, m, Received(sc, m))
<1>1. CASE sc.ota = "staging"
  BY <1>1, StagingReply DEF Received
<1>2. CASE sc.ota # "staging"
  <2> DEFINE d == [sc EXCEPT !.told = TRUE]
             g == [sc EXCEPT !.garbage = TRUE]
             c == [sc EXCEPT !.garbage = FALSE]
  <2>1. Resting(sc) /\ sc.ota # "rebooting"
    BY <1>2 DEF ScannerType, Resting
  <2>2. Kept(sc, d) /\ d.session = sc.session /\ d.ota = sc.ota
    BY DEF Kept, ScannerType
  <2>3. Kept(sc, g) /\ g.session = sc.session /\ g.ota = sc.ota
    BY DEF Kept, ScannerType
  <2>4. Kept(sc, c) /\ c.session = sc.session /\ c.ota = sc.ota
    BY DEF Kept, ScannerType
  <2>5. /\ m.k \in Frames => Command(sc, m) = After(g, <<>>)
        /\ m.k \notin Frames /\ (sc.garbage \/ m.k = "sentinel") =>
             Command(sc, m) = After(c, <<>>)
        /\ m.k \notin Frames /\ ~(sc.garbage \/ m.k = "sentinel") =>
             Command(sc, m) = CASE m.k = "start" -> After(Start(d), <<>>)
                                [] m.k = "stop"  -> Stop(d)
                                [] m.k = "offer" -> Offer(d)
                                [] m.k = "begin" -> Begin(d, m)
                                [] m.k = "end"   -> EndOf(d, m)
                                [] m.k = "abort" -> Abort(d, m)
    BY DEF Command
  <2> HIDE DEF d, g, c
  <2>6. d \in ScannerType /\ Resting(d)
    BY <2>1, <2>2 DEF Kept, Resting
  <2>7. Reply(sc, m, After(g, <<>>)) /\ Reply(sc, m, After(c, <<>>))
    BY <2>1, <2>3, <2>4, NackReply
  <2>8. ASSUME m.k \notin Frames, ~(sc.garbage \/ m.k = "sentinel")
        PROVE  Reply(d, m, Command(sc, m))
    <3>1. m.k \in {"start", "stop", "offer", "begin", "end", "abort"}
      BY <2>8 DEF UpLine, Commands
    <3>2. CASE m.k = "start"
      BY <2>5, <2>6, <2>8, <3>2, StartStopReply
    <3>3. CASE m.k = "stop"
      BY <2>5, <2>6, <2>8, <3>3, StartStopReply
    <3>4. CASE m.k = "offer"
      BY <2>5, <2>6, <2>8, <3>4, OfferReply
    <3>5. CASE m.k = "begin"
      BY <2>5, <2>6, <2>8, <3>5, BeginReply
    <3>6. CASE m.k = "end"
      BY <2>5, <2>6, <2>8, <3>6, EndAbortReply
    <3>7. CASE m.k = "abort"
      BY <2>5, <2>6, <2>8, <3>7, EndAbortReply
    <3> QED BY <3>1, <3>2, <3>3, <3>4, <3>5, <3>6, <3>7
  <2>9. ASSUME m.k \notin Frames, ~(sc.garbage \/ m.k = "sentinel")
        PROVE  Reply(sc, m, Command(sc, m))
    BY <2>2, <2>8, <2>9, ReplyThrough
  <2>10. Reply(sc, m, Command(sc, m))
    BY <2>5, <2>7, <2>9
  <2> QED BY <1>2, <2>10 DEF Received
<1> QED BY <1>1, <1>2

\* A restart leaves the image that the boot loader is to start.
LEMMA RestartedFacts ==
    ASSUME NEW sc, sc \in ScannerType
    PROVE  /\ Restarted(sc) \in ScannerType /\ Restarted(sc).session = 0
           /\ Restarted(sc).next = Restarted(sc).image
           /\ Settled(sc) => Settled(Restarted(sc))
<1>1. sc.boot + 1 \in Nat /\ sc.image \in Images
  BY DEF ScannerType
<1>2. \A image \in Images, pending \in BOOLEAN :
        LET b == Booted(sc.boot + 1, image, pending) IN
          /\ b \in ScannerType /\ b.session = 0 /\ b.next = image /\ b.image = image
          /\ b.pending = pending /\ b.ota = "idle"
  <2> TAKE image \in Images, pending \in BOOLEAN
  <2>1. <<>> \in Seq(Nat)
    OBVIOUS
  <2> QED BY <1>1, <2>1 DEF Booted, ScannerType
<1>3. \E image \in Images, pending \in BOOLEAN :
        /\ Restarted(sc) = Booted(sc.boot + 1, image, pending)
        /\ Settled(sc) => image = "new" /\ ~pending
  <2>1. CASE sc.ota # "rebooting" /\ sc.pending
    <3>1. Restarted(sc) = Booted(sc.boot + 1, "old", FALSE) /\ ~Settled(sc)
      BY <2>1 DEF Restarted, Settled
    <3> QED BY <3>1 DEF Images
  <2>2. CASE ~(sc.ota # "rebooting" /\ sc.pending) /\ (sc.next # sc.image \/ sc.ota = "rebooting")
    <3>1. Restarted(sc) = Booted(sc.boot + 1, "new", TRUE) /\ ~Settled(sc)
      BY <2>2 DEF Restarted, Settled
    <3> QED BY <3>1 DEF Images
  <2>3. CASE ~(sc.ota # "rebooting" /\ sc.pending) /\ ~(sc.next # sc.image \/ sc.ota = "rebooting")
    <3>1. Restarted(sc) = Booted(sc.boot + 1, sc.image, FALSE)
      BY <2>3 DEF Restarted
    <3> QED BY <1>1, <3>1 DEF Settled
  <2> QED BY <2>1, <2>2, <2>3
<1> QED BY <1>2, <1>3 DEF Settled

-----------------------------------------------------------------------------
(* The steps of the scanner.                                               *)
LEMMA ReceiveStep ==
    ASSUME IInv, Receive
    PROVE  IInv'
<1> DEFINE m == Head(up)
           r == Received(scanner, m)
<1>1. /\ up \in Seq(UpLine) /\ up # <<>> /\ down \in Seq(DownLine) /\ scanner \in ScannerType
      /\ scanner.ota \notin {"flashing", "rebooting"}
      /\ scanner' = r.sc /\ down' = down \o r.out /\ up' = Tail(up)
      /\ relay' = relay /\ seen' = seen
  BY DEF Receive, Listening, IInv, Typed
<1> HIDE DEF m, r
<1>2. /\ m \in UpLine /\ m \in Lines(up) /\ up' \in Seq(UpLine)
      /\ Lines(up') \subseteq Lines(up) /\ BeginFirst(up') /\ NoBegin(up')
  BY <1>1, LinesTaken DEF m, IInv, Ending
<1>3. Reply(scanner, m, r)
  BY <1>1, <1>2, ReceivedReply DEF r
<1>4. r.sc \in ScannerType /\ r.out \in Seq(DownLine)
  BY <1>3 DEF Reply, Kept, Says
<1>5. /\ down' \in Seq(DownLine) /\ Lines(down') = Lines(down) \cup Lines(r.out)
  BY <1>1, <1>4, LinesJoined
<1>6. Typed'
  BY <1>1, <1>2, <1>4, <1>5 DEF IInv, Typed
<1>7. ScannerKeeps
  <2>1. \/ scanner'.session \in {scanner.session, 0}
        \/ \E o \in Lines(up) : o.k = "begin" /\ scanner'.session = o.s
    BY <1>1, <1>2, <1>3 DEF Reply
  <2>2. Settled(scanner) /\ NoBegin(up) => Settled(scanner')
    BY <1>1, <1>2, <1>3 DEF Reply, Kept, Settled, NoBegin
  <2>3. scanner'.next = scanner'.image
    BY <1>1, <1>3 DEF Reply, Kept, IInv, Evidence
  <2> QED BY <2>1, <2>2, <2>3 DEF ScannerKeeps
<1>8. \A o \in Lines(up') : Carried(o)
  BY <1>2 DEF Carried
<1>9. \A o \in Lines(r.out) : Said(o)
  <2> SUFFICES ASSUME NEW o \in Lines(r.out) PROVE Said(o)
    OBVIOUS
  <2>1. /\ o.k = "staged" => m.k \in Frames /\ o.s = scanner.session
        /\ o.k = "info" => o.image = "old"
    BY <1>3 DEF Reply, Says
  <2> QED BY <1>2, <2>1 DEF Said, NoFrame
<1>10. Minor
  BY <1>1, <1>2, <1>5, <1>7, <1>8, <1>9 DEF Minor, SameRelay
<1> QED BY <1>6, <1>10, MinorStep

\* The scanner changes by itself: nothing is added to the wire to it.
ByItself ==
    /\ relay' = relay /\ seen' = seen /\ up' \in {up, <<>>}
    /\ scanner' \in ScannerType /\ scanner'.session \in {scanner.session, 0}
    /\ Settled(scanner) => Settled(scanner')
    /\ scanner'.ota # "rebooting" => scanner'.next = scanner'.image

LEMMA ByItselfStep ==
    ASSUME IInv, ByItself,
           \/ down' = down
           \/ \E m \in DownLine : down' = Append(down, m) /\ m.k # "staged" /\ Said(m)
    PROVE  IInv'
<1>1. /\ up \in Seq(UpLine) /\ down \in Seq(DownLine) /\ relay \in RelayType
      /\ seen \in Identity /\ BeginFirst(up)
  BY DEF IInv, Typed, Ending
<1>2. /\ <<>> \in Seq(UpLine) /\ Lines(<<>>) = {} /\ BeginFirst(<<>>)
  BY FewLines
<1>3. up' \in Seq(UpLine) /\ BeginFirst(up') /\ Lines(up') \subseteq Lines(up)
  BY <1>1, <1>2 DEF ByItself
<1>4. down' \in Seq(DownLine) /\ \A m \in Lines(down') : m \in Lines(down) \/ Said(m)
  <2>1. CASE down' = down
    BY <1>1, <2>1
  <2>2. ASSUME NEW m \in DownLine, down' = Append(down, m), Said(m)
        PROVE  /\ down' \in Seq(DownLine)
               /\ \A o \in Lines(down') : o \in Lines(down) \/ Said(o)
    <3>1. down' \in Seq(DownLine) /\ Lines(down') = Lines(down) \cup {m}
      BY <1>1, <2>2, LinesAppended
    <3> QED BY <2>2, <3>1
  <2> QED BY <2>1, <2>2
<1>5. Typed'
  BY <1>1, <1>3, <1>4 DEF Typed, ByItself
<1>6. ScannerKeeps
  BY DEF ByItself, ScannerKeeps
<1>7. Minor
  BY <1>3, <1>4, <1>6 DEF Minor, SameRelay, ByItself, Carried
<1> QED BY <1>5, <1>7, MinorStep

LEMMA RestartStep ==
    ASSUME IInv, Reboot \/ PowerCut \/ Crash
    PROVE  IInv'
<1>1. scanner \in ScannerType /\ relay.session \in Nat /\ scanner.session \in Nat
  BY DEF IInv, Typed, ScannerType, RelayType
<1>2. /\ scanner' = Restarted(scanner) /\ up' = <<>> /\ relay' = relay /\ seen' = seen
      /\ down' = down \/ down' = Append(down, Msg("done", scanner.session, 0))
  BY DEF Reboot, PowerCut, Crash
<1>3. ByItself
  BY <1>1, <1>2, RestartedFacts DEF ByItself
<1> DEFINE m == Msg("done", scanner.session, 0)
<1>4. m \in DownLine /\ m.k = "done"
  BY <1>1, AnswerTyped DEF Answers
<1> HIDE DEF m
<1>5. Said(m) /\ m.k # "staged"
  BY <1>4 DEF Said
<1>6. down' = down \/ down' = Append(down, m)
  BY <1>2 DEF m
<1>7. \/ down' = down
      \/ \E o \in DownLine : down' = Append(down, o) /\ o.k # "staged" /\ Said(o)
  BY <1>4, <1>5, <1>6
<1> QED BY <1>3, <1>7, ByItselfStep

\* A failure tells its error and leaves the scanner idle.
LEMMA FailingStep ==
    ASSUME IInv, FlashError \/ Watchdog
    PROVE  IInv'
<1> DEFINE f == Failed(scanner).sc
           u == Unlatched(f)
           m == Msg("error", scanner.session, 0)
<1>1. /\ scanner \in ScannerType /\ scanner.session \in Nat /\ down \in Seq(DownLine)
      /\ scanner.ota # "rebooting" => scanner.next = scanner.image
  BY DEF IInv, Typed, ScannerType, Evidence
<1>2. Kept(scanner, f) /\ f.ota = "idle" /\ f.session = 0 /\ Failed(scanner).out = <<m>>
  BY <1>1, FailedFacts
<1>3. FlashFailed(scanner).sc = u /\ FlashFailed(scanner).out = Failed(scanner).out
  BY DEF FlashFailed, Failed, After
<1>4. /\ scanner' \in {f, u} /\ down' = down \o Failed(scanner).out
      /\ relay' = relay /\ seen' = seen /\ up' = up
      /\ scanner.ota \in {"flashing", "staging", "awaiting"}
  BY <1>3 DEF FlashError, Watchdog, Watched
<1>5. m \in DownLine /\ m.k = "error"
  BY <1>1, AnswerTyped DEF Answers
<1> HIDE DEF f, m
<1>6. Kept(f, u) /\ u.ota = f.ota /\ u.session = f.session
  BY <1>2, ErredFacts DEF Kept
<1> HIDE DEF u
<1>7. Kept(scanner, scanner') /\ scanner'.ota = "idle" /\ scanner'.session = 0
  BY <1>2, <1>4, <1>6 DEF Kept
<1>8. ByItself
  BY <1>1, <1>4, <1>7 DEF ByItself, Kept, Settled
<1>9. down' = Append(down, m)
  BY <1>1, <1>2, <1>4, <1>5
<1>10. m.k # "staged" /\ Said(m)
  BY <1>5 DEF Said
<1> QED BY <1>5, <1>8, <1>9, <1>10, ByItselfStep

LEMMA ScannerAloneStep ==
    ASSUME IInv, Flash \/ MarkValid \/ AutoStart \/ BackoffEnds
    PROVE  IInv'
<1>1. /\ scanner \in ScannerType
      /\ scanner.ota # "rebooting" => scanner.next = scanner.image
  BY DEF IInv, Typed, Evidence
<1>2. CASE Flash
  BY <1>1, <1>2, ByItselfStep DEF Flash, Flashed, ByItself, ScannerType, Settled, Images
<1>3. CASE MarkValid
  BY <1>1, <1>3, ByItselfStep DEF MarkValid, ByItself, ScannerType, Settled
<1>4. CASE AutoStart
  BY <1>1, <1>4, ByItselfStep DEF AutoStart, ByItself, ScannerType, Settled
<1>5. CASE BackoffEnds
  BY <1>1, <1>5, ByItselfStep DEF BackoffEnds, ByItself, ScannerType, Settled
<1> QED BY <1>2, <1>3, <1>4, <1>5

LEMMA AnnounceStep ==
    ASSUME IInv, Announce
    PROVE  IInv'
<1> DEFINE m == Info(scanner)
<1>1. /\ scanner \in ScannerType /\ scanner.ota = "idle" /\ ~relay.paused
      /\ scanner.next = scanner.image
      /\ scanner' = scanner /\ down' = Append(down, m) /\ relay' = relay /\ seen' = seen
      /\ up' = up
  BY DEF IInv, Typed, Evidence, Announce
<1>2. /\ m \in Identity /\ m.k = "info" /\ m.image = scanner.image
      /\ m.pending = scanner.pending
  BY <1>1, InfoTyped
<1> HIDE DEF m
<1>3. m \in DownLine /\ m.k # "staged"
  BY <1>2 DEF DownLine
<1>4. Said(m)
  BY <1>1, <1>2 DEF Said, Settled
<1>5. ByItself
  BY <1>1 DEF ByItself
<1> QED BY <1>1, <1>3, <1>4, <1>5, ByItselfStep

LEMMA ScannerStep ==
    ASSUME IInv, Scanner
    PROVE  IInv'
BY ReceiveStep, RestartStep, FailingStep, ScannerAloneStep, AnnounceStep DEF Scanner

-----------------------------------------------------------------------------
(* The wires by themselves, and what the uplink sends without moving on.   *)
LEMMA UpChanges ==
    ASSUME IInv, SameRelay, relay' \in RelayType,
           seen' = seen, scanner' = scanner, down' = down,
           up' \in Seq(UpLine), BeginFirst(up'), \A m \in Lines(up') : Carried(m) \/ Harmless(m)
    PROVE  IInv'
<1>1. Typed'
  BY DEF IInv, Typed
<1>2. ScannerKeeps
  BY DEF IInv, Evidence, ScannerKeeps
<1>3. Minor
  BY <1>2 DEF Minor
<1> QED BY <1>1, <1>3, MinorStep

LEMMA DownShrinks ==
    ASSUME IInv, SameRelay, relay' \in RelayType,
           seen' = seen, scanner' = scanner, up' = up,
           down' \in Seq(DownLine), Lines(down') \subseteq Lines(down)
    PROVE  IInv'
<1>1. Typed'
  BY DEF IInv, Typed
<1>2. ScannerKeeps
  BY DEF IInv, Evidence, ScannerKeeps
<1>3. Minor
  BY <1>2 DEF Minor, Carried, IInv, Ending
<1> QED BY <1>1, <1>3, MinorStep

LEMMA HarmlessSent ==
    ASSUME IInv, SameRelay, relay' \in RelayType,
           seen' = seen, scanner' = scanner, down' = down,
           NEW m, m \in UpLine, Harmless(m), up' = Append(up, m)
    PROVE  IInv'
<1>1. up \in Seq(UpLine) /\ BeginFirst(up) /\ m.k # "begin"
  BY DEF IInv, Typed, Ending, Harmless
<1>2. up' \in Seq(UpLine) /\ Lines(up') = Lines(up) \cup {m} /\ BeginFirst(up')
  BY <1>1, LinesAppended
<1>3. \A o \in Lines(up') : Carried(o) \/ Harmless(o)
  BY <1>2 DEF Carried
<1> QED BY <1>2, <1>3, UpChanges

LEMMA CommandTyped ==
    ASSUME NEW k, k \in Commands \cup Frames, NEW s, s \in Nat, NEW n, n \in Nat
    PROVE  Msg(k, s, n) \in UpLine /\ Msg(k, s, n).k = k /\ Msg(k, s, n).s = s
BY DEF Msg, UpLine

LEMMA LinkStep ==
    ASSUME IInv, Link
    PROVE  IInv'
<1>1. /\ up \in Seq(UpLine) /\ down \in Seq(DownLine) /\ relay \in RelayType /\ BeginFirst(up)
      /\ relay' = relay /\ seen' = seen /\ scanner' = scanner
  BY DEF IInv, Typed, Ending, Link, LoseUp, LoseDown, Damage
<1>2. SameRelay
  BY <1>1 DEF SameRelay
<1>3. CASE LoseUp
  <2>1. up # <<>> /\ up' = Tail(up) /\ down' = down
    BY <1>3 DEF LoseUp
  <2>2. up' \in Seq(UpLine) /\ BeginFirst(up') /\ Lines(up') \subseteq Lines(up)
    BY <1>1, <2>1, LinesTaken
  <2> QED BY <1>1, <1>2, <2>1, <2>2, UpChanges DEF Carried
<1>4. CASE LoseDown
  <2>1. down # <<>> /\ down' = Tail(down) /\ up' = up
    BY <1>4 DEF LoseDown
  <2>2. down' \in Seq(DownLine) /\ Lines(down') \subseteq Lines(down)
    BY <1>1, <2>1, LinesTaken
  <2> QED BY <1>1, <1>2, <2>1, <2>2, DownShrinks
<1>5. ASSUME NEW kind \in Frames \ {"chunk"}, Damage(kind) PROVE IInv'
  <2> DEFINE m == Head(up)
             x == [m EXCEPT !.k = kind]
             rest == Tail(up)
  <2>1. up # <<>> /\ m.k = "chunk" /\ up' = <<x>> \o rest /\ down' = down
    BY <1>5 DEF Damage
  <2>2. /\ m \in UpLine /\ rest \in Seq(UpLine) /\ m \in Lines(up)
        /\ Lines(rest) \subseteq Lines(up) /\ NoBegin(rest)
    BY <1>1, <2>1, LinesTaken
  <2> HIDE DEF m, rest
  <2>3. x \in UpLine /\ x.k = kind /\ x.s = m.s
    BY <1>5, <2>2 DEF UpLine
  <2> HIDE DEF x
  <2>4. <<x>> \in Seq(UpLine) /\ Lines(<<x>>) = {x} /\ BeginFirst(<<x>>)
    BY <2>3, FewLines DEF BeginFirst
  <2> DEFINE first == <<x>>
  <2>5. /\ first \in Seq(UpLine) /\ Lines(first) = {x} /\ BeginFirst(first)
        /\ up' = first \o rest
    BY <2>1, <2>4
  <2> HIDE DEF first
  <2>6. /\ first \o rest \in Seq(UpLine)
        /\ Lines(first \o rest) = Lines(first) \cup Lines(rest)
        /\ BeginFirst(first) /\ NoBegin(rest) => BeginFirst(first \o rest)
    BY <2>2, <2>5, LinesJoined
  <2>7. /\ up' \in Seq(UpLine) /\ Lines(up') = {x} \cup Lines(rest) /\ BeginFirst(up')
    BY <2>2, <2>5, <2>6
  <2>8. m.k \in Frames /\ x.k \in Frames
    BY <1>5, <2>1, <2>3 DEF Frames
  <2>9. \A o \in Lines(up') : Carried(o)
    BY <2>2, <2>3, <2>7, <2>8 DEF Carried
  <2> QED BY <1>1, <1>2, <2>1, <2>7, <2>9, UpChanges
<1> QED BY <1>3, <1>4, <1>5 DEF Link

LEMMA ReadySentStep ==
    ASSUME IInv, SendReady \/ SendOffer \/ HealthProbe
    PROVE  IInv'
<1> DEFINE a == Msg("start", 0, 0)
           b == Msg("offer", 0, 0)
<1>1. relay \in RelayType /\ relay.session \in Nat /\ relay.sends + 1 \in Nat
  BY DEF IInv, Typed, RelayType
<1>2. /\ seen' = seen /\ scanner' = scanner /\ down' = down
      /\ relay' \in {relay, [relay EXCEPT !.sends = @ + 1]}
      /\ up' \in {Append(up, a), Append(up, b)}
  BY DEF SendReady, SendOffer, HealthProbe, Send
<1>3. relay' \in RelayType /\ SameRelay
  BY <1>1, <1>2 DEF RelayType, SameRelay
<1>4. a \in UpLine /\ b \in UpLine /\ a.k = "start" /\ b.k = "offer" /\ a.s = 0 /\ b.s = 0
  BY CommandTyped DEF Commands
<1> HIDE DEF a, b
<1>5. Harmless(a) /\ Harmless(b)
  BY <1>1, <1>4 DEF Harmless, Frames
<1> QED BY <1>2, <1>3, <1>4, <1>5, HarmlessSent

LEMMA CommandSentStep ==
    ASSUME IInv, SendCommand
    PROVE  IInv'
<1>1. /\ relay \in RelayType /\ relay.session \in Nat /\ relay.sends + 1 \in Nat
      /\ up = <<>> /\ up \in Seq(UpLine) /\ relay.pc \in {"stop", "begin", "end"}
  BY DEF IInv, Typed, RelayType, SendCommand
<1>2. /\ seen' = seen /\ scanner' = scanner /\ down' = down
      /\ relay' = [relay EXCEPT !.sends = @ + 1] /\ up' = Append(up, Sending)
  BY DEF SendCommand, Send
<1>3. relay' \in RelayType /\ SameRelay
  BY <1>1, <1>2 DEF RelayType, SameRelay
<1> DEFINE a == Msg("stop", 0, 0)
           b == Msg("begin", relay.session, Same)
           d == Msg("end", relay.session, 0)
<1>4. Same \in Nat
  BY DEF Same
<1>5. /\ a \in UpLine /\ a.k = "stop" /\ a.s = 0
      /\ b \in UpLine /\ b.k = "begin" /\ b.s = relay.session
      /\ d \in UpLine /\ d.k = "end" /\ d.s = relay.session
  <2>1. \A k \in {"stop", "begin", "end"} : k \in Commands \cup Frames
    BY DEF Commands
  <2>2. a \in UpLine /\ a.k = "stop" /\ a.s = 0
    BY <2>1, CommandTyped
  <2>3. b \in UpLine /\ b.k = "begin" /\ b.s = relay.session
    BY <1>1, <1>4, <2>1, CommandTyped
  <2>4. d \in UpLine /\ d.k = "end" /\ d.s = relay.session
    BY <1>1, <2>1, CommandTyped
  <2> QED BY <2>2, <2>3, <2>4
<1>6. /\ relay.pc = "stop" => Sending = a
      /\ relay.pc = "begin" => Sending = b
      /\ relay.pc = "end" => Sending = d
  BY DEF Sending
<1> HIDE DEF a, b, d
<1>7. Harmless(a) /\ Harmless(d)
  BY <1>1, <1>5 DEF Harmless, Frames
<1>8. CASE relay.pc = "stop"
  BY <1>2, <1>3, <1>5, <1>6, <1>7, <1>8, HarmlessSent
<1>9. CASE relay.pc = "end"
  BY <1>2, <1>3, <1>5, <1>6, <1>7, <1>9, HarmlessSent
<1>10. CASE relay.pc = "begin"
  <2>1. up' = Append(up, b)
    BY <1>2, <1>6, <1>10
  <2>2. up' \in Seq(UpLine) /\ Lines(up') = Lines(up) \cup {b} /\ BeginFirst(up')
    <3>1. BeginFirst(up)
      BY DEF IInv, Ending
    <3>2. up \in Seq(UpLine) /\ b \in UpLine
      BY <1>1, <1>5
    <3>3. /\ Append(up, b) \in Seq(UpLine) /\ Lines(Append(up, b)) = Lines(up) \cup {b}
          /\ BeginFirst(up) /\ (b.k # "begin" \/ up = <<>>) => BeginFirst(Append(up, b))
      BY <3>2, LinesAppended
    <3> QED BY <1>1, <2>1, <3>1, <3>3
  <2>3. Lines(up') = {b}
    BY <1>1, <2>2, FewLines
  <2>4. Typed'
    BY <1>2, <1>3, <2>2 DEF IInv, Typed
  <2>5. RelayShape'
    BY <1>3 DEF IInv, RelayShape, SameRelay
  <2>6. SessionsPast'
    BY <1>1, <1>2, <1>3, <1>5, <2>3 DEF IInv, SessionsPast, SameRelay
  <2>7. NoFrame(up')
    BY <1>5, <2>3 DEF NoFrame, Frames
  <2>8. Beginning'
    BY <1>2, <1>3, <1>10, <2>7 DEF IInv, Beginning, SameRelay, Staged
  <2>9. relay.result # "ok"
    BY <1>10 DEF IInv, RelayShape
  <2>10. Ending'
    BY <1>3, <1>10, <2>2, <2>9 DEF Ending, SameRelay
  <2>11. Evidence'
    BY <1>2, <1>3, <1>10, <2>9 DEF IInv, Evidence, SameRelay, Old
  <2> QED BY <2>4, <2>5, <2>6, <2>8, <2>10, <2>11 DEF IInv
<1> QED BY <1>1, <1>8, <1>9, <1>10

-----------------------------------------------------------------------------
(* The steps of the relay.                                                 *)

\* What a step of the relay leaves alone.
Listened == seen' = seen /\ scanner' = scanner /\ down' \in Seq(DownLine)
            /\ Lines(down') \subseteq Lines(down)

\* The relay goes on with its session.
Goes(pc) ==
    /\ relay' \in RelayType /\ relay'.pc = pc /\ relay'.session = relay.session
    /\ relay'.boot = relay.boot /\ relay'.result = relay.result
    /\ relay'.paused <=> pc \in Waiting

LEMMA TurnStep ==
    ASSUME IInv, relay.pc # "idle", NEW pc, Goes(pc), Turn, Listened, up' = up
    PROVE  IInv'
<1>1. Typed'
  BY DEF IInv, Typed, Goes, Listened
<1>2. Move
  BY DEF Move, Goes, Listened, IInv, Ending
<1> QED BY <1>1, <1>2, MoveStep

LEMMA GoGoes ==
    ASSUME IInv, NEW pc, pc \in Waiting, relay.paused, Go(pc)
    PROVE  Goes(pc)
<1>1. relay \in RelayType /\ None \in Nat
  BY ChunksAssumption DEF IInv, Typed, None
<1>2. relay' = [relay EXCEPT !.pc = pc, !.sends = 0, !.nack = None, !.accepted = FALSE]
  BY DEF Go
<1> QED BY <1>1, <1>2 DEF RelayType, Goes

LEMMA LineTaken ==
    ASSUME IInv, down # <<>>, down' = Tail(down), seen' = seen, scanner' = scanner
    PROVE  Listened /\ Head(down) \in DownLine /\ Head(down) \in Lines(down)
BY LinesTaken DEF IInv, Typed, Listened

LEMMA NoLineTaken ==
    ASSUME IInv, down' = down, seen' = seen, scanner' = scanner
    PROVE  Listened
BY DEF IInv, Typed, Listened

\* Nothing that a failed relay sends is a begin.
LEMMA FailStep ==
    ASSUME IInv, relay.pc # "idle", Fail, Listened
    PROVE  IInv'
<1> DEFINE abort == Msg("abort", relay.session, 0)
           sentinel == Msg("sentinel", 0, 0)
           start == Msg("start", 0, 0)
           given == IF relay.committed THEN <<>> ELSE <<abort, sentinel>>
           told == <<start>>
           mid == up \o given
<1>1. /\ relay \in RelayType /\ relay.session \in Nat /\ up \in Seq(UpLine)
      /\ BeginFirst(up)
  BY DEF IInv, Typed, RelayType, Ending
<1>2. /\ relay' = [relay EXCEPT !.pc = "idle", !.result = "failed", !.paused = FALSE]
      /\ up' = mid \o told
  BY DEF Fail
<1>3. /\ relay' \in RelayType /\ relay'.pc = "idle" /\ relay'.session = relay.session
      /\ relay'.boot = relay.boot /\ relay'.result = "failed" /\ ~relay'.paused
  BY <1>1, <1>2 DEF RelayType
<1>4. \A k \in {"abort", "sentinel", "start"} : k \in Commands \cup Frames
  BY DEF Commands
<1>5. abort \in UpLine /\ abort.k = "abort" /\ abort.s = relay.session
  BY <1>1, <1>4, CommandTyped
<1>6. sentinel \in UpLine /\ sentinel.k = "sentinel" /\ sentinel.s = 0
  BY <1>4, CommandTyped
<1>7. start \in UpLine /\ start.k = "start" /\ start.s = 0
  BY <1>4, CommandTyped
<1> DEFINE Fit(m) == m.k # "begin" /\ m.s <= relay.session
<1>8. Fit(abort) /\ Fit(sentinel) /\ Fit(start)
  BY <1>1, <1>5, <1>6, <1>7
<1> HIDE DEF abort, sentinel, start, Fit
<1>9. /\ <<>> \in Seq(UpLine) /\ Lines(<<>>) = {}
      /\ <<abort, sentinel>> \in Seq(UpLine) /\ Lines(<<abort, sentinel>>) = {abort, sentinel}
      /\ told \in Seq(UpLine) /\ Lines(told) = {start}
  BY <1>5, <1>6, <1>7, FewLines
<1>10. given \in Seq(UpLine) /\ \A m \in Lines(given) : Fit(m)
  BY <1>8, <1>9
<1> HIDE DEF given, told
<1>11. \A m : Fit(m) => m.k # "begin"
  BY DEF Fit
<1>12. NoBegin(given) /\ NoBegin(told)
  BY <1>8, <1>9, <1>10, <1>11 DEF NoBegin
<1>13. mid \in Seq(UpLine) /\ Lines(mid) = Lines(up) \cup Lines(given) /\ BeginFirst(mid)
  BY <1>1, <1>10, <1>12, LinesJoined
<1> HIDE DEF mid
<1>14. up' \in Seq(UpLine) /\ Lines(up') = Lines(mid) \cup Lines(told) /\ BeginFirst(up')
  BY <1>2, <1>9, <1>12, <1>13, LinesJoined
<1>15. \A m \in Lines(up') : m \in Lines(up) \/ Fit(m)
  BY <1>8, <1>9, <1>10, <1>13, <1>14
<1>16. Typed'
  BY <1>3, <1>14 DEF IInv, Typed, Listened
<1>17. Move
  BY <1>3, <1>14, <1>15 DEF Move, Turn, Listened, Fit, Waiting
<1> QED BY <1>16, <1>17, MoveStep

\* A line that is passed over.
LEMMA SkipStep ==
    ASSUME IInv, relay' = relay, up' = up, Listened
    PROVE  IInv'
<1>1. SameRelay /\ relay' \in RelayType
  BY DEF SameRelay, IInv, Typed
<1> QED BY <1>1, DownShrinks DEF Listened

LEMMA WaitStep ==
    ASSUME IInv, WaitLine \/ WaitTimeout
    PROVE  IInv'
<1>1. relay.pc \in {"stop", "begin"} /\ relay.pc # "idle" /\ relay.paused
  BY DEF WaitLine, WaitTimeout, IInv, RelayShape, Waiting
<1>2. Listened
  BY LineTaken, NoLineTaken DEF WaitLine, WaitTimeout
<1>3. \/ relay.pc = "stop" /\ Go("begin") /\ up' = up
      \/ relay.pc = "begin" /\ Go("send") /\ up' = up
      \/ Fail
      \/ relay' = relay /\ up' = up
  <2>1. CASE WaitTimeout
    BY <2>1 DEF WaitTimeout
  <2>2. CASE WaitLine
    BY <1>1, <2>2 DEF WaitLine
  <2> QED BY <2>1, <2>2
<1>4. CASE relay.pc = "stop" /\ Go("begin") /\ up' = up
  <2>1. Goes("begin")
    BY <1>1, <1>4, GoGoes DEF Waiting
  <2>2. Turn
    BY <1>4, <2>1 DEF Turn, Goes
  <2> QED BY <1>1, <1>2, <1>4, <2>1, <2>2, TurnStep
<1>5. CASE relay.pc = "begin" /\ Go("send") /\ up' = up
  <2>1. Goes("send")
    BY <1>1, <1>5, GoGoes DEF Waiting
  <2>2. Turn
    BY <1>5, <2>1 DEF Turn, Goes
  <2> QED BY <1>1, <1>2, <1>5, <2>1, <2>2, TurnStep
<1>6. CASE Fail
  BY <1>1, <1>2, <1>6, FailStep
<1>7. CASE relay' = relay /\ up' = up
  BY <1>2, <1>7, SkipStep
<1> QED BY <1>3, <1>4, <1>5, <1>6, <1>7

LEMMA ChunkSentStep ==
    ASSUME IInv, SendChunk
    PROVE  IInv'
<1> DEFINE m == Msg("chunk", relay.session, relay.seq)
<1>1. /\ relay \in RelayType /\ relay.session \in Nat /\ relay.seq \in Nat
      /\ up \in Seq(UpLine) /\ BeginFirst(up) /\ relay.pc = "send" /\ relay.paused
  BY DEF IInv, Typed, RelayType, Ending, SendChunk, RelayShape, Waiting
<1>2. /\ up' = Append(up, m) /\ (Go("poll") \/ Go("await"))
      /\ seen' = seen /\ scanner' = scanner /\ down' = down
  BY DEF SendChunk, Send
<1>3. Goes("poll") \/ Goes("await")
  BY <1>1, <1>2, GoGoes DEF Waiting
<1>4. m \in UpLine /\ m.k = "chunk" /\ m.s = relay.session
  <2>1. "chunk" \in Commands \cup Frames
    BY DEF Frames
  <2> QED BY <1>1, <2>1, CommandTyped
<1> HIDE DEF m
<1>5. up' \in Seq(UpLine) /\ Lines(up') = Lines(up) \cup {m} /\ BeginFirst(up')
  <2>1. up \in Seq(UpLine) /\ m \in UpLine /\ m.k # "begin"
    BY <1>1, <1>4
  <2> QED BY <1>1, <1>2, <2>1, LinesAppended
<1>6. Listened
  BY <1>2, NoLineTaken
<1>7. Typed'
  BY <1>3, <1>5, <1>6 DEF IInv, Typed, Goes, Listened
<1>8. Turn
  BY <1>1, <1>3 DEF Turn, Goes
<1>9. Move
  BY <1>1, <1>3, <1>4, <1>5, <1>6, <1>8 DEF Move, Goes, Listened
<1> QED BY <1>7, <1>9, MoveStep

\* While it streams, a relay goes on, goes back, or fails.
LEMMA Rewinds ==
    ASSUME IInv, relay.pc \in {"poll", "await"}, NEW n, n \in Nat, Rewind(n), Listened
    PROVE  IInv'
<1>1. relay \in RelayType /\ None \in Nat /\ relay.paused /\ relay.pc # "idle"
  BY ChunksAssumption DEF IInv, Typed, None, RelayShape, Waiting
<1> DEFINE runs == IF n = relay.last THEN relay.runs + 1 ELSE 1
<1>2. runs \in Nat
  BY <1>1 DEF RelayType
<1>3. \/ Fail
      \/ /\ relay' = [relay EXCEPT !.pc = "send", !.seq = n, !.last = n, !.runs = runs,
                         !.nack = None, !.accepted = FALSE]
         /\ up' = up
  BY DEF Rewind
<1> HIDE DEF runs
<1>4. CASE Fail
  BY <1>1, <1>4, FailStep
<1>5. CASE /\ relay' = [relay EXCEPT !.pc = "send", !.seq = n, !.last = n, !.runs = runs,
                          !.nack = None, !.accepted = FALSE]
           /\ up' = up
  <2>1. Goes("send")
    BY <1>1, <1>2, <1>5 DEF Goes, RelayType, Waiting
  <2>2. Turn
    BY <2>1 DEF Turn, Goes
  <2> QED BY <1>1, <1>5, <2>1, <2>2, TurnStep
<1> QED BY <1>3, <1>4, <1>5

LEMMA PollStep ==
    ASSUME IInv, Poll
    PROVE  IInv'
<1>1. /\ relay \in RelayType /\ relay.pc = "poll" /\ relay.paused /\ relay.seq + 1 \in Nat
      /\ down \in Seq(DownLine) /\ seen' = seen /\ scanner' = scanner
  BY DEF IInv, Typed, Poll, RelayShape, Waiting, RelayType
<1>2. PICK n \in 0..Len(down) : \E last \in 0..n :
        /\ LET nack == IF last = 0 THEN None ELSE down[last].n
           IN IF nack = None \/ nack > relay.seq THEN Advance ELSE Rewind(nack)
        /\ down' = SubSeq(down, n + 1, Len(down))
  BY DEF Poll
<1>3. PICK last \in 0..n :
        /\ LET nack == IF last = 0 THEN None ELSE down[last].n
           IN IF nack = None \/ nack > relay.seq THEN Advance ELSE Rewind(nack)
        /\ down' = SubSeq(down, n + 1, Len(down))
  BY <1>2
<1>4. down' \in Seq(DownLine) /\ Lines(down') \subseteq Lines(down)
  BY <1>1, <1>3, LinesDropped
<1>5. Listened
  BY <1>1, <1>4 DEF Listened
<1> DEFINE nack == IF last = 0 THEN None ELSE down[last].n
<1>6. nack \in Nat
  <2>1. None \in Nat
    BY ChunksAssumption DEF None
  <2>2. CASE last = 0
    BY <2>1, <2>2
  <2>3. CASE last # 0
    <3>1. last \in 1..Len(down)
      BY <1>1, <1>3, <2>3
    <3>2. down[last] \in DownLine
      BY <1>1, <3>1
    <3>3. \A m \in DownLine : m.n \in Nat
      BY DEF DownLine, Answer, Identity
    <3> QED BY <2>3, <3>2, <3>3
  <2> QED BY <2>2, <2>3
<1>7. Advance \/ Rewind(nack)
  BY <1>3
<1> HIDE DEF nack
<1>8. CASE Rewind(nack)
  BY <1>1, <1>5, <1>6, <1>8, Rewinds
<1>9. CASE Advance
  <2>1. Goes("send") /\ up' = up
    BY <1>1, <1>9 DEF Advance, Goes, RelayType, Waiting
  <2>2. Turn
    BY <1>1, <2>1 DEF Turn, Goes
  <2> QED BY <1>1, <1>5, <2>1, <2>2, TurnStep
<1> QED BY <1>7, <1>8, <1>9

LEMMA AwaitStep ==
    ASSUME IInv, AwaitLine
    PROVE  IInv'
<1> DEFINE m == Head(down)
<1>1. /\ relay \in RelayType /\ relay.pc = "await" /\ relay.paused /\ relay.pc # "idle"
      /\ None \in Nat
  BY ChunksAssumption DEF IInv, Typed, AwaitLine, RelayShape, Waiting, None
<1>2. Listened /\ m \in DownLine /\ m \in Lines(down)
  BY LineTaken DEF AwaitLine
<1>3. \/ relay' = [relay EXCEPT !.accepted = TRUE, !.nack = None] /\ up' = up
      \/ Mine(m) /\ m.k = "staged" /\ Go("end") /\ up' = up
      \/ relay' = [relay EXCEPT !.nack = m.n] /\ up' = up
      \/ Fail
      \/ relay' = relay /\ up' = up
  BY DEF AwaitLine
<1>4. m.n \in Nat
  BY <1>2 DEF DownLine, Answer, Identity
<1> HIDE DEF m
<1>5. CASE /\ up' = up
           /\ \/ relay' = [relay EXCEPT !.accepted = TRUE, !.nack = None]
              \/ relay' = [relay EXCEPT !.nack = m.n]
  <2>1. Goes("await")
    <3>1. CASE relay' = [relay EXCEPT !.accepted = TRUE, !.nack = None]
      BY <1>1, <3>1 DEF Goes, RelayType, Waiting
    <3>2. CASE relay' = [relay EXCEPT !.nack = m.n]
      BY <1>1, <1>4, <3>2 DEF Goes, RelayType, Waiting
    <3> QED BY <1>5, <3>1, <3>2
  <2>2. Turn
    BY <1>1, <2>1 DEF Turn, Goes
  <2> QED BY <1>1, <1>2, <1>5, <2>1, <2>2, TurnStep
<1>6. CASE Mine(m) /\ m.k = "staged" /\ Go("end") /\ up' = up
  <2>1. Goes("end")
    BY <1>1, <1>6, GoGoes DEF Waiting
  <2>2. Staged(down)
    BY <1>2, <1>6 DEF Staged, Mine
  <2>3. Turn
    BY <1>1, <2>1, <2>2 DEF Turn, Goes
  <2> QED BY <1>1, <1>2, <1>6, <2>1, <2>3, TurnStep
<1>7. CASE Fail
  BY <1>1, <1>2, <1>7, FailStep
<1>8. CASE relay' = relay /\ up' = up
  BY <1>2, <1>8, SkipStep
<1> QED BY <1>3, <1>5, <1>6, <1>7, <1>8

LEMMA EndStep ==
    ASSUME IInv, EndLine \/ EndTimeout
    PROVE  IInv'
<1>1. relay \in RelayType /\ relay.pc = "end" /\ relay.pc # "idle"
  BY DEF IInv, Typed, EndLine, EndTimeout
<1>2. Listened
  BY LineTaken, NoLineTaken DEF EndLine, EndTimeout
<1>3. \/ /\ up' = up
         /\ \/ relay' = [relay EXCEPT !.pc = "health", !.committed = TRUE,
                                      !.paused = FALSE, !.sends = 0]
            \/ relay' = [relay EXCEPT !.pc = "health", !.paused = FALSE, !.sends = 0]
      \/ Fail
      \/ relay' = relay /\ up' = up
  BY DEF EndLine, EndTimeout
<1>4. CASE /\ up' = up
           /\ \/ relay' = [relay EXCEPT !.pc = "health", !.committed = TRUE,
                                        !.paused = FALSE, !.sends = 0]
              \/ relay' = [relay EXCEPT !.pc = "health", !.paused = FALSE, !.sends = 0]
  <2>1. Goes("health")
    <3>1. CASE relay' = [relay EXCEPT !.pc = "health", !.committed = TRUE,
                                      !.paused = FALSE, !.sends = 0]
      BY <1>1, <3>1 DEF Goes, RelayType, Waiting
    <3>2. CASE relay' = [relay EXCEPT !.pc = "health", !.paused = FALSE, !.sends = 0]
      BY <1>1, <3>2 DEF Goes, RelayType, Waiting
    <3> QED BY <1>4, <3>1, <3>2
  <2>2. Turn
    BY <1>1, <2>1 DEF Turn, Goes
  <2> QED BY <1>1, <1>2, <1>4, <2>1, <2>2, TurnStep
<1>5. CASE Fail
  BY <1>1, <1>2, <1>5, FailStep
<1>6. CASE relay' = relay /\ up' = up
  BY <1>2, <1>6, SkipStep
<1> QED BY <1>3, <1>4, <1>5, <1>6

LEMMA FailingRelayStep ==
    ASSUME IInv, StreamFailed \/ AwaitTimeout \/ HealthTimeout
    PROVE  IInv'
<1>1. relay.pc # "idle" /\ Fail /\ Listened
  BY NoLineTaken DEF StreamFailed, AwaitTimeout, HealthTimeout
<1> QED BY <1>1, FailStep

LEMMA SettleStep ==
    ASSUME IInv, Settle
    PROVE  IInv'
<1>1. relay.pc = "await" /\ relay.nack \in Nat /\ Listened
  BY NoLineTaken DEF Settle, IInv, Typed, RelayType
<1>2. Fail \/ Rewind(relay.nack)
  BY DEF Settle
<1> QED BY <1>1, <1>2, FailStep, Rewinds

LEMMA ProvedStep ==
    ASSUME IInv, HealthProved
    PROVE  IInv'
<1>1. /\ relay \in RelayType /\ relay.pc = "health" /\ Converged(seen) /\ ~relay.paused
      /\ relay' = [relay EXCEPT !.pc = "idle", !.result = "ok", !.committed = TRUE]
      /\ up' = up /\ down' = down /\ seen' = seen /\ scanner' = scanner
  BY DEF IInv, Typed, HealthProved, Only, RelayShape, Waiting
<1>2. /\ relay' \in RelayType /\ relay'.pc = "idle" /\ relay'.session = relay.session
      /\ relay'.boot = relay.boot /\ ~relay'.paused
  BY <1>1 DEF RelayType
<1>3. Typed'
  BY <1>1, <1>2 DEF IInv, Typed
<1>4. Turn
  BY <1>1, <1>2 DEF Turn
<1>5. Move
  BY <1>1, <1>2, <1>4 DEF Move, IInv, Ending, Waiting
<1> QED BY <1>3, <1>5, MoveStep

LEMMA RelayTaskStep ==
    ASSUME IInv, RelayTask
    PROVE  IInv'
BY ReadySentStep, CommandSentStep, WaitStep, ChunkSentStep, PollStep, AwaitStep, EndStep,
   FailingRelayStep, SettleStep, ProvedStep DEF RelayTask

-----------------------------------------------------------------------------
(* The steps of the uplink between relays.                                 *)

\* A relay begins with a session that neither the scanner nor the wire has
\* heard of.
LEMMA StartStep ==
    ASSUME IInv, NEW mode \in Modes, StartRelay(mode)
    PROVE  IInv'
<1> DEFINE pc == IF mode = "auto" THEN "begin" ELSE "stop"
<1>1. /\ relay \in RelayType /\ seen \in Identity /\ up \in Seq(UpLine)
      /\ scanner \in ScannerType /\ relay.session \in Nat /\ seen.boot \in Nat
      /\ scanner.session \in Nat /\ None \in Nat
  BY ChunksAssumption DEF IInv, Typed, RelayType, Identity, ScannerType, None
<1>2. /\ relay' = [NoRelay EXCEPT !.pc = pc, !.mode = mode, !.session = relay.session + 1,
                     !.boot = seen.boot, !.paused = TRUE]
      /\ down' = <<>> /\ seen' = seen /\ up' = up /\ scanner' = scanner
  BY DEF StartRelay
<1>3. pc \in {"stop", "begin"} /\ relay.session + 1 \in Nat
  BY <1>1
<1> HIDE DEF pc
<1>4. /\ relay' \in RelayType /\ relay'.pc = pc /\ relay'.session = relay.session + 1
      /\ relay'.boot = seen.boot /\ relay'.paused /\ relay'.result = "none"
  BY <1>1, <1>2, <1>3 DEF NoRelay, RelayType, Waiting
<1>5. down' \in Seq(DownLine) /\ Lines(down') = {}
  BY <1>2, FewLines
<1>6. Typed'
  BY <1>1, <1>2, <1>4, <1>5 DEF Typed
<1>7. RelayShape'
  BY <1>1, <1>3, <1>4 DEF RelayShape, Waiting
<1>8. \A m \in Lines(up) : m.s \in Nat /\ m.s <= relay.session
  <2>1. \A m \in UpLine : m.s \in Nat
    BY DEF UpLine
  <2>2. \A m \in Lines(up) : m \in UpLine
    BY <1>1 DEF Lines
  <2> QED BY <2>1, <2>2 DEF IInv, SessionsPast
<1>9. SessionsPast'
  BY <1>1, <1>2, <1>4, <1>8 DEF IInv, SessionsPast
<1>10. ~Known'
  BY <1>1, <1>2, <1>4, <1>8 DEF IInv, SessionsPast, Known
<1>11. Beginning'
  BY <1>4, <1>5, <1>10 DEF Beginning, Staged
<1>12. Ending'
  BY <1>2, <1>3, <1>4 DEF IInv, Ending
<1>13. Evidence'
  BY <1>2, <1>3, <1>4, <1>5 DEF IInv, Evidence
<1> QED BY <1>6, <1>7, <1>9, <1>11, <1>12, <1>13 DEF IInv

\* The background reader reads an identity.
LEMMA ListenStep ==
    ASSUME IInv, Listen
    PROVE  IInv'
<1> DEFINE m == Head(down)
           ready == relay.ready \/ m.k = "ready"
<1>1. /\ relay \in RelayType /\ ~relay.paused /\ down # <<>> /\ down \in Seq(DownLine)
      /\ seen \in Identity
  BY DEF IInv, Typed, Listen
<1>2. /\ seen' = IF m.k = "info" THEN m ELSE seen
      /\ relay' = [relay EXCEPT !.ready = ready]
      /\ down' = Tail(down) /\ up' = up /\ scanner' = scanner
  BY DEF Listen
<1>3. /\ m \in DownLine /\ m \in Lines(down) /\ down' \in Seq(DownLine)
      /\ Lines(down') \subseteq Lines(down)
  BY <1>1, <1>2, LinesTaken
<1>4. ready \in BOOLEAN
  BY <1>1 DEF RelayType
<1> HIDE DEF m, ready
<1>5. relay' \in RelayType /\ SameRelay
  BY <1>1, <1>2, <1>4 DEF RelayType, SameRelay
<1>6. m.k = "info" => m \in Identity
  BY <1>3 DEF DownLine, Answer, Answers
<1>7. Typed'
  BY <1>1, <1>2, <1>3, <1>5, <1>6 DEF IInv, Typed
<1>8. relay.pc \notin Waiting
  BY <1>1 DEF IInv, RelayShape
<1>9. RelayShape'
  BY <1>5 DEF IInv, RelayShape, SameRelay
<1>10. SessionsPast'
  BY <1>2, <1>5 DEF IInv, SessionsPast, SameRelay
<1>11. Beginning'
  BY <1>5, <1>8 DEF Beginning, SameRelay, Waiting
<1>12. Ending'
  BY <1>2, <1>5, <1>8 DEF IInv, Ending, SameRelay, Waiting
<1>13. Evidence'
  <2>1. \A o : Converged(o) <=> Converged(o)'
    BY <1>5 DEF Converged, SameRelay
  <2>2. ASSUME relay.pc = "health"
        PROVE  /\ m.k = "info" => Proof(m)
               /\ Proof(seen) /\ \A o \in Lines(down') : Proof(o)
    BY <1>3, <2>2 DEF IInv, Evidence
  <2>3. relay.pc = "health" => Proof(seen)' /\ \A o \in Lines(down') : Proof(o)'
    BY <1>2, <2>1, <2>2 DEF Proof
  <2> QED BY <1>2, <1>5, <1>8, <2>3 DEF IInv, Evidence, SameRelay
<1> QED BY <1>7, <1>9, <1>10, <1>11, <1>12, <1>13 DEF IInv

LEMMA UplinkStep ==
    ASSUME IInv, Uplink
    PROVE  IInv'
BY ReadySentStep, ListenStep, RelayTaskStep, StartStep DEF Uplink

-----------------------------------------------------------------------------
LEMMA RelayInit ==
    ASSUME Init
    PROVE  IInv
<1> DEFINE b == Booted(1, "old", FALSE)
<1>1. relay = NoRelay /\ seen = Info(b) /\ up = <<>> /\ down = <<>> /\ scanner = b
  BY DEF Init
<1>2. /\ b \in ScannerType /\ b.session = 0 /\ b.next = b.image
  <2>1. <<>> \in Seq(Nat) /\ 1 \in Nat
    OBVIOUS
  <2> QED BY <2>1 DEF Booted, ScannerType, Images
<1> HIDE DEF b
<1>3. Info(b) \in Identity
  BY <1>2, InfoTyped
<1>4. None \in Nat
  BY ChunksAssumption DEF None
<1>5. NoRelay \in RelayType
  BY <1>4 DEF NoRelay, RelayType, Waiting
<1>6. Typed
  BY <1>1, <1>2, <1>3, <1>5, FewLines DEF Typed
<1>7. Lines(up) = {} /\ Lines(down) = {} /\ BeginFirst(up)
  BY <1>1, FewLines
<1>8. RelayShape /\ SessionsPast /\ Beginning /\ Ending /\ Evidence
  BY <1>1, <1>2, <1>7 DEF NoRelay, RelayShape, SessionsPast, Beginning, Ending, Evidence, Waiting
<1> QED BY <1>6, <1>8 DEF IInv

\* The invariant of the relay, of the wires and of the scanner.
THEOREM RelayInvariant == Spec => []IInv
<1>1. Init => IInv
  BY RelayInit
<1>2. IInv /\ [Next]_vars => IInv'
  <2> SUFFICES ASSUME IInv, [Next]_vars PROVE IInv'
    OBVIOUS
  <2>1. CASE Uplink
    BY <2>1, UplinkStep
  <2>2. CASE Scanner
    BY <2>2, ScannerStep
  <2>3. CASE Link
    BY <2>3, LinkStep
  <2>4. CASE UNCHANGED vars
    <3>1. /\ relay' = relay /\ seen' = seen /\ up' = up /\ down' = down
          /\ scanner' = scanner
      BY <2>4 DEF vars
    <3> QED BY <3>1, NoLineTaken, SkipStep
  <2> QED BY <2>1, <2>2, <2>3, <2>4 DEF Next
<1> QED BY <1>1, <1>2, PTL DEF Spec

\* A relay that reports success has put its image on the scanner for good,
\* whatever the wires lost and damaged and whenever the scanner restarted
\* (fw_relay_stored_to_scanner, scanner_post_update_converged).
THEOREM SuccessMeansRunning == Spec => []OkMeansRunning
<1>1. IInv => OkMeansRunning
  BY DEF IInv, Evidence, Settled, OkMeansRunning
<1>2. Spec => []IInv
  BY RelayInvariant
<1> QED BY <1>1, <1>2, PTL
=============================================================================
