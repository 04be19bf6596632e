---------------------------- MODULE LineIngress ----------------------------
(***************************************************************************)
(* How a scanner turns the bytes of its UART into commands: the line       *)
(* framer, the ingress that hands bytes to the firmware receiver while a   *)
(* transfer is armed, and the listener's loop that gives up on a partial   *)
(* line after a second.  Bytes come in reads of any size.  "c" and "b" are *)
(* the two lines a schema would accept, a command and an ota_begin.        *)
(***************************************************************************)
EXTENDS Integers, Sequences, FiniteSets, SequencesExt

CONSTANTS ReadMax,    \* bytes in one read (256 in the code)
          BytesMax,   \* bound: bytes received
          TimeoutMax  \* bound: empty reads

CR == "CR"
LF == "LF"
Bytes == {"c", "b", CR, LF}
Authorized == { <<"c">>, <<"b">> }
MaxPayload == 2      \* SCANNER_UART_LINE_MAX_PAYLOAD
LineTimeout == 2     \* half seconds

VARIABLES framer,    \* the framer: its state and its buffer
          binary,    \* a transfer is armed: bytes are firmware
          started,   \* line_started_tick, as the age of the line, -1 when none
          ran,       \* what the last read executed
          raw,       \* history: the bytes since the last LF, "gap" where one was too long
          age,       \* history: the age of the first of them
          want,      \* history: what the last read should have executed
          left, gaps \* bytes and empty reads still to come

vars == <<framer, binary, started, ran, raw, age, want, left, gaps>>

Empty == [state |-> "collecting", buf |-> <<>>]
Discarding == [state |-> "discarding", buf |-> <<>>]
has_partial(f) == f.state = "pending_cr" \/ (f.state = "collecting" /\ f.buf # <<>>)

(***************************************************************************)
(* One byte through scanner_uart_line_framer_consume; "ready" is a line.   *)
(***************************************************************************)
No(f) == [framer |-> f, event |-> "none", line |-> <<>>]
Rejected(f) == [framer |-> f, event |-> "rejected", line |-> <<>>]
Ended(f) == IF f.buf = <<>> THEN No(Empty)
            ELSE [framer |-> Empty, event |-> "ready", line |-> f.buf]

\* A bug: a carriage return is dropped wherever it stands.
ByteSkippingCr(f, byte) ==
    CASE f.state = "discarding" -> No(IF byte = LF THEN Empty ELSE f)
      [] f.state # "discarding" /\ byte = LF -> Ended(f)
      [] f.state # "discarding" /\ byte = CR -> No(f)
      [] OTHER -> IF Len(f.buf) >= MaxPayload THEN Rejected(Discarding)
                  ELSE No([f EXCEPT !.buf = Append(@, byte)])
Byte(f, byte) ==
    CASE f.state = "discarding" -> No(IF byte = LF THEN Empty ELSE f)
      [] f.state = "pending_cr" -> IF byte = LF THEN Ended(f) ELSE Rejected(Discarding)
      [] f.state = "collecting" /\ byte = LF -> Ended(f)
      [] f.state = "collecting" /\ byte = CR -> No([f EXCEPT !.state = "pending_cr"])
      [] OTHER -> IF Len(f.buf) >= MaxPayload THEN Rejected(Discarding)
                  ELSE No([f EXCEPT !.buf = Append(@, byte)])

(***************************************************************************)
(* One read through scanner_command_ingress_consume: line by line until a  *)
(* transfer is armed, or an ota_begin that armed none drops what is left.  *)
(* The walk carries the framer, the mode, the lines executed and whether a *)
(* frame ended or was refused.                                             *)
(***************************************************************************)
Walk(arms) ==
    LET Take(w, byte) ==
            LET e == Byte(w.framer, byte)
                valid == e.event = "ready" /\ e.line \in Authorized
            IN IF w.binary \/ w.dropped THEN w
               ELSE [framer |-> e.framer,
                     binary |-> valid /\ e.line = <<"b">> /\ arms,
                     dropped |-> valid /\ e.line = <<"b">> /\ ~arms,
                     lines |-> IF valid THEN Append(w.lines, e.line) ELSE w.lines,
                     events |-> w.events \/ e.event # "none"]
    IN [bytes \in Seq(Bytes) |->
           FoldLeft(Take, [framer |-> framer, binary |-> binary, dropped |-> FALSE,
                           lines |-> <<>>, events |-> FALSE], bytes)]

(***************************************************************************)
(* The same, from the bytes alone: the lines between LFs, one trailing CR  *)
(* off, none with a gap, up to and with the first ota_begin.               *)
(***************************************************************************)
Ends(s) == { i \in DOMAIN s : s[i] = LF }
After(s, i) == IF { j \in Ends(s) : j < i } = {} THEN 1
               ELSE 1 + CHOOSE j \in Ends(s) : j < i /\ \A k \in Ends(s) : k < i => k <= j
Between(s, i) == SubSeq(s, After(s, i), i - 1)
Plain(l) == IF l # <<>> /\ l[Len(l)] = CR THEN SubSeq(l, 1, Len(l) - 1) ELSE l
WholeLines(s) == SelectSeq([k \in 1 .. Cardinality(Ends(s)) |->
                               Plain(Between(s, CHOOSE i \in Ends(s) :
                                                  Cardinality({ j \in Ends(s) : j <= i }) = k))],
                           LAMBDA l : l \in Authorized)
UpToBegin(ls) == IF \A k \in DOMAIN ls : ls[k] # <<"b">> THEN ls
                 ELSE SubSeq(ls, 1, CHOOSE k \in DOMAIN ls :
                                       ls[k] = <<"b">> /\ \A j \in 1 .. k - 1 : ls[j] # <<"b">>)
Expected(s) == UpToBegin(WholeLines(s))
Began(s) == \E k \in DOMAIN WholeLines(s) : WholeLines(s)[k] = <<"b">>
Tail1(s) == SubSeq(s, After(s, Len(s) + 1), Len(s))

Init ==
    /\ framer = Empty /\ binary = FALSE /\ started = -1 /\ ran = <<>>
    /\ raw = <<>> /\ age = 0 /\ want = <<>> /\ left = BytesMax /\ gaps = TimeoutMax

\* uart_read_bytes returned something.  An empty line's CR and LF come in one
\* read: split in two, the next line would inherit the CR's age.
Read ==
    \E bytes \in UNION { [1 .. n -> Bytes] : n \in 1 .. ReadMax }, arms \in BOOLEAN :
        LET w == Walk(arms)[bytes]
            all == raw \o bytes
        IN /\ Len(bytes) <= left /\ left' = left - Len(bytes)
           /\ ~(raw = <<CR>> /\ bytes[1] = LF)
           /\ framer' = w.framer /\ binary' = w.binary /\ ran' = w.lines
           /\ started' = IF ~has_partial(w.framer) THEN -1
                         ELSE IF ~has_partial(framer) \/ w.events THEN 0 ELSE started
           /\ want' = IF binary THEN <<>> ELSE Expected(all)
           /\ raw' = IF binary \/ Began(all) THEN <<>> ELSE Tail1(all)
           /\ age' = IF raw = <<>> \/ Ends(bytes) # {} THEN 0 ELSE age
           /\ UNCHANGED gaps

\* A bug: the line after the expired one starts where the reader stands.
ExpiredAfresh(f) == Empty
Expired(f) == Discarding

\* A read that returned nothing, half a second after the last: a partial line
\* of a second is given up, and with it everything up to the next LF.
EmptyRead ==
    LET older(a) == IF a < 0 \/ a >= LineTimeout THEN a ELSE a + 1
        expires == started >= 0 /\ has_partial(framer) /\ older(started) >= LineTimeout
    IN /\ gaps > 0 /\ gaps' = gaps - 1
       /\ framer' = IF expires THEN Expired(framer) ELSE framer
       /\ started' = IF expires THEN -1 ELSE older(started)
       /\ age' = IF raw = <<>> THEN age ELSE older(age)
       /\ raw' = IF raw # <<>> /\ age' >= LineTimeout THEN Append(raw, "gap") ELSE raw
       /\ ran' = <<>> /\ want' = <<>>
       /\ UNCHANGED <<binary, left>>

\* The transfer ends, in the receiver's own time.
TransferOver ==
    /\ binary /\ binary' = FALSE /\ ran' = <<>> /\ want' = <<>>
    /\ UNCHANGED <<framer, started, raw, age, left, gaps>>

Next == Read \/ EmptyRead \/ TransferOver
Spec == Init /\ [][Next]_vars

TypeOK == /\ framer.state \in {"collecting", "pending_cr", "discarding"}
          /\ Len(framer.buf) <= MaxPayload /\ binary \in BOOLEAN /\ started \in -1 .. LineTimeout

\* However the bytes are cut into reads, a scanner executes the whole lines
\* they contain and nothing else: no tail of a refused, over-long or stale
\* line, none twice, none lost behind an unfinished one, and nothing that came
\* with an ota_begin after it (scanner_uart_line_framer_consume, _expire_partial
\* and scanner_command_ingress_consume together).
ExecutesWholeLines == ran = want
==============================================================================
