---------------------------- MODULE ScannerUpload ----------------------------
(***************************************************************************)
(* Staging a scanner image over USB (badge_usb_transport.c, the upload part *)
(* of badge_usb_transport_policy.c, fw_store_serial_upload_* in fw_store.c, *)
(* fof_badge_flash.py).  Three state machines of one task count the same    *)
(* bytes: the stream that reads the port, the credit policy, and the store  *)
(* that writes flash.  The host sends one window at a time and waits for    *)
(* its receipt; the last receipt must have been drained before the campaign *)
(* is armed.  A host that hears nothing comes back after the idle timeout,  *)
(* asks the badge what became of the upload, and believes it.               *)
(*                                                                         *)
(* Bounds: Size and Credit in units of data (a command line counts as one), *)
(* ReadMax units per read of the port, Restarts of the host's transfer,     *)
(* Faults of flash, NVS or USB, Intruders (another run of the tool).        *)
(***************************************************************************)
EXTENDS Integers, Sequences, SequencesExt

CONSTANTS Size, Credit, ReadMax, Restarts, Faults, Intruders

VARIABLES host,     \* the tool: where it stands, bytes sent, its window, its flow control
          down, up, \* the USB pipe: units of data to the badge, receipts to the host
          stream,   \* bytes the port's parser has counted, or Lines
          policy,   \* the credit policy's counters
          store,    \* the store's counters
          claimed,  \* the operation token and the paused inputs are held
          flash,    \* what has been written since the last erase
          manifest, \* the manifest in NVS and whether its campaign is armed
          shadow,   \* what the status reports: is it certain, does an upload run
          drained,  \* the last receipt left the badge before its deadline
          left      \* what remains of each bound

vars == <<host, down, up, stream, policy, store, claimed, flash, manifest, shadow, drained, left>>

Lines  == 0 - 1                     \* the parser reads command lines
Line   == 0                         \* one command line, as a unit of data
Image  == [i \in 1..Size |-> i]
AtMost(n) == IF n < Credit THEN n ELSE Credit

NoPolicy == [on |-> FALSE, credit |-> FALSE, received |-> 0, remaining |-> 0]
NoStore  == [active |-> FALSE, credit |-> FALSE, received |-> 0, next |-> 0, final |-> FALSE]
NoManifest == [holds |-> <<>>, armed |-> FALSE]

Init == /\ host \in [at : {"begin"}, sent : {0}, window : {0}, credit : BOOLEAN, tries : {0}]
        /\ down = <<>> /\ up = <<>> /\ stream = Lines
        /\ policy = NoPolicy /\ store = NoStore /\ claimed = FALSE
        /\ flash = <<>> /\ manifest \in {NoManifest, [holds |-> <<"old">>, armed |-> TRUE]}
        /\ shadow = [certain |-> TRUE, present |-> FALSE] /\ drained = FALSE
        /\ left = [faults |-> Faults, intruders |-> Intruders]

Fault == /\ left.faults > 0 /\ left' = [left EXCEPT !.faults = @ - 1]
Fine  == left' = left
May(fails) == IF fails THEN Fault ELSE Fine

-----------------------------------------------------------------------------
(* Receipts.  "late": the host gets it although the badge gave up waiting.  *)

Receipt(kind, n) == [kind |-> kind, received |-> n]
Outcomes == {"drained", "lost", "late"}
Emitted(r, how) == up' = IF how = "lost" THEN up ELSE Append(up, r)
Error == Receipt("error", 0)

-----------------------------------------------------------------------------
(* The badge's USB task. *)

\* The store forgets the upload and gives back what it claimed; the shadow
\* keeps its certainty.
StoreForgets == /\ store' = NoStore /\ UNCHANGED claimed
                /\ shadow' = [shadow EXCEPT !.present = FALSE]
StoreCleared == /\ store' = NoStore /\ claimed' = FALSE
                /\ shadow' = [shadow EXCEPT !.present = FALSE]

ParserCleared == stream' = Lines /\ policy' = NoPolicy

\* The command that begins an upload.  A failure after the manifest has been
\* withdrawn leaves it withdrawn.
Refused == /\ Fault
           /\ \/ UNCHANGED manifest
              \/ manifest' = NoManifest
           /\ UNCHANGED <<stream, policy, store, claimed, flash, shadow>>
           /\ up' = Append(up, Error)

\* The old image is withdrawn and erased, and the host is told to go on.
Accepted == /\ manifest' = NoManifest /\ flash' = <<>> /\ claimed' = TRUE
            /\ store' = [active |-> TRUE, credit |-> host.credit, received |-> 0,
                         next |-> AtMost(Size), final |-> FALSE]
            /\ shadow' = [certain |-> TRUE, present |-> TRUE]
            /\ stream' = 0
            /\ policy' = [on |-> TRUE, credit |-> host.credit, received |-> 0,
                          remaining |-> IF host.credit THEN AtMost(Size) ELSE 0]
            /\ Fine /\ Emitted(Receipt("ready", 0), "drained")

\* The host cannot be told in time: the upload that has begun is aborted at
\* once, and its terminal error may be lost as well.
Unheard == /\ manifest' = NoManifest /\ flash' = <<>> /\ claimed' = FALSE
           /\ store' = NoStore /\ ParserCleared
           /\ shadow' = [certain |-> TRUE, present |-> FALSE]
           /\ Fault
           /\ \E ready \in {<<>>, <<Receipt("ready", 0)>>}, error \in {<<>>, <<Error>>} :
                up' = up \o ready \o error

\* In line mode data is dropped line by line; a command is executed.
ReadLine ==
  /\ stream = Lines /\ ~store.final /\ down # <<>>
  /\ down' = Tail(down)
  /\ IF Head(down) = Line
     THEN Refused \/ Accepted \/ Unheard
     ELSE UNCHANGED <<up, stream, policy, store, claimed, flash, manifest, shadow, left>>
  /\ UNCHANGED <<host, drained>>

\* Everything is dropped and the host is told.
Aborted(how) == /\ ParserCleared /\ StoreCleared /\ Emitted(Error, how)
                /\ UNCHANGED manifest

Planned(k) == k <= Size - policy.received /\ k <= policy.remaining

\* The store writes k units and, at the end of a window, opens the next one.
StoreWrites(k) ==
  LET n == store.received + k
      opens == store.credit /\ n = store.next /\ n < Size
  IN  /\ flash' = flash \o SubSeq(down, 1, k)
      /\ store' = [store EXCEPT !.received = n, !.next = IF opens THEN n + AtMost(Size - n) ELSE @]

\* The policy counts them; a spent window is renewed by its drained receipt.
PolicyNotes(k) ==
  LET n == policy.received + k
  IN  policy' = [policy EXCEPT !.received = n,
                   !.remaining = IF ~policy.credit THEN 0
                                 ELSE IF @ = k /\ n < Size THEN AtMost(Size - n) ELSE @ - k]

WindowEnds(k) == policy.credit /\ policy.remaining = k /\ policy.received + k < Size
Completes(k)  == policy.received + k = Size

\* A chunk that is not the last: written, counted, and its receipt drained.
Continues(k) ==
  /\ ~Completes(k) /\ Fine
  /\ StoreWrites(k) /\ PolicyNotes(k) /\ stream' = stream + k
  /\ IF WindowEnds(k) THEN Emitted(Receipt("credit", policy.received + k), "drained") ELSE UNCHANGED up
  /\ UNCHANGED <<claimed, manifest, shadow>>

\* The write fails, or the receipt of a window cannot be drained in time.
Stops(k) == \/ /\ Fault /\ Aborted("drained")
               /\ \E n \in {0, k} : flash' = flash \o SubSeq(down, 1, n)
            \/ /\ WindowEnds(k) /\ Fault
               /\ ParserCleared /\ StoreCleared /\ UNCHANGED manifest
               /\ flash' = flash \o SubSeq(down, 1, k)
               /\ up' = Append(up, Receipt("credit", policy.received + k)) \o <<Error>>

\* The last chunk: the image is checked and its manifest committed, unarmed.
\* A failed commit withdraws the manifest, or leaves the status uncertain.
Committed(image) == image = Image

Finalizes(k) ==
  LET image == flash \o SubSeq(down, 1, k)
  IN  /\ Completes(k) /\ ParserCleared
      /\ \/ /\ ~Committed(image) /\ Fine
            /\ StoreCleared /\ Emitted(Error, "drained") /\ flash' = image /\ UNCHANGED manifest
         \/ /\ Committed(image) /\ Fault
            /\ store' = NoStore /\ claimed' = FALSE /\ Emitted(Error, "drained") /\ flash' = <<>>
            /\ \E withdrawn \in BOOLEAN :
                 /\ manifest' = [holds |-> IF withdrawn THEN <<>> ELSE image, armed |-> FALSE]
                 /\ shadow' = [certain |-> withdrawn, present |-> FALSE]
         \/ /\ Committed(image) /\ Fine
            /\ store' = [store EXCEPT !.received = Size, !.final = TRUE]
            /\ manifest' = [holds |-> image, armed |-> FALSE]
            /\ flash' = image /\ UNCHANGED <<up, claimed, shadow>>

\* One read of the port is one transaction: past the window all of it is dropped.
ReadData ==
  /\ stream # Lines
  /\ \E k \in 1..ReadMax :
       /\ k <= Len(down)
       /\ down' = SubSeq(down, k + 1, Len(down))
       /\ IF policy.credit
          THEN IF Planned(k) THEN Continues(k) \/ Stops(k) \/ Finalizes(k)
               ELSE Aborted("drained") /\ Fine /\ UNCHANGED flash
          ELSE k <= Size - stream /\ (Continues(k) \/ Stops(k) \/ Finalizes(k))
  /\ UNCHANGED <<host, drained>>

\* The answer that the image is staged is drained before the campaign is armed.
\* Otherwise, or when arming fails, image and manifest are withdrawn.
WithdrawnAsFarAsPossible(cost) ==
  /\ flash' = <<>>
  /\ left.faults >= cost
  /\ left' = [left EXCEPT !.faults = 0]
  /\ manifest' \in {NoManifest, [manifest EXCEPT !.armed = FALSE]}
  /\ shadow' = [certain |-> TRUE, present |-> FALSE]

Withdrawn(cost) ==
  /\ flash' = <<>>
  /\ \/ /\ left.faults >= cost /\ left' = [left EXCEPT !.faults = @ - cost]
        /\ manifest' = NoManifest
        /\ shadow' = [certain |-> TRUE, present |-> FALSE]
     \/ /\ left.faults > cost /\ left' = [left EXCEPT !.faults = @ - cost - 1]
        /\ manifest' = [manifest EXCEPT !.armed = FALSE]
        /\ shadow' = [certain |-> FALSE, present |-> FALSE]

CompleteUnheard(delivered) ==
  \/ /\ IF delivered THEN Fine ELSE Fault
     /\ manifest' = [manifest EXCEPT !.armed = TRUE]
     /\ shadow' = [certain |-> TRUE, present |-> FALSE] /\ UNCHANGED flash
  \/ Withdrawn(1)

Complete(delivered) ==
  \/ /\ delivered /\ Fine
     /\ manifest' = [manifest EXCEPT !.armed = TRUE]
     /\ shadow' = [certain |-> TRUE, present |-> FALSE] /\ UNCHANGED flash
  \/ Withdrawn(1)

Terminal == /\ store.final
            /\ \E how \in Outcomes : /\ Emitted(Receipt("final", Size), how)
                                     /\ drained' = (how = "drained")
                                     /\ Complete(how = "drained")
            /\ store' = NoStore /\ claimed' = FALSE
            /\ UNCHANGED <<host, down, stream, policy>>

\* Nothing has come for the idle timeout.
IdleAfterData == /\ stream > 0 /\ down = <<>>
                 /\ Aborted("drained") /\ UNCHANGED <<host, down, flash, drained, left>>
IdleTimeout == /\ stream # Lines /\ down = <<>>
               /\ Aborted("drained") /\ UNCHANGED <<host, down, flash, drained, left>>

-----------------------------------------------------------------------------
(* The host. *)

Ask == /\ host.at = "begin"
       /\ down' = Append(down, Line)
       /\ host' = [host EXCEPT !.at = "ready", !.sent = 0]
       /\ UNCHANGED <<up, stream, policy, store, claimed, flash, manifest, shadow, drained, left>>

SendUnit == /\ host.at = "send"
            /\ down' = Append(down, host.sent + 1)
            /\ host' = [host EXCEPT !.sent = @ + 1,
                          !.at = IF host.sent + 1 = Size THEN "final"
                                 ELSE IF host.sent + 1 = host.window THEN "credit" ELSE @]
            /\ UNCHANGED <<up, stream, policy, store, claimed, flash, manifest, shadow, drained, left>>

\* Any other receipt than the one that is due ends the run.
HearReceipt ==
  /\ host.at \in {"ready", "credit", "final"} /\ up # <<>>
  /\ up' = Tail(up)
  /\ host' = IF Head(up) # Receipt(host.at, host.sent) THEN [host EXCEPT !.at = "failed"]
             ELSE IF host.at = "final" THEN [host EXCEPT !.at = "done"]
             ELSE [host EXCEPT !.at = "send",
                     !.window = IF host.credit THEN host.sent + AtMost(Size - host.sent) ELSE Size]
  /\ UNCHANGED <<down, stream, policy, store, claimed, flash, manifest, shadow, drained, left>>

\* The port fails, or nothing was heard for longer than the badge waits.
LosesTouch ==
  /\ \/ host.at \in {"ready", "send", "credit", "final"} /\ Fault
     \/ /\ host.at \in {"ready", "credit", "final"} /\ down = <<>> /\ up = <<>>
        /\ stream = Lines /\ ~store.final /\ Fine
  /\ host' = IF host.credit /\ host.tries < Restarts
             THEN [host EXCEPT !.at = "away", !.tries = @ + 1] ELSE [host EXCEPT !.at = "failed"]
  /\ UNCHANGED <<down, up, stream, policy, store, claimed, flash, manifest, shadow, drained>>

\* The badge reports an upload only as far as it is certain of it.
Reported == IF ~shadow.certain THEN "unknown"
            ELSE IF shadow.present THEN "receiving"
            ELSE IF manifest.holds = Image THEN "committed" ELSE "idle"

\* It comes back after the idle timeout, when the port's input is gone.
Reconcile ==
  /\ host.at = "away" /\ stream = Lines /\ ~store.final /\ down = <<>>
  /\ up' = <<>>
  /\ host' = [host EXCEPT !.at = CASE Reported = "unknown" -> "failed"
                                   [] Reported = "committed" -> "told"
                                   [] OTHER -> "begin"]
  /\ UNCHANGED <<down, stream, policy, store, claimed, flash, manifest, shadow, drained, left>>

\* Another run of the tool writes a command into the transfer.
Intruder == /\ left.intruders > 0 /\ left' = [left EXCEPT !.intruders = @ - 1]
            /\ stream # Lines
            /\ down' = Append(down, Line)
            /\ UNCHANGED <<host, up, stream, policy, store, claimed, flash, manifest, shadow, drained>>

-----------------------------------------------------------------------------
Badge == ReadLine \/ ReadData \/ Terminal
Host  == Ask \/ SendUnit \/ HearReceipt \/ Reconcile

Quiet == LosesTouch /\ left' = left

Next == Badge \/ IdleTimeout \/ Host \/ LosesTouch \/ Intruder

Spec == Init /\ [][Next]_vars

Fairness == WF_vars(Badge \/ IdleTimeout) /\ WF_vars(Host \/ Quiet)
FairSpec == Spec /\ Fairness

-----------------------------------------------------------------------------
TypeOK ==
  /\ host.at \in {"begin", "ready", "send", "credit", "final", "away", "told", "done", "failed"}
  /\ stream \in {Lines} \cup 0..Size
  /\ policy.received \in 0..Size /\ store.received \in 0..Size /\ store.next \in 0..Size
  /\ claimed \in BOOLEAN /\ drained \in BOOLEAN

\* Parser, policy and store agree between two reads: on whether an upload runs,
\* how much has come, and what the host may still send; and nothing stays
\* claimed without an upload.
CountersAgree ==
  /\ claimed = store.active
  /\ IF stream = Lines THEN ~policy.on /\ store.active = store.final
     ELSE /\ policy.on /\ store.active
          /\ stream = policy.received /\ stream = store.received /\ stream = Len(flash)
          /\ store.credit => store.next = stream + policy.remaining

\* A campaign is armed only for the whole image of an upload whose last
\* receipt has left the badge.
ArmedIsWhole == manifest.armed /\ manifest.holds # <<"old">> => manifest.holds = Image /\ drained

\* A host that lost touch and is told "committed" may rely on the campaign; a reset,
\* which this module leaves out, may still undo the campaign and keep the image.
BelievedIsArmed == host.at = "told" => manifest = [holds |-> Image, armed |-> TRUE]

\* The inductive form of the three: while bytes come nothing is staged and the
\* two credits agree, a staged image waits for its last receipt unarmed, and a
\* status that is certain of an image is certain of its campaign.
Hosts == [at : {"begin", "ready", "send", "credit", "final", "away", "told", "done", "failed"},
          sent : Nat, window : Int, credit : BOOLEAN, tries : Nat]
Policies == [on : BOOLEAN, credit : BOOLEAN, received : Nat, remaining : Nat]
Stores == [active : BOOLEAN, credit : BOOLEAN, received : Nat, next : Nat, final : BOOLEAN]
Manifests == [holds : {<<>>, <<"old">>, Image}, armed : BOOLEAN]
TypedInv ==
  /\ host \in Hosts /\ down \in Seq(Nat) /\ flash \in Seq(Nat) /\ stream \in {Lines} \cup Nat
  /\ policy \in Policies /\ store \in Stores /\ manifest \in Manifests
  /\ shadow \in [certain : BOOLEAN, present : BOOLEAN]
StagedInv ==
  /\ stream # Lines => manifest = NoManifest /\ policy.credit = store.credit
  /\ store.final => stream = Lines /\ manifest = [holds |-> Image, armed |-> FALSE]
  /\ manifest.armed => manifest.holds = <<"old">> \/ (manifest.holds = Image /\ drained)
  /\ shadow.certain /\ ~shadow.present /\ manifest.holds = Image => manifest.armed \/ store.final
ToldInv ==
  host.at = "told" => /\ manifest = [holds |-> Image, armed |-> TRUE]
                      /\ down = <<>> /\ stream = Lines /\ ~store.final
StagingInv == TypedInv /\ CountersAgree /\ StagedInv /\ ToldInv

\* Whatever is lost, the host ends up with an answer.
Answered == host.at \in {"told", "done", "failed"}
HostLearns == <>[]Answered
=============================================================================
