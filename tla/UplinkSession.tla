--------------------------- MODULE UplinkSession ---------------------------
(***************************************************************************)
(* The session of one uplink image, as values: the adapter's s_session     *)
(* (core/uplink_usb_ota.c) with the policy record it embeds                *)
(* (shared/uplink_ota_policy.c).  The two keep the same state apart from   *)
(* "preparing", which the policy calls idle, so one record stands for both.*)
(* Manifest, partition and identity checks are one answer, passed or not.  *)
(* With it, the transport's own account of the transfer                    *)
(* (badge_usb_uplink_ota_flow_t, shared/badge_usb_uplink_ota.c).           *)
(***************************************************************************)
EXTENDS Integers, FiniteSets

CONSTANTS
    Sizes,       \* sizes of images the host offers, in units of data
    Credit,      \* UPLINK_OTA_CREDIT_BYTES
    Descriptor,  \* bytes buffered until the image's identity can be read
    RetryLimit   \* BADGE_USB_UPLINK_OTA_RETRY_LIMIT

\* The real figures: a descriptor of 144 bytes, a credit of 4096, an image of
\* at least 1024.
ASSUME FiguresAssumption ==
    /\ Credit \in Nat /\ Descriptor \in Nat \ {0}
    /\ Sizes \subseteq Nat
    /\ Descriptor < Credit /\ \A n \in Sizes : Descriptor < n
    /\ RetryLimit \in Nat \ {0}

Smaller(m, n) == IF m < n THEN m ELSE n

Scanners == {"scanner0", "scanner1"}
\* What a session takes from the rest of the badge; the uploader's pause is
\* never owned on a badge build (default_pause_http).
Resources == {"operation", "handle", "digest"} \cup Scanners

SessionState == {"idle", "preparing", "receiving", "verifying", "committed", "error"}

\* credit: bytes up to creditAt have been granted and not all of them written.
NoSession ==
    [state |-> "idle", owns |-> {}, cleaned |-> FALSE, size |-> 0,
     transport |-> 0, durable |-> 0, creditAt |-> 0, credit |-> FALSE]

-----------------------------------------------------------------------------
(* uplink_usb_ota_begin: the resources are taken in a fixed order and any  *)
(* step may fail.  A scanner that has no task is not paused and not owned; *)
(* one whose acknowledgement never comes is paused, owned, and a failure.  *)
Beginning(fail, fixed, scanners) ==
    {[fail |-> fail, got |-> fixed \cup s] : s \in SUBSET scanners}

BeginOutcomes ==
    Beginning("operation", {}, {})
        \cup Beginning("checks", {"operation"}, {})
        \cup Beginning("scanner0", {"operation"}, {"scanner0"})
        \cup Beginning("scanner1", {"operation"}, Scanners)
        \cup Beginning("handle", {"operation"}, Scanners)
        \cup Beginning("digest", {"operation", "handle"}, Scanners)
        \cup Beginning("none", {"operation", "handle", "digest"}, Scanners)

\* The owned flags: set from what a step took, also when that step failed.
Recorded(o) == o.got

Begun(o, size) ==
    IF o.fail = "operation" THEN NoSession
    ELSE [NoSession EXCEPT
            !.state = IF o.fail = "none" THEN "receiving" ELSE "preparing",
            !.owns = Recorded(o),
            !.size = size,
            !.creditAt = Smaller(Credit, size),
            !.credit = TRUE]

-----------------------------------------------------------------------------
(* uplink_usb_ota_write: bytes reach the flash once the descriptor is      *)
(* complete; the last byte of a credit is answered with the next one.      *)
Accepts(s, n) == s.state = "receiving" /\ s.credit /\ s.transport + n <= s.creditAt

Durable(received) == IF received < Descriptor THEN 0 ELSE received

NextCredit(s, durable) ==
    IF durable = s.creditAt /\ durable < s.size
    THEN Smaller(Credit, s.size - durable) ELSE 0

Written(s, n) ==
    LET received == s.transport + n
        durable == Durable(received)
        done == durable = s.size
    IN [s EXCEPT !.transport = received,
                 !.durable = durable,
                 !.state = IF done THEN "verifying" ELSE @,
                 !.credit = ~done,
                 !.creditAt = @ + NextCredit(s, durable)]

-----------------------------------------------------------------------------
(* uplink_usb_ota_finish, once the boot partition is set: the digest and   *)
(* the flash handle are used up, everything else stays taken.              *)
CommittedReleasing(s) == [s EXCEPT !.state = "committed", !.owns = {}]

Committed(s) == [s EXCEPT !.state = "committed", !.owns = @ \ {"digest", "handle"}]

(* precommit_cleanup: resources go back in reverse, the operation last.    *)
(* "ended" says whether fw_store_operation_end takes the token.            *)
Cleanable(s) == s.state # "committed" /\ ~s.cleaned

Refusable(s) == Cleanable(s) /\ "operation" \in s.owns

CleanupOnce(s, ended) ==
    IF ~Cleanable(s) THEN s
    ELSE [s EXCEPT !.state = "error", !.credit = FALSE, !.cleaned = TRUE,
                   !.owns = IF ended THEN {} ELSE @ \cap {"operation"}]

Cleanup(s, ended) ==
    IF ~Cleanable(s) THEN s
    ELSE [s EXCEPT !.state = "error",
                   !.credit = FALSE,
                   !.owns = IF ended THEN {} ELSE @ \cap {"operation"},
                   !.cleaned = ended \/ "operation" \notin s.owns]

-----------------------------------------------------------------------------
(* The transport's flow: credits, the receipt they wait for, the retries,  *)
(* and the latches that make the finish, the cleanup and the terminal      *)
(* answer happen once.                                                     *)

\* writes, finishes, cleanups, terminals: the retries of each kind; finish,
\* cleanup, terminal: still to be done.
NoFlow ==
    [transport |-> 0, durable |-> 0, total |-> 0, credit |-> 0,
     retrying |-> 0, pendingCredit |-> 0,
     writes |-> 0, finishes |-> 0, cleanups |-> 0, terminals |-> 0,
     waiting |-> FALSE, finish |-> FALSE, cleanup |-> FALSE,
     terminal |-> FALSE, aborted |-> FALSE, committed |-> FALSE]

AbortFlowAgain(f) ==
    IF f.committed THEN f
    ELSE [f EXCEPT !.aborted = TRUE, !.finish = FALSE, !.cleanup = TRUE,
                   !.terminal = TRUE, !.waiting = FALSE, !.pendingCredit = 0]

AbortFlow(f) ==
    IF f.aborted \/ f.committed THEN f
    ELSE [f EXCEPT !.aborted = TRUE, !.finish = FALSE, !.cleanup = TRUE,
                   !.terminal = TRUE, !.waiting = FALSE, !.pendingCredit = 0]

FlowBegun(size, credit) ==
    [NoFlow EXCEPT !.total = size, !.pendingCredit = credit, !.waiting = TRUE]

\* The host has the frame that grants the credit.
Acknowledged(f) ==
    [f EXCEPT !.credit = f.pendingCredit, !.pendingCredit = 0, !.waiting = FALSE]

\* badge_usb_uplink_ota_flow_plan_read lets n bytes through.
Fits(f, n) ==
    /\ ~f.aborted /\ ~f.committed /\ f.total # 0
    /\ f.retrying = 0 /\ ~f.waiting
    /\ n <= f.credit /\ n <= f.total - f.transport

\* A retry of a kind whose count so far is given is the last one.
Exhausted(count) == count + 1 >= RetryLimit

WriteBusySpending(f, n) == [f EXCEPT !.retrying = n, !.writes = @ + 1, !.credit = @ - n]

WriteBusy(f, n) == [f EXCEPT !.retrying = n, !.writes = @ + 1]

\* badge_usb_uplink_ota_flow_write_result: what the adapter reports for a
\* written chunk must be what the flow expects of it.
Agrees(f, n, durable, granted) ==
    LET received == f.transport + n IN
    /\ ~f.aborted /\ ~f.committed /\ f.total # 0
    /\ n <= f.credit /\ n <= f.total - f.transport
    /\ f.retrying \in {0, n}
    /\ f.durable <= durable /\ durable <= received
    /\ received = f.total => granted = 0 /\ durable = received
    /\ (received < f.total /\ n = f.credit) => granted > 0 /\ durable = received
    /\ n < f.credit => granted = 0

FlowWritten(f, n, durable, granted) ==
    LET received == f.transport + n IN
    [f EXCEPT !.retrying = 0, !.writes = 0,
              !.transport = received, !.durable = durable,
              !.credit = @ - n,
              !.finish = (received = f.total),
              !.pendingCredit = granted,
              !.waiting = granted > 0]

\* badge_usb_uplink_ota_flow_finish_result.
Complete(f) == f.transport = f.total /\ f.durable = f.total
=============================================================================
