---------------------------- MODULE NodeUpdates ----------------------------
(***************************************************************************)
(* Firmware work on a networked node: the HTTP server stores a scanner     *)
(* image (fw_upload_handler) or replaces the uplink's own                  *)
(* (ota_post_handler), the automatic check downloads either                *)
(* (fw_auto_check.c) and the relay worker reads the stored image to a      *)
(* scanner.  All of them use the one inactive OTA partition; the           *)
(* operation token is asked for by the first and the last alone.  Those    *)
(* who need the scanner's UART pause its RX task by a request that carries *)
(* a generation, which the task acknowledges (uart_rx.c).                  *)
(***************************************************************************)
EXTENDS Naturals, Sequences, FiniteSetsExt

CONSTANTS Requests,  \* requests to the HTTP server
          Checks,    \* automatic checks that find something newer
          Relays,    \* relays
          Faults     \* failed writes and commits; acknowledgements too late
VARIABLES flash,     \* partition -> block -> image the block belongs to
          running, boot,
          manifest,  \* NoManifest or [part, sha, crc]
          token,     \* owner of the operation token, or "free"
          silent,    \* s_upload_paused
          rx,        \* [pc, request, ack, seen]: the scanner's RX task
          generation,\* s_rx_pause_next_generation
          job,       \* actor -> [kind, at, guard]; guard is 0 or the generation it acquired
          prepared, sent, \* the manifest being relayed and the blocks relayed so far
          accepted,  \* what the scanner took at the end of a relay
          left
vars == <<flash, running, boot, manifest, token, silent, rx, generation, job, prepared, sent, accepted, left>>
Scanner == <<prepared, sent, accepted>>

Actors == {"http", "auto", "worker"}
Parts == {"ota_0", "ota_1"}
Blocks == 1..2
Uplink == "uplink"
ImageOf == [upload |-> "uploaded", self_post |-> Uplink, self |-> Uplink, cache |-> "downloaded"]
NoManifest == [part |-> "none", sha |-> <<>>, crc |-> <<>>]
Idle == [kind |-> "idle", at |-> "idle", n |-> 0, guard |-> 0]
Inactive == CHOOSE p \in Parts : p # running
\* A scanner image that was made bootable does not run this program.
Alive == flash[running] = [b \in Blocks |-> Uplink]
Whole(content) == content[1] = content[2]

Init ==
    /\ flash = [p \in Parts |-> [b \in Blocks |-> Uplink]]
    /\ running = "ota_0" /\ boot = "ota_0" /\ manifest = NoManifest /\ token = "free"
    /\ silent = FALSE /\ rx = [pc |-> "read", request |-> 0, ack |-> 0, seen |-> 0]
    /\ generation = 0 /\ job = [a \in Actors |-> Idle] /\ prepared = NoManifest /\ sent = <<>> /\ accepted = <<>>
    /\ left = [requests |-> Requests, checks |-> Checks, relays |-> Relays, faults |-> Faults]

Store == <<flash, running, boot, manifest>>
Job(a, kind, at) == job[a].kind = kind /\ job[a].at = at
Goes(a, at) == job' = [job EXCEPT ![a].at = at]
Fault == left.faults > 0 /\ left' = [left EXCEPT !.faults = @ - 1]

-----------------------------------------------------------------------------
(* The pause of the RX task.                                               *)

\* It acknowledges the generation it sees and stands still until the request is another
\* one; then it withdraws its acknowledgement and reads on.
RxSees ==
    /\ rx.pc = "read" /\ rx.request # 0
    /\ rx' = [rx EXCEPT !.pc = "paused", !.seen = rx.request, !.ack = rx.request]
    /\ UNCHANGED <<Store, token, silent, generation, job, Scanner, left>>
RxResumes ==
    /\ rx.pc = "paused" /\ rx.request # rx.seen
    /\ rx' = [rx EXCEPT !.pc = "read", !.ack = IF @ = rx.seen THEN 0 ELSE @]
    /\ UNCHANGED <<Store, token, silent, generation, job, Scanner, left>>

\* uart_rx_pause_scanner_guarded: a new generation becomes the request unless one stands.
Pause(a, at) ==
    /\ generation' = generation + 1
    /\ IF rx.request = 0
       THEN /\ rx' = [rx EXCEPT !.request = generation']
            /\ job' = [job EXCEPT ![a].guard = generation', ![a].at = at]
       ELSE rx' = rx /\ job' = [job EXCEPT ![a].at = IF job[a].kind = "self_post" THEN "write" ELSE "fail"]
\* Then the acknowledgement is polled for; the deadline may pass first.
\* Mutant: any acknowledgement will do.
AckIsThere(a) == rx.ack # 0
AckIsMine(a) == rx.ack = job[a].guard
Acknowledged(a, at) ==
    /\ job[a].at = "pausing" /\ AckIsMine(a) /\ Goes(a, at)
    /\ UNCHANGED <<Store, token, silent, rx, generation, Scanner, left>>
AckTimeout(a) ==
    /\ job[a].at = "pausing" /\ ~AckIsMine(a) /\ Fault
    /\ Goes(a, IF job[a].kind = "self_post" THEN "write" ELSE "fail")
    /\ UNCHANGED <<Store, token, silent, rx, generation, Scanner>>

\* uart_rx_resume_scanner_guarded: only its own request is withdrawn.
Unpaused(a) == IF job[a].guard # 0 /\ rx.request = job[a].guard
               THEN [rx EXCEPT !.request = 0] ELSE rx
\* resume_guarded_scanner_inputs and the release of the token, on every way out.
\* Mutant: a failure leaves the pause behind.
EndsPaused(a) ==
    /\ rx' = (IF job[a].at = "fail" THEN rx ELSE Unpaused(a)) /\ silent' = (silent /\ a = "auto")
    /\ token' = IF token = a THEN "free" ELSE token
    /\ job' = [job EXCEPT ![a] = Idle]
Ends(a) ==
    /\ rx' = Unpaused(a) /\ silent' = (silent /\ a = "auto")
    /\ token' = IF token = a THEN "free" ELSE token
    /\ job' = [job EXCEPT ![a] = Idle]

-----------------------------------------------------------------------------
(* The HTTP server and the automatic check.                                *)

\* fw_upload_handler needs the token, ota_post_handler does not.
Upload ==
    /\ job["http"] = Idle /\ Alive /\ left.requests > 0 /\ token = "free" /\ token' = "http"
    /\ job' = [job EXCEPT !["http"] = [Idle EXCEPT !.kind = "upload", !.at = "pause"]]
    /\ silent' = TRUE /\ left' = [left EXCEPT !.requests = @ - 1]
    /\ UNCHANGED <<Store, rx, generation, Scanner>>
Post ==
    /\ job["http"] = Idle /\ Alive /\ left.requests > 0
    /\ job' = [job EXCEPT !["http"] = [Idle EXCEPT !.kind = "self_post", !.at = "pause"]]
    /\ silent' = TRUE /\ left' = [left EXCEPT !.requests = @ - 1]
    /\ UNCHANGED <<Store, token, rx, generation, Scanner>>
HttpPauses ==
    /\ job["http"].at = "pause" /\ Pause("http", "pausing")
    /\ UNCHANGED <<Store, token, silent, Scanner, left>>
\* An upload withdraws the manifest before it writes; a post does not.
HttpStarts ==
    \/ Job("http", "upload", "paused") /\ manifest' = NoManifest /\ Goes("http", "write")
       /\ UNCHANGED <<flash, running, boot, token, silent, rx, generation, Scanner, left>>
    \/ Job("http", "self_post", "paused") /\ Goes("http", "write")
       /\ UNCHANGED <<Store, token, silent, rx, generation, Scanner, left>>

\* fw_auto_check_decide looks at the relay once, then the uplink's image is tried and,
\* when that is current, the scanner's.
RelayActive == token # "free"
Check(kind) ==
    /\ job["auto"] = Idle /\ Alive /\ left.checks > 0 /\ ~RelayActive
    /\ job' = [job EXCEPT !["auto"] = [Idle EXCEPT !.kind = kind, !.at = "write"]]
    /\ left' = [left EXCEPT !.checks = @ - 1]
    /\ UNCHANGED <<Store, token, silent, rx, generation, Scanner>>

\* One block through esp_ota_write, into whatever is the inactive partition.
WriteBlock(a) ==
    /\ job[a].at = "write" /\ job[a].n < 2
    /\ flash' = [flash EXCEPT ![Inactive][job[a].n + 1] = ImageOf[job[a].kind]]
    /\ job' = [job EXCEPT ![a].n = @ + 1]
    /\ UNCHANGED <<running, boot, manifest, token, silent, rx, generation, Scanner, left>>
WriteFails(a) ==
    /\ job[a].at = "write" /\ job[a].n < 2 /\ Fault /\ Goes(a, "fail")
    /\ UNCHANGED <<Store, token, silent, rx, generation, Scanner>>

\* esp_ota_end and esp_ota_set_boot_partition check the image as it is in the flash.
SelfEnds(a) ==
    /\ job[a].kind \in {"self_post", "self"} /\ job[a].at = "write" /\ job[a].n = 2
    /\ IF Whole(flash[Inactive]) THEN boot' = Inactive /\ Goes(a, "restart")
       ELSE boot' = boot /\ Goes(a, "fail")
    /\ UNCHANGED <<flash, running, manifest, token, silent, rx, generation, Scanner, left>>
Restart(a) ==
    /\ job[a].at = "restart"
    /\ running' = IF Whole(flash[boot]) THEN boot ELSE running
    /\ boot' = running' /\ token' = "free" /\ silent' = FALSE
    /\ rx' = [pc |-> "read", request |-> 0, ack |-> 0, seen |-> 0]
    /\ generation' = 0 /\ job' = [b \in Actors |-> Idle]
    /\ UNCHANGED <<flash, manifest, Scanner, left>>

\* validate_staged_image accepts what carries the scanner's marks, and takes the SHA from
\* the flash; the CRC is that of the bytes received.
IsScanner(content) == \A b \in Blocks : content[b] \in {"uploaded", "downloaded"}
\* Mutant: the CRC is that of the flash, too.
CrcOfFlash(a) == flash[Inactive]
CrcOf(a) == [b \in Blocks |-> ImageOf[job[a].kind]]
Commit(a) ==
    /\ job[a].kind \in {"upload", "cache"} /\ job[a].at = "write" /\ job[a].n = 2
    /\ manifest' = IF IsScanner(flash[Inactive])
                   THEN [part |-> Inactive, sha |-> flash[Inactive], crc |-> CrcOf(a)]
                   ELSE NoManifest
    /\ Goes(a, "done")
    /\ UNCHANGED <<flash, running, boot, token, silent, rx, generation, Scanner, left>>
\* A manifest that cannot be saved takes the image with it (poison_staged_image).
CommitFails(a) ==
    /\ job[a].kind \in {"upload", "cache"} /\ job[a].at = "write" /\ job[a].n = 2 /\ Fault
    /\ flash' = [flash EXCEPT ![Inactive][1] = "poison"] /\ manifest' = NoManifest
    /\ Goes(a, "fail")
    /\ UNCHANGED <<running, boot, token, silent, rx, generation, Scanner>>

-----------------------------------------------------------------------------
(* The relay.                                                              *)

RelayBegins ==
    /\ job["worker"] = Idle /\ Alive /\ left.relays > 0 /\ token = "free" /\ manifest # NoManifest
    /\ token' = "worker" /\ silent' = TRUE /\ left' = [left EXCEPT !.relays = @ - 1]
    /\ job' = [job EXCEPT !["worker"] = [Idle EXCEPT !.kind = "relay", !.at = "validate"]]
    /\ prepared' = manifest /\ sent' = <<>> /\ accepted' = <<>>
    /\ UNCHANGED <<Store, rx, generation>>
\* The image is compared with the manifest's SHA, then the RX task is paused.
RelayValidates ==
    /\ job["worker"].at = "validate"
    /\ IF flash[prepared.part] = prepared.sha
       THEN Pause("worker", "pausing")
       ELSE Goes("worker", "fail") /\ UNCHANGED <<rx, generation>>
    /\ UNCHANGED <<Store, token, silent, Scanner, left>>
RelayBlock ==
    /\ job["worker"].at = "paused" /\ Len(sent) < 2
    /\ sent' = Append(sent, flash[Inactive][Len(sent) + 1])
    /\ UNCHANGED <<Store, token, silent, rx, generation, job, prepared, accepted, left>>
\* At the end the scanner checks size, CRC and SHA of all it got.
Verified == sent = prepared.sha /\ sent = prepared.crc
RelayFinishes ==
    /\ job["worker"].at = "paused" /\ Len(sent) = 2
    /\ accepted' = IF Verified THEN sent ELSE <<>>
    /\ Goes("worker", "done")
    /\ UNCHANGED <<Store, token, silent, rx, generation, prepared, sent, left>>

Finish(a) ==
    /\ job[a].at \in {"done", "fail"} /\ Ends(a)
    /\ UNCHANGED <<Store, generation, Scanner, left>>

Step(a) == \/ Acknowledged(a, "paused") \/ WriteBlock(a) \/ SelfEnds(a) \/ Restart(a)
           \/ Commit(a) \/ Finish(a)
Program == \/ RxSees \/ RxResumes \/ HttpPauses \/ HttpStarts
           \/ RelayValidates \/ RelayBlock \/ RelayFinishes \/ \E a \in Actors : Step(a)
Next == \/ Program \/ Upload \/ Post \/ RelayBegins \/ \E k \in {"self", "cache"} : Check(k)
        \/ \E a \in Actors : AckTimeout(a) \/ WriteFails(a) \/ CommitFails(a)
Spec == Init /\ [][Next]_vars
FairSpec == Spec /\ WF_vars(Program)

-----------------------------------------------------------------------------
(* Properties.                                                             *)

\* While a relay reads the scanner's UART, the RX task does not: it stands still for this
\* very request, although requests follow one another faster than it polls.
OneReader == job["worker"].at = "paused" /\ job["worker"].guard # 0 =>
                 rx.pc = "paused" /\ rx.seen = job["worker"].guard

\* The flash may be written by somebody else while an image is stored or relayed; a
\* scanner nevertheless never accepts anything but one image as it was sent to the node.
AcceptedIsWhole == accepted # <<>> => Whole(accepted)

\* Inductive: a CRC is that of one image; the request is that of the one job that
\* holds it, and an acknowledgement is that of an RX task that stands still.
AlikeInv == /\ manifest.crc # <<>> => Whole(manifest.crc)
            /\ prepared.crc # <<>> => Whole(prepared.crc)
            /\ AcceptedIsWhole
GuardInv == \A a \in Actors : job[a].guard # 0 =>
                /\ rx.request = job[a].guard
                /\ \A b \in Actors : job[b].guard # 0 => a = b
PauseInv == IF rx.pc = "paused" THEN rx.ack = rx.seen /\ rx.seen # 0 ELSE rx.ack = 0
Readers == [pc : {"read", "paused"}, request : Nat, ack : Nat, seen : Nat]
Jobs == [kind : {"idle", "upload", "self_post", "self", "cache", "relay"},
         at : {"idle", "validate", "pause", "pausing", "paused", "write", "done", "fail", "restart"},
         n : Nat, guard : Nat]
TypedInv == rx \in Readers /\ generation \in Nat /\ job \in [Actors -> Jobs]
NodeInv == TypedInv /\ AlikeInv /\ GuardInv /\ PauseInv /\ OneReader

\* Whatever becomes of it, a job gives the scanner's UART and the uploads back.
Paused == rx.pc = "paused" \/ silent
Released == rx.pc = "read" /\ ~silent
PausesEnd == Paused ~> Released
=============================================================================
