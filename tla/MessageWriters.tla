--------------------------- MODULE MessageWriters ---------------------------
(***************************************************************************)
(* The lines the programs on either side of a UART or of the badge's USB   *)
(* port produce, each with the reader it is sent to and the route its      *)
(* writer means.  Formats and guards are the writers' own: nothing here is *)
(* taken from the schemas that will judge them (MessageContracts).         *)
(*                                                                         *)
(* Bytes, escapes and UTF-8 are below this module: a message is the set of *)
(* its members, the members written twice, and whether the text is one     *)
(* whole well-formed object.                                               *)
(***************************************************************************)
EXTENDS Integers, FiniteSets, Sequences, TLC

(***************************************************************************)
(* Values.  Numbers are kept in scale: 0 .. 12000 are themselves, the four *)
(* width limits and the threshold of a valid clock stand in their order.   *)
(***************************************************************************)
Int32Max == 100000
Uint32Max == 200001
SomeValidClock == 250000
Int64Max == 300000

Token(s) == [kind |-> "string", plain |-> TRUE, text |-> s]
Phrase(s) == [kind |-> "string", plain |-> FALSE, text |-> s]
Number(n) == [kind |-> "number", whole |-> TRUE, n |-> n]
Flag(b) == [kind |-> "bool", is |-> b]
Null == [kind |-> "null"]
ObjectOf(s) == [kind |-> "object", text |-> s]
ArrayOf(s) == [kind |-> "array", items |-> s]

\* json_value_matches_type and, for strings, the member's string policy
Fits(v, type) ==
    CASE type = "token"    -> v.kind = "string" /\ v.plain
      [] type = "text"     -> v.kind = "string"
      [] type = "nullable" -> v.kind = "null" \/ (v.kind = "string" /\ v.plain)
      [] type = "maybe"    -> v.kind \in {"null", "string"}
      [] type = "bool"     -> v.kind = "bool"
      [] type = "int32"    -> /\ v.kind = "number" /\ v.whole
                              /\ v.n \in -(Int32Max + 1) .. Int32Max
      [] type = "uint32"   -> /\ v.kind = "number" /\ v.whole
                              /\ v.n \in 0 .. Uint32Max
      [] type = "int64"    -> /\ v.kind = "number" /\ v.whole
                              /\ v.n \in -(Int64Max + 1) .. Int64Max
      [] type = "object"   -> v.kind = "object"
      [] type = "array"    -> v.kind = "array"

Message(fields) == [has |-> fields, twice |-> {}, whole |-> TRUE]

\* fof_json_extract_unique_ascii_token_member over the whole object
HasSelector(m, key) ==
    /\ m.whole
    /\ key \in DOMAIN m.has \ m.twice
    /\ Fits(m.has[key], "token") /\ m.has[key].text # ""
Selector(m, key) == m.has[key].text

Slots == {0, 1}
Deployments == {"badge", "node"}
TheMac == "MAC"                               \* canonical; "mac" is any other spelling
UuidOf == [s1 |-> "uuid1", s2 |-> "uuid2"]    \* the calibration UUID of a session
Sessions == DOMAIN UuidOf
PolicyHash == [policyA |-> 7, policyB |-> 9]
Views == {"privacy", "prv", "glasses", "rf", "activity", "drone", "wifi"}
Uarts == {"ble", "wifi", "all", "0", "1", "*"}

\* A line to a reader: "scanner" (in a slot of a badge or a node), the uplink
\* (from a slot), or a USB port ("badge", or "recovery" when only that runs).
\* A line to a port is a word, a setting, or, as all others, an object.
To(reader, deployment, slot, class, id, msg) ==
    [to |-> reader, where |-> deployment, slot |-> slot, word |-> <<"FOF_CTL">>, msg |-> msg,
     means |-> <<class, id>>]
Typed(type, rest) == Message([type |-> Token(type)] @@ rest)
ToScanner(class, id, rest, d, s) == To("scanner", d, s, class, id, rest)
Everywhere(class, id, rest) == { ToScanner(class, id, rest, d, s) : d \in Deployments, s \in Slots }

(***************************************************************************)
(* The uplink to its scanners.                                             *)
(***************************************************************************)
fof_mac_normalize(mac) == IF mac = "mac" THEN TheMac ELSE mac

SlotRole(slot) == IF slot = 0 THEN "ble_primary" ELSE "wifi_primary"
ProfileFor(slot, peer_connected, fixed) ==
    IF fixed \/ peer_connected THEN SlotRole(slot) ELSE "hybrid_failover"

ProfileLines ==
    { ToScanner("command", "scan_profile",
                Typed("scan_profile", [scan_profile |-> Token(ProfileFor(s, peer, d = "badge")),
                                       slot_role |-> Token(SlotRole(s))]), d, s)
        : d \in Deployments, s \in Slots, peer \in BOOLEAN }

PlainLines ==
    UNION { Everywhere("command", c, Typed(c, <<>>)) : c \in {"ready", "start", "stop",
                                                           "lockon_cancel", "ble_lockon_cancel"} }
    \cup Everywhere("firmware", "fw_check_now", Typed("fw_check_now", <<>>))

QuietLines ==
    { ToScanner("command", "scanner_quiet",
                Typed("scanner_quiet", [enabled |-> Flag(on), generation |-> Number(g)]), "badge", s)
        : on \in BOOLEAN, g \in {0, Uint32Max}, s \in Slots }

\* A clock no one has: ms = -1 with the source "none"; otherwise who set it.
TimeLines ==
    UNION { Everywhere("command", "time", Typed("time", t)) :
              t \in { [ms |-> Number(-1), ok |-> Flag(FALSE), src |-> Token("none")] } \cup
                    { [ms |-> Number(SomeValidClock), ok |-> Flag(TRUE), src |-> Token(s)]
                        : s \in {"backend", "local"} } }

Stored == [target_ver |-> Token("v2"), fw_name |-> Token("scanner"), app_project |-> Token("proj"),
           hardware_type |-> Token("hw"), sha256 |-> Token("sha"), generation |-> Number(3),
           size |-> Number(900), crc |-> Number(Uint32Max)]
NothingStored == [k \in DOMAIN Stored |-> IF Stored[k].kind = "string" THEN Token("") ELSE Number(0)]

OfferLines ==
    UNION { Everywhere("firmware", "fw_offer", Typed("fw_offer", m)) :
              m \in { Stored @@ [update |-> Flag(TRUE), reason |-> Phrase("newer")],
                      Stored @@ [update |-> Flag(FALSE), reason |-> Phrase("downgrade_refused")],
                      NothingStored @@ [update |-> Flag(FALSE), reason |-> Phrase("no_image")] } }

TransferLines ==
    LET Bound == [session_id |-> Token("r1")]
        Whole(same) == Stored @@ Bound @@ [allow_same_version |-> Flag(same)]
    IN UNION { Everywhere("firmware", c, Typed(c, Whole(same)))
                 : c \in {"ota_begin", "ota_end"}, same \in BOOLEAN }
       \cup Everywhere("firmware", "ota_abort_active", Typed("ota_abort", Bound))
       \cup Everywhere("firmware", "ota_abort_unbound", Typed("ota_abort", <<>>))

\* A bug: the producer passes the address on as the operator typed it.
LockonMacAsTyped(mac) == mac
LockonMac(mac) == fof_mac_normalize(mac)
LockonLines ==
    UNION { Everywhere("command", "lockon",
                       Typed("lockon", [ch |-> Number(c), dur |-> Number(d),
                                        bssid |-> Token(LockonMac(b))]))
              : c \in {1, 13}, d \in {30, 90}, b \in {TheMac, "mac", ""} }
    \cup
    UNION { Everywhere("command", "ble_lockon",
                       Typed("ble_lockon", [mac |-> Token(LockonMac(b)), dur |-> Number(45)]))
              : b \in {TheMac, "mac"} }

CalibrationLines ==
    UNION { Everywhere("command", "cal_mode_start",
                       Typed("cal_mode_start", [session_id |-> Token(s),
                                                calibration_uuid |-> Token(UuidOf[s])]))
              : s \in Sessions }
    \cup UNION { Everywhere("command", "cal_mode_stop",
                            Typed("cal_mode_stop", [session_id |-> Token(s)]))
                   : s \in Sessions \cup {"stale"} }

DisplayLines ==
    UNION { Everywhere("command", "display_control_full",
                       Typed("display_control",
                             [button_enabled |-> Flag(TRUE), view |-> Token(v), page |-> Number(p),
                              page_lock |-> Flag(FALSE), auto_page |-> Flag(TRUE)]))
              : v \in {"privacy", "rf"}, p \in {-(Int32Max + 1), 2} }
    \cup UNION { Everywhere("command", "display_control_button",
                            Typed("display_control", [button_enabled |-> Flag(b)])) : b \in BOOLEAN }
    \cup UNION { Everywhere("command", "display_policy",
                            Typed("display_policy", [version |-> Number(1), policy |-> ObjectOf(p),
                                                     hash |-> Number(PolicyHash[p])]))
                   : p \in DOMAIN PolicyHash }

SafeModeLines ==
    UNION { Everywhere("command", "safe_mode", Typed("safe_mode", [enabled |-> Flag(b)])) : b \in BOOLEAN }

SelfIdentity == [v |-> Number(1), round |-> Number(34), peer |-> Token("peer"), session |-> Token("sess")]
SelfLines == { ToScanner("command", "crud_self", Typed("crud_self", SelfIdentity), "badge", s) : s \in Slots }

\* badge_usb_control_decode_ble_investigate upcases the target, a timeout of
\* nothing is the default one, and no target is written as null.
InvestigateLines ==
    { ToScanner("command", "ble_investigate",
                Typed("ble_investigate",
                      [request_id |-> Token("q1"), mode |-> Token(mode), timeout_ms |-> Number(t),
                       target |-> IF mode = "gatt" THEN Token(fof_mac_normalize("mac")) ELSE Null]),
                "badge", 0)
        : mode \in {"gatt", "passive_capture"}, t \in {1, 12000} }

ScannerLines == ProfileLines \cup PlainLines \cup QuietLines \cup TimeLines \cup OfferLines
                \cup TransferLines \cup LockonLines \cup CalibrationLines \cup DisplayLines
                \cup SafeModeLines \cup SelfLines \cup InvestigateLines

(***************************************************************************)
(* A scanner to its uplink.                                                *)
(***************************************************************************)
FromEach(class, id, msg) == { To("uplink", "badge", s, class, id, msg) : s \in Slots }
Ack(id, msg) == FromEach("ack", id, msg)
Receipt(id, msg) == FromEach("firmware", id, msg)

QuietAck(ok) ==
    [generation |-> Number(4), ok |-> Flag(ok)]
    @@ [k \in {"enabled", "ble_scanning", "wifi_paused", "ble_quiesced", "wifi_quiesced",
               "ble_active", "wifi_active", "radios_ready", "tx_restored", "tx_enabled",
               "uart_commands"} |-> Flag(TRUE)]

AckLines ==
    Ack("scanner_quiet", Typed("scanner_quiet_ack", QuietAck(TRUE)))
    \cup Ack("scanner_quiet_error",
             Typed("scanner_quiet_ack", QuietAck(FALSE) @@ [error |-> Phrase("radio_timeout")]))
    \cup Ack("scan_profile_full",
             Typed("scan_profile_ack", [scan_profile |-> Token("wifi_primary"),
                                        slot_role |-> Token("unassigned"), slot_role_ok |-> Flag(FALSE)]))
    \cup Ack("scan_profile_basic", Typed("scan_profile_ack", [scan_profile |-> Token("hybrid_failover")]))
    \cup Ack("display_control",
             Typed("display_control_ack", [button_enabled |-> Flag(TRUE), view |-> Token("rf"),
                                           page_lock |-> Flag(FALSE), page |-> Number(-1)]))
    \cup Ack("display_policy_ok", Typed("display_policy_ack", [hash |-> Number(7)]))
    \cup Ack("display_policy_failed",
             Typed("display_policy_ack", [ok |-> Flag(FALSE), hash |-> Number(0),
                                          error |-> Phrase("invalid_policy")]))

\* Outside calibration a scanner has no session and no UUID to name.
CalibrationAcks ==
    UNION { Ack("cal_mode_ack", Typed("cal_mode_ack",
                    [ok |-> Flag(ok), session_id |-> Token(s), scan_mode |-> Token("normal"),
                     calibration_uuid |-> Token(IF s = "" THEN "" ELSE UuidOf[s])]))
              : ok \in BOOLEAN, s \in Sessions \cup {""} }

RecoveryLines ==
    Ack("scanner_recovery",
        Typed("scanner_recovery", [recovery_mode |-> Token("safe_uart"), safe_reason |-> Phrase("crash loop"),
                                   rollback_pending |-> Flag(FALSE), crash_count |-> Number(3),
                                   ota_state |-> Token("idle")]))
    \cup Ack("recovery_reboot", Typed("recovery_ack", [mode |-> Token("safe_uart"), reboot |-> Flag(TRUE)]))
    \cup Ack("recovery_cleared",
             Typed("recovery_ack", [mode |-> Token("normal"), reboot |-> Flag(TRUE), cleared |-> Flag(TRUE),
                                    crash_count |-> Number(0)]))
    \cup Ack("recovery_simple", Typed("recovery_ack", [mode |-> Token("reboot")]))
    \cup { To("uplink", "badge", 0, "ack", "crud_self", Typed("crud_self_ack", SelfIdentity)) }

CheckLines ==
    Receipt("fw_check", Typed("fw_check",
        [board |-> Token("?"), ver |-> Token("v1"), caps |-> Token("ble"), fw_state |-> Token("idle"),
         fw_check_count |-> Number(1), last_fw_error |-> Phrase(""), reason |-> Phrase("boot"),
         ota_state |-> Token("idle"), recovery_mode |-> Token("normal"),
         rollback_pending |-> Flag(TRUE), crash_count |-> Number(0)]))
    \cup Receipt("stop_ack", Typed("stop_ack", <<>>))

\* A bug: the version of the scanner is left out of its acceptance.
ReadyReceiptSansVersion ==
    Typed("fw_ready", Stored @@ [board |-> Token("?"), allow_same_version |-> Flag(FALSE)])
ReadyReceipt ==
    Typed("fw_ready", Stored @@ [board |-> Token("?"), ver |-> Token("v1"),
                                 allow_same_version |-> Flag(FALSE)])

OtaEvents ==
    LET Bound == [session_id |-> Token("r1")]
        Full == Stored @@ Bound @@ [allow_same_version |-> Flag(TRUE), received |-> Number(0)]
        Gone == [received |-> Number(1), total |-> Number(900), percent |-> Number(0)]
        Why == [reason |-> Phrase("uart_timeout")]
    IN Receipt("fw_ready_strict", ReadyReceipt)
       \cup UNION { Receipt(c, Typed(c, Full)) : c \in {"ota_ack", "ota_staged", "ota_done"} }
       \cup Receipt("ota_nack_active", Typed("ota_nack", Bound @@ [seq |-> Number(5)]))
       \cup Receipt("ota_nack_unbound", Typed("ota_nack", [seq |-> Number(5)]))
       \cup Receipt("ota_progress_active", Typed("ota_progress", Bound @@ Gone))
       \cup Receipt("ota_progress_unbound", Typed("ota_progress", Gone))
       \cup Receipt("ota_error_active", Typed("ota_error", Why @@ Bound @@ [received |-> Number(1)]))
       \cup Receipt("ota_error_presession", Typed("ota_error", Why))
       \cup Receipt("ota_error_presession_legacy", Typed("ota_error", Why @@ [received |-> Number(1)]))

\* Investigations are the business of slot 0 alone.
ChunkLines ==
    LET Of(id, rest) == To("uplink", "badge", 0, "chunk", id,
                           Typed("ble_inv_" \o id, [request_id |-> Token("q1")] @@ rest))
    IN { Of("begin", [mode |-> Token("gatt"), target_mac |-> Token(TheMac)]),
         Of("begin", [mode |-> Token("passive_capture"), target_mac |-> Null]) }
       \cup { Of("progress", [state |-> Token(s)])
                : s \in {"queued", "scanning", "connecting", "discovering", "reading"} }
       \cup { Of("service", [index |-> Number(i), uuid |-> Token("UUID")]) : i \in {0, 15} }
       \cup { Of("char", [index |-> Number(i), service_uuid |-> Token("UUID"), uuid |-> Token("UUID"),
                          properties |-> ArrayOf(p)])
                : i \in {0, 31}, p \in {<<>>, <<"broadcast", "read", "extended_properties">>} }
       \cup { Of("read", [index |-> Number(i), uuid |-> Token("UUID"), value_hex |-> Token(h)])
                : i \in {0, 7}, h \in {"", "HEX"} }
       \cup { Of("end", [state |-> Token(s), summary |-> Phrase("done"), error |-> e,
                         authentication_required |-> Flag(FALSE), truncated |-> Flag(TRUE)])
                : s \in {"complete", "failed", "cancelled"}, e \in {Null, Phrase("timeout")} }

EnvelopeLines ==
    UNION { FromEach("envelope", t, Typed(t, [seq |-> Number(1)]))
              : t \in {"detection", "status", "scanner_info"} }

UplinkLines == AckLines \cup CalibrationAcks \cup RecoveryLines \cup CheckLines \cup OtaEvents
               \cup ChunkLines \cup EnvelopeLines

(***************************************************************************)
(* The host tools to the badge.                                            *)
(***************************************************************************)
Cmd(class, id, name, rest) ==
    To("host", "badge", 0, class, id, Message([cmd |-> Token(name)] @@ rest))

\* scripts/fof_badge_flash.py: the manifests of both uploads, bound or not
UploadLines ==
    LET Image == [target |-> Token("t"), project |-> Token("p"), hardware_type |-> Token("hw"),
                  version |-> Token("v2"), size |-> Number(900), crc32 |-> Number(Uint32Max),
                  sha256 |-> Token("sha"), flow_control |-> Token("credit-v1")]
        Scanner == Image @@ [name |-> Token("t"), slot_mask |-> Number(3)]
        Uplink == Image @@ [recovery_rewrite_same_version |-> Flag(FALSE)]
        Bound == [session |-> Token("A1")]
    IN { Cmd("firmware", "fw_upload_begin", "fw_upload_begin", Scanner),
         Cmd("firmware", "fw_upload_begin_session", "fw_upload_begin", Scanner @@ Bound),
         Cmd("firmware", "uplink_ota_begin", "uplink_ota_begin", Uplink),
         Cmd("firmware", "uplink_ota_begin_session", "uplink_ota_begin", Uplink @@ Bound) }

RelayLines ==
    LET Plain == [uart |-> Token("ble"), allow_same_version |-> Flag(TRUE),
                  expected_generation |-> Number(3), expected_hardware_id |-> Token("id")]
    IN { Cmd("firmware", "fw_relay_base", "fw_relay", Plain),
         Cmd("firmware", "fw_relay_forced", "fw_relay",
             Plain @@ [force |-> Flag(TRUE), skip_command_probe |-> Flag(TRUE)]),
         Cmd("firmware", "fw_check_now", "fw_check_now", [uart |-> Token("all")]) }

ControlLines ==
    { Cmd("control", c, c, [session |-> Token("A1")])
        : c \in {"prepare_update", "finish_update", "abort_update"} }
    \cup { Cmd("control", "scanner_recovery", "scanner_recovery",
               [uart |-> Token("wifi"), enabled |-> Flag(FALSE)]),
           Cmd("control", "badge_theme", "badge_theme",
               [theme |-> ObjectOf("theme"), persist |-> Flag(FALSE)]) }
    \cup { Cmd("control", "network", "network", [mode |-> Token(m), ttl_s |-> Number(600)])
             : m \in {"off", "local_ap"} }

Words(deployment, class, words) ==
    { [To("host", deployment, 0, class, w[1], Message(<<>>)) EXCEPT !.word = w] : w \in words }

\* the web flasher's settings, and the recovery tools' words
SettingLines ==
    Words("badge", "plain", { <<"FOF_SET", k, "text">>
                                : k \in {"wifi_ssid", "wifi_pass", "backend_url", "device_id",
                                         "ap_ssid", "ap_pass"} }
                            \cup { <<w>> : w \in {"FOF_SAVE", "FOF_PING", "FOF_REBOOT"} })
RecoveryToolLines ==
    Words("recovery", "recovery", { <<w>> : w \in {"FOF_STATUS", "FOF_REBOOT", "FOF_BOOTLOADER"} })
    \cup { [Cmd("recovery", "uplink_ota_begin", "uplink_ota_begin", l.msg.has) EXCEPT !.where = "recovery"]
             : l \in { u \in UploadLines : Selector(u.msg, "cmd") = "uplink_ota_begin" } }
    \cup { [Cmd("recovery", "FOF_STATUS", "status", <<>>) EXCEPT !.where = "recovery"],
           Cmd("control", "safe_mode", "safe_mode",
               [enabled |-> Flag(FALSE), reason |-> Phrase("post_flash_clear")]) }

HostLines == SettingLines \cup RecoveryToolLines \cup UploadLines \cup RelayLines \cup ControlLines
Lines == ScannerLines \cup UplinkLines \cup HostLines
==============================================================================
