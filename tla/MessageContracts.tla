-------------------------- MODULE MessageContracts --------------------------
(***************************************************************************)
(* Two programs, two sides of every line.  Uplink, scanners and the host   *)
(* each write their lines with formats of their own; the reader checks an  *)
(* exact schema, then the values.  A line is written, possibly damaged on  *)
(* the way, and decided upon: MessageWriters has the lines, this module    *)
(* the exact-object schemas of the four registries (firmware, scanner      *)
(* commands, scanner lines to the uplink, USB control) and the decisions   *)
(* of the three readers.                                                   *)
(***************************************************************************)
EXTENDS MessageWriters

VARIABLES line,     \* the line on the wire with what its writer means
          damaged,  \* whether something on the way changed it
          verdict   \* the reader's route for it, Unread before it is read

vars == <<line, damaged, verdict>>

Refused == <<"refused">>
Roles == {"ble_primary", "wifi_primary"}

(***************************************************************************)
(* The schemas.                                                            *)
(***************************************************************************)
\* fof_json_validate_exact_object: every member once, and nothing else
Exact(m, members) ==
    /\ m.whole /\ m.twice = {}
    /\ DOMAIN m.has = DOMAIN members
    /\ \A k \in DOMAIN members : Fits(m.has[k], members[k])

Each(type, keys) == [k \in keys |-> type]
Tokens(keys) == Each("token", keys)
Schema(id, selector, members) == [id |-> id, sel |-> selector, members |-> members]

(***************************************************************************)
(* The firmware registry, by ingress.                                      *)
(***************************************************************************)
Manifest == Tokens({"target_ver", "fw_name", "app_project", "hardware_type", "sha256"})
            @@ Each("uint32", {"generation", "size", "crc"})
Upload == Tokens({"cmd", "target", "project", "hardware_type", "version", "sha256",
                  "flow_control"}) @@ Each("uint32", {"size", "crc32"})
Relay == Tokens({"cmd", "uart", "expected_hardware_id"})
         @@ Each("uint32", {"expected_generation"}) @@ Each("bool", {"allow_same_version"})
CmdOnly == Tokens({"cmd"})
TypeOnly == Tokens({"type"})

HostFirmware ==
    LET Scanner == Upload @@ Tokens({"name"}) @@ Each("uint32", {"slot_mask"})
        Uplink == Upload @@ Each("bool", {"recovery_rewrite_same_version"})
    IN { Schema("fw_relay_base", "fw_relay", Relay),
         Schema("fw_relay_forced", "fw_relay",
                Relay @@ Each("bool", {"force", "skip_command_probe"})),
         Schema("fw_upload_begin", "fw_upload_begin", Scanner),
         Schema("fw_upload_begin_session", "fw_upload_begin", Scanner @@ Tokens({"session"})),
         Schema("uplink_ota_begin", "uplink_ota_begin", Uplink),
         Schema("uplink_ota_begin_session", "uplink_ota_begin", Uplink @@ Tokens({"session"})) }
       \cup { Schema(c, c, CmdOnly) : c \in {"fw_check", "fw_check_now"} }
       \cup { Schema(c, c, Tokens({"cmd", "uart"})) : c \in {"fw_check", "fw_check_now"} }

ScannerFirmware ==
    { Schema("fw_offer", "fw_offer",
             Tokens({"type"}) @@ Manifest @@ Each("bool", {"update"}) @@ Each("text", {"reason"})),
      Schema("fw_check_now", "fw_check_now", TypeOnly),
      Schema("ota_abort_active", "ota_abort", Tokens({"type", "session_id"})),
      Schema("ota_abort_unbound", "ota_abort", TypeOnly) }
    \cup { Schema(c, c, Tokens({"type", "session_id"}) @@ Manifest
                        @@ Each("bool", {"allow_same_version"})) : c \in {"ota_begin", "ota_end"} }

ReceiptFirmware ==
    LET Session == Tokens({"type", "session_id"})
        Full == Session @@ Manifest @@ Each("bool", {"allow_same_version"})
                @@ Each("uint32", {"received"})
        Progress == Each("uint32", {"received", "total", "percent"})
    IN { Schema("fw_check", "fw_check",
                Tokens({"type", "board", "ver", "caps", "fw_state", "ota_state", "recovery_mode"})
                @@ Each("uint32", {"fw_check_count", "crash_count"})
                @@ Each("text", {"last_fw_error", "reason"}) @@ Each("bool", {"rollback_pending"})),
         Schema("fw_ready_strict", "fw_ready",
                Tokens({"type", "board", "ver"}) @@ Manifest
                @@ Each("bool", {"allow_same_version"})),
         Schema("fw_ready_legacy", "fw_ready",
                Tokens({"type", "board", "ver", "target_ver"}) @@ Each("uint32", {"size", "crc"})),
         Schema("ota_ack_legacy", "ota_ack", Session),
         Schema("ota_done_legacy", "ota_done", Session @@ Each("uint32", {"received"})),
         Schema("ota_progress_active", "ota_progress", Session @@ Progress),
         Schema("ota_progress_unbound", "ota_progress", TypeOnly @@ Progress),
         Schema("ota_nack_active", "ota_nack", Session @@ Each("uint32", {"seq"})),
         Schema("ota_nack_unbound", "ota_nack", TypeOnly @@ Each("uint32", {"seq"})),
         Schema("ota_error_active", "ota_error",
                Session @@ Each("text", {"reason"}) @@ Each("uint32", {"received"})),
         Schema("ota_error_presession", "ota_error", TypeOnly @@ Each("text", {"reason"})),
         Schema("ota_error_presession_legacy", "ota_error",
                TypeOnly @@ Each("text", {"reason"}) @@ Each("uint32", {"received"})),
         Schema("stop_ack", "stop_ack", TypeOnly) }
       \cup { Schema(c, c, Full) : c \in {"ota_ack", "ota_staged", "ota_done"} }

(***************************************************************************)
(* The scanner's other commands.                                           *)
(***************************************************************************)
ScannerCommands ==
    { Schema(c, c, TypeOnly) : c \in {"ready", "start", "stop", "lockon_cancel",
                                      "ble_lockon_cancel", "reboot"} }
    \cup
    { Schema("scanner_quiet", "scanner_quiet",
             TypeOnly @@ Each("bool", {"enabled"}) @@ Each("uint32", {"generation"})),
      Schema("ble_investigate", "ble_investigate",
             Tokens({"type", "request_id", "mode"}) @@ Each("nullable", {"target"})
             @@ Each("int32", {"timeout_ms"})),
      Schema("ble_investigate_cancel", "ble_investigate_cancel", Tokens({"type", "request_id"})),
      Schema("lockon", "lockon", Tokens({"type", "bssid"}) @@ Each("int32", {"ch", "dur"})),
      Schema("ble_lockon", "ble_lockon", Tokens({"type", "mac"}) @@ Each("int32", {"dur"})),
      Schema("cal_mode_start", "cal_mode_start",
             Tokens({"type", "session_id", "calibration_uuid"})),
      Schema("cal_mode_stop", "cal_mode_stop", Tokens({"type", "session_id"})),
      Schema("scan_profile", "scan_profile", Tokens({"type", "scan_profile", "slot_role"})),
      Schema("display_control_full", "display_control",
             Tokens({"type", "view"}) @@ Each("int32", {"page"})
             @@ Each("bool", {"button_enabled", "page_lock", "auto_page"})),
      Schema("display_control_button", "display_control",
             TypeOnly @@ Each("bool", {"button_enabled"})),
      Schema("display_policy", "display_policy",
             TypeOnly @@ Each("uint32", {"version", "hash"}) @@ Each("object", {"policy"})),
      Schema("time", "time", Tokens({"type", "src"}) @@ Each("int64", {"ms"}) @@ Each("bool", {"ok"})),
      Schema("safe_mode", "safe_mode", TypeOnly @@ Each("bool", {"enabled"})),
      Schema("crud_self", "crud_self",
             Tokens({"type", "peer", "session"}) @@ Each("uint32", {"v", "round"})) }

(***************************************************************************)
(* What a scanner sends back: acknowledgements and investigation chunks.   *)
(***************************************************************************)
AckSchemas ==
    LET Quiet == TypeOnly @@ Each("uint32", {"generation"})
                 @@ Each("bool", {"ok", "enabled", "ble_scanning", "wifi_paused", "ble_quiesced",
                                  "wifi_quiesced", "ble_active", "wifi_active", "radios_ready",
                                  "tx_restored", "tx_enabled", "uart_commands"})
        Recovery == Tokens({"type", "mode"})
    IN { Schema("cal_mode_ack", "cal_mode_ack",
                Tokens({"type", "session_id", "scan_mode", "calibration_uuid"})
                @@ Each("bool", {"ok"})),
         Schema("scan_profile_full", "scan_profile_ack",
                Tokens({"type", "scan_profile", "slot_role"}) @@ Each("bool", {"slot_role_ok"})),
         Schema("scan_profile_basic", "scan_profile_ack", Tokens({"type", "scan_profile"})),
         Schema("display_control", "display_control_ack",
                Tokens({"type", "view"}) @@ Each("bool", {"button_enabled", "page_lock"})
                @@ Each("int32", {"page"})),
         Schema("display_policy_ok", "display_policy_ack", TypeOnly @@ Each("uint32", {"hash"})),
         Schema("display_policy_failed", "display_policy_ack",
                TypeOnly @@ Each("bool", {"ok"}) @@ Each("uint32", {"hash"})
                @@ Each("text", {"error"})),
         Schema("scanner_quiet", "scanner_quiet_ack", Quiet),
         Schema("scanner_quiet_error", "scanner_quiet_ack", Quiet @@ Each("text", {"error"})),
         Schema("recovery_simple", "recovery_ack", Recovery),
         Schema("recovery_reboot", "recovery_ack", Recovery @@ Each("bool", {"reboot"})),
         Schema("recovery_cleared", "recovery_ack",
                Recovery @@ Each("bool", {"reboot", "cleared"}) @@ Each("uint32", {"crash_count"})),
         Schema("scanner_recovery", "scanner_recovery",
                Tokens({"type", "recovery_mode", "ota_state"}) @@ Each("text", {"safe_reason"})
                @@ Each("bool", {"rollback_pending"}) @@ Each("uint32", {"crash_count"})),
         Schema("crud_self", "crud_self_ack",
                Tokens({"type", "peer", "session"}) @@ Each("uint32", {"v", "round"})) }

Investigation ==
    LET Part == Tokens({"type", "request_id"})
        Indexed == Part @@ Each("int32", {"index"})
    IN { Schema("begin", "ble_inv_begin", Part @@ Tokens({"mode"}) @@ Each("nullable", {"target_mac"})),
         Schema("progress", "ble_inv_progress", Part @@ Tokens({"state"})),
         Schema("service", "ble_inv_service", Indexed @@ Tokens({"uuid"})),
         Schema("char", "ble_inv_char",
                Indexed @@ Tokens({"service_uuid", "uuid"}) @@ Each("array", {"properties"})),
         Schema("read", "ble_inv_read", Indexed @@ Tokens({"uuid", "value_hex"})),
         Schema("end", "ble_inv_end",
                Part @@ Tokens({"state"}) @@ Each("text", {"summary"}) @@ Each("maybe", {"error"})
                @@ Each("bool", {"authentication_required", "truncated"})) }

(***************************************************************************)
(* The badge's USB control commands that are not firmware commands.        *)
(***************************************************************************)
ControlSchemas ==
    LET Mode == Tokens({"cmd", "mode"})
        Persist == CmdOnly @@ Each("bool", {"persist"})
        Display(switch) == Tokens({"cmd", "uart", "view"}) @@ Each("int32", {"page"})
                           @@ Each("bool", {switch, "page_lock", "auto_page"})
    IN { Schema(c, c, CmdOnly) : c \in {"status", "reboot"} }
       \cup { Schema(c, c, Persist) : c \in {"badge_display_policy_reset", "badge_theme_reset"} }
       \cup { Schema(c, c, Tokens({"cmd", "uart"}) @@ Each("bool", {"enabled"}))
                : c \in {"scanner_trigger", "trigger", "scanner_safe_mode", "scanner_recovery"} }
       \cup { Schema(c, c, Tokens({"cmd", "session"}))
                : c \in {"prepare_update", "finish_update", "abort_update"} }
       \cup { Schema("scanner_display", "scanner_display", Display(s))
                : s \in {"button_enabled", "trigger_enabled", "boot_enabled"} }
       \cup
       { Schema("power_mode", "power_mode", Mode),
         Schema("set_mode_persistent", "set_mode", Mode @@ Each("bool", {"persist"})),
         Schema("set_mode_session", "set_mode", Mode @@ Each("int32", {"ttl_s"})),
         Schema("set_backend", "set_backend",
                CmdOnly @@ Each("text", {"url", "wifi_ssid", "wifi_pass"})
                @@ Each("bool", {"enable"}) @@ Each("int32", {"ttl_s"})),
         Schema("set_display_debug", "set_display_debug", CmdOnly @@ Each("bool", {"enabled"})),
         Schema("network", "network", Mode @@ Each("int32", {"ttl_s"})),
         Schema("safe_mode", "safe_mode",
                CmdOnly @@ Each("bool", {"enabled"}) @@ Each("text", {"reason"})),
         Schema("ble_investigate", "ble_investigate",
                Mode @@ Tokens({"request_id"}) @@ Each("nullable", {"target"})
                @@ Each("uint32", {"timeout_ms"})),
         Schema("ble_chunk", "ble_investigation_chunk",
                Tokens({"cmd", "request_id"}) @@ Each("uint32", {"seq"})),
         Schema("badge_display_policy", "badge_display_policy",
                Persist @@ Each("object", {"policy"})),
         Schema("badge_theme", "badge_theme", Persist @@ Each("object", {"theme"})),
         Schema("display_nav", "display_nav", Tokens({"cmd", "action"})) }

FirmwareSchemas(ingress) ==
    CASE ingress = "usb" -> HostFirmware
      [] ingress = "scanner" -> ScannerFirmware
      [] ingress = "uplink" -> ReceiptFirmware

(***************************************************************************)
(* Reading: the values.                                                    *)
(***************************************************************************)
Text(m, k) == m.has[k].text
Num(m, k) == m.has[k].n
OneOf(m, k, values) == Fits(m.has[k], "token") /\ Text(m, k) \in values
Given(m, k) == Fits(m.has[k], "token") /\ Text(m, k) # ""
GattTarget(m, k, macs) == OneOf(m, "mode", {"gatt"}) /\ m.has[k] # Null /\ Text(m, k) \in macs
PassiveTarget(m, k) == OneOf(m, "mode", {"passive_capture"}) /\ m.has[k] = Null
SelfValid(m) == /\ Num(m, "v") = 1 /\ Num(m, "round") = 34
                /\ OneOf(m, "peer", {"peer"}) /\ OneOf(m, "session", {"sess"})

TimeValid(m) ==
    IF m.has["ok"].is THEN /\ Num(m, "ms") >= SomeValidClock
                           /\ OneOf(m, "src", {"backend", "local"})
    ELSE Num(m, "ms") = -1 /\ OneOf(m, "src", {"none"})

ProfileValid(m, deployment) ==
    /\ OneOf(m, "slot_role", Roles)
    /\ \/ OneOf(m, "scan_profile", {"hybrid_failover"}) /\ deployment = "node"
       \/ OneOf(m, "scan_profile", {Text(m, "slot_role")})

\* validate_semantics of scanner_command_schema_registry.c
CommandValid(id, m, deployment) ==
    CASE id = "ble_investigate" ->
           /\ Given(m, "request_id") /\ Num(m, "timeout_ms") \in 1 .. 12000
           /\ GattTarget(m, "target", {TheMac}) \/ PassiveTarget(m, "target")
      [] id = "ble_investigate_cancel" -> Given(m, "request_id")
      [] id = "lockon" -> /\ Num(m, "ch") \in 1 .. 13 /\ Num(m, "dur") \in {30, 45, 60, 90}
                          /\ OneOf(m, "bssid", {TheMac, ""})
      [] id = "ble_lockon" -> OneOf(m, "mac", {TheMac}) /\ Num(m, "dur") = 45
      [] id = "cal_mode_start" ->
           OneOf(m, "session_id", Sessions) /\ Text(m, "calibration_uuid") = UuidOf[Text(m, "session_id")]
      [] id = "cal_mode_stop" -> OneOf(m, "session_id", Sessions \cup {"stale"})
      [] id = "scan_profile" -> ProfileValid(m, deployment)
      [] id = "display_control_full" -> OneOf(m, "view", Views)
      [] id = "display_policy" ->
           /\ Num(m, "version") = 1 /\ Text(m, "policy") \in DOMAIN PolicyHash
           /\ Num(m, "hash") = PolicyHash[Text(m, "policy")]
      [] id = "time" -> TimeValid(m)
      [] id = "crud_self" -> SelfValid(m)
      [] OTHER -> TRUE

\* ack_semantics_valid of scanner_uplink_ingress_registry.c
AckValid(id, m) ==
    CASE id = "display_policy_failed" -> ~m.has["ok"].is
      [] id = "recovery_simple" -> OneOf(m, "mode", {"bootloader", "reboot"})
      [] id = "recovery_reboot" -> OneOf(m, "mode", {"safe_uart"}) /\ m.has["reboot"].is
      [] id = "recovery_cleared" -> /\ OneOf(m, "mode", {"normal"}) /\ Num(m, "crash_count") = 0
                                    /\ m.has["reboot"].is /\ m.has["cleared"].is
      [] id = "crud_self" -> SelfValid(m)
      [] OTHER -> TRUE

Hex(m, k) == OneOf(m, k, {"UUID"})
MaxServices == 16
MaxChars == 32
MaxReads == 8
Properties == {"broadcast", "read", "write_without_response", "write", "notify", "indicate",
               "authenticated_signed_writes", "extended_properties"}
Distinct(items) == \A i, j \in DOMAIN items : items[i] = items[j] => i = j
\* schema_semantics_valid of ble_investigation_ingress_schema.c
ChunkValid(id, m) ==
    /\ Given(m, "request_id")
    /\ CASE id = "begin" -> GattTarget(m, "target_mac", {TheMac}) \/ PassiveTarget(m, "target_mac")
         [] id = "progress" -> OneOf(m, "state", {"queued", "scanning", "connecting",
                                                  "discovering", "reading"})
         [] id = "service" -> Num(m, "index") \in 0 .. MaxServices - 1 /\ Hex(m, "uuid")
         [] id = "char" -> /\ Num(m, "index") \in 0 .. MaxChars - 1
                           /\ Hex(m, "service_uuid") /\ Hex(m, "uuid")
                           /\ \A i \in DOMAIN m.has["properties"].items :
                                 m.has["properties"].items[i] \in Properties
                           /\ Distinct(m.has["properties"].items)
         [] id = "read" -> /\ Num(m, "index") \in 0 .. MaxReads - 1
                           /\ Hex(m, "uuid") /\ OneOf(m, "value_hex", {"", "HEX"})
         [] id = "end" -> /\ OneOf(m, "state", {"complete", "failed", "cancelled"})
                          /\ Text(m, "summary") # "overlong"
                          /\ m.has["error"] # Null => Text(m, "error") # "overlong"

\* control_semantics_valid of badge_usb_control_schema.c
ControlValid(id, m) ==
    CASE id = "power_mode" -> OneOf(m, "mode", {"active", "quiet", "on", "off"})
      [] id \in {"set_mode_persistent", "set_mode_session", "network"} ->
           OneOf(m, "mode", {"off", "usb", "usb_only", "local_ap", "ap", "backend"})
      [] id = "ble_investigate" ->
           /\ Given(m, "request_id") /\ Num(m, "timeout_ms") \in 1 .. 12000
           /\ GattTarget(m, "target", {TheMac, "mac"}) \/ PassiveTarget(m, "target")
      [] id = "ble_chunk" -> Given(m, "request_id") /\ Num(m, "seq") \in 0 .. 63
      [] id = "badge_display_policy" -> Text(m, "policy") \in DOMAIN PolicyHash
      [] id = "badge_theme" -> Text(m, "theme") = "theme"
      [] id = "display_nav" -> OneOf(m, "action", {"next", "detail", "page", "back"})
      [] id = "scanner_display" -> OneOf(m, "uart", Uarts) /\ OneOf(m, "view", Views)
      [] id \in {"scanner_trigger", "trigger", "scanner_safe_mode", "scanner_recovery"} ->
           OneOf(m, "uart", Uarts)
      [] id \in {"prepare_update", "finish_update", "abort_update"} ->
           OneOf(m, "session", {"A1", "B2"})
      [] OTHER -> TRUE

(***************************************************************************)
(* Reading: the decision.  Firmware selectors are claimed first and never  *)
(* fall through; elsewhere one exact schema, then its values.              *)
(***************************************************************************)
Matching(m, schemas, key) ==
    { s \in schemas : s.sel = Selector(m, key) /\ Exact(m, s.members) }
Claims(m, schemas, key) == \E s \in schemas : s.sel = Selector(m, key)
The(S) == CHOOSE s \in S : TRUE

FirmwareRoute(m, ingress, key) ==
    LET found == Matching(m, FirmwareSchemas(ingress), key)
    IN IF Cardinality(found) = 1 THEN <<"firmware", The(found).id>> ELSE Refused

\* fof_scanner_command_select_and_validate
ScannerRoute(m, deployment) ==
    LET found == Matching(m, ScannerCommands, "type")
    IN IF ~HasSelector(m, "type") THEN Refused
       ELSE IF Claims(m, ScannerFirmware, "type") THEN FirmwareRoute(m, "scanner", "type")
       ELSE IF Cardinality(found) = 1 /\ CommandValid(The(found).id, m, deployment)
            THEN <<"command", The(found).id>> ELSE Refused

\* fof_scanner_uplink_ingress_select_and_validate
UplinkRoute(m, slot) ==
    LET chunk == Matching(m, Investigation, "type")
        acks == { s \in Matching(m, AckSchemas, "type") : AckValid(s.id, m) }
    IN IF ~HasSelector(m, "type") THEN Refused
       ELSE IF Claims(m, ReceiptFirmware, "type") THEN FirmwareRoute(m, "uplink", "type")
       ELSE IF Claims(m, Investigation, "type")
            THEN IF slot = 0 /\ chunk # {} /\ ChunkValid(The(chunk).id, m)
                 THEN <<"chunk", The(chunk).id>> ELSE Refused
       ELSE IF Claims(m, AckSchemas, "type")
            THEN IF acks # {} /\ ~(Selector(m, "type") = "crud_self_ack" /\ slot # 0)
                 THEN <<"ack", The(acks).id>> ELSE Refused
       ELSE IF Selector(m, "type") \in {"detection", "status", "scanner_info"}
            THEN <<"envelope", Selector(m, "type")>> ELSE Refused

\* serial_config_ingress_authorize: a word, a setting, or a control line
AllowedKeys == {"wifi_ssid", "wifi_pass", "backend_url", "device_id", "ap_ssid", "ap_pass",
                "badge_mode", "badge_display_debug", "badge_display_policy_v1", "game_seed"}
SetValid(word) ==
    /\ Len(word) = 3 /\ word[1] = "FOF_SET" /\ word[2] \in AllowedKeys
    /\ word[3] # "control bytes"
    /\ word[2] = "game_seed" => word[3] \in {"normal", "infected", "immune"}
ControlRoute(m) ==
    LET found == Matching(m, ControlSchemas, "cmd")
    IN IF ~HasSelector(m, "cmd") THEN Refused
       ELSE IF Claims(m, HostFirmware, "cmd") THEN FirmwareRoute(m, "usb", "cmd")
       ELSE IF Cardinality(found) = 1 /\ ControlValid(The(found).id, m)
            THEN <<"control", The(found).id>> ELSE Refused
HostRoute(l) ==
    CASE l.word \in { <<w>> : w \in {"FOF_PING", "FOF_STATUS", "FOF_SAVE", "FOF_REBOOT"} }
           -> <<"plain", l.word[1]>>
      [] SetValid(l.word) -> <<"plain", "FOF_SET">>
      [] l.word = <<"FOF_CTL">> -> ControlRoute(l.msg)
      [] OTHER -> Refused

\* A bug: recovery asks what the line begins with, not what it is.
RecoveryBySelector(l) ==
    CASE l.word[1] \in {"FOF_BOOTLOADER", "FOF_DOWNLOAD", "FOF_FLASH", "FOF_PING", "FOF_STATUS",
                        "FOF_REBOOT"} -> <<"recovery", l.word[1]>>
      [] l.word = <<"FOF_CTL">> /\ HasSelector(l.msg, "cmd") ->
           <<"recovery", IF Selector(l.msg, "cmd") = "status" THEN "FOF_STATUS"
                         ELSE Selector(l.msg, "cmd")>>
      [] OTHER -> Refused
\* serial_config_recovery_command_classify: what safe mode still obeys
RecoveryRoute(l) ==
    CASE l.word \in { <<w>> : w \in {"FOF_BOOTLOADER", "FOF_DOWNLOAD", "FOF_FLASH"} }
           -> <<"recovery", l.word[1]>>
      [] HostRoute(l) \in { <<"plain", w>> : w \in {"FOF_PING", "FOF_STATUS", "FOF_REBOOT"} }
           -> <<"recovery", HostRoute(l)[2]>>
      [] HostRoute(l) \in { <<"firmware", i>> : i \in {"uplink_ota_begin", "uplink_ota_begin_session"} }
           -> <<"recovery", "uplink_ota_begin">>
      [] HostRoute(l) = <<"control", "status">> -> <<"recovery", "FOF_STATUS">>
      [] HostRoute(l) = <<"control", "reboot">> -> <<"recovery", "FOF_REBOOT">>
      [] OTHER -> Refused

(***************************************************************************)
(* One line, the readers keep nothing of it: written, damaged or not, and  *)
(* decided.                                                                *)
(***************************************************************************)
Unread == <<"unread">>
Route(l) == CASE l.to = "scanner" -> ScannerRoute(l.msg, l.where)
              [] l.to = "uplink" -> UplinkRoute(l.msg, l.slot)
              [] l.to = "host" -> IF l.where = "recovery" THEN RecoveryRoute(l) ELSE HostRoute(l)

Init == line \in Lines /\ damaged = FALSE /\ verdict = Unread

\* What a lost byte, a spliced line or a program of another version does to a
\* line: a member missing, one too many, one twice, one of another type, a cut.
Damages(m) ==
    { [m EXCEPT !.has = [j \in DOMAIN m.has \ {k} |-> m.has[j]]] : k \in DOMAIN m.has }
    \cup { [m EXCEPT !.twice = {k}] : k \in DOMAIN m.has }
    \cup { [m EXCEPT !.has[k] = v] : k \in DOMAIN m.has, v \in {Null, Token("other"), Flag(FALSE)} }
    \cup { [m EXCEPT !.has = m.has @@ [more |-> Null]], [m EXCEPT !.whole = FALSE] }
Damage == /\ verdict = Unread /\ ~damaged
          /\ \/ \E m \in Damages(line.msg) : line' = [line EXCEPT !.msg = m]
             \/ /\ line.to = "host"
                /\ \E w \in { <<>>, line.word \o <<"more">>, <<"FOF_SET", "badge_mode", "control bytes">>,
                             <<"FOF_SET", "game_seed", "weird">> } : line' = [line EXCEPT !.word = w]
          /\ damaged' = TRUE /\ UNCHANGED verdict

Deliver == /\ verdict = Unread
           /\ verdict' = Route(line)
           /\ UNCHANGED <<line, damaged>>

Next == Damage \/ Deliver
Spec == Init /\ [][Next]_vars

TypeOK == /\ line.to \in {"scanner", "uplink", "host"} /\ damaged \in BOOLEAN
          /\ verdict[1] \in {"unread", "refused", "firmware", "command", "chunk", "ack",
                             "envelope", "control",
                             "plain", "recovery"}

\* Every line a program of this repository writes is understood by the
\* program it writes to, in every slot of every deployment, as its writer
\* means it: no writer and its reader have drifted apart, no guard of a
\* producer is laxer than the reader's (scanner_command_producer_policy.c
\* against validate_semantics; snprintf formats against the registries).
Understood == verdict # Unread /\ ~damaged => verdict = line.means

\* A line is never two things.  What a reader accepts has the members of one
\* schema of all its registries, damaged lines too; a member lost can only
\* make a line the shorter form of the same command, which its sender could
\* have sent, never another command's, and two readings are never open
\* (fof_json_validate_exact_object under every registry).
Registry(reader) ==
    CASE reader = "scanner" -> ScannerCommands \cup ScannerFirmware
      [] reader = "uplink" -> AckSchemas \cup Investigation \cup ReceiptFirmware
      [] reader = "host" -> ControlSchemas \cup HostFirmware
SelectorKey(reader) == IF reader = "host" THEN "cmd" ELSE "type"
ShorterForms == { <<"ota_abort_active", "ota_abort_unbound">>, <<"ota_nack_active", "ota_nack_unbound">>,
                  <<"ota_progress_active", "ota_progress_unbound">>,
                  <<"ota_error_active", "ota_error_presession_legacy">>,
                  <<"ota_error_presession_legacy", "ota_error_presession">>,
                  <<"scanner_quiet_error", "scanner_quiet">>, <<"fw_check_now", "fw_check_now">>,
                  <<"fw_upload_begin_session", "fw_upload_begin">>,
                  <<"uplink_ota_begin_session", "uplink_ota_begin">> }
OneMeaning ==
    /\ verdict[1] \in {"plain", "recovery"} => verdict = line.means
    /\ verdict[1] \notin {"unread", "refused", "envelope", "plain", "recovery"} =>
        /\ Cardinality({ s \in Registry(line.to) : /\ s.sel = Selector(line.msg, SelectorKey(line.to))
                                                   /\ DOMAIN s.members = DOMAIN line.msg.has }) = 1
        /\ verdict = line.means \/ <<line.means[2], verdict[2]>> \in ShorterForms
==============================================================================
