---------------------------- MODULE BadgeNetwork ----------------------------
(***************************************************************************)
(* The badge's network sessions (badge_runtime.c, apply_badge_network_mode *)
(* of main.c) over the station and the access point (wifi_sta.c,           *)
(* wifi_ap.c).  A command asks for a mode, for a time; the main loop ends  *)
(* a session whose time is over; both set the mode first and then apply it *)
(* on their own task.  The Wi-Fi driver posts events that are handled on   *)
(* the event task, a lost link is retried by a timer that walks through    *)
(* the stored credentials, and the access point is switched by a second    *)
(* timer.                                                                  *)
(***************************************************************************)
EXTENDS Naturals, Sequences

CONSTANTS Creds,        \* CONFIG_WIFI_CREDENTIAL_COUNT
          Retries,      \* failures on one SSID before the next (3)
          Commands,     \* mode commands
          Changes       \* networks that come and go, joins that fail
VARIABLES session,  \* s_network_mode, the state of its time, s_safe_mode
          applying, \* per task: the mode it set and has yet to apply
          sta,      \* wifi_sta.c: its flags, retry count and credential
          timers,   \* s_reconnect_timer and s_ap_mode_timer are armed
          ap,       \* s_ap_desired_state, s_ap_initialized
          radio,    \* the driver: started, AP mode, configured credential, link
          events,   \* posted and not yet handled
          inRange,  \* credentials whose network is in range
          fresh,    \* the radio was started for the backend session it serves
          left
vars == <<session, applying, sta, timers, ap, radio, events, inRange, fresh, left>>

Modes == {"off", "ap", "backend"}
Callers == {"usb", "http"}
Tasks == Callers \cup {"main"}

\* Boot: force_standalone, then the mode of the boot or of a reboot hold is applied by
\* badge_runtime_set_network_apply_callback.
Init ==
    /\ \E mode \in Modes, safe \in BOOLEAN :
       \E ttl \in IF safe \/ mode = "off" THEN {"none"} ELSE {"none", "running"} :
       /\ session = [mode |-> IF safe THEN "off" ELSE mode, ttl |-> ttl, safe |-> safe]
       /\ applying = [t \in Tasks |-> IF t = "main" THEN session.mode ELSE "nothing"]
    /\ sta = [alone |-> TRUE, connected |-> FALSE, started |-> FALSE, scanning |-> FALSE,
              keep |-> FALSE, initialized |-> FALSE, retry |-> 0, cred |-> 1]
    /\ timers = [reconnect |-> FALSE, ap |-> FALSE]
    /\ ap = [wanted |-> TRUE, initialized |-> FALSE]
    /\ radio = [on |-> FALSE, ap |-> FALSE, conf |-> 0, link |-> "down", at |-> 0]
    /\ events = <<>> /\ inRange = 1 .. Creds /\ fresh = FALSE
    /\ left = [commands |-> Commands, changes |-> Changes]

-----------------------------------------------------------------------------
(* The driver.                                                             *)

Post(e) == events' = Append(events, e)
Connecting(r) == IF r.on /\ r.link = "down" /\ r.conf # 0 THEN [r EXCEPT !.link = "joining", !.at = r.conf]
                 ELSE r
\* connect_with_cred.
ConnectedWith(r, cred) == Connecting([r EXCEPT !.conf = cred])

Join ==
    /\ radio.link = "joining"
    /\ \/ /\ radio.at \in inRange
          /\ radio' = [radio EXCEPT !.link = "up"] /\ Post("ip") /\ left' = left
       \/ /\ radio' = [radio EXCEPT !.link = "down"] /\ Post("lost")
          /\ IF radio.at \in inRange
             THEN left.changes > 0 /\ left' = [left EXCEPT !.changes = @ - 1]
             ELSE left' = left
    /\ UNCHANGED <<session, applying, sta, timers, ap, inRange, fresh>>
LinkLost ==
    /\ radio.link = "up" /\ radio.at \notin inRange
    /\ radio' = [radio EXCEPT !.link = "down"] /\ Post("lost")
    /\ UNCHANGED <<session, applying, sta, timers, ap, inRange, fresh, left>>
Move ==
    /\ left.changes > 0 /\ left' = [left EXCEPT !.changes = @ - 1]
    /\ inRange' \in SUBSET (1 .. Creds) \ {inRange}
    /\ UNCHANGED <<session, applying, sta, timers, ap, radio, events, fresh>>

-----------------------------------------------------------------------------
(* Events and timers.                                                      *)

\* wifi_ap_start and wifi_ap_stop schedule the mode switch; before wifi_ap_init only a
\* stop leaves a mark.
ApStart(t, a) == IF a.initialized THEN <<[t EXCEPT !.ap = TRUE], [a EXCEPT !.wanted = TRUE]>>
                 ELSE <<t, a>>
ApStop(t, a) == <<[t EXCEPT !.ap = @ \/ a.initialized], [a EXCEPT !.wanted = FALSE]>>

Becomes(x) == timers' = x[1] /\ ap' = x[2]
RetriesAfterLoss(t) == [t EXCEPT !.reconnect = TRUE]
Handle ==
    /\ events # <<>> /\ events' = Tail(events)
    /\ CASE Head(events) = "start" ->
            /\ radio' = IF sta.scanning THEN radio ELSE Connecting(radio)
            /\ UNCHANGED <<sta, timers, ap>>
         [] Head(events) = "lost" ->
            /\ sta' = [sta EXCEPT !.connected = FALSE]
            /\ Becomes(IF sta.scanning THEN <<timers, ap>>
                       ELSE ApStart(RetriesAfterLoss(timers), ap))
            /\ UNCHANGED radio
         [] Head(events) = "ip" ->
            /\ sta' = [sta EXCEPT !.connected = TRUE, !.retry = 0]
            /\ Becomes(IF sta.keep THEN ApStart(timers, ap) ELSE ApStop(timers, ap))
            /\ UNCHANGED radio
    /\ UNCHANGED <<session, applying, inRange, fresh, left>>

\* reconnect_timer_cb.
SameCred(s) == [s EXCEPT !.retry = 0]
NextCred(s) == IF s.retry = Retries THEN [s EXCEPT !.retry = 0, !.cred = (@ % Creds) + 1]
               ELSE [s EXCEPT !.retry = @ + 1]
Reconnect ==
    /\ timers.reconnect /\ timers' = [timers EXCEPT !.reconnect = FALSE]
    /\ sta' = NextCred(sta) /\ radio' = ConnectedWith(radio, NextCred(sta).cred)
    /\ UNCHANGED <<session, applying, ap, events, inRange, fresh, left>>

\* ap_mode_switch_cb.
SwitchAp ==
    /\ timers.ap /\ timers' = [timers EXCEPT !.ap = FALSE]
    /\ radio' = [radio EXCEPT !.ap = ap.wanted]
    /\ UNCHANGED <<session, applying, sta, ap, events, inRange, fresh, left>>

-----------------------------------------------------------------------------
(* Sessions.                                                               *)

\* badge_runtime_request_network up to the call that applies it.
Ask(t, mode, ttl) ==
    /\ applying[t] = "nothing"
    /\ IF session.safe /\ mode # "off" THEN UNCHANGED <<session, applying>>
       ELSE /\ session' = [session EXCEPT !.mode = mode, !.ttl = ttl]
            /\ applying' = [applying EXCEPT ![t] = mode]
Command(t) ==
    /\ t = "http" => radio.on
    /\ left.commands > 0 /\ left' = [left EXCEPT !.commands = @ - 1]
    /\ \/ \E mode \in Modes, ttl \in {"none", "running"} :
          (mode = "off" => ttl = "none") /\ Ask(t, mode, ttl)
       \/ /\ applying[t] = "nothing"    \* badge_runtime_force_safe_mode
          /\ \/ /\ session' = [session EXCEPT !.safe = TRUE, !.mode = "off", !.ttl = "none"]
                /\ applying' = [applying EXCEPT ![t] = "off"]
             \/ session' = [session EXCEPT !.safe = FALSE] /\ UNCHANGED applying
    /\ UNCHANGED <<sta, timers, ap, radio, events, inRange, fresh>>
TimeOver ==
    /\ session.ttl = "running" /\ session' = [session EXCEPT !.ttl = "over"]
    /\ UNCHANGED <<applying, sta, timers, ap, radio, events, inRange, fresh, left>>
\* badge_runtime_poll, from the main loop.
Expire ==
    /\ session.mode # "off" /\ session.ttl = "over" /\ Ask("main", "off", "none")
    /\ UNCHANGED <<sta, timers, ap, radio, events, inRange, fresh, left>>

\* wifi_sta_stop_all.
Apply(t) ==
    /\ applying[t] = "off" /\ applying' = [applying EXCEPT ![t] = "nothing"]
    /\ sta' = [sta EXCEPT !.alone = TRUE, !.connected = FALSE,
                          !.started = @ /\ ~sta.initialized, !.scanning = @ /\ ~sta.initialized,
                          !.retry = IF sta.initialized THEN 0 ELSE @]
    /\ LET a == ApStop(timers, ap) IN
       /\ timers' = [a[1] EXCEPT !.reconnect = @ /\ ~sta.initialized] /\ ap' = a[2]
    /\ IF sta.initialized
       THEN /\ radio' = [radio EXCEPT !.on = FALSE, !.ap = FALSE, !.link = "down"]
            /\ events' = IF radio.link = "down" THEN events ELSE Append(events, "lost")
       ELSE UNCHANGED <<radio, events>>
    /\ fresh' = FALSE
    /\ UNCHANGED <<session, inRange, left>>

\* wifi_sta_init and wifi_ap_init; a radio that runs already is left as it is.
ApplyOn(t) ==
    /\ applying[t] \in {"ap", "backend"}
    /\ LET local == applying[t] = "ap"
           s == [sta EXCEPT !.alone = local, !.keep = local, !.initialized = TRUE,
                            !.connected = @ /\ ~local] IN
       /\ IF sta.started
          THEN /\ sta' = s /\ fresh' = FALSE /\ UNCHANGED <<radio, events>>
               /\ applying' = [applying EXCEPT ![t] = "nothing"]
          ELSE /\ sta' = [s EXCEPT !.started = TRUE, !.scanning = ~local]
               /\ radio' = [radio EXCEPT !.on = TRUE, !.ap = TRUE] /\ Post("start")
               /\ applying' = [applying EXCEPT ![t] = IF local THEN "nothing" ELSE "scan"]
               /\ fresh' = ~local
       /\ LET a == [ap EXCEPT !.initialized = TRUE] IN
          Becomes(IF local THEN ApStart(timers, a) ELSE <<timers, a>>)
    /\ UNCHANGED <<session, inRange, left>>
\* find_best_ssid: the strongest known network, else the first credential.
ApplyScan(t) ==
    /\ applying[t] = "scan" /\ applying' = [applying EXCEPT ![t] = "nothing"]
    /\ \E best \in IF inRange = {} THEN {1} ELSE inRange :
       /\ sta' = [sta EXCEPT !.scanning = FALSE, !.cred = best]
       /\ radio' = ConnectedWith(radio, best)
    /\ UNCHANGED <<session, timers, ap, events, inRange, fresh, left>>

Driver == Join \/ LinkLost
Main == Expire \/ Apply("main") \/ ApplyOn("main") \/ ApplyScan("main")
Caller(t) == Apply(t) \/ ApplyOn(t) \/ ApplyScan(t)
Next == Driver \/ Move \/ Handle \/ Reconnect \/ SwitchAp \/ TimeOver \/ Main
        \/ \E t \in Callers : Command(t) \/ Caller(t)
Spec == Init /\ [][Next]_vars
FairSpec == Spec /\ WF_vars(Driver) /\ WF_vars(Handle) /\ WF_vars(Reconnect)
                 /\ WF_vars(SwitchAp) /\ WF_vars(TimeOver) /\ WF_vars(Main)
                 /\ \A t \in Callers : WF_vars(Caller(t))

-----------------------------------------------------------------------------
(* Properties.                                                             *)

\* A backend session whose radio was started for it, and that nobody changes any more,
\* finds its network as long as one of the known ones is in range: the retries walk
\* through the credentials and no event or timer of an earlier session stops them.  (A
\* session that finds the radio running does not: wifi_sta_init leaves it as it is.)
Undisturbed == /\ session.mode = "backend" /\ inRange # {}
               /\ fresh /\ \A t \in Tasks : applying[t] = "nothing"
Online == radio.link = "up" /\ sta.connected
NetworkReturns == <>[]Undisturbed => <>[]Online
=============================================================================
