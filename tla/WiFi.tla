-------------------------------- MODULE WiFi --------------------------------
(* The facade WiFiClass (src/src/WiFi.cpp) over the station WifiSta and the *)
(* access point WifiAp of deps/wifi.  One task calls the facade; the event  *)
(* task runs the handlers of the registered stations, in the order in which *)
(* the driver posts its events.  The driver is external.  A facade call is  *)
(* a list of steps; begin makes the new station while the old one is there. *)
EXTENDS Naturals, Sequences

CONSTANTS
    Stations,   \* WifiSta objects
    NULL,       \* no object
    Calls,      \* the facade operations the application uses
    MaxEvents   \* no call starts and no link changes while so many events wait

ASSUME StationAssumption == NULL \notin Stations /\ \E r, s \in Stations : r # s
ASSUME CallAssumption ==
    Calls \subseteq {"begin", "connect", "end", "softAP", "softAPend", "scanNetworks"}

VARIABLES
    sta_,           \* the station of the facade
    fresh,          \* the station begin is making, or the one it replaced
    alive,          \* stations that are constructed
    registered,     \* stations whose handlers are registered
    connected_,     \* of each station
    disconnecting_, \* of each station
    aps,            \* the access points that are constructed: 0, 1 or 2
    m_connected,    \* of the facade
    todo,           \* what is left of the running call
    mode, started,  \* the driver's mode, and whether it is started
    link,           \* "idle", "connecting", "up"
    events,         \* the queue of the event loop
    handling        \* what the event task is doing

staVars == <<sta_, fresh, alive, registered, connected_, disconnecting_>>
driver == <<mode, started, link, events>>
wifiVars == <<staVars, aps, m_connected, todo, driver, handling>>

Idle == [event |-> "none", at |-> NULL, step |-> "none", left |-> {}]

WiFiInit ==
    /\ sta_ = NULL /\ fresh = NULL /\ alive = {} /\ registered = {}
    /\ connected_ = [s \in Stations |-> FALSE]
    /\ disconnecting_ = [s \in Stations |-> FALSE]
    /\ aps = 0 /\ m_connected = FALSE /\ todo = <<>>
    /\ mode = "STA" /\ started = FALSE /\ link = "idle" /\ events = <<>>
    /\ handling = Idle

-----------------------------------------------------------------------------
(* The calls of the driver, on its state d = [mode, started, link, events].  *)

Now == [mode |-> mode, started |-> started, link |-> link, events |-> events]
Becomes(d) == mode' = d.mode /\ started' = d.started /\ link' = d.link /\ events' = d.events

\* A link that is given up is reported.
Down(d) == [d EXCEPT !.link = "idle",
               !.events = IF d.link = "idle" THEN @ ELSE Append(@, "STA_DISCONNECTED")]

esp_wifi_start(d) ==
    [d EXCEPT !.started = TRUE,
       !.events = IF ~ d.started /\ d.mode # "AP" THEN Append(@, "STA_START") ELSE @]
esp_wifi_stop(d) == [Down(d) EXCEPT !.started = FALSE]
esp_wifi_disconnect(d) == Down(d)
esp_wifi_set_mode(d, m) ==
    [(IF m = "AP" THEN Down(d) ELSE d) EXCEPT !.mode = m,
       !.events = IF d.started /\ d.mode = "AP" /\ m # "AP" THEN Append(@, "STA_START") ELSE @]
esp_wifi_connect(d) ==
    [d EXCEPT !.link = IF d.started /\ d.mode # "AP" /\ @ = "idle" THEN "connecting" ELSE @]

\* WifiAp::stop.
ApStop(d) == IF d.mode = "APSTA" THEN esp_wifi_set_mode(d, "STA") ELSE esp_wifi_stop(d)

\* WifiAp::init: reconfigure, which stops and starts an AP that runs, and start.
ApInit(d) ==
    LET s == IF d.mode = "STA" THEN d ELSE ApStop(d)
        m == esp_wifi_set_mode(s, IF s.mode = "STA" THEN "APSTA" ELSE s.mode)
    IN  esp_wifi_start(m)

\* The end of ~WifiSta.
StaShutdown(d) ==
    IF d.mode = "APSTA" THEN esp_wifi_set_mode(esp_wifi_disconnect(d), "AP")
                        ELSE esp_wifi_stop(d)

\* The bound on waiting events.
Room == Len(events) < MaxEvents

-----------------------------------------------------------------------------
(* The steps of the facade's calls.                                          *)

At(step) == todo # <<>> /\ Head(todo) = step
Done == todo' = Tail(todo)

\* std::make_unique<WifiSta>: register_event_handlers ...
Construct ==
    /\ At("construct") /\ Done /\ handling = Idle
    /\ LET s == CHOOSE x \in Stations : x \notin alive IN
          /\ fresh' = s /\ alive' = alive \cup {s} /\ registered' = registered \cup {s}
          /\ connected_' = [connected_ EXCEPT ![s] = FALSE]
          /\ disconnecting_' = [disconnecting_ EXCEPT ![s] = FALSE]
    /\ UNCHANGED <<sta_, aps, m_connected, driver, handling>>

\* ... reconfigure and start, then the assignment to sta_: what is left to
\* destroy is the station it held.
Configure ==
    /\ At("configure") /\ Done
    /\ Becomes(esp_wifi_start(esp_wifi_set_mode(Now, IF mode = "AP" THEN "APSTA" ELSE mode)))
    /\ sta_' = fresh /\ fresh' = sta_
    /\ UNCHANGED <<alive, registered, connected_, disconnecting_, aps, m_connected, handling>>

\* ~WifiSta: the flags and the callbacks are cleared ...
DestroyFlags ==
    /\ At("destroyFlags") /\ Done
    /\ IF fresh = NULL THEN UNCHANGED <<connected_, disconnecting_>>
       ELSE /\ connected_' = [connected_ EXCEPT ![fresh] = FALSE]
            /\ disconnecting_' = [disconnecting_ EXCEPT ![fresh] = TRUE]
    /\ UNCHANGED <<sta_, fresh, alive, registered, aps, m_connected, driver, handling>>

\* ... the handlers unregistered, which waits for the one that runs ...
KeepRegistered ==
    /\ At("unregister") /\ Done /\ UNCHANGED <<staVars, aps, m_connected, driver, handling>>
Unregister ==
    /\ At("unregister") /\ Done /\ handling = Idle
    /\ registered' = registered \ {fresh}
    /\ UNCHANGED <<sta_, fresh, alive, connected_, disconnecting_, aps, m_connected, driver, handling>>

\* ... and the station, or all of WiFi, stopped.
Shutdown ==
    /\ At("shutdown") /\ Done
    /\ IF fresh = NULL THEN UNCHANGED driver ELSE Becomes(StaShutdown(Now))
    /\ alive' = alive \ {fresh} /\ fresh' = NULL
    /\ UNCHANGED <<sta_, registered, connected_, disconnecting_, aps, m_connected, handling>>

\* connect: nothing without a station, or when it is connected ...
CheckConnected ==
    /\ At("checkConnected")
    /\ todo' = IF sta_ = NULL \/ (sta_ # NULL /\ connected_[sta_]) THEN <<>> ELSE Tail(todo)
    /\ UNCHANGED <<staVars, aps, m_connected, driver, handling>>

\* ... else WifiSta::connect: ensure_wifi_ready, the flag, esp_wifi_connect.
EnsureReady ==
    /\ At("ensureReady") /\ Done /\ Becomes(esp_wifi_start(Now))
    /\ UNCHANGED <<staVars, aps, m_connected, handling>>
ResetConnected ==
    /\ At("resetConnected") /\ Done /\ connected_' = [connected_ EXCEPT ![sta_] = FALSE]
    /\ UNCHANGED <<sta_, fresh, alive, registered, disconnecting_, aps, m_connected, driver, handling>>
Join ==
    /\ At("join") /\ Done /\ Becomes(esp_wifi_connect(Now))
    /\ UNCHANGED <<staVars, aps, m_connected, handling>>

\* end: WifiSta::stop is disconnect: the flags, then esp_wifi_disconnect;
\* then sta_ is reset.
StopFlags ==
    /\ At("stopFlags") /\ Done
    /\ IF sta_ = NULL THEN UNCHANGED <<connected_, disconnecting_>>
       ELSE /\ connected_' = [connected_ EXCEPT ![sta_] = FALSE]
            /\ disconnecting_' = [disconnecting_ EXCEPT ![sta_] = TRUE]
    /\ UNCHANGED <<sta_, fresh, alive, registered, aps, m_connected, driver, handling>>
StopLink ==
    /\ At("stopLink") /\ Done
    /\ IF sta_ = NULL THEN UNCHANGED driver ELSE Becomes(esp_wifi_disconnect(Now))
    /\ sta_' = NULL /\ fresh' = sta_
    /\ UNCHANGED <<alive, registered, connected_, disconnecting_, aps, m_connected, handling>>
EndFacade ==
    /\ At("endFacade") /\ Done
    /\ m_connected' = FALSE
    /\ UNCHANGED <<staVars, aps, driver, handling>>

\* softAP: the new WifiAp, then the old one is destroyed, which stops it.
MakeAp ==
    /\ At("makeAp") /\ Done /\ aps' = aps + 1 /\ Becomes(ApInit(Now))
    /\ UNCHANGED <<staVars, m_connected, handling>>
DropOldApKept ==
    /\ At("dropOldAp") /\ Done
    /\ UNCHANGED <<staVars, aps, m_connected, driver, handling>>
DropOldAp ==
    /\ At("dropOldAp") /\ Done
    /\ IF aps = 2 THEN aps' = 1 /\ Becomes(ApStop(Now)) ELSE UNCHANGED <<aps, driver>>
    /\ UNCHANGED <<staVars, m_connected, handling>>

\* end and softAPend stop the WifiAp; its destructor stops it again.
StopAp ==
    /\ At("stopAp") /\ Done
    /\ IF aps > 0 THEN Becomes(ApStop(Now)) ELSE UNCHANGED driver
    /\ UNCHANGED <<staVars, aps, m_connected, handling>>
DestroyAp ==
    /\ At("destroyAp") /\ Done
    /\ IF aps > 0 THEN aps' = 0 /\ Becomes(ApStop(Now)) ELSE UNCHANGED <<aps, driver>>
    /\ UNCHANGED <<staVars, m_connected, handling>>

\* scanNetworks: WifiSta::scan gives up the link, waits and scans; what it
\* finds is left out.
Scan ==
    /\ At("scan") /\ Done
    /\ IF sta_ = NULL THEN UNCHANGED driver ELSE Becomes(esp_wifi_disconnect(Now))
    /\ UNCHANGED <<staVars, aps, m_connected, handling>>

-----------------------------------------------------------------------------
(* The calls of the application.                                             *)

Destroy == <<"destroyFlags", "unregister", "shutdown">>
Connect == <<"checkConnected", "ensureReady", "resetConnected", "join">>
Begin == <<"construct", "configure">> \o Destroy

Steps(c) ==
    CASE c = "begin" -> Begin \o Connect
      [] c = "connect" -> Connect
      [] c = "end" -> <<"stopFlags", "stopLink">> \o Destroy \o <<"stopAp", "destroyAp", "endFacade">>
      [] c = "softAP" -> <<"makeAp", "dropOldAp">>
      [] c = "softAPend" -> <<"stopAp", "destroyAp">>
      [] c = "scanNetworks" -> <<"scan">>

Call == /\ todo = <<>> /\ Room
        /\ \/ \E c \in Calls : todo' = Steps(c)
           \/ "begin" \in Calls /\ todo' = Begin   \* begin without connect
        /\ UNCHANGED <<staVars, aps, m_connected, driver, handling>>

CallStep ==
    \/ Construct \/ Configure \/ DestroyFlags \/ Unregister \/ Shutdown
    \/ CheckConnected \/ EnsureReady \/ ResetConnected \/ Join
    \/ StopFlags \/ StopLink \/ EndFacade
    \/ MakeAp \/ DropOldAp \/ StopAp \/ DestroyAp \/ Scan

-----------------------------------------------------------------------------
(* The event task.                                                           *)

\* An event goes to each registered station in turn.
Dispatch ==
    /\ handling = Idle /\ events # <<>>
    /\ events' = Tail(events)
    /\ handling' = [Idle EXCEPT !.event = Head(events), !.left = registered]
    /\ UNCHANGED <<staVars, aps, m_connected, todo, mode, started, link>>

NextHandler ==
    /\ handling.event # "none" /\ handling.at = NULL
    /\ \/ /\ handling.left = {} /\ handling' = Idle
       \/ \E s \in handling.left :
             handling' = [handling EXCEPT !.at = s, !.step = "flags", !.left = @ \ {s}]
    /\ UNCHANGED <<staVars, aps, m_connected, todo, driver>>

\* Between DestroyFlags and Unregister a station has no callbacks any more.
Cleared(s) == fresh = s /\ At("unregister")

In(event, step) == handling.event = event /\ handling.step = step
Leave == handling' = [handling EXCEPT !.at = NULL, !.step = "none"]

OnStart ==
    /\ In("STA_START", "flags") /\ Leave
    /\ connected_' = [connected_ EXCEPT ![handling.at] = FALSE]
    /\ UNCHANGED <<sta_, fresh, alive, registered, disconnecting_, aps, m_connected, todo, driver>>

\* A disconnection that was not asked for is answered with a new attempt: the
\* facade sets no limit to them.
OnDisconnectedSticky ==
    /\ In("STA_DISCONNECTED", "flags")
    /\ connected_' = [connected_ EXCEPT ![handling.at] = FALSE]
    /\ disconnecting_' = [disconnecting_ EXCEPT ![handling.at] = TRUE]
    /\ handling' = [handling EXCEPT !.step = IF disconnecting_[handling.at] THEN "tell" ELSE "retry"]
    /\ UNCHANGED <<sta_, fresh, alive, registered, aps, m_connected, todo, driver>>
OnDisconnectedRetrying ==
    /\ In("STA_DISCONNECTED", "flags")
    /\ connected_' = [connected_ EXCEPT ![handling.at] = @ /\ ~ disconnecting_[handling.at]]
    /\ disconnecting_' = [disconnecting_ EXCEPT ![handling.at] = FALSE]
    /\ handling' = [handling EXCEPT !.step = IF disconnecting_[handling.at] THEN "tell" ELSE "retry"]
    /\ UNCHANGED <<sta_, fresh, alive, registered, aps, m_connected, todo, driver>>
OnDisconnected ==
    /\ In("STA_DISCONNECTED", "flags")
    /\ connected_' = [connected_ EXCEPT ![handling.at] = FALSE]
    /\ disconnecting_' = [disconnecting_ EXCEPT ![handling.at] = FALSE]
    /\ handling' = [handling EXCEPT !.step = IF disconnecting_[handling.at] THEN "tell" ELSE "retry"]
    /\ UNCHANGED <<sta_, fresh, alive, registered, aps, m_connected, todo, driver>>
Retry ==
    /\ In("STA_DISCONNECTED", "retry")
    /\ Becomes(esp_wifi_connect(Now))
    /\ handling' = [handling EXCEPT !.step = "tell"]
    /\ UNCHANGED <<staVars, aps, m_connected, todo>>
handle_disconnect ==
    /\ In("STA_DISCONNECTED", "tell") /\ Leave
    /\ m_connected' = (m_connected /\ Cleared(handling.at))
    /\ UNCHANGED <<staVars, aps, todo, driver>>

OnGotIp ==
    /\ In("STA_GOT_IP", "flags")
    /\ connected_' = [connected_ EXCEPT ![handling.at] = TRUE]
    /\ handling' = [handling EXCEPT !.step = "tell"]
    /\ UNCHANGED <<sta_, fresh, alive, registered, disconnecting_, aps, m_connected, todo, driver>>
handle_ip ==
    /\ In("STA_GOT_IP", "tell") /\ Leave
    /\ m_connected' = (m_connected \/ ~ Cleared(handling.at))
    /\ UNCHANGED <<staVars, aps, todo, driver>>

EventTask ==
    \/ Dispatch \/ NextHandler \/ OnStart \/ OnDisconnected \/ Retry
    \/ handle_disconnect \/ OnGotIp \/ handle_ip

-----------------------------------------------------------------------------
(* The driver.                                                               *)

Associates ==
    /\ link = "connecting" /\ Room
    /\ link' = "up" /\ events' = Append(events, "STA_GOT_IP")
    /\ UNCHANGED <<staVars, aps, m_connected, todo, mode, started, handling>>
LosesLink ==
    /\ link # "idle" /\ Room /\ Becomes(Down(Now))
    /\ UNCHANGED <<staVars, aps, m_connected, todo, handling>>

-----------------------------------------------------------------------------
WiFiNext == Call \/ CallStep \/ EventTask \/ Associates \/ LosesLink

WiFiSpec == WiFiInit /\ [][WiFiNext]_wifiVars

\* The tasks run; the access point is reached again and again.
WiFiFairness == WF_wifiVars(CallStep) /\ WF_wifiVars(EventTask) /\ SF_wifiVars(Associates)
FairWiFiSpec == WiFiSpec /\ WiFiFairness

WiFiTypeOK ==
    /\ sta_ \in Stations \cup {NULL} /\ fresh \in Stations \cup {NULL}
    /\ alive \subseteq Stations /\ registered \subseteq Stations
    /\ connected_ \in [Stations -> BOOLEAN] /\ disconnecting_ \in [Stations -> BOOLEAN]
    /\ aps \in 0..2 /\ m_connected \in BOOLEAN
    /\ mode \in {"STA", "AP", "APSTA"} /\ started \in BOOLEAN
    /\ link \in {"idle", "connecting", "up"}
    /\ link # "idle" => started /\ mode # "AP"

\* A disconnection the handler of s has still to see.
LossPending(s) ==
    \/ \E i \in DOMAIN events : events[i] = "STA_DISCONNECTED"
    \/ /\ handling.event = "STA_DISCONNECTED"
       /\ s \in handling.left \/ (handling.at = s /\ handling.step = "flags")

\* isConnected says yes only when the station has an address, or when the
\* loss has been reported and is still to be handled (WiFi.cpp:95).
isConnected == IF sta_ # NULL THEN connected_[sta_] ELSE m_connected
NoFalseLink == isConnected /\ todo = <<>> => link = "up" \/ (sta_ # NULL /\ LossPending(sta_))

\* Handlers run for stations that exist, and when no call runs only for the
\* station of the facade (WiFi.cpp:56, wifi_sta.hpp:118).
HandlersAlive ==
    /\ registered \cup handling.left \cup ({handling.at} \ {NULL}) \subseteq alive
    /\ todo = <<>> => registered = {sta_} \ {NULL} /\ alive = registered

\* While the driver runs the station and the application makes no call, a
\* link that was lost is set up again (wifi_sta.hpp:698).
Reconnects ==
    LossPending(sta_) /\ sta_ # NULL /\ started /\ mode # "AP" /\ todo = <<>>
        ~> link = "up" \/ todo # <<>>
=============================================================================
