--------------------------- MODULE WebsocketClient ---------------------------
(* WebsocketClient (src/include/WebsocketClient.hpp): a user task connects, *)
(* disconnects and sends; the handler of the library's events runs in the   *)
(* task of the library or, when a send fails, in the task that sent.  The   *)
(* library (esp_websocket_client) is external: its lock lets one event at a *)
(* time be handled, it changes its own state before it dispatches the event *)
(* and goes on connecting by itself, but for a connection that the server   *)
(* closes: then its task ends.                                              *)

VARIABLES
    m_client,          \* whether the client exists
    m_connected,       \* the flag the handler keeps
    m_auto_reconnect,  \* as the user asked for it
    lib,               \* the library: "none", "ready", "waiting", "open",
                       \* "closing" and "ended" when the server closes
    user,              \* where the user task is
    again,             \* whether the running disconnect is that of a connect
    event,             \* the event being handled
    told               \* what the callbacks have told the application

vars == <<m_client, m_connected, m_auto_reconnect, lib, user, again, event, told>>

NoEvent == [id |-> "none", step |-> "none"]
Handling(id) == [id |-> id, step |-> "flags"]

Init ==
    /\ m_client = FALSE /\ m_connected = FALSE /\ m_auto_reconnect = FALSE
    /\ lib = "none" /\ user = "idle" /\ again = FALSE
    /\ event = NoEvent /\ told = "down"

is_connected == m_client /\ lib = "open" /\ m_connected

-----------------------------------------------------------------------------
(* The user task.                                                            *)

\* connect disconnects first when there is a client.
connect ==
    /\ user = "idle"
    /\ user' = (IF m_client THEN "stop" ELSE "init") /\ again' = m_client
    /\ UNCHANGED <<m_client, m_connected, m_auto_reconnect, lib, event, told>>

\* The parameters are stored, esp_websocket_client_init may fail.
InitClient ==
    /\ user = "init" /\ m_auto_reconnect' \in BOOLEAN
    /\ \/ m_client' = TRUE /\ lib' = "ready" /\ user' = "start"
       \/ user' = "idle" /\ UNCHANGED <<m_client, lib>>
    /\ UNCHANGED <<m_connected, again, event, told>>

\* esp_websocket_client_start may fail: then the client is destroyed.
StartClientDangling ==
    /\ user = "start" /\ user' = "idle" /\ lib' \in {"waiting", "none"}
    /\ UNCHANGED <<m_client, m_connected, m_auto_reconnect, again, event, told>>
StartClient ==
    /\ user = "start" /\ user' = "idle"
    /\ \/ lib' = "waiting" /\ UNCHANGED m_client
       \/ lib' = "none" /\ m_client' = FALSE
    /\ UNCHANGED <<m_connected, m_auto_reconnect, again, event, told>>

disconnect ==
    /\ user = "idle" /\ m_client
    /\ user' = "stop" /\ again' = FALSE
    /\ UNCHANGED <<m_client, m_connected, m_auto_reconnect, lib, event, told>>

\* esp_websocket_client_stop returns when the library's task has ended; until
\* then it may still connect, or lose the connection.
StopClient ==
    /\ user = "stop" /\ event = NoEvent
    /\ user' = "destroy" /\ lib' = "ready"
    /\ UNCHANGED <<m_client, m_connected, m_auto_reconnect, again, event, told>>

\* The client is gone, and no callback says so.
DestroyClientOnly ==
    /\ user = "destroy"
    /\ lib' = "none" /\ m_client' = FALSE /\ told' = "down"
    /\ user' = (IF again THEN "init" ELSE "idle") /\ again' = FALSE
    /\ UNCHANGED <<m_connected, m_auto_reconnect, event>>

DestroyClient ==
    /\ user = "destroy"
    /\ lib' = "none" /\ m_client' = FALSE /\ m_connected' = FALSE /\ told' = "down"
    /\ user' = (IF again THEN "init" ELSE "idle") /\ again' = FALSE
    /\ UNCHANGED <<m_auto_reconnect, event>>

\* send and send_frame: the connection is checked ...
CheckSend ==
    /\ user = "idle" /\ is_connected /\ user' = "send"
    /\ UNCHANGED <<m_client, m_connected, m_auto_reconnect, lib, again, event, told>>

\* ... and may be gone when the library has its lock; a send that fails gives
\* up the connection, and the handler runs in the task that sent.
Fails == lib = "open" /\ lib' = "waiting" /\ event' = Handling("DISCONNECTED")

send ==
    /\ user = "send" /\ event = NoEvent /\ user' = "idle"
    /\ Fails \/ UNCHANGED <<lib, event>>
    /\ UNCHANGED <<m_client, m_connected, m_auto_reconnect, again, told>>

\* The library is not told: it goes on reconnecting.
set_auto_reconnect ==
    /\ user = "idle" /\ m_auto_reconnect' \in BOOLEAN
    /\ UNCHANGED <<m_client, m_connected, lib, user, again, event, told>>

User ==
    \/ set_auto_reconnect \/ connect \/ InitClient \/ StartClient \/ disconnect
    \/ StopClient \/ DestroyClient \/ CheckSend \/ send

-----------------------------------------------------------------------------
(* The library.                                                              *)

Running == lib \in {"waiting", "open", "closing"} /\ event = NoEvent
Dispatches(state, id) ==
    /\ lib' = state /\ event' = Handling(id)
    /\ UNCHANGED <<m_client, m_connected, m_auto_reconnect, user, again, told>>

Opens == Running /\ lib = "waiting" /\ Dispatches("open", "CONNECTED")
FailsToOpen == Running /\ lib = "waiting" /\ Dispatches("waiting", "DISCONNECTED")
Loses == Running /\ lib = "open" /\ Dispatches("waiting", "DISCONNECTED")
Receives == Running /\ lib = "open" /\ Dispatches("open", "DATA")
ReportsError == Running /\ lib # "closing" /\ Dispatches(lib, "ERROR")

\* The server closes the connection: the library answers, no longer counts as
\* connected, and then says so with an event of its own and ends its task.
Closes ==
    /\ Running /\ lib = "open" /\ lib' = "closing"
    /\ UNCHANGED <<m_client, m_connected, m_auto_reconnect, user, again, event, told>>
Ends == Running /\ lib = "closing" /\ Dispatches("ended", "CLOSED")

Library == Opens \/ FailsToOpen \/ Loses \/ Receives \/ ReportsError \/ Closes \/ Ends

-----------------------------------------------------------------------------
(* websocket_event_handler.                                                  *)

OnConnected ==
    /\ event = Handling("CONNECTED")
    /\ m_connected' = TRUE /\ event' = [event EXCEPT !.step = "call"]
    /\ UNCHANGED <<m_client, m_auto_reconnect, lib, user, again, told>>

\* A callback that breaks the order of callbacks is kept as "wrong".
ConnectedCallback ==
    /\ event = [id |-> "CONNECTED", step |-> "call"]
    /\ told' = (IF told = "down" THEN "up" ELSE "wrong")
    /\ event' = [event EXCEPT !.step = "in"]
    /\ UNCHANGED <<m_client, m_connected, m_auto_reconnect, lib, user, again>>

\* The callback is called only for a connection that was announced.
OnDisconnectedAlways ==
    /\ event = Handling("DISCONNECTED")
    /\ m_connected' = FALSE
    /\ event' = [event EXCEPT !.step = "call"]
    /\ UNCHANGED <<m_client, m_auto_reconnect, lib, user, again, told>>
OnDisconnectedNever ==
    /\ event = Handling("DISCONNECTED")
    /\ m_connected' = FALSE
    /\ event' = IF m_connected' THEN [event EXCEPT !.step = "call"] ELSE NoEvent
    /\ UNCHANGED <<m_client, m_auto_reconnect, lib, user, again, told>>
OnDisconnected ==
    /\ event = Handling("DISCONNECTED")
    /\ m_connected' = FALSE
    /\ event' = IF m_connected THEN [event EXCEPT !.step = "call"] ELSE NoEvent
    /\ UNCHANGED <<m_client, m_auto_reconnect, lib, user, again, told>>
DisconnectedCallback ==
    /\ event = [id |-> "DISCONNECTED", step |-> "call"]
    /\ told' = (IF told = "up" THEN "down" ELSE "wrong")
    /\ event' = NoEvent
    /\ UNCHANGED <<m_client, m_connected, m_auto_reconnect, lib, user, again>>

OnData ==
    /\ event = Handling("DATA")
    /\ told' = (IF told = "up" THEN "up" ELSE "wrong")
    /\ event' = [event EXCEPT !.step = "in"]
    /\ UNCHANGED <<m_client, m_connected, m_auto_reconnect, lib, user, again>>

OnError ==
    /\ event = Handling("ERROR") /\ event' = [event EXCEPT !.step = "in"]
    /\ UNCHANGED <<m_client, m_connected, m_auto_reconnect, lib, user, again, told>>

\* Every other event the handler is registered for is dropped.
OnOther ==
    /\ event = Handling("CLOSED") /\ event' = NoEvent
    /\ UNCHANGED <<m_client, m_connected, m_auto_reconnect, lib, user, again, told>>

\* A callback returns, or sends: a send that fails there handles its event
\* before the callback goes on.
InCallback ==
    /\ event.step = "in"
    /\ \/ event' = NoEvent /\ UNCHANGED lib
       \/ is_connected /\ Fails
    /\ UNCHANGED <<m_client, m_connected, m_auto_reconnect, user, again, told>>

websocket_event_handler ==
    \/ OnConnected \/ ConnectedCallback \/ OnDisconnected \/ DisconnectedCallback
    \/ OnData \/ OnError \/ OnOther \/ InCallback

-----------------------------------------------------------------------------
Next == User \/ Library \/ websocket_event_handler

Spec == Init /\ [][Next]_vars

\* The handler runs to its end, the user's calls go on, and the library waits
\* only for a time before it ends with a connection that is closing.
Fairness ==
    /\ WF_vars(websocket_event_handler)
    /\ WF_vars(StopClient \/ DestroyClient)
    /\ WF_vars(Ends)
FairSpec == Spec /\ Fairness

TypeOK ==
    /\ m_client \in BOOLEAN /\ m_connected \in BOOLEAN /\ m_auto_reconnect \in BOOLEAN
    /\ lib \in {"none", "ready", "waiting", "open", "closing", "ended"}
    /\ user \in {"idle", "init", "start", "stop", "destroy", "send"}
    /\ m_client <=> lib # "none"  \* the handle is null or names a client
    /\ again \in BOOLEAN
    /\ event \in [id : {"none", "CONNECTED", "DISCONNECTED", "DATA", "ERROR",
                         "CLOSED"},
                  step : {"none", "flags", "call", "in"}]
    /\ told \in {"down", "up", "wrong"}

\* Callbacks come in order: connected and disconnected take turns, messages
\* come in between, whatever fails, reconnects or is disconnected
\* (WebsocketClient.hpp:377, :387, :402).
CallbacksInOrder == told # "wrong"

\* A connection the application may use was announced to it, or is about to
\* be (WebsocketClient.hpp:159, :171).
ConnectedIsAnnounced ==
    is_connected => told = "up" \/ event = [id |-> "CONNECTED", step |-> "call"]

\* When nothing is under way the flag is set exactly while the library is
\* connected (WebsocketClient.hpp:376, :386), and after a connection that the
\* server closed, whose event the handler drops (:415).
FlagAgrees ==
    user = "idle" /\ event = NoEvent => (m_connected <=> lib \in {"open", "closing", "ended"})

\* A connection that breaks is reported to an application that was told of it,
\* unless the application disconnects (WebsocketClient.hpp:387).
LossReported == told = "up" /\ lib = "waiting" ~> told = "down"

\* The on_disconnected callback reports the end of every connection that was
\* announced (WebsocketClient.hpp:21, :284), also of one the server closes.
EndReported == told = "up" /\ lib # "open" ~> told = "down"
=============================================================================
