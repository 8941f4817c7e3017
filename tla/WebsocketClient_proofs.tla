------------------------ MODULE WebsocketClient_proofs ------------------------
(***************************************************************************)
(* Theorems about WebsocketClient: what the callbacks are told agrees with *)
(* the flag of the client and the state of the library, whatever the user  *)
(* task, the library and the handler do in between.                        *)
(***************************************************************************)
EXTENDS WebsocketClient, TLAPS

\* The handler is about to call the callback of a connection, of a loss.
Announcing == event = [id |-> "CONNECTED", step |-> "call"]
Denouncing == event = [id |-> "DISCONNECTED", step |-> "call"]

\* The application knows of a connection as long as the flag is set, but for the
\* callback that is about to run.
ToldOK ==
    /\ told # "wrong"
    /\ told = "up" <=> (m_connected /\ ~Announcing) \/ Denouncing

\* The flag follows the library with the delay of an event not handled yet; a
\* client that is to be destroyed keeps the flag it was stopped with.
FlagOK ==
    /\ lib = "open" => m_connected \/ event = Handling("CONNECTED")
    /\ lib = "waiting" => ~m_connected \/ event = Handling("DISCONNECTED")
    /\ lib \in {"closing", "ended"} => m_connected
    /\ user # "destroy" /\ lib \in {"none", "ready"} => ~m_connected

\* While an event is handled the library is in the state that dispatched it.
EventOK ==
    \/ event = NoEvent
    \/ /\ event.id = "CONNECTED" /\ event.step \in {"flags", "call", "in"} /\ lib = "open"
       /\ event.step = "flags" <=> ~m_connected
    \/ /\ event.id = "DATA" /\ event.step \in {"flags", "in"} /\ lib = "open"
       /\ m_connected
    \/ /\ event.id = "ERROR" /\ event.step \in {"flags", "in"} /\ lib \in {"waiting", "open"}
    \/ /\ event.id = "DISCONNECTED" /\ event.step \in {"flags", "call"} /\ lib = "waiting"
       /\ event.step = "call" => ~m_connected
    \/ event = Handling("CLOSED") /\ lib = "ended"

\* The library has a task only between the start and the stop of the client.
UserOK ==
    /\ user = "init" => lib = "none"
    /\ user \in {"start", "destroy"} <=> lib = "ready"
    /\ user \in {"stop", "send"} => lib \in {"waiting", "open", "closing", "ended"}

ClientInv == TypeOK /\ ToldOK /\ FlagOK /\ EventOK /\ UserOK

-----------------------------------------------------------------------------
(* Every step preserves the invariant.                                     *)

LEMMA UserPreserves ==
    ASSUME ClientInv, User
    PROVE  ClientInv'
<1> USE DEF ClientInv, TypeOK, ToldOK, FlagOK, EventOK, UserOK, Announcing, Denouncing,
            Handling, NoEvent
<1>1. CASE set_auto_reconnect
  BY <1>1 DEF set_auto_reconnect
<1>2. CASE connect
  <2>1. TypeOK' /\ UserOK'
    BY <1>2 DEF connect
  <2>2. ToldOK' /\ FlagOK' /\ EventOK'
    BY <1>2 DEF connect
  <2> QED
    BY <2>1, <2>2
<1>3. CASE InitClient
  <2>1. event = NoEvent /\ ~m_connected
    BY <1>3 DEF InitClient
  <2>2. event' = NoEvent /\ ~m_connected' /\ ~Announcing' /\ ~Denouncing'
    BY <1>3, <2>1 DEF InitClient
  <2>3. ToldOK' /\ EventOK'
    BY <1>3, <2>1, <2>2 DEF InitClient
  <2>4. TypeOK' /\ FlagOK' /\ UserOK'
    <3>1. CASE m_client' = TRUE /\ lib' = "ready" /\ user' = "start"
      BY <1>3, <2>1, <2>2, <3>1 DEF InitClient
    <3>2. CASE user' = "idle" /\ UNCHANGED <<m_client, lib>>
      BY <1>3, <2>1, <2>2, <3>2 DEF InitClient
    <3> QED
      BY <1>3, <3>1, <3>2 DEF InitClient
  <2> QED
    BY <2>3, <2>4
<1>4. CASE StartClient
  <2>1. event = NoEvent /\ ~m_connected
    BY <1>4 DEF StartClient
  <2>2. event' = NoEvent /\ ~m_connected' /\ ~Announcing' /\ ~Denouncing'
    BY <1>4, <2>1 DEF StartClient
  <2>3. ToldOK' /\ EventOK'
    BY <1>4, <2>1, <2>2 DEF StartClient
  <2>4. TypeOK' /\ FlagOK' /\ UserOK'
    <3>1. CASE lib' = "waiting" /\ UNCHANGED m_client
      BY <1>4, <2>1, <2>2, <3>1 DEF StartClient
    <3>2. CASE lib' = "none" /\ m_client' = FALSE
      BY <1>4, <2>1, <2>2, <3>2 DEF StartClient
    <3> QED
      BY <1>4, <3>1, <3>2 DEF StartClient
  <2> QED
    BY <2>3, <2>4
<1>5. CASE disconnect
  <2>1. TypeOK' /\ UserOK'
    BY <1>5 DEF disconnect
  <2>2. ToldOK' /\ FlagOK' /\ EventOK'
    BY <1>5 DEF disconnect
  <2> QED
    BY <2>1, <2>2
<1>6. CASE StopClient
  BY <1>6 DEF StopClient
<1>7. CASE DestroyClient
  <2>1. event = NoEvent
    BY <1>7 DEF DestroyClient
  <2>2. event' = NoEvent
    BY <1>7, <2>1 DEF DestroyClient
  <2>3. ~Announcing' /\ ~Denouncing'
    BY <2>2
  <2>4. TypeOK' /\ UserOK'
    BY <1>7 DEF DestroyClient
  <2>5. ToldOK' /\ FlagOK'
    BY <1>7, <2>3 DEF DestroyClient
  <2> QED
    BY <2>2, <2>4, <2>5
<1>8. CASE CheckSend
  BY <1>8 DEF CheckSend, is_connected
<1>9. CASE send
  BY <1>9 DEF send, Fails
<1> QED
  BY <1>1, <1>2, <1>3, <1>4, <1>5, <1>6, <1>7, <1>8, <1>9 DEF User

LEMMA LibraryPreserves ==
    ASSUME ClientInv, Library
    PROVE  ClientInv'
<1> USE DEF ClientInv, TypeOK, ToldOK, FlagOK, EventOK, UserOK, Announcing, Denouncing,
            Handling, NoEvent, Running, Dispatches
<1>1. CASE Opens
  BY <1>1 DEF Opens
<1>2. CASE FailsToOpen
  BY <1>2 DEF FailsToOpen
<1>3. CASE Loses
  BY <1>3 DEF Loses
<1>4. CASE Receives
  BY <1>4 DEF Receives
<1>5. CASE ReportsError
  BY <1>5 DEF ReportsError
<1>6. CASE Closes
  BY <1>6 DEF Closes
<1>7. CASE Ends
  BY <1>7 DEF Ends
<1> QED
  BY <1>1, <1>2, <1>3, <1>4, <1>5, <1>6, <1>7 DEF Library

LEMMA HandlerPreserves ==
    ASSUME ClientInv, websocket_event_handler
    PROVE  ClientInv'
<1> USE DEF ClientInv, TypeOK, ToldOK, FlagOK, EventOK, UserOK, Announcing, Denouncing,
            Handling, NoEvent
<1>1. CASE OnConnected
  BY <1>1 DEF OnConnected
<1>2. CASE ConnectedCallback
  BY <1>2 DEF ConnectedCallback
<1>3. CASE OnDisconnected
  BY <1>3 DEF OnDisconnected
<1>4. CASE DisconnectedCallback
  BY <1>4 DEF DisconnectedCallback
<1>5. CASE OnData
  BY <1>5 DEF OnData
<1>6. CASE OnError
  BY <1>6 DEF OnError
<1>7. CASE InCallback
  BY <1>7 DEF InCallback, Fails, is_connected
<1>8. CASE OnOther
  BY <1>8 DEF OnOther
<1> QED
  BY <1>1, <1>2, <1>3, <1>4, <1>5, <1>6, <1>7, <1>8 DEF websocket_event_handler

LEMMA ClientInvariant == Spec => []ClientInv
<1> USE DEF ClientInv, TypeOK, ToldOK, FlagOK, EventOK, UserOK, Announcing, Denouncing,
            Handling, NoEvent
<1>1. Init => ClientInv
  <2> SUFFICES ASSUME Init PROVE ClientInv
    OBVIOUS
  <2>1. ~Announcing /\ ~Denouncing
    BY DEF Init
  <2>2. ToldOK /\ FlagOK
    BY <2>1 DEF Init
  <2>3. TypeOK /\ EventOK /\ UserOK
    BY DEF Init
  <2> QED
    BY <2>2, <2>3
<1>2. ClientInv /\ UNCHANGED vars => ClientInv'
  BY DEF vars
<1> HIDE DEF ClientInv
<1>3. ClientInv /\ [Next]_vars => ClientInv'
  BY <1>2, UserPreserves, LibraryPreserves, HandlerPreserves DEF Next
<1> QED
  BY <1>1, <1>3, PTL DEF Spec
-----------------------------------------------------------------------------
(* The theorems.                                                           *)

\* Every variable keeps its type, and the handle of the client is set exactly
\* while the library has a client for it.
THEOREM ClientTypeInvariant == Spec => []TypeOK
<1>1. ClientInv => TypeOK
  BY DEF ClientInv
<1> QED
  BY <1>1, ClientInvariant, PTL

\* The callbacks keep their order in every run of the user task, the library and
\* the handler: no loss is reported that was not preceded by its connection, no
\* connection twice, and no message outside of one.
THEOREM CallbackOrder == Spec => []CallbacksInOrder
<1>1. ClientInv => CallbacksInOrder
  BY DEF ClientInv, ToldOK, CallbacksInOrder
<1> QED
  BY <1>1, ClientInvariant, PTL

\* is_connected answers yes only for a connection whose callback has run or is
\* the next thing the handler does.
THEOREM ConnectionAnnounced == Spec => []ConnectedIsAnnounced
<1>1. ClientInv => ConnectedIsAnnounced
  BY DEF ClientInv, ToldOK, ConnectedIsAnnounced, is_connected, Announcing
<1> QED
  BY <1>1, ClientInvariant, PTL

\* Once the handler is through with its events and no call is under way, the flag
\* says what the library does, and is set after a connection the server closed.
THEOREM FlagAgreement == Spec => []FlagAgrees
<1>1. ClientInv => FlagAgrees
  <2> SUFFICES ASSUME ClientInv, user = "idle", event = NoEvent
               PROVE  m_connected <=> lib \in {"open", "closing", "ended"}
    BY DEF FlagAgrees
  <2>1. event # Handling("CONNECTED") /\ event # Handling("DISCONNECTED")
    BY DEF NoEvent, Handling
  <2> QED
    BY <2>1 DEF ClientInv, TypeOK, FlagOK
<1> QED
  BY <1>1, ClientInvariant, PTL

=============================================================================
