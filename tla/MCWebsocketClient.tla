-------------------------- MODULE MCWebsocketClient --------------------------
(* The client has no constants: its whole state space is checked.           *)
EXTENDS WebsocketClient
=============================================================================
