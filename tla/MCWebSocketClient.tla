------------------------- MODULE MCWebSocketClient -------------------------
(* Instances of WebSocketClient for TLC. *)
EXTENDS WebSocketClient
==============================================================================
