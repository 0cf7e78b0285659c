------------------------ MODULE MCWebSocketConnection ------------------------
(* WebSocketConnection on small instances. *)
EXTENDS WebSocketConnection

CONSTANTS t1, t2
==============================================================================
