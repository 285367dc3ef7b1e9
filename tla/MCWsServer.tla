----------------------------- MODULE MCWsServer -----------------------------
(***************************************************************************)
(* Instances of WsServer for TLC, and the statement of the documentation   *)
(* the server does not keep.                                               *)
(***************************************************************************)
EXTENDS WsServer

(* "A client may subscribe to zero or more topics"                          *)
(* (aprs_engine_ws_protocol.md): a connection receives events because it    *)
(* subscribed itself.                                                       *)
EventsReachSubscriber ==
  \A topic \in Topics : \A pair \in Deliveries(topic) : pair[1] = pair[2]
=============================================================================
