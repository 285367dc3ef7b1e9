-------------------------- MODULE MCMessageManager --------------------------
(***************************************************************************)
(* Instances of MessageManager for TLC, and the statements of the          *)
(* documentation the code does not keep.                                   *)
(***************************************************************************)
EXTENDS MessageManager

(* "Queue outgoing messages.  Repeat until ACK/REJ or retry limit."         *)
(* (aprs_engine_architecture.md): an outbox that is full reopens, at the    *)
(* latest when its messages have reached the retry limit.                   *)
OutboxReopens == (ReusableTx = {}) ~> (ReusableTx # {})

(* "Check if this is an ACK for one of our sent messages"                   *)
(* (mm_receive_message): a frame addressed to someone else, which we only   *)
(* listen to in receive-all mode, settles no message of ours.               *)
ForeignFramesSettleNothing ==
  [][\A src \in Stations, kind \in {"ack", "rej"}, id \in Ids :
       Receive(src, FALSE, kind, id) => UNCHANGED tx]_vars
=============================================================================
