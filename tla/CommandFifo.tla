----------------------------- MODULE CommandFifo -----------------------------
(***************************************************************************)
(* What the engine promises of its commands: "processed by the engine in a *)
(* serialized command queue".  A call is accepted while there is room and  *)
(* refused otherwise; the accepted commands are executed one after the     *)
(* other, each once, in the order in which they were accepted.             *)
(***************************************************************************)
EXTENDS Naturals, Sequences

CONSTANTS Commands, Capacity, Nothing

VARIABLES
  pending,  \* the accepted commands that have not been executed
  current,  \* the command executed last
  reply     \* what the last call returned

vars == <<pending, current, reply>>

Init ==
  /\ pending = <<>>
  /\ current = Nothing
  /\ reply = Nothing

Accept(c) ==
  /\ Len(pending) < Capacity
  /\ pending' = Append(pending, c)
  /\ reply' = "APRS_OK"
  /\ UNCHANGED current

Refuse ==
  /\ Len(pending) = Capacity
  /\ reply' = "APRS_ERR_BUSY"
  /\ UNCHANGED <<pending, current>>

Execute ==
  /\ pending # <<>>
  /\ current' = Head(pending)
  /\ pending' = Tail(pending)
  /\ UNCHANGED reply

Next == Refuse \/ Execute \/ \E c \in Commands : Accept(c)

Spec == Init /\ [][Next]_vars

FairSpec == Spec /\ WF_vars(Execute)
=============================================================================
