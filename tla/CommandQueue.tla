---------------------------- MODULE CommandQueue ----------------------------
(***************************************************************************)
(* The command queue of the engine (engine/src/aprs_engine.c): the ring    *)
(* cmd_queue[] that the functions of the public API write to, and the loop *)
(* of engine_process_commands that empties it.                             *)
(*                                                                         *)
(* The loop is entered from aprs_engine_tick and, synchronously, from      *)
(* aprs_engine_generate_remote_keys.  While a command runs it publishes    *)
(* events, and a callback may call the API again: it may add commands, or  *)
(* enter a second loop inside the first one.  `drains' counts the loops on *)
(* the stack; `inCommand' tells whether the innermost one is inside a      *)
(* command or between two.                                                 *)
(*                                                                         *)
(* A command is its kind.  What a transport tells its client is left out:  *)
(* the handlers of both servers ignore the `reply' of the API.             *)
(***************************************************************************)
EXTENDS Integers, Sequences

CONSTANTS
  Size,          \* slots of the ring (MAX_CMD_QUEUE)
  Commands,      \* the commands
  KeysCommand,   \* the command of aprs_engine_generate_remote_keys
  Nothing,       \* no command, no reply
  Reentrant,     \* do callbacks call the API (no host of this repository does)
  MaxDrains      \* bound: loops on the stack

ASSUME SizeAssumption == Size \in Nat \ {0}
ASSUME CommandAssumption == KeysCommand \in Commands /\ Nothing \notin Commands
ASSUME HostAssumption == Reentrant \in BOOLEAN
ASSUME DrainAssumption == MaxDrains \in Nat \ {0}

VARIABLES
  slots,      \* e->cmd_queue
  head,       \* e->cmd_queue_head
  tail,       \* e->cmd_queue_tail
  count,      \* e->cmd_queue_count
  drains,     \* activations of engine_process_commands on the stack
  inCommand,  \* the innermost activation is inside the switch
  current,    \* the command dequeued last
  reply       \* what the last API call returned

vars == <<slots, head, tail, count, drains, inCommand, current, reply>>
ring == <<slots, head, tail, count>>
control == <<drains, inCommand, current>>

Positions == 0 .. (Size - 1)

Init ==
  /\ slots = [i \in Positions |-> Nothing]
  /\ head = 0
  /\ tail = 0
  /\ count = 0
  /\ drains = 0
  /\ inCommand = FALSE
  /\ current = Nothing
  /\ reply = Nothing

-----------------------------------------------------------------------------
(* Mutants: an off-by-one in the test for room; the tail is not wrapped.   *)
RoomOffByOne == count <= Size
SuccUnwrapped(i) == IF i + 1 = Size THEN i ELSE i + 1

Room == count < Size
Succ(i) == (i + 1) % Size

(* Mutant: a full ring forgets its oldest command instead of refusing.     *)
EnqueueForgetful(c) ==
  /\ slots' = [slots EXCEPT ![tail] = c]
  /\ tail' = Succ(tail)
  /\ IF count < Size THEN count' = count + 1 /\ UNCHANGED head
                     ELSE head' = Succ(head) /\ UNCHANGED count
  /\ reply' = "APRS_OK"

(* engine_enqueue_cmd with its callers' translation of the result. *)
Enqueue(c) ==
  /\ Room
  /\ slots' = [slots EXCEPT ![tail] = c]
  /\ tail' = Succ(tail)
  /\ count' = count + 1
  /\ reply' = "APRS_OK"
  /\ UNCHANGED head

RefuseBusy ==
  /\ ~Room
  /\ reply' = "APRS_ERR_BUSY"
  /\ UNCHANGED ring

(* A command of a client, between two ticks. *)
ClientCall(c) ==
  /\ drains = 0
  /\ Enqueue(c) \/ RefuseBusy
  /\ UNCHANGED control

(* A callback, run by a command that publishes an event, calls the API. *)
CallbackCall(c) ==
  /\ Reentrant
  /\ inCommand
  /\ Enqueue(c) \/ RefuseBusy
  /\ UNCHANGED control

EnterLoop ==
  /\ drains < MaxDrains
  /\ drains' = drains + 1
  /\ inCommand' = FALSE

(* aprs_engine_generate_remote_keys: queue the command, then run the loop  *)
(* on the spot.  The HTTP server calls it, or a callback.                  *)
GenerateKeys ==
  /\ drains = 0 \/ (Reentrant /\ inCommand)
  /\ \/ Enqueue(KeysCommand) /\ EnterLoop
     \/ RefuseBusy /\ UNCHANGED <<drains, inCommand>>
  /\ UNCHANGED current

(* aprs_engine_tick, called by the host between two requests. *)
Tick ==
  /\ drains = 0
  /\ EnterLoop
  /\ UNCHANGED <<ring, current, reply>>

(* Mutants: the slot is released without taking it off the count; the      *)
(* newest command is taken first.                                          *)
DequeueUncounted ==
  /\ count > 0
  /\ current' = slots[head]
  /\ head' = Succ(head)
  /\ UNCHANGED <<slots, tail, count>>
DequeueNewest ==
  /\ count > 0
  /\ current' = slots[(tail + Size - 1) % Size]
  /\ tail' = (tail + Size - 1) % Size
  /\ count' = count - 1
  /\ UNCHANGED <<slots, head>>

Dequeue ==
  /\ count > 0
  /\ current' = slots[head]
  /\ head' = Succ(head)
  /\ count' = count - 1
  /\ UNCHANGED <<slots, tail>>

(* The head of the loop: the slot is released before the command runs. *)
StartCommand ==
  /\ drains > 0
  /\ ~inCommand
  /\ Dequeue
  /\ inCommand' = TRUE
  /\ UNCHANGED <<drains, reply>>

FinishCommand ==
  /\ inCommand
  /\ inCommand' = FALSE
  /\ UNCHANGED <<ring, drains, current, reply>>

(* The ring is empty: back to the tick, or to the command whose callback   *)
(* entered this loop.                                                      *)
LeaveLoop ==
  /\ drains > 0
  /\ ~inCommand
  /\ count = 0
  /\ drains' = drains - 1
  /\ inCommand' = (drains > 1)
  /\ UNCHANGED <<ring, current, reply>>

-----------------------------------------------------------------------------
Call == GenerateKeys \/ \E c \in Commands : ClientCall(c) \/ CallbackCall(c)

Loop == StartCommand \/ FinishCommand \/ LeaveLoop

Next == Call \/ Tick \/ Loop

Spec == Init /\ [][Next]_vars

(* The loop runs on, and the host ticks in every round of its main loop    *)
(* (select with a timeout of 100 ms in the WebSocket server).              *)
(* Nothing is assumed of the clients.                                      *)
FairSpec ==
  /\ Spec
  /\ WF_vars(Tick)
  /\ WF_vars(StartCommand)
  /\ WF_vars(FinishCommand)
  /\ WF_vars(LeaveLoop)

-----------------------------------------------------------------------------
(* The refinement: the commands from the head on, as a sequence. *)
Pending == [i \in 1 .. count |-> slots[(head + i - 1) % Size]]

Fifo == INSTANCE CommandFifo WITH Capacity <- Size, pending <- Pending

(* The type of the state. *)
TypeOK ==
  /\ slots \in [Positions -> Commands \cup {Nothing}]
  /\ head \in Positions
  /\ tail \in Positions
  /\ count \in 0 .. Size
  /\ drains \in 0 .. MaxDrains
  /\ inCommand \in BOOLEAN
  /\ current \in Commands \cup {Nothing}
  /\ reply \in {"APRS_OK", "APRS_ERR_BUSY", Nothing}

(* Head, tail and count, which the C code keeps independently, agree, also *)
(* while callbacks add commands and nested loops remove them.              *)
RingConsistent == tail = (head + count) % Size

(* Every occupied slot holds a command: the switch never meets a slot that *)
(* was not filled.                                                         *)
OccupiedFilled ==
  \A k \in Positions : k < count => slots[(head + k) % Size] \in Commands

(* The ring and its re-entrant loops implement the FIFO of accepted        *)
(* commands: none is lost, repeated or overtaken, and a call is refused    *)
(* only when Size commands wait (engine_enqueue_cmd and                    *)
(* engine_process_commands).                                               *)
ImplementsFifo == Fifo!Spec

(* Under a host that ticks every accepted command is executed, even when   *)
(* callbacks keep adding more.                                             *)
ImplementsFairFifo == Fifo!FairSpec

(* A callback that runs inside a command calls the engine. *)
CallFromCallback == inCommand /\ Call

(* engine_process_commands empties the queue and returns, from all of its  *)
(* activations: unless callbacks call the engine for ever, a tick never    *)
(* hangs in the loop, whatever the clients send.                           *)
LoopReturns ==
  <>[][~CallFromCallback]_vars => ((drains > 0) ~> (drains = 0))
=============================================================================
