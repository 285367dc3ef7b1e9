--------------------------- MODULE MessageManager ---------------------------
(***************************************************************************)
(* The message manager of the engine (engine/src/message_manager.c): the   *)
(* inbox rx_messages[], the outbox tx_messages[], the answers (ACK/REJ)    *)
(* that settle an outbox message and the retransmission of unanswered ones.*)
(*                                                                         *)
(* Two callers drive it.  aprs_engine_feed_frame hands it the message      *)
(* frames heard on the air, between ticks.  aprs_engine_tick advances the  *)
(* clock, runs the queued commands (send, mark read, set mode, set retry,  *)
(* factory reset) and then mm_retry_tick: `ticking' says that a tick is    *)
(* between its clock update and its retry pass.                            *)
(*                                                                         *)
(* Time is counted in units of the retry delay.  A message's text and its  *)
(* addressee are left out: no step depends on them beyond the kind of the  *)
(* text and whether the frame is addressed to us.                          *)
(***************************************************************************)
EXTENDS Slots

CONSTANTS
  RxSize,          \* slots of the inbox (MAX_RX_MESSAGES)
  TxSize,          \* slots of the outbox (MAX_TX_MESSAGES)
  IdMod,           \* message ids keep the low bits of a counter (0x10000)
  FirstId,         \* msg_next_id of a fresh engine
  Stations,        \* stations that send us messages
  NoId,            \* the empty id
  RetryInputs,     \* values a client passes to set_message_retry
  DelayInputs,     \* delays a client passes to set_message_retry
  FactoryRetries,  \* msg_retries after a factory reset
  FactoryDelay,    \* msg_retry_delay_sec after a factory reset
  Deltas,          \* clock advance of one tick
  MaxTime,         \* bound: the clock
  LastCommand,     \* bound: no command is executed after this time
  MaxNextId        \* bound: msg_next_id

ASSUME SizesAssumption == RxSize \in Nat \ {0} /\ TxSize \in Nat \ {0}
ASSUME IdAssumption ==
  /\ IdMod \in Nat \ {0}
  /\ FirstId \in Nat
  /\ MaxNextId \in Nat
  /\ NoId \notin 0 .. (IdMod - 1)
ASSUME RetryAssumption ==
  /\ RetryInputs \subseteq Nat
  /\ DelayInputs \subseteq Nat
  /\ FactoryRetries \in 0 .. 255
  /\ FactoryDelay \in 0 .. 255
ASSUME TimeAssumption ==
  /\ Deltas \subseteq Nat
  /\ MaxTime \in Nat
  /\ LastCommand \in Nat

VARIABLES
  rx,          \* e->rx_messages: id, source, state and arrival time per slot
  tx,          \* e->tx_messages: id, state, time of the last send, retry_count
  msgNextId,   \* e->msg_next_id
  receiveAll,  \* e->receive_all_msgs
  retries,     \* e->msg_retries
  retryDelay,  \* e->msg_retry_delay_sec
  now,         \* e->current_time_ms
  ticking      \* inside aprs_engine_tick, before mm_retry_tick

vars == <<rx, tx, msgNextId, receiveAll, retries, retryDelay, now, ticking>>
settings == <<receiveAll, retries, retryDelay>>

Rx == Indices(RxSize)
Tx == Indices(TxSize)
Ids == 0 .. (IdMod - 1)

(* Mutant: the settings are wider than the bytes of struct aprs_engine.    *)
ByteUntruncated(n) == n

(* The value of an int stored in a uint8_t. *)
Byte(n) == n % 256

NoStation == "none"

(* A slot as calloc and memset leave it: every field zero. *)
EmptyRx == [id |-> NoId, src |-> NoStation, state |-> "NEW", ts |-> 0]
EmptyTx == [id |-> NoId, state |-> "NEW", ts |-> 0, retryCount |-> 0]

-----------------------------------------------------------------------------
Init ==
  /\ rx = [s \in Rx |-> EmptyRx]
  /\ tx = [s \in Tx |-> EmptyTx]
  /\ msgNextId = FirstId
  /\ receiveAll = FALSE
  /\ retries = FactoryRetries
  /\ retryDelay = FactoryDelay
  /\ now = 0
  /\ ticking = FALSE

(* mm_gen_msg_id: the counter is advanced, its low bits are the id. *)
GeneratedId == (msgNextId + 1) % IdMod

-----------------------------------------------------------------------------
(* Reception. *)

FreeRx == {s \in Rx : rx[s].state = "NEW" /\ rx[s].id = NoId}
ReadRx == {s \in Rx : rx[s].state = "READ"}
RxTime == [s \in Rx |-> rx[s].ts]
OldestRead == Least(RxTime, ReadRx)

(* Mutant: the oldest message is overwritten, read or not. *)
RxTargetsAnyState == IF FreeRx # {} THEN FreeRx ELSE Least(RxTime, Rx)

(* The slot a received message is written to: a free one, else the oldest  *)
(* read message; with neither, the message is dropped.                     *)
RxTargets == IF FreeRx # {} THEN FreeRx ELSE OldestRead

Unread(s) == rx[s].state = "NEW" /\ rx[s].id # NoId

(* mm_receive_message, the frame carries a text to be kept. *)
Store(src, id) ==
  /\ RxTargets # {}
  /\ IF id = NoId
       THEN msgNextId < MaxNextId /\ msgNextId' = msgNextId + 1
       ELSE UNCHANGED msgNextId
  /\ rx' = [rx EXCEPT ![First(RxTargets)] =
              [id    |-> IF id = NoId THEN GeneratedId ELSE id,
               src   |-> src,
               state |-> "NEW",
               ts    |-> now]]
  /\ UNCHANGED tx

(* mm_process_ack and mm_process_rej: the first slot with that id, whatever *)
(* its state.                                                               *)
Settle(id, answer) ==
  LET matching == {s \in Tx : tx[s].id = id}
  IN  /\ matching # {}
      /\ tx' = [tx EXCEPT ![First(matching)].state = answer]
      /\ UNCHANGED <<rx, msgNextId>>

(* Mutant: the test for a non-empty id is missing. *)
ReceiveAnswerWithoutId(src, forUs, kind, id) ==
  /\ ~ticking
  /\ forUs \/ receiveAll
  /\ \/ kind = "ack" /\ Settle(id, "ACKED")
     \/ kind = "rej" /\ Settle(id, "REJECTED")
     \/ kind = "text" /\ Store(src, id)
  /\ UNCHANGED <<settings, now, ticking>>

(* mm_receive_message.  `kind' is what the text starts with; an "ack" or a  *)
(* "rej" counts as an answer only with an id in braces.  A query is         *)
(* recognised and ignored, and so is a frame for someone else unless we     *)
(* receive all messages: neither changes the state.                         *)
Receive(src, forUs, kind, id) ==
  /\ ~ticking
  /\ forUs \/ receiveAll
  /\ \/ kind = "ack" /\ id # NoId /\ Settle(id, "ACKED")
     \/ kind = "rej" /\ id # NoId /\ Settle(id, "REJECTED")
     \/ (kind = "text" \/ id = NoId) /\ Store(src, id)
  /\ UNCHANGED <<settings, now, ticking>>

-----------------------------------------------------------------------------
(* The commands a tick executes before its retry pass. *)

InCommands == ticking /\ now <= LastCommand

(* Mutant: a message that used up its retries gives its slot away. *)
ReusableTxWhenExhausted ==
  {s \in Tx : \/ tx[s].state \in {"ACKED", "REJECTED"} \/ tx[s].id = NoId
              \/ tx[s].retryCount >= retries}

ReusableTx ==
  {s \in Tx : tx[s].state \in {"ACKED", "REJECTED"} \/ tx[s].id = NoId}

(* Mutant: the id is generated, but the counter not advanced. *)
SendWithoutNewId ==
  /\ InCommands
  /\ ReusableTx # {}
  /\ msgNextId < MaxNextId
  /\ tx' = [tx EXCEPT ![First(ReusableTx)] =
              [id |-> GeneratedId, state |-> "SENT", ts |-> now, retryCount |-> 0]]
  /\ UNCHANGED <<rx, msgNextId, settings, now, ticking>>

(* mm_send_message.  With no reusable slot the message is dropped, although *)
(* the client has been told APRS_OK when the command was queued.            *)
Send ==
  /\ InCommands
  /\ ReusableTx # {}
  /\ msgNextId < MaxNextId
  /\ msgNextId' = msgNextId + 1
  /\ tx' = [tx EXCEPT ![First(ReusableTx)] =
              [id |-> GeneratedId, state |-> "SENT", ts |-> now, retryCount |-> 0]]
  /\ UNCHANGED <<rx, settings, now, ticking>>

(* mm_mark_read: the first slot with that id. *)
MarkRead(id) ==
  LET matching == {s \in Rx : rx[s].id = id}
  IN  /\ InCommands
      /\ id # NoId
      /\ matching # {}
      /\ rx' = [rx EXCEPT ![First(matching)].state = "READ"]
      /\ UNCHANGED <<tx, msgNextId, settings, now, ticking>>

SetReceiveMode(all) ==
  /\ InCommands
  /\ receiveAll' = all
  /\ UNCHANGED <<rx, tx, msgNextId, retries, retryDelay, now, ticking>>

(* mm_set_retry: the ints of the API are stored in bytes. *)
SetRetry(n, delay) ==
  /\ InCommands
  /\ retries' = Byte(n)
  /\ retryDelay' = Byte(delay)
  /\ UNCHANGED <<rx, tx, msgNextId, receiveAll, now, ticking>>

(* cp_reset_factory: the settings return to their defaults, the messages   *)
(* stay.                                                                   *)
FactoryReset ==
  /\ InCommands
  /\ receiveAll' = FALSE
  /\ retries' = FactoryRetries
  /\ retryDelay' = FactoryDelay
  /\ UNCHANGED <<rx, tx, msgNextId, now, ticking>>

(* cp_load_config: the settings of a file some engine saved earlier. *)
LoadConfig(all, n, delay) ==
  /\ InCommands
  /\ receiveAll' = all
  /\ retries' = Byte(n)
  /\ retryDelay' = Byte(delay)
  /\ UNCHANGED <<rx, tx, msgNextId, now, ticking>>

-----------------------------------------------------------------------------
(* aprs_engine_tick: the clock first, the retry pass after the commands. *)

BeginTick(delta) ==
  /\ ~ticking
  /\ now + delta <= MaxTime
  /\ now' = now + delta
  /\ ticking' = TRUE
  /\ UNCHANGED <<rx, tx, msgNextId, settings>>

(* Mutant: the state of the slot is not looked at. *)
DueTxAnyState ==
  {s \in Tx : /\ tx[s].id # NoId
              /\ now - tx[s].ts >= retryDelay
              /\ tx[s].retryCount < retries}

(* Mutant: only the first waiting message is considered. *)
DueTxFirstOnly ==
  LET waiting == {s \in Tx : tx[s].state = "SENT"}
  IN  {s \in waiting : /\ s = First(waiting)
                       /\ now - tx[s].ts >= retryDelay
                       /\ tx[s].retryCount < retries}

(* A message waits for its answer and its delay has passed. *)
DueTx ==
  {s \in Tx : /\ tx[s].state = "SENT"
              /\ now - tx[s].ts >= retryDelay
              /\ tx[s].retryCount < retries}

Resent(m) ==
  [id |-> m.id, state |-> m.state, ts |-> now, retryCount |-> m.retryCount + 1]

(* mm_retry_tick: at most one retransmission per tick, lowest slot first. *)
RetryTick ==
  /\ ticking
  /\ ticking' = FALSE
  /\ IF DueTx = {}
       THEN UNCHANGED tx
       ELSE tx' = [tx EXCEPT ![First(DueTx)] = Resent(tx[First(DueTx)])]
  /\ UNCHANGED <<rx, msgNextId, settings, now>>

-----------------------------------------------------------------------------
Command ==
  \/ Send
  \/ \E id \in Ids : MarkRead(id)
  \/ \E all \in BOOLEAN : SetReceiveMode(all)
  \/ \E n \in RetryInputs, delay \in DelayInputs : SetRetry(n, delay)
  \/ FactoryReset
  \/ \E all \in BOOLEAN, n \in RetryInputs, delay \in DelayInputs : LoadConfig(all, n, delay)

Hear ==
  \E src \in Stations, forUs \in BOOLEAN, kind \in {"ack", "rej", "text"},
     id \in Ids \cup {NoId} : Receive(src, forUs, kind, id)

Tick == RetryTick \/ \E delta \in Deltas : BeginTick(delta)

Next == Hear \/ Command \/ Tick

Spec == Init /\ [][Next]_vars

(* The owner of the engine calls aprs_engine_tick from its main loop, with *)
(* a delta that is not zero.                                               *)
FairSpec ==
  /\ Spec
  /\ WF_vars(RetryTick)
  /\ \A delta \in Deltas \ {0} : WF_vars(BeginTick(delta))

-----------------------------------------------------------------------------
(* Properties. *)

RxState == {"NEW", "READ"}
TxState == {"NEW", "SENT", "ACKED", "REJECTED"}
RxEntry == [id : Ids \cup {NoId}, src : Stations \cup {NoStation}, state : RxState, ts : Nat]
TxEntry == [id : Ids \cup {NoId}, state : TxState, ts : Nat, retryCount : Nat]

(* The type of the state: the arrays hold records of their entry type and  *)
(* the retry settings fit the bytes of struct aprs_engine.                 *)
TypeOK ==
  /\ rx \in [Rx -> RxEntry]
  /\ tx \in [Tx -> TxEntry]
  /\ msgNextId \in Nat
  /\ receiveAll \in BOOLEAN
  /\ retries \in 0 .. 255
  /\ retryDelay \in 0 .. 255
  /\ now \in Nat
  /\ ticking \in BOOLEAN

(* A blank outbox slot is never acked, rejected or sent: answers without an *)
(* id reach no slot, so a client is never shown the state of a message that *)
(* does not exist (mm_receive_message's tests of msg_id[0]).                *)
BlankSlotsSilent == \A s \in Tx : tx[s].id = NoId <=> tx[s].state = "NEW"

(* No message carries a time later than the clock: elapsed = current_time_ms *)
(* - ts_ms of mm_retry_tick is unsigned and would wrap to a huge delay.      *)
NoFutureTimes ==
  /\ \A s \in Tx : tx[s].ts <= now
  /\ \A s \in Rx : rx[s].ts <= now

(* Until the id counter wraps no two messages in the outbox share an id, so *)
(* an answer settles the message it is meant for (mm_gen_msg_id, and the    *)
(* search of mm_process_ack, which takes the first slot with the id).       *)
IdsDistinctUntilWrap ==
  msgNextId < FirstId + IdMod =>
    \A s, t \in Tx : tx[s].id # NoId /\ tx[s].id = tx[t].id => s = t

UnreadKeptStep ==
  \A s \in Rx : Unread(s) => rx'[s] \in {rx[s], [rx[s] EXCEPT !.state = "READ"]}

(* A message the user has not read yet is never overwritten: a full inbox  *)
(* drops the newcomer instead (mm_receive_message's search for a slot).    *)
UnreadKept == [][UnreadKeptStep]_vars

UnansweredKeptStep ==
  \A s \in Tx : tx[s].state = "SENT" =>
    /\ tx'[s].id = tx[s].id
    /\ tx'[s].state \in {"SENT", "ACKED", "REJECTED"}

(* A sent message keeps its outbox slot, and its id, until an answer came: *)
(* neither a new send nor exhausted retries make the engine forget that it *)
(* waits for that id.                                                      *)
UnansweredKept == [][UnansweredKeptStep]_vars

(* Once answered, a message is never put on the air again: its slot is     *)
(* only relabelled by a later answer or given to a message of its own send.*)
AnsweredSilent ==
  [][\A s \in Tx : tx[s].state \in {"ACKED", "REJECTED"} =>
       \/ \E answer \in {"ACKED", "REJECTED"} : tx'[s] = [tx[s] EXCEPT !.state = answer]
       \/ tx'[s].state = "SENT" /\ tx'[s].ts = now /\ msgNextId' > msgNextId]_vars

(* "Repeat until ACK/REJ or retry limit": a sent message is answered, or   *)
(* its retries are used up, although each tick retransmits one message only*)
(* and always prefers the lowest slot.                                     *)
RetriesConclude ==
  \A s \in Tx : (tx[s].state = "SENT") ~>
                  (tx[s].state # "SENT" \/ tx[s].retryCount >= retries)
=============================================================================
