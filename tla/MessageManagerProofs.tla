------------------------ MODULE MessageManagerProofs ------------------------
(***************************************************************************)
(* Proofs about MessageManager for inboxes, outboxes, id spaces and retry  *)
(* settings of every size.                                                 *)
(***************************************************************************)
EXTENDS MessageManager, SlotsProofs

(* The inductive invariant: types, blank outbox slots that stay silent, and *)
(* no time later than the clock.                                            *)
IInv == TypeOK /\ BlankSlotsSilent /\ NoFutureTimes

(***************************************************************************)
(* Where the scans of the tables lead.                                     *)
(***************************************************************************)

(* The inbox slot mm_receive_message writes to exists and holds no unread  *)
(* message.                                                                *)
LEMMA RxTarget ==
  ASSUME TypeOK, RxTargets # {}
  PROVE  First(RxTargets) \in Rx /\ ~ Unread(First(RxTargets))
<1>1. Rx \subseteq Nat
  BY SizesAssumption DEF Rx, Indices
<1>2. RxTargets \subseteq Rx
  BY DEF RxTargets, FreeRx, OldestRead, ReadRx, Least
<1>3. \A s \in RxTargets : ~ Unread(s)
  BY DEF RxTargets, FreeRx, OldestRead, ReadRx, Least, Unread
<1>4. First(RxTargets) \in RxTargets
  BY <1>1, <1>2, FirstIsLeast
<1>5. QED
  BY <1>2, <1>3, <1>4

(* A scan of the outbox for a set of its slots stops inside the set.       *)
LEMMA TxScan ==
  ASSUME NEW S \in SUBSET Tx, S # {}
  PROVE  First(S) \in S /\ First(S) \in Tx
<1>1. Tx \subseteq Nat
  BY SizesAssumption DEF Tx, Indices
<1>2. QED
  BY <1>1, FirstIsLeast

(* The same for the inbox.                                                 *)
LEMMA RxScan ==
  ASSUME NEW S \in SUBSET Rx, S # {}
  PROVE  First(S) \in S /\ First(S) \in Rx
<1>1. Rx \subseteq Nat
  BY SizesAssumption DEF Rx, Indices
<1>2. QED
  BY <1>1, FirstIsLeast

(* Generated ids are ids.                                                  *)
LEMMA GeneratedIdType ==
  ASSUME TypeOK
  PROVE  GeneratedId \in Ids /\ GeneratedId # NoId
BY IdAssumption DEF TypeOK, GeneratedId, Ids

-----------------------------------------------------------------------------
(* The initial state satisfies the invariant.                              *)
LEMMA InitInv == Init => IInv
<1> SUFFICES ASSUME Init PROVE IInv
  OBVIOUS
<1>1. EmptyRx \in RxEntry /\ EmptyTx \in TxEntry
  BY DEF EmptyRx, EmptyTx, RxEntry, TxEntry, RxState, TxState
<1>2. TypeOK
  BY <1>1, IdAssumption, RetryAssumption DEF Init, TypeOK
<1>3. EmptyRx.ts = 0 /\ EmptyTx.ts = 0 /\ EmptyTx.id = NoId /\ EmptyTx.state = "NEW"
  BY DEF EmptyRx, EmptyTx
<1>4. BlankSlotsSilent /\ NoFutureTimes
  BY <1>3 DEF Init, BlankSlotsSilent, NoFutureTimes
<1>5. QED
  BY <1>2, <1>4 DEF IInv

(* Storing a received message.                                             *)
LEMMA StoreInv ==
  ASSUME IInv, NEW src \in Stations, NEW id \in Ids \cup {NoId}, Store(src, id),
         UNCHANGED <<settings, now, ticking>>
  PROVE  IInv'
<1> USE DEF IInv, TypeOK
<1>1. First(RxTargets) \in Rx
  BY RxTarget DEF Store
<1>2. msgNextId' \in Nat
  BY DEF Store
<1>3. (IF id = NoId THEN GeneratedId ELSE id) \in Ids \cup {NoId}
  BY GeneratedIdType
<1>4. [id |-> IF id = NoId THEN GeneratedId ELSE id, src |-> src,
       state |-> "NEW", ts |-> now] \in RxEntry
  BY <1>3 DEF RxEntry, RxState
<1>5. rx' \in [Rx -> RxEntry]
  BY <1>1, <1>4 DEF Store
<1>6. \A s \in Rx : rx'[s].ts <= now
  BY <1>1 DEF Store, NoFutureTimes
<1>7. QED
  BY <1>2, <1>5, <1>6 DEF Store, settings, BlankSlotsSilent, NoFutureTimes

(* Settling an outbox message.                                             *)
LEMMA SettleInv ==
  ASSUME IInv, NEW id \in Ids, NEW answer \in {"ACKED", "REJECTED"}, Settle(id, answer),
         UNCHANGED <<settings, now, ticking>>
  PROVE  IInv'
<1> USE DEF IInv, TypeOK
<1> DEFINE slot == First({s \in Tx : tx[s].id = id})
<1>1. slot \in Tx /\ tx[slot].id = id
  BY TxScan DEF Settle
<1>2. tx' = [tx EXCEPT ![slot].state = answer]
  BY DEF Settle
<1>3. id # NoId
  BY IdAssumption DEF Ids
<1> HIDE DEF slot
<1>4. [tx[slot] EXCEPT !.state = answer] \in TxEntry
  BY <1>1 DEF TxEntry, TxState
<1>5. tx' \in [Tx -> TxEntry]
  BY <1>1, <1>2, <1>4
<1>6. \A s \in Tx : /\ tx'[s].id = tx[s].id
                    /\ tx'[s].ts = tx[s].ts
                    /\ tx'[s].state = IF s = slot THEN answer ELSE tx[s].state
  BY <1>1, <1>2 DEF TxEntry
<1>7. BlankSlotsSilent'
  BY <1>1, <1>3, <1>6 DEF BlankSlotsSilent
<1>8. QED
  BY <1>5, <1>6, <1>7 DEF Settle, settings, NoFutureTimes

(* A frame heard on the air.                                               *)
LEMMA ReceiveInv ==
  ASSUME IInv, NEW src \in Stations, NEW forUs \in BOOLEAN, NEW kind,
         NEW id \in Ids \cup {NoId}, Receive(src, forUs, kind, id)
  PROVE  IInv'
BY StoreInv, SettleInv DEF Receive

(* The command that sends a message.                                       *)
LEMMA SendInv ==
  ASSUME IInv, Send
  PROVE  IInv'
<1> USE DEF IInv, TypeOK
<1> DEFINE slot == First(ReusableTx)
           entry == [id |-> GeneratedId, state |-> "SENT", ts |-> now, retryCount |-> 0]
<1>1. slot \in Tx
  BY TxScan DEF Send, ReusableTx
<1>2. tx' = [tx EXCEPT ![slot] = entry]
  BY DEF Send
<1>3. entry \in TxEntry /\ entry.id # NoId /\ entry.state # "NEW" /\ entry.ts = now
  BY GeneratedIdType DEF TxEntry, TxState
<1> HIDE DEF slot, entry
<1>4. tx' \in [Tx -> TxEntry]
  BY <1>1, <1>2, <1>3
<1>5. BlankSlotsSilent'
  BY <1>1, <1>2, <1>3 DEF BlankSlotsSilent
<1>6. \A s \in Tx : tx'[s].ts <= now
  BY <1>1, <1>2, <1>3 DEF NoFutureTimes
<1>7. QED
  BY <1>4, <1>5, <1>6 DEF Send, settings, NoFutureTimes

(* The command that marks a message read.                                  *)
LEMMA MarkReadInv ==
  ASSUME IInv, NEW id \in Ids, MarkRead(id)
  PROVE  IInv'
<1> USE DEF IInv, TypeOK
<1> DEFINE slot == First({s \in Rx : rx[s].id = id})
<1>1. slot \in Rx
  BY RxScan DEF MarkRead
<1>2. rx' = [rx EXCEPT ![slot].state = "READ"]
  BY DEF MarkRead
<1> HIDE DEF slot
<1>3. [rx[slot] EXCEPT !.state = "READ"] \in RxEntry
  BY <1>1 DEF RxEntry, RxState
<1>4. rx' \in [Rx -> RxEntry]
  BY <1>1, <1>2, <1>3
<1>5. \A s \in Rx : rx'[s].ts = rx[s].ts
  BY <1>1, <1>2 DEF RxEntry
<1>6. QED
  BY <1>4, <1>5 DEF MarkRead, settings, BlankSlotsSilent, NoFutureTimes

(* The commands that change the settings: bytes stay bytes.                *)
LEMMA SettingsInv ==
  ASSUME IInv,
         receiveAll' \in BOOLEAN, retries' \in 0 .. 255, retryDelay' \in 0 .. 255,
         UNCHANGED <<rx, tx, msgNextId, now, ticking>>
  PROVE  IInv'
BY DEF IInv, TypeOK, BlankSlotsSilent, NoFutureTimes

(* What is stored in a uint8_t is a byte. *)
LEMMA ByteType == ASSUME NEW n \in Nat PROVE Byte(n) \in 0 .. 255
BY DEF Byte

(* The clock.                                                              *)
LEMMA BeginTickInv ==
  ASSUME IInv, NEW delta \in Deltas, BeginTick(delta)
  PROVE  IInv'
<1> USE DEF IInv, TypeOK
<1>1. now' \in Nat /\ now <= now'
  BY TimeAssumption DEF BeginTick
<1>2. (\A s \in Tx : tx[s].ts \in Nat) /\ (\A s \in Rx : rx[s].ts \in Nat)
  BY DEF TxEntry, RxEntry
<1>3. NoFutureTimes'
  BY <1>1, <1>2 DEF BeginTick, NoFutureTimes
<1>4. QED
  BY <1>1, <1>3 DEF BeginTick, settings, BlankSlotsSilent

(* A retransmission changes the time and the count, nothing else.          *)
LEMMA ResentType ==
  ASSUME NEW m \in TxEntry, now \in Nat
  PROVE  /\ Resent(m) \in TxEntry
         /\ Resent(m).id = m.id
         /\ Resent(m).state = m.state
         /\ Resent(m).ts = now
BY DEF TxEntry, Resent

(* The retry pass.                                                         *)
LEMMA RetryTickInv ==
  ASSUME IInv, RetryTick
  PROVE  IInv'
<1> USE DEF IInv, TypeOK
<1>1. CASE DueTx = {}
  BY <1>1 DEF RetryTick, settings, BlankSlotsSilent, NoFutureTimes
<1>2. CASE DueTx # {}
  <2> DEFINE slot == First(DueTx)
             entry == Resent(tx[slot])
  <2>1. slot \in Tx
    BY <1>2, TxScan DEF DueTx
  <2>2. tx' = [tx EXCEPT ![slot] = entry]
    BY <1>2 DEF RetryTick
  <2>3. entry \in TxEntry /\ entry.id = tx[slot].id /\ entry.state = tx[slot].state
        /\ entry.ts = now
    BY <2>1, ResentType
  <2> HIDE DEF slot, entry
  <2>4. tx' \in [Tx -> TxEntry]
    BY <2>1, <2>2, <2>3
  <2>5. BlankSlotsSilent'
    BY <2>1, <2>2, <2>3 DEF BlankSlotsSilent
  <2>6. \A s \in Tx : tx'[s].ts <= now
    BY <2>1, <2>2, <2>3 DEF NoFutureTimes
  <2>7. QED
    BY <2>4, <2>5, <2>6 DEF RetryTick, settings, NoFutureTimes
<1>3. QED
  BY <1>1, <1>2

(* Every step preserves the invariant.                                     *)
LEMMA NextInv == IInv /\ [Next]_vars => IInv'
<1> SUFFICES ASSUME IInv, [Next]_vars PROVE IInv'
  OBVIOUS
<1>1. CASE Hear
  BY <1>1, ReceiveInv DEF Hear
<1>2. CASE Command
  <2>1. CASE Send
    BY <2>1, SendInv
  <2>2. ASSUME NEW id \in Ids, MarkRead(id) PROVE IInv'
    BY <2>2, MarkReadInv
  <2>3. ASSUME NEW all \in BOOLEAN, SetReceiveMode(all) PROVE IInv'
    BY <2>3, SettingsInv DEF SetReceiveMode, IInv, TypeOK
  <2>4. ASSUME NEW n \in RetryInputs, NEW delay \in DelayInputs, SetRetry(n, delay)
        PROVE  IInv'
    BY <2>4, SettingsInv, ByteType, RetryAssumption DEF SetRetry, IInv, TypeOK
  <2>5. CASE FactoryReset
    BY <2>5, SettingsInv, RetryAssumption DEF FactoryReset
  <2>6. ASSUME NEW all \in BOOLEAN, NEW n \in RetryInputs, NEW delay \in DelayInputs,
               LoadConfig(all, n, delay)
        PROVE  IInv'
    BY <2>6, SettingsInv, ByteType, RetryAssumption DEF LoadConfig
  <2>7. QED
    BY <1>2, <2>1, <2>2, <2>3, <2>4, <2>5, <2>6 DEF Command
<1>3. CASE Tick
  BY <1>3, RetryTickInv, BeginTickInv DEF Tick
<1>4. CASE UNCHANGED vars
  BY <1>4 DEF vars, IInv, TypeOK, BlankSlotsSilent, NoFutureTimes
<1>5. QED
  BY <1>1, <1>2, <1>3, <1>4 DEF Next

(* The invariant holds in every reachable state.                           *)
THEOREM Invariance == Spec => []IInv
BY InitInv, NextInv, PTL DEF Spec

(* The tables keep their types and the settings their bytes, and no time   *)
(* lies in the future (elapsed of mm_retry_tick is unsigned), for every     *)
(* size of the tables.                                                      *)
THEOREM TypeCorrect == Spec => [](TypeOK /\ NoFutureTimes)
<1>1. IInv => TypeOK /\ NoFutureTimes
  BY DEF IInv
<1>2. QED
  BY <1>1, Invariance, PTL

(* An answer never reaches a slot without a message, whatever arrives and   *)
(* whatever is reset or loaded (mm_receive_message's tests of msg_id[0]).   *)
THEOREM BlankIsSilent == Spec => []BlankSlotsSilent
<1>1. IInv => BlankSlotsSilent
  BY DEF IInv
<1>2. QED
  BY <1>1, Invariance, PTL

-----------------------------------------------------------------------------
(***************************************************************************)
(* What a step never does.                                                 *)
(***************************************************************************)

(* Only Store and MarkRead write the inbox: Store spares unread messages,  *)
(* MarkRead only changes the state.                                        *)
LEMMA UnreadStep ==
  ASSUME IInv, [Next]_vars, NEW s \in Rx, Unread(s)
  PROVE  rx'[s] \in {rx[s], [rx[s] EXCEPT !.state = "READ"]}
<1> USE DEF IInv
<1>1. CASE rx' = rx
  BY <1>1
<1>2. ASSUME NEW src \in Stations, NEW id \in Ids \cup {NoId}, Store(src, id)
      PROVE  rx'[s] = rx[s]
  BY <1>2, RxTarget DEF Store, TypeOK
<1>3. ASSUME NEW id \in Ids, MarkRead(id)
      PROVE  rx'[s] \in {rx[s], [rx[s] EXCEPT !.state = "READ"]}
  <2> DEFINE slot == First({t \in Rx : rx[t].id = id})
  <2>1. slot \in Rx
    BY <1>3, RxScan DEF MarkRead
  <2>2. rx' = [rx EXCEPT ![slot].state = "READ"]
    BY <1>3 DEF MarkRead
  <2> HIDE DEF slot
  <2>3. QED
    BY <2>1, <2>2 DEF TypeOK
<1>4. CASE Hear
  <2>1. PICK src \in Stations, forUs \in BOOLEAN, kind \in {"ack", "rej", "text"},
             id \in Ids \cup {NoId} : Receive(src, forUs, kind, id)
    BY <1>4 DEF Hear
  <2>2. rx' = rx \/ Store(src, id)
    BY <2>1 DEF Receive, Settle
  <2>3. QED
    BY <1>1, <1>2, <2>2
<1>5. CASE Command
  <2>1. rx' = rx \/ \E id \in Ids : MarkRead(id)
    BY <1>5 DEF Command, Send, SetReceiveMode, SetRetry, FactoryReset, LoadConfig
  <2>2. QED
    BY <1>1, <1>3, <2>1
<1>6. CASE Tick \/ UNCHANGED vars
  BY <1>1, <1>6 DEF Tick, RetryTick, BeginTick, vars
<1>7. QED
  BY <1>4, <1>5, <1>6 DEF Next

(* A message the user has not read yet is never overwritten, for inboxes   *)
(* of every size (mm_receive_message).                                     *)
THEOREM UnreadIsKept == Spec => UnreadKept
<1>1. IInv /\ [Next]_vars => [UnreadKeptStep]_vars
  BY UnreadStep DEF UnreadKeptStep
<1>2. QED
  BY <1>1, Invariance, PTL DEF Spec, UnreadKept

(* A waiting message is changed by an answer that bears its id or by its   *)
(* own retransmission: mm_send_message takes only settled or blank slots.  *)
LEMMA UnansweredStep ==
  ASSUME IInv, [Next]_vars, NEW s \in Tx, tx[s].state = "SENT"
  PROVE  /\ tx'[s].id = tx[s].id
         /\ tx'[s].state \in {"SENT", "ACKED", "REJECTED"}
<1> USE DEF IInv
<1>0. tx[s] \in TxEntry /\ tx[s].id # NoId
  BY DEF TypeOK, BlankSlotsSilent
<1>1. CASE tx' = tx
  BY <1>1
<1>2. ASSUME NEW id \in Ids, NEW answer \in {"ACKED", "REJECTED"}, Settle(id, answer)
      PROVE  tx'[s].id = tx[s].id /\ tx'[s].state \in {tx[s].state, answer}
  <2> DEFINE slot == First({t \in Tx : tx[t].id = id})
  <2>1. slot \in Tx
    BY <1>2, TxScan DEF Settle
  <2>2. tx' = [tx EXCEPT ![slot].state = answer]
    BY <1>2 DEF Settle
  <2> HIDE DEF slot
  <2>3. QED
    BY <1>0, <2>1, <2>2 DEF TypeOK, TxEntry
<1>3. CASE Send
  <2> DEFINE slot == First(ReusableTx)
  <2>1. slot \in ReusableTx /\ slot \in Tx
    BY <1>3, TxScan DEF Send, ReusableTx
  <2>2. slot # s
    BY <1>0, <2>1 DEF ReusableTx
  <2>3. QED
    BY <1>3, <2>1, <2>2 DEF Send, TypeOK
<1>4. CASE RetryTick
  <2>1. CASE DueTx = {}
    BY <1>1, <1>4, <2>1 DEF RetryTick
  <2>2. CASE DueTx # {}
    <3> DEFINE slot == First(DueTx)
    <3>1. slot \in Tx
      BY <2>2, TxScan DEF DueTx
    <3>2. tx' = [tx EXCEPT ![slot] = Resent(tx[slot])]
      BY <1>4, <2>2 DEF RetryTick
    <3>3. Resent(tx[slot]).id = tx[slot].id /\ Resent(tx[slot]).state = tx[slot].state
      BY <3>1, ResentType DEF TypeOK
    <3> HIDE DEF slot
    <3>4. QED
      BY <3>1, <3>2, <3>3 DEF TypeOK
  <2>3. QED
    BY <2>1, <2>2
<1>5. CASE Hear
  <2>1. PICK src \in Stations, forUs \in BOOLEAN, kind \in {"ack", "rej", "text"},
             id \in Ids \cup {NoId} : Receive(src, forUs, kind, id)
    BY <1>5 DEF Hear
  <2>2. \/ tx' = tx
        \/ id \in Ids /\ (Settle(id, "ACKED") \/ Settle(id, "REJECTED"))
    BY <2>1 DEF Receive, Store
  <2>3. QED
    BY <1>1, <1>2, <2>2
<1>6. CASE Command
  <2>1. tx' = tx \/ Send
    BY <1>6 DEF Command, MarkRead, SetReceiveMode, SetRetry, FactoryReset, LoadConfig
  <2>2. QED
    BY <1>1, <1>3, <2>1
<1>7. CASE UNCHANGED vars \/ \E delta \in Deltas : BeginTick(delta)
  BY <1>1, <1>7 DEF BeginTick, vars
<1>8. QED
  BY <1>4, <1>5, <1>6, <1>7 DEF Next, Tick

(* A sent message keeps its slot and its id until it is answered, for      *)
(* outboxes of every size (mm_send_message, mm_retry_tick).                *)
THEOREM UnansweredIsKept == Spec => UnansweredKept
<1>1. IInv /\ [Next]_vars => [UnansweredKeptStep]_vars
  BY UnansweredStep DEF UnansweredKeptStep
<1>2. QED
  BY <1>1, Invariance, PTL DEF Spec, UnansweredKept

(* An answered message is relabelled by another answer, or gives its slot  *)
(* to a message that is sent: mm_retry_tick looks at the state.             *)
LEMMA AnsweredStep ==
  ASSUME IInv, [Next]_vars, NEW s \in Tx, tx[s].state \in {"ACKED", "REJECTED"}
  PROVE  \/ \E answer \in {"ACKED", "REJECTED"} : tx'[s] = [tx[s] EXCEPT !.state = answer]
         \/ tx'[s].state = "SENT" /\ tx'[s].ts = now /\ msgNextId' > msgNextId
<1> USE DEF IInv
<1>0. tx[s] \in TxEntry /\ tx \in [Tx -> TxEntry]
  BY DEF TypeOK
<1>1. CASE tx'[s] = tx[s]
  <2>1. \A m \in TxEntry : m = [m EXCEPT !.state = m.state]
    BY DEF TxEntry
  <2>2. QED
    BY <1>0, <1>1, <2>1
<1>2. ASSUME NEW id \in Ids, NEW answer \in {"ACKED", "REJECTED"}, Settle(id, answer)
      PROVE  tx'[s] = tx[s] \/ tx'[s] = [tx[s] EXCEPT !.state = answer]
  <2> DEFINE slot == First({t \in Tx : tx[t].id = id})
  <2>1. tx' = [tx EXCEPT ![slot].state = answer]
    BY <1>2 DEF Settle
  <2> HIDE DEF slot
  <2>2. QED
    BY <1>0, <2>1
<1>3. CASE Send
  <2> DEFINE slot == First(ReusableTx)
             entry == [id |-> GeneratedId, state |-> "SENT", ts |-> now, retryCount |-> 0]
  <2>1. tx' = [tx EXCEPT ![slot] = entry]
    BY <1>3 DEF Send
  <2>2. entry.state = "SENT" /\ entry.ts = now
    OBVIOUS
  <2>3. msgNextId' > msgNextId
    BY <1>3 DEF Send, TypeOK
  <2> HIDE DEF slot, entry
  <2>4. tx'[s] = tx[s] \/ tx'[s] = entry
    BY <1>0, <2>1
  <2>5. QED
    BY <1>1, <2>2, <2>3, <2>4
<1>4. CASE RetryTick
  <2>1. CASE DueTx = {}
    BY <1>1, <1>4, <2>1 DEF RetryTick
  <2>2. CASE DueTx # {}
    <3> DEFINE slot == First(DueTx)
    <3>1. slot \in DueTx
      BY <2>2, TxScan DEF DueTx
    <3>2. slot # s
      BY <3>1 DEF DueTx
    <3>3. tx' = [tx EXCEPT ![slot] = Resent(tx[slot])]
      BY <1>4, <2>2 DEF RetryTick
    <3> HIDE DEF slot
    <3>4. tx'[s] = tx[s]
      BY <1>0, <3>2, <3>3
    <3>5. QED
      BY <1>1, <3>4
  <2>3. QED
    BY <2>1, <2>2
<1>5. CASE Hear
  <2>1. PICK src \in Stations, forUs \in BOOLEAN, kind \in {"ack", "rej", "text"},
             id \in Ids \cup {NoId} : Receive(src, forUs, kind, id)
    BY <1>5 DEF Hear
  <2>2. \/ tx' = tx
        \/ id \in Ids /\ (Settle(id, "ACKED") \/ Settle(id, "REJECTED"))
    BY <2>1 DEF Receive, Store
  <2>3. QED
    BY <1>1, <1>2, <2>2
<1>6. CASE Command
  <2>1. tx' = tx \/ Send
    BY <1>6 DEF Command, MarkRead, SetReceiveMode, SetRetry, FactoryReset, LoadConfig
  <2>2. QED
    BY <1>1, <1>3, <2>1
<1>7. CASE UNCHANGED vars \/ \E delta \in Deltas : BeginTick(delta)
  BY <1>1, <1>7 DEF BeginTick, vars
<1>8. QED
  BY <1>4, <1>5, <1>6, <1>7 DEF Next, Tick

(* An answered message is never put on the air again, whatever is answered *)
(* twice, set or sent meanwhile (mm_retry_tick, mm_process_ack).            *)
THEOREM AnsweredStaysSilent == Spec => AnsweredSilent
<1> DEFINE Silent ==
      \A s \in Tx : tx[s].state \in {"ACKED", "REJECTED"} =>
        \/ \E answer \in {"ACKED", "REJECTED"} : tx'[s] = [tx[s] EXCEPT !.state = answer]
        \/ tx'[s].state = "SENT" /\ tx'[s].ts = now /\ msgNextId' > msgNextId
<1>1. IInv /\ [Next]_vars => [Silent]_vars
  BY AnsweredStep
<1>2. QED
  BY <1>1, Invariance, PTL DEF Spec, AnsweredSilent
-----------------------------------------------------------------------------
(***************************************************************************)
(* Ids of the outbox.                                                      *)
(***************************************************************************)

(* Every id in the outbox stems from a value the counter had.              *)
IdsGenerated ==
  \A s \in Tx : tx[s].id # NoId =>
    \E n \in (FirstId + 1) .. msgNextId : tx[s].id = n % IdMod

IdsInv == FirstId <= msgNextId /\ IdsGenerated /\ IdsDistinctUntilWrap

(* Every step but a send leaves the ids of the outbox alone.               *)
LEMMA IdsOnlySent ==
  ASSUME IInv, [Next]_vars
  PROVE  \/ Send
         \/ /\ msgNextId' \in {msgNextId, msgNextId + 1}
            /\ \A s \in Tx : tx'[s].id = tx[s].id
<1> USE DEF IInv
<1>1. ASSUME NEW id \in Ids, NEW answer \in {"ACKED", "REJECTED"}, Settle(id, answer)
      PROVE  msgNextId' = msgNextId /\ \A s \in Tx : tx'[s].id = tx[s].id
  <2> DEFINE slot == First({t \in Tx : tx[t].id = id})
  <2>1. tx' = [tx EXCEPT ![slot].state = answer] /\ msgNextId' = msgNextId
    BY <1>1 DEF Settle
  <2> HIDE DEF slot
  <2>2. QED
    BY <2>1 DEF TypeOK, TxEntry
<1>2. CASE Hear
  <2>1. PICK src \in Stations, forUs \in BOOLEAN, kind \in {"ack", "rej", "text"},
             id \in Ids \cup {NoId} : Receive(src, forUs, kind, id)
    BY <1>2 DEF Hear
  <2>2. CASE Store(src, id)
    BY <2>2 DEF Store
  <2>3. CASE id \in Ids /\ (Settle(id, "ACKED") \/ Settle(id, "REJECTED"))
    BY <2>3, <1>1
  <2>4. QED
    BY <2>1, <2>2, <2>3 DEF Receive
<1>3. CASE Command
  BY <1>3 DEF Command, MarkRead, SetReceiveMode, SetRetry, FactoryReset, LoadConfig
<1>4. CASE RetryTick
  <2>1. CASE DueTx = {}
    BY <1>4, <2>1 DEF RetryTick
  <2>2. CASE DueTx # {}
    <3> DEFINE slot == First(DueTx)
    <3>1. slot \in Tx
      BY <2>2, TxScan DEF DueTx
    <3>2. tx' = [tx EXCEPT ![slot] = Resent(tx[slot])] /\ msgNextId' = msgNextId
      BY <1>4, <2>2 DEF RetryTick
    <3>3. Resent(tx[slot]).id = tx[slot].id
      BY <3>1, ResentType DEF TypeOK
    <3> HIDE DEF slot
    <3>4. QED
      BY <3>1, <3>2, <3>3 DEF TypeOK
  <2>3. QED
    BY <2>1, <2>2
<1>5. CASE UNCHANGED vars \/ \E delta \in Deltas : BeginTick(delta)
  BY <1>5 DEF BeginTick, vars
<1>6. QED
  BY <1>2, <1>3, <1>4, <1>5 DEF Next, Tick

(* A step that leaves the ids alone preserves what is known of them.       *)
LEMMA IdsKept ==
  ASSUME IInv, IdsInv, msgNextId' \in {msgNextId, msgNextId + 1},
         \A s \in Tx : tx'[s].id = tx[s].id
  PROVE  IdsInv'
<1>1. msgNextId \in Nat /\ msgNextId' \in Nat /\ msgNextId <= msgNextId'
  BY DEF IInv, TypeOK
<1>2. FirstId <= msgNextId'
  BY <1>1, IdAssumption DEF IdsInv
<1>3. IdsGenerated'
  <2> SUFFICES ASSUME NEW s \in Tx, tx[s].id # NoId
               PROVE  \E n \in (FirstId + 1) .. msgNextId' : tx[s].id = n % IdMod
    BY DEF IdsGenerated
  <2>1. PICK n \in (FirstId + 1) .. msgNextId : tx[s].id = n % IdMod
    BY DEF IdsInv, IdsGenerated
  <2>2. n \in (FirstId + 1) .. msgNextId'
    BY <1>1, IdAssumption
  <2>3. QED
    BY <2>1, <2>2
<1>4. IdsDistinctUntilWrap'
  BY <1>1, IdAssumption DEF IdsInv, IdsDistinctUntilWrap
<1>5. QED
  BY <1>2, <1>3, <1>4 DEF IdsInv

(* A new id differs from all that the counter gave since it started, until *)
(* it wraps.                                                               *)
LEMMA IdsSend ==
  ASSUME IInv, IdsInv, Send
  PROVE  IdsInv'
<1> DEFINE slot == First(ReusableTx)
           last == msgNextId + 1
<1>1. slot \in Tx
  BY TxScan DEF Send, ReusableTx
<1>2. /\ tx' = [tx EXCEPT ![slot] =
                  [id |-> last % IdMod, state |-> "SENT", ts |-> now, retryCount |-> 0]]
      /\ msgNextId' = last
  BY DEF Send, GeneratedId
<1>3. last \in Nat /\ msgNextId \in Nat /\ FirstId < last /\ FirstId \in Nat /\ IdMod \in Nat \ {0}
  BY IdAssumption DEF IInv, TypeOK, IdsInv
<1>4. \A s \in Tx : tx'[s].id = IF s = slot THEN last % IdMod ELSE tx[s].id
  BY <1>1, <1>2 DEF IInv, TypeOK
<1> HIDE DEF slot
<1>5. ASSUME NEW s \in Tx, s # slot, tx[s].id # NoId
      PROVE  \E n \in (FirstId + 1) .. msgNextId : tx[s].id = n % IdMod
  BY <1>5 DEF IdsInv, IdsGenerated
<1>6. IdsGenerated'
  <2> SUFFICES ASSUME NEW s \in Tx, tx'[s].id # NoId
               PROVE  \E n \in (FirstId + 1) .. last : tx'[s].id = n % IdMod
    BY <1>2 DEF IdsGenerated
  <2>1. CASE s = slot
    <3>1. last \in (FirstId + 1) .. last
      BY <1>3
    <3>2. QED
      BY <2>1, <3>1, <1>4
  <2>2. CASE s # slot
    <3>1. PICK n \in (FirstId + 1) .. msgNextId : tx[s].id = n % IdMod
      BY <1>4, <1>5, <2>2
    <3>2. n \in (FirstId + 1) .. last
      BY <1>3
    <3>3. QED
      BY <3>1, <3>2, <1>4, <2>2
  <2>3. QED
    BY <2>1, <2>2
<1>7. ASSUME last < FirstId + IdMod, NEW s \in Tx, s # slot, tx[s].id # NoId
      PROVE  tx[s].id # last % IdMod
  <2>1. PICK n \in (FirstId + 1) .. msgNextId : tx[s].id = n % IdMod
    BY <1>5, <1>7
  <2>2. n \in Nat /\ n < last /\ last < n + IdMod
    BY <1>3, <1>7
  <2> HIDE DEF last
  <2>3. n % IdMod # last % IdMod
    BY <1>3, <2>2, RemaindersDiffer
  <2>4. QED
    BY <2>1, <2>3
<1>8. IdsDistinctUntilWrap'
  <2> SUFFICES ASSUME last < FirstId + IdMod, NEW s \in Tx, NEW t \in Tx,
                      tx'[s].id # NoId, tx'[s].id = tx'[t].id, s # t
               PROVE  FALSE
    BY <1>2 DEF IdsDistinctUntilWrap
  <2>1. msgNextId < FirstId + IdMod
    BY <1>3
  <2> HIDE DEF last
  <2>2. CASE s = slot
    BY <1>4, <1>7, <2>2
  <2>3. CASE t = slot
    BY <1>4, <1>7, <2>3
  <2>4. CASE s # slot /\ t # slot
    BY <1>4, <2>1, <2>4 DEF IdsInv, IdsDistinctUntilWrap
  <2>5. QED
    BY <2>2, <2>3, <2>4
<1>9. FirstId <= msgNextId'
  BY <1>2, <1>3
<1>10. QED
  BY <1>6, <1>8, <1>9 DEF IdsInv

(* Ids are distinct until the counter wraps, for every id space and every  *)
(* outbox (mm_gen_msg_id, mm_send_message).                                *)
THEOREM IdsAreDistinct == Spec => []IdsDistinctUntilWrap
<1>1. Init => IdsInv
  BY IdAssumption DEF Init, IdsInv, IdsGenerated, IdsDistinctUntilWrap, EmptyTx
<1>2. IInv /\ IdsInv /\ [Next]_vars => IdsInv'
  BY IdsOnlySent, IdsKept, IdsSend
<1>3. IdsInv => IdsDistinctUntilWrap
  BY DEF IdsInv
<1>4. QED
  BY <1>1, <1>2, <1>3, Invariance, PTL DEF Spec
=============================================================================
