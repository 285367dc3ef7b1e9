------------------------- MODULE CommandQueueProofs -------------------------
(***************************************************************************)
(* The ring of the command queue is consistent, and with its re-entrant    *)
(* loops it implements the FIFO of accepted commands, for every size of    *)
(* the ring, every set of commands and every kind of host.                 *)
(***************************************************************************)
EXTENDS CommandQueue, TLAPS

(* Within two turns of the ring, % subtracts the size at most once. *)
LEMMA Turn ==
  ASSUME NEW n \in Nat \ {0}, NEW a \in Nat, a < n + n
  PROVE  a % n = IF a < n THEN a ELSE a - n
<1>1. CASE a < n
  BY <1>1, SMT
<1>2. CASE a >= n
  BY <1>2, SMT
<1> QED BY <1>1, <1>2

(* The slot at distance k from the head. *)
At(h, k) == IF h + k < Size THEN h + k ELSE h + k - Size

(* Positions are reached from the head without a remainder. *)
LEMMA Distance ==
  ASSUME NEW h \in Positions, NEW k \in 0 .. Size
  PROVE  /\ (h + k) % Size = At(h, k)
         /\ At(h, k) \in Positions
<1>1. Size \in Nat \ {0} /\ h + k \in Nat /\ h + k < Size + Size
  BY SizeAssumption DEF Positions
<1>2. (h + k) % Size = IF h + k < Size THEN h + k ELSE (h + k) - Size
  BY <1>1, Turn
<1>3. (h + k) % Size = At(h, k)
  BY <1>1, <1>2, SizeAssumption DEF At, Positions
<1> QED BY <1>1, <1>3 DEF At, Positions

(* The next position is the one at distance 1. *)
LEMMA Successor ==
  ASSUME NEW h \in Positions
  PROVE  Succ(h) = At(h, 1) /\ Succ(h) \in Positions
BY Distance, SizeAssumption DEF Succ

IInv == TypeOK /\ RingConsistent /\ OccupiedFilled

(* The invariant in terms of At, free of %. *)
Filled(s, h, n) == \A k \in Positions : k < n => s[At(h, k)] \in Commands

(* The ring is consistent exactly if tail is count away from head. *)
LEMMA Unrolled ==
  ASSUME head \in Positions, count \in 0 .. Size
  PROVE  /\ RingConsistent <=> tail = At(head, count)
         /\ OccupiedFilled <=> Filled(slots, head, count)
<1>1. RingConsistent <=> tail = At(head, count)
  <2>1. (head + count) % Size = At(head, count)
    BY Distance
  <2> QED BY <2>1 DEF RingConsistent
<1>2. \A k \in Positions : (head + k) % Size = At(head, k)
  <2>1. \A k \in Positions : k \in 0 .. Size
    BY SizeAssumption DEF Positions
  <2> QED BY <2>1, Distance
<1>3. OccupiedFilled <=> Filled(slots, head, count)
  BY <1>2 DEF OccupiedFilled, Filled
<1> QED BY <1>1, <1>3

(* The same of the next state. *)
LEMMA UnrolledNext ==
  ASSUME head' \in Positions, count' \in 0 .. Size
  PROVE  /\ RingConsistent' <=> tail' = At(head', count')
         /\ OccupiedFilled' <=> Filled(slots', head', count')
<1>1. RingConsistent' <=> tail' = At(head', count')
  <2>1. (head' + count') % Size = At(head', count')
    BY Distance
  <2> QED BY <2>1 DEF RingConsistent
<1>2. \A k \in Positions : (head' + k) % Size = At(head', k)
  <2>1. \A k \in Positions : k \in 0 .. Size
    BY SizeAssumption DEF Positions
  <2> QED BY <2>1, Distance
<1>3. OccupiedFilled' <=> Filled(slots', head', count')
  BY <1>2 DEF OccupiedFilled, Filled
<1> QED BY <1>1, <1>3

(* Writing at the tail fills the slot behind the last occupied one. *)
LEMMA EnqueueKeeps ==
  ASSUME IInv, NEW c \in Commands, Enqueue(c)
  PROVE  /\ slots' \in [Positions -> Commands \cup {Nothing}]
         /\ head' = head /\ tail' \in Positions
         /\ count' = count + 1 /\ count' \in 0 .. Size
         /\ slots' = [slots EXCEPT ![At(head, count)] = c]
         /\ reply' = "APRS_OK"
         /\ RingConsistent' /\ OccupiedFilled'
<1>1. /\ slots \in [Positions -> Commands \cup {Nothing}]
      /\ head \in Positions /\ tail \in Positions
      /\ count \in 0 .. (Size - 1) /\ Size \in Nat \ {0}
  BY SizeAssumption DEF IInv, TypeOK, Enqueue, Room
<1>2. /\ head' = head /\ count' = count + 1 /\ reply' = "APRS_OK"
      /\ tail' = Succ(tail) /\ slots' = [slots EXCEPT ![tail] = c]
  BY DEF Enqueue
<1>3. tail = At(head, count) /\ Filled(slots, head, count)
  BY <1>1, Unrolled DEF IInv
<1>4. tail' = At(tail, 1) /\ tail' \in Positions
  BY <1>1, <1>2, Successor
<1>5. tail' = At(head', count')
  BY <1>1, <1>2, <1>3, <1>4 DEF At, Positions
<1>6. Filled(slots', head', count')
  <2> SUFFICES ASSUME NEW k \in Positions, k < count + 1
               PROVE  slots'[At(head, k)] \in Commands
    BY <1>2 DEF Filled
  <2>1. At(head, k) \in Positions
    BY <1>1 DEF At, Positions
  <2>2. CASE k = count
    BY <1>1, <1>2, <1>3, <2>2
  <2>3. CASE k < count
    <3>1. At(head, k) # tail
      BY <1>1, <1>3, <2>3 DEF At, Positions
    <3>2. slots[At(head, k)] \in Commands
      BY <1>3, <2>3 DEF Filled
    <3> QED BY <1>1, <1>2, <2>1, <3>1, <3>2
  <2> QED BY <1>1, <2>2, <2>3 DEF Positions
<1>7. head' \in Positions /\ count' \in 0 .. Size
  BY <1>1, <1>2
<1>8. RingConsistent' /\ OccupiedFilled'
  BY <1>5, <1>6, <1>7, UnrolledNext
<1> QED BY <1>1, <1>2, <1>3, <1>4, <1>7, <1>8

(* Taking the head off leaves the other occupied slots where they are. *)
LEMMA DequeueKeeps ==
  ASSUME IInv, Dequeue
  PROVE  /\ slots' = slots
         /\ head' = At(head, 1) /\ head' \in Positions /\ tail' \in Positions
         /\ count \in 1 .. Size /\ count' = count - 1 /\ count' \in 0 .. Size
         /\ current' = slots[head] /\ current' \in Commands
         /\ RingConsistent' /\ OccupiedFilled'
<1>1. /\ head \in Positions /\ tail \in Positions
      /\ count \in 1 .. Size /\ Size \in Nat \ {0}
  BY SizeAssumption DEF IInv, TypeOK, Dequeue
<1>2. /\ head' = Succ(head) /\ count' = count - 1 /\ current' = slots[head]
      /\ slots' = slots /\ tail' = tail
  BY DEF Dequeue
<1>3. tail = At(head, count) /\ Filled(slots, head, count)
  BY <1>1, Unrolled DEF IInv
<1>4. head' = At(head, 1) /\ head' \in Positions
  BY <1>1, <1>2, Successor
<1>5. tail' = At(head', count')
  BY <1>1, <1>2, <1>3, <1>4 DEF At, Positions
<1>6. Filled(slots', head', count')
  <2> SUFFICES ASSUME NEW k \in Positions, k < count - 1
               PROVE  slots[At(head', k)] \in Commands
    BY <1>2 DEF Filled
  <2>1. k + 1 \in Positions /\ k + 1 < count
    BY <1>1 DEF Positions
  <2>2. At(head', k) = At(head, k + 1)
    BY <1>1, <1>4, <2>1 DEF At, Positions
  <2> QED BY <1>3, <2>1, <2>2 DEF Filled
<1>7. count' \in 0 .. Size
  BY <1>1, <1>2
<1>8. RingConsistent' /\ OccupiedFilled'
  BY <1>4, <1>5, <1>6, <1>7, UnrolledNext
<1>9. current' \in Commands
  <2>1. 0 \in Positions /\ At(head, 0) = head
    BY <1>1 DEF At, Positions
  <2> QED BY <1>1, <1>2, <1>3, <2>1 DEF Filled
<1> QED BY <1>1, <1>2, <1>4, <1>7, <1>8, <1>9

-----------------------------------------------------------------------------
(* Every step of the loop or of an API call keeps the invariant. *)
LEMMA StepKeeps == IInv /\ [Next]_vars => IInv'
<1> SUFFICES ASSUME IInv, [Next]_vars PROVE IInv'
  OBVIOUS
<1>1. ASSUME NEW c \in Commands, Enqueue(c),
             drains' \in 0 .. MaxDrains, inCommand' \in BOOLEAN, current' = current
      PROVE  IInv'
  BY <1>1, EnqueueKeeps DEF IInv, TypeOK
<1>2. ASSUME UNCHANGED ring,
             drains' \in 0 .. MaxDrains, inCommand' \in BOOLEAN, current' = current,
             reply' \in {"APRS_OK", "APRS_ERR_BUSY", Nothing}
      PROVE  IInv'
  BY <1>2 DEF IInv, TypeOK, RingConsistent, OccupiedFilled, ring
<1>3. ASSUME NEW c \in Commands, ClientCall(c) PROVE IInv'
  BY <1>1, <1>2, <1>3 DEF ClientCall, RefuseBusy, control, IInv, TypeOK
<1>4. ASSUME NEW c \in Commands, CallbackCall(c) PROVE IInv'
  BY <1>1, <1>2, <1>4 DEF CallbackCall, RefuseBusy, control, IInv, TypeOK
<1>5. CASE GenerateKeys
  <2>1. KeysCommand \in Commands
    BY CommandAssumption
  <2>2. CASE Enqueue(KeysCommand) /\ EnterLoop
    <3>1. drains' \in 0 .. MaxDrains
      BY <2>2, DrainAssumption DEF EnterLoop, IInv, TypeOK
    <3>2. inCommand' \in BOOLEAN
      BY <2>2 DEF EnterLoop
    <3> QED BY <1>1, <1>5, <2>1, <2>2, <3>1, <3>2 DEF GenerateKeys
  <2>3. CASE RefuseBusy /\ UNCHANGED <<drains, inCommand>>
    BY <1>2, <1>5, <2>3 DEF GenerateKeys, RefuseBusy, IInv, TypeOK
  <2> QED BY <1>5, <2>2, <2>3 DEF GenerateKeys
<1>6. CASE Tick
  <2>1. drains' \in 0 .. MaxDrains
    BY <1>6, DrainAssumption DEF Tick, EnterLoop, IInv, TypeOK
  <2> QED BY <1>2, <1>6, <2>1 DEF Tick, EnterLoop, IInv, TypeOK
<1>7. CASE StartCommand
  BY <1>7, DequeueKeeps DEF StartCommand, IInv, TypeOK
<1>8. CASE FinishCommand
  BY <1>2, <1>8 DEF FinishCommand, IInv, TypeOK
<1>9. CASE LeaveLoop
  <2>1. drains' \in 0 .. MaxDrains
    BY <1>9, DrainAssumption DEF LeaveLoop, IInv, TypeOK
  <2> QED BY <1>2, <1>9, <2>1 DEF LeaveLoop, IInv, TypeOK
<1>10. CASE UNCHANGED vars
  BY <1>2, <1>10 DEF vars, ring, IInv, TypeOK
<1> QED
  BY <1>3, <1>4, <1>5, <1>6, <1>7, <1>8, <1>9, <1>10 DEF Next, Call, Loop

(* The invariant holds of an empty ring (aprs_engine_create). *)
LEMMA InitHolds == Init => IInv
<1> SUFFICES ASSUME Init PROVE IInv
  OBVIOUS
<1>1. TypeOK
  <2>1. head \in Positions /\ tail \in Positions /\ count \in 0 .. Size
        /\ drains \in 0 .. MaxDrains
    BY SizeAssumption, DrainAssumption DEF Init, Positions
  <2>2. slots \in [Positions -> Commands \cup {Nothing}]
    BY DEF Init
  <2>3. inCommand \in BOOLEAN /\ current = Nothing /\ reply = Nothing
    BY DEF Init
  <2> QED BY <2>1, <2>2, <2>3 DEF TypeOK
<1>2. OccupiedFilled
  BY DEF Init, OccupiedFilled, Positions
<1>3. RingConsistent
  <2>1. 0 \in Positions /\ 0 \in 0 .. Size
    BY SizeAssumption DEF Positions
  <2>2. At(0, 0) = 0
    BY SizeAssumption DEF At
  <2>3. (0 + 0) % Size = 0
    BY <2>1, <2>2, Distance
  <2> QED BY <2>3 DEF Init, RingConsistent
<1> QED BY <1>1, <1>2, <1>3 DEF IInv

(* The fields of the command queue have their types in every reachable     *)
(* state, and loops are nested no deeper than the host allows.             *)
THEOREM RingTyped == Spec => []TypeOK
<1>1. IInv => TypeOK
  BY DEF IInv
<1> QED BY <1>1, InitHolds, StepKeeps, PTL DEF Spec

(* The ring of the command queue is consistent in every reachable state:    *)
(* head, tail and count agree, and every occupied slot holds a command      *)
(* (engine_enqueue_cmd, engine_process_commands), for every size and every  *)
(* callback behaviour.                                                      *)
THEOREM RingInvariance == Spec => [](RingConsistent /\ OccupiedFilled)
<1>1. IInv => RingConsistent /\ OccupiedFilled
  BY DEF IInv
<1> QED BY <1>1, InitHolds, StepKeeps, PTL DEF Spec

-----------------------------------------------------------------------------
(* The abstract queue under the ring. *)
LEMMA PendingIs ==
  ASSUME head \in Positions, count \in 0 .. Size, Filled(slots, head, count)
  PROVE  /\ Pending = [i \in 1 .. count |-> slots[At(head, i - 1)]]
         /\ Pending \in Seq(Commands)
         /\ Len(Pending) = count
<1>1. \A i \in 1 .. count : /\ i - 1 \in Positions /\ i - 1 < count
                            /\ head + i - 1 = head + (i - 1)
                            /\ i - 1 \in 0 .. Size
  BY SizeAssumption DEF Positions
<1>2. \A i \in 1 .. count : (head + i - 1) % Size = At(head, i - 1)
  BY <1>1, Distance
<1>3. Pending = [i \in 1 .. count |-> slots[At(head, i - 1)]]
  BY <1>2 DEF Pending
<1>4. \A i \in 1 .. count : slots[At(head, i - 1)] \in Commands
  BY <1>1 DEF Filled
<1>5. count \in Nat
  BY SizeAssumption
<1> QED BY <1>3, <1>4, <1>5

(* What is enqueued goes to the end of the abstract queue (engine_enqueue_cmd). *)
LEMMA EnqueueAccepts ==
  ASSUME IInv, IInv', NEW c \in Commands, Enqueue(c)
  PROVE  Pending' = Append(Pending, c) /\ Len(Pending) < Size
<1>1. /\ slots \in [Positions -> Commands \cup {Nothing}]
      /\ head \in Positions
      /\ count \in 0 .. (Size - 1) /\ count \in 0 .. Size /\ Size \in Nat \ {0}
  BY SizeAssumption DEF IInv, TypeOK, Enqueue, Room
<1>2. head' = head /\ count' = count + 1 /\ slots' = [slots EXCEPT ![At(head, count)] = c]
  BY EnqueueKeeps
<1>3. /\ Pending = [i \in 1 .. count |-> slots[At(head, i - 1)]]
      /\ Pending \in Seq(Commands) /\ Len(Pending) = count
  BY <1>1, Unrolled, PendingIs DEF IInv
<1>4. Pending' = [i \in 1 .. (count + 1) |-> slots'[At(head, i - 1)]]
  <2>1. head' \in Positions /\ count' \in 0 .. Size /\ OccupiedFilled'
    BY DEF IInv, TypeOK
  <2>2. \A i \in 1 .. count' : i - 1 \in 0 .. Size /\ head' + i - 1 = head' + (i - 1)
    BY <1>1, <2>1 DEF Positions
  <2>3. \A i \in 1 .. count' : (head' + i - 1) % Size = At(head', i - 1)
    BY <2>1, <2>2, Distance
  <2> QED BY <1>2, <2>3 DEF Pending
<1>5. \A i \in 1 .. count : slots'[At(head, i - 1)] = slots[At(head, i - 1)]
  <2> SUFFICES ASSUME NEW i \in 1 .. count
               PROVE  slots'[At(head, i - 1)] = slots[At(head, i - 1)]
    OBVIOUS
  <2>1. At(head, i - 1) # At(head, count)
    BY <1>1 DEF At, Positions
  <2>2. At(head, i - 1) \in Positions
    BY <1>1 DEF At, Positions
  <2> QED BY <1>1, <1>2, <2>1, <2>2
<1>6. slots'[At(head, count)] = c
  <2>1. At(head, count) \in Positions
    BY <1>1 DEF At, Positions
  <2> QED BY <1>1, <1>2, <2>1
<1>7. Append(Pending, c) = [i \in 1 .. (count + 1) |-> IF i = count + 1 THEN c ELSE Pending[i]]
  BY <1>1, <1>3
<1>8. \A i \in 1 .. (count + 1) :
        slots'[At(head, i - 1)] = IF i = count + 1 THEN c ELSE Pending[i]
  <2> SUFFICES ASSUME NEW i \in 1 .. (count + 1)
               PROVE  slots'[At(head, i - 1)] = IF i = count + 1 THEN c ELSE Pending[i]
    OBVIOUS
  <2>1. CASE i = count + 1
    <3>1. i - 1 = count
      BY <1>1, <2>1
    <3> QED BY <1>6, <2>1, <3>1
  <2>2. CASE i # count + 1
    <3>1. i \in 1 .. count
      BY <1>1, <2>2
    <3> QED BY <1>3, <1>5, <2>2, <3>1
  <2> QED BY <2>1, <2>2
<1>9. Len(Pending) < Size
  BY <1>1, <1>3
<1> QED BY <1>4, <1>7, <1>8, <1>9

(* What is dequeued was its head (engine_process_commands). *)
LEMMA DequeueExecutes ==
  ASSUME IInv, IInv', Dequeue
  PROVE  Pending # <<>> /\ current' = Head(Pending) /\ Pending' = Tail(Pending)
<1>1. /\ head \in Positions /\ count \in 1 .. Size /\ count \in 0 .. Size
      /\ Size \in Nat \ {0}
  BY SizeAssumption DEF IInv, TypeOK, Dequeue
<1>2. /\ head' = At(head, 1) /\ count' = count - 1 /\ slots' = slots
      /\ current' = slots[head]
  BY DequeueKeeps
<1>3. /\ Pending = [i \in 1 .. count |-> slots[At(head, i - 1)]]
      /\ Pending \in Seq(Commands) /\ Len(Pending) = count
  BY <1>1, Unrolled, PendingIs DEF IInv
<1>4. Pending' = [i \in 1 .. (count - 1) |-> slots[At(At(head, 1), i - 1)]]
  <2>1. head' \in Positions /\ count' \in 0 .. Size
    BY DEF IInv, TypeOK
  <2>2. \A i \in 1 .. count' : i - 1 \in 0 .. Size /\ head' + i - 1 = head' + (i - 1)
    BY <1>1, <2>1 DEF Positions
  <2>3. \A i \in 1 .. count' : (head' + i - 1) % Size = At(head', i - 1)
    BY <2>1, <2>2, Distance
  <2> QED BY <1>2, <2>3 DEF Pending
<1>5. \A i \in 1 .. (count - 1) : At(At(head, 1), i - 1) = At(head, i)
  BY <1>1 DEF At, Positions
<1>6. \A i \in 1 .. (count - 1) : Pending[i + 1] = slots[At(head, i)]
  BY <1>1, <1>3
<1>7. Tail(Pending) = [i \in 1 .. (count - 1) |-> Pending[i + 1]]
  BY <1>1, <1>3
<1>8. Pending' = Tail(Pending)
  BY <1>4, <1>5, <1>6, <1>7
<1>9. Head(Pending) = slots[head] /\ Pending # <<>>
  <2>1. At(head, 0) = head
    BY <1>1 DEF At, Positions
  <2>2. Pending[1] = slots[At(head, 0)]
    BY <1>1, <1>3
  <2> QED BY <1>1, <1>3, <2>1, <2>2
<1> QED BY <1>2, <1>8, <1>9

(* Every step of the ring is a step of the FIFO, or a stutter. *)
LEMMA StepRefines == IInv /\ IInv' /\ [Next]_vars => [Fifo!Next]_(Fifo!vars)
<1> SUFFICES ASSUME IInv, IInv', [Next]_vars PROVE [Fifo!Next]_(Fifo!vars)
  OBVIOUS
<1>1. ASSUME NEW c \in Commands, Enqueue(c), current' = current PROVE Fifo!Accept(c)
  <2>1. Pending' = Append(Pending, c) /\ Len(Pending) < Size
    BY <1>1, EnqueueAccepts
  <2>2. reply' = "APRS_OK"
    BY <1>1 DEF Enqueue
  <2> QED BY <1>1, <2>1, <2>2 DEF Fifo!Accept
<1>2. ASSUME UNCHANGED ring PROVE Pending' = Pending
  BY <1>2 DEF ring, Pending
<1>3. ASSUME RefuseBusy, current' = current PROVE Fifo!Refuse
  <2>1. count = Size
    BY <1>3, SizeAssumption DEF RefuseBusy, Room, IInv, TypeOK
  <2>2. Len(Pending) = count
    BY Unrolled, PendingIs DEF IInv, TypeOK
  <2>3. Pending' = Pending
    BY <1>2, <1>3 DEF RefuseBusy
  <2> QED BY <1>3, <2>1, <2>2, <2>3 DEF Fifo!Refuse, RefuseBusy
<1>4. ASSUME UNCHANGED <<ring, current, reply>> PROVE UNCHANGED Fifo!vars
  BY <1>2, <1>4 DEF Fifo!vars
<1>5. ASSUME NEW c \in Commands, ClientCall(c) \/ CallbackCall(c) PROVE Fifo!Next
  BY <1>1, <1>3, <1>5 DEF ClientCall, CallbackCall, control, Fifo!Next
<1>6. CASE GenerateKeys
  BY <1>1, <1>3, <1>6, CommandAssumption DEF GenerateKeys, Fifo!Next
<1>7. CASE StartCommand
  <2>1. Dequeue /\ UNCHANGED reply
    BY <1>7 DEF StartCommand
  <2>2. Pending # <<>> /\ current' = Head(Pending) /\ Pending' = Tail(Pending)
    BY <2>1, DequeueExecutes
  <2> QED BY <2>1, <2>2 DEF Fifo!Next, Fifo!Execute
<1>8. CASE Tick \/ FinishCommand \/ LeaveLoop \/ UNCHANGED vars
  BY <1>4, <1>8 DEF Tick, FinishCommand, LeaveLoop, vars, ring
<1> QED
  BY <1>5, <1>6, <1>7, <1>8 DEF Next, Call, Loop

(* The command ring with its re-entrant loops implements the FIFO: no       *)
(* accepted command is lost, repeated or overtaken, and none is refused     *)
(* while there is room.                                                     *)
THEOREM Refinement == Spec => ImplementsFifo
<1>1. Init => Fifo!Init
  <2> SUFFICES ASSUME Init PROVE Fifo!Init
    OBVIOUS
  <2>1. Pending = <<>>
    BY DEF Init, Pending
  <2> QED BY <2>1 DEF Init, Fifo!Init
<1>2. Spec => []IInv
  BY InitHolds, StepKeeps, PTL DEF Spec
<1> QED BY <1>1, <1>2, StepRefines, PTL DEF Spec, ImplementsFifo, Fifo!Spec
=============================================================================
