--------------------------- MODULE DigiQueueProofs ---------------------------
(***************************************************************************)
(* The repeat queue for every number of slots, every set of frames and     *)
(* every delay: its types, that no frame is forgotten in its slot, that a  *)
(* waiting frame leaves in its turn, and that a digipeater that is         *)
(* switched off repeats nothing.                                           *)
(***************************************************************************)
EXTENDS DigiQueue, SlotsProofs

Entry == [status : {"free", "waiting"}, frame : Frames \cup {NoFrame}, due : Nat]

IInv == TypeOK /\ NothingOverdue

(* A frame that is queued takes the slot de_check_and_queue means to give   *)
(* it: a free one, or of a full queue one that is due first.                *)
LEMMA TargetChosen ==
  ASSUME TypeOK
  PROVE  /\ First(Targets) \in Queue
         /\ First(Targets) \in Waiting =>
              Free = {} /\ \A t \in Queue : queue[First(Targets)].due <= queue[t].due
<1>1. Queue \subseteq Nat /\ Queue # {}
  <2>1. 0 \in Queue
    BY SizeAssumption DEF Queue, Indices
  <2> QED BY <2>1, SizeAssumption DEF Queue, Indices
<1>2. Free \subseteq Queue /\ Waiting \subseteq Queue /\ Free = Queue \ Waiting
  BY DEF Free, Waiting
<1>3. CASE Free # {}
  <2>1. Targets = Free
    BY <1>3 DEF Targets
  <2>2. First(Free) \in Free
    <3>1. Free \in SUBSET Nat
      BY <1>1, <1>2
    <3> QED BY <1>3, <3>1, FirstIsLeast
  <2> QED BY <1>2, <2>1, <2>2
<1>4. CASE Free = {}
  <2>1. Waiting = Queue /\ Targets = Least(DueTimes, Waiting)
    BY <1>2, <1>4 DEF Targets
  <2>2. \A s \in Queue : DueTimes[s] = queue[s].due /\ DueTimes[s] \in Nat
    BY DEF DueTimes, TypeOK
  <2>3. Targets # {}
    BY <1>1, <2>1, <2>2, LeastNonEmpty
  <2>4. Targets \in SUBSET Nat
    BY <1>1, <2>1 DEF Least
  <2>5. First(Targets) \in Targets
    BY <2>3, <2>4, FirstIsLeast
  <2>6. First(Targets) \in Queue /\ \A t \in Queue : DueTimes[First(Targets)] <= DueTimes[t]
    BY <2>1, <2>5 DEF Least
  <2> QED BY <1>4, <2>2, <2>6
<1> QED BY <1>3, <1>4

(* What the repeat pass leaves waiting was not due. *)
LEMMA RepeatLeaves ==
  ASSUME TypeOK, RepeatTick
  PROVE  /\ queue' \in [Queue -> Entry]
         /\ \A s \in Queue : queue'[s].status = "waiting" =>
              queue'[s] = queue[s] /\ s \in Waiting /\ s \notin Due
<1>1. queue \in [Queue -> Entry]
  BY DEF TypeOK, Entry
<1> DEFINE Freed(s) == [status |-> "free", frame |-> queue[s].frame, due |-> queue[s].due]
<1>2. \A s \in Queue : /\ s \in Due => queue'[s] = Freed(s)
                       /\ s \notin Due => queue'[s] = queue[s]
  BY DEF RepeatTick
<1>3. \A s \in Queue : Freed(s) \in Entry /\ Freed(s).status = "free"
  BY <1>1 DEF Entry
<1> HIDE DEF Freed
<1>4. \A s \in Queue : queue'[s] \in Entry
  BY <1>1, <1>2, <1>3
<1>5. queue' \in [Queue -> Entry]
  <2>1. queue' = [s \in Queue |-> queue'[s]]
    BY DEF RepeatTick
  <2> QED BY <1>4, <2>1
<1>6. ASSUME NEW s \in Queue, queue'[s].status = "waiting"
      PROVE  queue'[s] = queue[s] /\ s \in Waiting /\ s \notin Due
  <2>1. s \notin Due
    BY <1>2, <1>3, <1>6
  <2>2. queue'[s] = queue[s]
    BY <1>2, <2>1
  <2> QED BY <1>6, <2>1, <2>2 DEF Waiting
<1> QED BY <1>5, <1>6

(* The invariant holds of an empty queue (aprs_engine_create). *)
LEMMA Initially == Init => IInv
<1> SUFFICES ASSUME Init PROVE IInv
  OBVIOUS
<1>1. FreeSlot \in Entry
  BY DEF FreeSlot, Entry
<1>2. queue \in [Queue -> Entry]
  BY <1>1 DEF Init
<1>3. TypeOK
  <2>1. dupeTime \in Nat /\ delay \in Nat /\ now \in Nat /\ selected \subseteq Frames
    BY FrameAssumption, TimeAssumption DEF Init
  <2>2. enabled \in BOOLEAN /\ ticking \in BOOLEAN
    BY Zenon DEF Init
  <2> QED BY <1>2, <2>1, <2>2 DEF TypeOK, Entry
<1>4. Waiting = {}
  BY DEF Init, Waiting, FreeSlot
<1>5. NothingOverdue
  BY <1>4 DEF NothingOverdue
<1> QED BY <1>3, <1>5 DEF IInv

(* The commands change the settings only, inside a tick. *)
LEMMA CommandKeeps ==
  ASSUME TypeOK, Command
  PROVE  TypeOK' /\ queue' = queue /\ now' = now /\ ticking /\ ticking'
<1> USE FrameAssumption, TimeAssumption DEF TypeOK, InCommands
<1>1. ASSUME NEW on \in BOOLEAN, SetEnabled(on)
      PROVE  TypeOK' /\ queue' = queue /\ now' = now /\ ticking /\ ticking'
  BY <1>1 DEF SetEnabled
<1>2. ASSUME NEW frames \in SUBSET Frames, SetAlias(frames)
      PROVE  TypeOK' /\ queue' = queue /\ now' = now /\ ticking /\ ticking'
  BY <1>2 DEF SetAlias
<1>3. ASSUME NEW dupe \in DupeInputs, NEW wait \in DelayInputs, SetTiming(dupe, wait)
      PROVE  TypeOK' /\ queue' = queue /\ now' = now /\ ticking /\ ticking'
  BY <1>3 DEF SetTiming
<1>4. CASE FactoryReset
  BY <1>4 DEF FactoryReset
<1>5. ASSUME NEW on \in BOOLEAN, NEW frames \in SUBSET Frames, NEW dupe \in DupeInputs,
             NEW wait \in DelayInputs, LoadConfig(on, frames, dupe, wait)
      PROVE  TypeOK' /\ queue' = queue /\ now' = now /\ ticking /\ ticking'
  BY <1>5 DEF LoadConfig
<1> QED BY <1>1, <1>2, <1>3, <1>4, <1>5 DEF Command

(* Every step keeps it. *)
LEMMA Step == IInv /\ [Next]_vars => IInv'
<1> SUFFICES ASSUME IInv, [Next]_vars PROVE IInv'
  OBVIOUS
<1>0. TypeOK /\ NothingOverdue
  BY DEF IInv
<1>1. ASSUME NEW f \in Frames, Hear(f) PROVE IInv'
  <2> DEFINE target == First(Targets)
             entry == [status |-> "waiting", frame |-> f, due |-> now + delay]
  <2>1. target \in Queue
    BY <1>0, TargetChosen
  <2>2. entry \in Entry /\ entry.status = "waiting" /\ now <= entry.due
    BY <1>0 DEF Entry, TypeOK
  <2>3. queue' = [queue EXCEPT ![target] = entry]
    BY <1>1 DEF Hear
  <2> HIDE DEF target, entry
  <2>4. UNCHANGED <<enabled, selected, dupeTime, delay, now, ticking>> /\ enabled /\ ~ticking
    BY <1>1 DEF Hear, settings
  <2>5. queue' \in [Queue -> Entry]
    BY <1>0, <2>1, <2>2, <2>3 DEF TypeOK, Entry
  <2>6. TypeOK'
    BY <1>0, <2>4, <2>5 DEF TypeOK, Entry
  <2>7. ASSUME NEW s \in Queue, queue'[s].status = "waiting" PROVE now <= queue'[s].due
    <3>1. CASE s = target
      BY <1>0, <2>1, <2>2, <2>3, <3>1 DEF TypeOK
    <3>2. CASE s # target
      <4>1. queue'[s] = queue[s]
        BY <1>0, <2>3, <3>2 DEF TypeOK
      <4>2. s \in Waiting
        BY <2>7, <4>1 DEF Waiting
      <4> QED BY <1>0, <2>4, <4>1, <4>2 DEF NothingOverdue
    <3> QED BY <3>1, <3>2
  <2>8. NothingOverdue'
    BY <2>4, <2>7 DEF NothingOverdue, Waiting
  <2> QED BY <2>6, <2>8 DEF IInv
<1>2. CASE Command
  <2>1. TypeOK' /\ ticking'
    BY <1>0, <1>2, CommandKeeps
  <2> QED BY <2>1 DEF IInv, NothingOverdue
<1>3. ASSUME NEW delta \in Deltas, BeginTick(delta) PROVE IInv'
  <2>1. TypeOK'
    <3>1. now' \in Nat
      BY <1>0, <1>3, TimeAssumption DEF BeginTick, TypeOK
    <3>2. ticking' = TRUE /\ UNCHANGED <<queue, enabled, selected, dupeTime, delay>>
      BY <1>3 DEF BeginTick, settings
    <3> QED BY <1>0, <3>1, <3>2, Zenon DEF TypeOK
  <2>2. ticking'
    BY <1>3 DEF BeginTick
  <2> QED BY <2>1, <2>2 DEF IInv, NothingOverdue
<1>4. CASE RepeatTick
  <2>1. UNCHANGED <<enabled, selected, dupeTime, delay, now>> /\ ticking' = FALSE
    BY <1>4 DEF RepeatTick, settings
  <2>2. queue' \in [Queue -> Entry]
    BY <1>0, <1>4, RepeatLeaves
  <2>3. TypeOK'
    BY <1>0, <2>1, <2>2, Zenon DEF TypeOK, Entry
  <2>4. ASSUME enabled, NEW s \in Queue, queue'[s].status = "waiting" PROVE now <= queue'[s].due
    <3>1. queue'[s] = queue[s] /\ s \in Waiting /\ s \notin Due
      BY <1>0, <1>4, <2>4, RepeatLeaves
    <3>2. queue[s].due \in Nat /\ now \in Nat
      BY <1>0 DEF TypeOK
    <3>3. ~(now >= queue[s].due)
      BY <2>4, <3>1 DEF Due
    <3> QED BY <3>1, <3>2, <3>3
  <2>5. NothingOverdue'
    BY <2>1, <2>4 DEF NothingOverdue, Waiting
  <2> QED BY <2>3, <2>5 DEF IInv
<1>5. CASE UNCHANGED vars
  BY <1>0, <1>5 DEF IInv, TypeOK, NothingOverdue, Waiting, vars
<1> QED BY <1>1, <1>2, <1>3, <1>4, <1>5 DEF Next

(* The invariant holds in every reachable state of the queue. *)
THEOREM Invariance == Spec => []IInv
BY Initially, Step, PTL DEF Spec

(* The queue keeps its type, with every number of slots (digi_queue).       *)
THEOREM QueueTyped == Spec => []TypeOK
<1>1. IInv => TypeOK
  BY DEF IInv
<1> QED BY <1>1, Invariance, PTL

(* No frame is forgotten in its slot, whatever the delays and whenever they *)
(* and the switch are changed (de_tick).                                    *)
THEOREM NoneForgotten == Spec => []NothingOverdue
<1>1. IInv => NothingOverdue
  BY DEF IInv
<1> QED BY <1>1, Invariance, PTL

(* A waiting frame is repeated when it is due, or displaced from a full     *)
(* queue when no other is due earlier (de_check_and_queue, de_tick).        *)
THEOREM TurnsKept == Spec => LeavesInTurn
<1> DEFINE Turn == \A s \in Waiting : queue'[s] # queue[s] =>
                     \/ ticking /\ queue[s].due <= now
                     \/ Free = {} /\ \A t \in Queue : queue[s].due <= queue[t].due
<1>1. IInv /\ [Next]_vars => [Turn]_vars
  <2> SUFFICES ASSUME IInv, Next, NEW s \in Waiting, queue'[s] # queue[s]
               PROVE  \/ ticking /\ queue[s].due <= now
                      \/ Free = {} /\ \A t \in Queue : queue[s].due <= queue[t].due
    OBVIOUS
  <2>0. TypeOK /\ s \in Queue
    BY DEF IInv, Waiting
  <2>1. ASSUME NEW f \in Frames, Hear(f)
        PROVE  Free = {} /\ \A t \in Queue : queue[s].due <= queue[t].due
    <3>1. s = First(Targets)
      BY <2>0, <2>1 DEF Hear, TypeOK
    <3> QED BY <2>0, <3>1, TargetChosen
  <2>2. CASE Command
    BY <2>0, <2>2, CommandKeeps
  <2>3. ASSUME NEW delta \in Deltas, BeginTick(delta) PROVE FALSE
    BY <2>3 DEF BeginTick
  <2>4. CASE RepeatTick
    <3>1. s \in Due
      BY <2>0, <2>4 DEF RepeatTick
    <3>2. now >= queue[s].due /\ now \in Nat /\ queue[s].due \in Nat
      BY <2>0, <3>1 DEF Due, TypeOK
    <3> QED BY <2>4, <3>2 DEF RepeatTick
  <2> QED BY <2>1, <2>2, <2>3, <2>4 DEF Next
<1>2. Spec => [][Turn]_vars
  BY <1>1, Invariance, PTL DEF Spec
<1> QED BY <1>2 DEF LeavesInTurn

(* A digipeater that is switched off repeats nothing (de_set_enabled).      *)
THEOREM OffIsSilent == Spec => SilentWhenOff
<1> DEFINE Silent == ~enabled => queue' = queue
<1>1. IInv /\ [Next]_vars => [Silent]_vars
  <2> SUFFICES ASSUME IInv, Next, ~enabled PROVE queue' = queue
    OBVIOUS
  <2>0. TypeOK
    BY DEF IInv
  <2>1. ASSUME NEW f \in Frames, Hear(f) PROVE FALSE
    BY <2>1 DEF Hear
  <2>2. CASE Command
    BY <2>0, <2>2, CommandKeeps
  <2>3. ASSUME NEW delta \in Deltas, BeginTick(delta) PROVE queue' = queue
    BY <2>3 DEF BeginTick
  <2>4. CASE RepeatTick
    <3>1. Due = {}
      BY DEF Due
    <3>2. queue' = [s \in Queue |-> queue[s]]
      BY <2>4, <3>1 DEF RepeatTick
    <3> QED BY <2>0, <3>2 DEF TypeOK
  <2> QED BY <2>1, <2>2, <2>3, <2>4 DEF Next
<1>2. Spec => [][Silent]_vars
  BY <1>1, Invariance, PTL DEF Spec
<1> QED BY <1>2 DEF SilentWhenOff
=============================================================================
