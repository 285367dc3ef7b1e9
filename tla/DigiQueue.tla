------------------------------ MODULE DigiQueue ------------------------------
(***************************************************************************)
(* The repeat queue of the digipeater (engine/src/digi_engine.c): a frame  *)
(* whose path names one of our aliases waits in digi_queue[] for the       *)
(* repeat delay and is then put on the air again.                          *)
(*                                                                         *)
(* Frames are heard between ticks (de_check_and_queue, the last step of    *)
(* engine_dispatch_frame).  A tick advances the clock, executes commands   *)
(* and then repeats what is due (de_tick).                                 *)
(*                                                                         *)
(* A frame is a value; of its text the steps only use whether an alias     *)
(* selects it (`selected') and whether its 8-bit CRC is zero (`ZeroCrc').  *)
(* digi_queue_count is left out: it is written, and read nowhere.          *)
(***************************************************************************)
EXTENDS Slots

CONSTANTS
  QueueSize,       \* slots (MAX_DIGI_QUEUE)
  Frames,          \* the frames heard
  ZeroCrc,         \* those whose CRC is 0
  NoFrame,         \* content of a slot never used
  FactorySelected, \* the frames the factory alias selects
  DupeInputs,      \* duplicate times a client sets
  DelayInputs,     \* repeat delays a client sets
  FactoryDupe,     \* digi_dupe_time_sec after a factory reset
  FactoryDelay,    \* digi_dupe_delay_sec after a factory reset
  Deltas,          \* clock advance of one tick
  MaxTime,         \* bound: the clock
  LastInput        \* bound: no frame is heard and no command executed later

ASSUME SizeAssumption == QueueSize \in Nat \ {0}
ASSUME FrameAssumption ==
  /\ ZeroCrc \subseteq Frames
  /\ FactorySelected \subseteq Frames
  /\ NoFrame \notin Frames
ASSUME TimeAssumption ==
  /\ DupeInputs \cup {FactoryDupe} \subseteq Nat
  /\ DelayInputs \cup {FactoryDelay} \subseteq Nat
  /\ Deltas \subseteq Nat
  /\ MaxTime \in Nat
  /\ LastInput \in Nat

VARIABLES
  queue,     \* e->digi_queue: status, frame and repeat time of each slot
  enabled,   \* e->config.digi_enabled
  selected,  \* the frames e->aliases select
  dupeTime,  \* e->digi_dupe_time_sec
  delay,     \* e->digi_dupe_delay_sec
  now,       \* e->current_time_ms
  ticking    \* inside aprs_engine_tick, before de_tick

vars == <<queue, enabled, selected, dupeTime, delay, now, ticking>>
settings == <<enabled, selected, dupeTime, delay>>

Queue == Indices(QueueSize)
FreeSlot == [status |-> "free", frame |-> NoFrame, due |-> 0]

Waiting == {s \in Queue : queue[s].status = "waiting"}
Free == Queue \ Waiting
DueTimes == [s \in Queue |-> queue[s].due]

Init ==
  /\ queue = [s \in Queue |-> FreeSlot]
  /\ enabled \in BOOLEAN
  /\ selected = FactorySelected
  /\ dupeTime = FactoryDupe
  /\ delay = FactoryDelay
  /\ now = 0
  /\ ticking = FALSE

-----------------------------------------------------------------------------
(* de_is_duplicate: the entry must have the frame's CRC both as its crc and *)
(* as its station_id, which is always 0.  The time since the repeat time is *)
(* unsigned, so an entry that is not due yet is never recent.               *)
Duplicate(f) ==
  /\ f \in ZeroCrc
  /\ \E s \in Waiting : /\ queue[s].frame \in ZeroCrc
                        /\ queue[s].due <= now
                        /\ now - queue[s].due < dupeTime

(* Mutant: a full queue gives up its first entry. *)
TargetsFirst == IF Free # {} THEN Free ELSE Waiting

(* The slot for a frame: a free one, else the one that is due first. *)
Targets == IF Free # {} THEN Free ELSE Least(DueTimes, Waiting)

(* de_check_and_queue. *)
Hear(f) ==
  /\ ~ticking
  /\ now <= LastInput
  /\ enabled
  /\ f \in selected
  /\ ~Duplicate(f)
  /\ queue' = [queue EXCEPT ![First(Targets)] =
                 [status |-> "waiting", frame |-> f, due |-> now + delay]]
  /\ UNCHANGED <<settings, now, ticking>>

-----------------------------------------------------------------------------
InCommands == ticking /\ now <= LastInput

(* de_set_enabled, the digi flag of the TX lock and that of a configuration *)
(* set as a whole: what waits keeps waiting.                                *)
SetEnabled(on) ==
  /\ InCommands
  /\ enabled' = on
  /\ UNCHANGED <<queue, selected, dupeTime, delay, now, ticking>>

(* de_set_alias: one alias slot is redefined, which changes the frames the  *)
(* aliases select but none that waits already.                              *)
SetAlias(frames) ==
  /\ InCommands
  /\ selected' = frames
  /\ UNCHANGED <<queue, enabled, dupeTime, delay, now, ticking>>

SetTiming(dupe, wait) ==
  /\ InCommands
  /\ dupeTime' = dupe
  /\ delay' = wait
  /\ UNCHANGED <<queue, enabled, selected, now, ticking>>

(* cp_reset_factory. *)
FactoryReset ==
  /\ InCommands
  /\ enabled' = TRUE
  /\ selected' = FactorySelected
  /\ dupeTime' = FactoryDupe
  /\ delay' = FactoryDelay
  /\ UNCHANGED <<queue, now, ticking>>

(* cp_load: the settings of a file some engine saved earlier. *)
LoadConfig(on, frames, dupe, wait) ==
  /\ InCommands
  /\ enabled' = on
  /\ selected' = frames
  /\ dupeTime' = dupe
  /\ delay' = wait
  /\ UNCHANGED <<queue, now, ticking>>

-----------------------------------------------------------------------------
BeginTick(delta) ==
  /\ ~ticking
  /\ now + delta <= MaxTime
  /\ now' = now + delta
  /\ ticking' = TRUE
  /\ UNCHANGED <<queue, settings>>

(* Mutants: de_tick does not look at the switch; it serves one frame a tick. *)
DueAlways == {s \in Waiting : now >= queue[s].due}
DueFirst == {s \in Waiting : enabled /\ now >= queue[s].due /\ s = First(Waiting)}

Due == {s \in Waiting : enabled /\ now >= queue[s].due}

(* Mutant: a repeated frame is marked, and its slot never freed. *)
RepeatTickMarks ==
  /\ ticking
  /\ ticking' = FALSE
  /\ queue' = [s \in Queue |-> IF s \in Due
                                 THEN [status |-> "repeated",
                                       frame  |-> queue[s].frame,
                                       due    |-> queue[s].due]
                                 ELSE queue[s]]
  /\ UNCHANGED <<settings, now>>

(* de_tick: every frame that is due is repeated and its slot freed. *)
RepeatTick ==
  /\ ticking
  /\ ticking' = FALSE
  /\ queue' = [s \in Queue |-> IF s \in Due
                                 THEN [status |-> "free",
                                       frame  |-> queue[s].frame,
                                       due    |-> queue[s].due]
                                 ELSE queue[s]]
  /\ UNCHANGED <<settings, now>>

-----------------------------------------------------------------------------
Command ==
  \/ \E on \in BOOLEAN : SetEnabled(on)
  \/ \E frames \in SUBSET Frames : SetAlias(frames)
  \/ \E dupe \in DupeInputs, wait \in DelayInputs : SetTiming(dupe, wait)
  \/ FactoryReset
  \/ \E on \in BOOLEAN, frames \in SUBSET Frames, dupe \in DupeInputs, wait \in DelayInputs :
       LoadConfig(on, frames, dupe, wait)

Next ==
  \/ \E f \in Frames : Hear(f)
  \/ Command
  \/ \E delta \in Deltas : BeginTick(delta)
  \/ RepeatTick

Spec == Init /\ [][Next]_vars

(* The host ticks the engine in its main loop. *)
FairSpec ==
  /\ Spec
  /\ WF_vars(RepeatTick)
  /\ \A delta \in Deltas \ {0} : WF_vars(BeginTick(delta))

-----------------------------------------------------------------------------
(* The type of the state. *)
TypeOK ==
  /\ queue \in [Queue -> [status : {"free", "waiting"}, frame : Frames \cup {NoFrame}, due : Nat]]
  /\ enabled \in BOOLEAN
  /\ selected \subseteq Frames
  /\ dupeTime \in Nat
  /\ delay \in Nat
  /\ now \in Nat
  /\ ticking \in BOOLEAN

(* After the repeat pass of an enabled digipeater nothing is overdue: no    *)
(* frame is forgotten in its slot, however the switch and the delays were   *)
(* changed while it waited (de_tick).                                       *)
NothingOverdue ==
  ~ticking /\ enabled => \A s \in Waiting : now <= queue[s].due

(* A waiting frame leaves its slot in two ways only: it is repeated, not    *)
(* before its time; or the queue is full and no other frame is due earlier. *)
LeavesInTurn ==
  [][\A s \in Waiting : queue'[s] # queue[s] =>
       \/ ticking /\ queue[s].due <= now
       \/ Free = {} /\ \A t \in Queue : queue[s].due <= queue[t].due]_vars

(* While the digipeater is switched off nothing is repeated: from the moment *)
(* the command is executed (SET_DIGI_ENABLED, LOCK_TX) the queue is frozen.  *)
SilentWhenOff == [][~enabled => queue' = queue]_vars

(* A frame that waits is repeated, or gives its slot to another frame,      *)
(* unless the digipeater is switched off.                                   *)
WaitingServed ==
  \A s \in Queue, f \in Frames :
    (queue[s].status = "waiting" /\ queue[s].frame = f) ~>
      (queue[s].status = "free" \/ queue[s].frame # f \/ ~enabled)
=============================================================================
