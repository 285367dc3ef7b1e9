-------------------------------- MODULE Beacon --------------------------------
(***************************************************************************)
(* The beacon manager (engine/src/beacon_manager.c): when a beacon is due, *)
(* at a fixed interval or one that follows the speed, which of the enabled *)
(* paths and status texts it takes, and the early repetition of a beacon   *)
(* no digipeater was heard to repeat (digisens).                           *)
(*                                                                         *)
(* Time is counted in units of 15 seconds, the wait before a repetition.   *)
(* next_beacon_time_ms and last_beacon_sent_ms are kept relative to the    *)
(* clock: what the code asks is whether the one has come and whether a     *)
(* unit has passed since the other.                                        *)
(* Commands run inside a tick, after the clock advanced (engine_process_-  *)
(* commands); the beacon tick follows the GPS tick.                        *)
(***************************************************************************)
EXTENDS Gps

CONSTANTS
  Paths,        \* number of path slots (MAX_PATHS)
  Texts,        \* number of status texts (MAX_STATUS_TEXTS)
  Delays,       \* beacon_delay_sec a client sets, in units
  PathCommands, \* what SELECT_PATH asks for: <<slot, on>>
  TextCommands, \* what SELECT_STATUS asks for: <<slot, on>>
  Locks,        \* what LOCK_TX and its relatives ask for: <<tx, bcn>>
  FactoryDelay, \* beacon_delay_sec after a factory reset (600 s), in units
  SmartFloor,   \* the shortest smart interval (30 s), in units
  SmartScale,   \* speed times smart interval (3600 s km/h), in units
  Files         \* configurations saved earlier: [tx, bcn, auto, sens, delay, pathOn, textOn]

ASSUME BeaconAssumption ==
  /\ Paths \in Nat \ {0}
  /\ Texts \in Nat \ {0}
  /\ Delays \cup {FactoryDelay, SmartFloor, SmartScale} \subseteq Nat
  /\ PathCommands \subseteq (0 .. Paths - 1) \X BOOLEAN
  /\ TextCommands \subseteq (0 .. Texts - 1) \X BOOLEAN
  /\ Locks \subseteq BOOLEAN \X BOOLEAN

ASSUME FileAssumption ==
  Files \subseteq [tx : BOOLEAN, bcn : BOOLEAN, auto : BOOLEAN, sens : BOOLEAN, delay : Nat,
                   pathOn : SUBSET (0 .. Paths - 1), textOn : SUBSET (0 .. Texts - 1)]

PathSlots == 0 .. Paths - 1
TextSlots == 0 .. Texts - 1

VARIABLES
  tx,         \* e->config.tx_enabled
  bcn,        \* e->config.beacon_enabled
  auto,       \* e->beacon_auto_enabled
  smart,      \* e->beacon_auto_smart
  sens,       \* e->beacon_digi_sensitivity
  delay,      \* e->beacon_delay_sec
  pathOn,     \* paths[].enabled
  pathIdx,    \* current_path_idx
  textOn,     \* status_texts[].enabled
  textIdx,    \* current_status_idx
  untilNext,  \* units until next_beacon_time_ms, 0 when it has come
  waited,     \* a unit has passed since last_beacon_sent_ms
  pending,    \* digisens_retry_pending
  repeated,   \* history: a digipeater repeated the last beacon
  ticking     \* inside aprs_engine_tick, before bm_tick

schedule == <<untilNext, waited, pending, repeated, pathIdx, textIdx>>
switches == <<tx, bcn, auto, smart, sens, delay, pathOn, textOn>>
vars == <<gpsVars, schedule, switches, ticking>>

Init ==
  /\ GpsInit
  /\ tx = TRUE /\ bcn = TRUE /\ auto = TRUE
  /\ smart = FALSE /\ sens = FALSE
  /\ delay = FactoryDelay
  /\ pathOn = {0} /\ pathIdx = 0
  /\ textOn = {0} /\ textIdx = 0
  /\ untilNext = FactoryDelay
  /\ waited = TRUE
  /\ pending = FALSE /\ repeated = FALSE
  /\ ticking = FALSE

-----------------------------------------------------------------------------
AtLeast(a, b) == IF a < b THEN b ELSE a
AtMost(a, b) == IF a > b THEN b ELSE a

(* bm_compute_smart_interval: the speed counts even when the fix is lost,   *)
(* for the position stays valid.                                            *)
SmartInterval(d) ==
  LET longest == AtLeast(d, SmartFloor) IN
  IF ~gps.valid \/ gps.speed < 5 THEN longest
  ELSE IF gps.speed > 110 THEN SmartFloor
  ELSE AtMost(AtLeast(SmartScale \div gps.speed, SmartFloor), longest)

Interval == IF smart THEN SmartInterval(delay) ELSE delay

(* Mutants: the index is not wrapped; the rotation looks at the current slot *)
(* first.                                                                    *)
RotatedUnwrapped(idx, n, on) == idx + 1
RotatedStays(idx, n, on) == IF idx \in on THEN idx ELSE (idx + 1) % n

(* bm_rotate_path, bm_rotate_status: the next enabled slot, round the ring; *)
(* with none enabled the index comes round to itself.                       *)
Rotated(idx, n, on) ==
  LET enabled == {k \in 1 .. n : (idx + k) % n \in on}
      step    == IF enabled = {} THEN n ELSE CHOOSE k \in enabled : \A l \in enabled : k <= l
  IN (idx + step) % n

(* bm_send_beacon when nothing forbids it. *)
Send ==
  /\ pathIdx' = Rotated(pathIdx, Paths, pathOn)
  /\ textIdx' = Rotated(textIdx, Texts, textOn)
  /\ waited' = FALSE
  /\ untilNext' = Interval
  /\ pending' = (pending \/ sens)
  /\ repeated' = FALSE

-----------------------------------------------------------------------------
(* The clock advances by nothing or by one unit. *)
BeginTick(passed) ==
  /\ ~ticking
  /\ ticking' = TRUE
  /\ untilNext' = IF untilNext > passed THEN untilNext - passed ELSE 0
  /\ waited' = (waited \/ passed > 0)
  /\ UNCHANGED <<gpsVars, switches, pending, repeated, pathIdx, textIdx>>

(* bm_set_delay: the next beacon is a whole delay away. *)
SetDelay(d) ==
  /\ ticking
  /\ delay' = d
  /\ untilNext' = d
  /\ UNCHANGED <<gpsVars, tx, bcn, auto, smart, sens, pathOn, textOn>>
  /\ UNCHANGED <<waited, pending, repeated, pathIdx, textIdx, ticking>>

(* bm_set_auto_mode, which the API calls directly, in or out of a tick. *)
SetAutoMode(on) ==
  /\ smart' = on
  /\ auto' = TRUE
  /\ untilNext' = IF on THEN SmartInterval(delay) ELSE delay
  /\ UNCHANGED <<gpsVars, tx, bcn, sens, delay, pathOn, textOn>>
  /\ UNCHANGED <<waited, pending, repeated, pathIdx, textIdx, ticking>>

(* bm_select_path, bm_select_status: the bit of path_use is its double. *)
SelectPath(p, on) ==
  /\ ticking
  /\ pathOn' = IF on THEN pathOn \cup {p} ELSE pathOn \ {p}
  /\ UNCHANGED <<gpsVars, schedule, tx, bcn, auto, smart, sens, delay, textOn, ticking>>

SelectText(t, on) ==
  /\ ticking
  /\ textOn' = IF on THEN textOn \cup {t} ELSE textOn \ {t}
  /\ UNCHANGED <<gpsVars, schedule, tx, bcn, auto, smart, sens, delay, pathOn, ticking>>

(* LOCK_TX, SET_CONFIG and the remote commands TXOFF and TXON. *)
Lock(sending, beaconing) ==
  /\ ticking
  /\ tx' = sending
  /\ bcn' = beaconing
  /\ UNCHANGED <<gpsVars, schedule, auto, smart, sens, delay, pathOn, textOn, ticking>>

(* SEND_BEACON and the remote command BEACON. *)
SendBeacon ==
  /\ ticking
  /\ tx /\ bcn
  /\ Send
  /\ UNCHANGED <<gpsVars, switches, ticking>>

(* cp_load: the smart mode is not in the file, and the time of the next     *)
(* beacon is not computed again.                                            *)
LoadConfig(f) ==
  /\ ticking
  /\ tx' = f.tx /\ bcn' = f.bcn
  /\ auto' = f.auto /\ sens' = f.sens
  /\ delay' = f.delay
  /\ pathOn' = f.pathOn /\ textOn' = f.textOn
  /\ UNCHANGED <<gpsVars, schedule, smart, ticking>>

(* cp_reset_factory: smart mode and sensitivity stay. *)
FactoryReset ==
  /\ ticking
  /\ tx' = TRUE /\ bcn' = TRUE /\ auto' = TRUE
  /\ delay' = FactoryDelay
  /\ untilNext' = FactoryDelay
  /\ pathOn' = {0} /\ textOn' = {0}
  /\ UNCHANGED <<gpsVars, smart, sens, waited, pending, repeated, pathIdx, textIdx, ticking>>

PushNmea(pushed) ==
  /\ ticking
  /\ Push(pushed)
  /\ UNCHANGED <<schedule, switches, ticking>>

(* Mutant: the repetition heard is only listed. *)
HearOwnListed ==
  /\ ~ticking
  /\ repeated' = TRUE
  /\ UNCHANGED <<gpsVars, switches, untilNext, waited, pending, pathIdx, textIdx, ticking>>

(* de_check_own_digi: a frame of our own with a used digipeater in its path. *)
HearOwn ==
  /\ ~ticking
  /\ pending' = FALSE
  /\ repeated' = TRUE
  /\ UNCHANGED <<gpsVars, switches, untilNext, waited, pathIdx, textIdx, ticking>>

Early == pending /\ sens /\ waited
Due == auto /\ tx /\ bcn /\ (Early \/ untilNext = 0)

(* gm_tick, then bm_tick. *)
EndTick ==
  /\ ticking
  /\ ticking' = FALSE
  /\ GpsTick
  /\ IF Due THEN Send ELSE UNCHANGED schedule
  /\ UNCHANGED switches

-----------------------------------------------------------------------------
Command ==
  \/ \E d \in Delays : SetDelay(d)
  \/ \E c \in PathCommands : SelectPath(c[1], c[2])
  \/ \E c \in TextCommands : SelectText(c[1], c[2])
  \/ \E c \in Locks : Lock(c[1], c[2])
  \/ SendBeacon
  \/ \E f \in Files : LoadConfig(f)
  \/ FactoryReset
  \/ \E pushed \in Parsed(Sentences) : PushNmea(pushed)

Next ==
  \/ \E passed \in 0 .. 1 : BeginTick(passed)
  \/ Command
  \/ \E on \in BOOLEAN : SetAutoMode(on)
  \/ HearOwn
  \/ EndTick

Spec == Init /\ [][Next]_vars

(* The host ticks in its main loop, and its clock advances. *)
FairSpec ==
  /\ Spec
  /\ WF_vars(EndTick)
  /\ SF_vars(BeginTick(1))

-----------------------------------------------------------------------------
TypeOK ==
  /\ GpsTypeOK
  /\ {tx, bcn, auto, smart, sens, waited, pending, repeated, ticking} \subseteq BOOLEAN
  /\ delay \in Nat /\ untilNext \in Nat
  /\ pathOn \subseteq PathSlots /\ textOn \subseteq TextSlots
  /\ pathIdx \in PathSlots /\ textIdx \in TextSlots

(* Once a digipeater was heard to repeat the last beacon, the next one      *)
(* waits for its time, whatever was switched, loaded or sent by hand        *)
(* between (digisens_retry_pending).                                        *)
RetryStops ==
  [][EndTick /\ repeated /\ untilNext > 0 => UNCHANGED <<waited, untilNext>>]_vars

Sending == (EndTick /\ Due) \/ SendBeacon

(* Neither a command nor a configuration moves the beacon's time any more. *)
Undisturbed ==
  /\ <>[](auto /\ tx /\ bcn)
  /\ <>[][/\ \A d \in Delays : ~SetDelay(d)
          /\ \A on \in BOOLEAN : ~SetAutoMode(on)
          /\ ~FactoryReset]_vars

(* With automatic beacons on, the station is announced for ever, at fixed   *)
(* or speed-dependent intervals and through every loss of the fix, and no   *)
(* enabled path is left out of the rotation (bm_tick, bm_rotate_path).      *)
EveryPathUsed ==
  Undisturbed =>
    /\ []<><<Sending>>_vars
    /\ \A p \in PathSlots :
         <>[](p \in pathOn) => []<><<Sending /\ pathIdx' = p>>_vars
=============================================================================
