----------------------------- MODULE BeaconProofs -----------------------------
(***************************************************************************)
(* The GPS receiver and the beacon's schedule for every number of paths    *)
(* and texts, every delay and every life of a fix.                         *)
(***************************************************************************)
EXTENDS Beacon, SlotsProofs

(* A sentence says nothing, or gives a place, or a speed. *)
LEMMA SentenceKinds ==
  ASSUME NEW s \in Sentences
  PROVE  \/ s.fixed = FALSE /\ s.active = FALSE
         \/ s.fixed = TRUE /\ s.active = FALSE /\ s.place \in Places
         \/ s.fixed = FALSE /\ s.active = TRUE /\ s.speed \in Speeds
<1>1. CASE s = NoSentence
  BY <1>1 DEF NoSentence
<1>2. ASSUME NEW p \in Places, s = GGA(p)
      PROVE  s.fixed = TRUE /\ s.active = FALSE /\ s.place \in Places
  BY <1>2 DEF GGA, NoSentence
<1>3. ASSUME NEW v \in Speeds, s = RMC(v)
      PROVE  s.fixed = FALSE /\ s.active = TRUE /\ s.speed \in Speeds
  BY <1>3 DEF RMC, NoSentence
<1> QED BY <1>1, <1>2, <1>3 DEF Sentences

GpsRecord == [valid : BOOLEAN, fix : BOOLEAN, place : Places \cup {NoPlace},
              speed : Speeds \cup {0}]

GpsInv == GpsTypeOK /\ FixMatchesCounter

(* The receiver in its three states: with a fix, without, before the first. *)
Receiver ==
  /\ parser \in Sentences
  /\ gps \in GpsRecord
  /\ \/ gps.fix = TRUE /\ gps.valid = TRUE /\ gps.place # NoPlace /\ fixCounter \in 1 .. FixTicks
     \/ gps.fix = FALSE /\ fixCounter = 0 /\ gps.valid = TRUE /\ gps.place # NoPlace
     \/ gps.fix = FALSE /\ fixCounter = 0 /\ gps.valid = FALSE /\ gps.place = NoPlace

(* The receiver is in one of two states, with a fix or without. *)
LEMMA States == GpsInv <=> Receiver
<1>1. gps \in GpsRecord => gps.fix \in BOOLEAN /\ gps.valid \in BOOLEAN
  BY DEF GpsRecord
<1>2. /\ FixTicks \in Nat \ {0}
      /\ fixCounter \in 0 .. FixTicks <=> (fixCounter = 0 \/ fixCounter \in 1 .. FixTicks)
      /\ fixCounter \in 1 .. FixTicks => fixCounter > 0
      /\ fixCounter = 0 => ~(fixCounter > 0)
  BY GpsAssumption
<1> QED BY <1>1, <1>2, Zenon DEF Receiver, GpsInv, GpsTypeOK, FixMatchesCounter, GpsRecord

(* The same of the next state. *)
LEMMA StatesNext == GpsInv' <=> Receiver'
BY States, PTL

(* A new engine has no fix and no position (gm_init). *)
LEMMA GpsInitially == GpsInit => GpsInv
<1> SUFFICES ASSUME GpsInit PROVE GpsInv
  OBVIOUS
<1>1. parser \in Sentences
  BY DEF GpsInit, Sentences
<1>2. gps = [valid |-> FALSE, fix |-> FALSE, place |-> NoPlace, speed |-> 0] /\ fixCounter = 0
  BY DEF GpsInit
<1>3. gps \in GpsRecord /\ gps.fix = FALSE /\ gps.valid = FALSE /\ gps.place = NoPlace
  BY <1>2 DEF GpsRecord
<1> QED BY <1>1, <1>2, <1>3, States DEF Receiver

(* A pushed string: only a completed sentence with a fix starts the counter. *)
LEMMA PushKeeps ==
  ASSUME GpsInv, NEW pushed \in Parsed(Sentences), Push(pushed)
  PROVE  GpsInv'
<1>1. parser \in Sentences /\ gps \in GpsRecord
  BY States DEF Receiver
<1> DEFINE s == pushed.fields
<1>2. s \in Sentences
  BY <1>1 DEF Parsed
<1>3. /\ parser' = s
      /\ gps' = IF pushed.ended THEN Applied(s) ELSE gps
      /\ fixCounter' = IF pushed.ended /\ s.fixed THEN FixTicks ELSE fixCounter
  BY DEF Push
<1> HIDE DEF s
<1>4. CASE ~pushed.ended
  BY <1>1, <1>2, <1>3, <1>4, States, StatesNext DEF Receiver
<1>5. CASE pushed.ended
  <2>1. gps' = [valid |-> gps.valid \/ s.fixed, fix |-> gps.fix \/ s.fixed,
                place |-> IF s.fixed THEN s.place ELSE gps.place,
                speed |-> IF s.active THEN s.speed ELSE gps.speed]
    BY <1>3, <1>5 DEF Applied
  <2>2. CASE s.fixed = TRUE /\ s.active = FALSE /\ s.place \in Places
    <3>1. gps' = [valid |-> TRUE, fix |-> TRUE, place |-> s.place, speed |-> gps.speed]
      BY <2>1, <2>2
    <3>2. fixCounter' = FixTicks /\ FixTicks \in 1 .. FixTicks /\ s.place # NoPlace
      BY <1>3, <1>5, <2>2, GpsAssumption
    <3>3. gps' \in GpsRecord
      BY <1>1, <2>2, <3>1 DEF GpsRecord
    <3>4. gps'.fix = TRUE /\ gps'.valid = TRUE /\ gps'.place # NoPlace
      BY <3>1, <3>2
    <3> QED BY <1>2, <1>3, <3>2, <3>3, <3>4, StatesNext DEF Receiver
  <2>3. CASE s.fixed = FALSE /\ s.active = FALSE
    <3>1. gps' = gps /\ fixCounter' = fixCounter
      BY <1>1, <1>3, <2>1, <2>3 DEF GpsRecord
    <3> QED BY <1>2, <1>3, <3>1, States, StatesNext DEF Receiver
  <2>4. CASE s.fixed = FALSE /\ s.active = TRUE /\ s.speed \in Speeds
    <3>1. gps' = [gps EXCEPT !.speed = s.speed] /\ fixCounter' = fixCounter
      BY <1>1, <1>3, <2>1, <2>4 DEF GpsRecord
    <3> QED BY <1>1, <1>2, <1>3, <2>4, <3>1, States, StatesNext DEF Receiver, GpsRecord
  <2> QED BY <1>2, <2>2, <2>3, <2>4, SentenceKinds
<1> QED BY <1>4, <1>5

(* The tick in which the counter reaches zero clears the flag. *)
LEMMA GpsTickKeeps ==
  ASSUME GpsInv, GpsTick
  PROVE  GpsInv'
<1>1. /\ fixCounter' = IF fixCounter > 0 THEN fixCounter - 1 ELSE 0
      /\ gps' = IF fixCounter = 1 THEN [gps EXCEPT !.fix = FALSE] ELSE gps
      /\ parser' = parser
  BY DEF GpsTick
<1>2. CASE fixCounter = 0
  BY <1>1, <1>2, States, StatesNext DEF Receiver
<1>3. CASE fixCounter = 1
  <2>1. /\ gps \in GpsRecord /\ parser \in Sentences
        /\ gps.fix = TRUE /\ gps.valid = TRUE /\ gps.place # NoPlace
    BY <1>3, States DEF Receiver
  <2>2. gps' = [gps EXCEPT !.fix = FALSE] /\ fixCounter' = 0
    BY <1>1, <1>3
  <2> QED BY <1>1, <2>1, <2>2, StatesNext DEF Receiver, GpsRecord
<1>4. CASE fixCounter \in 2 .. FixTicks
  <2>1. gps' = gps /\ fixCounter' = fixCounter - 1 /\ fixCounter' \in 1 .. FixTicks
    BY <1>1, <1>4, GpsAssumption
  <2>2. /\ gps \in GpsRecord /\ parser \in Sentences
        /\ gps.fix = TRUE /\ gps.valid = TRUE /\ gps.place # NoPlace
    BY <1>4, States DEF Receiver
  <2> QED BY <1>1, <2>1, <2>2, StatesNext DEF Receiver
<1>5. fixCounter = 0 \/ fixCounter = 1 \/ fixCounter \in 2 .. FixTicks
  <2>1. fixCounter = 0 \/ fixCounter \in 1 .. FixTicks
    BY States DEF Receiver
  <2> QED BY <2>1, GpsAssumption
<1> QED BY <1>2, <1>3, <1>4, <1>5

-----------------------------------------------------------------------------
(* The rotation stays on the ring, and with a slot enabled it ends at an    *)
(* enabled one (bm_rotate_path, bm_rotate_status).                          *)
LEMMA Around ==
  ASSUME NEW n \in Nat \ {0}, NEW a \in Nat, a < n + n
  PROVE  a % n = IF a < n THEN a ELSE a - n
<1>1. CASE a < n
  BY <1>1, SMT
<1>2. CASE a >= n
  BY <1>2, SMT
<1> QED BY <1>1, <1>2

(* The rotation stays in its table, and comes to an enabled slot if there is one (bm_rotate_path). *)
LEMMA RotationEnds ==
  ASSUME NEW n \in Nat \ {0}, NEW idx \in 0 .. n - 1, NEW on \in SUBSET (0 .. n - 1)
  PROVE  /\ Rotated(idx, n, on) \in 0 .. n - 1
         /\ on # {} => Rotated(idx, n, on) \in on
         /\ on = {} => Rotated(idx, n, on) = idx
<1> DEFINE reached == {k \in 1 .. n : (idx + k) % n \in on}
           least == CHOOSE k \in reached : \A l \in reached : k <= l
<1>1. Rotated(idx, n, on) = (idx + (IF reached = {} THEN n ELSE least)) % n
  BY DEF Rotated
<1>2. ASSUME NEW k \in 1 .. n
      PROVE  (idx + k) % n = (IF idx + k < n THEN idx + k ELSE idx + k - n)
  <2> DEFINE a == idx + k
  <2>1. n \in Nat \ {0} /\ a \in Nat /\ a < n + n
    OBVIOUS
  <2> HIDE DEF a, reached, least
  <2>2. a % n = IF a < n THEN a ELSE a - n
    BY <2>1, Around
  <2> QED BY <2>2 DEF a
<1>3. CASE on = {}
  <2>1. reached = {}
    BY <1>3
  <2>2. Rotated(idx, n, on) = (idx + n) % n
    BY <1>1, <2>1
  <2>3. (idx + n) % n = idx
    BY <1>2
  <2> QED BY <1>3, <2>2, <2>3
<1>4. CASE on # {}
  <2>1. PICK p \in on : TRUE
    BY <1>4
  <2>2. \E k \in 1 .. n : (idx + k) % n = p
    <3>1. CASE p > idx
      <4>1. p - idx \in 1 .. n /\ idx + (p - idx) = p /\ p < n
        BY <2>1, <3>1
      <4> QED BY <1>2, <4>1
    <3>2. CASE p <= idx
      <4>1. p + n - idx \in 1 .. n /\ idx + (p + n - idx) = p + n /\ ~(p + n < n)
        BY <2>1, <3>2
      <4>2. (idx + (p + n - idx)) % n = p + n - n
        BY <1>2, <4>1
      <4>3. p + n - n = p
        BY <2>1
      <4> QED BY <4>1, <4>2, <4>3, Zenon
    <3>3. p \in 0 .. n - 1
      BY <2>1
    <3>4. p > idx \/ p <= idx
      BY <3>3
    <3> QED BY <3>1, <3>2, <3>4
  <2>3. reached # {} /\ reached \in SUBSET Nat
    <3>1. PICK k \in 1 .. n : (idx + k) % n = p
      BY <2>2
    <3>2. k \in reached
      BY <2>1, <3>1
    <3>3. reached \subseteq 1 .. n /\ 1 .. n \subseteq Nat
      OBVIOUS
    <3> QED BY <3>2, <3>3, Zenon
  <2>4. \E k \in reached : \A l \in reached : k <= l
    BY <2>3, LeastNatural
  <2>5. least \in reached
    BY <2>4
  <2>6. Rotated(idx, n, on) = (idx + least) % n
    BY <1>1, <2>3
  <2>7. (idx + least) % n \in on
    BY <2>5
  <2> QED BY <1>4, <2>6, <2>7
<1> QED BY <1>3, <1>4

(* Every interval is a number of units. *)
LEMMA IntervalNat ==
  ASSUME GpsInv, NEW d \in Nat
  PROVE  SmartInterval(d) \in Nat
<1>1. gps.speed \in Nat /\ SmartFloor \in Nat /\ SmartScale \in Nat
  <2>1. gps.speed \in Speeds \cup {0}
    BY States DEF Receiver, GpsRecord
  <2>2. \A v \in Speeds \cup {0} : v \in Nat
    BY GpsAssumption
  <2>4. gps.speed \in Nat
    BY <2>1, <2>2, Zenon
  <2>3. SmartFloor \in Nat /\ SmartScale \in Nat
    BY BeaconAssumption, Zenon
  <2> QED BY <2>3, <2>4
<1>2. AtLeast(d, SmartFloor) \in Nat
  BY <1>1 DEF AtLeast
<1>3. gps.speed >= 5 => SmartScale \div gps.speed \in Nat
  BY <1>1
<1>4. gps.speed >= 5 =>
        AtMost(AtLeast(SmartScale \div gps.speed, SmartFloor), AtLeast(d, SmartFloor)) \in Nat
  BY <1>1, <1>2, <1>3 DEF AtMost, AtLeast
<1>5. gps.speed < 5 \/ gps.speed >= 5
  BY <1>1
<1> QED BY <1>1, <1>2, <1>4, <1>5 DEF SmartInterval

-----------------------------------------------------------------------------
(* What the schedule counts, what it switches, and the strengthening that   *)
(* RetryStops needs: a repetition that was heard leaves nothing pending.    *)
Numbers ==
  /\ delay \in Nat /\ untilNext \in Nat
  /\ pathOn \subseteq PathSlots /\ textOn \subseteq TextSlots
  /\ pathIdx \in PathSlots /\ textIdx \in TextSlots

Flags == {tx, bcn, auto, smart, sens, waited, pending, repeated, ticking} \subseteq BOOLEAN

HeardSettles == ~(repeated /\ pending)

IInv == GpsInv /\ Numbers /\ Flags /\ HeardSettles

(* There is a first path and a first text. *)
LEMMA SlotsExist == 0 \in PathSlots /\ 0 \in TextSlots
BY BeaconAssumption DEF PathSlots, TextSlots

(* A beacon that is sent leaves a schedule within its bounds, not heard yet. *)
LEMMA SendKeeps ==
  ASSUME IInv, Send, UNCHANGED switches
  PROVE  Numbers' /\ HeardSettles' /\ {waited', pending', repeated'} \subseteq BOOLEAN
<1>1. Interval \in Nat
  BY IntervalNat DEF IInv, Numbers, Interval
<1>2. /\ pathIdx \in 0 .. Paths - 1 /\ pathOn \in SUBSET (0 .. Paths - 1)
      /\ textIdx \in 0 .. Texts - 1 /\ textOn \in SUBSET (0 .. Texts - 1)
  BY DEF IInv, Numbers, PathSlots, TextSlots
<1>3. Rotated(pathIdx, Paths, pathOn) \in PathSlots /\ Rotated(textIdx, Texts, textOn) \in TextSlots
  BY <1>2, RotationEnds, BeaconAssumption DEF PathSlots, TextSlots
<1>4. UNCHANGED <<delay, pathOn, textOn>>
  BY DEF switches
<1>5. untilNext' = Interval /\ pathIdx' = Rotated(pathIdx, Paths, pathOn)
      /\ textIdx' = Rotated(textIdx, Texts, textOn)
  BY DEF Send
<1>6. Numbers'
  BY <1>1, <1>3, <1>4, <1>5 DEF IInv, Numbers
<1>7. repeated' = FALSE /\ waited' = FALSE /\ pending' \in BOOLEAN
  BY Zenon DEF Send
<1> QED BY <1>6, <1>7 DEF HeardSettles

(* The invariant holds of a new engine (aprs_engine_create). *)
LEMMA BeaconInitially == Init => IInv
<1> SUFFICES ASSUME Init PROVE IInv
  OBVIOUS
<1>1. GpsInv
  BY GpsInitially DEF Init
<1>2. FactoryDelay \in Nat
  BY BeaconAssumption, Zenon
<1>3. Numbers
  BY <1>2, SlotsExist DEF Init, Numbers
<1>4. Flags
  BY Zenon DEF Init, Flags
<1>5. HeardSettles
  BY DEF Init, HeardSettles
<1> QED BY <1>1, <1>3, <1>4, <1>5 DEF IInv

(* The steps that leave the receiver and the waiting repetition alone and   *)
(* set numbers and flags to what a client or a file gives them.             *)
LEMMA SettingsKeep ==
  ASSUME IInv, UNCHANGED <<gpsVars, pending, repeated>>,
         \/ \E passed \in 0 .. 1 : BeginTick(passed)
         \/ \E d \in Delays : SetDelay(d)
         \/ \E on \in BOOLEAN : SetAutoMode(on)
         \/ \E c \in PathCommands : SelectPath(c[1], c[2])
         \/ \E c \in TextCommands : SelectText(c[1], c[2])
         \/ \E c \in Locks : Lock(c[1], c[2])
         \/ \E f \in Files : LoadConfig(f)
         \/ FactoryReset
  PROVE  IInv'
<1>1. GpsInv'
  <2>1. Receiver => Receiver'
    BY DEF gpsVars, Receiver
  <2> QED BY <2>1, States, StatesNext DEF IInv
<1>2. HeardSettles'
  BY DEF IInv, HeardSettles
<1>0. Numbers /\ Flags /\ GpsInv
  BY DEF IInv
<1>3. Numbers' /\ Flags'
  <2>1. ASSUME NEW passed \in 0 .. 1, BeginTick(passed) PROVE Numbers' /\ Flags'
    <3>1. untilNext' \in Nat
      BY <1>0, <2>1 DEF BeginTick, Numbers
    <3>2. Numbers'
      BY <1>0, <2>1, <3>1 DEF BeginTick, Numbers, switches
    <3>3. Flags'
      BY <1>0, <2>1, Zenon DEF BeginTick, Flags, switches
    <3> QED BY <3>2, <3>3
  <2>2. ASSUME NEW d \in Delays, SetDelay(d) PROVE Numbers' /\ Flags'
    <3>1. d \in Nat
      BY BeaconAssumption, Zenon
    <3>2. Numbers'
      BY <1>0, <2>2, <3>1 DEF SetDelay, Numbers
    <3>3. Flags'
      BY <1>0, <2>2, Zenon DEF SetDelay, Flags
    <3> QED BY <3>2, <3>3
  <2>3. ASSUME NEW on \in BOOLEAN, SetAutoMode(on) PROVE Numbers' /\ Flags'
    <3>1. SmartInterval(delay) \in Nat /\ delay \in Nat
      BY <1>0, IntervalNat DEF Numbers
    <3>2. untilNext' \in Nat
      BY <2>3, <3>1 DEF SetAutoMode
    <3>3. Numbers'
      BY <1>0, <2>3, <3>2 DEF SetAutoMode, Numbers
    <3>4. Flags'
      BY <1>0, <2>3, Zenon DEF SetAutoMode, Flags
    <3> QED BY <3>3, <3>4
  <2>4. ASSUME NEW c \in PathCommands, SelectPath(c[1], c[2]) PROVE Numbers' /\ Flags'
    <3>1. c[1] \in PathSlots
      BY BeaconAssumption DEF PathSlots
    <3>2. pathOn' \subseteq PathSlots
      BY <1>0, <2>4, <3>1 DEF SelectPath, Numbers
    <3>3. Numbers'
      BY <1>0, <2>4, <3>2 DEF SelectPath, schedule, Numbers
    <3>4. Flags'
      BY <1>0, <2>4, Zenon DEF SelectPath, schedule, Flags
    <3> QED BY <3>3, <3>4
  <2>5. ASSUME NEW c \in TextCommands, SelectText(c[1], c[2]) PROVE Numbers' /\ Flags'
    <3>1. c[1] \in TextSlots
      BY BeaconAssumption DEF TextSlots
    <3>2. textOn' \subseteq TextSlots
      BY <1>0, <2>5, <3>1 DEF SelectText, Numbers
    <3>3. Numbers'
      BY <1>0, <2>5, <3>2 DEF SelectText, schedule, Numbers
    <3>4. Flags'
      BY <1>0, <2>5, Zenon DEF SelectText, schedule, Flags
    <3> QED BY <3>3, <3>4
  <2>6. ASSUME NEW c \in Locks, Lock(c[1], c[2]) PROVE Numbers' /\ Flags'
    <3>1. c[1] \in BOOLEAN /\ c[2] \in BOOLEAN
      <4>1. c \in BOOLEAN \X BOOLEAN
        BY BeaconAssumption, Zenon
      <4> QED BY <4>1
    <3>2. Numbers'
      BY <1>0, <2>6 DEF Lock, schedule, Numbers
    <3>3. Flags'
      BY <1>0, <2>6, <3>1, Zenon DEF Lock, schedule, Flags
    <3> QED BY <3>2, <3>3
  <2>7. ASSUME NEW f \in Files, LoadConfig(f) PROVE Numbers' /\ Flags'
    <3>1. /\ f.tx \in BOOLEAN /\ f.bcn \in BOOLEAN /\ f.auto \in BOOLEAN /\ f.sens \in BOOLEAN
          /\ f.delay \in Nat /\ f.pathOn \subseteq PathSlots /\ f.textOn \subseteq TextSlots
      BY FileAssumption DEF PathSlots, TextSlots
    <3>2. Numbers'
      BY <1>0, <2>7, <3>1 DEF LoadConfig, schedule, Numbers
    <3>3. Flags'
      BY <1>0, <2>7, <3>1, Zenon DEF LoadConfig, schedule, Flags
    <3> QED BY <3>2, <3>3
  <2>8. ASSUME FactoryReset PROVE Numbers' /\ Flags'
    <3>1. FactoryDelay \in Nat
      BY BeaconAssumption, Zenon
    <3>2. Numbers'
      BY <1>0, <2>8, <3>1, SlotsExist DEF FactoryReset, Numbers
    <3>3. Flags'
      BY <1>0, <2>8, Zenon DEF FactoryReset, Flags
    <3> QED BY <3>2, <3>3
  <2> QED BY <2>1, <2>2, <2>3, <2>4, <2>5, <2>6, <2>7, <2>8
<1> QED BY <1>1, <1>2, <1>3 DEF IInv

(* A beacon sent by hand, and the tick. *)
LEMMA SendBeaconKeeps == IInv /\ SendBeacon => IInv'
<1> SUFFICES ASSUME IInv, SendBeacon PROVE IInv'
  OBVIOUS
<1>1. Send /\ UNCHANGED <<gpsVars, switches, ticking>>
  BY DEF SendBeacon
<1>2. GpsInv'
  <2>1. Receiver => Receiver'
    BY <1>1 DEF gpsVars, Receiver
  <2> QED BY <2>1, States, StatesNext DEF IInv
<1>3. Numbers' /\ HeardSettles' /\ {waited', pending', repeated'} \subseteq BOOLEAN
  BY <1>1, SendKeeps
<1>4. Flags'
  BY <1>1, <1>3, Zenon DEF IInv, Flags, switches
<1> QED BY <1>2, <1>3, <1>4 DEF IInv

(* The GPS tick and the beacon tick keep it. *)
LEMMA EndTickKeeps == IInv /\ EndTick => IInv'
<1> SUFFICES ASSUME IInv, EndTick PROVE IInv'
  OBVIOUS
<1>1. GpsTick /\ UNCHANGED switches /\ ticking' = FALSE
  BY DEF EndTick
<1>2. GpsInv'
  BY <1>1, GpsTickKeeps DEF IInv
<1>3. CASE Due
  <2>1. Send
    BY <1>3 DEF EndTick
  <2>2. Numbers' /\ HeardSettles' /\ {waited', pending', repeated'} \subseteq BOOLEAN
    BY <1>1, <2>1, SendKeeps
  <2>3. Flags'
    BY <1>1, <2>2, Zenon DEF IInv, Flags, switches
  <2> QED BY <1>2, <2>2, <2>3 DEF IInv
<1>4. CASE ~Due
  <2>1. UNCHANGED schedule
    BY <1>4 DEF EndTick
  <2>2. Numbers' /\ HeardSettles'
    BY <1>1, <2>1 DEF IInv, Numbers, HeardSettles, schedule, switches
  <2>3. Flags'
    BY <1>1, <2>1, Zenon DEF IInv, Flags, schedule, switches
  <2> QED BY <1>2, <2>2, <2>3 DEF IInv
<1> QED BY <1>3, <1>4

(* One's own frame heard from a digipeater keeps it: nothing is pending then. *)
LEMMA HearOwnKeeps == IInv /\ HearOwn => IInv'
<1> SUFFICES ASSUME IInv, HearOwn PROVE IInv'
  OBVIOUS
<1>1. /\ pending' = FALSE /\ repeated' = TRUE
      /\ UNCHANGED <<gpsVars, switches, untilNext, waited, pathIdx, textIdx, ticking>>
  BY DEF HearOwn
<1>2. GpsInv'
  <2>1. Receiver => Receiver'
    BY <1>1 DEF gpsVars, Receiver
  <2> QED BY <2>1, States, StatesNext DEF IInv
<1>3. Numbers'
  BY <1>1 DEF IInv, Numbers, switches
<1>4. Flags'
  BY <1>1, Zenon DEF IInv, Flags, switches
<1>5. HeardSettles'
  BY <1>1 DEF HeardSettles
<1> QED BY <1>2, <1>3, <1>4, <1>5 DEF IInv

(* A sentence keeps it. *)
LEMMA PushNmeaKeeps ==
  ASSUME IInv, NEW pushed \in Parsed(Sentences), PushNmea(pushed)
  PROVE  IInv'
<1>1. Push(pushed) /\ UNCHANGED <<schedule, switches, ticking>>
  BY DEF PushNmea
<1>2. GpsInv'
  BY <1>1, PushKeeps DEF IInv
<1>3. Numbers' /\ HeardSettles'
  BY <1>1 DEF IInv, Numbers, HeardSettles, schedule, switches
<1>4. Flags'
  BY <1>1, Zenon DEF IInv, Flags, schedule, switches
<1> QED BY <1>2, <1>3, <1>4 DEF IInv

(* So does every step. *)
LEMMA Step == IInv /\ [Next]_vars => IInv'
<1> SUFFICES ASSUME IInv, [Next]_vars PROVE IInv'
  OBVIOUS
<1>1. ASSUME NEW passed \in 0 .. 1, BeginTick(passed) PROVE IInv'
  <2>1. UNCHANGED <<gpsVars, pending, repeated>>
    BY <1>1 DEF BeginTick
  <2> QED BY <1>1, <2>1, SettingsKeep
<1>2. ASSUME NEW on \in BOOLEAN, SetAutoMode(on) PROVE IInv'
  <2>1. UNCHANGED <<gpsVars, pending, repeated>>
    BY <1>2 DEF SetAutoMode
  <2> QED BY <1>2, <2>1, SettingsKeep
<1>3. ASSUME Command PROVE IInv'
  <2>1. ASSUME NEW d \in Delays, SetDelay(d) PROVE IInv'
    <3>1. UNCHANGED <<gpsVars, pending, repeated>>
      BY <2>1 DEF SetDelay
    <3> QED BY <2>1, <3>1, SettingsKeep
  <2>2. ASSUME NEW c \in PathCommands, SelectPath(c[1], c[2]) PROVE IInv'
    <3>1. UNCHANGED <<gpsVars, pending, repeated>>
      BY <2>2 DEF SelectPath, schedule
    <3> QED BY <2>2, <3>1, SettingsKeep
  <2>3. ASSUME NEW c \in TextCommands, SelectText(c[1], c[2]) PROVE IInv'
    <3>1. UNCHANGED <<gpsVars, pending, repeated>>
      BY <2>3 DEF SelectText, schedule
    <3> QED BY <2>3, <3>1, SettingsKeep
  <2>4. ASSUME NEW c \in Locks, Lock(c[1], c[2]) PROVE IInv'
    <3>1. UNCHANGED <<gpsVars, pending, repeated>>
      BY <2>4 DEF Lock, schedule
    <3> QED BY <2>4, <3>1, SettingsKeep
  <2>5. ASSUME NEW f \in Files, LoadConfig(f) PROVE IInv'
    <3>1. UNCHANGED <<gpsVars, pending, repeated>>
      BY <2>5 DEF LoadConfig, schedule
    <3> QED BY <2>5, <3>1, SettingsKeep
  <2>6. ASSUME FactoryReset PROVE IInv'
    <3>1. UNCHANGED <<gpsVars, pending, repeated>>
      BY <2>6 DEF FactoryReset
    <3> QED BY <2>6, <3>1, SettingsKeep
  <2> QED BY <1>3, <2>1, <2>2, <2>3, <2>4, <2>5, <2>6, SendBeaconKeeps, PushNmeaKeeps DEF Command
<1>4. ASSUME UNCHANGED vars PROVE IInv'
  <2>1. Receiver => Receiver'
    BY <1>4 DEF vars, gpsVars, Receiver
  <2>2. GpsInv'
    BY <2>1, States, StatesNext DEF IInv
  <2>3. Numbers' /\ HeardSettles'
    BY <1>4 DEF IInv, Numbers, HeardSettles, vars, schedule, switches
  <2>4. Flags'
    BY <1>4, Zenon DEF IInv, Flags, vars, schedule, switches
  <2> QED BY <2>2, <2>3, <2>4 DEF IInv
<1> QED BY <1>1, <1>2, <1>3, <1>4, HearOwnKeeps, EndTickKeeps DEF Next

(* The invariant holds in every reachable state of the schedule. *)
THEOREM Invariance == Spec => []IInv
BY BeaconInitially, Step, PTL DEF Spec

(* The schedule keeps its types: no index of the rotation leaves its table, *)
(* and every interval is a time (e->current_path_idx, bm_rotate_path).      *)
THEOREM ScheduleTyped == Spec => []TypeOK
<1>1. IInv => TypeOK
  BY Zenon DEF IInv, GpsInv, Numbers, Flags, TypeOK
<1> QED BY <1>1, Invariance, PTL

(* The flag and the counter of the fix agree, for every life of a fix and   *)
(* every sequence of sentences (gm_push_nmea, gm_tick).                     *)
THEOREM FixesAgree == Spec => []FixMatchesCounter
<1>1. IInv => FixMatchesCounter
  BY DEF IInv, GpsInv
<1> QED BY <1>1, Invariance, PTL

(* No beacon is sent before its time once the last was heard repeated       *)
(* (digisens_retry_pending).                                                *)
THEOREM RetriesStop == Spec => RetryStops
<1> DEFINE Stop == EndTick /\ repeated /\ untilNext > 0 => UNCHANGED <<waited, untilNext>>
<1>1. IInv /\ [Next]_vars => [Stop]_vars
  <2> SUFFICES ASSUME IInv, EndTick, repeated, untilNext > 0
               PROVE  UNCHANGED <<waited, untilNext>>
    OBVIOUS
  <2>1. ~pending
    BY DEF IInv, HeardSettles
  <2>2. untilNext # 0
    BY DEF IInv, Numbers
  <2>3. ~Due
    BY <2>1, <2>2 DEF Due, Early
  <2>4. UNCHANGED schedule
    BY <2>3 DEF EndTick
  <2> QED BY <2>4 DEF schedule
<1>2. Spec => [][Stop]_vars
  BY <1>1, Invariance, PTL DEF Spec
<1> QED BY <1>2 DEF RetryStops
=============================================================================
