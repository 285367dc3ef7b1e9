--------------------------------- MODULE Gps ---------------------------------
(***************************************************************************)
(* The GPS receiver as the engine sees it (engine/src/gps_manager.c): the  *)
(* parser, which is static and outlives a call, the position and speed it  *)
(* last delivered, and the counter that decides for how many ticks a fix   *)
(* counts as one.  The steps are composed into Position and Beacon.        *)
(*                                                                         *)
(* A sentence is a record of the fields gm_push_nmea looks at; checksums   *)
(* are collected and never compared, and gps_enabled, gps_present and      *)
(* gps_data_counter are read by nobody.                                    *)
(***************************************************************************)
EXTENDS Naturals

CONSTANTS
  Places,    \* positions a GGA sentence reports
  NoPlace,   \* the position before the first fix
  Speeds,    \* speeds an RMC sentence reports, in km/h
  FixTicks   \* ticks a fix lasts (gps_fix_counter = 50)

ASSUME GpsAssumption ==
  /\ NoPlace \notin Places
  /\ Speeds \subseteq Nat
  /\ FixTicks \in Nat \ {0}

VARIABLES
  parser,     \* g_parser: the fields of the sentence begun last
  gps,        \* e->gps
  fixCounter  \* e->gps_fix_counter

gpsVars == <<parser, gps, fixCounter>>

NoSentence == [fixed |-> FALSE, place |-> NoPlace, active |-> FALSE, speed |-> 0]
GGA(place) == [NoSentence EXCEPT !.fixed = TRUE, !.place = place]
RMC(speed) == [NoSentence EXCEPT !.active = TRUE, !.speed = speed]

(* What a receiver sends; without a fix neither sentence says anything. *)
Sentences == {NoSentence} \cup {GGA(p) : p \in Places} \cup {RMC(v) : v \in Speeds}

GpsInit ==
  /\ parser = NoSentence
  /\ gps = [valid |-> FALSE, fix |-> FALSE, place |-> NoPlace, speed |-> 0]
  /\ fixCounter = 0

(* The fields the parser holds after the characters of a pushed string: a   *)
(* sentence begins with '$', which forgets the one before; a bare line end  *)
(* keeps it.                                                                *)
Parsed(strings) == {[fields |-> s, ended |-> end] : s \in strings, end \in BOOLEAN}
                     \cup {[fields |-> parser, ended |-> TRUE]}

(* A sentence with a fix sets the position, an active one the speed. *)
Applied(s) ==
  [valid |-> gps.valid \/ s.fixed,
   fix   |-> gps.fix \/ s.fixed,
   place |-> IF s.fixed THEN s.place ELSE gps.place,
   speed |-> IF s.active THEN s.speed ELSE gps.speed]

(* gm_push_nmea: a string without line end or checksum is parsed, and not   *)
(* applied before the line end arrives with a later call.                   *)
Push(pushed) ==
  /\ parser' = pushed.fields
  /\ gps' = IF pushed.ended THEN Applied(pushed.fields) ELSE gps
  /\ fixCounter' = IF pushed.ended /\ pushed.fields.fixed THEN FixTicks ELSE fixCounter

(* Mutant: the fix lasts a tick longer than its counter. *)
GpsTickLate ==
  /\ fixCounter' = IF fixCounter > 0 THEN fixCounter - 1 ELSE 0
  /\ gps' = [gps EXCEPT !.fix = fixCounter > 0]
  /\ UNCHANGED parser

(* gm_tick: the fix is lost when its counter runs out, the position stays   *)
(* valid and the speed what it was.                                         *)
GpsTick ==
  /\ fixCounter' = IF fixCounter > 0 THEN fixCounter - 1 ELSE 0
  /\ gps' = IF fixCounter = 1 THEN [gps EXCEPT !.fix = FALSE] ELSE gps
  /\ UNCHANGED parser

GpsTypeOK ==
  /\ parser \in Sentences
  /\ gps \in [valid : BOOLEAN, fix : BOOLEAN, place : Places \cup {NoPlace},
              speed : Speeds \cup {0}]
  /\ fixCounter \in 0 .. FixTicks

(* The engine answers "is there a fix" from two places: aprs_engine_get_gps *)
(* from the counter (gm_get_state), the snapshot and the gps.updated event  *)
(* from the flag.  They agree, and there is no fix without a position.      *)
FixMatchesCounter ==
  /\ gps.fix <=> fixCounter > 0
  /\ gps.fix => gps.valid
  /\ gps.valid <=> gps.place # NoPlace
=============================================================================
