------------------------------ MODULE Position ------------------------------
(***************************************************************************)
(* The position manager (engine/src/position_manager.c): where the engine  *)
(* takes its own position from, for the distances in the station list      *)
(* (USE) and for the beacons (REPORT), and what becomes of the distances   *)
(* when that changes.  Altitude goes with its position.                    *)
(***************************************************************************)
EXTENDS Gps

CONSTANTS
  SlotCount, \* stored positions (MAX_POS_SLOTS)
  Home       \* the position of every slot after a factory reset

Slot == 0 .. SlotCount - 1
Modes == {"auto", "static", "gps"}

VARIABLES
  useMode,     \* e->use_mode
  reportMode,  \* e->report_mode
  slots,       \* e->pos_slots
  activeSlot,  \* e->active_pos_slot
  my,          \* e->my_lat, e->my_lon: what the snapshot shows
  ranged       \* the position the distances of the stations were computed from

posVars == <<useMode, reportMode, slots, activeSlot, my, ranged>>
vars == <<gpsVars, posVars>>

Init ==
  /\ GpsInit
  /\ useMode = "auto" /\ reportMode = "auto"
  /\ slots = [s \in Slot |-> Home]
  /\ activeSlot = 0
  /\ my = Home
  /\ ranged = Home

-----------------------------------------------------------------------------
(* pm_get_effective_position: only STATIC ignores a valid GPS position. *)
EffectiveOf(mode, g, positions, active) ==
  IF mode # "static" /\ g.valid THEN g.place ELSE positions[active]

Effective == EffectiveOf(useMode, gps, slots, activeSlot)

(* pm_get_effective_report_position. *)
Report ==
  CASE reportMode = "auto"   -> Effective
    [] reportMode = "gps"    -> EffectiveOf("gps", gps, slots, activeSlot)
    [] reportMode = "static" -> slots[activeSlot]

(* sm_recalc_all, after the other assignments of its caller. *)
Recalc == ranged' = EffectiveOf(useMode', gps', slots', activeSlot')

-----------------------------------------------------------------------------
SetUseMode(mode) ==
  /\ useMode' = mode
  /\ my' = IF mode = "gps" /\ gps.valid THEN gps.place ELSE my
  /\ UNCHANGED <<gpsVars, reportMode, slots, activeSlot>>
  /\ Recalc

SetReportMode(mode) ==
  /\ reportMode' = mode
  /\ UNCHANGED <<gpsVars, useMode, slots, activeSlot, my, ranged>>

SetStatic(slot, place) ==
  /\ slots' = [slots EXCEPT ![slot] = place]
  /\ UNCHANGED <<gpsVars, useMode, reportMode, activeSlot>>
  /\ IF slot = activeSlot /\ useMode = "static"
       THEN my' = place /\ Recalc
       ELSE UNCHANGED <<my, ranged>>

(* Mutant: the selection only moves the index. *)
SelectSlotOnly(slot) ==
  /\ activeSlot' = slot
  /\ UNCHANGED <<gpsVars, useMode, reportMode, slots, my, ranged>>

SelectSlot(slot) ==
  /\ activeSlot' = slot
  /\ UNCHANGED <<gpsVars, useMode, reportMode, slots>>
  /\ IF useMode = "static"
       THEN my' = slots[slot] /\ Recalc
       ELSE UNCHANGED <<my, ranged>>

(* pm_capture_station, of a station with a position. *)
Capture(place) ==
  /\ slots' = [slots EXCEPT ![activeSlot] = place]
  /\ UNCHANGED <<gpsVars, useMode, reportMode, activeSlot>>
  /\ IF useMode = "static"
       THEN my' = place /\ Recalc
       ELSE UNCHANGED <<my, ranged>>

SetManual(place) ==
  /\ slots' = [slots EXCEPT ![activeSlot] = place]
  /\ my' = place
  /\ useMode' = "static"
  /\ UNCHANGED <<gpsVars, reportMode, activeSlot>>
  /\ Recalc

(* gm_push_nmea: a fix moves us in GPS mode only; AUTO, which prefers the   *)
(* GPS as well, keeps the old distances.                                    *)
PushNmea(pushed) ==
  /\ Push(pushed)
  /\ UNCHANGED <<useMode, reportMode, slots, activeSlot>>
  /\ IF pushed.ended /\ pushed.fields.fixed /\ useMode = "gps"
       THEN my' = pushed.fields.place /\ Recalc
       ELSE UNCHANGED <<my, ranged>>

(* engine_dispatch_frame, of a frame with a position. *)
HearPosition ==
  /\ UNCHANGED <<gpsVars, useMode, reportMode, slots, activeSlot, my>>
  /\ Recalc

(* cp_reset_factory and cp_load: neither computes the distances again. *)
FactoryReset ==
  /\ useMode' = "auto" /\ reportMode' = "auto"
  /\ slots' = [s \in Slot |-> Home]
  /\ activeSlot' = 0
  /\ my' = Home
  /\ UNCHANGED <<gpsVars, ranged>>

LoadConfig(mode, place, active) ==
  /\ useMode' = mode /\ reportMode' = mode
  /\ slots' = [s \in Slot |-> place]
  /\ activeSlot' = active
  /\ UNCHANGED <<gpsVars, my, ranged>>

Tick ==
  /\ GpsTick
  /\ UNCHANGED posVars

Command ==
  \/ \E mode \in Modes : SetUseMode(mode) \/ SetReportMode(mode)
  \/ \E slot \in Slot, place \in Places : SetStatic(slot, place)
  \/ \E slot \in Slot : SelectSlot(slot)
  \/ \E place \in Places : Capture(place) \/ SetManual(place)
  \/ \E pushed \in Parsed(Sentences) : PushNmea(pushed)
  \/ FactoryReset
  \/ \E mode \in Modes, place \in Places, active \in Slot : LoadConfig(mode, place, active)

Next == Command \/ HearPosition \/ Tick

-----------------------------------------------------------------------------
(* The steps that move us and leave the distances as they were: a whole     *)
(* configuration, a stored position while another mode uses it for want of  *)
(* a fix, and a fix in the automatic mode, which uses it.                   *)
Overlooked ==
  \/ FactoryReset
  \/ \E mode \in Modes, place \in Places, active \in Slot : LoadConfig(mode, place, active)
  \/ /\ useMode # "static"
     /\ \/ \E slot \in Slot, place \in Places : SetStatic(slot, place)
        \/ \E slot \in Slot : SelectSlot(slot)
        \/ \E place \in Places : Capture(place)
  \/ /\ useMode = "auto"
     /\ \E pushed \in Parsed(Sentences) : PushNmea(pushed)

(* In every mode, every other step leaves the distances computed from the   *)
(* position it leaves in use, or moves nothing: the end of a fix does not   *)
(* move us, as its position stays valid, and a change of mode computes them *)
(* again whatever was overlooked before.                                    *)
DistancesFollow ==
  \/ Overlooked
  \/ ranged' = Effective'
  \/ ranged' = ranged /\ Effective' = Effective

(* "Recalculate distance/bearing on changes." *)
ComputedOnChange == Effective' # Effective => ranged' = Effective'
=============================================================================
