---------------------------- MODULE MCStationTable ----------------------------
(***************************************************************************)
(* Instance of StationTable for TLC.                                       *)
(***************************************************************************)
EXTENDS StationTable
=============================================================================
