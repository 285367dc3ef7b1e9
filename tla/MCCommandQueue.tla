--------------------------- MODULE MCCommandQueue ---------------------------
(***************************************************************************)
(* The instance of CommandQueue for TLC.                                   *)
(***************************************************************************)
EXTENDS CommandQueue
=============================================================================
