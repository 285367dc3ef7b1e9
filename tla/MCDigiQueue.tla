----------------------------- MODULE MCDigiQueue -----------------------------
(***************************************************************************)
(* Instances of DigiQueue for TLC, and the statement of the source the     *)
(* code does not keep.                                                     *)
(***************************************************************************)
EXTENDS DigiQueue

(* "If recently queued, it's a duplicate" (de_is_duplicate), "Prevent       *)
(* duplicates" (aprs_engine_architecture.md): with a duplicate time longer  *)
(* than the repeat delay no frame waits twice.                              *)
NoFrameWaitsTwice ==
  \A s, t \in Waiting : queue[s].frame = queue[t].frame => s = t
=============================================================================
