------------------------------ MODULE MCBeacon ------------------------------
(***************************************************************************)
(* An instance of Beacon for TLC: two paths, a fixed and a fast interval,  *)
(* and a configuration saved with digisens and without automatic beacons.  *)
(***************************************************************************)
EXTENDS Beacon

MCPathCommands == {<<1, TRUE>>, <<1, FALSE>>}
MCTextCommands == {<<0, TRUE>>}
MCLocks == {<<TRUE, TRUE>>, <<FALSE, TRUE>>}
MCFiles == {[tx |-> TRUE, bcn |-> FALSE, auto |-> FALSE, sens |-> TRUE, delay |-> 1,
             pathOn |-> {}, textOn |-> {0}]}
=============================================================================
