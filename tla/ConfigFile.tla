------------------------------ MODULE ConfigFile ------------------------------
(***************************************************************************)
(* The configuration file (engine/src/config_persist.c): written in place  *)
(* after truncation, four words and the data, and read back with its       *)
(* checks.  The engine may stop between any two of these writes, or a      *)
(* write may fail, and what is there at the start may be a file of another *)
(* version, or a damaged one.                                              *)
(***************************************************************************)
EXTENDS Naturals, Sequences

CONSTANTS
  Configs,  \* settings that go into the file (wire_config_t)
  Default,  \* the settings of a new engine
  Foreign   \* files that may be there before: damaged, older, of others

Magic == "APRS"
Version == 2
Whole == 2   \* wire_config_t is written in this many parts

(* The file is the sequence of what was written; a part names its data.    *)
(* The checksum of some data is that data: two different ones, it is taken *)
(* for granted, do not have the same CRC-32.                               *)
Checksum(parts) == <<"crc", parts>>
Data(c) == [k \in 1 .. Whole |-> <<"data", c, k>>]
Stream(c) == <<Magic, Version, Whole, Checksum(Data(c))>> \o Data(c)

VARIABLES
  config,  \* the settings of the engine
  file,    \* the content of aprs_engine.cfg
  todo,    \* what cp_save has yet to write, <<>> outside of it
  intact   \* history: the configurations saved to the end, now or earlier

vars == <<config, file, todo, intact>>

Init ==
  /\ config = Default
  /\ file \in {<<>>} \cup Foreign
  /\ todo = <<>>
  /\ intact = {c \in Configs : Len(file) >= 4 + Whole /\ SubSeq(file, 1, 4 + Whole) = Stream(c)}

Set(c) ==
  /\ todo = <<>>
  /\ config' = c
  /\ UNCHANGED <<file, todo, intact>>

(* cp_save: cp_engine_to_wire, fopen with "wb". *)
Truncate ==
  /\ todo = <<>>
  /\ file' = <<>>
  /\ todo' = Stream(config)
  /\ UNCHANGED <<config, intact>>

Write ==
  /\ todo # <<>>
  /\ file' = Append(file, Head(todo))
  /\ todo' = Tail(todo)
  /\ intact' = IF Len(todo) = 1 THEN intact \cup {config} ELSE intact
  /\ UNCHANGED config

(* The process ends and is started again. *)
Crash ==
  /\ config' = Default
  /\ todo' = <<>>
  /\ UNCHANGED <<file, intact>>

(* A write fails, and the rest with it; cp_save closes the file and says   *)
(* that all went well.                                                     *)
WriteFails ==
  /\ todo # <<>>
  /\ todo' = <<>>
  /\ UNCHANGED <<config, file, intact>>

(* Mutant: cp_load does not compare the checksum. *)
AcceptsUnchecked ==
  /\ Len(file) >= 4 + Whole
  /\ file[1] = Magic /\ file[2] = Version /\ file[3] = Whole

Accepts ==
  /\ Len(file) >= 4 + Whole
  /\ file[1] = Magic /\ file[2] = Version /\ file[3] = Whole
  /\ file[4] = Checksum(SubSeq(file, 5, 4 + Whole))

(* cp_load: cp_wire_to_engine sets every field that cp_engine_to_wire read. *)
Load ==
  /\ todo = <<>>
  /\ config' = IF Accepts THEN file[5][2] ELSE config
  /\ UNCHANGED <<file, todo, intact>>

Next ==
  \/ \E c \in Configs : Set(c)
  \/ Truncate
  \/ Write
  \/ WriteFails
  \/ Crash
  \/ Load

-----------------------------------------------------------------------------
(* A load puts the engine into a configuration that was saved to the end,   *)
(* or leaves it as it is: a save cut short is noticed, and so is a file of  *)
(* another version, and one that was damaged whatever is left of it.        *)
LoadedWasSaved == Load => config' \in intact \cup {config}
=============================================================================
