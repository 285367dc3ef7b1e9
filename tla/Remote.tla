-------------------------------- MODULE Remote --------------------------------
(***************************************************************************)
(* Remote control (engine/src/remote_control.c): keys that are generated   *)
(* together and switched off one by one, each after a command it let in.   *)
(*                                                                         *)
(* A command publishes its events before its key is switched off, and a    *)
(* callback may start another loop over the queue (CommandQueue), with a   *)
(* second command or a new generation of keys in it: "running" holds the   *)
(* positions of the keys whose commands have not returned.  Until then the *)
(* same key lets another command in.                                       *)
(***************************************************************************)
EXTENDS Naturals, Sequences

CONSTANTS
  KeyCount, \* MAX_REMOTE_KEYS
  Seeds,    \* clock readings at which keys are generated: equal ones, equal keys
  Depth     \* bound: commands inside each other

Positions == 1 .. KeyCount
Keys == Seeds \X Positions
Commands == {"TXOFF", "TXON", "DIGIOFF", "DIGION", "BEACON"}

VARIABLES
  keys,     \* remote_keys[].key
  enabled,  \* the positions of remote_keys[].enabled
  tx, digi, \* e->config.tx_enabled, digi_enabled
  running,  \* positions of the commands in progress, the innermost first
  used      \* history: keys that let a command in since they were generated

vars == <<keys, enabled, tx, digi, running, used>>

Blank == <<>>

Init ==
  /\ keys = [i \in Positions |-> Blank]
  /\ enabled = {}
  /\ tx = TRUE /\ digi = TRUE
  /\ running = <<>>
  /\ used = {}

(* rc_generate_keys, with rc_prng seeded by the clock. *)
Generate(seed) ==
  /\ keys' = [i \in Positions |-> <<seed, i>>]
  /\ enabled' = Positions
  /\ used' = used \ {<<seed, i>> : i \in Positions}
  /\ UNCHANGED <<tx, digi, running>>

(* The first enabled position with the key.  An unknown key, one that is    *)
(* off and a command the code does not know change nothing.                 *)
Holders(key) == {i \in enabled : keys[i] = key}
Holder(key) == CHOOSE i \in Holders(key) : \A j \in Holders(key) : i <= j

(* rc_execute_command up to the event of the command. *)
Begin(key, command) ==
  /\ Len(running) < Depth
  /\ Holders(key) # {}
  /\ used' = used \cup {key}
  /\ tx' = (IF command = "TXOFF" THEN FALSE ELSE IF command = "TXON" THEN TRUE ELSE tx)
  /\ digi' = (IF command = "DIGIOFF" THEN FALSE ELSE IF command = "DIGION" THEN TRUE ELSE digi)
  /\ running' = <<Holder(key)>> \o running
  /\ UNCHANGED <<keys, enabled>>

(* Mutant: a command inside another leaves its key on. *)
EndOutermost ==
  /\ running # <<>>
  /\ enabled' = IF Len(running) > 1 THEN enabled ELSE enabled \ {Head(running)}
  /\ running' = Tail(running)
  /\ UNCHANGED <<keys, tx, digi, used>>

(* The rest of it.  The position is switched off, whatever key it holds by  *)
(* then.                                                                    *)
End ==
  /\ running # <<>>
  /\ enabled' = enabled \ {Head(running)}
  /\ running' = Tail(running)
  /\ UNCHANGED <<keys, tx, digi, used>>

(* STATUS publishes nothing before; its answer is not written yet. *)
Status(key) ==
  /\ Holders(key) # {}
  /\ used' = used \cup {key}
  /\ enabled' = enabled \ {Holder(key)}
  /\ UNCHANGED <<keys, tx, digi, running>>

(* TXOFF and its relatives given by the client instead (SET_CONFIG). *)
SetConfig(sending, repeating) ==
  /\ tx' = sending
  /\ digi' = repeating
  /\ UNCHANGED <<keys, enabled, running, used>>

Next ==
  \/ \E seed \in Seeds : Generate(seed)
  \/ \E key \in Keys, command \in Commands : Begin(key, command)
  \/ End
  \/ \E key \in Keys : Status(key)
  \/ \E sending, repeating \in BOOLEAN : SetConfig(sending, repeating)

(* A key that let a command in and is still on has a command of its        *)
(* position in progress: a second use of it can only come from inside a     *)
(* command, and none comes once the commands of its position have returned, *)
(* however commands and generations were nested (remote_control.c:122).     *)
UsedOnlyInside ==
  \A i \in enabled : keys[i] \in used => \E d \in DOMAIN running : running[d] = i
=============================================================================
