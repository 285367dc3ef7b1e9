--------------------------------- MODULE Query ---------------------------------
(***************************************************************************)
(* Queries and remote commands of the legacy program (sta_manager.c:       *)
(* process_query): general queries bring the beacon forward, a code asked  *)
(* for by STATG is good for one STATP, a key of the key screen for one     *)
(* EXEC.                                                                   *)
(***************************************************************************)
EXTENDS Naturals, FiniteSets

CONSTANTS
  KeyCount,  \* 4
  Codes,     \* answers to a code: one of them is the right one
  Times,     \* clock readings at which keys or codes are made
  MaxMade    \* bound: codes and sets of keys made

Positions == 1 .. KeyCount
NoCode == "none"

VARIABLES
  keys,      \* rkey: [made, enable], the key a function of when it was made
  code,      \* emem, NoCode unless ememvalid
  txenable,
  due,       \* the beacon was brought forward
  made,      \* history: keys and codes made
  answered   \* history: commands that were carried out or answered

vars == <<keys, code, txenable, due, made, answered>>

Init ==
  /\ keys = [k \in Positions |-> [made |-> 0, enable |-> FALSE]]
  /\ code = NoCode
  /\ txenable = TRUE
  /\ due = FALSE
  /\ made = 0
  /\ answered = 0

(* remote_keys: all keys anew, each by its number of rounds from the clock  *)
(* and the key before it; equal t stand for keys that come out equal.       *)
MakeKeys(t) ==
  /\ made < MaxMade
  /\ keys' = [k \in Positions |-> [made |-> t, enable |-> TRUE]]
  /\ made' = made + KeyCount
  /\ UNCHANGED <<code, txenable, due, answered>>

(* ?APRSS and ?APRSP. *)
General ==
  /\ due' = TRUE
  /\ UNCHANGED <<keys, code, txenable, made, answered>>

(* STATG: a code from the clock, the last one is forgotten. *)
AskCode ==
  /\ made < MaxMade
  /\ code' \in Codes
  /\ made' = made + 1
  /\ UNCHANGED <<keys, txenable, due, answered>>

(* STATP: right or wrong, the code is spent. *)
UseCode(c) ==
  /\ code # NoCode
  /\ code' = NoCode
  /\ answered' = IF c = code THEN answered + 1 ELSE answered
  /\ UNCHANGED <<keys, txenable, due, made>>

(* Mutant: the key stays enabled. *)
ExecuteKept(t, k, command) ==
  /\ keys[k] = [made |-> t, enable |-> TRUE]
  /\ answered' = answered + 1
  /\ due' = (due \/ command = "BC")
  /\ txenable' = (txenable /\ command # "DT")
  /\ UNCHANGED <<keys, code, made>>

(* EXEC: BC sends a beacon, DT locks the transmitter; a message whose key  *)
(* does not match is ignored.                                              *)
Execute(t, k, command) ==
  /\ keys[k] = [made |-> t, enable |-> TRUE]
  /\ keys' = [keys EXCEPT ![k].enable = FALSE]
  /\ answered' = answered + 1
  /\ due' = (due \/ command = "BC")
  /\ txenable' = (txenable /\ command # "DT")
  /\ UNCHANGED <<code, made>>

(* timer.c: the beacon's time comes, and the next is beacon_delay away. *)
BeaconDue ==
  /\ due
  /\ due' = FALSE
  /\ UNCHANGED <<keys, code, txenable, made, answered>>

(* config_txlock: the operator toggles the transmitter. *)
TxOption ==
  /\ txenable' = ~txenable
  /\ UNCHANGED <<keys, code, due, made, answered>>

Next ==
  \/ \E t \in Times : MakeKeys(t)
  \/ General
  \/ AskCode
  \/ \E c \in Codes : UseCode(c)
  \/ \E t \in Times, k \in Positions, command \in {"BC", "DT", "AD"} : Execute(t, k, command)
  \/ BeaconDue
  \/ TxOption

Outstanding == Cardinality({k \in Positions : keys[k].enable}) + (IF code = NoCode THEN 0 ELSE 1)

(* A key or a code answers one message: whatever is repeated or replayed   *)
(* on the air, no more is carried out than keys and codes were made.       *)
AnsweredOnce == answered + Outstanding <= made
=============================================================================
