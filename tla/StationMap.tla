------------------------------ MODULE StationMap ------------------------------
(***************************************************************************)
(* What the station list promises, without slots: a map from callsign to   *)
(* when the station was heard last and whether it is marked.  It holds at  *)
(* most Capacity stations, one's own first of all; when it is full a new   *)
(* station displaces one of the others that was heard the longest ago.     *)
(***************************************************************************)
EXTENDS Integers, FiniteSets

CONSTANTS
  Capacity,   \* stations the list holds, at least two
  Callsigns,  \* the callsigns heard
  Self        \* one's own callsign when the engine starts

VARIABLES
  book,  \* the map: its domain is the stations listed
  clock  \* the time

vars == <<book, clock>>

Listed == DOMAIN book

Init ==
  /\ clock = 0
  /\ book = [c \in {Self} |-> [heard |-> 0, marked |-> FALSE]]

(* Those a new station may displace. *)
LongestSilent ==
  {v \in Listed \ {Self} : \A w \in Listed \ {Self} : book[v].heard <= book[w].heard}

(* A station that is listed keeps its mark, a new one has none. *)
Renewed(c, stay) ==
  [d \in stay \cup {c} |->
     IF d # c THEN book[d]
     ELSE [heard |-> clock, marked |-> c \in Listed /\ book[c].marked]]

Heard(c) ==
  /\ UNCHANGED clock
  /\ IF c \in Listed \/ Cardinality(Listed) < Capacity
       THEN book' = Renewed(c, Listed)
       ELSE \E v \in LongestSilent : book' = Renewed(c, Listed \ {v})

Mark(c, mark) ==
  /\ c \in Listed
  /\ book' = [book EXCEPT ![c].marked = mark]
  /\ UNCHANGED clock

Pass ==
  /\ clock' \in Nat
  /\ clock' > clock
  /\ UNCHANGED book

Next ==
  \/ \E c \in Callsigns : Heard(c)
  \/ \E c \in Callsigns, mark \in BOOLEAN : Mark(c, mark)
  \/ Pass

Spec == Init /\ [][Next]_vars
=============================================================================
