----------------------------- MODULE StationTable -----------------------------
(***************************************************************************)
(* The station list (engine/src/station_manager.c): the array stations[],  *)
(* its first num_stations entries in use, and sort_order[], the            *)
(* permutation through which clients see it.  Entry 0 is one's own         *)
(* station.  A full table gives the entry that was heard longest ago to a  *)
(* new callsign.                                                           *)
(*                                                                         *)
(* A callsign is a number, in the order strcmp gives the names.  The data  *)
(* of a station (position, symbol, path, comment, packet count) is left    *)
(* out, and with it the sort columns that compare data; so are             *)
(* marked_station_idx, sort_column and sort_ascending, which nothing reads,*)
(* and the filter masks, whose function nothing calls.                     *)
(***************************************************************************)
EXTENDS Slots, FiniteSets

CONSTANTS
  Size,       \* entries of the table (MAX_STATIONS)
  Callsigns,  \* the callsigns heard, the empty one of a frame ">X" among them
  Self,       \* config.callsign when the engine is created
  NoCall,     \* the empty callsign, which an entry never used holds too
  Deltas,     \* clock advance of one tick
  MaxTime     \* bound: the clock

ASSUME TableAssumption ==
  /\ Size \in Nat \ {0, 1}
  /\ Callsigns \subseteq Int
  /\ Self \in Callsigns
  /\ Deltas \subseteq Nat
  /\ MaxTime \in Nat

VARIABLES
  stations,   \* e->stations
  num,        \* e->num_stations
  sortOrder,  \* e->sort_order
  now,        \* e->current_time_ms
  ticking     \* inside aprs_engine_tick

vars == <<stations, num, sortOrder, now, ticking>>

Table == Indices(Size)
Used == Indices(num)
Columns == {"callsign", "last_heard", "unknown"}

Blank == [call |-> NoCall, heard |-> 0, marked |-> FALSE]

(* aprs_engine_create: one's own station, heard now. *)
Init ==
  /\ stations = [[s \in Table |-> Blank] EXCEPT ![0].call = Self]
  /\ num = 1
  /\ sortOrder = [s \in Table |-> s]
  /\ now = 0
  /\ ticking = FALSE

-----------------------------------------------------------------------------
(* Mutants: the search leaves out one's own entry; that for the victim does *)
(* not.                                                                     *)
FoundAmongOthers(c) == {s \in Used \ {0} : stations[s].call = c}
VictimOfAll == First(Least([s \in Used |-> stations[s].heard], Used))

(* sm_find_station. *)
Found(c) == {s \in Used : stations[s].call = c}

(* The entry a new callsign takes from a full table: the first of those     *)
(* heard the longest ago, never entry 0.                                    *)
Victim ==
  LET others == Used \ {0}
  IN  First(Least([s \in others |-> stations[s].heard], others))

(* sm_find_or_create. *)
Place(c) ==
  CASE Found(c) # {} -> First(Found(c))
    [] Found(c) = {} /\ num < Size -> num
    [] OTHER -> Victim

(* Mutant: a new entry is not counted. *)
HearUncounted(c) ==
  /\ ~ticking
  /\ stations' = [stations EXCEPT ![Place(c)] =
                    [call   |-> c,
                     heard  |-> now,
                     marked |-> Found(c) # {} /\ @.marked]]
  /\ UNCHANGED <<num, sortOrder, now, ticking>>

(* engine_dispatch_frame with a frame that passes the filters: the entry is *)
(* found or created, with no mark, and its time set (sm_update_from_frame). *)
Hear(c) ==
  /\ ~ticking
  /\ stations' = [stations EXCEPT ![Place(c)] =
                    [call   |-> c,
                     heard  |-> now,
                     marked |-> Found(c) # {} /\ @.marked]]
  /\ num' = IF Found(c) = {} /\ num < Size THEN num + 1 ELSE num
  /\ UNCHANGED <<sortOrder, now, ticking>>

-----------------------------------------------------------------------------
(* sm_mark: a callsign that is not listed is ignored. *)
Mark(c, mark) ==
  /\ ticking
  /\ Found(c) # {}
  /\ stations' = [stations EXCEPT ![First(Found(c))].marked = mark]
  /\ UNCHANGED <<num, sortOrder, now, ticking>>

Key(column, s) ==
  CASE column = "callsign"   -> stations[s].call
    [] column = "last_heard" -> stations[s].heard
    [] OTHER                 -> 0

(* cmp > 0: the entry s, which stands before t, belongs after it. *)
OutOfOrder(column, ascending, s, t) ==
  IF ascending THEN Key(column, s) > Key(column, t)
               ELSE Key(column, s) < Key(column, t)

(* Mutant: the exchange forgets the entry it overwrites.                    *)
ComparedOverwriting(column, ascending, order, i, j) ==
  IF OutOfOrder(column, ascending, order[i], order[j])
  THEN [order EXCEPT ![i] = order[j]] ELSE order

(* One comparison: two entries out of order are exchanged. *)
Compared(column, ascending, order, i, j) ==
  IF OutOfOrder(column, ascending, order[i], order[j])
  THEN [order EXCEPT ![i] = order[j], ![j] = order[i]] ELSE order

(* Mutant: the inner loop stops after one comparison. *)
PassOnce(column, ascending, order, i) ==
  IF i + 1 < num THEN Compared(column, ascending, order, i, i + 1) ELSE order

(* The inner loop: the entry at position i is compared with every later one. *)
Pass(column, ascending, order, i) ==
  LET upTo[j \in i .. num - 1] ==
        IF j = i THEN order ELSE Compared(column, ascending, upTo[j - 1], i, j)
  IN  upTo[num - 1]

(* The order rebuilt and sorted; the entries beyond num_stations are not    *)
(* touched.                                                                 *)
Sorted(column, ascending) ==
  LET passes[i \in 0 .. num] ==
        IF i = 0 THEN [s \in Table |-> IF s \in Used THEN s ELSE sortOrder[s]]
                 ELSE Pass(column, ascending, passes[i - 1], i - 1)
  IN  passes[num]

(* sm_sort. *)
Sort(column, ascending) ==
  /\ ticking
  /\ sortOrder' = Sorted(column, ascending)
  /\ UNCHANGED <<stations, num, now, ticking>>

BeginTick(delta) ==
  /\ ~ticking
  /\ now + delta <= MaxTime
  /\ now' = now + delta
  /\ ticking' = TRUE
  /\ UNCHANGED <<stations, num, sortOrder>>

EndTick ==
  /\ ticking
  /\ ticking' = FALSE
  /\ UNCHANGED <<stations, num, sortOrder, now>>

Next ==
  \/ \E c \in Callsigns : Hear(c)
  \/ \E c \in Callsigns, mark \in BOOLEAN : Mark(c, mark)
  \/ \E column \in Columns, ascending \in BOOLEAN : Sort(column, ascending)
  \/ \E delta \in Deltas : BeginTick(delta)
  \/ EndTick

Spec == Init /\ [][Next]_vars

-----------------------------------------------------------------------------
(* The type of the state: entries in use hold a callsign that was heard,   *)
(* which may be the empty one (fi_parse_frame takes a frame that begins    *)
(* with '>' and has no ':'), and nothing was written to the others: it is  *)
(* num_stations alone that tells them apart.                               *)
TypeOK ==
  /\ num \in 1 .. Size
  /\ stations \in [Table -> [call : Callsigns \cup {NoCall}, heard : Nat, marked : BOOLEAN]]
  /\ \A s \in Used : stations[s].call \in Callsigns
  /\ \A s \in Table \ Used : stations[s] = Blank
  /\ sortOrder \in [Table -> Table]
  /\ now \in Nat
  /\ ticking \in BOOLEAN

(* No callsign is listed twice, though entries are given to other callsigns *)
(* and every lookup stops at the first that fits (sm_find_station).         *)
CallsignsDistinct ==
  \A s, t \in Used : stations[s].call = stations[t].call => s = t

Calls == {stations[s].call : s \in Used}

(* What list_stations returns, for a buffer that is large enough. *)
Shown == [p \in Used |-> stations[sortOrder[p]].call]

(* A client sees every station, each once, whenever the table grew or gave  *)
(* an entry away since the last sort.                                       *)
ListComplete ==
  /\ {Shown[p] : p \in Used} = Calls
  /\ \A p, q \in Used : Shown[p] = Shown[q] => p = q

(* The exchanges of sm_sort leave the list sorted by the column. *)
SortSorts ==
  [][\A column \in Columns, ascending \in BOOLEAN :
       Sort(column, ascending) =>
         \A p, q \in Used : p < q =>
           ~OutOfOrder(column, ascending, sortOrder'[p], sortOrder'[q])]_vars

(* The table as a map: a callsign and what a lookup of it returns. *)
Book == [c \in Calls |-> [heard  |-> stations[First(Found(c))].heard,
                          marked |-> stations[First(Found(c))].marked]]

Map == INSTANCE StationMap WITH Capacity <- Size, clock <- now, book <- Book

(* The table implements the map: marks stay with their callsign and never   *)
(* pass to the next owner of an entry, one's own station is never evicted,  *)
(* and of the others never one heard later than another.                    *)
ImplementsMap == Map!Spec
=============================================================================
