------------------------------ MODULE ListView ------------------------------
(***************************************************************************)
(* The list of stations on the screen of the legacy program and the        *)
(* cursor in it (app.c goapp, sta_manager.c station_sort).  The list is    *)
(* sorted again after every received frame, and the cursor has to follow   *)
(* the station it is on.                                                   *)
(***************************************************************************)
EXTENDS Naturals

CONSTANTS
  Stations,  \* MAX_STATIONS - 1: the stations are 1 .. Stations
  Height     \* lines of the list on the screen, 6 in the code

VARIABLES
  num,       \* num_stations
  sort,      \* the order of the list; what lies behind filtered is stale
  filtered,  \* filtered_stations
  start,     \* station_list_start
  cur,       \* station_list_cur, the line of the cursor
  cstation,  \* the station the other parts of the screen show
  marked,    \* marked_station, 0: none
  was        \* history: the station to follow in the last pass, 0: none

vars == <<num, sort, filtered, start, cur, cstation, marked, was>>

Init ==
  /\ num = 0
  /\ sort = [n \in 1 .. Stations + Height |-> 0]
  /\ filtered = 0
  /\ start = 1
  /\ cur = 1
  /\ cstation = 1
  /\ marked = 0
  /\ was = 0

(* station_sort: an order of the stations the filters let through.         *)
Sorted(n) ==
  \E listed \in 0 .. n : \E order \in [1 .. listed -> 1 .. n] :
    /\ \A k, l \in 1 .. listed : order[k] = order[l] => k = l
    /\ filtered' = listed
    /\ sort' = [k \in DOMAIN sort |-> IF k <= listed THEN order[k] ELSE sort[k]]

(* The first line of the list that shows the station, or the last line.    *)
Line(station) ==
  LET shown == {k \in 1 .. filtered' : sort'[k] = station}
  IN IF shown # {} THEN CHOOSE k \in shown : \A l \in shown : k <= l
     ELSE IF filtered' = 0 THEN 1 ELSE filtered'

Top == start' = 1 /\ cur' = 1 /\ cstation' = sort'[1]

(* Mutant: the first line of the screen is kept above the list's start. *)
FollowLine(line) ==
  /\ start' = IF line >= cur THEN line - cur + 1 ELSE 1
  /\ UNCHANGED cur

(* The cursor keeps its line unless that would put the start before 1.     *)
Follow(line) ==
  /\ start' = IF line >= cur THEN line - cur + 1 ELSE 1
  /\ cur' = IF line >= cur THEN cur ELSE line

Chase(station) ==
  IF sort'[Line(station)] = station
  THEN Follow(Line(station)) /\ cstation' = station
  ELSE Top

(* A frame was received, maybe from a new station. *)
Frame ==
  /\ num' \in {num, num + 1} \cap 1 .. Stations
  /\ Sorted(num')
  /\ IF start = 1 /\ cur = 1 THEN Top /\ was' = 0 ELSE Chase(cstation) /\ was' = cstation
  /\ UNCHANGED marked

(* Key 17, the menu: the screen of the filters sorts and leaves the cursor. *)
Filter ==
  /\ Sorted(num)
  /\ was' = 0
  /\ UNCHANGED <<num, start, cur, cstation, marked>>

(* Keys 7 (quick menu, which may mark the station) and 5 (another order). *)
Resort ==
  /\ Sorted(num)
  /\ Top
  /\ was' = 0
  /\ marked' \in {marked, IF marked = cstation THEN 0 ELSE cstation}
  /\ UNCHANGED num

(* Key 13. *)
GoTop ==
  /\ UNCHANGED <<num, sort, filtered, marked>>
  /\ Top
  /\ was' = 0

(* Key 11. *)
GoMarked ==
  /\ marked > 0
  /\ UNCHANGED <<num, sort, filtered, marked>>
  /\ Chase(marked)
  /\ was' = 0

Moved(s, c) ==
  /\ start' = s
  /\ cur' = c
  /\ cstation' = sort[s + c - 1]
  /\ was' = 0
  /\ UNCHANGED <<num, sort, filtered, marked>>

PageUp ==
  IF start > Height THEN Moved(start - Height, cur)
  ELSE IF start = 1 THEN Moved(1, 1) ELSE Moved(1, cur)

PageDown == Moved(IF cur + start + Height <= filtered THEN start + Height ELSE start, cur)

Down ==
  IF cur + start > filtered THEN Moved(start, cur)
  ELSE IF cur < Height THEN Moved(start, cur + 1) ELSE Moved(start + 1, cur)

Up == IF start > 1 THEN Moved(start - 1, cur) ELSE Moved(1, IF cur > 1 THEN cur - 1 ELSE 1)

Next ==
  \/ Frame \/ Filter \/ Resort \/ GoTop \/ GoMarked
  \/ PageUp \/ PageDown \/ Down \/ Up

(* After a received frame the cursor is on a line of the list that shows   *)
(* its station, and it is the station it was on, wherever the new order    *)
(* put it, unless the filters removed that one.                            *)
CursorFollows ==
  was # 0 /\ filtered > 0 =>
    /\ start + cur - 1 \in 1 .. filtered
    /\ cur \in 1 .. Height
    /\ cstation = sort[start + cur - 1]
    /\ (\E k \in 1 .. filtered : sort[k] = was) => cstation = was
=============================================================================
