------------------------------ MODULE Statistics ------------------------------
(***************************************************************************)
(* The traffic statistics (engine/src/stats_engine.c): two rings of        *)
(* buckets for received frames, rotated by the tick at the first call      *)
(* after a period has passed, by one bucket however late it comes.         *)
(***************************************************************************)
EXTENDS Integers, Sequences

CONSTANTS
  Minutes,   \* buckets of the short ring (HOURLY_BUCKETS)
  Decades,   \* buckets of the long ring (TWENTYH_BUCKETS)
  Period,    \* long periods per short one (10)
  Strides,   \* short periods a tick lets pass
  MaxFrames  \* bound: frames counted per bucket

VARIABLES
  traffic, minute, sinceMinute,   \* traffic_buckets, current_minute_bucket, age of last_bucket_rotate_ms
  htraffic, decade, sinceDecade,  \* htraffic_buckets, current_10min_bucket, age of last_10min_rotate_ms
  minuteLog, decadeLog            \* history: frames between rotations, oldest first

vars == <<traffic, minute, sinceMinute, htraffic, decade, sinceDecade, minuteLog, decadeLog>>

Empty(n) == [i \in 0 .. n - 1 |-> 0]

Init ==
  /\ traffic = Empty(Minutes) /\ minute = 0 /\ sinceMinute = 0
  /\ htraffic = Empty(Decades) /\ decade = 0 /\ sinceDecade = 0
  /\ minuteLog = [i \in 1 .. Minutes |-> 0]
  /\ decadeLog = [i \in 1 .. Decades |-> 0]

-----------------------------------------------------------------------------
(* se_record_rx; the other counters only count. *)
RecordRx ==
  /\ traffic[minute] < MaxFrames /\ htraffic[decade] < MaxFrames
  /\ traffic' = [traffic EXCEPT ![minute] = @ + 1]
  /\ htraffic' = [htraffic EXCEPT ![decade] = @ + 1]
  /\ minuteLog' = [minuteLog EXCEPT ![Minutes] = @ + 1]
  /\ decadeLog' = [decadeLog EXCEPT ![Decades] = @ + 1]
  /\ UNCHANGED <<minute, sinceMinute, decade, sinceDecade>>

(* Mutant: the bucket that is left is cleared, not the one begun. *)
RotatedBehind(ring, at, n) == [ring EXCEPT ![at] = 0]

Rotated(ring, at, n) == [ring EXCEPT ![(at + 1) % n] = 0]

(* The clock advances by "passed" short periods, then se_tick. *)
Tick(passed) ==
  LET minutely == sinceMinute + passed >= 1
      tenfold  == sinceDecade + passed >= Period
  IN
  /\ sinceMinute' = IF minutely THEN 0 ELSE sinceMinute + passed
  /\ minute' = IF minutely THEN (minute + 1) % Minutes ELSE minute
  /\ traffic' = IF minutely THEN Rotated(traffic, minute, Minutes) ELSE traffic
  /\ minuteLog' = IF minutely THEN Append(Tail(minuteLog), 0) ELSE minuteLog
  /\ sinceDecade' = IF tenfold THEN 0 ELSE sinceDecade + passed
  /\ decade' = IF tenfold THEN (decade + 1) % Decades ELSE decade
  /\ htraffic' = IF tenfold THEN Rotated(htraffic, decade, Decades) ELSE htraffic
  /\ decadeLog' = IF tenfold THEN Append(Tail(decadeLog), 0) ELSE decadeLog

Next ==
  \/ RecordRx
  \/ \E passed \in Strides : Tick(passed)

(* se_get_hourly, se_get_20h: asked for fewer buckets than there are, they  *)
(* give the oldest.                                                         *)
Buckets(ring, at, n, asked) == [i \in 1 .. asked |-> ring[(at + i) % n]]

-----------------------------------------------------------------------------
(* What a client draws is the traffic of the newest periods, the oldest     *)
(* first, wherever the rings have wrapped.                                  *)
GraphTrue ==
  /\ Buckets(traffic, minute, Minutes, Minutes) = minuteLog
  /\ Buckets(htraffic, decade, Decades, Decades) = decadeLog
=============================================================================
