------------------------------- MODULE DigiPath -------------------------------
(***************************************************************************)
(* The path of one frame on its way through digipeaters of this kind       *)
(* (sta_manager.c: digi_path chooses the field, do_repeat rewrites it).    *)
(* A field is [call, hops, used]: a callsign or an alias, the low half of  *)
(* its last octet, and bit 6 of that octet.  The memory for duplicates is  *)
(* left out: every digipeater hears every copy.                            *)
(***************************************************************************)
EXTENDS Naturals, Sequences, SequencesExt

CONSTANTS
  Digis,    \* digipeaters, by callsign
  Aliases,  \* [alias, type, hoplimit]: the aliases all of them enable
  Paths,    \* paths frames are sent with: sequences of [call, hops, used]
  Ssid      \* the SSID of a digipeater

Simple == 0
Flood == 1
Trace == 2

VARIABLES
  path,     \* the path of the copy that was transmitted last
  origin,   \* history: the path the frame was sent with
  repeats   \* history: how often the frame was repeated

vars == <<path, origin, repeats>>

Init ==
  /\ path \in Paths
  /\ origin = path
  /\ repeats = 0

Used == {k \in DOMAIN path : path[k].used}

(* The first field behind the last used one, 0 if there is none. *)
Free ==
  LET behind == {k \in DOMAIN path : \A u \in Used : u < k}
  IN IF behind = {} THEN 0 ELSE CHOOSE k \in behind : \A l \in behind : k <= l

Own(digi) == [call |-> digi, hops |-> Ssid, used |-> TRUE]

(* One hop less: the half octet wraps around, and a field without hops     *)
(* counts as used and takes the SSID of the digipeater.                    *)
Fewer(field) ==
  LET left == (field.hops + 15) % 16
  IN [field EXCEPT !.hops = IF left = 0 THEN Ssid ELSE left, !.used = left = 0]

(* Mutant: a flooded field keeps its hops. *)
RewrittenKept(p, k, alias, digi) ==
  CASE alias.type = Simple -> [p EXCEPT ![k] = Own(digi)]
    [] alias.type = Flood  -> [p EXCEPT ![k] = p[k]]
    [] alias.type = Trace  -> InsertAt([p EXCEPT ![k] = Fewer(p[k])], k, Own(digi))

(* do_repeat, by the type of the alias. *)
Rewritten(p, k, alias, digi) ==
  CASE alias.type = Simple -> [p EXCEPT ![k] = Own(digi)]
    [] alias.type = Flood  -> [p EXCEPT ![k] = Fewer(p[k])]
    [] alias.type = Trace  -> InsertAt([p EXCEPT ![k] = Fewer(p[k])], k, Own(digi))

Repeat(digi) ==
  /\ Free # 0
  /\ \E alias \in Aliases :
       /\ path[Free].call = alias.alias
       /\ Cardinality(Used) < alias.hoplimit
       /\ path' = Rewritten(path, Free, alias, digi)
  /\ repeats' = repeats + 1
  /\ UNCHANGED origin

Next == \E digi \in Digis : Repeat(digi)

(* The repeats a field is good for: one without hops wraps to 15.          *)
Worth(field) == IF field.used THEN 0 ELSE IF field.hops = 0 THEN 16 ELSE field.hops

(* The repeats a path still allows. *)
Budget(p) ==
  LET upTo[k \in 0 .. Len(p)] == IF k = 0 THEN 0 ELSE upTo[k - 1] + Worth(p[k])
  IN upTo[Len(p)]

(* However many digipeaters hear each other, they do not repeat a frame    *)
(* for ever: every repeat is paid for by a hop of the path it was sent     *)
(* with.                                                                   *)
RepeatsPaid == repeats + Budget(path) <= Budget(origin)
=============================================================================
