--------------------------- MODULE ComponentsProofs ---------------------------
(***************************************************************************)
(* Proofs about the components of Components, for every value of their     *)
(* constants: an inductive invariant of each, kept by its own steps, and   *)
(* so by those of all of them, which leave the others' variables alone.    *)
(***************************************************************************)
EXTENDS Components, SlotsProofs, FiniteSetTheorems

-----------------------------------------------------------------------------
(* Sequences joined one after the other, as FlattenSeq joins them.          *)
Joined(seqs) ==
  LET flatten[i \in 1 .. Len(seqs)] ==
        IF i = 1 THEN seqs[i] ELSE flatten[i - 1] \o seqs[i]
  IN flatten[Len(seqs)]

(* What is joined after each of them.                                       *)
Joins(seqs, Values) ==
  {r \in [1 .. Len(seqs) -> Seq(Values)] :
     r[1] = seqs[1] /\ \A k \in 1 .. Len(seqs) : k # 1 => r[k] = r[k - 1] \o seqs[k]}

(* The joining has its rounds, and ends with what is joined.                *)
LEMMA JoinExists ==
  ASSUME NEW Values, NEW seqs \in Seq(Seq(Values)), seqs # <<>>
  PROVE  \E r \in Joins(seqs, Values) : Joined(seqs) = r[Len(seqs)]
<1> DEFINE n == Len(seqs)
           moves == [k \in 1 .. n |-> [s \in Seq(Values) |-> s \o seqs[k]]]
<1>1. n \in Nat /\ n >= 1 /\ \A k \in 1 .. n : seqs[k] \in Seq(Values)
  OBVIOUS
<1>2. \A s, t \in Seq(Values) : s \o t \in Seq(Values)
  OBVIOUS
<1>3. moves \in [1 .. n -> [Seq(Values) -> Seq(Values)]]
  <2> HIDE DEF n
  <2> QED BY <1>1, <1>2
<1>4. PICK r \in [1 .. n -> Seq(Values)] :
        r[1] = seqs[1] /\ \A k \in 1 .. n : k # 1 => r[k] = moves[k][r[k - 1]]
  <2>1. Runs(1, n, Seq(Values), seqs[1], moves) # {}
    <3>1. 1 \in Int /\ n \in Int /\ 1 <= n /\ seqs[1] \in Seq(Values)
      BY <1>1
    <3> HIDE DEF moves, n
    <3> QED BY <1>3, <3>1, LoopExists
  <2> QED BY <2>1 DEF Runs
<1>5. \A k \in 1 .. n : k # 1 => r[k] = r[k - 1] \o seqs[k]
  <2> SUFFICES ASSUME NEW k \in 1 .. n, k # 1 PROVE r[k] = r[k - 1] \o seqs[k]
    OBVIOUS
  <2>1. k - 1 \in 1 .. n
    BY <1>1
  <2> HIDE DEF n
  <2> QED BY <1>4, <2>1
<1> DEFINE Joint(f) == f = [i \in 1 .. Len(seqs) |-> IF i = 1 THEN seqs[i] ELSE f[i - 1] \o seqs[i]]
           flatten == CHOOSE f : Joint(f)
<1>6. Joint(r)
  <2> HIDE DEF moves
  <2> QED BY <1>1, <1>4, <1>5
<1>7. Joined(seqs) = flatten[Len(seqs)]
  BY DEF Joined
<1>8. Joint(flatten)
  <2> HIDE DEF Joint
  <2> QED BY <1>6
<1> HIDE DEF flatten, moves
<1> DEFINE Good == {k \in 1 .. n : flatten[k] = r[k]}
<1>9. flatten[1] = seqs[1] /\ \A k \in 1 .. n : k # 1 => flatten[k] = flatten[k - 1] \o seqs[k]
  <2>1. \A k \in 1 .. n : flatten[k] = IF k = 1 THEN seqs[k] ELSE flatten[k - 1] \o seqs[k]
    BY Zenon, <1>8
  <2>2. 1 \in 1 .. n
    BY <1>1
  <2> HIDE DEF n
  <2> QED BY Zenon, <2>1, <2>2
<1>10. 1 \in Good /\ 1 \in Int /\ n \in Int
  BY <1>1, <1>4, <1>9
<1>11. \A k \in 1 .. n : k \in Good /\ k < n => k + 1 \in Good
  <2> SUFFICES ASSUME NEW k \in 1 .. n, k \in Good, k < n PROVE k + 1 \in Good
    OBVIOUS
  <2>1. k + 1 \in 1 .. n /\ k + 1 # 1 /\ (k + 1) - 1 = k
    BY <1>1
  <2> HIDE DEF n
  <2>2. flatten[k + 1] = flatten[k] \o seqs[k + 1] /\ r[k + 1] = r[k] \o seqs[k + 1]
    BY <1>5, <1>9, <2>1
  <2> QED BY <2>1, <2>2
<1> HIDE DEF Good
<1>12. \A k \in 1 .. n : k \in Good
  BY <1>10, <1>11, IntervalInduction
<1>13. n \in 1 .. n
  BY <1>1
<1>14. flatten[n] = r[n]
  BY <1>12, <1>13 DEF Good
<1> QED BY <1>4, <1>5, <1>7, <1>14 DEF Joins

(* Two sequences, one behind the other.                                     *)
Follows(c, a, b, Values) ==
  /\ c \in Seq(Values) /\ Len(c) = Len(a) + Len(b)
  /\ \A x \in 1 .. Len(a) : c[x] = a[x]
  /\ \A x \in 1 .. Len(b) : c[Len(a) + x] = b[x]

(* What is joined lies so.                                                *)
LEMMA FollowsBehind ==
  ASSUME NEW Values, NEW a \in Seq(Values), NEW b \in Seq(Values) PROVE Follows(a \o b, a, b, Values)
BY DEF Follows

(* A part of a part is a part of the whole.                                 *)
Within(s, a, b, c, d) ==
  /\ SubSeq(SubSeq(s, a + 1, d), b - a + 1, c - a) = SubSeq(s, b + 1, c)
  /\ Len(SubSeq(s, a + 1, d)) = d - a

(* A part of a part is a part of the whole.                               *)
LEMMA PartOfPart ==
  ASSUME NEW Values, NEW s \in Seq(Values), NEW a \in Nat, NEW b \in Nat, NEW c \in Nat, NEW d \in Nat,
         a <= b, b <= c, c <= d, d <= Len(s)
  PROVE  Within(s, a, b, c, d)
<1> DEFINE t == SubSeq(s, a + 1, d)
           u == SubSeq(t, b - a + 1, c - a)
           v == SubSeq(s, b + 1, c)
<1>1. t \in Seq(Values) /\ Len(t) = d - a /\ \A i \in 1 .. d - a : t[i] = s[(a + 1) + i - 1]
  OBVIOUS
<1>2. v \in Seq(Values) /\ Len(v) = c - b /\ \A i \in 1 .. c - b : v[i] = s[(b + 1) + i - 1]
  OBVIOUS
<1> HIDE DEF t
<1>3. u \in Seq(Values) /\ Len(u) = c - b /\ \A i \in 1 .. c - b : u[i] = t[(b - a + 1) + i - 1]
  BY <1>1
<1> HIDE DEF u, v
<1>4. \A i \in 1 .. c - b : u[i] = v[i]
  <2> SUFFICES ASSUME NEW i \in 1 .. c - b PROVE u[i] = v[i]
    OBVIOUS
  <2>1. /\ (b - a + 1) + i - 1 \in 1 .. d - a
        /\ (a + 1) + ((b - a + 1) + i - 1) - 1 = (b + 1) + i - 1
    OBVIOUS
  <2> QED BY Zenon, <1>1, <1>2, <1>3, <2>1
<1>5. u = v
  BY <1>2, <1>3, <1>4
<1> QED BY Zenon, <1>1, <1>5 DEF Within, t, u, v

(* Two parts, the second from where the first ends.                         *)
LEMMA PartsJoined ==
  ASSUME NEW Values, NEW s \in Seq(Values), NEW a \in Nat, NEW b \in Nat, NEW c \in Nat,
         a <= b, b <= c, c <= Len(s)
  PROVE  SubSeq(s, a + 1, b) \o SubSeq(s, b + 1, c) = SubSeq(s, a + 1, c)
<1> DEFINE u == SubSeq(s, a + 1, b)
           v == SubSeq(s, b + 1, c)
           w == SubSeq(s, a + 1, c)
           x == u \o v
<1>1. u \in Seq(Values) /\ Len(u) = b - a /\ \A i \in 1 .. b - a : u[i] = s[(a + 1) + i - 1]
  OBVIOUS
<1>2. v \in Seq(Values) /\ Len(v) = c - b /\ \A i \in 1 .. c - b : v[i] = s[(b + 1) + i - 1]
  OBVIOUS
<1>3. w \in Seq(Values) /\ Len(w) = c - a /\ \A i \in 1 .. c - a : w[i] = s[(a + 1) + i - 1]
  OBVIOUS
<1> HIDE DEF u, v, w
<1>4. Follows(x, u, v, Values)
  BY Zenon, <1>1, <1>2, FollowsBehind
<1> HIDE DEF x
<1>5. /\ x \in Seq(Values) /\ Len(x) = Len(u) + Len(v)
      /\ \A i \in 1 .. Len(u) : x[i] = u[i]
      /\ \A i \in 1 .. Len(v) : x[Len(u) + i] = v[i]
  BY Zenon, <1>4 DEF Follows
<1>6. Len(x) = Len(w)
  BY <1>1, <1>2, <1>3, <1>5
<1>7. \A i \in 1 .. Len(w) : x[i] = w[i]
  <2> SUFFICES ASSUME NEW i \in 1 .. Len(w) PROVE x[i] = w[i]
    OBVIOUS
  <2>1. CASE i <= b - a
    <3>1. i \in 1 .. b - a /\ i \in 1 .. Len(u) /\ i \in 1 .. c - a
      BY <1>1, <1>3, <2>1
    <3> QED BY Zenon, <1>1, <1>3, <1>5, <3>1
  <2>2. CASE ~(i <= b - a)
    <3> DEFINE j == i - (b - a)
    <3>1. /\ j \in 1 .. c - b /\ j \in 1 .. Len(v) /\ i \in 1 .. c - a /\ Len(u) + j = i
          /\ (b + 1) + j - 1 = (a + 1) + i - 1
      BY <1>1, <1>2, <1>3, <2>2
    <3> HIDE DEF j
    <3> QED BY Zenon, <1>2, <1>3, <1>5, <3>1
  <2> QED BY <2>1, <2>2
<1>8. x = w
  <2>1. \A y, z \in Seq(Values) : Len(y) = Len(z) /\ (\A i \in 1 .. Len(z) : y[i] = z[i]) => y = z
    OBVIOUS
  <2> QED BY Zenon, <1>3, <1>5, <1>6, <1>7, <2>1
<1> QED BY Zenon, <1>8 DEF x, u, v, w

(* The parts of a sequence that grows.                                      *)
LEMMA PartsGrow ==
  ASSUME NEW Values, NEW s \in Seq(Values), NEW t \in Seq(Values), NEW a \in Nat, NEW b \in Nat,
         a <= b, b <= Len(s)
  PROVE  /\ SubSeq(s \o t, a + 1, b) = SubSeq(s, a + 1, b)
         /\ SubSeq(s \o t, b + 1, Len(s \o t)) = SubSeq(s, b + 1, Len(s)) \o t
<1> DEFINE x == s \o t
<1>1. x \in Seq(Values) /\ Len(x) = Len(s) + Len(t) /\ Len(s) \in Nat /\ Len(t) \in Nat
      /\ \A i \in 1 .. Len(s) : x[i] = s[i]
  OBVIOUS
<1>2. SubSeq(x, Len(s) + 1, Len(x)) = t
  <2> DEFINE y == SubSeq(x, Len(s) + 1, Len(x))
  <2>1. y \in Seq(Values) /\ Len(y) = Len(t) /\ \A i \in 1 .. Len(t) : y[i] = t[i]
    OBVIOUS
  <2> HIDE DEF x, y
  <2>2. \A u, v \in Seq(Values) : Len(u) = Len(v) /\ (\A i \in 1 .. Len(v) : u[i] = v[i]) => u = v
    OBVIOUS
  <2> QED BY Zenon, <2>1, <2>2 DEF y
<1> HIDE DEF x
<1>3. \A c \in Nat : c <= Len(s) => \A d \in Nat : d <= c => SubSeq(x, d + 1, c) = SubSeq(s, d + 1, c)
  <2> SUFFICES ASSUME NEW c \in Nat, c <= Len(s), NEW d \in Nat, d <= c
               PROVE  SubSeq(x, d + 1, c) = SubSeq(s, d + 1, c)
    OBVIOUS
  <2> DEFINE u == SubSeq(x, d + 1, c)
             v == SubSeq(s, d + 1, c)
  <2>1. /\ u \in Seq(Values) /\ v \in Seq(Values) /\ Len(u) = c - d /\ Len(v) = c - d
        /\ \A i \in 1 .. c - d : u[i] = x[(d + 1) + i - 1] /\ v[i] = s[(d + 1) + i - 1]
    BY <1>1
  <2> HIDE DEF u, v
  <2>2. \A i \in 1 .. Len(v) : u[i] = v[i]
    <3> SUFFICES ASSUME NEW i \in 1 .. Len(v) PROVE u[i] = v[i]
      OBVIOUS
    <3>1. i \in 1 .. c - d /\ (d + 1) + i - 1 \in 1 .. Len(s)
      BY <1>1, <2>1
    <3> QED BY Zenon, <1>1, <2>1, <3>1
  <2>3. u = v
    BY <2>1, <2>2
  <2> QED BY Zenon, <2>3 DEF u, v
<1>4. SubSeq(x, b + 1, Len(s)) \o SubSeq(x, Len(s) + 1, Len(x)) = SubSeq(x, b + 1, Len(x))
  <2>1. Len(s) <= Len(x) /\ Len(x) \in Nat /\ Len(x) <= Len(x)
    BY <1>1
  <2>2. \A i, j, k \in Nat : i <= j /\ j <= k /\ k <= Len(x)
                             => SubSeq(x, i + 1, j) \o SubSeq(x, j + 1, k) = SubSeq(x, i + 1, k)
    <3>1. x \in Seq(Values)
      BY Zenon, <1>1
    <3> QED BY <3>1, PartsJoined
  <2> DEFINE l == Len(s)
             m == Len(x)
  <2>3. l \in Nat /\ m \in Nat /\ b <= l /\ l <= m /\ m <= Len(x)
    BY Zenon, <1>1, <2>1
  <2> HIDE DEF l, m
  <2>4. SubSeq(x, b + 1, l) \o SubSeq(x, l + 1, m) = SubSeq(x, b + 1, m)
    BY Zenon, <2>2, <2>3
  <2> QED BY Zenon, <2>4 DEF l, m
<1>5. Len(s) <= Len(s)
  BY <1>1
<1> QED BY Zenon, <1>1, <1>2, <1>3, <1>4, <1>5 DEF x
-----------------------------------------------------------------------------
(* Remote control.  A key is its seed and its position: two positions never *)
(* have the same one.                                                       *)
KeysTyped ==
  /\ rem_enabled \subseteq R!Positions
  /\ rem_running \in Seq(R!Positions)
  /\ DOMAIN rem_keys = R!Positions
  /\ \A i \in rem_enabled : \E seed : rem_keys[i] = <<seed, i>>

RemoteInv == KeysTyped /\ R!UsedOnlyInside

(* A key that is looked for has a first position. *)
LEMMA HolderHolds ==
  ASSUME RemoteInv, NEW key, R!Holders(key) # {}
  PROVE  R!Holder(key) \in rem_enabled /\ rem_keys[R!Holder(key)] = key
<1>1. R!Holders(key) \in SUBSET Nat
  <2>1. R!Holders(key) \subseteq rem_enabled
    BY DEF R!Holders
  <2>2. rem_enabled \subseteq 1 .. RemoteKeys
    BY DEF R!Positions, RemoteInv, KeysTyped
  <2>3. \A i \in 1 .. RemoteKeys : i \in Nat
    BY RemoteAssumption
  <2>4. \A i \in R!Holders(key) : i \in Nat
    BY <2>1, <2>2, <2>3
  <2> QED BY <2>4
<1>2. PICK i \in R!Holders(key) : \A j \in R!Holders(key) : i <= j
  BY <1>1, LeastNatural
<1>3. R!Holder(key) \in R!Holders(key)
  BY <1>2 DEF R!Holder
<1> QED BY <1>3 DEF R!Holders

(* Before the first keys nothing is on. *)
LEMMA RemoteInit == R!Init => RemoteInv
BY DEF R!Init, RemoteInv, KeysTyped, R!UsedOnlyInside

(* Every step of the remote control keeps its invariant. *)
LEMMA RemoteNext == RemoteInv /\ R!Next => RemoteInv'
<1> SUFFICES ASSUME RemoteInv, R!Next PROVE RemoteInv'
  OBVIOUS
<1>1. ASSUME NEW seed \in Seeds, R!Generate(seed) PROVE RemoteInv'
  <2>1. \A i \in R!Positions : rem_keys'[i] = <<seed, i>>
    BY <1>1 DEF R!Generate
  <2>2. KeysTyped'
    BY <1>1, <2>1 DEF R!Generate, RemoteInv, KeysTyped
  <2>3. R!UsedOnlyInside'
    BY <1>1, <2>1 DEF R!Generate, R!UsedOnlyInside
  <2> QED BY <2>2, <2>3 DEF RemoteInv
<1>2. ASSUME NEW key, NEW command, R!Begin(key, command) PROVE RemoteInv'
  <2> DEFINE h == R!Holder(key)
  <2>1. h \in rem_enabled /\ rem_keys[h] = key
    BY <1>2, HolderHolds DEF R!Begin
  <2>2. /\ rem_running' = <<h>> \o rem_running
        /\ rem_keys' = rem_keys /\ rem_enabled' = rem_enabled
        /\ rem_used' = rem_used \cup {key}
    BY <1>2 DEF R!Begin
  <2> HIDE DEF h
  <2>3. /\ rem_running' \in Seq(R!Positions)
        /\ 1 \in DOMAIN rem_running' /\ rem_running'[1] = h
        /\ \A d \in DOMAIN rem_running :
             d + 1 \in DOMAIN rem_running' /\ rem_running'[d + 1] = rem_running[d]
    BY <2>1, <2>2 DEF RemoteInv, KeysTyped
  <2>4. KeysTyped'
    BY <2>2, <2>3 DEF RemoteInv, KeysTyped
  <2>5. ASSUME NEW j \in rem_enabled', rem_keys'[j] \in rem_used'
        PROVE  \E d \in DOMAIN rem_running' : rem_running'[d] = j
    <3>1. CASE j = h
      BY <2>3, <3>1
    <3>2. CASE j # h
      <4>1. rem_keys[j] # key
        BY <2>1, <2>2, <2>5, <3>2 DEF RemoteInv, KeysTyped
      <4>2. PICK d \in DOMAIN rem_running : rem_running[d] = j
        BY <2>2, <2>5, <4>1 DEF RemoteInv, R!UsedOnlyInside
      <4> QED BY <2>3, <4>2
    <3> QED BY <3>1, <3>2
  <2>6. R!UsedOnlyInside'
    BY <2>5 DEF R!UsedOnlyInside
  <2> QED BY <2>4, <2>6 DEF RemoteInv
<1>3. ASSUME R!End PROVE RemoteInv'
  <2> DEFINE l == Head(rem_running)
  <2>1. rem_keys' = rem_keys /\ rem_enabled' = rem_enabled \ {l} /\ rem_used' = rem_used
    BY <1>3 DEF R!End
  <2>2. rem_running' \in Seq(R!Positions)
        /\ \A d \in DOMAIN rem_running :
             \/ rem_running[d] = l
             \/ d - 1 \in DOMAIN rem_running' /\ rem_running'[d - 1] = rem_running[d]
    BY <1>3 DEF R!End, RemoteInv, KeysTyped
  <2> HIDE DEF l
  <2>3. KeysTyped'
    BY <2>1, <2>2 DEF RemoteInv, KeysTyped
  <2>4. ASSUME NEW j \in rem_enabled', rem_keys'[j] \in rem_used'
        PROVE  \E d \in DOMAIN rem_running' : rem_running'[d] = j
    <3>1. j # l /\ \E d \in DOMAIN rem_running : rem_running[d] = j
      BY <2>1, <2>4 DEF RemoteInv, R!UsedOnlyInside
    <3> QED BY <2>2, <3>1
  <2>5. R!UsedOnlyInside'
    BY <2>4 DEF R!UsedOnlyInside
  <2> QED BY <2>3, <2>5 DEF RemoteInv
<1>4. ASSUME NEW key, R!Status(key) PROVE RemoteInv'
  <2> DEFINE h == R!Holder(key)
  <2>1. h \in rem_enabled /\ rem_keys[h] = key
    BY <1>4, HolderHolds DEF R!Status
  <2>2. rem_keys' = rem_keys /\ rem_enabled' = rem_enabled \ {h}
        /\ rem_running' = rem_running /\ rem_used' = rem_used \cup {key}
    BY <1>4 DEF R!Status
  <2> HIDE DEF h
  <2>3. KeysTyped'
    BY <2>2 DEF RemoteInv, KeysTyped
  <2>4. ASSUME NEW j \in rem_enabled', rem_keys'[j] \in rem_used'
        PROVE  \E d \in DOMAIN rem_running' : rem_running'[d] = j
    <3>1. j # h /\ rem_keys[j] # key
      BY <2>1, <2>2, <2>4 DEF RemoteInv, KeysTyped
    <3> QED BY <2>2, <2>4, <3>1 DEF RemoteInv, R!UsedOnlyInside
  <2>5. R!UsedOnlyInside'
    BY <2>4 DEF R!UsedOnlyInside
  <2> QED BY <2>3, <2>5 DEF RemoteInv
<1>5. ASSUME NEW sending, NEW repeating, R!SetConfig(sending, repeating) PROVE RemoteInv'
  BY <1>5 DEF R!SetConfig, RemoteInv, KeysTyped, R!UsedOnlyInside
<1> QED BY <1>1, <1>2, <1>3, <1>4, <1>5 DEF R!Next

-----------------------------------------------------------------------------
(* Queries.  What is outstanding is counted by the keys that are on. *)
KeysOn == {k \in U!Positions : qry_keys[k].enable}

QueryInv ==
  /\ qry_keys \in [U!Positions -> [made : KeyTimes \cup {0}, enable : BOOLEAN]]
  /\ qry_made \in Nat
  /\ qry_answered \in Nat
  /\ U!AnsweredOnce

(* A code counts for one. *)
CodeOut == IF qry_code = U!NoCode THEN 0 ELSE 1

(* What is outstanding are the keys that can be used and the code that is.*)
LEMMA OutstandingIs == U!Outstanding = Cardinality(KeysOn) + CodeOut
<1>1. \A Values : U!Cardinality(Values) = Cardinality(Values)
  BY DEF U!Cardinality, Cardinality
<1> QED BY <1>1 DEF U!Outstanding, KeysOn, CodeOut

(* There are no more keys on than positions, in any state. *)
LEMMA PositionsFinite ==
  /\ IsFiniteSet(U!Positions)
  /\ Cardinality(U!Positions) = QueryKeys
  /\ \A Values \in SUBSET U!Positions : IsFiniteSet(Values) /\ Cardinality(Values) \in Nat
<1>1. 1 \in Int /\ QueryKeys \in Int
  BY QueryAssumption
<1>2. IsFiniteSet(U!Positions) /\ Cardinality(U!Positions) = QueryKeys
  BY <1>1, QueryAssumption, FS_Interval DEF U!Positions
<1>3. ASSUME NEW Values \in SUBSET U!Positions PROVE IsFiniteSet(Values) /\ Cardinality(Values) \in Nat
  BY <1>2, FS_Subset, FS_CardinalityType
<1> QED BY <1>2, <1>3

(* The state of the queries in numbers. *)
LEMMA Counted ==
  ASSUME QueryInv
  PROVE  /\ IsFiniteSet(KeysOn) /\ Cardinality(KeysOn) \in Nat
         /\ CodeOut \in 0 .. 1
         /\ qry_answered + Cardinality(KeysOn) + CodeOut <= qry_made
<1>1. KeysOn \in SUBSET U!Positions
  BY DEF KeysOn
<1>2. IsFiniteSet(KeysOn) /\ Cardinality(KeysOn) \in Nat
  BY <1>1, PositionsFinite
<1>3. qry_answered + (Cardinality(KeysOn) + CodeOut) <= qry_made
  BY OutstandingIs DEF QueryInv, U!AnsweredOnce
<1> QED BY <1>2, <1>3 DEF QueryInv, CodeOut

(* The same of the next state. *)
LEMMA CountedNext ==
  ASSUME qry_answered' + Cardinality(KeysOn)' + CodeOut' <= qry_made',
         qry_answered' \in Nat, Cardinality(KeysOn)' \in Nat, CodeOut' \in 0 .. 1
  PROVE  U!AnsweredOnce'
<1>1. U!Outstanding' = Cardinality(KeysOn)' + CodeOut'
  <2>1. \A Values : U!Cardinality(Values) = Cardinality(Values)
    BY DEF U!Cardinality, Cardinality
  <2> QED BY <2>1 DEF U!Outstanding, KeysOn, CodeOut
<1> QED BY <1>1 DEF U!AnsweredOnce

(* Before the first keys nothing is outstanding. *)
LEMMA QueryInit == U!Init => QueryInv
<1> SUFFICES ASSUME U!Init PROVE QueryInv
  OBVIOUS
<1>1. KeysOn = {} /\ CodeOut = 0
  BY DEF U!Init, KeysOn, CodeOut
<1>2. U!Outstanding = 0
  BY <1>1, OutstandingIs, FS_EmptySet
<1> QED BY <1>2 DEF U!Init, QueryInv, U!AnsweredOnce

(* Every query, command and key of the screen keeps it. *)
LEMMA QueryNext == QueryInv /\ U!Next => QueryInv'
<1> SUFFICES ASSUME QueryInv, U!Next PROVE QueryInv'
  OBVIOUS
<1> USE Counted
<1>1. ASSUME NEW t \in KeyTimes, U!MakeKeys(t) PROVE QueryInv'
  <2>1. qry_keys' = [k \in U!Positions |-> [made |-> t, enable |-> TRUE]]
        /\ qry_made' = qry_made + QueryKeys /\ CodeOut' = CodeOut
        /\ qry_answered' = qry_answered
    BY <1>1 DEF U!MakeKeys, CodeOut
  <2>2. KeysOn' = U!Positions
    BY <2>1 DEF KeysOn
  <2>3. Cardinality(KeysOn)' = QueryKeys
    BY <2>2, PositionsFinite
  <2>4. U!AnsweredOnce'
    BY <2>1, <2>3, QueryAssumption, CountedNext DEF QueryInv
  <2> QED BY <2>1, <2>4, QueryAssumption DEF QueryInv
<1>2. ASSUME qry_keys' = qry_keys PROVE KeysOn' = KeysOn /\ Cardinality(KeysOn)' = Cardinality(KeysOn)
  BY <1>2 DEF KeysOn
<1>3. CASE U!AskCode
  <2>1. qry_keys' = qry_keys /\ qry_made' = qry_made + 1 /\ qry_answered' = qry_answered
    BY <1>3 DEF U!AskCode
  <2>2. CodeOut' \in 0 .. 1
    BY DEF CodeOut
  <2>3. U!AnsweredOnce'
    BY <1>2, <2>1, <2>2, CountedNext DEF QueryInv
  <2> QED BY <2>1, <2>3 DEF QueryInv
<1>4. ASSUME NEW c \in Codes, U!UseCode(c) PROVE QueryInv'
  <2>1. /\ qry_keys' = qry_keys /\ qry_made' = qry_made
        /\ qry_answered' \in {qry_answered, qry_answered + 1}
        /\ CodeOut = 1 /\ CodeOut' = 0
    BY <1>4 DEF U!UseCode, CodeOut
  <2>2. qry_answered' \in Nat
    BY <2>1 DEF QueryInv
  <2>3. U!AnsweredOnce'
    BY <1>2, <2>1, <2>2, CountedNext DEF QueryInv
  <2> QED BY <2>1, <2>2, <2>3 DEF QueryInv
<1>5. ASSUME NEW t \in KeyTimes, NEW k \in U!Positions, NEW command, U!Execute(t, k, command)
      PROVE  QueryInv'
  <2>1. /\ qry_keys[k].enable = TRUE /\ qry_keys' = [qry_keys EXCEPT ![k].enable = FALSE]
        /\ qry_made' = qry_made /\ qry_answered' = qry_answered + 1 /\ CodeOut' = CodeOut
    BY <1>5 DEF U!Execute, CodeOut
  <2>2. qry_keys' \in [U!Positions -> [made : KeyTimes \cup {0}, enable : BOOLEAN]]
    BY <2>1 DEF QueryInv
  <2>3. \A j \in U!Positions : qry_keys'[j].enable <=> j # k /\ qry_keys[j].enable
    BY <2>1 DEF QueryInv
  <2>4. KeysOn' = KeysOn \ {k} /\ k \in KeysOn
    BY <2>1, <2>3 DEF KeysOn
  <2>5. Cardinality(KeysOn)' = Cardinality(KeysOn) - 1 /\ Cardinality(KeysOn)' \in Nat
    <3>1. Cardinality(KeysOn \ {k}) = Cardinality(KeysOn) - 1
      BY <2>4, FS_RemoveElement
    <3>2. Cardinality(KeysOn \ {k}) \in Nat
      BY PositionsFinite DEF KeysOn
    <3> QED BY <2>4, <3>1, <3>2
  <2>6. U!AnsweredOnce'
    BY <2>1, <2>5, CountedNext DEF QueryInv
  <2> QED BY <2>1, <2>2, <2>6 DEF QueryInv
<1>6. CASE U!General \/ U!BeaconDue \/ U!TxOption
  <2>1. UNCHANGED <<qry_keys, qry_code, qry_made, qry_answered>>
    BY <1>6 DEF U!General, U!BeaconDue, U!TxOption
  <2> QED BY <2>1 DEF QueryInv, U!AnsweredOnce, U!Outstanding
<1> QED BY <1>1, <1>3, <1>4, <1>5, <1>6 DEF U!Next

-----------------------------------------------------------------------------
(* Frame ingest.  What was counted last of a sender has two fields. *)
IngestInv ==
  /\ \E Values : ing_seen \in Seq(Values)
  /\ DOMAIN ing_counted = Senders
  /\ \A s \in Senders : \E c, a : ing_counted[s] = [crc |-> c, age |-> a]
  /\ \A i \in DOMAIN ing_seen : ing_seen[i].src \in Senders
  /\ I!MemoryExact

(* A function on 1 .. n is a sequence. *)
LEMMA FunctionIsSeq ==
  ASSUME NEW n \in Nat, NEW g, g = [i \in 1 .. n |-> g[i]]
  PROVE  \E Values : g \in Seq(Values)
<1> DEFINE Values == {g[i] : i \in 1 .. n}
<1>1. \A i \in 1 .. n : g[i] \in Values
  OBVIOUS
<1> HIDE DEF Values
<1>2. g \in [1 .. n -> Values]
  BY <1>1
<1>3. g \in Seq(Values)
  BY <1>2
<1> QED BY <1>3

(* An entry of the table in terms of what was counted. *)
LEMMA Remembers ==
  ASSUME IngestInv, NEW i \in DOMAIN ing_seen
  PROVE  LET s == ing_seen[i].src
         IN  /\ s \in Senders
             /\ ing_seen[i] = [src |-> s, crc |-> ing_counted[s].crc, age |-> ing_counted[s].age]
             /\ \A j \in DOMAIN ing_seen : ing_seen[j].src = s => j = i
<1>1. I!Entries(ing_seen[i].src) = {i}
  BY DEF IngestInv, I!MemoryExact
<1> QED BY <1>1 DEF IngestInv, I!MemoryExact, I!Entries

(* The same facts establish it. *)
LEMMA Exact ==
  ASSUME \A i \in DOMAIN ing_seen' :
           LET s == ing_seen'[i].src
           IN  /\ ing_seen'[i] = [src |-> s, crc |-> ing_counted'[s].crc,
                                  age |-> ing_counted'[s].age]
               /\ \A j \in DOMAIN ing_seen' : ing_seen'[j].src = s => j = i
  PROVE  I!MemoryExact'
<1>1. ASSUME NEW i \in DOMAIN ing_seen' PROVE I!Entries(ing_seen[i].src)' = {i}
  BY <1>1 DEF I!Entries
<1> QED BY <1>1 DEF I!MemoryExact

(* No sender is remembered before the first frame. *)
LEMMA IngestInit == I!Init => IngestInv
<1> SUFFICES ASSUME I!Init PROVE IngestInv
  OBVIOUS
<1>1. ing_seen = <<>> /\ DOMAIN ing_seen = {} /\ ing_seen \in Seq({})
  BY DEF I!Init
<1>2. I!MemoryExact
  BY <1>1 DEF I!MemoryExact
<1> QED BY <1>1, <1>2 DEF I!Init, IngestInv

(* A frame that is taken is remembered by its sender's only entry, by a new *)
(* one, or not at all in a full table.                                      *)
LEMMA TakeKeeps ==
  ASSUME IngestInv, NEW f \in HeardFrames, I!Take(f)
  PROVE  IngestInv'
<1> DEFINE new   == [crc |-> f.crc, age |-> 0]
           entry == [src |-> f.src, crc |-> f.crc, age |-> 0]
<1>1. f.src \in Senders
  BY IngestAssumption
<1>2. CASE I!Repeated(f)
  <2>1. ing_seen' = ing_seen /\ ing_counted' = ing_counted
    BY <1>2 DEF I!Take, I!Remembered
  <2>2. I!MemoryExact'
    BY <2>1, Remembers, Exact
  <2> QED BY <2>1, <2>2 DEF IngestInv
<1>3. CASE ~I!Repeated(f)
  <2>1. ing_counted' = [ing_counted EXCEPT ![f.src] = new]
    BY <1>3 DEF I!Take
  <2>2. /\ ing_counted'[f.src] = new /\ DOMAIN ing_counted' = Senders
        /\ \A s \in Senders \ {f.src} : ing_counted'[s] = ing_counted[s]
    BY <1>1, <2>1 DEF IngestInv
  <2>3. \A s \in Senders : \E c, a : ing_counted'[s] = [crc |-> c, age |-> a]
    BY <2>2 DEF IngestInv
  <2>4. CASE I!Entries(f.src) # {}
    <3>1. ing_seen' = [i \in DOMAIN ing_seen |-> IF i \in I!Entries(f.src) THEN entry ELSE ing_seen[i]]
      BY <1>3, <2>4 DEF I!Take, I!Remembered
    <3>2. \A i \in DOMAIN ing_seen : i \in I!Entries(f.src) <=> ing_seen[i].src = f.src
      BY DEF I!Entries
    <3>3. DOMAIN ing_seen' = DOMAIN ing_seen
          /\ \A i \in DOMAIN ing_seen : ing_seen'[i].src = ing_seen[i].src
      BY <3>1, <3>2
    <3>4. \A i \in DOMAIN ing_seen :
            ing_seen'[i] = [src |-> ing_seen[i].src, crc |-> ing_counted'[ing_seen[i].src].crc,
                            age |-> ing_counted'[ing_seen[i].src].age]
      BY <2>2, <3>1, <3>2, Remembers
    <3>5. I!MemoryExact'
      BY <3>3, <3>4, Remembers, Exact
    <3>6. \E Values : ing_seen' \in Seq(Values)
      <4>1. DOMAIN ing_seen = 1 .. Len(ing_seen) /\ Len(ing_seen) \in Nat
        BY DEF IngestInv
      <4>2. ing_seen' = [i \in 1 .. Len(ing_seen) |-> ing_seen'[i]]
        BY <3>1, <4>1
      <4> QED BY <4>1, <4>2, FunctionIsSeq
    <3> QED BY <2>2, <2>3, <3>3, <3>5, <3>6 DEF IngestInv
  <2>5. CASE I!Entries(f.src) = {} /\ Len(ing_seen) < SeenCapacity
    <3> DEFINE n == Len(ing_seen) + 1
    <3>1. ing_seen' = Append(ing_seen, entry)
      BY <1>3, <2>5 DEF I!Take, I!Remembered
    <3>2. \A i \in DOMAIN ing_seen : ing_seen[i].src # f.src
      BY <2>5 DEF I!Entries
    <3>3. PICK Values : ing_seen \in Seq(Values)
      BY DEF IngestInv
    <3>4. /\ DOMAIN ing_seen' = DOMAIN ing_seen \cup {n}
          /\ n \notin DOMAIN ing_seen
          /\ ing_seen'[n] = entry
          /\ \A i \in DOMAIN ing_seen : ing_seen'[i] = ing_seen[i]
      BY <3>1, <3>3
    <3>5. I!MemoryExact'
      BY <2>2, <3>2, <3>4, Remembers, Exact
    <3>6. \E Others : ing_seen' \in Seq(Others)
      <4>1. ing_seen \in Seq(Values \cup {entry}) /\ entry \in Values \cup {entry}
        BY <3>3
      <4>2. ing_seen' \in Seq(Values \cup {entry})
        BY <3>1, <4>1
      <4> QED BY <4>2
    <3>7. \A i \in DOMAIN ing_seen' : ing_seen'[i].src \in Senders
      BY <1>1, <3>4 DEF IngestInv
    <3> QED BY <2>2, <2>3, <3>5, <3>6, <3>7 DEF IngestInv
  <2>6. CASE I!Entries(f.src) = {} /\ ~(Len(ing_seen) < SeenCapacity)
    <3>1. ing_seen' = ing_seen
      BY <1>3, <2>6 DEF I!Take, I!Remembered
    <3>2. \A i \in DOMAIN ing_seen : ing_seen[i].src # f.src
      BY <2>6 DEF I!Entries
    <3>3. I!MemoryExact'
      BY <2>2, <3>1, <3>2, Remembers, Exact
    <3> QED BY <2>2, <2>3, <3>1, <3>3 DEF IngestInv
  <2> QED BY <2>4, <2>5, <2>6
<1> QED BY <1>2, <1>3

(* Time passes for the entries as for what they remember. *)
LEMMA TickKeeps == IngestInv /\ I!Tick => IngestInv'
<1> SUFFICES ASSUME IngestInv, I!Tick PROVE IngestInv'
  OBVIOUS
<1> DEFINE older(a) == IF a < Window THEN a + 1 ELSE a
<1>1. /\ ing_seen' = [i \in DOMAIN ing_seen |-> I!Older(ing_seen[i])]
      /\ ing_counted' = [s \in Senders |-> I!Older(ing_counted[s])]
  BY DEF I!Tick
<1>2. \A i \in DOMAIN ing_seen :
        ing_seen'[i] = [src |-> ing_seen[i].src, crc |-> ing_seen[i].crc,
                        age |-> older(ing_seen[i].age)]
  BY <1>1, Remembers DEF I!Older
<1>3. ASSUME NEW s \in Senders
      PROVE  /\ ing_counted'[s] = [crc |-> ing_counted[s].crc, age |-> older(ing_counted[s].age)]
             /\ ing_counted'[s].crc = ing_counted[s].crc
             /\ ing_counted'[s].age = older(ing_counted[s].age)
  <2>1. PICK c, a : ing_counted[s] = [crc |-> c, age |-> a]
    BY DEF IngestInv
  <2> QED BY <1>1, <2>1 DEF I!Older
<1> HIDE DEF older
<1>4. DOMAIN ing_seen' = DOMAIN ing_seen
      /\ \A i \in DOMAIN ing_seen : ing_seen'[i].src = ing_seen[i].src
  BY <1>1, <1>2
<1>5. \A i \in DOMAIN ing_seen :
        ing_seen'[i] = [src |-> ing_seen[i].src, crc |-> ing_counted'[ing_seen[i].src].crc,
                        age |-> ing_counted'[ing_seen[i].src].age]
  <2> SUFFICES ASSUME NEW i \in DOMAIN ing_seen, NEW s, s = ing_seen[i].src
               PROVE  ing_seen'[i] = [src |-> s, crc |-> ing_counted'[s].crc,
                                      age |-> ing_counted'[s].age]
    OBVIOUS
  <2>1. s \in Senders /\ ing_seen[i].crc = ing_counted[s].crc /\ ing_seen[i].age = ing_counted[s].age
    BY Remembers
  <2>2. ing_counted'[s].crc = ing_counted[s].crc /\ ing_counted'[s].age = older(ing_counted[s].age)
    BY <1>3, <2>1
  <2> QED BY <1>2, <2>1, <2>2
<1>6. I!MemoryExact'
  BY <1>4, <1>5, Remembers, Exact
<1>7. \E Values : ing_seen' \in Seq(Values)
  <2>1. DOMAIN ing_seen = 1 .. Len(ing_seen) /\ Len(ing_seen) \in Nat
    BY DEF IngestInv
  <2>2. ing_seen' = [i \in 1 .. Len(ing_seen) |-> ing_seen'[i]]
    BY <1>1, <2>1
  <2> QED BY <2>1, <2>2, FunctionIsSeq
<1> QED BY <1>1, <1>3, <1>4, <1>6, <1>7 DEF IngestInv

(* Every step of the ingest keeps it. *)
LEMMA IngestNext == IngestInv /\ I!Next => IngestInv'
<1> SUFFICES ASSUME IngestInv, I!Next PROVE IngestInv'
  OBVIOUS
<1>1. ASSUME UNCHANGED <<ing_seen, ing_counted>> PROVE IngestInv'
  BY <1>1 DEF IngestInv, I!MemoryExact, I!Entries
<1>2. ASSUME NEW f \in HeardFrames, I!Refuse(f) PROVE IngestInv'
  BY <1>1, <1>2 DEF I!Refuse
<1>3. ASSUME NEW drop, I!SetFilter(drop) PROVE IngestInv'
  BY <1>1, <1>3 DEF I!SetFilter
<1> QED BY <1>2, <1>3, TakeKeeps, TickKeeps DEF I!Next

-----------------------------------------------------------------------------
(* Statistics.  The position k behind "at" in a ring of n buckets. *)
Behind(at, k, n) == IF at + k < n THEN at + k ELSE at + k - n

(* Within two turns of a ring, % subtracts its length at most once. *)
LEMMA Turn ==
  ASSUME NEW n \in Nat \ {0}, NEW a \in Nat, a < n + n
  PROVE  a % n = IF a < n THEN a ELSE a - n
<1>1. CASE a < n
  BY <1>1, SMT
<1>2. CASE a >= n
  BY <1>2, SMT
<1> QED BY <1>1, <1>2

(* Positions of a ring need no remainder. *)
LEMMA RingPosition ==
  ASSUME NEW n \in Nat \ {0}, NEW at \in 0 .. n - 1, NEW k \in 0 .. n
  PROVE  (at + k) % n = Behind(at, k, n) /\ Behind(at, k, n) \in 0 .. n - 1
<1> DEFINE m == at + k
<1>1. m \in Nat /\ m < n + n
  OBVIOUS
<1> HIDE DEF m
<1>2. m % n = IF m < n THEN m ELSE m - n
  BY <1>1, Turn
<1> USE DEF m
<1> QED BY <1>1, <1>2 DEF Behind

(* A ring of n buckets, the current one at "at", holds what the log says,   *)
(* the oldest bucket first.                                                 *)
Draws(ring, at, n, log) ==
  /\ ring \in [0 .. n - 1 -> Nat]
  /\ at \in 0 .. n - 1
  /\ log \in Seq(Nat) /\ Len(log) = n
  /\ \A i \in 1 .. n : ring[Behind(at, i, n)] = log[i]

StatInv ==
  /\ Draws(stat_traffic, stat_minute, Minutes, stat_minuteLog)
  /\ Draws(stat_htraffic, stat_decade, Decades, stat_decadeLog)

(* A frame is counted in the current bucket, which is drawn last. *)
LEMMA CountDraws ==
  ASSUME NEW n \in Nat \ {0}, NEW ring, NEW at, NEW log, Draws(ring, at, n, log)
  PROVE  Draws([ring EXCEPT ![at] = @ + 1], at, n, [log EXCEPT ![n] = @ + 1])
<1> DEFINE r == [ring EXCEPT ![at] = @ + 1]
           l == [log EXCEPT ![n] = @ + 1]
<1>1. /\ ring \in [0 .. n - 1 -> Nat] /\ at \in 0 .. n - 1
      /\ log \in Seq(Nat) /\ Len(log) = n
      /\ \A i \in 1 .. n : ring[Behind(at, i, n)] = log[i]
  BY DEF Draws
<1>2. r \in [0 .. n - 1 -> Nat] /\ r[at] = ring[at] + 1
      /\ \A j \in 0 .. n - 1 : j # at => r[j] = ring[j]
  BY <1>1
<1>3. l \in Seq(Nat) /\ Len(l) = n /\ l[n] = log[n] + 1
      /\ \A i \in 1 .. n : i # n => l[i] = log[i]
  BY <1>1
<1> HIDE DEF r, l
<1>4. Behind(at, n, n) = at
  BY <1>1 DEF Behind
<1>5. \A i \in 1 .. n : i # n => Behind(at, i, n) # at /\ Behind(at, i, n) \in 0 .. n - 1
  BY <1>1 DEF Behind
<1>6. ASSUME NEW i \in 1 .. n PROVE r[Behind(at, i, n)] = l[i]
  <2>1. ring[Behind(at, i, n)] = log[i]
    BY <1>1
  <2>2. CASE i = n
    BY <1>2, <1>3, <1>4, <2>1, <2>2
  <2>3. CASE i # n
    BY <1>2, <1>3, <1>5, <2>1, <2>3
  <2> QED BY <2>2, <2>3
<1>7. Draws(r, at, n, l)
  BY <1>1, <1>2, <1>3, <1>6 DEF Draws
<1> QED BY <1>7 DEF r, l

(* The oldest bucket becomes the current one, empty, and the log moves on. *)
LEMMA RotationDraws ==
  ASSUME NEW n \in Nat \ {0}, NEW ring, NEW at, NEW log, Draws(ring, at, n, log)
  PROVE  Draws([ring EXCEPT ![(at + 1) % n] = 0], (at + 1) % n, n, Append(Tail(log), 0))
<1> DEFINE b == Behind(at, 1, n)
           r == [ring EXCEPT ![b] = 0]
           l == Append(Tail(log), 0)
<1>1. /\ ring \in [0 .. n - 1 -> Nat] /\ at \in 0 .. n - 1
      /\ log \in Seq(Nat) /\ Len(log) = n
      /\ \A i \in 1 .. n : ring[Behind(at, i, n)] = log[i]
  BY DEF Draws
<1>2. (at + 1) % n = b /\ b \in 0 .. n - 1
  <2>1. 1 \in 0 .. n
    OBVIOUS
  <2> QED BY <1>1, <2>1, RingPosition
<1>3. r \in [0 .. n - 1 -> Nat] /\ r[b] = 0
      /\ \A j \in 0 .. n - 1 : j # b => r[j] = ring[j]
  BY <1>1, <1>2
<1>4. l \in Seq(Nat) /\ Len(l) = n /\ l[n] = 0
      /\ \A i \in 1 .. n : i # n => l[i] = log[i + 1]
  <2>1. Tail(log) \in Seq(Nat) /\ Len(Tail(log)) = n - 1
        /\ \A i \in 1 .. n - 1 : Tail(log)[i] = log[i + 1]
    BY <1>1
  <2> QED BY <2>1
<1> HIDE DEF r, l
<1>5. Behind(b, n, n) = b
  BY <1>2 DEF Behind
<1>6. \A i \in 1 .. n : i # n =>
        /\ Behind(b, i, n) = Behind(at, i + 1, n)
        /\ Behind(b, i, n) # b
        /\ Behind(b, i, n) \in 0 .. n - 1
        /\ i + 1 \in 1 .. n
  BY <1>1 DEF Behind
<1> HIDE DEF b
<1>7. ASSUME NEW i \in 1 .. n PROVE r[Behind(b, i, n)] = l[i]
  <2>1. CASE i = n
    BY <1>3, <1>4, <1>5, <2>1
  <2>2. CASE i # n
    <3>1. ring[Behind(at, i + 1, n)] = log[i + 1]
      BY <1>1, <1>6, <2>2
    <3> QED BY <1>3, <1>4, <1>6, <2>2, <3>1
  <2> QED BY <2>1, <2>2
<1>8. Draws(r, b, n, l)
  BY <1>2, <1>3, <1>4, <1>7 DEF Draws
<1> QED BY <1>2, <1>8 DEF r, l, b

(* What is drawn is the log. *)
LEMMA DrawsLog ==
  ASSUME NEW n \in Nat \ {0}, NEW ring, NEW at, NEW log, Draws(ring, at, n, log)
  PROVE  T!Buckets(ring, at, n, n) = log
<1>1. at \in 0 .. n - 1 /\ log = [i \in 1 .. n |-> log[i]]
  BY DEF Draws
<1>2. \A i \in 1 .. n : i \in 0 .. n
  OBVIOUS
<1>3. \A i \in 1 .. n : ring[(at + i) % n] = log[i]
  BY <1>1, <1>2, RingPosition DEF Draws
<1> QED BY <1>1, <1>3 DEF T!Buckets

(* Empty rings draw nothing. *)
LEMMA StatInit == T!Init => StatInv
<1> SUFFICES ASSUME T!Init PROVE StatInv
  OBVIOUS
<1>1. ASSUME NEW n \in Nat \ {0}
      PROVE  Draws(T!Empty(n), 0, n, [i \in 1 .. n |-> 0])
  <2>1. T!Empty(n) = [i \in 0 .. n - 1 |-> 0]
    BY DEF T!Empty
  <2>2. [i \in 1 .. n |-> 0] \in Seq(Nat) /\ Len([i \in 1 .. n |-> 0]) = n
    OBVIOUS
  <2>3. \A i \in 1 .. n : Behind(0, i, n) \in 0 .. n - 1
    BY DEF Behind
  <2> QED BY <2>1, <2>2, <2>3 DEF Draws
<1> QED BY <1>1, StatisticsAssumption DEF T!Init, StatInv

(* Frames and ticks keep both rings. *)
LEMMA StatNext == StatInv /\ T!Next => StatInv'
<1> SUFFICES ASSUME StatInv, T!Next PROVE StatInv'
  OBVIOUS
<1> USE StatisticsAssumption
<1>1. CASE T!RecordRx
  <2>1. /\ stat_traffic' = [stat_traffic EXCEPT ![stat_minute] = @ + 1]
        /\ stat_minuteLog' = [stat_minuteLog EXCEPT ![Minutes] = @ + 1]
        /\ stat_htraffic' = [stat_htraffic EXCEPT ![stat_decade] = @ + 1]
        /\ stat_decadeLog' = [stat_decadeLog EXCEPT ![Decades] = @ + 1]
        /\ stat_minute' = stat_minute /\ stat_decade' = stat_decade
    BY <1>1 DEF T!RecordRx
  <2> QED BY <2>1, CountDraws DEF StatInv
<1>2. ASSUME NEW passed, T!Tick(passed) PROVE StatInv'
  <2>1. \/ UNCHANGED <<stat_traffic, stat_minute, stat_minuteLog>>
        \/ /\ stat_traffic' = [stat_traffic EXCEPT ![(stat_minute + 1) % Minutes] = 0]
           /\ stat_minute' = (stat_minute + 1) % Minutes
           /\ stat_minuteLog' = Append(Tail(stat_minuteLog), 0)
    BY <1>2 DEF T!Tick, T!Rotated
  <2>2. \/ UNCHANGED <<stat_htraffic, stat_decade, stat_decadeLog>>
        \/ /\ stat_htraffic' = [stat_htraffic EXCEPT ![(stat_decade + 1) % Decades] = 0]
           /\ stat_decade' = (stat_decade + 1) % Decades
           /\ stat_decadeLog' = Append(Tail(stat_decadeLog), 0)
    BY <1>2 DEF T!Tick, T!Rotated
  <2>3. Draws(stat_traffic', stat_minute', Minutes, stat_minuteLog')
    <3>1. Draws(stat_traffic, stat_minute, Minutes, stat_minuteLog)
      BY DEF StatInv
    <3>2. CASE UNCHANGED <<stat_traffic, stat_minute, stat_minuteLog>>
      BY <3>1, <3>2
    <3>3. CASE ~UNCHANGED <<stat_traffic, stat_minute, stat_minuteLog>>
      <4>1. Draws([stat_traffic EXCEPT ![(stat_minute + 1) % Minutes] = 0], (stat_minute + 1) % Minutes, Minutes,
                  Append(Tail(stat_minuteLog), 0))
        BY <3>1, RotationDraws
      <4> QED BY <2>1, <3>3, <4>1
    <3> QED BY <3>2, <3>3
  <2>4. Draws(stat_htraffic', stat_decade', Decades, stat_decadeLog')
    <3>1. Draws(stat_htraffic, stat_decade, Decades, stat_decadeLog)
      BY DEF StatInv
    <3>2. CASE UNCHANGED <<stat_htraffic, stat_decade, stat_decadeLog>>
      BY <3>1, <3>2
    <3>3. CASE ~UNCHANGED <<stat_htraffic, stat_decade, stat_decadeLog>>
      <4>1. Draws([stat_htraffic EXCEPT ![(stat_decade + 1) % Decades] = 0], (stat_decade + 1) % Decades, Decades,
                  Append(Tail(stat_decadeLog), 0))
        BY <3>1, RotationDraws
      <4> QED BY <2>2, <3>3, <4>1
    <3> QED BY <3>2, <3>3
  <2> QED BY <2>3, <2>4 DEF StatInv
<1> QED BY <1>1, <1>2 DEF T!Next

-----------------------------------------------------------------------------
(* The raw frame editor. *)
EditorInv ==
  /\ DOMAIN ed_raw = 0 .. EditorSize
  /\ ed_len \in Nat
  /\ E!Terminated

(* The buffer begins empty. *)
LEMMA EditorInit == E!Init => EditorInv
BY EditorAssumption DEF E!Init, EditorInv, E!Terminated

(* A text leaves a NUL behind it, an edited byte behind the end one too. *)
LEMMA EditorNext == EditorInv /\ E!Next => EditorInv'
<1> SUFFICES ASSUME EditorInv, E!Next PROVE EditorInv'
  OBVIOUS
<1> USE EditorAssumption
<1>1. ASSUME NEW text \in EditorTexts, E!SetText(text) \/ E!CopyStatus(text) PROVE EditorInv'
  <2>1. ed_len' = Len(text) /\ ed_len' \in Nat /\ ed_len' < EditorSize
    BY <1>1 DEF E!SetText, E!CopyStatus
  <2>2. DOMAIN ed_raw' = 0 .. EditorSize
    BY <1>1 DEF E!SetText, E!CopyStatus, E!Padded
  <2>3. ed_raw'[Len(text)] = E!NUL
    BY <1>1, <2>1 DEF E!SetText, E!CopyStatus, E!Padded
  <2> QED BY <2>1, <2>2, <2>3 DEF EditorInv, E!Terminated
<1>2. ASSUME NEW offset \in 0 .. EditorSize, NEW value, E!EditByte(offset, value)
      PROVE  EditorInv'
  <2>1. /\ offset < EditorSize
        /\ ed_len' = IF offset >= ed_len THEN offset + 1 ELSE ed_len
        /\ ed_raw' = [i \in 0 .. EditorSize |->
                        IF i = offset THEN value
                        ELSE IF offset >= ed_len /\ i = offset + 1 THEN E!NUL ELSE ed_raw[i]]
    BY <1>2 DEF E!EditByte
  <2>2. DOMAIN ed_raw' = 0 .. EditorSize /\ ed_len' \in Nat /\ ed_len' <= EditorSize
    BY <2>1 DEF EditorInv, E!Terminated
  <2>3. ed_raw'[ed_len'] = E!NUL
    <3>1. CASE offset >= ed_len
      BY <2>1, <2>2, <3>1
    <3>2. CASE offset < ed_len
      <4>1. ed_len' = ed_len /\ ed_len # offset /\ ed_len \in 0 .. EditorSize
        BY <2>1, <3>2 DEF EditorInv, E!Terminated
      <4>2. ed_raw'[ed_len] = ed_raw[ed_len]
        BY <2>1, <3>2, <4>1 DEF EditorInv
      <4> QED BY <4>1, <4>2 DEF EditorInv, E!Terminated
    <3> QED BY <3>1, <3>2 DEF EditorInv
  <2> QED BY <2>2, <2>3 DEF EditorInv, E!Terminated
<1>3. CASE E!Clear
  BY <1>3 DEF E!Clear, EditorInv, E!Terminated
<1>4. CASE E!Send \/ \E sending \in BOOLEAN : E!Lock(sending)
  <2>1. UNCHANGED <<ed_raw, ed_len>>
    BY <1>4 DEF E!Send, E!Lock
  <2> QED BY <2>1 DEF EditorInv, E!Terminated
<1> QED BY <1>1, <1>2, <1>3, <1>4 DEF E!Next

-----------------------------------------------------------------------------
(* Requests.  What one request leads to, if its calls and replies agree. *)
Answered(r) ==
  /\ (\E k \in DOMAIN r.replies : r.replies[k] \in Q!Refusals) => r.calls = <<>>
  /\ r.calls # <<>> => r.replies # <<>>

(* Every frame of a WebSocket client is answered so. *)
LEMMA FramesAnswered ==
  ASSUME NEW m
  PROVE  Answered(Q!WsFrame(m))
<1>1. Answered(Q!WsMessage(m))
  BY DEF Answered, Q!WsMessage, Q!Done, Q!Refusals
<1>2. Answered(Q!Done(<<>>, <<"pong">>)) /\ Answered(Q!Done(<<>>, <<>>))
  BY DEF Answered, Q!Done, Q!Refusals
<1> QED BY <1>1, <1>2 DEF Q!WsFrame

(* Every HTTP request is answered so. *)
LEMMA GetAnswered ==
  ASSUME NEW path, NEW query
  PROVE  Answered(Q!Get(path, query))
<1>1. ASSUME NEW calls PROVE Answered(Q!Done(calls, <<"200">>))
  BY DEF Answered, Q!Done, Q!Refusals
<1>2. Answered(Q!Done(<<>>, <<"404">>))
  BY DEF Answered, Q!Done
<1> QED BY <1>1, <1>2 DEF Q!Get

(* So is every POST.                                                        *)
LEMMA PostAnswered ==
  ASSUME NEW path, NEW body, NEW complete
  PROVE  Answered(Q!Post(path, body, complete))
<1>1. ASSUME NEW calls PROVE Answered(Q!Done(calls, <<"200">>))
  BY DEF Answered, Q!Done, Q!Refusals
<1>2. Answered(Q!Done(<<>>, <<"404">>)) /\ Answered(Q!Done(<<>>, <<"400">>))
  BY DEF Answered, Q!Done
<1> QED BY <1>1, <1>2 DEF Q!Post

(* Nothing was answered yet. *)
LEMMA RequestsInit == Q!Init => Q!RefusedChangesNothing
BY DEF Q!Init, Q!RefusedChangesNothing

(* Every piece of input and every request leaves answers of this kind. *)
LEMMA RequestsNext == Q!Next => Q!RefusedChangesNothing'
<1> SUFFICES ASSUME Q!Next PROVE Q!RefusedChangesNothing'
  OBVIOUS
<1>1. (\A i \in DOMAIN req_log' : Answered(req_log'[i])) => Q!RefusedChangesNothing'
  BY DEF Q!RefusedChangesNothing, Answered
<1>2. ASSUME NEW piece, Q!Receive(piece) PROVE Q!RefusedChangesNothing'
  <2>1. \A i \in DOMAIN req_log' : Answered(req_log'[i])
    BY <1>2, FramesAnswered DEF Q!Receive
  <2> QED BY <1>1, <2>1
<1>3. ASSUME NEW method, NEW path, NEW query, NEW body, NEW complete,
             Q!Request(method, path, query, body, complete)
      PROVE  Q!RefusedChangesNothing'
  <2>1. Answered(Q!Done(<<>>, <<"405">>))
    BY DEF Answered, Q!Done
  <2>2. PICK r : req_log' = <<r>> /\ Answered(r)
    BY <1>3, <2>1, GetAnswered, PostAnswered DEF Q!Request
  <2>3. \A i \in DOMAIN req_log' : Answered(req_log'[i])
    BY <2>2
  <2> QED BY <1>1, <2>3
<1> QED BY <1>2, <1>3 DEF Q!Next

-----------------------------------------------------------------------------
(* The event bus.  The recursive match, from letter i of the pattern and    *)
(* letter j of the topic, is what is left of the pattern read as a prefix,  *)
(* or as a text.                                                            *)
Starred(p) == p # <<>> /\ p[Len(p)] = "*"

Rest(p, t, i, j) ==
  IF Starred(p) /\ i <= Len(p)
    THEN /\ j + (Len(p) - i) <= Len(t) + 1
         /\ \A k \in i .. Len(p) - 1 : p[k] = t[j + (k - i)]
    ELSE /\ Len(p) - i = Len(t) - j
         /\ \A k \in i .. Len(p) : p[k] = t[j + (k - i)]

Leap(t, j, c) == {k \in j .. Len(t) : t[k] = c}

(* One step of the match, given the matches from the next letter on. *)
StepOf(p, t, f, i, j) ==
  IF i > Len(p) \/ j > Len(t)
    THEN (i = Len(p) /\ p[Len(p)] = "*") \/ (i > Len(p) /\ j > Len(t))
  ELSE IF p[i] = "*"
    THEN \/ i = Len(p)
         \/ /\ Leap(t, j, p[i + 1]) # {}
            /\ f[i + 1][CHOOSE k \in Leap(t, j, p[i + 1]) :
                          \A l \in Leap(t, j, p[i + 1]) : k <= l]
  ELSE p[i] = t[j] /\ f[i + 1][j + 1]

(* The rest of the pattern matches if its first letter does and what is     *)
(* left after it.                                                           *)
LEMMA RestStep ==
  ASSUME NEW p \in Seq(STRING), NEW t \in Seq(STRING),
         \A k \in 1 .. Len(p) - 1 : p[k] # "*",
         NEW i \in 1 .. Len(p) + 1, NEW j \in 1 .. Len(t) + 1, NEW f,
         i <= Len(p) /\ j <= Len(t) => f[i + 1][j + 1] = Rest(p, t, i + 1, j + 1)
  PROVE  StepOf(p, t, f, i, j) = Rest(p, t, i, j)
<1> DEFINE m == Len(p)
           n == Len(t)
<1>0. m \in Nat /\ n \in Nat /\ i \in Nat /\ j \in Nat /\ i >= 1 /\ j >= 1
  OBVIOUS
<1>1. CASE i > m
  <2>1. i = m + 1
    BY <1>1
  <2>2. Rest(p, t, i, j) => j = n + 1
    BY <1>0, <2>1 DEF Rest
  <2>3. j = n + 1 => Rest(p, t, i, j)
    <3>1. m - (m + 1) = n - (n + 1) /\ \A k \in m + 1 .. m : FALSE
      BY <1>0
    <3> QED BY <1>1, <2>1, <3>1 DEF Rest
  <2>4. Rest(p, t, i, j) \in BOOLEAN
    BY DEF Rest
  <2> QED BY <1>0, <1>1, <2>2, <2>3, <2>4 DEF StepOf
<1>2. CASE i <= m /\ j > n
  <2>1. j = n + 1
    BY <1>2
  <2>2. StepOf(p, t, f, i, j) = (i = m /\ p[m] = "*")
    BY <1>0, <1>2 DEF StepOf
  <2>3. CASE Starred(p)
    <3>1. i = m => Rest(p, t, i, j)
      <4>1. n + 1 + (m - m) <= n + 1 /\ \A k \in m .. m - 1 : FALSE
        BY <1>0
      <4> QED BY <1>2, <2>1, <2>3, <4>1 DEF Rest
    <3>2. Rest(p, t, i, j) => i = m
      BY <1>0, <1>2, <2>1, <2>3 DEF Rest
    <3>3. p[m] = "*"
      BY <2>3 DEF Starred
    <3>4. Rest(p, t, i, j) \in BOOLEAN
      BY DEF Rest
    <3> QED BY <2>2, <3>1, <3>2, <3>3, <3>4
  <2>4. CASE ~ Starred(p)
    <3>1. p # <<>>
      BY <1>0, <1>2
    <3>2. p[m] # "*"
      BY <2>4, <3>1 DEF Starred
    <3>3. ~ Rest(p, t, i, j)
      BY <1>0, <1>2, <2>1, <2>4 DEF Rest
    <3>4. Rest(p, t, i, j) \in BOOLEAN
      BY DEF Rest
    <3> QED BY <2>2, <3>2, <3>3, <3>4
  <2> QED BY <2>3, <2>4
<1>3. CASE i <= m /\ j <= n
  <2>1. CASE p[i] = "*"
    <3>1. i = m
      BY <1>0, <1>3, <2>1
    <3>2. Starred(p)
      BY <1>0, <1>3, <2>1, <3>1 DEF Starred
    <3>3. Rest(p, t, i, j)
      BY <1>0, <1>3, <3>1, <3>2 DEF Rest
    <3>4. Rest(p, t, i, j) \in BOOLEAN
      BY DEF Rest
    <3> QED BY <1>0, <1>3, <2>1, <3>1, <3>3, <3>4 DEF StepOf
  <2>2. CASE p[i] # "*"
    <3>0. StepOf(p, t, f, i, j) \in BOOLEAN /\ Rest(p, t, i, j) \in BOOLEAN
      BY DEF StepOf, Rest
    <3>1. StepOf(p, t, f, i, j) <=> (p[i] = t[j] /\ Rest(p, t, i + 1, j + 1))
      BY <1>0, <1>3, <2>2 DEF StepOf
    <3>2. CASE Starred(p)
      <4>1. i + 1 <= m
        BY <1>0, <1>3, <2>2, <3>2 DEF Starred
      <4>2. Rest(p, t, i, j) <=> (/\ j + (m - i) <= n + 1
                                /\ \A k \in i .. m - 1 : p[k] = t[j + (k - i)])
        BY <1>3, <3>2 DEF Rest
      <4>3. Rest(p, t, i + 1, j + 1)
              <=> (/\ j + (m - i) <= n + 1
                 /\ \A k \in i + 1 .. m - 1 : p[k] = t[j + (k - i)])
        <5>1. Rest(p, t, i + 1, j + 1)
              <=> (/\ (j + 1) + (m - (i + 1)) <= n + 1
                 /\ \A k \in i + 1 .. m - 1 : p[k] = t[(j + 1) + (k - (i + 1))])
          BY <4>1, <3>2 DEF Rest
        <5>2. \A k \in i + 1 .. m - 1 : (j + 1) + (k - (i + 1)) = j + (k - i)
          BY <1>0
        <5>3. (j + 1) + (m - (i + 1)) = j + (m - i)
          BY <1>0
        <5> QED BY <5>1, <5>2, <5>3
      <4>4. (\A k \in i .. m - 1 : p[k] = t[j + (k - i)])
              <=> (p[i] = t[j] /\ \A k \in i + 1 .. m - 1 : p[k] = t[j + (k - i)])
        <5>1. \A k : k \in i .. m - 1 <=> k = i \/ k \in i + 1 .. m - 1
          BY <1>0, <4>1
        <5>2. j + (i - i) = j
          BY <1>0
        <5> QED BY <5>1, <5>2
      <4> DEFINE W == j + (m - i) <= n + 1
                 Y == \A k \in i .. m - 1 : p[k] = t[j + (k - i)]
                 Z == \A k \in i + 1 .. m - 1 : p[k] = t[j + (k - i)]
      <4> HIDE DEF W, Y, Z
      <4>5. StepOf(p, t, f, i, j) <=> (p[i] = t[j] /\ (W /\ Z))
        BY <3>1, <4>3 DEF W, Z
      <4>6. Rest(p, t, i, j) <=> (W /\ Y)
        BY <4>2 DEF W, Y
      <4>7. Y <=> (p[i] = t[j] /\ Z)
        BY <4>4 DEF Y, Z
      <4>8. StepOf(p, t, f, i, j) <=> Rest(p, t, i, j)
        BY <4>5, <4>6, <4>7
      <4> QED BY <3>0, <4>8
    <3>3. CASE ~ Starred(p)
      <4>2. Rest(p, t, i, j) <=> (/\ m - i = n - j
                                /\ \A k \in i .. m : p[k] = t[j + (k - i)])
        BY <1>3, <3>3 DEF Rest
      <4>3. Rest(p, t, i + 1, j + 1)
              <=> (/\ m - i = n - j
                 /\ \A k \in i + 1 .. m : p[k] = t[j + (k - i)])
        <5>1. Rest(p, t, i + 1, j + 1)
              <=> (/\ m - (i + 1) = n - (j + 1)
                 /\ \A k \in i + 1 .. m : p[k] = t[(j + 1) + (k - (i + 1))])
          BY <3>3 DEF Rest
        <5>2. \A k \in i + 1 .. m : (j + 1) + (k - (i + 1)) = j + (k - i)
          BY <1>0
        <5>3. m - (i + 1) = n - (j + 1) => m - i = n - j
          <6>1. \A a, b, c, d \in Int : a - (b + 1) = c - (d + 1) => a - b = c - d
            OBVIOUS
          <6> HIDE DEF m, n
          <6> QED BY <1>0, <6>1
        <5>4. m - i = n - j => m - (i + 1) = n - (j + 1)
          BY <1>0
        <5> QED BY <5>1, <5>2, <5>3, <5>4
      <4>4. (\A k \in i .. m : p[k] = t[j + (k - i)])
              <=> (p[i] = t[j] /\ \A k \in i + 1 .. m : p[k] = t[j + (k - i)])
        <5>1. \A k : k \in i .. m <=> k = i \/ k \in i + 1 .. m
          BY <1>0, <1>3
        <5>2. j + (i - i) = j
          BY <1>0
        <5> QED BY <5>1, <5>2
      <4> DEFINE W == m - i = n - j
                 Y == \A k \in i .. m : p[k] = t[j + (k - i)]
                 Z == \A k \in i + 1 .. m : p[k] = t[j + (k - i)]
      <4> HIDE DEF W, Y, Z
      <4>5. StepOf(p, t, f, i, j) <=> (p[i] = t[j] /\ (W /\ Z))
        BY <3>1, <4>3 DEF W, Z
      <4>6. Rest(p, t, i, j) <=> (W /\ Y)
        BY <4>2 DEF W, Y
      <4>7. Y <=> (p[i] = t[j] /\ Z)
        BY <4>4 DEF Y, Z
      <4>8. StepOf(p, t, f, i, j) <=> Rest(p, t, i, j)
        BY <4>5, <4>6, <4>7
      <4> QED BY <3>0, <4>8
    <3> QED BY <3>2, <3>3
  <2> QED BY <2>1, <2>2
<1> QED BY <1>0, <1>1, <1>2, <1>3

(* The equations of the match have a solution, so the match satisfies them, *)
(* and they leave it no choice: it is what the pattern means.               *)
LEMMA MatchesMeant ==
  ASSUME NEW p \in Patterns, NEW t \in Topics
  PROVE  B!Matches(p, t) = B!Meant(p, t)
<1> DEFINE m == Len(p)
           n == Len(t)
           Solves(f) == f = [i \in 1 .. m + 1 |-> [j \in 1 .. n + 1 |-> StepOf(p, t, f, i, j)]]
           F == CHOOSE f : Solves(f)
<1>1. p \in Seq(STRING) /\ t \in Seq(STRING) /\ \A k \in 1 .. m - 1 : p[k] # "*"
  BY BusAssumption
<1>2. m \in Nat /\ n \in Nat
  BY <1>1
<1>3. B!Matches(p, t) = F[1][1]
  BY DEF B!Matches, B!Star, StepOf, Leap
<1>4. \E f : Solves(f)
  <2> DEFINE h == [i \in 1 .. m + 1 |-> [j \in 1 .. n + 1 |-> Rest(p, t, i, j)]]
  <2>1. \A i \in 1 .. m + 1, j \in 1 .. n + 1 : h[i][j] = Rest(p, t, i, j)
    OBVIOUS
  <2> HIDE DEF h
  <2>2. \A i \in 1 .. m + 1, j \in 1 .. n + 1 : StepOf(p, t, h, i, j) = Rest(p, t, i, j)
    <3> SUFFICES ASSUME NEW i \in 1 .. m + 1, NEW j \in 1 .. n + 1
                 PROVE  StepOf(p, t, h, i, j) = Rest(p, t, i, j)
      OBVIOUS
    <3>1. i <= m /\ j <= n => i + 1 \in 1 .. m + 1 /\ j + 1 \in 1 .. n + 1
      BY <1>2
    <3> QED BY ZenonT(30), <1>1, <2>1, <3>1, RestStep
  <2>3. Solves(h)
    BY <2>2 DEF h
  <2> QED BY <2>3
<1>5. Solves(F)
  BY <1>4
<1> HIDE DEF F
<1>6. \A i \in 1 .. m + 1, j \in 1 .. n + 1 : F[i][j] = StepOf(p, t, F, i, j)
  <2> DEFINE Table == [i \in 1 .. m + 1 |-> [j \in 1 .. n + 1 |-> StepOf(p, t, F, i, j)]]
  <2>1. \A i \in 1 .. m + 1, j \in 1 .. n + 1 : Table[i][j] = StepOf(p, t, F, i, j)
    OBVIOUS
  <2>2. F = Table
    BY <1>5
  <2> HIDE DEF Table
  <2> QED BY <2>1, <2>2
<1>7. \A i \in 1 .. m + 1, j \in 1 .. n + 1 : F[i][j] = Rest(p, t, i, j)
  <2> DEFINE Wrong == {d \in 0 .. m : \E j \in 1 .. n + 1 : F[m + 1 - d][j] # Rest(p, t, m + 1 - d, j)}
  <2>1. SUFFICES ASSUME NEW i \in 1 .. m + 1, NEW j \in 1 .. n + 1, F[i][j] # Rest(p, t, i, j)
                 PROVE  FALSE
    OBVIOUS
  <2>2. m + 1 - i \in 0 .. m /\ m + 1 - (m + 1 - i) = i
    BY <1>2
  <2>3. Wrong \in SUBSET Nat /\ Wrong # {}
    <3>1. 0 .. m \subseteq Nat
      BY <1>2
    <3>2. m + 1 - i \in Wrong
      BY <2>1, <2>2
    <3> QED BY <3>1, <3>2
  <2>4. PICK d \in Wrong : \A e \in Wrong : d <= e
    BY <2>3, LeastNatural
  <2>5. PICK l \in 1 .. n + 1 : F[m + 1 - d][l] # Rest(p, t, m + 1 - d, l)
    BY <2>4
  <2>6. d \in 0 .. m
    BY <2>4
  <2> HIDE DEF Wrong
  <2>7. ASSUME m + 1 - d <= m, l <= n
        PROVE  F[(m + 1 - d) + 1][l + 1] = Rest(p, t, (m + 1 - d) + 1, l + 1)
    <3>1. d - 1 \in 0 .. m /\ ~ (d <= d - 1) /\ m + 1 - (d - 1) = (m + 1 - d) + 1 /\ l + 1 \in 1 .. n + 1
      BY <1>2, <2>5, <2>6, <2>7
    <3>2. d - 1 \notin Wrong
      BY <2>4, <3>1
    <3> QED BY <3>1, <3>2 DEF Wrong
  <2>8. m + 1 - d \in 1 .. m + 1
    BY <1>2, <2>6
  <2>9. StepOf(p, t, F, m + 1 - d, l) = Rest(p, t, m + 1 - d, l)
    BY <1>1, <2>7, <2>8, RestStep
  <2> QED BY <1>6, <2>5, <2>8, <2>9
<1>8. F[1][1] = Rest(p, t, 1, 1)
  BY <1>2, <1>7
<1>9. Rest(p, t, 1, 1) = B!Meant(p, t)
  <2>0. \A k : 1 + (k - 1) = k \/ k \notin Int
    OBVIOUS
  <2>1. CASE Starred(p)
    <3>1. m >= 1 /\ m + (1 - 1) = m
      BY <1>1, <1>2, <2>1 DEF Starred
    <3>2. 1 + (m - 1) = m /\ \A k \in 1 .. m - 1 : 1 + (k - 1) = k
      BY <1>2
    <3>3. Rest(p, t, 1, 1) = (m <= n + 1 /\ \A k \in 1 .. m - 1 : p[k] = t[k])
      BY <2>1, <3>1, <3>2 DEF Rest
    <3> QED BY <2>1, <3>3 DEF B!Meant, B!Star, Starred
  <2>2. CASE ~ Starred(p)
    <3>1. \A k \in 1 .. m : 1 + (k - 1) = k
      BY <1>2
    <3>2. (m - 1 = n - 1) = (m = n)
      BY <1>2
    <3>3. Rest(p, t, 1, 1) = (m = n /\ \A k \in 1 .. m : p[k] = t[k])
      BY <2>2, <3>1, <3>2 DEF Rest
    <3>4. (m = n /\ \A k \in 1 .. m : p[k] = t[k]) = (p = t)
      BY <1>1
    <3> QED BY <2>2, <3>3, <3>4 DEF B!Meant, B!Star, Starred
  <2> QED BY <2>1, <2>2
<1> QED BY <1>3, <1>8, <1>9

(* Entries of the table keep their places, so those an event counts on are  *)
(* in it and on, and an event has called all of them before its next.       *)
Entry == [pattern : Patterns, active : BOOLEAN]

Event == [topic : Topics, next : Nat \ {0}, got : SUBSET Nat, steady : SUBSET Nat]

BusTyped == bus_subs \in Seq(Entry) /\ bus_inside \in Seq(Event)

SteadyOn ==
  \A d \in DOMAIN bus_inside : \A i \in bus_inside[d].steady :
    i \in DOMAIN bus_subs /\ bus_subs[i].active

BusInv == BusTyped /\ SteadyOn /\ B!SteadyAreCalled

(* What a round makes of its event. *)
LEMMA EventMoves ==
  ASSUME NEW ev \in Event, NEW n, NEW g
  PROVE  [[ev EXCEPT !.next = n] EXCEPT !.got = g]
           = [topic |-> ev.topic, next |-> n, got |-> g, steady |-> ev.steady]
<1> DEFINE t == ev.topic
           m == ev.next
           h == ev.got
           y == ev.steady
<1>1. ev = [topic |-> t, next |-> m, got |-> h, steady |-> y]
  BY DEF Event
<1> HIDE DEF t, m, h, y
<1>2. \A r : r = [topic |-> t, next |-> m, got |-> h, steady |-> y]
          => [r EXCEPT !.next = n] = [topic |-> t, next |-> n, got |-> h, steady |-> y]
  OBVIOUS
<1>3. \A r : r = [topic |-> t, next |-> n, got |-> h, steady |-> y]
          => [r EXCEPT !.got = g] = [topic |-> t, next |-> n, got |-> g, steady |-> y]
  OBVIOUS
<1>4. [[ev EXCEPT !.next = n] EXCEPT !.got = g]
        = [topic |-> t, next |-> n, got |-> g, steady |-> y]
  BY <1>1, <1>2, <1>3, Zenon
<1> QED BY <1>4 DEF t, y

(* What an unsubscription makes of the events in progress. *)
LEMMA EventLoses ==
  ASSUME NEW ev \in Event, NEW i
  PROVE  [ev EXCEPT !.steady = ev.steady \ {i}]
           = [topic |-> ev.topic, next |-> ev.next, got |-> ev.got, steady |-> ev.steady \ {i}]
<1> DEFINE t == ev.topic
           m == ev.next
           h == ev.got
           y == ev.steady
<1>1. ev = [topic |-> t, next |-> m, got |-> h, steady |-> y]
  BY DEF Event
<1> HIDE DEF t, m, h, y
<1>2. \A r, z : r = [topic |-> t, next |-> m, got |-> h, steady |-> y]
          => [r EXCEPT !.steady = z] = [topic |-> t, next |-> m, got |-> h, steady |-> z]
  OBVIOUS
<1>3. [ev EXCEPT !.steady = ev.steady \ {i}]
        = [topic |-> t, next |-> m, got |-> h, steady |-> ev.steady \ {i}]
  BY <1>1, <1>2, Zenon
<1> QED BY <1>3 DEF t, m, h

(* What an unsubscription makes of its entry. *)
LEMMA EntryOff ==
  ASSUME NEW s \in Entry
  PROVE  [s EXCEPT !.active = FALSE] = [pattern |-> s.pattern, active |-> FALSE]
<1> DEFINE p == s.pattern
           a == s.active
<1>1. s = [pattern |-> p, active |-> a]
  BY DEF Entry
<1> HIDE DEF p, a
<1>2. \A r, c : r = [pattern |-> p, active |-> a]
          => [r EXCEPT !.active = c] = [pattern |-> p, active |-> c]
  OBVIOUS
<1>3. [s EXCEPT !.active = FALSE] = [pattern |-> p, active |-> FALSE]
  BY <1>1, <1>2, Zenon
<1> QED BY <1>3 DEF p

(* Nobody is subscribed at first, and no event is delivered. *)
LEMMA BusInit == B!Init => BusInv
BY DEF B!Init, BusInv, BusTyped, SteadyOn, B!SteadyAreCalled

(* A subscription leaves the entries before it alone. *)
LEMMA SubscribeKeeps ==
  ASSUME BusInv, NEW pattern \in Patterns, B!Subscribe(pattern)
  PROVE  BusInv'
<1> DEFINE entry == [pattern |-> pattern, active |-> TRUE]
<1>1. BusTyped'
  <2>1. entry \in Entry
    BY DEF Entry
  <2>2. bus_subs' = Append(bus_subs, entry) /\ bus_inside' = bus_inside
    BY DEF B!Subscribe
  <2> HIDE DEF entry
  <2> QED BY <2>1, <2>2 DEF BusInv, BusTyped
<1>2. bus_inside' = bus_inside
  BY DEF B!Subscribe
<1>3. \A i \in DOMAIN bus_subs : i \in DOMAIN bus_subs' /\ bus_subs'[i] = bus_subs[i]
  BY DEF BusInv, BusTyped, B!Subscribe
<1>4. SteadyOn'
  BY <1>2, <1>3 DEF BusInv, SteadyOn
<1>5. B!SteadyAreCalled'
  BY <1>2, <1>3 DEF BusInv, SteadyOn, B!SteadyAreCalled
<1> QED BY <1>1, <1>4, <1>5 DEF BusInv

(* Who unsubscribes is no longer counted on; everybody else is. *)
LEMMA UnsubscribeKeeps ==
  ASSUME BusInv, NEW i, B!Unsubscribe(i)
  PROVE  BusInv'
<1> DEFINE off == [pattern |-> bus_subs[i].pattern, active |-> FALSE]
<1>0. /\ bus_subs \in Seq(Entry)
      /\ i \in DOMAIN bus_subs
      /\ bus_subs[i] \in Entry
  BY DEF BusInv, BusTyped, B!Unsubscribe
<1>a. bus_subs' = [bus_subs EXCEPT ![i] = [bus_subs[i] EXCEPT !.active = FALSE]]
  BY Zenon DEF B!Unsubscribe
<1>b. bus_subs' = [bus_subs EXCEPT ![i] = off]
  BY <1>0, <1>a, EntryOff
<1>1. /\ DOMAIN bus_subs' = DOMAIN bus_subs
      /\ \A j \in DOMAIN bus_subs : bus_subs'[j].pattern = bus_subs[j].pattern
      /\ \A j \in DOMAIN bus_subs \ {i} : bus_subs'[j] = bus_subs[j]
  BY <1>0, <1>b
<1>c. off \in Entry
  BY <1>0 DEF Entry
<1>2. bus_subs' \in Seq(Entry)
  <2> HIDE DEF off
  <2> QED BY <1>0, <1>b, <1>c
<1>d. bus_inside \in Seq(Event) /\ \A d \in DOMAIN bus_inside : bus_inside[d] \in Event
  BY DEF BusInv, BusTyped
<1>e. bus_inside' = [d \in DOMAIN bus_inside |->
                       [bus_inside[d] EXCEPT !.steady = bus_inside[d].steady \ {i}]]
  BY Zenon DEF B!Unsubscribe
<1> DEFINE Less(ev) == [topic |-> ev.topic, next |-> ev.next, got |-> ev.got,
                        steady |-> ev.steady \ {i}]
<1>f. bus_inside' = [d \in DOMAIN bus_inside |-> Less(bus_inside[d])]
  BY <1>d, <1>e, EventLoses
<1>g. \A ev \in Event : Less(ev) \in Event
  BY DEF Event
<1>3. /\ DOMAIN bus_inside' = DOMAIN bus_inside
      /\ \A d \in DOMAIN bus_inside :
           /\ bus_inside'[d].topic = bus_inside[d].topic
           /\ bus_inside'[d].next = bus_inside[d].next
           /\ bus_inside'[d].got = bus_inside[d].got
           /\ bus_inside'[d].steady = bus_inside[d].steady \ {i}
  BY <1>f
<1>4. bus_inside' \in Seq(Event)
  <2> HIDE DEF Less
  <2> QED BY <1>d, <1>f, <1>g
<1>5. SteadyOn'
  BY <1>1, <1>3 DEF BusInv, SteadyOn
<1>6. B!SteadyAreCalled'
  BY <1>1, <1>3 DEF BusInv, B!SteadyAreCalled
<1> QED BY <1>2, <1>4, <1>5, <1>6 DEF BusInv, BusTyped

(* An event that begins counts on those who are subscribed; nothing is      *)
(* asked of the ones it came from before they go on.                        *)
LEMMA PublishKeeps ==
  ASSUME BusInv, NEW topic \in Topics, B!Publish(topic)
  PROVE  BusInv'
<1> DEFINE ev == [topic |-> topic, next |-> 1, got |-> {},
                  steady |-> {i \in DOMAIN bus_subs : bus_subs[i].active}]
<1>1. bus_inside' = <<ev>> \o bus_inside /\ bus_subs' = bus_subs
  BY DEF B!Publish
<1>2. DOMAIN bus_subs \subseteq Nat
  BY DEF BusInv, BusTyped
<1>3. ev \in Event
  BY <1>2 DEF Event
<1>4. bus_inside \in Seq(Event)
  BY DEF BusInv, BusTyped
<1>5. /\ \A i \in ev.steady : i \in DOMAIN bus_subs /\ bus_subs[i].active
      /\ \A i \in ev.steady : ~ (i < ev.next)
  <2>1. \A i \in DOMAIN bus_subs : ~ (i < 1)
    BY DEF BusInv, BusTyped
  <2> QED BY <2>1
<1> HIDE DEF ev
<1>6. bus_inside' \in Seq(Event)
  BY <1>1, <1>3, <1>4
<1>7. \A d \in DOMAIN bus_inside' :
        \/ bus_inside'[d] = ev
        \/ d - 1 \in DOMAIN bus_inside /\ bus_inside'[d] = bus_inside[d - 1]
  BY <1>1, <1>3, <1>4
<1>8. SteadyOn'
  BY <1>1, <1>5, <1>7 DEF BusInv, SteadyOn
<1>9. B!SteadyAreCalled'
  BY <1>1, <1>5, <1>7 DEF BusInv, B!SteadyAreCalled
<1> QED BY <1>1, <1>6, <1>8, <1>9 DEF BusInv, BusTyped

(* A round calls the entry the event has come to if it is on and its        *)
(* pattern means the topic.                                                 *)
LEMMA RoundKeeps ==
  ASSUME BusInv, B!Round
  PROVE  BusInv'
<1> DEFINE ev == bus_inside[1]
           next == ev.next
           called == bus_subs[next].active /\ B!Matches(bus_subs[next].pattern, ev.topic)
<1> DEFINE grown == IF called THEN ev.got \cup {next} ELSE ev.got
           then == [topic |-> ev.topic, next |-> next + 1, got |-> grown, steady |-> ev.steady]
<1>1. bus_inside \in Seq(Event) /\ bus_inside # <<>> /\ bus_subs' = bus_subs
  BY DEF BusInv, BusTyped, B!Round
<1>2. 1 \in DOMAIN bus_inside /\ Head(bus_inside) = ev /\ ev \in Event
  BY <1>1
<1>3. bus_inside' = [bus_inside EXCEPT ![1] = [[ev EXCEPT !.next = next + 1] EXCEPT !.got = grown]]
      /\ next <= Len(bus_subs)
  BY <1>2, Zenon DEF B!Round
<1> HIDE DEF called
<1>5. next \in 1 .. Len(bus_subs)
  BY <1>2, <1>3 DEF BusInv, BusTyped, Event
<1>4. [[ev EXCEPT !.next = next + 1] EXCEPT !.got = grown] = then
  BY <1>2, EventMoves
<1>6. then \in Event
  BY <1>2, <1>5 DEF Event
<1>7. bus_inside' = [bus_inside EXCEPT ![1] = then]
  BY <1>3, <1>4
<1>8. /\ DOMAIN bus_inside' = DOMAIN bus_inside
      /\ \A d \in DOMAIN bus_inside \ {1} : bus_inside'[d] = bus_inside[d]
      /\ bus_inside'[1].topic = ev.topic
      /\ bus_inside'[1].steady = ev.steady
      /\ bus_inside'[1].next = next + 1
      /\ bus_inside'[1].got = IF called THEN ev.got \cup {next} ELSE ev.got
  <2>1. bus_inside'[1] = then
    BY <1>1, <1>2, <1>7
  <2> HIDE DEF then
  <2>2. DOMAIN bus_inside' = DOMAIN bus_inside
        /\ \A d \in DOMAIN bus_inside \ {1} : bus_inside'[d] = bus_inside[d]
    BY <1>1, <1>7
  <2> QED BY <2>1, <2>2 DEF then
<1>9. bus_inside' \in Seq(Event)
  <2> HIDE DEF then
  <2> QED BY <1>1, <1>6, <1>7
<1> HIDE DEF ev, then
<1>10. SteadyOn'
  BY <1>1, <1>2, <1>8 DEF BusInv, SteadyOn, ev
<1>11. B!SteadyAreCalled'
  <2> SUFFICES ASSUME NEW d \in DOMAIN bus_inside', NEW i \in bus_inside'[d].steady,
                      i \in DOMAIN bus_subs, i < bus_inside'[d].next,
                      B!Meant(bus_subs[i].pattern, bus_inside'[d].topic)
               PROVE  i \in bus_inside'[d].got
    BY <1>1 DEF B!SteadyAreCalled
  <2>1. CASE d # 1 \/ i < next
    BY <1>1, <1>2, <1>8, <2>1 DEF BusInv, B!SteadyAreCalled, ev
  <2>2. CASE d = 1 /\ ~ (i < next)
    <3>1. i = next
      BY <1>1, <1>5, <1>8, <2>2 DEF BusInv, BusTyped
    <3>2. bus_subs[i].active /\ bus_subs[i].pattern \in Patterns /\ ev.topic \in Topics
      <4>1. i \in bus_inside[1].steady
        BY <1>8, <2>2 DEF ev
      <4>2. bus_subs[i].active
        BY <1>1, <1>2, <4>1 DEF BusInv, SteadyOn
      <4>3. bus_subs[i] \in Entry
        BY DEF BusInv, BusTyped
      <4> QED BY <1>2, <4>2, <4>3 DEF Entry, Event
    <3>3. B!Matches(bus_subs[i].pattern, ev.topic)
      BY <1>8, <2>2, <3>2, MatchesMeant
    <3>4. called
      BY <3>1, <3>2, <3>3 DEF called
    <3> QED BY <1>8, <2>2, <3>1, <3>4
  <2> QED BY <2>1, <2>2
<1> QED BY <1>1, <1>9, <1>10, <1>11 DEF BusInv, BusTyped

(* The events that are left are those that were. *)
LEMMA ReturnKeeps ==
  ASSUME BusInv, B!Return
  PROVE  BusInv'
<1>1. bus_inside' = Tail(bus_inside) /\ bus_subs' = bus_subs /\ bus_inside # <<>>
  BY DEF B!Return
<1>2. bus_inside' \in Seq(Event)
  BY <1>1 DEF BusInv, BusTyped
<1>3. \A d \in DOMAIN bus_inside' :
        d + 1 \in DOMAIN bus_inside /\ bus_inside'[d] = bus_inside[d + 1]
  BY <1>1 DEF BusInv, BusTyped
<1>4. SteadyOn'
  BY <1>1, <1>3 DEF BusInv, SteadyOn
<1>5. B!SteadyAreCalled'
  BY <1>1, <1>3 DEF BusInv, B!SteadyAreCalled
<1> QED BY <1>1, <1>2, <1>4, <1>5 DEF BusInv, BusTyped

(* Every step of the bus keeps its invariant. *)
LEMMA BusNext == BusInv /\ B!Next => BusInv'
BY SubscribeKeeps, UnsubscribeKeeps, PublishKeeps, RoundKeeps, ReturnKeeps DEF B!Next
-----------------------------------------------------------------------------
(* The path of a repeated frame.  The sums of a path are the rounds of the  *)
(* loop that Budget goes through.                                           *)
PathFields == [call : STRING, hops : 0 .. 15, used : BOOLEAN]
Sums(p) ==
  {u \in [0 .. Len(p) -> Int] :
     u[0] = 0 /\ \A k \in 1 .. Len(p) : u[k] = u[k - 1] + D!Worth(p[k])}

(* A field is worth between no and sixteen repeats, an unused one at least  *)
(* one.                                                                     *)
LEMMA WorthIs ==
  ASSUME NEW f \in PathFields
  PROVE  D!Worth(f) \in 0 .. 16 /\ (~f.used => D!Worth(f) >= 1)
BY DEF PathFields, D!Worth

(* A field with one hop less is worth one repeat less.                      *)
LEMMA FewerIsLess ==
  ASSUME NEW f \in PathFields, ~f.used
  PROVE  D!Fewer(f) \in PathFields /\ D!Worth(D!Fewer(f)) = D!Worth(f) - 1
<1> DEFINE left == (f.hops + 15) % 16
<1>1. left \in 0 .. 15 /\ (f.hops = 0 => left = 15) /\ (f.hops # 0 => left = f.hops - 1)
  <2>1. f.hops \in 0 .. 15
    BY DEF PathFields
  <2> HIDE DEF PathFields
  <2>2. \A h \in 0 .. 15 : /\ (h + 15) % 16 \in 0 .. 15
                           /\ h = 0 => (h + 15) % 16 = 15
                           /\ h # 0 => (h + 15) % 16 = h - 1
    BY SMT
  <2> QED BY <2>1, <2>2
<1>2. D!Fewer(f) = [f EXCEPT !.hops = IF left = 0 THEN Ssid ELSE left, !.used = (left = 0)]
  BY DEF D!Fewer
<1> HIDE DEF left
<1>3. f.hops \in 0 .. 15 /\ D!Worth(f) = IF f.hops = 0 THEN 16 ELSE f.hops
  BY DEF PathFields, D!Worth
<1>4. CASE left = 0
  <2>1. D!Fewer(f) = [f EXCEPT !.hops = Ssid, !.used = TRUE]
    BY <1>2, <1>4
  <2>2. D!Fewer(f) \in PathFields /\ D!Fewer(f).used = TRUE
    BY <2>1, PathAssumption DEF PathFields
  <2> QED BY <2>2, <1>1, <1>3, <1>4 DEF D!Worth
<1>5. CASE left # 0
  <2>1. D!Fewer(f) = [f EXCEPT !.hops = left, !.used = FALSE]
    BY <1>2, <1>5
  <2>2. D!Fewer(f) \in PathFields /\ D!Fewer(f).used = FALSE /\ D!Fewer(f).hops = left
    BY <2>1, <1>1 DEF PathFields
  <2> QED BY <2>2, <1>1, <1>3, <1>5 DEF D!Worth
<1> QED BY <1>4, <1>5

(* The loop of Budget has a run, and Budget is where it ends.               *)
LEMMA BudgetIs ==
  ASSUME NEW p \in Seq(PathFields)
  PROVE  \E u \in Sums(p) : D!Budget(p) = u[Len(p)]
<1> DEFINE n == Len(p)
           whole == [k \in 1 .. n |-> [s \in Int |-> s + D!Worth(p[k])]]
<1>1. n \in Nat /\ \A k \in 1 .. n : p[k] \in PathFields /\ D!Worth(p[k]) \in Int
  BY WorthIs
<1> DEFINE moves == [k \in 0 .. n |-> IF k = 0 THEN [s \in Int |-> s] ELSE whole[k]]
<1>2. moves \in [0 .. n -> [Int -> Int]]
  BY <1>1
<1>3. PICK u \in [0 .. n -> Int] : u[0] = 0 /\ \A k \in 0 .. n : k # 0 => u[k] = moves[k][u[k - 1]]
  <2>1. Runs(0, n, Int, 0, moves) # {}
    <3>1. 0 \in Int /\ n \in Int /\ 0 <= n
      BY <1>1
    <3> HIDE DEF moves, n
    <3> QED BY <1>2, <3>1, LoopExists
  <2> QED BY <2>1 DEF Runs
<1>4. \A k \in 1 .. n : u[k] = u[k - 1] + D!Worth(p[k])
  <2> TAKE k \in 1 .. n
  <2>1. k \in 0 .. n /\ k # 0 /\ k - 1 \in 0 .. n
    BY <1>1
  <2> QED BY <1>3, <2>1
<1> DEFINE upTo == CHOOSE f : f = [k \in 0 .. Len(p) |-> IF k = 0 THEN 0 ELSE f[k - 1] + D!Worth(p[k])]
<1>5. upTo = [k \in 0 .. Len(p) |-> IF k = 0 THEN 0 ELSE upTo[k - 1] + D!Worth(p[k])]
  <2>1. u = [k \in 0 .. Len(p) |-> IF k = 0 THEN 0 ELSE u[k - 1] + D!Worth(p[k])]
    BY <1>1, <1>3, <1>4
  <2> QED BY <2>1
<1>6. D!Budget(p) = upTo[Len(p)]
  BY DEF D!Budget
<1> HIDE DEF upTo
<1>7. upTo[0] = 0 /\ \A k \in 1 .. n : upTo[k] = upTo[k - 1] + D!Worth(p[k])
  BY <1>1, <1>5
<1>8. \A k \in 0 .. n : upTo[k] \in Int
  <2> DEFINE Good == {k \in 0 .. n : upTo[k] \in Int}
  <2>1. 0 \in Good
    BY <1>1, <1>7
  <2>2. \A k \in 0 .. n : k \in Good /\ k < n => k + 1 \in Good
    <3> SUFFICES ASSUME NEW k \in 0 .. n, k \in Good, k < n PROVE k + 1 \in Good
      OBVIOUS
    <3>1. k + 1 \in 1 .. n /\ (k + 1) - 1 = k
      BY <1>1
    <3>2. upTo[k + 1] = upTo[k] + D!Worth(p[k + 1])
      BY <1>7, <3>1
    <3> QED BY <1>1, <3>1, <3>2
  <2>3. 0 \in Int /\ n \in Int
    BY <1>1
  <2> HIDE DEF Good, n
  <2>4. \A k \in 0 .. n : k \in Good
    BY <2>1, <2>2, <2>3, IntervalInduction
  <2> QED BY <2>4 DEF Good
<1>9. upTo \in [0 .. n -> Int]
  BY <1>5, <1>8
<1> QED BY <1>6, <1>7, <1>9 DEF Sums

(* A field that is worth less makes the path worth less.                    *)
LEMMA BudgetLess ==
  ASSUME NEW p \in Seq(PathFields), NEW k \in 1 .. Len(p), NEW x \in PathFields,
         D!Worth(x) + 1 <= D!Worth(p[k])
  PROVE  /\ [p EXCEPT ![k] = x] \in Seq(PathFields)
         /\ D!Budget([p EXCEPT ![k] = x]) + 1 <= D!Budget(p)
<1> DEFINE q == [p EXCEPT ![k] = x]
           n == Len(p)
<1>1. /\ q \in Seq(PathFields) /\ Len(q) = n /\ n \in Nat
      /\ q[k] = x /\ \A i \in 1 .. n : i # k => q[i] = p[i]
  OBVIOUS
<1> HIDE DEF q
<1>2. PICK u \in Sums(p) : D!Budget(p) = u[n]
  BY BudgetIs
<1>3. PICK v \in Sums(q) : D!Budget(q) = v[n]
  BY <1>1, BudgetIs
<1> HIDE DEF n
<1>4. /\ u \in [0 .. n -> Int] /\ v \in [0 .. n -> Int] /\ u[0] = 0 /\ v[0] = 0
      /\ \A i \in 1 .. n : u[i] = u[i - 1] + D!Worth(p[i]) /\ v[i] = v[i - 1] + D!Worth(q[i])
  BY <1>1 DEF Sums, n
<1>5. \A i \in 1 .. n : /\ D!Worth(p[i]) \in Int /\ D!Worth(q[i]) \in Int
                        /\ i # k => D!Worth(p[i]) = D!Worth(q[i])
                        /\ i = k => D!Worth(q[i]) + 1 <= D!Worth(p[i])
  <2>1. \A i \in 1 .. n : p[i] \in PathFields /\ q[i] \in PathFields
    BY <1>1 DEF n
  <2>2. \A f \in PathFields : D!Worth(f) \in Int
    BY WorthIs
  <2> QED BY <2>1, <2>2, <1>1
<1> DEFINE Good == {i \in 0 .. n : v[i] <= u[i] /\ (i >= k => v[i] + 1 <= u[i])}
<1>6. 0 \in Good /\ 0 \in Int /\ n \in Int /\ k \in 1 .. n
  BY <1>1, <1>4 DEF n
<1>7. \A i \in 0 .. n : i \in Good /\ i < n => i + 1 \in Good
  <2> SUFFICES ASSUME NEW i \in 0 .. n, i \in Good, i < n PROVE i + 1 \in Good
    OBVIOUS
  <2>1. i + 1 \in 1 .. n /\ (i + 1) - 1 = i /\ i + 1 \in 0 .. n
    BY <1>1
  <2>2. u[i + 1] = u[i] + D!Worth(p[i + 1]) /\ v[i + 1] = v[i] + D!Worth(q[i + 1])
    BY <1>4, <2>1
  <2>3. /\ D!Worth(p[i + 1]) \in Int /\ D!Worth(q[i + 1]) \in Int
        /\ i + 1 # k => D!Worth(p[i + 1]) = D!Worth(q[i + 1])
        /\ i + 1 = k => D!Worth(q[i + 1]) + 1 <= D!Worth(p[i + 1])
    BY <1>5, <2>1
  <2>4. u[i] \in Int /\ v[i] \in Int /\ v[i] <= u[i] /\ (i >= k => v[i] + 1 <= u[i])
    BY <1>4
  <2> HIDE DEF Good
  <2>5. v[i + 1] <= u[i + 1] /\ (i + 1 >= k => v[i + 1] + 1 <= u[i + 1])
    BY <1>6, <2>2, <2>3, <2>4
  <2> QED BY <2>1, <2>5 DEF Good
<1> HIDE DEF Good
<1>8. \A i \in 0 .. n : i \in Good
  BY <1>6, <1>7, IntervalInduction
<1>9. n \in 0 .. n /\ n >= k
  BY <1>1, <1>6
<1>10. v[n] + 1 <= u[n]
  BY <1>8, <1>9 DEF Good
<1> QED BY <1>1, <1>2, <1>3, <1>10 DEF q

(* A field that is worth nothing can be put in for nothing.                 *)
LEMMA BudgetInserted ==
  ASSUME NEW p \in Seq(PathFields), NEW k \in 1 .. Len(p), NEW x \in PathFields,
         D!Worth(x) = 0
  PROVE  /\ D!InsertAt(p, k, x) \in Seq(PathFields)
         /\ D!Budget(D!InsertAt(p, k, x)) <= D!Budget(p)
<1> DEFINE q == D!InsertAt(p, k, x)
           n == Len(p)
<1>1. n \in Nat /\ k \in 1 .. n
  OBVIOUS
<1>2. /\ q \in Seq(PathFields) /\ Len(q) = n + 1
      /\ q[k] = x
      /\ \A i \in 1 .. n : /\ i < k => q[i] = p[i]
                           /\ i >= k => q[i + 1] = p[i]
  BY DEF D!InsertAt
<1> HIDE DEF q
<1>3. PICK u \in Sums(p) : D!Budget(p) = u[n]
  BY BudgetIs
<1>4. PICK v \in Sums(q) : D!Budget(q) = v[n + 1]
  BY <1>2, BudgetIs
<1> HIDE DEF n
<1>5. /\ u \in [0 .. n -> Int] /\ v \in [0 .. n + 1 -> Int] /\ u[0] = 0 /\ v[0] = 0
      /\ \A i \in 1 .. n : u[i] = u[i - 1] + D!Worth(p[i])
      /\ \A i \in 1 .. n + 1 : v[i] = v[i - 1] + D!Worth(q[i])
  BY <1>2 DEF Sums, n
<1>6. \A i \in 1 .. n : D!Worth(p[i]) \in Int
  <2>1. \A i \in 1 .. n : p[i] \in PathFields
    BY DEF n
  <2> QED BY <2>1, WorthIs
<1> DEFINE Good == {i \in 0 .. n : (i < k => v[i] = u[i]) /\ (i >= k => v[i + 1] = u[i])}
<1>7. 0 \in Good /\ 0 \in Int /\ n \in Int
  BY <1>1, <1>5
<1>8. \A i \in 0 .. n : i \in Good /\ i < n => i + 1 \in Good
  <2> SUFFICES ASSUME NEW i \in 0 .. n, i \in Good, i < n PROVE i + 1 \in Good
    OBVIOUS
  <2>1. i + 1 \in 1 .. n /\ (i + 1) - 1 = i /\ i + 1 \in 0 .. n /\ i + 1 \in 1 .. n + 1
        /\ (i + 1) + 1 \in 1 .. n + 1 /\ ((i + 1) + 1) - 1 = i + 1 /\ k \in Int
    BY <1>1
  <2>2. /\ u[i + 1] = u[i] + D!Worth(p[i + 1]) /\ v[i + 1] = v[i] + D!Worth(q[i + 1])
        /\ v[(i + 1) + 1] = v[i + 1] + D!Worth(q[(i + 1) + 1])
    BY <1>5, <2>1
  <2>3. CASE i + 1 < k
    BY <1>2, <2>1, <2>2, <2>3
  <2>4. CASE i + 1 = k
    <3>0. D!Worth(q[i + 1]) = 0
      BY <1>2, <2>4
    <3>1. v[i + 1] = v[i] + 0 /\ v[i] = u[i] /\ v[i] \in Int
      BY <3>0, <1>5, <2>1, <2>2, <2>4
    <3> QED BY <1>2, <2>1, <2>2, <2>4, <3>1
  <2>5. CASE i + 1 > k
    BY <1>2, <2>1, <2>2, <2>5
  <2> QED BY <2>1, <2>3, <2>4, <2>5
<1> HIDE DEF Good
<1>9. \A i \in 0 .. n : i \in Good
  BY <1>7, <1>8, IntervalInduction
<1>10. n \in 0 .. n /\ n >= k /\ n \in Int
  BY <1>1
<1>11. v[n + 1] = u[n] /\ u[n] \in Int
  BY <1>5, <1>9, <1>10 DEF Good
<1>12. v[n + 1] <= u[n]
  BY <1>11
<1> QED BY <1>2, <1>3, <1>4, <1>12 DEF q

(* The path of a copy is a path, and what was repeated was paid for.        *)
PathInv ==
  /\ path_path \in Seq(PathFields)
  /\ path_repeats \in Nat
  /\ D!Budget(path_origin) \in Int
  /\ D!RepeatsPaid

(* A budget is a number.                                                    *)
LEMMA BudgetNumber ==
  ASSUME NEW p \in Seq(PathFields) PROVE D!Budget(p) \in Int
<1>1. PICK u \in Sums(p) : D!Budget(p) = u[Len(p)]
  BY BudgetIs
<1>2. Len(p) \in 0 .. Len(p)
  OBVIOUS
<1> QED BY <1>1, <1>2 DEF Sums

(* A frame is sent with its whole budget.                                   *)
LEMMA PathInit == D!Init => PathInv
<1> SUFFICES ASSUME D!Init PROVE PathInv
  OBVIOUS
<1>1. path_path \in Seq(PathFields) /\ path_origin = path_path /\ path_repeats = 0
  BY PathAssumption DEF D!Init, PathFields
<1>2. D!Budget(path_path) \in Int
  BY <1>1, BudgetNumber
<1> QED BY <1>1, <1>2 DEF PathInv, D!RepeatsPaid

(* The field a digipeater looks at is one of the path and not used.         *)
LEMMA FreeField ==
  ASSUME path_path \in Seq(PathFields), D!Free # 0
  PROVE  D!Free \in 1 .. Len(path_path) /\ ~path_path[D!Free].used
<1> DEFINE behind == {k \in DOMAIN path_path : \A u \in D!Used : u < k}
<1>1. D!Free = CHOOSE k \in behind : \A l \in behind : k <= l
  BY DEF D!Free
<1>2. behind # {} /\ behind \in SUBSET Nat
  BY DEF D!Free
<1>3. PICK k \in behind : \A l \in behind : k <= l
  <2> HIDE DEF behind
  <2> QED BY <1>2, LeastNatural
<1>4. D!Free \in behind
  <2> HIDE DEF behind
  <2> QED BY <1>1, <1>3
<1>5. D!Free \in DOMAIN path_path /\ D!Free \notin D!Used
  BY <1>4 DEF D!Used
<1> QED BY <1>5 DEF D!Used

(* Every digipeater that repeats the frame takes a hop from its path.       *)
LEMMA PathNext == PathInv /\ D!Next => PathInv'
<1> SUFFICES ASSUME PathInv, NEW digi \in Digis, D!Repeat(digi) PROVE PathInv'
  BY DEF D!Next
<1> DEFINE k == D!Free
           field == path_path[k]
           own == D!Own(digi)
<1>1. PICK alias \in DigiAliases : path_path' = D!Rewritten(path_path, k, alias, digi)
  BY DEF D!Repeat
<1>2. path_path \in Seq(PathFields) /\ k \in 1 .. Len(path_path) /\ ~field.used
  BY FreeField DEF PathInv, D!Repeat
<1>3. field \in PathFields
  BY <1>2
<1>4. own \in PathFields /\ D!Worth(own) = 0
  BY PathAssumption DEF D!Own, PathFields, D!Worth
<1> DEFINE less == D!Fewer(field)
           simple == [path_path EXCEPT ![k] = own]
           flood == [path_path EXCEPT ![k] = less]
<1>5. less \in PathFields /\ D!Worth(less) = D!Worth(field) - 1 /\ D!Worth(field) \in 1 .. 16
  BY <1>2, <1>3, FewerIsLess, WorthIs
<1>6. path_path' \in {simple, flood, D!InsertAt(flood, k, own)}
  <2>1. alias.type \in {D!Simple, D!Flood, D!Trace}
    BY PathAssumption DEF D!Simple, D!Flood, D!Trace
  <2> QED BY <1>1, <2>1 DEF D!Rewritten, D!Simple, D!Flood, D!Trace
<1> HIDE DEF k, own, less
<1>7. simple \in Seq(PathFields) /\ D!Budget(simple) + 1 <= D!Budget(path_path)
  <2>1. D!Worth(own) + 1 <= D!Worth(field)
    BY <1>4, <1>5
  <2> QED BY <1>2, <1>4, <2>1, BudgetLess
<1>8. flood \in Seq(PathFields) /\ D!Budget(flood) + 1 <= D!Budget(path_path)
  <2>1. D!Worth(less) + 1 <= D!Worth(field)
    BY <1>5
  <2> QED BY <1>2, <1>5, <2>1, BudgetLess
<1>9. /\ D!InsertAt(flood, k, own) \in Seq(PathFields)
      /\ D!Budget(D!InsertAt(flood, k, own)) <= D!Budget(flood)
  <2>1. k \in 1 .. Len(flood)
    BY <1>2
  <2> HIDE DEF flood
  <2> QED BY <1>4, <1>8, <2>1, BudgetInserted
<1> HIDE DEF simple, flood
<1>10. path_path' \in Seq(PathFields) /\ D!Budget(path_path') + 1 <= D!Budget(path_path)
  <2>1. D!Budget(flood) \in Int /\ D!Budget(path_path) \in Int
        /\ D!Budget(D!InsertAt(flood, k, own)) \in Int
    BY <1>2, <1>8, <1>9, BudgetNumber
  <2> QED BY <1>6, <1>7, <1>8, <1>9, <2>1
<1>11. path_repeats' = path_repeats + 1 /\ path_origin' = path_origin
  BY DEF D!Repeat
<1>12. D!Budget(path_path') \in Int /\ D!Budget(path_path) \in Int
  BY <1>2, <1>10, BudgetNumber
<1> QED BY <1>10, <1>11, <1>12 DEF PathInv, D!RepeatsPaid
-----------------------------------------------------------------------------
(* The fields of a frame on the wire.                                       *)
Octets == [of : STRING \cup {"UI", "noLayer3"}, high : BOOLEAN, low : BOOLEAN]

(* As many fields or fewer are as many octets or fewer.                     *)
LEMMA FieldsOrder ==
  ASSUME NEW a \in Nat, NEW b \in Nat, NEW F \in Nat
  PROVE  /\ a * F \in Nat
         /\ (a + 1) * F = a * F + F
         /\ a <= b => a * F <= b * F
<1>1. a * F \in Nat /\ (a + 1) * F = a * F + F
  BY SMT
<1>2. ASSUME a <= b PROVE a * F <= b * F
  <2>1. b - a \in Nat /\ b = a + (b - a)
    BY <1>2
  <2>2. \A d \in Nat : (a + d) * F = a * F + d * F /\ d * F >= 0
    BY SMT
  <2> QED BY <1>1, <2>1, <2>2, SMT
<1> QED BY <1>1, <1>2

(* The octets of whole fields are that many fields.                         *)
LEMMA FieldsCount ==
  ASSUME NEW a \in Nat, NEW F \in Nat \ {0}
  PROVE  /\ (a * F) \div F = a
         /\ \A n \in Nat : n \div F \in Nat /\ (a * F <= n => n \div F >= a)
<1>1. \A n \in Nat : n \div F \in Nat /\ (n \div F) * F <= n /\ n < (n \div F) * F + F
  BY SMT
<1>2. ASSUME NEW n \in Nat, a * F <= n PROVE n \div F >= a
  <2>1. n \div F \in Nat /\ n < (n \div F) * F + F
    BY <1>1
  <2>2. (n \div F + 1) * F = (n \div F) * F + F
    BY <2>1, FieldsOrder
  <2>3. ASSUME n \div F + 1 <= a PROVE FALSE
    <3>1. (n \div F + 1) * F <= a * F
      BY <2>1, <2>3, FieldsOrder
    <3>2. (n \div F) * F \in Nat /\ a * F \in Nat
      BY <2>1, FieldsOrder
    <3> QED BY <1>2, <2>1, <2>2, <3>1, <3>2
  <2> QED BY <2>1, <2>3
<1>3. (a * F) \div F <= a
  <2> DEFINE q == (a * F) \div F
  <2>1. a * F \in Nat /\ q \in Nat /\ q * F <= a * F
    <3>1. a * F \in Nat
      BY FieldsOrder
    <3> QED BY <1>1, <3>1
  <2>2. ASSUME a + 1 <= q PROVE FALSE
    <3>1. (a + 1) * F <= q * F /\ (a + 1) * F = a * F + F /\ q * F \in Nat
      BY <2>1, <2>2, FieldsOrder
    <3> QED BY <2>1, <3>1
  <2> HIDE DEF q
  <2> QED BY <2>1, <2>2
<1>4. a * F \in Nat /\ (a * F) \div F \in Nat
  BY <1>1, FieldsOrder
<1>5. (a * F) \div F >= a
  BY <1>2, <1>4
<1>6. (a * F) \div F = a
  <2> DEFINE q == (a * F) \div F
  <2>1. q \in Nat /\ q <= a /\ q >= a
    BY <1>3, <1>4, <1>5
  <2> HIDE DEF q
  <2>2. q = a
    BY <2>1
  <2> QED BY Zenon, <2>2 DEF q
<1> QED BY Zenon, <1>1, <1>2, <1>6

(* A field has the call in each octet, and its bit in the last one.         *)
OctetsOfField(octets, call, last) ==
  /\ octets \in Seq(Octets) /\ Len(octets) = FieldLen
  /\ \A i \in 1 .. FieldLen : octets[i].of = call
  /\ octets[FieldLen].low = last

LEMMA FieldIs ==
  ASSUME NEW call \in STRING, NEW mark \in BOOLEAN, NEW last \in BOOLEAN
  PROVE  OctetsOfField(A!Field(call, mark, last), call, last)
<1> DEFINE Octet(i) == [of |-> call, high |-> i = FieldLen /\ mark, low |-> i = FieldLen /\ last]
<1>1. FieldLen \in Nat /\ FieldLen \in 1 .. FieldLen
  BY FieldAssumption
<1>2. \A i \in 1 .. FieldLen : Octet(i) \in Octets /\ Octet(i).of = call
  BY Zenon DEF Octets
<1>3. Octet(FieldLen).low = last
  <2>1. CASE last = TRUE
    BY Zenon, <2>1
  <2>2. CASE last = FALSE
    BY Zenon, <2>2
  <2> QED BY Zenon, <2>1, <2>2
<1>4. A!Field(call, mark, last) = [i \in 1 .. FieldLen |-> Octet(i)]
  BY Zenon DEF A!Field
<1> HIDE DEF Octet
<1>5. A!Field(call, mark, last) \in Seq(Octets) /\ Len(A!Field(call, mark, last)) = FieldLen
  BY <1>1, <1>2, <1>4
<1>6. \A i \in 1 .. FieldLen : A!Field(call, mark, last)[i] = Octet(i)
  BY Zenon, <1>4
<1> QED BY Zenon, <1>1, <1>2, <1>3, <1>5, <1>6 DEF OctetsOfField

(* The fields of a path, one after the other.                               *)
LEMMA FieldsJoined ==
  ASSUME NEW seqs \in Seq(Seq(Octets)), seqs # <<>>,
         \A k \in 1 .. Len(seqs) : Len(seqs[k]) = FieldLen
  PROVE  /\ Joined(seqs) \in Seq(Octets) /\ Len(Joined(seqs)) = Len(seqs) * FieldLen
         /\ \A j \in 1 .. Len(seqs), i \in 1 .. FieldLen :
              Joined(seqs)[(j - 1) * FieldLen + i] = seqs[j][i]
<1> DEFINE n == Len(seqs)
<1>1. n \in Nat /\ n >= 1 /\ FieldLen \in Nat /\ FieldLen >= 1
  BY FieldAssumption
<1>2. PICK r \in Joins(seqs, Octets) : Joined(seqs) = r[n]
  BY JoinExists
<1>3. /\ r \in [1 .. n -> Seq(Octets)] /\ r[1] = seqs[1]
      /\ \A k \in 1 .. n : k # 1 => r[k] = r[k - 1] \o seqs[k]
  BY <1>2 DEF Joins
<1> DEFINE Placed(k) ==
             /\ Len(r[k]) = k * FieldLen
             /\ \A j \in 1 .. k, i \in 1 .. FieldLen : r[k][(j - 1) * FieldLen + i] = seqs[j][i]
           H == {k \in 1 .. n : Placed(k)}
<1>4. 1 \in H
  <2>1. Len(r[1]) = 1 * FieldLen
    BY <1>1, <1>3
  <2>2. ASSUME NEW j \in 1 .. 1, NEW i \in 1 .. FieldLen
        PROVE  r[1][(j - 1) * FieldLen + i] = seqs[j][i]
    <3>1. j = 1 /\ (j - 1) * FieldLen + i = i
      BY <1>1
    <3> QED BY <1>3, <3>1
  <2> QED BY <1>1, <2>1, <2>2
<1>5. ASSUME NEW k \in 1 .. n, k \in H, k < n PROVE k + 1 \in H
  <2>1. k + 1 \in 1 .. n /\ k + 1 # 1 /\ (k + 1) - 1 = k /\ k \in Nat
    BY <1>1, <1>5
  <2>2. /\ r[k + 1] = r[k] \o seqs[k + 1] /\ r[k] \in Seq(Octets)
        /\ seqs[k + 1] \in Seq(Octets) /\ Len(seqs[k + 1]) = FieldLen
    <3>1. r[k + 1] = r[(k + 1) - 1] \o seqs[k + 1]
      BY Zenon, <1>3, <2>1
    <3>2. r[k] \in Seq(Octets)
      BY Zenon, <1>3
    <3>3. seqs[k + 1] \in Seq(Octets) /\ Len(seqs[k + 1]) = FieldLen
      BY <2>1
    <3> QED BY Zenon, <2>1, <3>1, <3>2, <3>3
  <2> DEFINE a == r[k]
             b == seqs[k + 1]
  <2>20. /\ a \in Seq(Octets) /\ b \in Seq(Octets) /\ r[k + 1] = a \o b
         /\ Len(a \o b) = Len(a) + Len(b)
         /\ \A x \in 1 .. Len(a) : (a \o b)[x] = a[x]
         /\ \A x \in 1 .. Len(b) : (a \o b)[Len(a) + x] = b[x]
    <3>1. a \in Seq(Octets) /\ b \in Seq(Octets) /\ r[k + 1] = a \o b
      BY Zenon, <2>2
    <3> HIDE DEF a, b, H, n
    <3>2. Follows(a \o b, a, b, Octets)
      BY Zenon, <3>1, FollowsBehind
    <3> QED BY Zenon, <3>1, <3>2 DEF Follows
  <2>3. Len(r[k]) = k * FieldLen /\ k * FieldLen \in Nat /\ (k + 1) * FieldLen = k * FieldLen + FieldLen
    BY <1>1, <1>5, <2>1, FieldsOrder
  <2>4. Len(r[k + 1]) = (k + 1) * FieldLen
    BY Zenon, <2>2, <2>3, <2>20
  <2>5. ASSUME NEW j \in 1 .. k + 1, NEW i \in 1 .. FieldLen
        PROVE  r[k + 1][(j - 1) * FieldLen + i] = seqs[j][i]
    <3>1. CASE j <= k
      <4>1. j - 1 \in Nat /\ (j - 1) + 1 = j /\ j \in 1 .. k
        BY <2>1, <3>1
      <4>2. (j - 1) * FieldLen \in Nat /\ j * FieldLen = (j - 1) * FieldLen + FieldLen /\ j * FieldLen <= k * FieldLen
        <5>1. j \in Nat
          BY <4>1
        <5>2. (j - 1) * FieldLen \in Nat /\ ((j - 1) + 1) * FieldLen = (j - 1) * FieldLen + FieldLen
          BY Zenon, <1>1, <4>1, FieldsOrder
        <5>3. j * FieldLen <= k * FieldLen
          BY <1>1, <2>1, <3>1, <5>1, FieldsOrder
        <5> QED BY <4>1, <5>2, <5>3
      <4>3. (j - 1) * FieldLen + i \in 1 .. Len(r[k])
        <5> DEFINE y == (j - 1) * FieldLen
        <5>1. y \in Nat /\ y + FieldLen <= Len(r[k]) /\ FieldLen \in Nat
          <6>1. k * FieldLen = Len(r[k]) /\ Len(r[k]) \in Nat
            BY <2>3
          <6> QED BY <1>1, <4>2, <6>1
        <5> HIDE DEF H, n, y
        <5>2. y + i \in 1 .. Len(r[k])
          BY <5>1, <2>3
        <5> QED BY Zenon, <5>2 DEF y
      <4>4. r[k][(j - 1) * FieldLen + i] = seqs[j][i]
        BY <1>5, <4>1
      <4> DEFINE x == (j - 1) * FieldLen + i
      <4>5. x \in 1 .. Len(r[k]) /\ r[k][x] = seqs[j][i]
        BY <4>3, <4>4
      <4> HIDE DEF H, n, x
      <4>6. r[k + 1][x] = r[k][x]
        BY Zenon, <2>20, <4>5
      <4> QED BY Zenon, <4>5, <4>6 DEF x
    <3>2. CASE j = k + 1
      <4>1. (j - 1) * FieldLen + i = Len(r[k]) + i
        BY <2>1, <2>3, <3>2
      <4>2. r[k + 1][Len(r[k]) + i] = seqs[k + 1][i]
        BY Zenon, <2>2, <2>20
      <4> HIDE DEF H
      <4> QED BY <3>2, <4>1, <4>2
    <3> QED BY <2>1, <3>1, <3>2
  <2> QED BY Zenon, <2>1, <2>4, <2>5
<1>6. \A k \in 1 .. n : k \in H
  <2>1. 1 \in Int /\ n \in Int
    BY <1>1
  <2> HIDE DEF H, n
  <2> QED BY <1>4, <1>5, <2>1, IntervalInduction
<1>7. n \in 1 .. n
  BY <1>1
<1>8. Placed(n)
  BY <1>6, <1>7
<1> HIDE DEF H
<1> QED BY <1>2, <1>3, <1>7, <1>8

(* The octets of a frame with a path whose last field says so.              *)
Octeted(f, c, d, s, h) ==
  A!Field(f.dst, c, d) \o A!Field(f.src, FALSE, s)
  \o Joined([i \in 1 .. Len(f.path) |-> A!Field(f.path[i], i <= h, i = Len(f.path))])
  \o A!Control \o f.text

(* A frame that is transmitted.                                             *)
LEMMA SentFrame ==
  ASSUME NEW f \in A!Frames
  PROVE  /\ f.dst \in STRING /\ f.src \in STRING /\ f.path \in Seq(STRING)
         /\ f.text \in Seq(Octets)
         /\ f.repeated \in Nat
<1>1. Calls \subseteq STRING /\ Ax25Texts \subseteq Seq(Octets)
  <2>1. \A t \in Seq([of : STRING, high : BOOLEAN, low : BOOLEAN]) : t \in Seq(Octets)
    <3>1. \A x \in [of : STRING, high : BOOLEAN, low : BOOLEAN] : x \in Octets
      BY DEF Octets
    <3> DEFINE Values == [of : STRING, high : BOOLEAN, low : BOOLEAN]
    <3>2. Values \subseteq Octets
      BY Zenon, <3>1
    <3> HIDE DEF Values
    <3>3. \A t \in Seq(Values) : t \in Seq(Octets)
      BY <3>2
    <3> QED BY Zenon, <3>3 DEF Values
  <2> QED BY Zenon, <2>1, FieldAssumption
<1>2. f \in [dst : Calls, src : Calls, path : A!SeqOf(Calls, MaxPath),
             repeated : 0 .. MaxPath, text : Ax25Texts]
  BY DEF A!Frames
<1>3. \A p \in A!SeqOf(Calls, MaxPath) : p \in Seq(STRING)
  <2> SUFFICES ASSUME NEW p \in A!SeqOf(Calls, MaxPath) PROVE p \in Seq(STRING)
    OBVIOUS
  <2>1. PICK k \in 0 .. MaxPath : p \in [1 .. k -> Calls]
    BY Zenon DEF A!SeqOf
  <2>2. k \in Nat
    BY FieldAssumption
  <2>3. p \in [1 .. k -> STRING]
    BY Zenon, <1>1, <2>1
  <2> QED BY <2>2, <2>3
<1>4. f.repeated \in Nat
  <2>1. f.repeated \in 0 .. MaxPath
    BY Zenon, <1>2
  <2> QED BY <2>1, FieldAssumption
<1>5. f.dst \in STRING /\ f.src \in STRING /\ f.path \in Seq(STRING) /\ f.text \in Seq(Octets)
  BY <1>1, <1>2, <1>3
<1> QED BY Zenon, <1>4, <1>5

(* Where the octets of a frame of m fields are: those of the fields behind  *)
(* the source, and the text.                                                *)
OctetsPlaced(f, m, oct) ==
  /\ oct \in Seq(Octets) /\ Len(oct) = m * FieldLen + 2 + Len(f.text)
  /\ oct[1].of = f.dst /\ oct[FieldLen + 1].of = f.src
  /\ \A k \in 3 .. m : /\ oct[(k - 1) * FieldLen + 1].of = f.path[k - 2]
                       /\ oct[(k - 1) * FieldLen + FieldLen].low = (k = m)
  /\ \A x \in 1 .. Len(f.text) : oct[m * FieldLen + 2 + x] = f.text[x]

(* The octets of a frame are its fields, one behind the other, and its text.*)
LEMMA OctetsOf ==
  ASSUME NEW f \in A!Frames, f.path # <<>>, NEW c \in BOOLEAN, NEW d \in BOOLEAN,
         NEW s \in BOOLEAN, NEW h \in Nat
  PROVE  OctetsPlaced(f, Len(f.path) + 2, Octeted(f, c, d, s, h))
<1> DEFINE n == Len(f.path)
           m == n + 2
           oct == Octeted(f, c, d, s, h)
           seqs == [i \in 1 .. n |-> A!Field(f.path[i], i <= h, i = n)]
           a == A!Field(f.dst, c, d)
           b == A!Field(f.src, FALSE, s)
           e == A!Control
           j == Joined(seqs)
<1>1. /\ f.dst \in STRING /\ f.src \in STRING /\ f.path \in Seq(STRING) /\ f.text \in Seq(Octets)
      /\ n \in Nat /\ n >= 1 /\ FieldLen \in Nat /\ FieldLen >= 1
  BY SentFrame, FieldAssumption
<1>2. a \in Seq(Octets) /\ Len(a) = FieldLen /\ a[1].of = f.dst
  <2>1. 1 \in 1 .. FieldLen
    BY <1>1
  <2>2. /\ a \in Seq(Octets) /\ Len(a) = FieldLen
        /\ \A i \in 1 .. FieldLen : a[i].of = f.dst
    <3>1. OctetsOfField(A!Field(f.dst, c, d), f.dst, d)
      BY <1>1, FieldIs
    <3> QED BY Zenon, <3>1 DEF OctetsOfField
  <2> QED BY Zenon, <2>1, <2>2
<1>3. b \in Seq(Octets) /\ Len(b) = FieldLen /\ b[1].of = f.src
  <2>1. 1 \in 1 .. FieldLen
    BY <1>1
  <2>2. /\ b \in Seq(Octets) /\ Len(b) = FieldLen
        /\ \A i \in 1 .. FieldLen : b[i].of = f.src
    <3>1. OctetsOfField(A!Field(f.src, FALSE, s), f.src, s)
      BY <1>1, FieldIs
    <3> QED BY Zenon, <3>1 DEF OctetsOfField
  <2> QED BY Zenon, <2>1, <2>2
<1>4. e \in Seq(Octets) /\ Len(e) = 2
  <2>1. /\ [of |-> "UI", high |-> FALSE, low |-> TRUE] \in Octets
        /\ [of |-> "noLayer3", high |-> TRUE, low |-> FALSE] \in Octets
    BY Zenon DEF Octets
  <2>2. \A x, y \in Octets : <<x, y>> \in Seq(Octets) /\ Len(<<x, y>>) = 2
    OBVIOUS
  <2> QED BY Zenon, <2>1, <2>2 DEF A!Control
<1>5. \A i \in 1 .. n : /\ seqs[i] \in Seq(Octets) /\ Len(seqs[i]) = FieldLen
                        /\ seqs[i][1].of = f.path[i]
                        /\ seqs[i][FieldLen].low = (i = n)
  <2> SUFFICES ASSUME NEW i \in 1 .. n
               PROVE  /\ seqs[i] \in Seq(Octets) /\ Len(seqs[i]) = FieldLen
                      /\ seqs[i][1].of = f.path[i]
                      /\ seqs[i][FieldLen].low = (i = n)
    BY Zenon
  <2>1. 1 \in 1 .. FieldLen /\ FieldLen \in 1 .. FieldLen /\ f.path[i] \in STRING
    BY <1>1
  <2>2. seqs[i] = A!Field(f.path[i], i <= h, i = n)
    BY Zenon
  <2> DEFINE last == i = n
             mark == i <= h
  <2>3. last \in BOOLEAN /\ last = (i = n) /\ mark \in BOOLEAN
    <3>1. last \in BOOLEAN /\ last = (i = n)
      BY Zenon
    <3>2. mark \in BOOLEAN
      OBVIOUS
    <3> QED BY Zenon, <3>1, <3>2
  <2> HIDE DEF last, mark
  <2>4. OctetsOfField(A!Field(f.path[i], mark, last), f.path[i], last)
    <3>1. last \in BOOLEAN /\ mark \in BOOLEAN /\ f.path[i] \in STRING
      BY Zenon, <2>1, <2>3
    <3> HIDE DEF n, seqs
    <3> QED BY <3>1, FieldIs
  <2>5. seqs[i] = A!Field(f.path[i], mark, last)
    BY Zenon, <2>2 DEF last, mark
  <2> HIDE DEF n, seqs
  <2> QED BY Zenon, <2>1, <2>3, <2>4, <2>5 DEF OctetsOfField
<1>6. seqs \in Seq(Seq(Octets)) /\ Len(seqs) = n /\ seqs # <<>>
  <2>1. seqs \in [1 .. n -> Seq(Octets)]
    BY Zenon, <1>5
  <2>2. n \in Nat /\ n >= 1
    BY <1>1
  <2> HIDE DEF seqs, n
  <2> QED BY <2>1, <2>2
<1>7. /\ j \in Seq(Octets) /\ Len(j) = n * FieldLen
      /\ \A k \in 1 .. n, i \in 1 .. FieldLen : j[(k - 1) * FieldLen + i] = seqs[k][i]
  <2> HIDE DEF seqs, n
  <2>1. \A k \in 1 .. Len(seqs) : Len(seqs[k]) = FieldLen
    BY Zenon, <1>5, <1>6
  <2>2. /\ j \in Seq(Octets) /\ Len(j) = Len(seqs) * FieldLen
        /\ \A k \in 1 .. Len(seqs), i \in 1 .. FieldLen : j[(k - 1) * FieldLen + i] = seqs[k][i]
    BY Zenon, <1>6, <2>1, FieldsJoined
  <2> QED BY Zenon, <1>6, <2>2
<1>0. m \in Nat /\ m = n + 2
  BY <1>1
<1>8. oct = (((a \o b) \o j) \o e) \o f.text
  BY Zenon DEF Octeted
<1>9. n * FieldLen \in Nat /\ m * FieldLen = n * FieldLen + FieldLen + FieldLen
  <2>1. n * FieldLen \in Nat /\ (n + 1) * FieldLen = n * FieldLen + FieldLen
        /\ ((n + 1) + 1) * FieldLen = (n + 1) * FieldLen + FieldLen
    BY <1>1, FieldsOrder
  <2>2. (n + 1) + 1 = m
    BY <1>0, <1>1
  <2> QED BY <1>1, <2>1, <2>2
<1> DEFINE J == n * FieldLen
           M == m * FieldLen
           t == f.text
<1> HIDE DEF m, oct
<1>10. J \in Nat /\ M = J + FieldLen + FieldLen /\ Len(j) = J /\ t \in Seq(Octets)
  BY <1>1, <1>7, <1>9
<1> HIDE DEF seqs, a, b, e, j, J, M, n, t
<1>11. /\ oct \in Seq(Octets) /\ Len(oct) = M + 2 + Len(t)
       /\ \A x \in 1 .. FieldLen : oct[x] = a[x] /\ oct[FieldLen + x] = b[x]
       /\ \A x \in 1 .. J : oct[FieldLen + FieldLen + x] = j[x]
       /\ \A x \in 1 .. Len(t) : oct[M + 2 + x] = t[x]
  <2> DEFINE ab == a \o b
             abj == ab \o j
             abjc == abj \o e
  <2>1. /\ ab \in Seq(Octets) /\ Len(ab) = FieldLen + FieldLen
        /\ \A x \in 1 .. FieldLen : ab[x] = a[x]
        /\ \A x \in 1 .. FieldLen : ab[FieldLen + x] = b[x]
    <3>1. a \in Seq(Octets) /\ b \in Seq(Octets)
      BY Zenon, <1>2, <1>3
    <3>2. Follows(ab, a, b, Octets)
      BY Zenon, <3>1, FollowsBehind
    <3>3. Len(a) = FieldLen /\ Len(b) = FieldLen
      BY Zenon, <1>2, <1>3
    <3> HIDE DEF ab
    <3> QED BY Zenon, <3>2, <3>3 DEF Follows
  <2> HIDE DEF ab
  <2>2. /\ abj \in Seq(Octets) /\ Len(abj) = M
        /\ \A x \in 1 .. FieldLen + FieldLen : abj[x] = ab[x]
        /\ \A x \in 1 .. J : abj[FieldLen + FieldLen + x] = j[x]
    <3>1. ab \in Seq(Octets) /\ j \in Seq(Octets)
      BY Zenon, <1>7, <2>1
    <3>2. Follows(abj, ab, j, Octets)
      BY Zenon, <3>1, FollowsBehind
    <3>3. Len(ab) = FieldLen + FieldLen /\ Len(j) = J /\ FieldLen + FieldLen + J = M
      BY <1>1, <1>10, <2>1
    <3> HIDE DEF abj
    <3> QED BY Zenon, <3>2, <3>3 DEF Follows
  <2> HIDE DEF abj
  <2>3. M \in Nat
    BY <1>1, <1>10
  <2>4. /\ abjc \in Seq(Octets) /\ Len(abjc) = M + 2
        /\ \A x \in 1 .. M : abjc[x] = abj[x]
    <3>1. abj \in Seq(Octets) /\ e \in Seq(Octets)
      BY Zenon, <1>4, <2>2
    <3>2. Follows(abjc, abj, e, Octets)
      BY Zenon, <3>1, FollowsBehind
    <3> HIDE DEF abjc
    <3> QED BY Zenon, <1>4, <2>2, <3>2 DEF Follows
  <2> HIDE DEF abjc
  <2>5. oct = abjc \o t
    BY Zenon, <1>8 DEF ab, abj, abjc, t
  <2>6. /\ oct \in Seq(Octets) /\ Len(oct) = M + 2 + Len(t)
        /\ \A x \in 1 .. M + 2 : oct[x] = abjc[x]
        /\ \A x \in 1 .. Len(t) : oct[M + 2 + x] = t[x]
    <3>1. abjc \in Seq(Octets) /\ t \in Seq(Octets)
      BY Zenon, <1>10, <2>4
    <3>2. Follows(oct, abjc, t, Octets)
      BY Zenon, <2>5, <3>1, FollowsBehind
    <3> QED BY Zenon, <2>4, <3>2 DEF Follows
  <2>7. \A x \in 1 .. M : oct[x] = abj[x]
    <3> SUFFICES ASSUME NEW x \in 1 .. M PROVE oct[x] = abj[x]
      OBVIOUS
    <3>1. x \in 1 .. M + 2
      BY <2>3
    <3> QED BY Zenon, <2>4, <2>6, <3>1
  <2>8. \A x \in 1 .. FieldLen : oct[x] = a[x] /\ oct[FieldLen + x] = b[x]
    <3> SUFFICES ASSUME NEW x \in 1 .. FieldLen PROVE oct[x] = a[x] /\ oct[FieldLen + x] = b[x]
      OBVIOUS
    <3>1. /\ x \in 1 .. M /\ FieldLen + x \in 1 .. M
          /\ x \in 1 .. FieldLen + FieldLen /\ FieldLen + x \in 1 .. FieldLen + FieldLen
      BY <1>1, <1>10
    <3> QED BY Zenon, <2>1, <2>2, <2>7, <3>1
  <2>9. \A x \in 1 .. J : oct[FieldLen + FieldLen + x] = j[x]
    <3> SUFFICES ASSUME NEW x \in 1 .. J PROVE oct[FieldLen + FieldLen + x] = j[x]
      OBVIOUS
    <3>1. FieldLen + FieldLen + x \in 1 .. M
      BY <1>1, <1>10
    <3> QED BY Zenon, <2>2, <2>7, <3>1
  <2> QED BY <2>6, <2>8, <2>9
<1>12. oct[1].of = f.dst /\ oct[FieldLen + 1].of = f.src
  <2>1. 1 \in 1 .. FieldLen
    BY <1>1
  <2> QED BY Zenon, <1>2, <1>3, <1>11, <2>1
<1>13. ASSUME NEW k \in 3 .. m, NEW i \in 1 .. FieldLen
       PROVE  k - 2 \in 1 .. n /\ oct[(k - 1) * FieldLen + i] = seqs[k - 2][i]
  <2>1. k - 2 \in 1 .. n /\ (k - 2) - 1 \in Nat
    BY <1>0, <1>1
  <2> DEFINE y == ((k - 2) - 1) * FieldLen
  <2>2. y \in Nat /\ (k - 1) * FieldLen = y + FieldLen + FieldLen /\ y + FieldLen <= J
    <3> DEFINE q == (k - 2) - 1
    <3>1. /\ q \in Nat /\ (q + 1) + 1 = k - 1 /\ q + 1 <= n /\ q + 1 \in Nat /\ n \in Nat
      BY <1>0, <1>1, <2>1
    <3> HIDE DEF q
    <3>2. /\ q * FieldLen \in Nat /\ (q + 1) * FieldLen = q * FieldLen + FieldLen
          /\ ((q + 1) + 1) * FieldLen = (q + 1) * FieldLen + FieldLen
          /\ (q + 1) * FieldLen <= n * FieldLen
      BY <1>1, <3>1, FieldsOrder
    <3>3. y = q * FieldLen
      BY Zenon DEF q
    <3>4. (k - 1) * FieldLen = ((q + 1) + 1) * FieldLen
      BY Zenon, <3>1
    <3> QED BY <1>1, <3>2, <3>3, <3>4 DEF J
  <2> HIDE DEF y
  <2> DEFINE z == (k - 1) * FieldLen
  <2>3. y + i \in 1 .. J /\ z + i = FieldLen + FieldLen + (y + i)
    <3>1. z = y + FieldLen + FieldLen
      BY <2>2
    <3> HIDE DEF z
    <3> QED BY <1>1, <1>10, <2>2, <3>1
  <2>4. oct[FieldLen + FieldLen + (y + i)] = j[y + i]
    BY Zenon, <1>11, <2>3
  <2>5. j[y + i] = seqs[k - 2][i]
    BY Zenon, <1>7, <2>1 DEF y
  <2>6. oct[z + i] = seqs[k - 2][i]
    <3> HIDE DEF z
    <3> QED BY Zenon, <2>3, <2>4, <2>5
  <2> QED BY Zenon, <2>1, <2>6
<1>14. \A k \in 3 .. m : /\ oct[(k - 1) * FieldLen + 1].of = f.path[k - 2]
                         /\ oct[(k - 1) * FieldLen + FieldLen].low = (k = m)
  <2> SUFFICES ASSUME NEW k \in 3 .. m
               PROVE  /\ oct[(k - 1) * FieldLen + 1].of = f.path[k - 2]
                      /\ oct[(k - 1) * FieldLen + FieldLen].low = (k = m)
    BY Zenon
  <2>1. 1 \in 1 .. FieldLen /\ FieldLen \in 1 .. FieldLen
    BY <1>0, <1>1
  <2>2. k - 2 \in 1 .. n /\ (k - 2 = n <=> k = m)
    BY <1>0, <1>1
  <2>3. /\ oct[(k - 1) * FieldLen + 1] = seqs[k - 2][1]
        /\ oct[(k - 1) * FieldLen + FieldLen] = seqs[k - 2][FieldLen]
    BY Zenon, <1>13, <2>1
  <2>4. seqs[k - 2][1].of = f.path[k - 2] /\ seqs[k - 2][FieldLen].low = (k - 2 = n)
    BY Zenon, <1>5, <2>2
  <2> QED BY Zenon, <2>2, <2>3, <2>4
<1>15. Len(oct) = m * FieldLen + 2 + Len(f.text)
  BY Zenon, <1>11 DEF M, t
<1>16. \A x \in 1 .. Len(f.text) : oct[m * FieldLen + 2 + x] = f.text[x]
  BY Zenon, <1>11 DEF M, t
<1> QED BY Zenon, <1>11, <1>12, <1>14, <1>15, <1>16 DEF OctetsPlaced, m, n, oct

(* A frame whose last field alone of those behind the source says so is     *)
(* read as it was sent, its text with what is behind it (ax25_decode).      *)
LEMMA FrameRead ==
  ASSUME NEW f \in A!Frames, f.path # <<>>, NEW c \in BOOLEAN, NEW d \in BOOLEAN,
         NEW s \in BOOLEAN, NEW h \in Nat, NEW rest
  PROVE  A!Decode(Octeted(f, c, d, s, h), rest)
         = [dst |-> f.dst, src |-> f.src, path |-> f.path, text |-> A!Printed(f.text \o rest)]
<1> DEFINE oct == Octeted(f, c, d, s, h)
           m == Len(f.path) + 2
           M == m * FieldLen
           fields == {k \in 3 .. Len(oct) \div FieldLen : oct[k * FieldLen].low}
<1>1. /\ f.path \in Seq(STRING) /\ f.text \in Seq(Octets)
      /\ FieldLen \in Nat \ {0} /\ m \in Nat /\ m >= 3
  BY SentFrame, FieldAssumption
<1>2. /\ oct \in Seq(Octets) /\ Len(oct) = M + 2 + Len(f.text)
      /\ oct[1].of = f.dst /\ oct[FieldLen + 1].of = f.src
      /\ \A k \in 3 .. m : /\ oct[(k - 1) * FieldLen + 1].of = f.path[k - 2]
                           /\ oct[(k - 1) * FieldLen + FieldLen].low = (k = m)
      /\ \A x \in 1 .. Len(f.text) : oct[M + 2 + x] = f.text[x]
  <2>1. OctetsPlaced(f, m, oct)
    BY Zenon, OctetsOf
  <2> HIDE DEF m, oct
  <2> QED BY Zenon, <2>1 DEF OctetsPlaced
<1> HIDE DEF oct
<1>3. M \in Nat /\ M \div FieldLen = m /\ Len(oct) \div FieldLen \in Nat /\ Len(oct) \div FieldLen >= m
  <2>1. /\ M \in Nat /\ M \div FieldLen = m
        /\ \A n \in Nat : n \div FieldLen \in Nat /\ (M <= n => n \div FieldLen >= m)
    <3>1. m \in Nat /\ FieldLen \in Nat \ {0} /\ FieldLen \in Nat
      BY <1>1
    <3> HIDE DEF m
    <3> QED BY Zenon, <3>1, FieldsCount, FieldsOrder
  <2>2. Len(oct) \in Nat /\ M <= Len(oct)
    <3>1. Len(f.text) \in Nat
      BY <1>1
    <3>2. Len(oct) = M + 2 + Len(f.text)
      BY Zenon, <1>2
    <3>3. M \in Nat
      BY Zenon, <2>1
    <3> HIDE DEF M, m, fields
    <3>4. \A x, y, z : x \in Nat /\ y \in Nat /\ z = y + 2 + x => z \in Nat /\ y <= z
      OBVIOUS
    <3> QED BY Zenon, <3>1, <3>2, <3>3, <3>4
  <2> HIDE DEF M
  <2> QED BY Zenon, <2>1, <2>2
<1>4. \A k \in 3 .. m : (k - 1) * FieldLen + FieldLen = k * FieldLen
  <2> SUFFICES ASSUME NEW k \in 3 .. m PROVE (k - 1) * FieldLen + FieldLen = k * FieldLen
    OBVIOUS
  <2>1. k - 1 \in Nat /\ (k - 1) + 1 = k
    BY <1>1
  <2> QED BY Zenon, <1>1, <2>1, FieldsOrder
<1>5. m \in fields
  <2>1. m \in 3 .. m /\ m \in 3 .. Len(oct) \div FieldLen
    <3> HIDE DEF m
    <3> QED BY <1>1, <1>3
  <2>2. oct[(m - 1) * FieldLen + FieldLen].low = (m = m)
    BY Zenon, <1>2, <2>1
  <2>3. oct[m * FieldLen].low
    BY Zenon, <1>4, <2>1, <2>2
  <2> HIDE DEF m
  <2> QED BY Zenon, <2>1, <2>3
<1>6. \A k \in fields : m <= k
  <2> SUFFICES ASSUME NEW k \in 3 .. Len(oct) \div FieldLen, oct[k * FieldLen].low, k < m PROVE FALSE
    <3> HIDE DEF m
    <3> QED BY <1>1, <1>3
  <2>1. k \in 3 .. m /\ k # m
    BY <1>1, <1>3
  <2>2. oct[(k - 1) * FieldLen + FieldLen].low = (k = m)
    BY Zenon, <1>2, <2>1
  <2> HIDE DEF m
  <2> QED BY Zenon, <1>4, <2>1, <2>2
<1>7. A!AddressEnd(oct) = M
  <2> DEFINE least == CHOOSE k \in fields : \A l \in fields : k <= l
  <2>1. least \in fields /\ \A l \in fields : least <= l
    BY Zenon, <1>5, <1>6
  <2>2. least \in Nat
    BY <2>1
  <2>3. least = m
    <3>1. least <= m /\ m <= least
      BY Zenon, <1>5, <1>6, <2>1
    <3> HIDE DEF least, m
    <3> QED BY <1>1, <2>2, <3>1
  <2>4. A!AddressEnd(oct) = least * FieldLen
    BY Zenon, <1>5 DEF A!AddressEnd
  <2> HIDE DEF least, m
  <2> QED BY Zenon, <2>3, <2>4
<1>8. ~(M + 2 > Len(oct))
  <2>1. Len(f.text) \in Nat
    BY <1>1
  <2>2. Len(oct) = M + 2 + Len(f.text)
    BY Zenon, <1>2
  <2>3. M \in Nat
    BY Zenon, <1>3
  <2>4. \A x, y, z : x \in Nat /\ y \in Nat /\ z = y + 2 + x => ~(y + 2 > z)
    OBVIOUS
  <2> QED BY Zenon, <2>1, <2>2, <2>3, <2>4
<1>9. \A k \in 1 .. m : A!Call(A!FieldAt(oct, k)) = oct[(k - 1) * FieldLen + 1].of
  <2> SUFFICES ASSUME NEW k \in 1 .. m PROVE A!Call(A!FieldAt(oct, k)) = oct[(k - 1) * FieldLen + 1].of
    OBVIOUS
  <2> DEFINE q == (k - 1) * FieldLen
             e == k * FieldLen
  <2>1. q \in Nat /\ e = q + FieldLen /\ e <= M
    <3>1. k - 1 \in Nat /\ (k - 1) + 1 = k /\ k \in Nat /\ k <= m
      BY <1>1
    <3>2. (k - 1) * FieldLen \in Nat /\ ((k - 1) + 1) * FieldLen = (k - 1) * FieldLen + FieldLen
      BY Zenon, <1>1, <3>1, FieldsOrder
    <3>3. k * FieldLen <= m * FieldLen
      BY <1>1, <3>1, FieldsOrder
    <3> QED BY Zenon, <3>1, <3>2, <3>3
  <2>2. A!FieldAt(oct, k) = SubSeq(oct, q + 1, e)
    BY Zenon DEF A!FieldAt
  <2>3. Len(f.text) \in Nat
    BY <1>1
  <2> HIDE DEF q, e, M, m
  <2>4. SubSeq(oct, q + 1, e)[1] = oct[q + 1]
    <3>1. q + 1 \in Nat /\ e \in Nat /\ q + 1 >= 1 /\ e <= Len(oct) /\ q + 1 <= e
      <4>0. FieldLen \in Nat /\ FieldLen >= 1
        <5>1. FieldLen \in Nat \ {0}
          BY Zenon, <1>1
        <5> QED BY <5>1
      <4>1. M \in Nat /\ Len(oct) = M + 2 + Len(f.text)
        BY Zenon, <1>2, <1>3
      <4> DEFINE whole  == Len(oct)
                 texted == Len(f.text)
      <4>2. whole = M + 2 + texted /\ texted \in Nat
        BY Zenon, <2>3, <4>1
      <4> HIDE DEF whole, texted
      <4>3. q + 1 \in Nat /\ e \in Nat /\ q + 1 >= 1 /\ e <= whole /\ q + 1 <= e
        BY <2>1, <4>0, <4>1, <4>2
      <4> QED BY Zenon, <4>3 DEF whole
    <3> QED BY <1>2, <3>1
  <2> QED BY Zenon, <2>2, <2>4 DEF A!Call, q
<1>10. A!Call(A!FieldAt(oct, 1)) = f.dst /\ A!Call(A!FieldAt(oct, 2)) = f.src
  <2>1. 1 \in 1 .. m /\ 2 \in 1 .. m /\ (1 - 1) * FieldLen + 1 = 1 /\ (2 - 1) * FieldLen + 1 = FieldLen + 1
    BY <1>1
  <2> HIDE DEF m
  <2> QED BY <1>2, <1>9, <2>1
<1>11. [i \in 1 .. m - 2 |-> A!Call(A!FieldAt(oct, i + 2))] = f.path
  <2>1. m - 2 = Len(f.path) /\ m - 2 \in Nat
    BY <1>1
  <2>2. \A i \in 1 .. m - 2 : A!Call(A!FieldAt(oct, i + 2)) = f.path[i]
    <3> SUFFICES ASSUME NEW i \in 1 .. m - 2 PROVE A!Call(A!FieldAt(oct, i + 2)) = f.path[i]
      OBVIOUS
    <3>1. i + 2 \in 1 .. m /\ i + 2 \in 3 .. m /\ (i + 2) - 2 = i
      BY <1>1, <2>1
    <3> HIDE DEF m
    <3>2. oct[((i + 2) - 1) * FieldLen + 1].of = f.path[(i + 2) - 2]
      BY Zenon, <1>2, <3>1
    <3> QED BY Zenon, <1>9, <3>1, <3>2
  <2>3. f.path = [i \in 1 .. m - 2 |-> f.path[i]]
    BY <1>1, <2>1
  <2> HIDE DEF m
  <2> QED BY Zenon, <2>2, <2>3
<1>12. SubSeq(oct, M + 3, Len(oct)) = f.text
  <2> DEFINE t == f.text
  <2>1. t \in Seq(Octets) /\ Len(t) \in Nat
    BY <1>1
  <2>2. Len(oct) = M + 2 + Len(t) /\ \A x \in 1 .. Len(t) : oct[M + 2 + x] = t[x]
    BY Zenon, <1>2
  <2>0. oct \in Seq(Octets) /\ M \in Nat
    BY Zenon, <1>2, <1>3
  <2> HIDE DEF M, t
  <2> DEFINE u == SubSeq(oct, M + 3, Len(oct))
  <2>3. u \in Seq(Octets) /\ Len(u) = Len(t)
    BY <2>0, <2>1, <2>2
  <2>4. \A x \in 1 .. Len(t) : u[x] = t[x]
    <3> SUFFICES ASSUME NEW x \in 1 .. Len(t) PROVE u[x] = t[x]
      OBVIOUS
    <3>1. u[x] = oct[(M + 3) + x - 1]
      BY <2>0, <2>1, <2>2
    <3>2. (M + 3) + x - 1 = M + 2 + x
      BY <1>3, <2>1
    <3> HIDE DEF u
    <3> QED BY Zenon, <2>2, <3>1, <3>2
  <2> HIDE DEF u
  <2>5. u = t
    BY <2>1, <2>3, <2>4
  <2> QED BY Zenon, <2>5 DEF u, t
<1> HIDE DEF M, m, fields
<1>13. A!Decode(oct, rest)
       = [dst |-> f.dst, src |-> f.src, path |-> f.path, text |-> A!Printed(f.text \o rest)]
  <2>1. M \div FieldLen - 2 = m - 2
    BY Zenon, <1>3
  <2> QED BY Zenon, <1>7, <1>8, <1>10, <1>11, <1>12, <2>1 DEF A!Decode
<1> QED BY Zenon, <1>13 DEF oct

(* What is passed on of such a frame.                                       *)
Passed(f, rest) ==
  IF Len(f.path) + 2 + Len(A!Printed(f.text \o rest)) >= MaxLine THEN A!None
  ELSE [dst |-> f.dst, src |-> f.src, path |-> f.path, text |-> A!Printed(f.text \o rest)]

(* The octets of a transmitted frame are as FrameRead supposes, of one of   *)
(* this program when it has one field in its path.                          *)
LEMMA FrameSent ==
  ASSUME NEW f \in A!Frames, f.path # <<>>, NEW rest
  PROVE  /\ A!Heard(A!Prescribed(f), rest) = Passed(f, rest)
         /\ Len(f.path) = 1 => A!Heard(A!Built(f), rest) = Passed(f, rest)
<1> DEFINE n == Len(f.path)
           h == f.repeated
           told(k) == [i \in 1 .. n |-> A!Field(f.path[i], i <= k, i = n)]
           made == [i \in 1 .. n |-> A!Field(f.path[i], FALSE, TRUE)]
<1>1. f.path \in Seq(STRING) /\ n \in Nat /\ n >= 1 /\ DOMAIN f.path = 1 .. n /\ h \in Nat
  BY SentFrame
<1>2. Len(told(h)) = n /\ Len(made) = n
  BY <1>1
<1>3. A!FlattenSeq(told(h)) = Joined(told(h)) /\ A!FlattenSeq(made) = Joined(made)
  <2> DEFINE x == told(h)
             y == made
  <2>0. Len(x) = n /\ Len(y) = n
    BY <1>2
  <2> HIDE DEF x, y, n
  <2>1. Len(x) # 0 /\ Len(y) # 0
    BY <1>1, <2>0
  <2>2. A!FlattenSeq(x) = Joined(x) /\ A!FlattenSeq(y) = Joined(y)
    BY <2>1 DEF A!FlattenSeq, Joined
  <2> QED BY Zenon, <2>2 DEF x, y
<1>0. (f.path = <<>>) = FALSE
  OBVIOUS
<1>4. A!Prescribed(f) = Octeted(f, TRUE, FALSE, FALSE, h)
  BY Zenon, <1>0, <1>1, <1>3 DEF A!Prescribed, Octeted
<1>5. ASSUME n = 1 PROVE A!Built(f) = Octeted(f, FALSE, FALSE, TRUE, 0)
  <2>2. made = told(0)
    <3>1. \A i \in 1 .. n : (i = n) = TRUE /\ (i <= 0) = FALSE
      BY <1>5
    <3> QED BY Zenon, <1>1, <3>1
  <2>3. A!Built(f) = A!Field(f.dst, FALSE, FALSE) \o A!Field(f.src, FALSE, TRUE) \o Joined(made)
                     \o A!Control \o f.text
    BY Zenon, <1>0, <1>1, <1>3 DEF A!Built
  <2>4. Octeted(f, FALSE, FALSE, TRUE, 0)
        = A!Field(f.dst, FALSE, FALSE) \o A!Field(f.src, FALSE, TRUE) \o Joined(told(0))
          \o A!Control \o f.text
    BY Zenon DEF Octeted
  <2> HIDE DEF made, told
  <2> QED BY Zenon, <2>2, <2>3, <2>4
<1> HIDE DEF told, made, n, h
<1>6. ASSUME NEW c \in BOOLEAN, NEW d \in BOOLEAN, NEW s \in BOOLEAN, NEW k \in Nat
      PROVE  A!Heard(Octeted(f, c, d, s, k), rest) = Passed(f, rest)
  <2> DEFINE read == [dst |-> f.dst, src |-> f.src, path |-> f.path, text |-> A!Printed(f.text \o rest)]
  <2>1. A!Decode(Octeted(f, c, d, s, k), rest) = read
    BY FrameRead
  <2>2. read.path = f.path /\ read.text = A!Printed(f.text \o rest)
    BY Zenon
  <2>3. Passed(f, rest) = IF Len(f.path) + 2 + Len(A!Printed(f.text \o rest)) >= MaxLine THEN A!None ELSE read
    BY Zenon DEF Passed
  <2> HIDE DEF read
  <2> QED BY Zenon, <2>1, <2>2, <2>3 DEF A!Heard
<1>7. 0 \in Nat /\ TRUE \in BOOLEAN /\ FALSE \in BOOLEAN
  OBVIOUS
<1>8. A!Heard(A!Prescribed(f), rest) = Passed(f, rest)
  BY Zenon, <1>1, <1>4, <1>6, <1>7
<1>9. n = 1 => A!Heard(A!Built(f), rest) = Passed(f, rest)
  BY Zenon, <1>5, <1>6, <1>7
<1> QED BY Zenon, <1>8, <1>9 DEF n

(* At first nothing was received.                                           *)
LEMMA FieldsInit == A!Init => A!RepeatedFramesRead
<1> SUFFICES ASSUME A!Init PROVE A!RepeatedFramesRead
  OBVIOUS
<1>1. ax_frame.path = <<>>
  BY Zenon DEF A!Init, A!None
<1> QED BY Zenon, <1>1 DEF A!RepeatedFramesRead

(* What is passed on of a frame is right.                                   *)
LEMMA PassedIs ==
  ASSUME NEW f, NEW rest
  PROVE  \/ Passed(f, rest) = [dst |-> f.dst, src |-> f.src, path |-> f.path, text |-> A!Printed(f.text \o rest)]
         \/ Passed(f, rest) = A!None /\ Len(f.path) + 2 + Len(A!Printed(f.text \o rest)) >= MaxLine
BY Zenon DEF Passed

(* And with the next one.                                                 *)
LEMMA FieldsNext == A!Next => A!RepeatedFramesRead'
<1> SUFFICES ASSUME NEW f \in A!Frames, NEW rest \in Leftovers,
                    A!HearOwn(f, rest) \/ A!HearOther(f, rest)
             PROVE  A!RepeatedFramesRead'
  BY Zenon DEF A!Next
<1>0. ASSUME ax_frame' = f, ax_behind' = rest, ax_text' = Passed(f, rest)
      PROVE  A!RepeatedFramesRead'
  BY Zenon, <1>0, PassedIs DEF A!RepeatedFramesRead
<1>1. CASE A!HearOwn(f, rest)
  <2>1. ax_wire' = A!Built(f) /\ ax_frame' = f /\ ax_behind' = rest /\ ax_text' = A!Heard(A!Built(f), rest)
    BY Zenon, <1>1 DEF A!HearOwn
  <2>2. CASE f.path # <<>> /\ (A!Built(f) = A!Prescribed(f) \/ Len(f.path) = 1)
    BY Zenon, <1>0, <2>1, <2>2, FrameSent
  <2>3. CASE ~(f.path # <<>> /\ (A!Built(f) = A!Prescribed(f) \/ Len(f.path) = 1))
    BY Zenon, <2>1, <2>3 DEF A!RepeatedFramesRead
  <2> QED BY Zenon, <2>2, <2>3
<1>2. CASE A!HearOther(f, rest)
  <2>1. ax_frame' = f /\ ax_behind' = rest /\ ax_text' = A!Heard(A!Prescribed(f), rest)
        /\ ax_wire' = A!Prescribed(f)
    BY Zenon, <1>2 DEF A!HearOther
  <2>2. CASE f.path # <<>>
    BY Zenon, <1>0, <2>1, <2>2, FrameSent
  <2>3. CASE f.path = <<>>
    BY Zenon, <2>1, <2>3 DEF A!RepeatedFramesRead
  <2> QED BY Zenon, <2>2, <2>3
<1> QED BY Zenon, <1>1, <1>2
-----------------------------------------------------------------------------
(* The link to the TNC.  Its octets, and where joined sequences begin: the  *)
(* k-th lies behind start[k - 1].                                           *)
LinkOctets == STRING \cup {K!FEND, K!FESC, K!TFEND, K!TFESC, K!DATA}
Laid(stream, seqs) ==
  {start \in [0 .. Len(seqs) -> Nat] :
     /\ start[0] = 0 /\ start[Len(seqs)] = Len(stream)
     /\ \A k \in 1 .. Len(seqs) :
          /\ start[k] = start[k - 1] + Len(seqs[k])
          /\ \A i \in 1 .. Len(seqs[k]) : stream[start[k - 1] + i] = seqs[k][i]}

(* Sequences lie where they begin, in the order in which they begin.        *)
LEMMA LaidOrder ==
  ASSUME NEW Values, NEW seqs \in Seq(Seq(Values)), NEW stream \in Seq(Values), NEW start \in Laid(stream, seqs),
         NEW a \in 0 .. Len(seqs), NEW b \in a .. Len(seqs)
  PROVE  start[a] <= start[b]
<1> DEFINE n == Len(seqs)
           H == {k \in a .. n : start[a] <= start[k]}
<1>1. n \in Nat /\ start \in [0 .. n -> Nat] /\ a \in Nat /\ b \in a .. n
  BY DEF Laid
<1>2. \A k \in 1 .. n : start[k] = start[k - 1] + Len(seqs[k]) /\ Len(seqs[k]) \in Nat
  BY DEF Laid
<1>3. a \in H /\ a \in Int /\ n \in Int
  <2>1. a \in a .. n /\ a \in 0 .. n /\ a \in Int /\ n \in Int
    BY <1>1
  <2>2. start[a] \in Nat
    BY Zenon, <1>1, <2>1
  <2>3. start[a] <= start[a]
    <3> DEFINE u == start[a]
    <3>1. u \in Nat
      BY Zenon, <2>2
    <3> HIDE DEF u
    <3>2. u <= u
      BY <3>1
    <3> QED BY Zenon, <3>2 DEF u
  <2> QED BY Zenon, <2>1, <2>3
<1>4. ASSUME NEW k \in a .. n, k \in H, k < n PROVE k + 1 \in H
  <2>1. k + 1 \in 1 .. n /\ (k + 1) - 1 = k /\ k \in 0 .. n /\ k + 1 \in a .. n
    BY <1>1, <1>4
  <2> HIDE DEF n
  <2>2. start[k + 1] = start[k] + Len(seqs[k + 1]) /\ Len(seqs[k + 1]) \in Nat
    BY <1>2, <2>1
  <2>3. start[a] <= start[k + 1]
    <3>1. start[a] <= start[k]
      BY <1>4
    <3>2. start[a] \in Nat /\ start[k] \in Nat
      <4>1. a \in 0 .. n
        BY <1>1, <1>4, <2>1
      <4> QED BY Zenon, <1>1, <2>1, <4>1
    <3> HIDE DEF H
    <3> QED BY <2>2, <3>1, <3>2
  <2> QED BY <2>1, <2>3
<1> HIDE DEF H, n
<1>5. \A k \in a .. n : k \in H
  BY <1>3, <1>4, IntervalInduction
<1> QED BY <1>1, <1>5 DEF H

(* Joined sequences begin one where the other ends.                         *)
LEMMA LaidJoined ==
  ASSUME NEW Values, NEW seqs \in Seq(Seq(Values)), seqs # <<>>
  PROVE  Joined(seqs) \in Seq(Values) /\ \E start \in Laid(Joined(seqs), seqs) : TRUE
<1> DEFINE n == Len(seqs)
<1>1. n \in Nat /\ n >= 1 /\ \A k \in 1 .. n : seqs[k] \in Seq(Values) /\ Len(seqs[k]) \in Nat
  OBVIOUS
<1>2. PICK r \in Joins(seqs, Values) : Joined(seqs) = r[n]
  BY JoinExists
<1>3. /\ r \in [1 .. n -> Seq(Values)] /\ r[1] = seqs[1]
      /\ \A k \in 1 .. n : k # 1 => r[k] = r[k - 1] \o seqs[k]
  BY <1>2 DEF Joins
<1> HIDE DEF n
<1> DEFINE start == [k \in 0 .. n |-> IF k = 0 THEN 0 ELSE Len(r[k])]
<1>4. start \in [0 .. n -> Nat] /\ start[0] = 0 /\ \A k \in 1 .. n : start[k] = Len(r[k])
  BY <1>1, <1>3
<1> HIDE DEF start
<1>5. ASSUME NEW k \in 1 .. n
      PROVE  /\ start[k] = start[k - 1] + Len(seqs[k])
             /\ \A i \in 1 .. Len(seqs[k]) : r[k][start[k - 1] + i] = seqs[k][i]
             /\ k # 1 => \A x \in 1 .. start[k - 1] : r[k][x] = r[k - 1][x]
  <2>1. CASE k = 1
    BY <1>1, <1>3, <1>4, <2>1
  <2>2. CASE k # 1
    <3>0. k - 1 \in 1 .. n
      BY <1>1, <2>2
    <3>1. r[k - 1] \in Seq(Values) /\ seqs[k] \in Seq(Values) /\ r[k] = r[k - 1] \o seqs[k]
      BY Zenon, <1>1, <1>3, <2>2, <3>0
    <3>2. start[k] = Len(r[k]) /\ start[k - 1] = Len(r[k - 1])
      BY Zenon, <1>4, <3>0
    <3> DEFINE u == r[k - 1]
               v == seqs[k]
    <3>3. u \in Seq(Values) /\ v \in Seq(Values) /\ r[k] = u \o v /\ start[k - 1] = Len(u) /\ start[k] = Len(u \o v)
      BY Zenon, <3>1, <3>2
    <3> HIDE DEF u, v
    <3>4. /\ Len(u \o v) = Len(u) + Len(v)
          /\ \A x \in 1 .. Len(u) : (u \o v)[x] = u[x]
          /\ \A i \in 1 .. Len(v) : (u \o v)[Len(u) + i] = v[i]
      BY <3>3
    <3> QED BY Zenon, <3>3, <3>4 DEF u, v
  <2> QED BY <2>1, <2>2
<1> DEFINE Placed(k) == \A j \in 1 .. k : /\ start[j] <= start[k]
                                          /\ \A i \in 1 .. Len(seqs[j]) : r[k][start[j - 1] + i] = seqs[j][i]
           H == {k \in 1 .. n : Placed(k)}
<1>6. 1 \in H /\ 1 \in Int /\ n \in Int
  <2>1. Placed(1)
    BY <1>1, <1>4, <1>5
  <2> QED BY <1>1, <2>1
<1>7. ASSUME NEW k \in 1 .. n, k \in H, k < n PROVE k + 1 \in H
  <2>1. k + 1 \in 1 .. n /\ (k + 1) - 1 = k /\ k + 1 # 1
    BY <1>1, <1>7
  <2>2. /\ start[k + 1] = start[k] + Len(seqs[k + 1]) /\ Len(seqs[k + 1]) \in Nat
        /\ start[k] \in Nat /\ start[k + 1] \in Nat
        /\ \A i \in 1 .. Len(seqs[k + 1]) : r[k + 1][start[k] + i] = seqs[k + 1][i]
        /\ \A x \in 1 .. start[k] : r[k + 1][x] = r[k][x]
    <3>1. /\ start[k + 1] = start[(k + 1) - 1] + Len(seqs[k + 1])
          /\ \A i \in 1 .. Len(seqs[k + 1]) : r[k + 1][start[(k + 1) - 1] + i] = seqs[k + 1][i]
          /\ \A x \in 1 .. start[(k + 1) - 1] : r[k + 1][x] = r[(k + 1) - 1][x]
      BY Zenon, <1>5, <2>1
    <3>2. k \in 0 .. n /\ k + 1 \in 0 .. n
      BY <1>1, <2>1
    <3>3. Len(seqs[k + 1]) \in Nat /\ start[k] \in Nat /\ start[k + 1] \in Nat
      BY Zenon, <1>1, <1>4, <2>1, <3>2
    <3> QED BY Zenon, <2>1, <3>1, <3>3
  <2>3. ASSUME NEW j \in 1 .. k
        PROVE  /\ start[j] <= start[k + 1]
               /\ \A i \in 1 .. Len(seqs[j]) : r[k + 1][start[j - 1] + i] = seqs[j][i]
    <3>1. /\ start[j] <= start[k]
          /\ \A i \in 1 .. Len(seqs[j]) : r[k][start[j - 1] + i] = seqs[j][i]
      BY <1>7
    <3>2. /\ j \in 1 .. n /\ start[j] \in Nat /\ start[j - 1] \in Nat
          /\ start[j] = start[j - 1] + Len(seqs[j]) /\ Len(seqs[j]) \in Nat
      BY <1>1, <1>4, <1>5
    <3>3. start[j] <= start[k + 1]
      BY <2>2, <3>1, <3>2
    <3>4. ASSUME NEW i \in 1 .. Len(seqs[j]) PROVE r[k + 1][start[j - 1] + i] = seqs[j][i]
      <4> DEFINE x == start[j - 1] + i
      <4>1. x \in 1 .. start[k]
        <5>1. start[j] <= start[k] /\ start[k] \in Nat
          BY Zenon, <2>2, <3>1
        <5> DEFINE y == start[j - 1]
                   z == start[j]
                   l == Len(seqs[j])
        <5>2. /\ y \in Nat /\ z = y + l /\ l \in Nat /\ z <= start[k] /\ start[k] \in Nat
              /\ i \in 1 .. l
          BY Zenon, <3>2, <5>1
        <5> HIDE DEF H, Placed, y, z, l
        <5>3. y + i \in 1 .. start[k]
          BY <5>2
        <5> QED BY Zenon, <5>3 DEF y
      <4>2. r[k][x] = seqs[j][i]
        BY Zenon, <3>1
      <4> HIDE DEF x
      <4>3. r[k + 1][x] = r[k][x]
        BY Zenon, <2>2, <4>1
      <4> QED BY Zenon, <4>2, <4>3 DEF x
    <3> QED BY <3>3, <3>4
  <2>4. ASSUME NEW j \in 1 .. k + 1
        PROVE  /\ start[j] <= start[k + 1]
               /\ \A i \in 1 .. Len(seqs[j]) : r[k + 1][start[j - 1] + i] = seqs[j][i]
    <3>1. CASE j \in 1 .. k
      BY <2>3, <3>1
    <3>2. CASE j = k + 1
      BY <2>1, <2>2, <3>2
    <3> QED BY <2>1, <3>1, <3>2
  <2> QED BY <2>1, <2>4
<1> HIDE DEF H
<1>8. \A k \in 1 .. n : k \in H
  BY <1>6, <1>7, IntervalInduction
<1>9. Placed(n) /\ n \in 1 .. n
  BY <1>1, <1>8 DEF H
<1>10. start \in Laid(r[n], seqs)
  <2> HIDE DEF Placed
  <2>1. start[n] = Len(r[n])
    BY <1>4, <1>9
  <2>2. \A k \in 1 .. n : \A i \in 1 .. Len(seqs[k]) : r[n][start[k - 1] + i] = seqs[k][i]
    BY Zenon, <1>9 DEF Placed
  <2> QED BY <1>4, <1>5, <2>1, <2>2 DEF Laid, n
<1> QED BY <1>2, <1>3, <1>9, <1>10

(* An octet is escaped into one or two, none of them FEND.                  *)
LEMMA EscapedIs ==
  ASSUME NEW octet \in LinkOctets
  PROVE  /\ K!Escaped(octet) \in Seq(LinkOctets) /\ Len(K!Escaped(octet)) \in 1 .. 2
         /\ \A i \in 1 .. Len(K!Escaped(octet)) : K!Escaped(octet)[i] # K!FEND
<1>1. K!FESC \in LinkOctets /\ K!TFEND \in LinkOctets /\ K!TFESC \in LinkOctets
  BY DEF LinkOctets
<1>2. \A x, y \in LinkOctets : /\ <<x>> \in Seq(LinkOctets) /\ Len(<<x>>) = 1 /\ <<x>>[1] = x
                          /\ <<x, y>> \in Seq(LinkOctets) /\ Len(<<x, y>>) = 2
                          /\ <<x, y>>[1] = x /\ <<x, y>>[2] = y
  OBVIOUS
<1>3. K!FESC # K!FEND /\ K!TFEND # K!FEND /\ K!TFESC # K!FEND
  BY DEF K!FEND, K!FESC, K!TFEND, K!TFESC
<1>4. CASE octet = K!FEND
  <2>1. K!Escaped(octet) = <<K!FESC, K!TFEND>>
    BY <1>3, <1>4 DEF K!Escaped
  <2> QED BY <1>1, <1>2, <1>3, <2>1
<1>5. CASE octet # K!FEND /\ octet = K!FESC
  <2>1. K!Escaped(octet) = <<K!FESC, K!TFESC>>
    BY <1>5 DEF K!Escaped
  <2> QED BY <1>1, <1>2, <1>3, <2>1
<1>6. CASE octet # K!FEND /\ octet # K!FESC
  <2>1. K!Escaped(octet) = <<octet>>
    BY <1>6 DEF K!Escaped
  <2> QED BY <1>1, <1>2, <1>3, <1>6, <2>1
<1> QED BY <1>4, <1>5, <1>6

(* What kiss_decode has read so far.                                        *)
ReadStates == [text : Seq(LinkOctets), escape : BOOLEAN, ended : BOOLEAN]
Reading(text) == [text |-> text, escape |-> FALSE, ended |-> FALSE]

(* A round of kiss_decode keeps to its states.                            *)
LEMMA ReadTyped ==
  ASSUME NEW s \in ReadStates, NEW octet \in LinkOctets
  PROVE  K!Read(s, octet) \in ReadStates
<1>1. /\ s.text \in Seq(LinkOctets)
      /\ s.text \o <<K!FEND>> \in Seq(LinkOctets) /\ s.text \o <<K!FESC>> \in Seq(LinkOctets)
      /\ s.text \o <<>> \in Seq(LinkOctets) /\ Append(s.text, octet) \in Seq(LinkOctets)
  BY DEF ReadStates, LinkOctets
<1>2. s.text \o K!Meaning(octet) \in Seq(LinkOctets)
  BY <1>1 DEF K!Meaning
<1>3. \A t \in Seq(LinkOctets), x, y \in BOOLEAN : [text |-> t, escape |-> x, ended |-> y] \in ReadStates
  BY Zenon DEF ReadStates
<1>4. CASE s.ended
  BY Zenon, <1>4 DEF K!Read
<1>5. CASE ~s.ended /\ s.escape
  <2>1. K!Read(s, octet) = [text |-> s.text \o K!Meaning(octet), escape |-> FALSE, ended |-> FALSE]
    BY Zenon, <1>5 DEF K!Read
  <2> QED BY Zenon, <1>2, <1>3, <2>1
<1>6. CASE ~s.ended /\ ~s.escape
  <2> DEFINE t == IF octet \in {K!FEND, K!FESC} THEN s.text ELSE Append(s.text, octet)
  <2>1. K!Read(s, octet) = [text |-> t, escape |-> octet = K!FESC, ended |-> octet = K!FEND]
    BY Zenon, <1>6 DEF K!Read
  <2>2. t \in Seq(LinkOctets)
    BY <1>1
  <2>3. (octet = K!FESC) \in BOOLEAN /\ (octet = K!FEND) \in BOOLEAN
    BY Zenon
  <2> HIDE DEF t
  <2> QED BY Zenon, <1>3, <2>1, <2>2, <2>3
<1> QED BY Zenon, <1>4, <1>5, <1>6

(* An escaped octet is read as what it was.                                 *)
LEMMA EscapedRead ==
  ASSUME NEW t \in Seq(LinkOctets), NEW octet \in LinkOctets
  PROVE  LET e == K!Escaped(octet) IN
         /\ Len(e) = 1 => K!Read(Reading(t), e[1]) = Reading(Append(t, octet))
         /\ Len(e) = 2 => K!Read(K!Read(Reading(t), e[1]), e[2]) = Reading(Append(t, octet))
<1>1. /\ K!FESC # K!FEND /\ K!TFEND # K!FEND /\ K!TFESC # K!FEND
      /\ K!TFEND # K!TFESC /\ K!FESC # K!TFEND /\ K!FESC # K!TFESC
  BY DEF K!FEND, K!FESC, K!TFEND, K!TFESC
<1> DEFINE escaping == [text |-> t, escape |-> TRUE, ended |-> FALSE]
<1>2. K!Read(Reading(t), K!FESC) = escaping
  <2>1. (K!FESC = K!FESC) = TRUE /\ (K!FESC = K!FEND) = FALSE /\ K!FESC \in {K!FEND, K!FESC}
    BY Zenon, <1>1
  <2> QED BY Zenon, <2>1 DEF K!Read, Reading
<1>3. \A x : K!Read(escaping, x) = Reading(t \o K!Meaning(x))
  BY Zenon DEF K!Read, Reading
<1>5. \A x, y : Len(<<x, y>>) = 2 /\ <<x, y>>[1] = x /\ <<x, y>>[2] = y /\ Len(<<x>>) = 1 /\ <<x>>[1] = x
  OBVIOUS
<1>6. t \o <<octet>> = Append(t, octet)
  OBVIOUS
<1> HIDE DEF escaping
<1>7. CASE octet = K!FEND
  <2>1. K!Escaped(octet) = <<K!FESC, K!TFEND>> /\ K!Meaning(K!TFEND) = <<octet>>
    BY <1>1, <1>7 DEF K!Escaped, K!Meaning
  <2>2. K!Read(K!Read(Reading(t), K!FESC), K!TFEND) = Reading(Append(t, octet))
    BY Zenon, <1>2, <1>3, <1>6, <2>1
  <2>3. Len(K!Escaped(octet)) # 1 /\ K!Escaped(octet)[1] = K!FESC /\ K!Escaped(octet)[2] = K!TFEND
    BY <1>5, <2>1
  <2> QED BY Zenon, <2>2, <2>3
<1>8. CASE octet # K!FEND /\ octet = K!FESC
  <2>1. K!Escaped(octet) = <<K!FESC, K!TFESC>> /\ K!Meaning(K!TFESC) = <<octet>>
    BY <1>1, <1>8 DEF K!Escaped, K!Meaning
  <2>2. K!Read(K!Read(Reading(t), K!FESC), K!TFESC) = Reading(Append(t, octet))
    BY Zenon, <1>2, <1>3, <1>6, <2>1
  <2>3. Len(K!Escaped(octet)) # 1 /\ K!Escaped(octet)[1] = K!FESC /\ K!Escaped(octet)[2] = K!TFESC
    BY <1>5, <2>1
  <2> QED BY Zenon, <2>2, <2>3
<1>9. CASE octet # K!FEND /\ octet # K!FESC
  <2>1. K!Escaped(octet) = <<octet>>
    BY <1>9 DEF K!Escaped
  <2>2. (octet = K!FESC) = FALSE /\ (octet = K!FEND) = FALSE /\ octet \notin {K!FEND, K!FESC}
    BY Zenon, <1>9
  <2>3. K!Read(Reading(t), octet) = Reading(Append(t, octet))
    BY Zenon, <2>2 DEF K!Read, Reading
  <2>4. Len(K!Escaped(octet)) # 2 /\ K!Escaped(octet)[1] = octet
    BY <1>5, <2>1
  <2> QED BY Zenon, <2>3, <2>4
<1> QED BY <1>7, <1>8, <1>9

(* What is read octet by octet is what the loop of kiss_decode ends with.   *)
LEMMA ReadRuns ==
  ASSUME NEW octets \in Seq(LinkOctets)
  PROVE  \E state \in [0 .. Len(octets) -> ReadStates] :
           /\ state[0] = Reading(<<>>)
           /\ \A k \in 1 .. Len(octets) : state[k] = K!Read(state[k - 1], octets[k])
           /\ K!Unescaped(octets) = state[Len(octets)].text
<1> DEFINE n == Len(octets)
           Values == ReadStates
           base == Reading(<<>>)
           moves == [k \in 0 .. n |-> IF k = 0 THEN [s \in Values |-> s]
                                     ELSE [s \in Values |-> K!Read(s, octets[k])]]
<1>1. n \in Nat /\ \A k \in 1 .. n : octets[k] \in LinkOctets
  OBVIOUS
<1>2. base \in Values
  <2>1. <<>> \in Seq(LinkOctets)
    OBVIOUS
  <2> QED BY Zenon, <2>1 DEF Reading, ReadStates
<1>3. \A k \in 1 .. n : \A s \in Values : K!Read(s, octets[k]) \in Values
  BY <1>1, ReadTyped
<1> HIDE DEF Values, base, n
<1>4. moves \in [0 .. n -> [Values -> Values]]
  BY <1>1, <1>3
<1>5. PICK state \in [0 .. n -> Values] :
        state[0] = base /\ \A k \in 0 .. n : k # 0 => state[k] = moves[k][state[k - 1]]
  <2>1. 0 \in Int /\ n \in Int /\ 0 <= n
    BY <1>1
  <2> HIDE DEF moves
  <2>2. Runs(0, n, Values, base, moves) # {}
    BY <1>2, <1>4, <2>1, LoopExists
  <2> QED BY <2>2 DEF Runs
<1>6. \A k \in 1 .. n : state[k] = K!Read(state[k - 1], octets[k])
  <2> TAKE k \in 1 .. n
  <2>1. k \in 0 .. n /\ k # 0 /\ k - 1 \in 0 .. n
    BY <1>1
  <2>2. state[k] = moves[k][state[k - 1]] /\ state[k - 1] \in Values
    BY Zenon, <1>5, <2>1
  <2>3. moves[k] = [s \in Values |-> K!Read(s, octets[k])]
    BY Zenon, <2>1
  <2> HIDE DEF moves
  <2> QED BY Zenon, <2>2, <2>3
<1> HIDE DEF moves
<1> DEFINE Loop(f) == f = [k \in 0 .. n |-> IF k = 0 THEN base ELSE K!Read(f[k - 1], octets[k])]
           after == CHOOSE f : Loop(f)
<1>7. Loop(state)
  <2>1. state = [k \in 0 .. n |-> state[k]]
    BY Zenon, <1>5
  <2>2. \A k \in 0 .. n : state[k] = IF k = 0 THEN base ELSE K!Read(state[k - 1], octets[k])
    <3> SUFFICES ASSUME NEW k \in 0 .. n
                 PROVE  state[k] = IF k = 0 THEN base ELSE K!Read(state[k - 1], octets[k])
      OBVIOUS
    <3>1. k = 0 \/ k \in 1 .. n
      BY <1>1
    <3> QED BY Zenon, <1>5, <1>6, <3>1
  <2> QED BY Zenon, <2>1, <2>2
<1>8. K!Unescaped(octets) = after[n].text
  BY Zenon DEF K!Unescaped, base, n, Reading
<1>9. Loop(after)
  BY Zenon, <1>7
<1> HIDE DEF after
<1> DEFINE H == {k \in 0 .. n : after[k] = state[k]}
<1>10. \A k \in 0 .. n : after[k] = IF k = 0 THEN base ELSE K!Read(after[k - 1], octets[k])
  BY Zenon, <1>9
<1> HIDE DEF Loop
<1>11. 0 \in H /\ 0 \in Int /\ n \in Int
  <2>1. 0 \in 0 .. n /\ n \in Int /\ 0 \in Int
    BY <1>1
  <2> QED BY Zenon, <1>5, <1>10, <2>1
<1>12. ASSUME NEW k \in 0 .. n, k \in H, k < n PROVE k + 1 \in H
  <2>1. k + 1 \in 0 .. n /\ k + 1 \in 1 .. n /\ k + 1 # 0 /\ (k + 1) - 1 = k
    BY <1>1, <1>12
  <2>2. after[k + 1] = K!Read(after[k], octets[k + 1])
    BY Zenon, <1>10, <2>1
  <2>3. state[k + 1] = K!Read(state[k], octets[k + 1])
    BY Zenon, <1>6, <2>1
  <2>4. after[k] = state[k]
    BY Zenon, <1>12
  <2> QED BY Zenon, <2>1, <2>2, <2>3, <2>4
<1> HIDE DEF H
<1>13. \A k \in 0 .. n : k \in H
  BY <1>11, <1>12, IntervalInduction
<1>14. after[n] = state[n]
  <2>1. n \in 0 .. n
    BY <1>1
  <2> QED BY Zenon, <1>13, <2>1 DEF H
<1> QED BY Zenon, <1>5, <1>6, <1>8, <1>14 DEF base, n, Values

(* A frame, escaped.                                                        *)
Escapes(frame) == [i \in 1 .. Len(frame) |-> K!Escaped(frame[i])]

(* Its escaped octets, and what kiss_encode makes of them.                *)
LEMMA EscapesIs ==
  ASSUME NEW frame \in Seq(LinkOctets), frame # <<>>
  PROVE  /\ Escapes(frame) \in Seq(Seq(LinkOctets)) /\ Escapes(frame) # <<>>
         /\ Len(Escapes(frame)) = Len(frame) /\ Len(frame) \in Nat
         /\ \A k \in 1 .. Len(frame) :
              /\ frame[k] \in LinkOctets /\ Escapes(frame)[k] = K!Escaped(frame[k])
              /\ Escapes(frame)[k] \in Seq(LinkOctets) /\ Len(Escapes(frame)[k]) \in 1 .. 2
              /\ \A i \in 1 .. Len(Escapes(frame)[k]) : Escapes(frame)[k][i] # K!FEND
         /\ K!Encode(frame) = (<<K!FEND, K!DATA>> \o Joined(Escapes(frame))) \o <<K!FEND>>
<1> DEFINE n == Len(frame)
           x == Escapes(frame)
<1>1. n \in Nat /\ n >= 1 /\ \A k \in 1 .. n : frame[k] \in LinkOctets
  OBVIOUS
<1>2. x = [i \in 1 .. n |-> K!Escaped(frame[i])] /\ DOMAIN frame = 1 .. n
  BY DEF Escapes
<1> HIDE DEF x, n
<1>3. \A k \in 1 .. n : /\ x[k] = K!Escaped(frame[k])
                        /\ x[k] \in Seq(LinkOctets) /\ Len(x[k]) \in 1 .. 2
                        /\ \A i \in 1 .. Len(x[k]) : x[k][i] # K!FEND
  <2> SUFFICES ASSUME NEW k \in 1 .. n
               PROVE  /\ x[k] = K!Escaped(frame[k])
                      /\ x[k] \in Seq(LinkOctets) /\ Len(x[k]) \in 1 .. 2
                      /\ \A i \in 1 .. Len(x[k]) : x[k][i] # K!FEND
    OBVIOUS
  <2>1. x[k] = K!Escaped(frame[k]) /\ frame[k] \in LinkOctets
    BY Zenon, <1>1, <1>2
  <2> QED BY Zenon, <2>1, EscapedIs
<1>4. x \in Seq(Seq(LinkOctets)) /\ Len(x) = n /\ x # <<>> /\ Len(x) # 0
  <2>1. x \in [1 .. n -> Seq(LinkOctets)]
    BY Zenon, <1>2, <1>3
  <2> QED BY <1>1, <2>1
<1>5. K!FlattenSeq(x) = Joined(x)
  BY <1>4 DEF K!FlattenSeq, Joined
<1>6. K!Encode(frame) = (<<K!FEND, K!DATA>> \o Joined(x)) \o <<K!FEND>>
  BY Zenon, <1>2, <1>5 DEF K!Encode
<1> QED BY Zenon, <1>1, <1>3, <1>4, <1>6 DEF x, n

(* What is escaped has no FEND in it, and is not longer than twice the      *)
(* frame.                                                                   *)
LEMMA EscapesLaid ==
  ASSUME NEW frame \in Seq(LinkOctets), frame # <<>>
  PROVE  /\ Joined(Escapes(frame)) \in Seq(LinkOctets)
         /\ \E start \in Laid(Joined(Escapes(frame)), Escapes(frame)) : TRUE
         /\ Len(Joined(Escapes(frame))) <= 2 * Len(frame)
         /\ \A y \in 1 .. Len(Joined(Escapes(frame))) : Joined(Escapes(frame))[y] # K!FEND
<1> DEFINE n == Len(frame)
           x == Escapes(frame)
           Body == Joined(x)
<1>1. /\ x \in Seq(Seq(LinkOctets)) /\ x # <<>> /\ Len(x) = n /\ n \in Nat
      /\ \A k \in 1 .. n : /\ Len(x[k]) \in 1 .. 2
                           /\ \A i \in 1 .. Len(x[k]) : x[k][i] # K!FEND
  BY Zenon, EscapesIs
<1> HIDE DEF n, x
<1>2. Body \in Seq(LinkOctets) /\ \E start \in Laid(Body, x) : TRUE
  BY <1>1, LaidJoined
<1>3. PICK start \in Laid(Body, x) : TRUE
  BY <1>2
<1> HIDE DEF Body
<1>4. /\ start \in [0 .. n -> Nat] /\ start[0] = 0 /\ start[n] = Len(Body)
      /\ \A k \in 1 .. n : /\ start[k] = start[k - 1] + Len(x[k])
                           /\ \A i \in 1 .. Len(x[k]) : Body[start[k - 1] + i] = x[k][i]
  BY Zenon, <1>1, <1>3 DEF Laid
<1> DEFINE Sound(k) == start[k] <= 2 * k /\ \A y \in 1 .. start[k] : Body[y] # K!FEND
           H == {k \in 0 .. n : Sound(k)}
<1>5. 0 \in H /\ 0 \in Int /\ n \in Int
  <2>1. Sound(0)
    BY <1>4
  <2> HIDE DEF Sound
  <2> QED BY <1>1, <2>1
<1>6. ASSUME NEW k \in 0 .. n, k \in H, k < n PROVE k + 1 \in H
  <2>1. k + 1 \in 1 .. n /\ k + 1 \in 0 .. n /\ (k + 1) - 1 = k
    BY <1>1, <1>6
  <2> DEFINE l == Len(x[k + 1])
             a == start[k]
             b == start[k + 1]
  <2>2. /\ a \in Nat /\ b = a + l /\ l \in 1 .. 2
        /\ \A i \in 1 .. l : Body[a + i] = x[k + 1][i] /\ x[k + 1][i] # K!FEND
    BY Zenon, <1>1, <1>4, <2>1
  <2>3. a <= 2 * k /\ \A y \in 1 .. a : Body[y] # K!FEND
    BY Zenon, <1>6
  <2> HIDE DEF H, l, a, b
  <2>4. b <= 2 * (k + 1)
    BY <2>1, <2>2, <2>3
  <2>5. ASSUME NEW y \in 1 .. b PROVE Body[y] # K!FEND
    <3>1. CASE y <= a
      <4>1. y \in 1 .. a
        BY <2>2, <3>1
      <4> QED BY Zenon, <2>3, <4>1
    <3>2. CASE y > a
      <4>1. y - a \in 1 .. l /\ a + (y - a) = y
        BY <2>2, <3>2
      <4> QED BY Zenon, <2>2, <4>1
    <3> QED BY <2>2, <3>1, <3>2
  <2>6. Sound(k + 1)
    BY Zenon, <2>4, <2>5 DEF b
  <2> HIDE DEF Sound
  <2> QED BY Zenon, <2>1, <2>6 DEF H
<1> HIDE DEF H
<1>7. \A k \in 0 .. n : k \in H
  BY <1>5, <1>6, IntervalInduction
<1>8. Sound(n)
  <2>1. n \in 0 .. n
    BY <1>1
  <2> HIDE DEF Sound
  <2> QED BY Zenon, <1>7, <2>1 DEF H
<1>9. Len(Body) <= 2 * n /\ \A y \in 1 .. Len(Body) : Body[y] # K!FEND
  BY Zenon, <1>4, <1>8
<1> QED BY Zenon, <1>2, <1>9 DEF Body, x, n

(* Reading what was escaped ends with the frame.                            *)
LEMMA EscapesRead ==
  ASSUME NEW frame \in Seq(LinkOctets), frame # <<>>
  PROVE  K!Unescaped(Joined(Escapes(frame)) \o <<K!FEND>>) = frame
<1> DEFINE n == Len(frame)
           x == Escapes(frame)
           Body == Joined(x)
           Ended == Body \o <<K!FEND>>
<1>1. /\ x \in Seq(Seq(LinkOctets)) /\ x # <<>> /\ Len(x) = n /\ n \in Nat
      /\ \A k \in 1 .. n : /\ frame[k] \in LinkOctets /\ x[k] = K!Escaped(frame[k])
                           /\ Len(x[k]) \in 1 .. 2
  BY Zenon, EscapesIs
<1>2. Body \in Seq(LinkOctets)
  BY Zenon, EscapesLaid
<1>3. PICK start \in Laid(Body, x) : TRUE
  BY Zenon, EscapesLaid
<1> HIDE DEF n, x, Body
<1>4. /\ start \in [0 .. n -> Nat] /\ start[0] = 0 /\ start[n] = Len(Body)
      /\ \A k \in 1 .. n : /\ start[k] = start[k - 1] + Len(x[k])
                           /\ \A i \in 1 .. Len(x[k]) : Body[start[k - 1] + i] = x[k][i]
  BY Zenon, <1>1, <1>3 DEF Laid
<1>5. /\ Ended \in Seq(LinkOctets) /\ Len(Ended) = Len(Body) + 1 /\ Len(Body) \in Nat
      /\ Ended[Len(Body) + 1] = K!FEND /\ \A i \in 1 .. Len(Body) : Ended[i] = Body[i]
  <2>1. K!FEND \in LinkOctets
    BY DEF LinkOctets
  <2> QED BY <1>2, <2>1
<1> HIDE DEF Ended
<1>6. PICK state \in [0 .. Len(Ended) -> ReadStates] :
        /\ state[0] = Reading(<<>>)
        /\ \A k \in 1 .. Len(Ended) : state[k] = K!Read(state[k - 1], Ended[k])
        /\ K!Unescaped(Ended) = state[Len(Ended)].text
  BY <1>5, ReadRuns
<1>7. \A k \in 0 .. n : start[k] \in Nat /\ start[k] <= Len(Body)
  <2> SUFFICES ASSUME NEW k \in 0 .. n PROVE start[k] \in Nat /\ start[k] <= Len(Body)
    OBVIOUS
  <2>1. k \in 0 .. Len(x) /\ Len(x) \in k .. Len(x)
    BY <1>1
  <2>2. start[k] <= start[Len(x)]
    BY <1>1, <1>2, <1>3, <2>1, LaidOrder
  <2> QED BY Zenon, <1>1, <1>4, <2>2
<1> DEFINE H == {k \in 0 .. n : state[start[k]] = Reading(SubSeq(frame, 1, k))}
<1>8. 0 \in H /\ 0 \in Int /\ n \in Int
  <2>1. SubSeq(frame, 1, 0) = <<>>
    OBVIOUS
  <2>2. 0 \in 0 .. n /\ 0 \in Int /\ n \in Int
    BY <1>1
  <2> QED BY Zenon, <1>4, <1>6, <2>1, <2>2
<1>9. ASSUME NEW k \in 0 .. n, k \in H, k < n PROVE k + 1 \in H
  <2>1. k + 1 \in 1 .. n /\ k + 1 \in 0 .. n /\ (k + 1) - 1 = k
    BY <1>1, <1>9
  <2> DEFINE t == SubSeq(frame, 1, k)
             e == x[k + 1]
             a == start[k]
             b == start[k + 1]
  <2>2. /\ a \in Nat /\ b = a + Len(e) /\ Len(e) \in 1 .. 2 /\ b <= Len(Body) /\ b \in Nat
        /\ e = K!Escaped(frame[k + 1]) /\ frame[k + 1] \in LinkOctets
        /\ \A i \in 1 .. Len(e) : Body[a + i] = e[i]
    BY Zenon, <1>1, <1>4, <1>7, <2>1
  <2>3. t \in Seq(LinkOctets) /\ Append(t, frame[k + 1]) = SubSeq(frame, 1, k + 1)
    <3>1. k \in 0 .. Len(frame) /\ k + 1 \in 1 .. Len(frame)
      BY <2>1 DEF n
    <3> QED BY <3>1
  <2>4. state[a] = Reading(t)
    BY Zenon, <1>9
  <2>5. /\ Len(e) = 1 => K!Read(Reading(t), e[1]) = Reading(Append(t, frame[k + 1]))
        /\ Len(e) = 2 => K!Read(K!Read(Reading(t), e[1]), e[2]) = Reading(Append(t, frame[k + 1]))
    BY Zenon, <2>2, <2>3, EscapedRead
  <2> HIDE DEF H, t, e, a, b
  <2>6. \A i \in 1 .. Len(e) : a + i \in 1 .. Len(Ended) /\ Ended[a + i] = e[i] /\ (a + i) - 1 = a + (i - 1)
    <3> SUFFICES ASSUME NEW i \in 1 .. Len(e)
                 PROVE  a + i \in 1 .. Len(Ended) /\ Ended[a + i] = e[i] /\ (a + i) - 1 = a + (i - 1)
      OBVIOUS
    <3>1. a + i \in 1 .. Len(Body) /\ a + i \in 1 .. Len(Ended) /\ (a + i) - 1 = a + (i - 1)
      BY <1>5, <2>2
    <3> QED BY Zenon, <1>5, <2>2, <3>1
  <2>7. \A i \in 1 .. Len(e) : state[a + i] = K!Read(state[a + (i - 1)], e[i])
    BY Zenon, <1>6, <2>6
  <2>8. state[b] = Reading(Append(t, frame[k + 1]))
    <3>1. CASE Len(e) = 1
      <4>1. 1 \in 1 .. Len(e) /\ b = a + 1 /\ a + (1 - 1) = a
        BY <2>2, <3>1
      <4> QED BY Zenon, <2>4, <2>5, <2>7, <3>1, <4>1
    <3>2. CASE Len(e) = 2
      <4>1. 1 \in 1 .. Len(e) /\ 2 \in 1 .. Len(e) /\ b = a + 2 /\ a + (1 - 1) = a /\ a + (2 - 1) = a + 1
        BY <2>2, <3>2
      <4>2. state[a + 1] = K!Read(Reading(t), e[1])
        BY Zenon, <2>4, <2>7, <4>1
      <4> QED BY Zenon, <2>5, <2>7, <3>2, <4>1, <4>2
    <3> QED BY <2>2, <3>1, <3>2
  <2> QED BY Zenon, <2>1, <2>3, <2>8 DEF H, b
<1> HIDE DEF H
<1>10. \A k \in 0 .. n : k \in H
  BY <1>8, <1>9, IntervalInduction
<1>11. state[Len(Body)] = Reading(frame)
  <2>1. n \in 0 .. n
    BY <1>1
  <2>2. SubSeq(frame, 1, n) = frame
    BY DEF n
  <2> QED BY Zenon, <1>4, <1>10, <2>1, <2>2 DEF H
<1>12. state[Len(Ended)] = [text |-> frame, escape |-> FALSE, ended |-> TRUE]
  <2>1. Len(Ended) \in 1 .. Len(Ended) /\ Len(Ended) - 1 = Len(Body)
    BY <1>5
  <2>2. state[Len(Ended)] = K!Read(Reading(frame), K!FEND)
    BY Zenon, <1>5, <1>6, <1>11, <2>1
  <2>3. (K!FEND = K!FESC) = FALSE
    BY DEF K!FEND, K!FESC
  <2>4. K!Read(Reading(frame), K!FEND) = [text |-> frame, escape |-> FALSE, ended |-> TRUE]
    <3> DEFINE y == K!FEND
    <3>1. (y = K!FESC) = FALSE /\ (y = K!FEND) = TRUE /\ y \in {K!FEND, K!FESC}
      BY Zenon, <2>3
    <3> HIDE DEF y
    <3>2. K!Read(Reading(frame), y) = [text |-> frame, escape |-> FALSE, ended |-> TRUE]
      BY Zenon, <3>1 DEF K!Read, Reading
    <3> QED BY Zenon, <3>2 DEF y
  <2> QED BY <2>2, <2>4
<1>13. K!Unescaped(Ended) = frame
  <2>1. state[Len(Ended)].text = frame
    BY <1>12
  <2>2. K!Unescaped(Ended) = state[Len(Ended)].text
    BY Zenon, <1>6
  <2> QED BY Zenon, <2>1, <2>2
<1> QED BY Zenon, <1>13 DEF Ended, Body, x

(* A frame as it is sent: between two FENDs and with none inside, and       *)
(* decoded as what it was.                                                  *)
Enclosed(code, frame) ==
  /\ code \in Seq(LinkOctets) /\ Len(code) \in Nat
  /\ Len(code) >= 3 /\ Len(code) <= 2 * Len(frame) + 3
  /\ code[1] = K!FEND /\ code[Len(code)] = K!FEND
  /\ \A i \in 2 .. Len(code) - 1 : code[i] # K!FEND
  /\ K!Decoded(code) = <<frame>>

(* kiss_encode encloses a frame.                                          *)
LEMMA EncodedIs ==
  ASSUME NEW frame \in Seq(LinkOctets), frame # <<>>
  PROVE  Enclosed(K!Encode(frame), frame)
<1> DEFINE Body == Joined(Escapes(frame))
           Sent == K!Encode(frame)
           begin == <<K!FEND, K!DATA>>
           end == <<K!FEND>>
<1>1. /\ Body \in Seq(LinkOctets) /\ Len(Body) <= 2 * Len(frame) /\ Len(frame) \in Nat /\ Len(Body) \in Nat
      /\ \A y \in 1 .. Len(Body) : Body[y] # K!FEND
  BY EscapesLaid
<1>2. Sent = (begin \o Body) \o end
  BY Zenon, EscapesIs
<1>3. /\ begin \in Seq(LinkOctets) /\ end \in Seq(LinkOctets) /\ Len(begin) = 2 /\ Len(end) = 1
      /\ begin[1] = K!FEND /\ begin[2] = K!DATA /\ end[1] = K!FEND /\ K!DATA # K!FEND
  <2>1. K!FEND \in LinkOctets /\ K!DATA \in LinkOctets
    BY DEF LinkOctets
  <2> QED BY <2>1 DEF K!DATA, K!FEND
<1>4. K!Unescaped(Body \o end) = frame
  BY Zenon, EscapesRead
<1> HIDE DEF Body, Sent, begin, end
<1>5. /\ Sent \in Seq(LinkOctets) /\ Len(Sent) = Len(Body) + 3
      /\ Sent[1] = K!FEND /\ Sent[2] = K!DATA /\ Sent[Len(Body) + 3] = K!FEND
      /\ \A y \in 1 .. Len(Body) : Sent[y + 2] = Body[y]
  <2> DEFINE Opened == begin \o Body
  <2>1. /\ Opened \in Seq(LinkOctets) /\ Len(Opened) = Len(Body) + 2 /\ Opened[1] = K!FEND /\ Opened[2] = K!DATA
        /\ \A y \in 1 .. Len(Body) : Opened[y + 2] = Body[y]
    <3>0. begin \in Seq(LinkOctets) /\ Body \in Seq(LinkOctets)
      BY Zenon, <1>1, <1>3
    <3>1. Follows(Opened, begin, Body, LinkOctets)
      BY Zenon, <3>0, FollowsBehind
    <3>2. /\ 1 \in 1 .. Len(begin) /\ 2 \in 1 .. Len(begin) /\ Len(begin) + Len(Body) = Len(Body) + 2
          /\ \A y \in 1 .. Len(Body) : Len(begin) + y = y + 2
      BY <1>1, <1>3
    <3> HIDE DEF Opened
    <3> QED BY Zenon, <1>3, <3>1, <3>2 DEF Follows
  <2>2. Sent = Opened \o end
    BY Zenon, <1>2
  <2> HIDE DEF Opened
  <2>3. /\ Sent \in Seq(LinkOctets) /\ Len(Sent) = Len(Opened) + 1 /\ Sent[Len(Opened) + 1] = K!FEND
        /\ \A y \in 1 .. Len(Opened) : Sent[y] = Opened[y]
    <3>0. Opened \in Seq(LinkOctets) /\ end \in Seq(LinkOctets)
      BY Zenon, <1>3, <2>1
    <3>1. Follows(Opened \o end, Opened, end, LinkOctets)
      BY Zenon, <3>0, FollowsBehind
    <3>2. 1 \in 1 .. Len(end)
      BY <1>3
    <3> QED BY Zenon, <1>3, <2>2, <3>1, <3>2 DEF Follows
  <2>4. Len(Sent) = Len(Body) + 3 /\ Sent[Len(Body) + 3] = K!FEND /\ 1 \in 1 .. Len(Opened) /\ 2 \in 1 .. Len(Opened)
        /\ \A y \in 1 .. Len(Body) : y + 2 \in 1 .. Len(Opened)
    BY <1>1, <2>1, <2>3
  <2> QED BY Zenon, <2>1, <2>3, <2>4
<1>6. \A i \in 2 .. Len(Sent) - 1 : Sent[i] # K!FEND
  <2> SUFFICES ASSUME NEW i \in 2 .. Len(Sent) - 1 PROVE Sent[i] # K!FEND
    OBVIOUS
  <2>1. CASE i = 2
    BY <1>3, <1>5, <2>1
  <2>2. CASE i # 2
    <3>1. i - 2 \in 1 .. Len(Body) /\ (i - 2) + 2 = i
      BY <1>1, <1>5, <2>2
    <3> QED BY Zenon, <1>1, <1>5, <3>1
  <2> QED BY <2>1, <2>2
<1>7. SubSeq(Sent, 3, Len(Sent)) = Body \o end
  <2> DEFINE u == SubSeq(Sent, 3, Len(Sent))
             v == Body \o end
  <2>1. u \in Seq(LinkOctets) /\ Len(u) = Len(Body) + 1 /\ \A i \in 1 .. Len(u) : u[i] = Sent[i + 2]
    <3>1. u \in Seq(LinkOctets) /\ Len(u) = Len(Body) + 1
      BY <1>1, <1>5
    <3>2. \A i \in 1 .. Len(Body) + 1 : u[i] = Sent[3 + i - 1] /\ 3 + i - 1 = i + 2
      BY <1>1, <1>5
    <3> HIDE DEF u
    <3> QED BY <3>1, <3>2
  <2>2. /\ v \in Seq(LinkOctets) /\ Len(v) = Len(Body) + 1 /\ v[Len(Body) + 1] = K!FEND
        /\ \A i \in 1 .. Len(Body) : v[i] = Body[i]
    <3>0. Body \in Seq(LinkOctets) /\ end \in Seq(LinkOctets)
      BY Zenon, <1>1, <1>3
    <3>1. Follows(v, Body, end, LinkOctets)
      BY Zenon, <3>0, FollowsBehind
    <3>2. 1 \in 1 .. Len(end)
      BY <1>3
    <3> HIDE DEF v
    <3> QED BY Zenon, <1>3, <3>1, <3>2 DEF Follows
  <2> HIDE DEF u, v
  <2>3. \A i \in 1 .. Len(Body) + 1 : u[i] = v[i]
    <3> SUFFICES ASSUME NEW i \in 1 .. Len(Body) + 1 PROVE u[i] = v[i]
      OBVIOUS
    <3>1. CASE i = Len(Body) + 1
      <4>1. i + 2 = Len(Body) + 3 /\ i \in 1 .. Len(u)
        BY <1>1, <2>1, <3>1
      <4> QED BY Zenon, <1>5, <2>1, <2>2, <3>1, <4>1
    <3>2. CASE i # Len(Body) + 1
      <4>1. i \in 1 .. Len(Body) /\ i \in 1 .. Len(u)
        BY <1>1, <2>1, <3>2
      <4> QED BY Zenon, <1>5, <2>1, <2>2, <4>1
    <3> QED BY <3>1, <3>2
  <2>4. u = v
    BY <2>1, <2>2, <2>3
  <2> QED BY Zenon, <2>4 DEF u, v
<1>8. K!Decoded(Sent) = <<frame>>
  <2>1. Len(Sent) >= 3
    BY <1>1, <1>5
  <2> QED BY Zenon, <1>4, <1>5, <1>7, <2>1 DEF K!Decoded
<1>9. /\ Len(Sent) \in Nat /\ Len(Sent) >= 3 /\ Len(Sent) <= 2 * Len(frame) + 3 /\ Sent[Len(Sent)] = K!FEND
  BY <1>1, <1>5
<1> QED BY Zenon, <1>5, <1>6, <1>8, <1>9 DEF Enclosed, Sent

(* Frames as they are sent.                                                 *)
Encodes(frames) == [k \in 1 .. Len(frames) |-> K!Encode(frames[k])]

(* And every one of several.                                              *)
LEMMA EncodesIs ==
  ASSUME NEW frames \in Seq(KissFrames)
  PROVE  /\ Encodes(frames) \in Seq(Seq(LinkOctets)) /\ Len(Encodes(frames)) = Len(frames)
         /\ \A k \in 1 .. Len(frames) : /\ Encodes(frames)[k] = K!Encode(frames[k])
                                        /\ Enclosed(K!Encode(frames[k]), frames[k])
<1> DEFINE n == Len(frames)
           codes == Encodes(frames)
<1>1. n \in Nat /\ \A k \in 1 .. n : frames[k] \in KissFrames
  OBVIOUS
<1>2. \A f \in KissFrames : f \in Seq(LinkOctets) /\ f # <<>>
  <2>1. STRING \subseteq LinkOctets
    BY DEF LinkOctets
  <2>2. \A f \in Seq(STRING) : f \in Seq(LinkOctets)
    <3> HIDE DEF LinkOctets
    <3> DEFINE Values == STRING
    <3>1. Values \subseteq LinkOctets
      BY <2>1
    <3> HIDE DEF Values
    <3>2. \A f \in Seq(Values) : f \in Seq(LinkOctets)
      BY <3>1
    <3> QED BY Zenon, <3>2 DEF Values
  <2> QED BY Zenon, <2>2, LinkAssumption
<1>3. codes = [k \in 1 .. n |-> K!Encode(frames[k])]
  BY DEF Encodes
<1> HIDE DEF n, codes
<1>4. \A k \in 1 .. n : codes[k] = K!Encode(frames[k]) /\ Enclosed(K!Encode(frames[k]), frames[k])
  BY Zenon, <1>1, <1>2, <1>3, EncodedIs
<1>5. \A k \in 1 .. n : codes[k] \in Seq(LinkOctets)
  BY Zenon, <1>4 DEF Enclosed
<1>6. codes \in [1 .. n -> Seq(LinkOctets)]
  BY Zenon, <1>3, <1>5
<1>7. codes \in Seq(Seq(LinkOctets)) /\ Len(codes) = n
  BY <1>1, <1>6
<1> QED BY Zenon, <1>4, <1>7 DEF n, codes

(* The next FEND is the first, or there is none.                            *)
LEMMA NextFendIs ==
  ASSUME NEW octets \in Seq(LinkOctets), NEW p \in Nat \ {0}, NEW c \in Nat, p <= c, c <= Len(octets),
         octets[c] = K!FEND, \A i \in p .. c - 1 : octets[i] # K!FEND
  PROVE  K!NextFend(octets, p) = c
<1> DEFINE at == {i \in p .. Len(octets) : octets[i] = K!FEND}
           least == CHOOSE i \in at : \A j \in at : i <= j
<1>1. c \in at /\ \A j \in at : c <= j
  OBVIOUS
<1>2. least \in at /\ \A j \in at : least <= j
  BY Zenon, <1>1
<1>3. least \in Nat
  BY <1>2
<1>4. K!NextFend(octets, p) = least
  BY Zenon, <1>1 DEF K!NextFend
<1>5. least <= c /\ c <= least
  BY Zenon, <1>1, <1>2
<1> HIDE DEF least
<1>6. least = c
  BY <1>3, <1>5
<1> QED BY Zenon, <1>4, <1>6

(* Where there is no FEND, the next is behind the end.                    *)
LEMMA NoFend ==
  ASSUME NEW octets \in Seq(LinkOctets), NEW p \in Nat \ {0},
         \A i \in p .. Len(octets) : octets[i] # K!FEND
  PROVE  K!NextFend(octets, p) = Len(octets) + 1
<1>1. {i \in p .. Len(octets) : octets[i] = K!FEND} = {}
  OBVIOUS
<1> QED BY Zenon, <1>1 DEF K!NextFend

(* What is taken out of a part of the stream that begins with a frame: the  *)
(* frames that are complete in it, and the rest begins with the next one    *)
(* (kiss_tnc_poll).                                                         *)
LEMMA Extraction ==
  ASSUME NEW fs \in Seq(KissFrames), NEW stream \in Seq(LinkOctets),
         NEW start \in Laid(stream, Encodes(fs)),
         NEW h \in 0 .. Len(fs), NEW z \in Nat, start[h] <= z, z <= Len(stream)
  PROVE  \E g \in h .. Len(fs) :
           /\ start[g] <= z /\ (g < Len(fs) => z < start[g + 1])
           /\ K!Extracted(SubSeq(stream, start[h] + 1, z))
              = [frames |-> SubSeq(fs, h + 1, g), rest |-> start[g] - start[h] + 1]
<1> DEFINE n == Len(fs)
           part == SubSeq(stream, start[h] + 1, z)
           Length == z - start[h]
<1>1. n \in Nat /\ h \in Nat /\ h <= n /\ \A k \in 1 .. n : fs[k] \in KissFrames
  OBVIOUS
<1>2. /\ Encodes(fs) \in Seq(Seq(LinkOctets)) /\ Len(Encodes(fs)) = n
      /\ \A k \in 1 .. n : Encodes(fs)[k] = K!Encode(fs[k]) /\ Enclosed(K!Encode(fs[k]), fs[k])
  BY Zenon, EncodesIs
<1> HIDE DEF n
<1>3. /\ start \in [0 .. n -> Nat] /\ start[n] = Len(stream)
      /\ \A k \in 1 .. n :
           /\ start[k] = start[k - 1] + Len(K!Encode(fs[k]))
           /\ \A i \in 1 .. Len(K!Encode(fs[k])) : stream[start[k - 1] + i] = K!Encode(fs[k])[i]
  <2> DEFINE codes == Encodes(fs)
  <2>1. /\ start \in [0 .. n -> Nat] /\ start[n] = Len(stream)
        /\ \A k \in 1 .. n : /\ start[k] = start[k - 1] + Len(codes[k])
                             /\ \A i \in 1 .. Len(codes[k]) : stream[start[k - 1] + i] = codes[k][i]
    BY Zenon, <1>2 DEF Laid
  <2>2. \A k \in 1 .. n : codes[k] = K!Encode(fs[k])
    BY Zenon, <1>2
  <2> HIDE DEF codes
  <2> QED BY Zenon, <2>1, <2>2
<1>4. \A a \in 0 .. n, b \in 0 .. n : a <= b => start[a] <= start[b]
  <2> SUFFICES ASSUME NEW a \in 0 .. n, NEW b \in 0 .. n, a <= b PROVE start[a] <= start[b]
    OBVIOUS
  <2>1. a \in 0 .. Len(Encodes(fs)) /\ b \in a .. Len(Encodes(fs))
    BY <1>1, <1>2
  <2> QED BY Zenon, <1>2, <2>1, LaidOrder
<1>5. /\ start[h] \in Nat /\ Length \in Nat /\ z = start[h] + Length
      /\ part \in Seq(LinkOctets) /\ Len(part) = Length
      /\ \A i \in 1 .. Length : part[i] = stream[start[h] + i]
  <2>1. start[h] \in Nat
    BY <1>1, <1>3
  <2> DEFINE u == start[h]
  <2> HIDE DEF u
  <2>2. u \in Nat /\ u <= z /\ z <= Len(stream)
    BY Zenon, <2>1 DEF u
  <2>3. /\ SubSeq(stream, u + 1, z) \in Seq(LinkOctets) /\ Len(SubSeq(stream, u + 1, z)) = z - u
        /\ z - u \in Nat /\ z = u + (z - u)
    BY <2>2
  <2>4. \A i \in 1 .. z - u : SubSeq(stream, u + 1, z)[i] = stream[u + i]
    <3> SUFFICES ASSUME NEW i \in 1 .. z - u PROVE SubSeq(stream, u + 1, z)[i] = stream[u + i]
      OBVIOUS
    <3>1. SubSeq(stream, u + 1, z)[i] = stream[(u + 1) + i - 1] /\ (u + 1) + i - 1 = u + i
      BY <2>2
    <3> QED BY Zenon, <3>1
  <2> QED BY Zenon, <2>2, <2>3, <2>4 DEF u
<1> HIDE DEF part, Length
<1> DEFINE St(c) == [frames |-> SubSeq(fs, h + 1, c), pos |-> start[c] - start[h] + 1]
<1>6. PICK g \in h .. n : start[g] <= z /\ (g < n => z < start[g + 1])
  <2> DEFINE Later == {k \in Nat : k >= h + 1 /\ k <= n + 1 /\ (k <= n => z < start[k])}
  <2>1. n + 1 \in Later /\ Later \in SUBSET Nat
    BY <1>1
  <2>2. PICK l \in Later : \A m \in Later : l <= m
    <3> HIDE DEF Later
    <3> QED BY <2>1, LeastNatural
  <2>3. l - 1 \in h .. n /\ (l - 1) + 1 = l /\ l - 1 \in Nat /\ (l - 1 < n => l <= n)
    BY <1>1, <2>2
  <2>4. l - 1 \notin Later
    <3>1. l \in Nat /\ ~(l <= l - 1)
      BY <2>2
    <3> HIDE DEF Later
    <3> QED BY Zenon, <2>2, <3>1
  <2>5. start[l - 1] <= z
    <3>1. CASE l - 1 = h
      BY Zenon, <3>1
    <3>2. CASE l - 1 # h
      <4>1. l - 1 >= h + 1 /\ l - 1 <= n + 1 /\ l - 1 <= n
        BY <1>1, <2>3, <3>2
      <4>2. ~(z < start[l - 1])
        BY Zenon, <2>3, <2>4, <4>1
      <4>3. start[l - 1] \in Nat
        BY <1>1, <1>3, <2>3
      <4> QED BY <4>2, <4>3
    <3> QED BY Zenon, <3>1, <3>2
  <2>6. l - 1 < n => z < start[l]
    BY Zenon, <2>2, <2>3
  <2> QED BY Zenon, <2>3, <2>5, <2>6
<1>7. ASSUME NEW c \in h .. n
      PROVE  /\ start[c] \in Nat /\ start[c] - start[h] \in Nat /\ c \in 0 .. n
             /\ c < n => /\ c + 1 \in 1 .. n /\ Enclosed(K!Encode(fs[c + 1]), fs[c + 1])
                         /\ start[c + 1] = start[c] + Len(K!Encode(fs[c + 1]))
                         /\ \A i \in 1 .. Len(K!Encode(fs[c + 1])) :
                              start[c] - start[h] + i <= Length
                              => part[start[c] - start[h] + i] = K!Encode(fs[c + 1])[i]
  <2>1. c \in 0 .. n /\ h \in 0 .. n /\ h <= c
    BY <1>1
  <2> DEFINE x == start[c]
             u == start[h]
  <2>2. x \in Nat /\ u \in Nat /\ u <= x
    BY Zenon, <1>3, <1>4, <2>1
  <2>3. x - u \in Nat
    <3> HIDE DEF x, u
    <3> QED BY <2>2
  <2>4. ASSUME c < n
        PROVE  /\ c + 1 \in 1 .. n /\ Enclosed(K!Encode(fs[c + 1]), fs[c + 1])
               /\ start[c + 1] = x + Len(K!Encode(fs[c + 1]))
               /\ \A i \in 1 .. Len(K!Encode(fs[c + 1])) : x - u + i <= Length => part[x - u + i] = K!Encode(fs[c + 1])[i]
    <3> DEFINE code == K!Encode(fs[c + 1])
    <3>1. c + 1 \in 1 .. n /\ (c + 1) - 1 = c
      BY <1>1, <2>4
    <3>2. /\ Enclosed(code, fs[c + 1]) /\ start[c + 1] = x + Len(code)
          /\ \A i \in 1 .. Len(code) : stream[x + i] = code[i]
      BY Zenon, <1>2, <1>3, <3>1
    <3> HIDE DEF code, x, u
    <3>3. ASSUME NEW i \in 1 .. Len(code), x - u + i <= Length PROVE part[x - u + i] = code[i]
      <4>1. x - u + i \in 1 .. Length /\ u + (x - u + i) = x + i
        BY <1>5, <2>2, <3>3
      <4>2. part[x - u + i] = stream[u + (x - u + i)]
        BY Zenon, <1>5, <4>1 DEF u
      <4> QED BY Zenon, <3>2, <4>1, <4>2
    <3> QED BY Zenon, <3>1, <3>2, <3>3 DEF code, x, u
  <2> QED BY Zenon, <2>1, <2>2, <2>3, <2>4
<1>8. ASSUME NEW c \in h .. n, c < n, start[c + 1] <= z PROVE K!Taken(part, St(c)) = St(c + 1)
  <2> DEFINE code == K!Encode(fs[c + 1])
             a == start[c] - start[h]
             b == start[c + 1] - start[h]
  <2>1. /\ a \in Nat /\ start[c] \in Nat /\ c + 1 \in 1 .. n
        /\ Enclosed(code, fs[c + 1]) /\ start[c + 1] = start[c] + Len(code)
        /\ \A i \in 1 .. Len(code) : a + i <= Length => part[a + i] = code[i]
    BY Zenon, <1>7, <1>8
  <2>2. /\ code \in Seq(LinkOctets) /\ Len(code) \in Nat /\ Len(code) >= 3
        /\ code[1] = K!FEND /\ code[Len(code)] = K!FEND
        /\ \A i \in 2 .. Len(code) - 1 : code[i] # K!FEND
        /\ K!Decoded(code) = <<fs[c + 1]>>
    BY Zenon, <2>1 DEF Enclosed
  <2>3. b = a + Len(code) /\ b \in Nat /\ b <= Length
    <3> DEFINE u == start[h]
               x == start[c]
               y == start[c + 1]
    <3>1. u \in Nat /\ x \in Nat /\ y = x + Len(code) /\ y <= z /\ z = u + Length /\ x - u \in Nat /\ Length \in Nat
      BY Zenon, <1>5, <1>8, <2>1
    <3>2. Len(code) \in Nat
      BY Zenon, <2>2
    <3> HIDE DEF u, x, y, code
    <3>3. y - u = (x - u) + Len(code) /\ y - u \in Nat /\ y - u <= Length
      BY <3>1, <3>2
    <3> QED BY Zenon, <3>3 DEF u, x, y
  <2>4. fs[c + 1] \in KissFrames /\ SubSeq(fs, h + 1, c) \o <<fs[c + 1]>> = SubSeq(fs, h + 1, c + 1)
    <3>1. c + 1 \in 1 .. Len(fs) /\ h \in Nat /\ c \in Nat /\ h <= c /\ c + 1 <= Len(fs)
      BY <1>1, <1>8 DEF n
    <3> QED BY <3>1
  <2> HIDE DEF a, b, code
  <2>5. \A i \in 1 .. Len(code) : a + i \in 1 .. Length /\ part[a + i] = code[i]
    <3> SUFFICES ASSUME NEW i \in 1 .. Len(code) PROVE a + i \in 1 .. Length /\ part[a + i] = code[i]
      OBVIOUS
    <3>1. a + i \in 1 .. Length /\ a + i <= Length
      BY <1>5, <2>1, <2>2, <2>3
    <3> QED BY Zenon, <2>1, <3>1
  <2>12. /\ a \in Nat /\ b \in Nat /\ b = a + Len(code) /\ Len(code) \in Nat /\ Len(code) >= 3
         /\ b <= Length /\ Length \in Nat /\ Len(part) = Length /\ part \in Seq(LinkOctets) /\ code \in Seq(LinkOctets)
    BY Zenon, <1>5, <2>1, <2>2, <2>3
  <2>6. K!NextFend(part, a + 1) = a + 1
    <3>1. 1 \in 1 .. Len(code)
      BY <2>2
    <3>2. part[a + 1] = K!FEND /\ a + 1 \in 1 .. Length
      BY Zenon, <2>2, <2>5, <3>1
    <3>3. a + 1 \in Nat \ {0} /\ a + 1 \in Nat /\ a + 1 <= a + 1 /\ a + 1 <= Len(part)
          /\ \A i \in a + 1 .. (a + 1) - 1 : FALSE
      BY <1>5, <2>1, <3>2
    <3> QED BY Zenon, <1>5, <3>2, <3>3, NextFendIs
  <2>7. K!NextFend(part, (a + 1) + 1) = b
    <3>1. Len(code) \in 1 .. Len(code)
      BY <2>2
    <3>2. part[b] = K!FEND
      BY Zenon, <2>2, <2>3, <2>5, <3>1
    <3>3. (a + 1) + 1 \in Nat \ {0} /\ b \in Nat /\ (a + 1) + 1 <= b /\ b <= Len(part)
      BY <2>12
    <3>4. ASSUME NEW i \in (a + 1) + 1 .. b - 1 PROVE part[i] # K!FEND
      <4>1. i - a \in 2 .. Len(code) - 1 /\ i - a \in 1 .. Len(code) /\ a + (i - a) = i
        BY <2>1, <2>2, <2>3
      <4> QED BY Zenon, <2>2, <2>5, <4>1
    <3> QED BY Zenon, <1>5, <3>2, <3>3, <3>4, NextFendIs
  <2>8. SubSeq(part, a + 1, b) = code
    <3> DEFINE w == SubSeq(part, a + 1, b)
    <3>1. w \in Seq(LinkOctets) /\ Len(w) = Len(code)
      BY <2>12
    <3>2. \A i \in 1 .. Len(code) : w[i] = code[i]
      <4> SUFFICES ASSUME NEW i \in 1 .. Len(code) PROVE w[i] = code[i]
        OBVIOUS
      <4>1. w[i] = part[(a + 1) + i - 1] /\ (a + 1) + i - 1 = a + i
        BY <2>12
      <4> HIDE DEF w
      <4> QED BY Zenon, <2>5, <4>1
    <3> HIDE DEF w
    <3>3. w = code
      <4>1. \A u, v \in Seq(LinkOctets) : Len(u) = Len(v) /\ (\A i \in 1 .. Len(v) : u[i] = v[i]) => u = v
        OBVIOUS
      <4> QED BY Zenon, <2>12, <3>1, <3>2, <4>1
    <3> QED BY Zenon, <3>3 DEF w
  <2>9. ~(b > Len(part))
    BY <1>5, <2>3
  <2> DEFINE s == [frames |-> SubSeq(fs, h + 1, c), pos |-> a + 1]
  <2>10. s.pos = a + 1 /\ s.frames = SubSeq(fs, h + 1, c)
    BY Zenon
  <2> HIDE DEF s
  <2>11. K!Taken(part, s) = [frames |-> SubSeq(fs, h + 1, c + 1), pos |-> b + 1]
    BY Zenon, <2>2, <2>4, <2>6, <2>7, <2>8, <2>9, <2>10 DEF K!Taken
  <2> QED BY Zenon, <2>11 DEF a, b, s
<1> DEFINE d == start[g] - start[h]
<1>9. /\ d \in Nat /\ d <= Length /\ K!NextFend(part, d + 1) = d + 1
      /\ K!NextFend(part, (d + 1) + 1) = Len(part) + 1
  <2>1. d \in Nat /\ d <= Length
    <3> DEFINE u == start[h]
               x == start[g]
    <3>1. u \in Nat /\ x \in Nat /\ x - u \in Nat /\ x <= z /\ z = u + Length /\ Length \in Nat
      BY Zenon, <1>5, <1>6, <1>7
    <3> HIDE DEF u, x
    <3>2. x - u <= Length
      BY <3>1
    <3> QED BY Zenon, <3>1, <3>2 DEF u, x
  <2>2. CASE d = Length
    <3> HIDE DEF d
    <3>1. /\ d + 1 \in Nat \ {0} /\ (d + 1) + 1 \in Nat \ {0} /\ Len(part) + 1 = d + 1
          /\ \A i \in d + 1 .. Len(part) : FALSE
          /\ \A i \in (d + 1) + 1 .. Len(part) : FALSE
      BY <1>5, <2>1, <2>2
    <3>2. K!NextFend(part, d + 1) = Len(part) + 1 /\ K!NextFend(part, (d + 1) + 1) = Len(part) + 1
      BY Zenon, <1>5, <3>1, NoFend
    <3> QED BY Zenon, <2>1, <3>1, <3>2
  <2>3. CASE d # Length
    <3> DEFINE code == K!Encode(fs[g + 1])
    <3>1. g < n
      <4> SUFFICES ASSUME ~(g < n) PROVE FALSE
        OBVIOUS
      <4>1. g = n
        BY <1>1, <1>6
      <4> DEFINE u == start[h]
                 x == start[g]
                 y == Len(stream)
      <4>2. u \in Nat /\ x \in Nat /\ x <= z /\ z <= y /\ x = y /\ z = u + Length /\ Length \in Nat /\ x - u # Length /\ z \in Nat
        BY Zenon, <1>3, <1>5, <1>6, <1>7, <2>3, <4>1
      <4> HIDE DEF u, x, y
      <4> QED BY <4>2
    <3>2. /\ Enclosed(code, fs[g + 1]) /\ start[g + 1] = start[g] + Len(code) /\ z < start[g + 1]
          /\ \A i \in 1 .. Len(code) : d + i <= Length => part[d + i] = code[i]
      BY Zenon, <1>6, <1>7, <3>1
    <3>3. /\ Len(code) \in Nat /\ Len(code) >= 3 /\ code[1] = K!FEND
          /\ \A i \in 2 .. Len(code) - 1 : code[i] # K!FEND
      BY Zenon, <3>2 DEF Enclosed
    <3>4. Length < d + Len(code)
      <4> DEFINE u == start[h]
                 x == start[g]
                 y == start[g + 1]
      <4>1. u \in Nat /\ x \in Nat /\ y = x + Len(code) /\ z < y /\ z = u + Length /\ Length \in Nat /\ Len(code) \in Nat
        BY Zenon, <1>5, <1>6, <1>7, <3>2, <3>3
      <4> HIDE DEF u, x, y, code
      <4>2. Length < (x - u) + Len(code)
        BY <4>1
      <4> QED BY Zenon, <4>2 DEF u, x
    <3> HIDE DEF d, code
    <3>5. d + 1 <= Length /\ 1 \in 1 .. Len(code)
      BY <1>5, <2>1, <2>3, <3>3
    <3>6. part[d + 1] = K!FEND
      BY Zenon, <3>2, <3>3, <3>5
    <3>7. /\ d + 1 \in Nat \ {0} /\ d + 1 \in Nat /\ (d + 1) + 1 \in Nat \ {0} /\ d + 1 <= d + 1
          /\ d + 1 <= Len(part) /\ \A i \in d + 1 .. (d + 1) - 1 : FALSE
      BY <1>5, <2>1, <3>5
    <3>8. K!NextFend(part, d + 1) = d + 1
      BY Zenon, <1>5, <3>6, <3>7, NextFendIs
    <3>9. ASSUME NEW i \in (d + 1) + 1 .. Len(part) PROVE part[i] # K!FEND
      <4>1. /\ i - d \in 2 .. Len(code) - 1 /\ i - d \in 1 .. Len(code)
            /\ d + (i - d) = i /\ d + (i - d) <= Length
        BY <1>5, <2>1, <3>3, <3>4
      <4> QED BY Zenon, <3>2, <3>3, <4>1
    <3>10. K!NextFend(part, (d + 1) + 1) = Len(part) + 1
      BY Zenon, <1>5, <3>7, <3>9, NoFend
    <3> QED BY Zenon, <2>1, <3>8, <3>10
  <2> QED BY Zenon, <2>2, <2>3
<1>10. K!Taken(part, St(g)) = St(g)
  <2> DEFINE s == St(g)
  <2>1. s.pos = d + 1
    BY Zenon
  <2>2. Len(part) + 1 > Len(part)
    BY <1>5
  <2> HIDE DEF s, d
  <2>3. K!Taken(part, s) = s
    BY Zenon, <1>9, <2>1, <2>2 DEF K!Taken
  <2> QED BY Zenon, <2>3 DEF s
<1> DEFINE run == [k \in 0 .. Length |-> IF h + k <= g THEN St(h + k) ELSE St(g)]
           Loop(f) == f = [k \in 0 .. Len(part) |-> IF k = 0 THEN [frames |-> <<>>, pos |-> 1]
                                                   ELSE K!Taken(part, f[k - 1])]
           after == CHOOSE f : Loop(f)
<1>11. g \in Nat /\ h <= g /\ g <= n /\ Len(part) = Length /\ Length \in Nat
  BY <1>1, <1>5
<1>12. St(h) = [frames |-> <<>>, pos |-> 1]
  <2>1. SubSeq(fs, h + 1, h) = <<>>
    BY <1>1
  <2>2. start[h] - start[h] + 1 = 1
    <3> DEFINE u == start[h]
    <3>1. u \in Nat
      BY Zenon, <1>5
    <3> HIDE DEF u
    <3>2. u - u + 1 = 1
      BY <3>1
    <3> QED BY Zenon, <3>2 DEF u
  <2> QED BY Zenon, <2>1, <2>2
<1>13. \A c \in h .. n : c < g => K!Taken(part, St(c)) = St(c + 1)
  <2> SUFFICES ASSUME NEW c \in h .. n, c < g PROVE K!Taken(part, St(c)) = St(c + 1)
    OBVIOUS
  <2>1. c < n /\ c + 1 \in 0 .. n /\ g \in 0 .. n /\ c + 1 <= g
    BY <1>1, <1>11
  <2>2. start[c + 1] <= start[g] /\ start[c + 1] \in Nat /\ start[g] \in Nat /\ start[g] <= z
    BY Zenon, <1>3, <1>4, <1>6, <2>1
  <2>3. start[c + 1] <= z
    <3> DEFINE x == start[c + 1]
               y == start[g]
    <3>1. x <= y /\ x \in Nat /\ y \in Nat /\ y <= z
      BY Zenon, <2>2
    <3> HIDE DEF x, y
    <3>2. x <= z
      BY <3>1
    <3> QED BY Zenon, <3>2 DEF x
  <2> QED BY Zenon, <1>8, <2>1, <2>3
<1> HIDE DEF St
<1>14. \A k \in 0 .. Length : run[k] = IF k = 0 THEN [frames |-> <<>>, pos |-> 1] ELSE K!Taken(part, run[k - 1])
  <2> SUFFICES ASSUME NEW k \in 0 .. Length
               PROVE  run[k] = IF k = 0 THEN [frames |-> <<>>, pos |-> 1] ELSE K!Taken(part, run[k - 1])
    OBVIOUS
  <2>1. CASE k = 0
    <3>1. h + k = h /\ h + k <= g
      BY <1>1, <1>11, <2>1
    <3> QED BY Zenon, <1>12, <2>1, <3>1
  <2>2. CASE k # 0
    <3>1. k - 1 \in 0 .. Length
      BY <1>11, <2>2
    <3>2. CASE h + k <= g
      <4>1. h + (k - 1) <= g /\ h + (k - 1) \in h .. n /\ h + (k - 1) < g /\ (h + (k - 1)) + 1 = h + k
        BY <1>1, <1>11, <2>2, <3>2
      <4>2. run[k - 1] = St(h + (k - 1)) /\ run[k] = St(h + k)
        BY Zenon, <3>1, <3>2, <4>1
      <4> QED BY Zenon, <1>13, <2>2, <4>1, <4>2
    <3>3. CASE ~(h + k <= g)
      <4>1. run[k] = St(g)
        BY Zenon, <3>3
      <4>2. run[k - 1] = St(g)
        <5>1. CASE h + (k - 1) <= g
          <6>1. h + (k - 1) = g
            BY <1>1, <1>11, <2>2, <3>3, <5>1
          <6> QED BY Zenon, <3>1, <5>1, <6>1
        <5>2. CASE ~(h + (k - 1) <= g)
          BY Zenon, <3>1, <5>2
        <5> QED BY Zenon, <5>1, <5>2
      <4> QED BY Zenon, <1>10, <2>2, <4>1, <4>2
    <3> QED BY Zenon, <3>2, <3>3
  <2> QED BY Zenon, <2>1, <2>2
<1>15. run = [k \in 0 .. Length |-> run[k]]
  BY Zenon
<1>16. run[Length] = St(g)
  <2>1. Length \in 0 .. Length /\ g - h <= Length
    <3>1. \A c \in h .. n : start[c] - start[h] >= c - h
      <4> DEFINE H == {c \in h .. n : start[c] - start[h] >= c - h}
      <4>1. h \in H /\ h \in Int /\ n \in Int
        BY <1>1, <1>5
      <4>2. ASSUME NEW c \in h .. n, c \in H, c < n PROVE c + 1 \in H
        <5> DEFINE u == start[h]
                   x == start[c]
                   y == start[c + 1]
                   l == Len(K!Encode(fs[c + 1]))
        <5>1. /\ u \in Nat /\ x \in Nat /\ y = x + l /\ Enclosed(K!Encode(fs[c + 1]), fs[c + 1])
          BY Zenon, <1>5, <1>7, <4>2
        <5>2. l \in Nat /\ l >= 3
          BY Zenon, <5>1 DEF Enclosed
        <5>3. x - u >= c - h
          BY Zenon, <4>2
        <5>4. c + 1 \in h .. n
          BY <1>1, <4>2
        <5> HIDE DEF u, x, y, l, H
        <5>5. y - u >= (c + 1) - h
          BY <1>1, <5>1, <5>2, <5>3
        <5> QED BY Zenon, <5>4, <5>5 DEF y, u, H
      <4> HIDE DEF H
      <4>3. \A c \in h .. n : c \in H
        BY <4>1, <4>2, IntervalInduction
      <4> QED BY Zenon, <4>3 DEF H
    <3>2. d >= g - h
      BY Zenon, <3>1
    <3> HIDE DEF d
    <3> QED BY <1>1, <1>9, <1>11, <3>2
  <2>2. CASE h + Length <= g
    <3>1. h + Length = g
      BY <1>1, <1>11, <2>1, <2>2
    <3> QED BY Zenon, <2>1, <2>2, <3>1
  <2>3. CASE ~(h + Length <= g)
    BY Zenon, <2>1, <2>3
  <2> QED BY Zenon, <2>2, <2>3
<1> HIDE DEF run
<1>17. Loop(run)
  BY Zenon, <1>11, <1>14, <1>15
<1>18. Loop(after)
  BY Zenon, <1>17
<1>19. /\ K!Extracted(part).frames = after[Length].frames
       /\ K!Extracted(part) = [frames |-> after[Length].frames, rest |-> K!NextFend(part, after[Length].pos)]
  BY Zenon, <1>11 DEF K!Extracted
<1> HIDE DEF after
<1>20. \A k \in 0 .. Length : after[k] = IF k = 0 THEN [frames |-> <<>>, pos |-> 1] ELSE K!Taken(part, after[k - 1])
  BY Zenon, <1>11, <1>18
<1> HIDE DEF Loop
<1>21. after[Length] = run[Length]
  <2> DEFINE H == {k \in 0 .. Length : after[k] = run[k]}
  <2>1. 0 \in H /\ 0 \in Int /\ Length \in Int
    <3>1. 0 \in 0 .. Length /\ 0 \in Int /\ Length \in Int
      BY <1>11
    <3> QED BY Zenon, <1>14, <1>20, <3>1
  <2>2. ASSUME NEW k \in 0 .. Length, k \in H, k < Length PROVE k + 1 \in H
    <3>1. k + 1 \in 0 .. Length /\ k + 1 # 0 /\ (k + 1) - 1 = k
      BY <1>11, <2>2
    <3>2. after[k + 1] = K!Taken(part, after[k]) /\ run[k + 1] = K!Taken(part, run[k])
      BY Zenon, <1>14, <1>20, <3>1
    <3>3. after[k] = run[k]
      BY Zenon, <2>2
    <3> QED BY Zenon, <3>1, <3>2, <3>3
  <2> HIDE DEF H
  <2>3. \A k \in 0 .. Length : k \in H
    BY <2>1, <2>2, IntervalInduction
  <2>4. Length \in 0 .. Length
    BY <1>11
  <2> QED BY Zenon, <2>3, <2>4 DEF H
<1>22. after[Length].frames = SubSeq(fs, h + 1, g) /\ after[Length].pos = d + 1
  <2>1. after[Length] = [frames |-> SubSeq(fs, h + 1, g), pos |-> d + 1]
    BY Zenon, <1>16, <1>21 DEF St
  <2> DEFINE x == SubSeq(fs, h + 1, g)
             y == d + 1
  <2>2. after[Length] = [frames |-> x, pos |-> y]
    BY Zenon, <2>1
  <2> HIDE DEF x, y
  <2>3. after[Length].frames = x /\ after[Length].pos = y
    BY <2>2
  <2> QED BY Zenon, <2>3 DEF x, y
<1>23. K!Extracted(part) = [frames |-> SubSeq(fs, h + 1, g), rest |-> d + 1]
  BY Zenon, <1>9, <1>19, <1>22
<1> QED BY Zenon, <1>6, <1>23 DEF n, part

(* The stream the TNC has sent, where its frames begin, and how far it has  *)
(* been received: what was handed on are the frames that ended before, the  *)
(* buffer holds the stream from there on, and the rest is on its way.       *)
Received(stream, start, p, h) ==
  /\ h \in 0 .. Len(kiss_sent) /\ kiss_heard = SubSeq(kiss_sent, 1, h)
  /\ p \in Nat /\ p <= Len(stream)
  /\ start[h] <= p /\ (h < Len(kiss_sent) => p < start[h + 1])
  /\ kiss_rx = SubSeq(stream, start[h] + 1, p)
  /\ kiss_wire = SubSeq(stream, p + 1, Len(stream))

(* What the TNC took for frames, of the frames that were sent.              *)
SentFrames == [frame : KissFrames, whole : BOOLEAN]
AiredFrames == [of : Nat, text : Seq(LinkOctets)]
AiredOf(heard, frames) ==
  /\ heard \in Seq(AiredFrames)
  /\ \A d \in 1 .. Len(heard) :
       /\ heard[d].of \in 1 .. Len(frames)
       /\ K!IsPrefix(heard[d].text, frames[heard[d].of].frame)
       /\ frames[heard[d].of].whole => heard[d].text = frames[heard[d].of].frame
  /\ \A d, e \in 1 .. Len(heard) : d < e => heard[d].of < heard[e].of

(* What the TNC has of a cut frame is the beginning of the last one.        *)
CutLast ==
  LET last == Len(kiss_queued) IN
  /\ last \in 1 .. last /\ ~kiss_queued[last].whole
  /\ \E n \in 1 .. Len(K!Encode(kiss_queued[last].frame)) - 1 :
       kiss_partial = SubSeq(K!Encode(kiss_queued[last].frame), 1, n)
  /\ \A d \in 1 .. Len(kiss_aired) : kiss_aired[d].of < last

TransmitInv ==
  /\ kiss_queued \in Seq(SentFrames)
  /\ AiredOf(kiss_aired, kiss_queued)
  /\ \A k \in 1 .. Len(kiss_queued) :
       kiss_queued[k].whole => \E d \in 1 .. Len(kiss_aired) : kiss_aired[d].of = k
  /\ kiss_partial = <<>> \/ CutLast

LinkInv ==
  /\ kiss_sent \in Seq(KissFrames)
  /\ TransmitInv
  /\ \E stream \in Seq(LinkOctets) : \E start \in Laid(stream, Encodes(kiss_sent)) :
       \E p, h \in Nat : Received(stream, start, p, h)

(* Without a frame of the engine nothing of it changes.                     *)
LEMMA TransmitStays ==
  TransmitInv /\ UNCHANGED <<kiss_queued, kiss_partial, kiss_aired>> => TransmitInv'
BY Zenon DEF TransmitInv, CutLast, AiredOf

(* A part of what was read is what was read before.                         *)
LEMMA PrefixGrows ==
  ASSUME NEW r \in Seq(LinkOctets), NEW s \in ReadStates, NEW octet \in LinkOctets,
         K!IsPrefix(r, s.text)
  PROVE  K!IsPrefix(r, K!Read(s, octet).text)
<1> DEFINE t == s.text
           u == K!Read(s, octet).text
<1>1. t \in Seq(LinkOctets)
  BY DEF ReadStates
<1>2. u = t \/ u = t \o K!Meaning(octet) \/ u = Append(t, octet)
  <2>1. CASE s.ended
    BY Zenon, <2>1 DEF K!Read
  <2>2. CASE ~s.ended /\ s.escape
    <3> DEFINE v == t \o K!Meaning(octet)
    <3>1. K!Read(s, octet) = [text |-> v, escape |-> FALSE, ended |-> FALSE]
      BY Zenon, <2>2 DEF K!Read
    <3> HIDE DEF v
    <3>2. u = v
      BY <3>1
    <3> HIDE DEF u, t
    <3> QED BY Zenon, <3>2 DEF v
  <2>3. CASE ~s.ended /\ ~s.escape
    <3> DEFINE x == IF octet \in {K!FEND, K!FESC} THEN t ELSE Append(t, octet)
    <3>1. K!Read(s, octet) = [text |-> x, escape |-> octet = K!FESC, ended |-> octet = K!FEND]
      BY Zenon, <2>3 DEF K!Read
    <3> HIDE DEF x
    <3>2. u = x
      BY <3>1
    <3>3. x = t \/ x = Append(t, octet)
      BY Zenon DEF x
    <3> HIDE DEF u, t
    <3> QED BY Zenon, <3>2, <3>3
  <2>4. s.ended \/ (~s.ended /\ s.escape) \/ (~s.ended /\ ~s.escape)
    BY DEF ReadStates
  <2> HIDE DEF t, u
  <2> QED BY Zenon, <2>1, <2>2, <2>3, <2>4
<1>3. K!Meaning(octet) \in Seq(LinkOctets)
  <2>1. K!FEND \in LinkOctets /\ K!FESC \in LinkOctets
    BY Zenon DEF LinkOctets
  <2>2. /\ <<K!FEND>> \in Seq(LinkOctets) /\ <<K!FESC>> \in Seq(LinkOctets)
        /\ <<>> \in Seq(LinkOctets)
    <3> HIDE DEF LinkOctets
    <3> QED BY SMT, <2>1
  <2>3. K!Meaning(octet) \in {<<K!FEND>>, <<K!FESC>>, <<>>}
    BY SMT DEF K!Meaning
  <2> QED BY Zenon, <2>2, <2>3
<1> HIDE DEF t, u
<1>4. K!IsPrefix(r, t)
  BY Zenon DEF t
<1>5. \A v \in Seq(LinkOctets) : K!IsPrefix(r, t \o v)
  <2> SUFFICES ASSUME NEW v \in Seq(LinkOctets) PROVE K!IsPrefix(r, t \o v)
    OBVIOUS
  <2>1. Len(r) <= Len(t) /\ SubSeq(r, 1, Len(r)) = SubSeq(t, 1, Len(r))
    BY Zenon, <1>4 DEF K!IsPrefix
  <2>2. Len(r) <= Len(t \o v) /\ SubSeq(t \o v, 1, Len(r)) = SubSeq(t, 1, Len(r))
    BY <1>1, <2>1
  <2> QED BY Zenon, <2>1, <2>2 DEF K!IsPrefix
<1>6. Append(t, octet) = t \o <<octet>> /\ <<octet>> \in Seq(LinkOctets)
  BY <1>1
<1>7. K!IsPrefix(r, u)
  BY Zenon, <1>2, <1>3, <1>4, <1>5, <1>6
<1> QED BY Zenon, <1>7 DEF u

(* The beginning of a frame as it is sent, ended by the FEND of the next,   *)
(* is read as a beginning of the frame.                                     *)
LEMMA CutRead ==
  ASSUME NEW code, NEW frame \in Seq(LinkOctets), Enclosed(code, frame),
         NEW n \in Nat, 2 <= n, n < Len(code)
  PROVE  K!IsPrefix(K!Unescaped(SubSeq(Append(SubSeq(code, 1, n), K!FEND), 3, n + 1)), frame)
<1> DEFINE l == Len(code)
           u == SubSeq(code, 3, l)
           q == Append(SubSeq(code, 1, n), K!FEND)
           v == SubSeq(q, 3, n + 1)
           m == n - 2
<1>1. code \in Seq(LinkOctets) /\ l \in Nat /\ l >= 3 /\ K!Decoded(code) = <<frame>>
      /\ K!FEND \in LinkOctets
  BY DEF Enclosed, LinkOctets
<1>2. K!Unescaped(u) = frame
  <2> DEFINE content == K!Unescaped(u)
  <2>1. K!Decoded(code) = IF l >= 3 /\ code[2] = K!DATA /\ content # <<>> THEN <<content>> ELSE <<>>
    BY Zenon DEF K!Decoded
  <2> HIDE DEF content
  <2>2. <<frame>> # <<>> /\ \A x : <<frame>> = <<x>> => x = frame
    OBVIOUS
  <2>3. content = frame
    BY Zenon, <1>1, <2>1, <2>2
  <2> QED BY Zenon, <2>3 DEF content
<1>3. /\ u \in Seq(LinkOctets) /\ Len(u) = l - 2 /\ \A i \in 1 .. l - 2 : u[i] = code[3 + i - 1]
      /\ q \in Seq(LinkOctets) /\ Len(q) = n + 1 /\ q[n + 1] = K!FEND
      /\ \A i \in 1 .. n : q[i] = code[i]
  <2>1. SubSeq(code, 1, n) \in Seq(LinkOctets) /\ Len(SubSeq(code, 1, n)) = n
        /\ \A i \in 1 .. n : SubSeq(code, 1, n)[i] = code[i]
    BY <1>1
  <2>2. u \in Seq(LinkOctets) /\ Len(u) = l - 2 /\ \A i \in 1 .. l - 2 : u[i] = code[3 + i - 1]
    BY <1>1
  <2> DEFINE w == SubSeq(code, 1, n)
  <2> HIDE DEF w, u, l
  <2>3. q = Append(w, K!FEND) /\ w \in Seq(LinkOctets) /\ Len(w) = n /\ \A i \in 1 .. n : w[i] = code[i]
    BY Zenon, <2>1 DEF w
  <2> HIDE DEF q
  <2>4. q \in Seq(LinkOctets) /\ Len(q) = n + 1 /\ q[n + 1] = K!FEND /\ \A i \in 1 .. n : q[i] = code[i]
    BY <1>1, <2>3
  <2> QED BY Zenon, <2>2, <2>4
<1> HIDE DEF u, q
<1>4. /\ v \in Seq(LinkOctets) /\ Len(v) = n - 1 /\ \A i \in 1 .. n - 1 : v[i] = q[3 + i - 1]
  BY <1>3
<1> HIDE DEF v, l
<1>5. /\ m \in Nat /\ m <= l - 2 /\ l - 2 \in Nat /\ n - 1 \in 1 .. n - 1 /\ (n - 1) - 1 = m
      /\ \A i \in 1 .. m : /\ i \in 1 .. l - 2 /\ i \in 1 .. n - 1 /\ 3 + i - 1 \in 1 .. n
      /\ 3 + (n - 1) - 1 = n + 1
  BY <1>1 DEF l
<1>6. (\A i \in 1 .. m : v[i] = u[i]) /\ v[n - 1] = K!FEND
  BY Zenon, <1>3, <1>4, <1>5
<1>7. PICK state \in [0 .. l - 2 -> ReadStates] :
        /\ state[0] = Reading(<<>>)
        /\ \A k \in 1 .. l - 2 : state[k] = K!Read(state[k - 1], u[k])
        /\ K!Unescaped(u) = state[l - 2].text
  <2>1. \E state \in [0 .. Len(u) -> ReadStates] :
          /\ state[0] = Reading(<<>>)
          /\ \A k \in 1 .. Len(u) : state[k] = K!Read(state[k - 1], u[k])
          /\ K!Unescaped(u) = state[Len(u)].text
    BY Zenon, <1>3, ReadRuns
  <2> QED BY Zenon, <1>3, <2>1
<1>8. PICK cut \in [0 .. n - 1 -> ReadStates] :
        /\ cut[0] = Reading(<<>>)
        /\ \A k \in 1 .. n - 1 : cut[k] = K!Read(cut[k - 1], v[k])
        /\ K!Unescaped(v) = cut[n - 1].text
  <2>1. \E cut \in [0 .. Len(v) -> ReadStates] :
          /\ cut[0] = Reading(<<>>)
          /\ \A k \in 1 .. Len(v) : cut[k] = K!Read(cut[k - 1], v[k])
          /\ K!Unescaped(v) = cut[Len(v)].text
    BY Zenon, <1>4, ReadRuns
  <2> QED BY Zenon, <1>4, <2>1
<1> HIDE DEF m
<1>9. cut[m] = state[m]
  <2> DEFINE H == {k \in 0 .. m : cut[k] = state[k]}
  <2>1. 0 \in H /\ 0 \in Int /\ m \in Int
    BY <1>5, <1>7, <1>8
  <2>2. ASSUME NEW k \in 0 .. m, k \in H, k < m PROVE k + 1 \in H
    <3>1. k + 1 \in 0 .. m /\ k + 1 \in 1 .. m /\ (k + 1) - 1 = k
      BY <1>5, <2>2
    <3>2. k + 1 \in 1 .. l - 2 /\ k + 1 \in 1 .. n - 1 /\ cut[k] = state[k]
      BY Zenon, <1>5, <2>2, <3>1
    <3>3. cut[k + 1] = state[k + 1]
      BY Zenon, <1>6, <1>7, <1>8, <3>1, <3>2
    <3> QED BY Zenon, <3>1, <3>3
  <2> HIDE DEF H
  <2>3. \A k \in 0 .. m : k \in H
    BY <2>1, <2>2, IntervalInduction
  <2>4. m \in 0 .. m
    BY <1>5
  <2> QED BY Zenon, <2>3, <2>4 DEF H
<1> DEFINE r == state[m].text
<1>10. m \in 0 .. l - 2 /\ r \in Seq(LinkOctets) /\ state[m] \in ReadStates
  <2>1. m \in 0 .. l - 2
    BY <1>5
  <2>2. state[m] \in ReadStates
    BY Zenon, <1>7, <2>1
  <2> QED BY Zenon, <2>1, <2>2 DEF ReadStates
<1>11. K!Unescaped(v) = r
  <2>1. K!Unescaped(v) = K!Read(state[m], K!FEND).text
    BY Zenon, <1>5, <1>6, <1>8, <1>9
  <2>2. K!Meaning(K!FEND) = <<>>
    BY DEF K!Meaning, K!FEND, K!TFEND, K!TFESC
  <2>3. r \o <<>> = r
    BY <1>10
  <2>4. K!FEND \in {K!FEND, K!FESC}
    BY Zenon
  <2>5. K!Read(state[m], K!FEND).text = r
    BY Zenon, <2>2, <2>3, <2>4 DEF K!Read
  <2> QED BY Zenon, <2>1, <2>5
<1> HIDE DEF r
<1> DEFINE J == {k \in m .. l - 2 : K!IsPrefix(r, state[k].text)}
<1>12. m \in J /\ m \in Int /\ l - 2 \in Int
  <2>1. K!IsPrefix(r, r)
    <3>1. Len(r) <= Len(r)
      BY <1>10
    <3> QED BY Zenon, <3>1 DEF K!IsPrefix
  <2>2. m \in m .. l - 2 /\ m \in Int /\ l - 2 \in Int
    BY <1>5
  <2> QED BY Zenon, <2>1, <2>2 DEF r
<1>13. ASSUME NEW k \in m .. l - 2, k \in J, k < l - 2 PROVE k + 1 \in J
  <2>1. /\ k + 1 \in m .. l - 2 /\ k + 1 \in 1 .. l - 2 /\ (k + 1) - 1 = k /\ k \in 0 .. l - 2
        /\ k + 1 \in 1 .. Len(u)
    BY <1>3, <1>5, <1>13
  <2>2. u[k + 1] \in LinkOctets
    BY <1>3, <2>1
  <2>3. state[k] \in ReadStates /\ K!IsPrefix(r, state[k].text)
    BY Zenon, <1>7, <1>13, <2>1
  <2>4. state[k + 1] = K!Read(state[k], u[k + 1])
    BY Zenon, <1>7, <2>1
  <2>5. K!IsPrefix(r, state[k + 1].text)
    BY Zenon, <1>10, <2>2, <2>3, <2>4, PrefixGrows
  <2> QED BY Zenon, <2>1, <2>5
<1> HIDE DEF J
<1>14. \A k \in m .. l - 2 : k \in J
  BY <1>12, <1>13, IntervalInduction
<1>15. K!IsPrefix(r, state[l - 2].text)
  <2>1. l - 2 \in m .. l - 2
    BY <1>5
  <2> QED BY Zenon, <1>14, <2>1 DEF J
<1>16. K!IsPrefix(K!Unescaped(v), frame)
  BY Zenon, <1>2, <1>7, <1>11, <1>15
<1> QED BY Zenon, <1>16 DEF v, q

(* What the TNC takes for a frame that was cut: nothing, or a beginning.    *)
AiredPart(octets, k, frame) ==
  \/ K!Aired(octets, k) = <<>>
  \/ \E e \in AiredFrames : /\ K!Aired(octets, k) = <<e>> /\ e.of = k
                            /\ K!IsPrefix(e.text, frame)

LEMMA CutAired ==
  ASSUME NEW code, NEW frame \in Seq(LinkOctets), Enclosed(code, frame),
         NEW n \in 1 .. Len(code) - 1, NEW k \in Nat
  PROVE  AiredPart(Append(SubSeq(code, 1, n), K!FEND), k, frame)
<1> DEFINE octets == Append(SubSeq(code, 1, n), K!FEND)
           t == K!Unescaped(SubSeq(octets, 3, Len(octets)))
<1>1. code \in Seq(LinkOctets) /\ Len(code) \in Nat /\ n \in Nat /\ n < Len(code) /\ n >= 1
  BY DEF Enclosed
<1>2. octets \in Seq(LinkOctets) /\ Len(octets) = n + 1
  <2>1. SubSeq(code, 1, n) \in Seq(LinkOctets) /\ Len(SubSeq(code, 1, n)) = n
    BY <1>1
  <2>2. K!FEND \in LinkOctets
    BY DEF LinkOctets
  <2> DEFINE w == SubSeq(code, 1, n)
  <2> HIDE DEF w
  <2>3. Append(w, K!FEND) \in Seq(LinkOctets) /\ Len(Append(w, K!FEND)) = n + 1
    BY <2>1, <2>2 DEF w
  <2> QED BY Zenon, <2>3 DEF w
<1>3. K!Decoded(octets) = <<>> \/ (Len(octets) >= 3 /\ K!Decoded(octets) = <<t>>)
  BY Zenon DEF K!Decoded
<1> SUFFICES AiredPart(octets, k, frame)
  OBVIOUS
<1>4. CASE K!Decoded(octets) = <<>>
  <2>1. K!Aired(octets, k) = <<>>
    <3> DEFINE d == K!Decoded(octets)
    <3>1. K!Aired(octets, k) = [i \in DOMAIN d |-> [of |-> k, text |-> d[i]]]
      BY Zenon DEF K!Aired
    <3>2. d = <<>>
      BY Zenon, <1>4
    <3> HIDE DEF d, octets
    <3> QED BY <3>1, <3>2
  <2> HIDE DEF octets
  <2> QED BY Zenon, <2>1 DEF AiredPart
<1>5. CASE Len(octets) >= 3 /\ K!Decoded(octets) = <<t>>
  <2> DEFINE e == [of |-> k, text |-> t]
  <2>1. 2 <= n
    <3> HIDE DEF octets, t
    <3> QED BY <1>1, <1>2, <1>5
  <2>2. K!IsPrefix(t, frame)
    <3>1. K!IsPrefix(K!Unescaped(SubSeq(octets, 3, n + 1)), frame)
      BY Zenon, <1>1, <2>1, CutRead
    <3> QED BY Zenon, <1>2, <3>1
  <2>3. t \in Seq(LinkOctets)
    <3> DEFINE w == SubSeq(octets, 3, Len(octets))
    <3>1. w \in Seq(LinkOctets) /\ Len(w) \in Nat /\ Len(w) \in 0 .. Len(w)
      <4> HIDE DEF octets
      <4> QED BY <1>2
    <3> HIDE DEF w, octets
    <3>2. PICK state \in [0 .. Len(w) -> ReadStates] : K!Unescaped(w) = state[Len(w)].text
      BY <3>1, ReadRuns
    <3>3. state[Len(w)] \in ReadStates
      BY Zenon, <3>1, <3>2
    <3> QED BY Zenon, <3>2, <3>3 DEF ReadStates, w
  <2>4. K!Aired(octets, k) = <<e>>
    <3> DEFINE d == K!Decoded(octets)
    <3>1. K!Aired(octets, k) = [i \in DOMAIN d |-> [of |-> k, text |-> d[i]]]
      BY Zenon DEF K!Aired
    <3>2. d = <<t>>
      BY Zenon, <1>5
    <3> HIDE DEF d, octets, t
    <3>3. DOMAIN d = 1 .. 1 /\ d[1] = t
      BY <3>2
    <3>4. [i \in 1 .. 1 |-> [of |-> k, text |-> d[i]]] = <<[of |-> k, text |-> d[1]]>>
      OBVIOUS
    <3> QED BY Zenon, <3>1, <3>3, <3>4
  <2>5. e \in AiredFrames /\ e.of = k /\ e.text = t
    BY Zenon, <2>3 DEF AiredFrames
  <2> HIDE DEF e, t, octets
  <2> QED BY Zenon, <2>2, <2>4, <2>5 DEF AiredPart
<1> QED BY Zenon, <1>3, <1>4, <1>5

(* What is aired of the last frame, behind what was aired of the others.    *)
AiredBehind(more, heard, e, frames) ==
  /\ AiredOf(more, frames) /\ Len(more) = Len(heard) + 1 /\ more[Len(heard) + 1] = e
  /\ \A d \in 1 .. Len(heard) : more[d] = heard[d]

LEMMA AiredMore ==
  ASSUME NEW heard, NEW frames \in Seq(SentFrames), AiredOf(heard, frames),
         NEW e \in AiredFrames, e.of \in 1 .. Len(frames),
         \A d \in 1 .. Len(heard) : heard[d].of < e.of,
         K!IsPrefix(e.text, frames[e.of].frame),
         frames[e.of].whole => e.text = frames[e.of].frame
  PROVE  AiredBehind(heard \o <<e>>, heard, e, frames)
<1> DEFINE more == heard \o <<e>>
           n == Len(heard)
<1>1. heard \in Seq(AiredFrames) /\ n \in Nat
  BY DEF AiredOf
<1>2. /\ more \in Seq(AiredFrames) /\ Len(more) = n + 1 /\ more[n + 1] = e
      /\ \A d \in 1 .. n : more[d] = heard[d]
  BY <1>1
<1> HIDE DEF more, n
<1>3. \A d \in 1 .. n + 1 : d \in 1 .. n \/ d = n + 1
  BY <1>1
<1>4. \A d \in 1 .. n + 1 :
        /\ more[d].of \in 1 .. Len(frames)
        /\ K!IsPrefix(more[d].text, frames[more[d].of].frame)
        /\ frames[more[d].of].whole => more[d].text = frames[more[d].of].frame
  BY Zenon, <1>2, <1>3 DEF AiredOf, n
<1>5. ASSUME NEW d \in 1 .. n + 1, NEW c \in 1 .. n + 1, d < c PROVE more[d].of < more[c].of
  <2>1. d \in 1 .. n
    BY <1>1, <1>5
  <2>2. CASE c \in 1 .. n
    BY Zenon, <1>2, <1>5, <2>1, <2>2 DEF AiredOf, n
  <2>3. CASE c = n + 1
    BY Zenon, <1>2, <2>1, <2>3 DEF n
  <2> QED BY Zenon, <1>3, <2>2, <2>3
<1> QED BY Zenon, <1>2, <1>4, <1>5 DEF AiredOf, AiredBehind, more, n

(* A further frame changes nothing of what was aired.                       *)
LEMMA AiredStays ==
  ASSUME NEW heard, NEW frames \in Seq(SentFrames), AiredOf(heard, frames), NEW q \in SentFrames
  PROVE  AiredOf(heard, Append(frames, q))
<1> DEFINE more == Append(frames, q)
<1>1. /\ Len(more) = Len(frames) + 1 /\ Len(frames) \in Nat
      /\ \A k \in 1 .. Len(frames) : more[k] = frames[k] /\ k \in 1 .. Len(more)
  OBVIOUS
<1> HIDE DEF more
<1>2. AiredOf(heard, more)
  BY Zenon, <1>1 DEF AiredOf
<1> QED BY Zenon, <1>2 DEF more

(* A frame of the engine is sent, whole or its beginning.                   *)
LEMMA Transmits ==
  ASSUME TransmitInv, NEW frame \in KissFrames, NEW n \in 1 .. Len(K!Encode(frame)),
         K!EngineSends(frame, n)
  PROVE  TransmitInv'
<1> DEFINE code == K!Encode(frame)
           whole == n = Len(code)
           last == Len(kiss_queued)
           closed == K!Aired(Append(kiss_partial, K!FEND), last)
           mid == kiss_aired \o closed
           q == [frame |-> frame, whole |-> whole]
<1>1. /\ kiss_queued \in Seq(SentFrames) /\ AiredOf(kiss_aired, kiss_queued) /\ last \in Nat
      /\ \A k \in 1 .. last :
           kiss_queued[k].whole => \E d \in 1 .. Len(kiss_aired) : kiss_aired[d].of = k
      /\ kiss_partial = <<>> \/ CutLast
      /\ kiss_aired \in Seq(AiredFrames) /\ Len(kiss_aired) \in Nat
  BY DEF TransmitInv, AiredOf
<1>2. /\ kiss_queued' = Append(kiss_queued, q)
      /\ kiss_aired' = mid \o (IF whole THEN K!Aired(code, last + 1) ELSE <<>>)
      /\ kiss_partial' = IF whole THEN <<>> ELSE SubSeq(code, 1, n)
  BY Zenon DEF K!EngineSends
<1>3. \A f \in KissFrames : f \in Seq(LinkOctets) /\ Enclosed(K!Encode(f), f)
  <2> SUFFICES ASSUME NEW f \in KissFrames PROVE f \in Seq(LinkOctets) /\ Enclosed(K!Encode(f), f)
    OBVIOUS
  <2>1. <<f>> \in Seq(KissFrames) /\ Len(<<f>>) = 1 /\ <<f>>[1] = f /\ 1 \in 1 .. 1
    OBVIOUS
  <2>2. Enclosed(K!Encode(f), f)
    BY Zenon, <2>1, EncodesIs
  <2>3. f \in Seq(STRING) /\ STRING \subseteq LinkOctets
    BY LinkAssumption DEF LinkOctets
  <2>4. f \in Seq(LinkOctets)
    <3> DEFINE Values == STRING
    <3> HIDE DEF Values, LinkOctets
    <3>1. f \in Seq(Values) /\ Values \subseteq LinkOctets
      BY Zenon, <2>3 DEF Values
    <3> QED BY <3>1
  <2> QED BY <2>2, <2>4
<1>4. q \in SentFrames /\ q.frame = frame /\ q.whole = whole
  <2>1. whole \in BOOLEAN
    BY Zenon
  <2> HIDE DEF whole
  <2> QED BY Zenon, <2>1 DEF SentFrames
<1> HIDE DEF code, whole, last, closed, mid, q
<1>5. /\ AiredOf(mid, kiss_queued) /\ mid \in Seq(AiredFrames) /\ Len(mid) \in Nat
      /\ \A k \in 1 .. last : kiss_queued[k].whole => \E d \in 1 .. Len(mid) : mid[d].of = k
  <2>1. CASE kiss_partial = <<>> \/ closed = <<>>
    <3>1. closed = <<>>
      <4>1. CASE kiss_partial = <<>>
        <5>1. Len(Append(<<>>, K!FEND)) = 1
          OBVIOUS
        <5>2. K!Decoded(Append(<<>>, K!FEND)) = <<>>
          <6>1. ~(Len(Append(<<>>, K!FEND)) >= 3)
            BY <5>1
          <6> QED BY Zenon, <6>1 DEF K!Decoded
        <5> DEFINE d == K!Decoded(Append(<<>>, K!FEND))
        <5>3. closed = [i \in DOMAIN d |-> [of |-> last, text |-> d[i]]]
          BY Zenon, <4>1 DEF K!Aired, closed
        <5> HIDE DEF d
        <5>4. d = <<>>
          BY Zenon, <5>2 DEF d
        <5> QED BY <5>3, <5>4
      <4> QED BY Zenon, <2>1, <4>1
    <3>2. mid = kiss_aired
      BY <1>1, <3>1 DEF mid
    <3> QED BY Zenon, <1>1, <3>2
  <2>2. CASE CutLast /\ closed # <<>>
    <3> DEFINE held == kiss_queued[last]
               sent == K!Encode(held.frame)
    <3>1. /\ last \in 1 .. last /\ ~held.whole
          /\ \A d \in 1 .. Len(kiss_aired) : kiss_aired[d].of < last
      BY Zenon, <2>2 DEF CutLast, last
    <3>2. PICK k \in 1 .. Len(sent) - 1 : kiss_partial = SubSeq(sent, 1, k)
      BY Zenon, <2>2 DEF CutLast, last
    <3>3. held \in SentFrames
      BY <1>1, <3>1 DEF last
    <3>4. held.frame \in KissFrames
      BY Zenon, <3>3 DEF SentFrames
    <3>5. held.frame \in Seq(LinkOctets) /\ Enclosed(sent, held.frame)
      BY Zenon, <1>3, <3>4
    <3>6. \/ closed = <<>>
          \/ \E e \in AiredFrames : closed = <<e>> /\ e.of = last /\ K!IsPrefix(e.text, held.frame)
      <4> DEFINE f == held.frame
      <4>1. f \in Seq(LinkOctets) /\ Enclosed(sent, f) /\ k \in 1 .. Len(sent) - 1 /\ last \in Nat
        BY Zenon, <1>1, <3>2, <3>5
      <4> HIDE DEF held, sent, f
      <4>2. AiredPart(Append(SubSeq(sent, 1, k), K!FEND), last, f)
        BY <4>1, CutAired
      <4>3. closed = K!Aired(Append(SubSeq(sent, 1, k), K!FEND), last)
        BY Zenon, <3>2 DEF closed
      <4> QED BY Zenon, <4>2, <4>3 DEF AiredPart, f
    <3>7. PICK e \in AiredFrames : closed = <<e>> /\ e.of = last /\ K!IsPrefix(e.text, held.frame)
      BY Zenon, <2>2, <3>6
    <3> HIDE DEF sent
    <3>8. /\ e.of \in 1 .. Len(kiss_queued) /\ \A d \in 1 .. Len(kiss_aired) : kiss_aired[d].of < e.of
          /\ K!IsPrefix(e.text, kiss_queued[e.of].frame) /\ ~kiss_queued[e.of].whole
      BY Zenon, <3>1, <3>7 DEF last
    <3>9. /\ AiredOf(mid, kiss_queued) /\ Len(mid) = Len(kiss_aired) + 1
          /\ \A d \in 1 .. Len(kiss_aired) : mid[d] = kiss_aired[d]
      <4>1. mid = kiss_aired \o <<e>>
        BY Zenon, <3>7 DEF mid
      <4>2. AiredBehind(kiss_aired \o <<e>>, kiss_aired, e, kiss_queued)
        BY <1>1, <3>7, <3>8, AiredMore
      <4> QED BY Zenon, <4>1, <4>2 DEF AiredBehind
    <3>10. \A d \in 1 .. Len(kiss_aired) : d \in 1 .. Len(mid)
      BY <1>1, <3>9
    <3>11. mid \in Seq(AiredFrames) /\ Len(mid) \in Nat
      BY <3>9 DEF AiredOf
    <3> QED BY Zenon, <1>1, <3>9, <3>10, <3>11
  <2> QED BY Zenon, <1>1, <2>1, <2>2
<1>6. /\ kiss_queued' \in Seq(SentFrames) /\ Len(kiss_queued') = last + 1
      /\ kiss_queued'[last + 1] = q /\ \A k \in 1 .. last : kiss_queued'[k] = kiss_queued[k]
  BY <1>1, <1>2, <1>4 DEF last
<1>7. AiredOf(mid, kiss_queued')
  BY Zenon, <1>1, <1>2, <1>4, <1>5, AiredStays
<1>8. \A d \in 1 .. Len(mid) : mid[d].of < last + 1
  <2>1. \A d \in 1 .. Len(mid) : mid[d].of \in 1 .. last
    BY Zenon, <1>5 DEF AiredOf, last
  <2> QED BY <1>1, <2>1
<1>9. \A k \in 1 .. last + 1 : k \in 1 .. last \/ k = last + 1
  BY <1>1
<1>10. last + 1 \in 1 .. last + 1
  BY <1>1
<1>11. CASE whole
  <2> DEFINE e == [of |-> last + 1, text |-> frame]
  <2>1. K!Aired(code, last + 1) = <<e>>
    <3> DEFINE d == K!Decoded(code)
    <3>1. K!Aired(code, last + 1) = [i \in DOMAIN d |-> [of |-> last + 1, text |-> d[i]]]
      BY Zenon DEF K!Aired
    <3>2. d = <<frame>>
      BY Zenon, <1>3 DEF Enclosed, code
    <3> HIDE DEF d
    <3>3. DOMAIN d = 1 .. 1 /\ d[1] = frame
      BY <3>2
    <3>4. [i \in 1 .. 1 |-> [of |-> last + 1, text |-> d[i]]] = <<[of |-> last + 1, text |-> d[1]]>>
      OBVIOUS
    <3> QED BY Zenon, <3>1, <3>3, <3>4
  <2>2. e \in AiredFrames /\ e.of = last + 1 /\ e.text = frame
    <3>1. last + 1 \in Nat
      BY <1>1
    <3> QED BY Zenon, <1>3, <3>1 DEF AiredFrames
  <2> HIDE DEF e
  <2>3. kiss_aired' = mid \o <<e>> /\ kiss_partial' = <<>>
    BY Zenon, <1>2, <1>11, <2>1
  <2>4. K!IsPrefix(frame, frame)
    <3>1. Len(frame) <= Len(frame)
      BY <1>3
    <3> QED BY Zenon, <3>1 DEF K!IsPrefix
  <2>5. /\ AiredOf(kiss_aired', kiss_queued') /\ Len(kiss_aired') = Len(mid) + 1
        /\ kiss_aired'[Len(mid) + 1] = e /\ \A d \in 1 .. Len(mid) : kiss_aired'[d] = mid[d]
    <3>1. /\ e.of \in 1 .. Len(kiss_queued') /\ \A d \in 1 .. Len(mid) : mid[d].of < e.of
          /\ K!IsPrefix(e.text, kiss_queued'[e.of].frame) /\ e.text = kiss_queued'[e.of].frame
      BY Zenon, <1>4, <1>6, <1>8, <1>10, <2>2, <2>4
    <3> DEFINE frames == kiss_queued'
    <3>2. /\ frames \in Seq(SentFrames) /\ AiredOf(mid, frames) /\ e.of \in 1 .. Len(frames)
          /\ K!IsPrefix(e.text, frames[e.of].frame) /\ e.text = frames[e.of].frame
      BY Zenon, <1>6, <1>7, <3>1
    <3> HIDE DEF frames
    <3>3. AiredBehind(mid \o <<e>>, mid, e, frames)
      BY <2>2, <3>1, <3>2, AiredMore
    <3> QED BY Zenon, <2>3, <3>3 DEF AiredBehind, frames
  <2>6. Len(mid) + 1 \in 1 .. Len(mid) + 1 /\ \A d \in 1 .. Len(mid) : d \in 1 .. Len(mid) + 1
    BY <1>5
  <2>7. \A k \in 1 .. Len(kiss_queued') :
          kiss_queued'[k].whole => \E d \in 1 .. Len(kiss_aired') : kiss_aired'[d].of = k
    BY Zenon, <1>5, <1>6, <1>9, <2>2, <2>5, <2>6
  <2> QED BY Zenon, <1>6, <2>3, <2>5, <2>7 DEF TransmitInv
<1>12. CASE ~whole
  <2>1. kiss_aired' = mid /\ kiss_partial' = SubSeq(code, 1, n)
    <3>1. kiss_aired' = mid \o <<>> /\ kiss_partial' = SubSeq(code, 1, n)
      BY Zenon, <1>2, <1>12
    <3>2. mid \o <<>> = mid
      BY <1>5
    <3> QED BY Zenon, <3>1, <3>2
  <2>2. n \in 1 .. Len(code) - 1
    <3>1. Len(code) \in Nat /\ n # Len(code) /\ n \in 1 .. Len(code)
      BY <1>3, <1>12 DEF Enclosed, whole, code
    <3> QED BY <3>1
  <2>3. \A k \in 1 .. Len(kiss_queued') :
          kiss_queued'[k].whole => \E d \in 1 .. Len(kiss_aired') : kiss_aired'[d].of = k
    BY Zenon, <1>4, <1>5, <1>6, <1>9, <1>12, <2>1
  <2>4. CutLast'
    BY Zenon, <1>4, <1>6, <1>8, <1>10, <1>12, <2>1, <2>2 DEF CutLast, code
  <2> QED BY Zenon, <1>6, <1>7, <2>1, <2>3, <2>4 DEF TransmitInv
<1> QED BY Zenon, <1>11, <1>12

(* Nothing is sent at first.                                              *)
LEMMA LinkInit == K!Init => LinkInv
<1> SUFFICES ASSUME K!Init PROVE LinkInv
  OBVIOUS
<1> DEFINE start == [k \in 0 .. 0 |-> 0]
           none == <<>>
<1>1. /\ kiss_sent = none /\ kiss_heard = none
      /\ kiss_rx = none /\ kiss_wire = none
  BY DEF K!Init
<1>2. /\ none \in Seq(KissFrames) /\ none \in Seq(LinkOctets) /\ Len(none) = 0
      /\ SubSeq(none, 1, 0) = none /\ SubSeq(none, 0 + 1, 0) = none
      /\ 0 \in 0 .. 0 /\ 0 \in Nat /\ 0 <= 0 /\ ~(0 < 0)
  OBVIOUS
<1> HIDE DEF none
<1>3. Len(Encodes(none)) = 0
  BY Zenon, <1>2, EncodesIs
<1>4. start \in Laid(none, Encodes(none)) /\ start[0] = 0
  <2>1. start \in [0 .. 0 -> Nat] /\ start[0] = 0 /\ \A k \in 1 .. 0 : FALSE
    OBVIOUS
  <2> HIDE DEF start
  <2> QED BY Zenon, <1>2, <1>3, <2>1 DEF Laid
<1> HIDE DEF start
<1>5. Received(none, start, 0, 0)
  BY Zenon, <1>1, <1>2, <1>4 DEF Received
<1>6. TransmitInv
  BY DEF K!Init, TransmitInv, AiredOf
<1> QED BY Zenon, <1>1, <1>2, <1>4, <1>5, <1>6 DEF LinkInv

(* The TNC sends another frame: it lies behind the others.                  *)
LEMMA LinkSends ==
  ASSUME LinkInv, NEW frame \in KissFrames, K!TncSends(frame)
  PROVE  LinkInv'
<1>0. PICK stream \in Seq(LinkOctets) : \E start \in Laid(stream, Encodes(kiss_sent)) :
                                     \E p, h \in Nat : Received(stream, start, p, h)
  BY Zenon DEF LinkInv
<1>1. PICK start \in Laid(stream, Encodes(kiss_sent)), p \in Nat, h \in Nat :
        Received(stream, start, p, h)
  BY Zenon, <1>0
<1> DEFINE n == Len(kiss_sent)
           code == K!Encode(frame)
           longer == stream \o code
           last == start[n] + Len(code)
           next == [k \in 0 .. n + 1 |-> IF k = n + 1 THEN last ELSE start[k]]
<1>2. /\ kiss_sent \in Seq(KissFrames) /\ n \in Nat
      /\ kiss_sent' = Append(kiss_sent, frame) /\ kiss_wire' = kiss_wire \o code
      /\ kiss_rx' = kiss_rx /\ kiss_heard' = kiss_heard
      /\ UNCHANGED <<kiss_queued, kiss_partial, kiss_aired>>
  BY DEF LinkInv, K!TncSends
<1>3. /\ kiss_sent' \in Seq(KissFrames) /\ Len(kiss_sent') = n + 1
      /\ \A k \in 1 .. n : kiss_sent'[k] = kiss_sent[k]
      /\ kiss_sent'[n + 1] = frame
      /\ \A k \in 0 .. n : SubSeq(kiss_sent', 1, k) = SubSeq(kiss_sent, 1, k)
  BY <1>2
<1> HIDE DEF n
<1>4. /\ Encodes(kiss_sent) \in Seq(Seq(LinkOctets)) /\ Len(Encodes(kiss_sent)) = n
      /\ \A k \in 1 .. n : Encodes(kiss_sent)[k] = K!Encode(kiss_sent[k])
  BY Zenon, <1>2, EncodesIs DEF n
<1>5. /\ Encodes(kiss_sent') \in Seq(Seq(LinkOctets)) /\ Len(Encodes(kiss_sent')) = n + 1
      /\ \A k \in 1 .. n + 1 : /\ Encodes(kiss_sent')[k] = K!Encode(kiss_sent'[k])
                               /\ Enclosed(K!Encode(kiss_sent'[k]), kiss_sent'[k])
  BY Zenon, <1>3, EncodesIs
<1>6. Enclosed(code, frame)
  <2>1. n + 1 \in 1 .. n + 1
    BY <1>2
  <2> QED BY Zenon, <1>3, <1>5, <2>1
<1>7. code \in Seq(LinkOctets) /\ Len(code) \in Nat /\ Len(code) >= 3
  BY Zenon, <1>6 DEF Enclosed
<1>8. /\ start \in [0 .. n -> Nat] /\ start[0] = 0 /\ start[n] = Len(stream)
      /\ \A k \in 1 .. n :
           /\ start[k] = start[k - 1] + Len(K!Encode(kiss_sent[k]))
           /\ \A i \in 1 .. Len(K!Encode(kiss_sent[k])) :
                stream[start[k - 1] + i] = K!Encode(kiss_sent[k])[i]
  <2> DEFINE codes == Encodes(kiss_sent)
  <2>1. /\ start \in [0 .. n -> Nat] /\ start[0] = 0 /\ start[n] = Len(stream)
        /\ \A k \in 1 .. n : /\ start[k] = start[k - 1] + Len(codes[k])
                             /\ \A i \in 1 .. Len(codes[k]) : stream[start[k - 1] + i] = codes[k][i]
    BY Zenon, <1>1, <1>4 DEF Laid
  <2>2. \A k \in 1 .. n : codes[k] = K!Encode(kiss_sent[k])
    BY Zenon, <1>4
  <2> HIDE DEF codes
  <2> QED BY Zenon, <2>1, <2>2
<1> HIDE DEF code
<1>9. /\ longer \in Seq(LinkOctets) /\ Len(longer) = Len(stream) + Len(code) /\ Len(stream) \in Nat
      /\ \A i \in 1 .. Len(stream) : longer[i] = stream[i]
      /\ \A i \in 1 .. Len(code) : longer[Len(stream) + i] = code[i]
  <2>1. Follows(longer, stream, code, LinkOctets)
    BY Zenon, <1>1, <1>7, FollowsBehind
  <2>2. Len(stream) \in Nat
    OBVIOUS
  <2> HIDE DEF longer
  <2> QED BY Zenon, <2>1, <2>2 DEF Follows
<1> HIDE DEF longer
<1>10. \A k \in 0 .. n : start[k] \in Nat /\ start[k] <= Len(stream)
  <2> SUFFICES ASSUME NEW k \in 0 .. n PROVE start[k] \in Nat /\ start[k] <= Len(stream)
    OBVIOUS
  <2>1. k \in 0 .. n /\ n \in k .. n
    BY <1>2
  <2>2. start[k] <= start[n]
    BY Zenon, <1>1, <1>4, <2>1, LaidOrder
  <2> QED BY Zenon, <1>8, <2>2
<1>11. /\ next \in [0 .. n + 1 -> Nat] /\ next[n + 1] = last /\ last = Len(longer) /\ last \in Nat
       /\ \A k \in 0 .. n : next[k] = start[k]
  <2>1. last = Len(longer) /\ last \in Nat
    <3>1. last = Len(stream) + Len(code)
      BY Zenon, <1>8
    <3> HIDE DEF last
    <3> QED BY <1>7, <1>9, <3>1
  <2> HIDE DEF last
  <2>2. \A k \in 0 .. n + 1 : (k # n + 1 => k \in 0 .. n)
    BY <1>2
  <2>3. n + 1 \in 0 .. n + 1 /\ \A k \in 0 .. n : k # n + 1 /\ k \in 0 .. n + 1
    BY <1>2
  <2> QED BY Zenon, <1>8, <2>1, <2>2, <2>3
<1> HIDE DEF next, last
<1>12. ASSUME NEW k \in 1 .. n + 1
       PROVE  /\ next[k] = next[k - 1] + Len(K!Encode(kiss_sent'[k]))
              /\ \A i \in 1 .. Len(K!Encode(kiss_sent'[k])) :
                   longer[next[k - 1] + i] = K!Encode(kiss_sent'[k])[i]
  <2>1. CASE k = n + 1
    <3>1. k - 1 = n /\ n \in 0 .. n
      BY <1>2, <2>1
    <3>2. next[k] = start[n] + Len(code) /\ next[k - 1] = start[n] /\ start[n] = Len(stream)
      BY Zenon, <1>8, <1>11, <2>1, <3>1 DEF last
    <3>3. K!Encode(kiss_sent'[k]) = code
      BY Zenon, <1>3, <2>1 DEF code
    <3> QED BY Zenon, <1>9, <3>2, <3>3
  <2>2. CASE k # n + 1
    <3>1. k \in 1 .. n /\ k \in 0 .. n /\ k - 1 \in 0 .. n
      BY <1>2, <2>2
    <3> DEFINE c == K!Encode(kiss_sent[k])
               a == start[k - 1]
               b == start[k]
    <3>2. /\ next[k] = b /\ next[k - 1] = a /\ b = a + Len(c) /\ a \in Nat /\ b \in Nat /\ b <= Len(stream)
          /\ \A i \in 1 .. Len(c) : stream[a + i] = c[i]
      BY Zenon, <1>8, <1>10, <1>11, <3>1
    <3>3. K!Encode(kiss_sent'[k]) = c /\ Len(c) \in Nat
      <4>1. Enclosed(K!Encode(kiss_sent'[k]), kiss_sent'[k]) /\ kiss_sent'[k] = kiss_sent[k]
        BY Zenon, <1>3, <1>5, <3>1
      <4> QED BY Zenon, <4>1 DEF Enclosed
    <3> HIDE DEF a, b, c
    <3>4. ASSUME NEW i \in 1 .. Len(c) PROVE longer[a + i] = c[i]
      <4>1. a + i \in 1 .. Len(stream)
        BY <1>9, <3>2, <3>3
      <4> QED BY Zenon, <1>9, <3>2, <4>1
    <3> QED BY Zenon, <3>2, <3>3, <3>4
  <2> QED BY Zenon, <2>1, <2>2
<1>13. next \in Laid(longer, Encodes(kiss_sent'))
  <2> DEFINE codes == Encodes(kiss_sent')
  <2>1. \A k \in 1 .. n + 1 : codes[k] = K!Encode(kiss_sent'[k])
    BY Zenon, <1>5
  <2>2. Len(codes) = n + 1
    BY Zenon, <1>5
  <2>3. next[0] = 0
    <3>1. 0 \in 0 .. n
      BY <1>2
    <3> QED BY Zenon, <1>8, <1>11, <3>1
  <2>5. \A k \in 1 .. n + 1 : /\ next[k] = next[k - 1] + Len(codes[k])
                              /\ \A i \in 1 .. Len(codes[k]) : longer[next[k - 1] + i] = codes[k][i]
    <3> SUFFICES ASSUME NEW k \in 1 .. n + 1
                 PROVE  /\ next[k] = next[k - 1] + Len(codes[k])
                        /\ \A i \in 1 .. Len(codes[k]) : longer[next[k - 1] + i] = codes[k][i]
      OBVIOUS
    <3> HIDE DEF codes
    <3> QED BY Zenon, <1>12, <2>1
  <2> HIDE DEF codes
  <2>4. next \in Laid(longer, codes)
    BY Zenon, <1>11, <2>2, <2>3, <2>5 DEF Laid
  <2> QED BY Zenon, <2>4 DEF codes
<1>14. /\ h \in 0 .. Len(kiss_sent') /\ kiss_heard' = SubSeq(kiss_sent', 1, h)
       /\ p \in Nat /\ p <= Len(longer)
       /\ next[h] <= p /\ (h < Len(kiss_sent') => p < next[h + 1])
       /\ kiss_rx' = SubSeq(longer, next[h] + 1, p)
       /\ kiss_wire' = SubSeq(longer, p + 1, Len(longer))
  <2>1. /\ h \in 0 .. n /\ kiss_heard = SubSeq(kiss_sent, 1, h)
        /\ p \in Nat /\ p <= Len(stream)
        /\ start[h] <= p /\ (h < n => p < start[h + 1])
        /\ kiss_rx = SubSeq(stream, start[h] + 1, p)
        /\ kiss_wire = SubSeq(stream, p + 1, Len(stream))
    BY Zenon, <1>1 DEF Received, n
  <2>2. /\ h \in 0 .. n + 1 /\ h + 1 \in 1 .. n + 1 /\ h <= n /\ p <= Len(longer)
        /\ (h < n => h + 1 \in 0 .. n) /\ (~(h < n) => h + 1 = n + 1)
        /\ Len(stream) < Len(stream) + Len(code)
    BY <1>2, <1>7, <1>9, <2>1
  <2>3. next[h] = start[h] /\ start[h] \in Nat
    BY Zenon, <1>10, <1>11, <2>1
  <2>4. p < next[h + 1]
    <3>1. CASE h < n
      BY Zenon, <1>11, <2>1, <2>2, <3>1
    <3>2. CASE ~(h < n)
      <4>1. next[h + 1] = Len(stream) + Len(code)
        BY Zenon, <1>9, <1>11, <2>2, <3>2
      <4>2. p < Len(stream) + Len(code)
        BY <1>7, <1>9, <2>1
      <4> QED BY Zenon, <4>1, <4>2
    <3> QED BY <3>1, <3>2
  <2>5. /\ SubSeq(longer, start[h] + 1, p) = SubSeq(stream, start[h] + 1, p)
        /\ SubSeq(longer, p + 1, Len(longer)) = SubSeq(stream, p + 1, Len(stream)) \o code
    <3> DEFINE a == start[h]
    <3>1. a \in Nat /\ a <= p /\ p \in Nat /\ p <= Len(stream) /\ stream \in Seq(LinkOctets) /\ code \in Seq(LinkOctets)
      BY Zenon, <1>1, <1>7, <2>1, <2>3
    <3> HIDE DEF a
    <3>2. /\ SubSeq(stream \o code, a + 1, p) = SubSeq(stream, a + 1, p)
          /\ SubSeq(stream \o code, p + 1, Len(stream \o code)) = SubSeq(stream, p + 1, Len(stream)) \o code
      BY Zenon, <3>1, PartsGrow
    <3> QED BY Zenon, <3>2 DEF a, longer
  <2>6. kiss_heard' = SubSeq(kiss_sent', 1, h)
    BY Zenon, <1>2, <1>3, <2>1
  <2> QED BY Zenon, <1>2, <1>3, <2>1, <2>2, <2>3, <2>4, <2>5, <2>6
<1>15. TransmitInv'
  BY Zenon, <1>2, TransmitStays DEF LinkInv
<1> QED BY Zenon, <1>1, <1>3, <1>9, <1>13, <1>14, <1>15 DEF LinkInv, Received

(* The buffer has room for a piece, and what has been received of a frame.  *)
LEMMA LinkPolls ==
  ASSUME LinkInv, NEW m \in 1 .. Piece, K!Poll(m)
  PROVE  LinkInv'
<1>0. PICK stream \in Seq(LinkOctets) : \E start \in Laid(stream, Encodes(kiss_sent)) :
                                     \E p, h \in Nat : Received(stream, start, p, h)
  BY Zenon DEF LinkInv
<1>1. PICK start \in Laid(stream, Encodes(kiss_sent)), p \in Nat, h \in Nat :
        Received(stream, start, p, h)
  BY Zenon, <1>0
<1> DEFINE n == Len(kiss_sent)
           l == Len(stream)
           z == p + m
           u == start[h]
           octets == SubSeq(stream, u + 1, z)
<1>2. /\ kiss_sent \in Seq(KissFrames) /\ n \in Nat /\ kiss_sent' = kiss_sent
      /\ UNCHANGED <<kiss_queued, kiss_partial, kiss_aired>>
      /\ m <= Len(kiss_wire)
      /\ kiss_wire' = SubSeq(kiss_wire, m + 1, Len(kiss_wire))
      /\ kiss_heard' = kiss_heard \o K!Extracted(K!Shortened(kiss_rx, m) \o SubSeq(kiss_wire, 1, m)).frames
      /\ kiss_rx' = SubSeq(K!Shortened(kiss_rx, m) \o SubSeq(kiss_wire, 1, m),
                           K!Extracted(K!Shortened(kiss_rx, m) \o SubSeq(kiss_wire, 1, m)).rest,
                           Len(K!Shortened(kiss_rx, m) \o SubSeq(kiss_wire, 1, m)))
  BY DEF LinkInv, K!Poll
<1>3. /\ h \in 0 .. n /\ kiss_heard = SubSeq(kiss_sent, 1, h)
      /\ p <= l /\ u <= p /\ (h < n => p < start[h + 1])
      /\ kiss_rx = SubSeq(stream, u + 1, p)
      /\ kiss_wire = SubSeq(stream, p + 1, l)
  BY Zenon, <1>1 DEF Received
<1>4. l \in Nat /\ m \in Nat /\ m >= 1 /\ m <= Piece /\ Piece \in Nat /\ RxCapacity \in Nat
  BY LinkAssumption
<1>5. /\ Encodes(kiss_sent) \in Seq(Seq(LinkOctets)) /\ Len(Encodes(kiss_sent)) = n
      /\ \A k \in 1 .. n : /\ Encodes(kiss_sent)[k] = K!Encode(kiss_sent[k])
                           /\ Enclosed(K!Encode(kiss_sent[k]), kiss_sent[k])
  BY Zenon, <1>2, EncodesIs
<1>6. /\ start \in [0 .. n -> Nat] /\ start[n] = l
      /\ \A k \in 1 .. n : start[k] = start[k - 1] + Len(K!Encode(kiss_sent[k]))
  <2> DEFINE codes == Encodes(kiss_sent)
  <2>1. /\ start \in [0 .. n -> Nat] /\ start[n] = l
        /\ \A k \in 1 .. n : start[k] = start[k - 1] + Len(codes[k])
    BY Zenon, <1>5 DEF Laid
  <2>2. \A k \in 1 .. n : codes[k] = K!Encode(kiss_sent[k])
    BY Zenon, <1>5
  <2> HIDE DEF codes
  <2> QED BY Zenon, <2>1, <2>2
<1>7. u \in Nat
  BY Zenon, <1>3, <1>6
<1>8. Len(kiss_rx) + m <= RxCapacity
  <2>1. Len(kiss_rx) = p - u
    <3> HIDE DEF u
    <3> QED BY <1>3, <1>4, <1>7
  <2>2. CASE h < n
    <3>1. h + 1 \in 1 .. n /\ (h + 1) - 1 = h
      BY <1>2, <1>3, <2>2
    <3> DEFINE code == K!Encode(kiss_sent[h + 1])
    <3>2. start[h + 1] = u + Len(code) /\ Enclosed(code, kiss_sent[h + 1]) /\ p < start[h + 1]
      BY Zenon, <1>3, <1>5, <1>6, <2>2, <3>1
    <3>3. kiss_sent[h + 1] \in KissFrames
      BY <1>2, <3>1
    <3>4. Len(code) \in Nat /\ Len(code) <= 2 * Len(kiss_sent[h + 1]) + 3
      BY Zenon, <3>2 DEF Enclosed
    <3>5. 2 * Len(kiss_sent[h + 1]) + 3 + Piece <= RxCapacity /\ Len(kiss_sent[h + 1]) \in Nat
      BY <3>3, LinkAssumption
    <3>6. p < u + Len(code)
      BY Zenon, <3>2
    <3> DEFINE v == Len(kiss_sent[h + 1])
               w == Len(code)
               r == Len(kiss_rx)
    <3>7. /\ r = p - u /\ p < u + w /\ w \in Nat /\ w <= 2 * v + 3 /\ v \in Nat
          /\ 2 * v + 3 + Piece <= RxCapacity
      BY Zenon, <2>1, <3>4, <3>5, <3>6
    <3> HIDE DEF u, v, w, r
    <3>8. r + m <= RxCapacity
      BY <1>4, <1>7, <3>7
    <3> QED BY Zenon, <3>8 DEF r
  <2>3. CASE ~(h < n)
    <3>1. h = n
      BY <1>2, <1>3, <2>3
    <3>2. u = l
      BY Zenon, <1>6, <3>1
    <3>3. Len(kiss_wire) = l - p
      <4> HIDE DEF u, l
      <4>1. stream \in Seq(LinkOctets) /\ l = Len(stream)
        BY Zenon DEF l
      <4> QED BY <1>3, <1>4, <4>1
    <3> HIDE DEF u, l
    <3>4. FALSE
      BY <1>2, <1>3, <1>4, <1>7, <3>2, <3>3
    <3> QED BY Zenon, <3>4
  <2> QED BY Zenon, <2>2, <2>3
<1>9. K!Shortened(kiss_rx, m) = kiss_rx
  <2>1. ~(Len(kiss_rx) + m > RxCapacity)
    <3> DEFINE r == Len(kiss_rx)
    <3>1. r \in Nat
      <4> HIDE DEF u
      <4> QED BY <1>3, <1>4, <1>7
    <3>2. r + m <= RxCapacity
      BY Zenon, <1>8
    <3> HIDE DEF r
    <3>3. ~(r + m > RxCapacity)
      BY <1>4, <3>1, <3>2
    <3> QED BY Zenon, <3>3 DEF r
  <2> QED BY Zenon, <2>1 DEF K!Shortened
<1>10. z \in Nat /\ z <= l /\ p <= z /\ u <= z
  <2>1. Len(kiss_wire) = l - p
    <3>1. kiss_wire = SubSeq(stream, p + 1, Len(stream)) /\ p <= Len(stream)
      BY Zenon, <1>3
    <3> QED BY <3>1
  <2> HIDE DEF u, l
  <2> QED BY <1>2, <1>3, <1>4, <1>7, <2>1
<1>11. /\ SubSeq(kiss_wire, 1, m) = SubSeq(stream, p + 1, z)
       /\ SubSeq(kiss_wire, m + 1, Len(kiss_wire)) = SubSeq(stream, z + 1, l)
  <2>1. p \in Nat /\ z \in Nat /\ l \in Nat /\ p <= p /\ p <= z /\ z <= l /\ l <= Len(stream) /\ l <= l
    BY <1>3, <1>4, <1>10
  <2>2. /\ SubSeq(SubSeq(stream, p + 1, l), p - p + 1, z - p) = SubSeq(stream, p + 1, z)
        /\ SubSeq(SubSeq(stream, p + 1, l), z - p + 1, l - p) = SubSeq(stream, z + 1, l)
        /\ Len(SubSeq(stream, p + 1, l)) = l - p
    <3>1. Within(stream, p, p, z, l) /\ Within(stream, p, z, l, l)
      BY Zenon, <2>1, PartOfPart
    <3> QED BY Zenon, <3>1 DEF Within
  <2>3. p - p + 1 = 1 /\ z - p = m
    BY <1>4
  <2> HIDE DEF z, l
  <2> QED BY Zenon, <1>3, <2>2, <2>3
<1>12. kiss_rx \o SubSeq(kiss_wire, 1, m) = octets
  <2>1. SubSeq(stream, u + 1, p) \o SubSeq(stream, p + 1, z) = SubSeq(stream, u + 1, z)
    <3>1. u \in Nat /\ p \in Nat /\ z \in Nat /\ u <= p /\ p <= z /\ z <= Len(stream)
      BY Zenon, <1>3, <1>7, <1>10
    <3> HIDE DEF u, z
    <3> QED BY Zenon, <3>1, PartsJoined
  <2> QED BY Zenon, <1>3, <1>11, <2>1
<1>13. /\ kiss_wire' = SubSeq(stream, z + 1, l)
       /\ kiss_heard' = kiss_heard \o K!Extracted(octets).frames
       /\ kiss_rx' = SubSeq(octets, K!Extracted(octets).rest, Len(octets))
  BY Zenon, <1>2, <1>9, <1>11, <1>12
<1>14. PICK g \in h .. n :
         /\ start[g] <= z /\ (g < n => z < start[g + 1])
         /\ K!Extracted(octets) = [frames |-> SubSeq(kiss_sent, h + 1, g), rest |-> start[g] - u + 1]
  <2>1. start[h] <= z /\ z <= Len(stream)
    BY Zenon, <1>10
  <2> HIDE DEF z
  <2> QED BY Zenon, <1>2, <1>3, <1>10, <2>1, Extraction
<1> DEFINE w == start[g]
<1>15. w \in Nat /\ u <= w /\ w <= z /\ g \in 0 .. n /\ g \in Nat /\ h <= g /\ g <= n
  <2>1. g \in 0 .. n /\ g \in Nat /\ h <= g /\ g <= n
    BY <1>2, <1>3
  <2>2. h \in 0 .. Len(Encodes(kiss_sent)) /\ g \in h .. Len(Encodes(kiss_sent))
    BY Zenon, <1>3, <1>5
  <2>3. start[h] <= start[g]
    BY Zenon, <1>5, <2>2, LaidOrder
  <2> QED BY Zenon, <1>6, <1>14, <2>1, <2>3
<1>16. K!Extracted(octets).frames = SubSeq(kiss_sent, h + 1, g) /\ K!Extracted(octets).rest = w - u + 1
  <2> DEFINE x == SubSeq(kiss_sent, h + 1, g)
             y == w - u + 1
             e == K!Extracted(octets)
  <2>1. e = [frames |-> x, rest |-> y]
    BY Zenon, <1>14
  <2> HIDE DEF x, y, e
  <2>2. e.frames = x /\ e.rest = y
    BY <2>1
  <2> QED BY Zenon, <2>2 DEF x, y, e
<1>17. kiss_heard' = SubSeq(kiss_sent, 1, g)
  <2>1. SubSeq(kiss_sent, 0 + 1, h) \o SubSeq(kiss_sent, h + 1, g) = SubSeq(kiss_sent, 0 + 1, g)
    <3>1. 0 \in Nat /\ h \in Nat /\ g \in Nat /\ 0 <= h /\ h <= g /\ g <= Len(kiss_sent)
      BY <1>3, <1>15
    <3> QED BY Zenon, <1>2, <3>1, PartsJoined
  <2>2. 0 + 1 = 1
    OBVIOUS
  <2> QED BY Zenon, <1>3, <1>13, <1>16, <2>1, <2>2
<1>18. kiss_rx' = SubSeq(stream, w + 1, z)
  <2>1. /\ SubSeq(SubSeq(stream, u + 1, z), w - u + 1, z - u) = SubSeq(stream, w + 1, z)
        /\ Len(SubSeq(stream, u + 1, z)) = z - u
    <3>1. u \in Nat /\ w \in Nat /\ z \in Nat /\ u <= w /\ w <= z /\ z <= z /\ z <= Len(stream)
      <4>1. z <= z
        <5> HIDE DEF z
        <5> QED BY <1>10
      <4> QED BY Zenon, <1>7, <1>10, <1>15, <4>1
    <3> HIDE DEF u, w, z
    <3>2. Within(stream, u, w, z, z)
      BY Zenon, <3>1, PartOfPart
    <3> QED BY Zenon, <3>2 DEF Within
  <2> QED BY Zenon, <1>13, <1>16, <2>1
<1>19. TransmitInv'
  BY Zenon, <1>2, TransmitStays DEF LinkInv
<1>20. \E q, j \in Nat :
         /\ j \in 0 .. n /\ kiss_heard' = SubSeq(kiss_sent, 1, j)
         /\ q \in Nat /\ q <= l
         /\ start[j] <= q /\ (j < n => q < start[j + 1])
         /\ kiss_rx' = SubSeq(stream, start[j] + 1, q)
         /\ kiss_wire' = SubSeq(stream, q + 1, l)
  BY ZenonT(40), <1>10, <1>13, <1>14, <1>15, <1>17, <1>18
<1> QED BY Zenon, <1>1, <1>2, <1>19, <1>20 DEF LinkInv, Received

(* A frame of the engine is sent, whole or its beginning.                   *)
LEMMA LinkTransmits ==
  ASSUME LinkInv, NEW frame \in KissFrames, NEW n \in 1 .. Len(K!Encode(frame)),
         K!EngineSends(frame, n)
  PROVE  LinkInv'
<1>1. /\ kiss_sent' = kiss_sent /\ kiss_heard' = kiss_heard
      /\ kiss_wire' = kiss_wire /\ kiss_rx' = kiss_rx
  BY DEF K!EngineSends
<1>2. TransmitInv'
  BY Zenon, Transmits DEF LinkInv
<1> QED BY Zenon, <1>1, <1>2 DEF LinkInv, Received

(* No step of the link, and no step beside it, disturbs its invariant.      *)
LEMMA LinkStays == LinkInv /\ UNCHANGED kissVars => LinkInv'
<1> SUFFICES ASSUME LinkInv, UNCHANGED kissVars PROVE LinkInv'
  OBVIOUS
<1>1. TransmitInv'
  BY Zenon, TransmitStays DEF LinkInv, kissVars
<1> QED BY Zenon, <1>1 DEF LinkInv, Received, kissVars

(* Every step of the link keeps the invariant.                            *)
LEMMA LinkNext == LinkInv /\ K!Next => LinkInv'
<1> SUFFICES ASSUME LinkInv, K!Next PROVE LinkInv'
  OBVIOUS
<1>1. ASSUME NEW frame \in KissFrames, K!TncSends(frame) PROVE LinkInv'
  BY Zenon, <1>1, LinkSends
<1>2. ASSUME NEW m \in 1 .. Piece, K!Poll(m) PROVE LinkInv'
  BY Zenon, <1>2, LinkPolls
<1>3. CASE K!PollClosed
  <2>1. TransmitInv'
    BY Zenon, <1>3, TransmitStays DEF K!PollClosed, LinkInv
  <2> QED BY Zenon, <1>3, <2>1 DEF K!PollClosed, LinkInv, Received
<1>4. ASSUME NEW frame \in KissFrames, NEW n \in 1 .. Len(K!Encode(frame)), K!EngineSends(frame, n)
      PROVE  LinkInv'
  BY Zenon, <1>4, LinkTransmits
<1> QED BY Zenon, <1>1, <1>2, <1>3, <1>4 DEF K!Next

(* Then what was handed on is a part of what was sent, and all of it when   *)
(* nothing is on its way.                                                   *)
LEMMA LinkTrue == LinkInv => K!LinkFaithful
<1> SUFFICES ASSUME LinkInv PROVE K!LinkFaithful
  OBVIOUS
<1>0. PICK stream \in Seq(LinkOctets) : \E start \in Laid(stream, Encodes(kiss_sent)) :
                                     \E p, h \in Nat : Received(stream, start, p, h)
  BY Zenon DEF LinkInv
<1>1. PICK start \in Laid(stream, Encodes(kiss_sent)), p \in Nat, h \in Nat :
        Received(stream, start, p, h)
  BY Zenon, <1>0
<1> DEFINE n == Len(kiss_sent)
           l == Len(stream)
<1>2. /\ kiss_sent \in Seq(KissFrames) /\ n \in Nat /\ l \in Nat
      /\ h \in 0 .. n /\ kiss_heard = SubSeq(kiss_sent, 1, h)
      /\ p <= l /\ (h < n => p < start[h + 1])
      /\ kiss_wire = SubSeq(stream, p + 1, l)
  <2>1. kiss_sent \in Seq(KissFrames) /\ n \in Nat /\ l \in Nat
    BY DEF LinkInv
  <2> QED BY Zenon, <1>1, <2>1 DEF Received
<1>3. K!IsPrefix(kiss_heard, kiss_sent)
  <2>1. Len(kiss_heard) = h /\ h <= n /\ SubSeq(kiss_heard, 1, h) = kiss_heard
    BY <1>2
  <2> QED BY Zenon, <1>2, <2>1 DEF K!IsPrefix
<1>4. kiss_wire = <<>> => kiss_heard = kiss_sent
  <2> SUFFICES ASSUME kiss_wire = <<>> PROVE kiss_heard = kiss_sent
    OBVIOUS
  <2>1. p = l
    <3>1. SubSeq(stream, p + 1, l) = <<>> /\ p <= l /\ l <= Len(stream) /\ l \in Nat
      BY <1>2
    <3> HIDE DEF l
    <3>2. Len(SubSeq(stream, p + 1, l)) = l - p /\ Len(SubSeq(stream, p + 1, l)) = 0
      BY <3>1
    <3> QED BY <3>1, <3>2
  <2>2. h = n
    <3> SUFFICES ASSUME h # n PROVE FALSE
      OBVIOUS
    <3>1. h < n /\ h + 1 \in 0 .. n /\ n \in h + 1 .. n
      BY <1>2
    <3>2. Encodes(kiss_sent) \in Seq(Seq(LinkOctets)) /\ Len(Encodes(kiss_sent)) = n
      BY Zenon, <1>2, EncodesIs
    <3>3. start[h + 1] <= start[n]
      BY Zenon, <3>1, <3>2, LaidOrder
    <3>4. start[n] = l /\ start \in [0 .. n -> Nat]
      BY Zenon, <3>2 DEF Laid
    <3> DEFINE u == start[h + 1]
    <3>5. u \in Nat /\ u <= l /\ l < u
      BY Zenon, <1>2, <2>1, <3>1, <3>3, <3>4
    <3> HIDE DEF u, l
    <3> QED BY <1>2, <3>5
  <2> QED BY <1>2, <2>2
<1>5. K!CutSpoilsNoOther
  <2>1. TransmitInv
    BY Zenon DEF LinkInv
  <2>2. DOMAIN kiss_queued = 1 .. Len(kiss_queued) /\ DOMAIN kiss_aired = 1 .. Len(kiss_aired)
    BY <2>1 DEF TransmitInv, AiredOf
  <2> QED BY Zenon, <2>1, <2>2 DEF TransmitInv, AiredOf, K!CutSpoilsNoOther
<1> QED BY Zenon, <1>3, <1>4, <1>5 DEF K!LinkFaithful, K!HeardWhole
-----------------------------------------------------------------------------
(* The scheduler of the old program, which may interrupt the application at *)
(* every step of spi_request_handler.  First the frames: no page is written *)
(* with another frame than its own, and the frames of the modem are         *)
(* processed in their order.  Then the requests: what the handler wrote or  *)
(* read is what was asked for, or the request was overtaken.                *)
RepeatEntry == [flag : 0 .. 2, age : {"old", "fresh", "future"}, frame : 0 .. ModemFrames]

(* The buffers hold frames that were numbered, the queue frames with pages. *)
Buffers ==
  /\ tc_arrived \in 0 .. ModemFrames
  /\ {tc_modem, tc_tcpbuf, tc_lbuf, tc_buffer, tc_bufRq, tc_newest} \subseteq 0 .. tc_arrived
  /\ tc_flash \in [S!Frame -> 0 .. ModemFrames]
  /\ tc_rpque \in [1 .. RepeatSlots -> RepeatEntry]
  /\ \A i \in 1 .. RepeatSlots : tc_rpque[i].flag = 1 => tc_rpque[i].frame \in S!Frame

(* A frame on its way into the flash keeps the scheduler from the buffers   *)
(* until the handler has written it.                                        *)
Guarded ==
  /\ tc_bufRq # 0 => /\ tc_spirequest /\ tc_buffer = tc_bufRq
                     /\ tc_app \in {"loop", "spin", "buffer", "bufclear"}
  /\ tc_app = "bufclear" => tc_bufRq # 0 /\ tc_flash[tc_bufRq] = tc_bufRq
  /\ tc_app \notin {"loop", "spin"} => tc_spirequest

(* The scheduler comes to the modem with lbuf empty, or not at all.         *)
EmptyFirst == tc_stage = "modem" => tc_lbuf = 0 \/ ~S!Idle

FramesInv == Buffers /\ Guarded /\ EmptyFirst /\ S!PagesHold /\ S!InOrder

(* A scan that has something to find stops at the lowest. *)
LEMMA SchedulerFirst ==
  ASSUME NEW X \in SUBSET Nat, X # {}
  PROVE  S!First(X) \in X
BY LeastNatural DEF S!First

(* The invariant holds when the program starts (globals_initialize). *)
LEMMA FramesInit == S!Init => FramesInv
<1> SUFFICES ASSUME S!Init PROVE FramesInv
  OBVIOUS
<1>1. S!FreeSlot \in RepeatEntry /\ S!FreeSlot.flag = 0
  BY SchedulerAssumption DEF S!FreeSlot, RepeatEntry
<1>2. Buffers
  BY SchedulerAssumption, <1>1 DEF S!Init, Buffers, S!Frame
<1>3. Guarded /\ EmptyFirst
  BY DEF S!Init, Guarded, EmptyFirst
<1>4. S!PagesHold
  BY <1>1 DEF S!Init, S!PagesHold
<1>5. S!InOrder
  BY DEF S!Init, S!InOrder
<1> QED BY <1>2, <1>3, <1>4, <1>5 DEF FramesInv

(* A frame offered to the queue takes one slot, the others stay.            *)
LEMMA OfferedOnce ==
  ASSUME Buffers, NEW f \in S!Frame
  PROVE  /\ S!Offered(f) \in [1 .. RepeatSlots -> RepeatEntry]
         /\ \A i \in 1 .. RepeatSlots : S!Offered(f)[i] = tc_rpque[i] \/ S!Offered(f)[i].frame = f
<1>1. tc_rpque \in [1 .. RepeatSlots -> RepeatEntry] /\ DOMAIN tc_rpque = 1 .. RepeatSlots
  BY DEF Buffers
<1>2. CASE S!Reusable = {}
  BY <1>1, <1>2 DEF S!Offered
<1>3. CASE S!Reusable # {}
  <2> DEFINE at == S!First(S!Reusable)
             new == [flag |-> 1, age |-> IF Delayed THEN "future" ELSE "fresh", frame |-> f]
  <2>1. S!Reusable \in SUBSET Nat /\ S!Reusable \subseteq 1 .. RepeatSlots
    BY SchedulerAssumption, <1>1 DEF S!Reusable
  <2>2. at \in 1 .. RepeatSlots
    BY <1>3, <2>1, SchedulerFirst
  <2>3. new \in RepeatEntry /\ new.frame = f
    BY SchedulerAssumption DEF RepeatEntry, S!Frame
  <2>4. S!Offered(f) = [tc_rpque EXCEPT ![at] = new]
    BY <1>3 DEF S!Offered
  <2> HIDE DEF at, new
  <2> QED BY <1>1, <2>2, <2>3, <2>4
<1> QED BY <1>2, <1>3

(* The scheduler processes a frame only when nothing waits to be written:   *)
(* what enters the repeat queue is the frame that will be.                  *)
LEMMA UpdateKeeps ==
  ASSUME FramesInv, S!Idle, NEW f \in S!Frame, NEW outcome \in S!Outcomes, S!Update(f, outcome)
  PROVE  /\ tc_rpque' \in [1 .. RepeatSlots -> RepeatEntry]
         /\ \A i \in 1 .. RepeatSlots : tc_rpque'[i].flag = 1 => tc_rpque'[i].frame \in S!Frame
         /\ tc_flash' = tc_flash /\ tc_buffer' = f /\ tc_bufRq' \in {0, f}
         /\ Guarded' /\ S!PagesHold'
<1>1. /\ ~tc_spirequest /\ tc_bufRq = 0 /\ tc_app \in {"loop", "spin"}
      /\ tc_rpque \in [1 .. RepeatSlots -> RepeatEntry]
      /\ \A i \in 1 .. RepeatSlots : tc_rpque[i].flag = 1 => tc_rpque[i].frame \in S!Frame
  BY DEF S!Idle, FramesInv, Guarded, Buffers
<1>2. /\ tc_buffer' = f /\ tc_flash' = tc_flash /\ tc_app' = tc_app
      /\ tc_rpque' = IF outcome = "repeat" THEN S!Offered(f) ELSE tc_rpque
      /\ tc_bufRq' = IF outcome = "heard" THEN tc_bufRq ELSE f
      /\ tc_spirequest' = (tc_spirequest \/ outcome # "heard")
  BY DEF S!Update, S!pageVars
<1>3. /\ S!Offered(f) \in [1 .. RepeatSlots -> RepeatEntry]
      /\ \A i \in 1 .. RepeatSlots : S!Offered(f)[i] = tc_rpque[i] \/ S!Offered(f)[i].frame = f
  BY OfferedOnce DEF FramesInv
<1>4. /\ tc_rpque' \in [1 .. RepeatSlots -> RepeatEntry]
      /\ \A i \in 1 .. RepeatSlots :
           tc_rpque'[i] = tc_rpque[i] \/ (outcome = "repeat" /\ tc_rpque'[i].frame = f)
  BY <1>1, <1>2, <1>3
<1>5. \A i \in 1 .. RepeatSlots : tc_rpque'[i].flag = 1 => tc_rpque'[i].frame \in S!Frame
  BY <1>1, <1>4
<1>6. outcome # "heard" => tc_spirequest'
  BY <1>2
<1>7. Guarded'
  BY <1>1, <1>2, <1>6 DEF Guarded
<1>8. S!PagesHold'
  <2> SUFFICES ASSUME NEW i \in 1 .. RepeatSlots, tc_rpque'[i].flag = 1
               PROVE  \/ tc_flash'[tc_rpque'[i].frame] = tc_rpque'[i].frame
                      \/ tc_bufRq' = tc_rpque'[i].frame /\ tc_buffer' = tc_rpque'[i].frame
    BY <1>4 DEF S!PagesHold
  <2>1. CASE tc_rpque'[i] = tc_rpque[i]
    <3>1. tc_rpque[i].frame # 0 /\ i \in DOMAIN tc_rpque
      BY <1>1, <2>1 DEF S!Frame
    <3>2. tc_flash[tc_rpque[i].frame] = tc_rpque[i].frame
      BY <1>1, <2>1, <3>1 DEF FramesInv, S!PagesHold
    <3> QED BY <1>2, <2>1, <3>2
  <2>2. CASE outcome = "repeat" /\ tc_rpque'[i].frame = f
    BY <1>2, <2>2
  <2> QED BY <1>4, <2>1, <2>2
<1> QED BY <1>1, <1>2, <1>4, <1>5, <1>7, <1>8

(* it_packet numbers the frame it finds, or leaves the buffers alone.       *)
LEMMA UnpackKeeps ==
  ASSUME Buffers, NEW outcome, S!Unpack(outcome)
  PROVE  tc_arrived' \in 0 .. ModemFrames /\ tc_arrived <= tc_arrived' /\ tc_tcpbuf' \in 0 .. tc_arrived'
<1>1. tc_arrived \in 0 .. ModemFrames /\ tc_tcpbuf \in 0 .. tc_arrived /\ ModemFrames \in Nat
  BY SchedulerAssumption DEF Buffers
<1>2. CASE outcome = "thirdparty"
  BY <1>1, <1>2 DEF S!Unpack
<1>3. CASE outcome # "thirdparty"
  BY <1>1, <1>3 DEF S!Unpack
<1> QED BY <1>2, <1>3

(* A frame in a buffer has a number, and with it a page.                    *)
LEMMA Numbered ==
  ASSUME Buffers, NEW f \in 1 .. tc_arrived
  PROVE  f \in S!Frame
BY SchedulerAssumption DEF Buffers, S!Frame

(* A frame taken out of another one is processed. *)
LEMMA FromTcpKeeps ==
  ASSUME FramesInv, NEW outcome \in S!Outcomes, S!FromTcp(outcome)
  PROVE  FramesInv'
<1>1. /\ S!Update(tc_tcpbuf, outcome) /\ S!Idle /\ tc_tcpbuf # 0 /\ tc_tcpbuf' = 0 /\ tc_stage' = "lbuf"
      /\ UNCHANGED <<tc_arrived, tc_modem, tc_lbuf, tc_newest>>
  BY DEF S!FromTcp
<1>2. Buffers /\ S!InOrder /\ tc_tcpbuf \in 1 .. tc_arrived /\ tc_tcpbuf \in S!Frame
  <2>1. tc_tcpbuf \in 1 .. tc_arrived
    BY SchedulerAssumption, <1>1 DEF FramesInv, Buffers
  <2> QED BY <2>1, Numbered DEF FramesInv
<1>3. /\ tc_rpque' \in [1 .. RepeatSlots -> RepeatEntry]
      /\ \A i \in 1 .. RepeatSlots : tc_rpque'[i].flag = 1 => tc_rpque'[i].frame \in S!Frame
      /\ tc_flash' = tc_flash /\ tc_buffer' = tc_tcpbuf /\ tc_bufRq' \in {0, tc_tcpbuf}
      /\ Guarded' /\ S!PagesHold'
  BY <1>1, <1>2, UpdateKeeps
<1>4. Buffers'
  BY SchedulerAssumption, <1>1, <1>2, <1>3 DEF Buffers
<1>5. S!InOrder' /\ EmptyFirst'
  BY <1>1, <1>2 DEF S!InOrder, EmptyFirst
<1> QED BY <1>3, <1>4, <1>5 DEF FramesInv

(* The frame that waited in lbuf is processed. *)
LEMMA FromLbufKeeps ==
  ASSUME FramesInv, NEW outcome \in S!Outcomes, S!FromLbuf(outcome)
  PROVE  FramesInv'
<1>1. /\ S!Update(tc_lbuf, outcome) /\ S!Idle /\ tc_lbuf # 0 /\ tc_lbuf' = 0 /\ tc_newest' = tc_lbuf
      /\ tc_stage' = "modem" /\ S!Unpack(outcome) /\ tc_modem' = tc_modem
  BY DEF S!FromLbuf
<1>2. Buffers /\ S!InOrder /\ tc_lbuf \in 1 .. tc_arrived /\ tc_lbuf \in S!Frame
  <2>1. tc_lbuf \in 1 .. tc_arrived
    BY SchedulerAssumption, <1>1 DEF FramesInv, Buffers
  <2> QED BY <2>1, Numbered DEF FramesInv
<1>3. /\ tc_rpque' \in [1 .. RepeatSlots -> RepeatEntry]
      /\ \A i \in 1 .. RepeatSlots : tc_rpque'[i].flag = 1 => tc_rpque'[i].frame \in S!Frame
      /\ tc_flash' = tc_flash /\ tc_buffer' = tc_lbuf /\ tc_bufRq' \in {0, tc_lbuf}
      /\ Guarded' /\ S!PagesHold'
  BY <1>1, <1>2, UpdateKeeps
<1>4. tc_arrived' \in 0 .. ModemFrames /\ tc_arrived <= tc_arrived' /\ tc_tcpbuf' \in 0 .. tc_arrived'
  BY <1>1, <1>2, UnpackKeeps
<1>5. Buffers'
  BY SchedulerAssumption, <1>1, <1>2, <1>3, <1>4 DEF Buffers
<1>6. S!InOrder'
  BY SchedulerAssumption, <1>1, <1>2 DEF S!InOrder, Buffers
<1>7. EmptyFirst'
  BY <1>1 DEF EmptyFirst
<1> QED BY <1>3, <1>5, <1>6, <1>7 DEF FramesInv

(* A new frame of the modem is processed. *)
LEMMA FromModemKeeps ==
  ASSUME FramesInv, NEW outcome \in S!Outcomes, S!FromModem(outcome)
  PROVE  FramesInv'
<1>1. /\ S!Update(tc_modem, outcome) /\ S!Idle /\ tc_modem # 0 /\ tc_modem' = 0 /\ tc_newest' = tc_modem
      /\ tc_stage = "modem" /\ tc_stage' = "off" /\ S!Unpack(outcome) /\ tc_lbuf' = tc_lbuf
  BY DEF S!FromModem
<1>2. Buffers /\ tc_modem \in 1 .. tc_arrived /\ tc_modem \in S!Frame
  <2>1. tc_modem \in 1 .. tc_arrived
    BY SchedulerAssumption, <1>1 DEF FramesInv, Buffers
  <2> QED BY <2>1, Numbered DEF FramesInv
<1>3. /\ tc_rpque' \in [1 .. RepeatSlots -> RepeatEntry]
      /\ \A i \in 1 .. RepeatSlots : tc_rpque'[i].flag = 1 => tc_rpque'[i].frame \in S!Frame
      /\ tc_flash' = tc_flash /\ tc_buffer' = tc_modem /\ tc_bufRq' \in {0, tc_modem}
      /\ Guarded' /\ S!PagesHold'
  BY <1>1, <1>2, UpdateKeeps
<1>4. tc_arrived' \in 0 .. ModemFrames /\ tc_arrived <= tc_arrived' /\ tc_tcpbuf' \in 0 .. tc_arrived'
  BY <1>1, <1>2, UnpackKeeps
<1>5. Buffers'
  BY SchedulerAssumption, <1>1, <1>2, <1>3, <1>4 DEF Buffers
<1>6. tc_lbuf = 0
  BY <1>1 DEF FramesInv, EmptyFirst
<1>7. S!InOrder' /\ EmptyFirst'
  BY <1>1, <1>6 DEF S!InOrder, EmptyFirst
<1> QED BY <1>3, <1>5, <1>7 DEF FramesInv

-----------------------------------------------------------------------------
(* The other steps of tc1: they touch no received frame, but for ToLbuf,    *)
(* and only do_repeat the queue.                                            *)
HandlerVars == <<tc_bufRq, tc_buffer, tc_flash, tc_app>>

(* What a step that moves no frame has to show. *)
LEMMA FramesStay ==
  ASSUME FramesInv, UNCHANGED <<HandlerVars, S!rxVars>>, tc_spirequest => tc_spirequest',
         tc_rpque' \in [1 .. RepeatSlots -> RepeatEntry],
         \A i \in 1 .. RepeatSlots :
           tc_rpque'[i].flag = 1 => tc_rpque[i].flag = 1 /\ tc_rpque'[i].frame = tc_rpque[i].frame
  PROVE  Buffers' /\ Guarded' /\ S!PagesHold' /\ S!InOrder'
<1>1. UNCHANGED <<tc_bufRq, tc_buffer, tc_flash, tc_app, tc_arrived, tc_modem, tc_tcpbuf, tc_lbuf, tc_newest>>
  BY DEF HandlerVars, S!rxVars
<1>2. DOMAIN tc_rpque' = 1 .. RepeatSlots /\ DOMAIN tc_rpque = 1 .. RepeatSlots
  BY DEF FramesInv, Buffers
<1>3. Buffers'
  BY <1>1 DEF FramesInv, Buffers
<1>4. Guarded'
  BY <1>1 DEF FramesInv, Guarded
<1>5. S!PagesHold'
  BY <1>1, <1>2 DEF FramesInv, S!PagesHold
<1>6. S!InOrder'
  BY <1>1 DEF FramesInv, S!InOrder
<1> QED BY <1>3, <1>4, <1>5, <1>6

(* Steps that leave requests and received frames alone. *)
LEMMA SkipKeeps == FramesInv /\ (S!SkipBuffers \/ S!SendQueued \/ S!GetInjected) => FramesInv'
<1> SUFFICES ASSUME FramesInv, S!SkipBuffers \/ S!SendQueued \/ S!GetInjected PROVE FramesInv'
  OBVIOUS
<1>1. UNCHANGED <<HandlerVars, S!rxVars, tc_rpque, tc_spirequest, tc_aprs_data_flag>>
  BY DEF S!SkipBuffers, S!SendQueued, S!GetInjected, HandlerVars, S!rxVars, S!rqVars, S!pageVars
<1>2. Buffers' /\ Guarded' /\ S!PagesHold' /\ S!InOrder'
  <2>1. tc_rpque \in [1 .. RepeatSlots -> RepeatEntry]
    BY DEF FramesInv, Buffers
  <2> QED BY <1>1, <2>1, FramesStay
<1>3. EmptyFirst'
  <2>1. CASE S!SkipBuffers
    <3>1. tc_stage' = "lbuf" \/ (tc_stage' = "modem" /\ ~(tc_lbuf # 0 /\ S!Idle))
      BY <2>1 DEF S!SkipBuffers
    <3>2. tc_lbuf' = tc_lbuf /\ (S!Idle' <=> S!Idle)
      BY <1>1 DEF S!rxVars, S!Idle
    <3> QED BY <3>1, <3>2 DEF EmptyFirst
  <2>2. CASE S!SendQueued
    BY <2>2 DEF S!SendQueued, EmptyFirst
  <2>3. CASE S!GetInjected
    BY <2>3 DEF S!GetInjected, EmptyFirst
  <2> QED BY <2>1, <2>2, <2>3
<1> QED BY <1>2, <1>3 DEF FramesInv

(* A frame is put aside while the application is busy. *)
LEMMA ToLbufKeeps == FramesInv /\ S!ToLbuf => FramesInv'
<1> SUFFICES ASSUME FramesInv, S!ToLbuf PROVE FramesInv'
  OBVIOUS
<1>1. /\ UNCHANGED <<tc_app, tc_arrived, tc_tcpbuf, tc_buffer, tc_newest, tc_spirequest, tc_bufRq, tc_flash, tc_rpque>>
      /\ tc_stage' = "off" /\ tc_modem # 0
      /\ \/ tc_lbuf = 0 /\ tc_lbuf' = tc_modem /\ tc_modem' = 0
         \/ UNCHANGED <<tc_lbuf, tc_modem>>
  BY DEF S!ToLbuf, S!rqVars, S!pageVars
<1>2. Buffers' /\ Guarded' /\ S!PagesHold'
  BY SchedulerAssumption, <1>1 DEF FramesInv, Buffers, Guarded, S!PagesHold
<1>3. S!InOrder' /\ EmptyFirst'
  BY <1>1 DEF FramesInv, S!InOrder, EmptyFirst
<1> QED BY <1>2, <1>3 DEF FramesInv

(* Beacons and messages ask for pages of their own. *)
LEMMA BeaconKeeps == FramesInv /\ (S!Beacon \/ S!SendMessage) => FramesInv'
<1> SUFFICES ASSUME FramesInv, S!Beacon \/ S!SendMessage PROVE FramesInv'
  OBVIOUS
<1>1. UNCHANGED <<HandlerVars, S!rxVars, tc_rpque>>
  BY DEF S!Beacon, S!SendMessage, S!TransmitMessage, S!AskForMessage, HandlerVars, S!rxVars
<1>2. tc_spirequest => tc_spirequest'
  BY Zenon DEF S!Beacon, S!SendMessage, S!TransmitMessage, S!AskForMessage
<1>3. Buffers' /\ Guarded' /\ S!PagesHold' /\ S!InOrder'
  <2>1. tc_rpque \in [1 .. RepeatSlots -> RepeatEntry]
    BY DEF FramesInv, Buffers
  <2> QED BY <1>1, <1>2, <2>1, FramesStay
<1>4. EmptyFirst'
  BY DEF S!Beacon, S!SendMessage, EmptyFirst
<1> QED BY <1>3, <1>4 DEF FramesInv

(* An entry of the repeat queue is marked, or its page asked for. *)
LEMMA RepeatKeeps == FramesInv /\ S!Repeat => FramesInv'
<1> SUFFICES ASSUME FramesInv, S!Repeat PROVE FramesInv'
  OBVIOUS
<1>1. UNCHANGED <<HandlerVars, S!rxVars>>
  BY DEF S!Repeat, HandlerVars, S!rxVars
<1>2. tc_spirequest => tc_spirequest'
  BY Zenon DEF S!Repeat, S!DoRepeat, S!AskForRepeat
<1>3. tc_rpque \in [1 .. RepeatSlots -> RepeatEntry]
  BY DEF FramesInv, Buffers
<1>4. \/ tc_rpque' = tc_rpque
      \/ S!Requested # {} /\ tc_rpque' = [tc_rpque EXCEPT ![S!First(S!Requested)].flag = 2]
  BY DEF S!Repeat, S!DoRepeat, S!AskForRepeat
<1>5. S!Requested # {} => S!First(S!Requested) \in 1 .. RepeatSlots
  <2>1. S!Requested \in SUBSET Nat /\ S!Requested \subseteq 1 .. RepeatSlots
    BY SchedulerAssumption, <1>3 DEF S!Requested
  <2> QED BY <2>1, SchedulerFirst
<1>6. /\ tc_rpque' \in [1 .. RepeatSlots -> RepeatEntry]
      /\ \A i \in 1 .. RepeatSlots :
           tc_rpque'[i].flag = 1 => tc_rpque[i].flag = 1 /\ tc_rpque'[i].frame = tc_rpque[i].frame
  <2>1. CASE tc_rpque' = tc_rpque
    BY <1>3, <2>1
  <2>2. CASE S!Requested # {} /\ tc_rpque' = [tc_rpque EXCEPT ![S!First(S!Requested)].flag = 2]
    <3> DEFINE at == S!First(S!Requested)
               done == [tc_rpque[at] EXCEPT !.flag = 2]
    <3>1. at \in 1 .. RepeatSlots
      BY <1>5, <2>2
    <3>2. tc_rpque[at] \in RepeatEntry
      BY <1>3, <3>1
    <3>3. done \in RepeatEntry /\ done.flag = 2
      BY <3>2 DEF RepeatEntry
    <3>4. tc_rpque' = [tc_rpque EXCEPT ![at] = done]
      BY <2>2
    <3> HIDE DEF at, done
    <3>5. \A i \in 1 .. RepeatSlots : tc_rpque'[i] = IF i = at THEN done ELSE tc_rpque[i]
      BY <1>3, <3>4
    <3>6. tc_rpque' \in [1 .. RepeatSlots -> RepeatEntry]
      BY <1>3, <3>1, <3>3, <3>4
    <3> QED BY <3>3, <3>5, <3>6
  <2> QED BY <1>4, <2>1, <2>2
<1>7. Buffers' /\ Guarded' /\ S!PagesHold' /\ S!InOrder'
  BY <1>1, <1>2, <1>6, FramesStay
<1>8. EmptyFirst'
  BY DEF S!Repeat, EmptyFirst
<1> QED BY <1>7, <1>8 DEF FramesInv

-----------------------------------------------------------------------------
(* The application's own steps. *)
LEMMA HandlerKeeps == FramesInv /\ S!Handler => FramesInv'
<1> SUFFICES ASSUME FramesInv, S!Handler PROVE FramesInv'
  OBVIOUS
<1>1. UNCHANGED <<tc_arrived, tc_modem, tc_tcpbuf, tc_lbuf, tc_buffer, tc_newest, tc_rpque, tc_stage>> /\ tc_stage = "off"
  BY DEF S!Handler, S!rxVars
<1>2. S!InOrder' /\ EmptyFirst'
  BY <1>1 DEF FramesInv, S!InOrder, EmptyFirst
<1>3. CASE S!WriteBuffer
  <2>1. /\ tc_flash' = IF tc_bufRq # 0 THEN [tc_flash EXCEPT ![tc_bufRq] = tc_buffer] ELSE tc_flash
        /\ tc_app = "buffer" /\ tc_app' = IF tc_bufRq # 0 THEN "bufclear" ELSE "txbuf"
        /\ tc_bufRq' = tc_bufRq /\ tc_spirequest' = tc_spirequest
    BY <1>3 DEF S!WriteBuffer, S!rqVars
  <2>2. tc_bufRq # 0 => tc_buffer = tc_bufRq /\ tc_bufRq \in S!Frame
    <3>1. tc_bufRq # 0 => tc_bufRq \in 1 .. tc_arrived
      BY SchedulerAssumption DEF FramesInv, Buffers
    <3> QED BY <3>1, Numbered DEF FramesInv, Guarded
  <2>3. tc_flash \in [S!Frame -> 0 .. ModemFrames] /\ S!Frame \subseteq 0 .. ModemFrames
    BY SchedulerAssumption DEF FramesInv, Buffers, S!Frame
  <2>4. tc_flash' \in [S!Frame -> 0 .. ModemFrames] /\ (tc_bufRq # 0 => tc_flash'[tc_bufRq] = tc_bufRq)
    BY <2>1, <2>2, <2>3
  <2>5. Buffers'
    BY SchedulerAssumption, <1>1, <2>1, <2>4 DEF FramesInv, Buffers
  <2>6. Guarded'
    BY <1>1, <2>1, <2>4 DEF FramesInv, Guarded
  <2>7. ASSUME NEW i \in DOMAIN tc_rpque, tc_rpque[i].flag = 1
        PROVE  tc_flash'[tc_rpque[i].frame] = tc_rpque[i].frame
    <3>1. tc_rpque[i].frame \in S!Frame
      BY <2>7 DEF FramesInv, Buffers
    <3>2. \/ tc_flash[tc_rpque[i].frame] = tc_rpque[i].frame
          \/ tc_bufRq = tc_rpque[i].frame /\ tc_buffer = tc_rpque[i].frame
      BY <2>7 DEF FramesInv, S!PagesHold
    <3> QED BY <2>1, <2>2, <2>3, <3>1, <3>2 DEF S!Frame
  <2>8. S!PagesHold'
    BY <1>1, <2>7 DEF S!PagesHold
  <2> QED BY <1>2, <2>5, <2>6, <2>8 DEF FramesInv
<1>4. CASE S!ClearBuffer
  <2>1. /\ tc_app = "bufclear" /\ tc_app' = "txbuf" /\ tc_bufRq' = 0
        /\ UNCHANGED <<tc_flash, tc_spirequest>>
    BY <1>4 DEF S!ClearBuffer, S!pageVars
  <2>2. tc_flash[tc_bufRq] = tc_bufRq
    BY <2>1 DEF FramesInv, Guarded
  <2>3. Guarded'
    BY <2>1 DEF FramesInv, Guarded
  <2>4. Buffers' /\ S!PagesHold'
    BY SchedulerAssumption, <1>1, <2>1, <2>2 DEF FramesInv, Buffers, S!PagesHold
  <2> QED BY <1>2, <2>3, <2>4 DEF FramesInv
<1>5. CASE S!LeaveHandler
  <2>1. tc_app = "end" /\ tc_app' = "loop" /\ UNCHANGED <<tc_flash, tc_bufRq>>
    BY <1>5 DEF S!LeaveHandler, S!rqVars, S!pageVars
  <2>2. tc_bufRq = 0
    BY <2>1 DEF FramesInv, Guarded
  <2>3. Guarded'
    BY <2>1, <2>2 DEF Guarded
  <2>4. Buffers' /\ S!PagesHold'
    BY <1>1, <2>1 DEF FramesInv, Buffers, S!PagesHold
  <2> QED BY <1>2, <2>3, <2>4 DEF FramesInv
<1>6. CASE S!EnterHandler \/ S!WriteTxbuf \/ S!ClearTxbuf \/ S!ReadRpbuf \/ S!MarkRpbuf \/ S!ReadMsbuf \/ S!MarkMsbuf
  <2>1. /\ UNCHANGED <<tc_flash, tc_bufRq, tc_spirequest>>
        /\ \/ tc_app = "loop" /\ tc_spirequest /\ tc_app' = "buffer"
           \/ tc_app \notin {"loop", "spin", "buffer", "bufclear"} /\ tc_app' # "bufclear"
    BY <1>6 DEF S!EnterHandler, S!WriteTxbuf, S!ClearTxbuf, S!ReadRpbuf, S!MarkRpbuf, S!ReadMsbuf,
                S!MarkMsbuf, S!rqVars, S!pageVars
  <2>2. Guarded'
    BY <1>1, <2>1 DEF FramesInv, Guarded
  <2>3. Buffers' /\ S!PagesHold'
    BY <1>1, <2>1 DEF FramesInv, Buffers, S!PagesHold
  <2> QED BY <1>2, <2>2, <2>3 DEF FramesInv
<1> QED BY <1>3, <1>4, <1>5, <1>6 DEF S!Handler

(* The modem receives. *)
LEMMA ArriveKeeps == FramesInv /\ S!Arrive => FramesInv'
<1> SUFFICES ASSUME FramesInv, S!Arrive PROVE FramesInv'
  OBVIOUS
<1>1. /\ tc_arrived < ModemFrames /\ tc_arrived' = tc_arrived + 1 /\ tc_modem' = tc_arrived + 1
      /\ tc_stage = "off" /\ tc_stage' = tc_stage
      /\ UNCHANGED <<tc_app, tc_tcpbuf, tc_lbuf, tc_buffer, tc_newest, tc_spirequest, tc_bufRq, tc_flash, tc_rpque>>
  BY DEF S!Arrive, S!rqVars, S!pageVars
<1>2. Buffers'
  BY SchedulerAssumption, <1>1 DEF FramesInv, Buffers
<1>3. Guarded' /\ S!PagesHold' /\ EmptyFirst'
  BY <1>1 DEF FramesInv, Guarded, S!PagesHold, EmptyFirst
<1>4. S!InOrder'
  BY SchedulerAssumption, <1>1 DEF FramesInv, Buffers, S!InOrder
<1> QED BY <1>2, <1>3, <1>4 DEF FramesInv

(* The other steps of the application, and time. *)
LEMMA ApplicationKeeps ==
  ASSUME FramesInv, S!Draw \/ S!Inject \/ S!Injected \/ (\E m \in TxMessages : S!Compose(m))
                 \/ (\E i \in DOMAIN tc_rpque : S!Ages(i))
  PROVE  FramesInv'
<1>1. tc_rpque \in [1 .. RepeatSlots -> RepeatEntry]
  BY DEF FramesInv, Buffers
<1>2. EmptyFirst'
  BY DEF S!Draw, S!Inject, S!Injected, S!Compose, S!Ages, EmptyFirst
<1>3. CASE S!Draw \/ (\E m \in TxMessages : S!Compose(m))
  <2>1. UNCHANGED <<HandlerVars, S!rxVars, tc_rpque, tc_spirequest>>
    BY <1>3 DEF S!Draw, S!Compose, HandlerVars, S!rxVars, S!rqVars, S!pageVars
  <2>2. Buffers' /\ Guarded' /\ S!PagesHold' /\ S!InOrder'
    BY <1>1, <2>1, FramesStay
  <2> QED BY <1>2, <2>2 DEF FramesInv
<1>4. ASSUME NEW i \in DOMAIN tc_rpque, S!Ages(i) PROVE FramesInv'
  <2>1. /\ UNCHANGED <<HandlerVars, S!rxVars, tc_spirequest>>
        /\ tc_rpque' = [tc_rpque EXCEPT ![i].age = IF @ = "future" THEN "fresh" ELSE "old"]
    BY <1>4 DEF S!Ages, HandlerVars, S!rxVars, S!rqVars, S!pageVars
  <2>2. /\ tc_rpque' \in [1 .. RepeatSlots -> RepeatEntry]
        /\ \A j \in 1 .. RepeatSlots :
             tc_rpque'[j].flag = 1 => tc_rpque[j].flag = 1 /\ tc_rpque'[j].frame = tc_rpque[j].frame
    BY <1>1, <2>1 DEF RepeatEntry
  <2>3. Buffers' /\ Guarded' /\ S!PagesHold' /\ S!InOrder'
    BY <2>1, <2>2, FramesStay
  <2> QED BY <1>2, <2>3 DEF FramesInv
<1>5. CASE S!Inject \/ S!Injected
  <2>1. /\ UNCHANGED <<tc_arrived, tc_modem, tc_tcpbuf, tc_lbuf, tc_buffer, tc_newest, tc_bufRq, tc_flash, tc_rpque, tc_spirequest>>
        /\ tc_app \in {"loop", "spin"} /\ tc_app' \in {"loop", "spin"}
    BY <1>5 DEF S!Inject, S!Injected, S!rxVars, S!rqVars, S!pageVars
  <2>2. Buffers' /\ Guarded' /\ S!PagesHold' /\ S!InOrder'
    BY <2>1 DEF FramesInv, Buffers, Guarded, S!PagesHold, S!InOrder
  <2> QED BY <1>2, <2>2 DEF FramesInv
<1> QED BY <1>3, <1>4, <1>5

(* Every step keeps the frames in their pages and in their order. *)
LEMMA FramesNext == FramesInv /\ S!Next => FramesInv'
<1> SUFFICES ASSUME FramesInv, S!Next PROVE FramesInv'
  OBVIOUS
<1>1. CASE S!Tc1
  BY <1>1, SkipKeeps, ToLbufKeeps, BeaconKeeps, RepeatKeeps, FromTcpKeeps, FromLbufKeeps,
     FromModemKeeps, Zenon DEF S!Tc1
<1> QED BY <1>1, HandlerKeeps, ArriveKeeps, ApplicationKeeps, Zenon DEF S!Next

-----------------------------------------------------------------------------
(* The requests.                                                            *)

(* The page to be repeated holds its frame, or will before it is read.      *)
PagesAsked ==
  /\ tc_rpRq \in [page : Nat, ready : BOOLEAN]
  /\ tc_msRq \in [page : TxMessages \cup {0}, ready : BOOLEAN]
  /\ tc_rpRq.page # 0 =>
       /\ tc_rpRq.page \in S!Frame
       /\ tc_flash[tc_rpRq.page] = tc_rpRq.page \/ (tc_bufRq = tc_rpRq.page /\ tc_buffer = tc_rpRq.page)

(* Between a page and the statement that says so, a request is the one that *)
(* was served, or the interrupt noted that it is not.                       *)
BeaconKept ==
  /\ tc_ownSaved \/ tc_txRq \/ "txbuf" \in tc_overtaken
  /\ tc_app = "txclear" => tc_ownSaved \/ "txbuf" \in tc_overtaken

RepeatRead ==
  /\ tc_rpRq.ready => tc_rpbuf = tc_rpRq.page \/ "rpbuf" \in tc_overtaken
  /\ tc_app = "rpmark" => ~tc_rpRq.ready /\ (tc_rpbuf = tc_rpRq.page \/ "rpbuf" \in tc_overtaken)

MessageRead ==
  /\ tc_msRq.ready => tc_msbuf = tc_msRq.page \/ "msbuf" \in tc_overtaken
  /\ tc_app = "msmark" => ~tc_msRq.ready /\ (tc_msbuf = tc_msRq.page \/ "msbuf" \in tc_overtaken)

RequestsInv == PagesAsked /\ BeaconKept /\ RepeatRead /\ MessageRead

SchedulerInv == FramesInv /\ RequestsInv

(* The invariant holds at the start. *)
LEMMA SchedulerInit == S!Init => SchedulerInv
<1> SUFFICES ASSUME S!Init PROVE FramesInv /\ RequestsInv
  BY DEF SchedulerInv
<1>1. RequestsInv
  BY DEF S!Init, S!NoRq, RequestsInv, PagesAsked, BeaconKept, RepeatRead, MessageRead
<1> QED BY <1>1, FramesInit

(* What a step that leaves requests, pages and buffers has to show.         *)
RequestVars == <<tc_txRq, tc_rpRq, tc_msRq, tc_flash, tc_ownSaved, tc_rpbuf, tc_msbuf, tc_overtaken>>

LEMMA RequestsStay ==
  ASSUME RequestsInv, UNCHANGED <<RequestVars, tc_bufRq, tc_buffer>>,
         tc_app' = tc_app \/ tc_app' \in {"loop", "spin"}
  PROVE  RequestsInv'
<1>1. UNCHANGED <<tc_txRq, tc_rpRq, tc_msRq, tc_flash, tc_ownSaved, tc_rpbuf, tc_msbuf, tc_overtaken, tc_bufRq, tc_buffer>>
  BY DEF RequestVars
<1>2. PagesAsked'
  BY <1>1 DEF RequestsInv, PagesAsked
<1>3. BeaconKept'
  BY <1>1 DEF RequestsInv, BeaconKept
<1>4. RepeatRead' /\ MessageRead'
  BY <1>1 DEF RequestsInv, RepeatRead, MessageRead
<1> QED BY <1>2, <1>3, <1>4 DEF RequestsInv

(* A received frame is processed when none waits for its page.              *)
LEMMA ReceivedRequests ==
  ASSUME FramesInv, RequestsInv, S!Idle, NEW f, NEW outcome, S!Update(f, outcome)
  PROVE  RequestsInv'
<1>1. tc_bufRq = 0
  BY DEF S!Idle, FramesInv, Guarded
<1>2. UNCHANGED <<tc_app, tc_txRq, tc_rpRq, tc_msRq, tc_flash, tc_ownSaved, tc_rpbuf, tc_msbuf, tc_overtaken>>
  BY DEF S!Update, S!pageVars
<1>3. PagesAsked'
  BY <1>1, <1>2 DEF RequestsInv, PagesAsked
<1>4. BeaconKept' /\ RepeatRead' /\ MessageRead'
  BY <1>2 DEF RequestsInv, BeaconKept, RepeatRead, MessageRead
<1> QED BY <1>3, <1>4 DEF RequestsInv

(* A beacon asks for its page, also while the last one is marked as saved.  *)
LEMMA BeaconRequests == RequestsInv /\ S!Beacon => RequestsInv'
<1> SUFFICES ASSUME RequestsInv, S!Beacon PROVE RequestsInv'
  OBVIOUS
<1>1. /\ UNCHANGED <<tc_app, tc_rpRq, tc_msRq, tc_flash, tc_rpbuf, tc_msbuf, tc_bufRq, tc_buffer>>
      /\ \/ UNCHANGED <<tc_txRq, tc_ownSaved, tc_overtaken>>
         \/ /\ tc_txRq' = TRUE
            /\ tc_overtaken' = IF tc_app = "txclear" THEN tc_overtaken \cup {"txbuf"}
                               ELSE tc_overtaken \ {"txbuf"}
  BY DEF S!Beacon, S!rxVars
<1>2. PagesAsked'
  BY <1>1 DEF RequestsInv, PagesAsked
<1>3. BeaconKept'
  BY <1>1 DEF RequestsInv, BeaconKept
<1>4. RepeatRead' /\ MessageRead'
  BY <1>1 DEF RequestsInv, RepeatRead, MessageRead
<1> QED BY <1>2, <1>3, <1>4 DEF RequestsInv

(* A message is sent from what was read for it, or its page asked for.      *)
LEMMA MessageRequests == RequestsInv /\ S!SendMessage => RequestsInv'
<1> SUFFICES ASSUME RequestsInv, S!SendMessage PROVE RequestsInv'
  OBVIOUS
<1>1. UNCHANGED <<tc_app, tc_txRq, tc_rpRq, tc_flash, tc_ownSaved, tc_rpbuf, tc_bufRq, tc_buffer>>
  BY DEF S!SendMessage, S!rxVars
<1>2. \/ UNCHANGED <<tc_msRq, tc_msbuf, tc_overtaken>>
      \/ /\ tc_msRq' = [page |-> 0, ready |-> FALSE] /\ tc_overtaken' = tc_overtaken \ {"msbuf"}
         /\ tc_msRq.ready
      \/ /\ ~tc_msRq.ready /\ tc_msbuf' = tc_msbuf
         /\ \E m \in TxMessages :
              /\ tc_msRq' = [page |-> m, ready |-> FALSE]
              /\ tc_overtaken' = IF tc_app = "msmark" /\ m # tc_msRq.page
                                 THEN tc_overtaken \cup {"msbuf"} ELSE tc_overtaken
  BY Zenon DEF S!SendMessage, S!TransmitMessage, S!MessageDone, S!AskForMessage, S!Replaced, S!NoRq
<1>3. PagesAsked'
  <2>1. tc_msRq' \in [page : TxMessages \cup {0}, ready : BOOLEAN]
    <3>1. \A m \in TxMessages \cup {0} :
            [page |-> m, ready |-> FALSE] \in [page : TxMessages \cup {0}, ready : BOOLEAN]
      OBVIOUS
    <3> QED BY Zenon, <1>2, <3>1 DEF RequestsInv, PagesAsked
  <2> QED BY <1>1, <2>1 DEF RequestsInv, PagesAsked
<1>4. BeaconKept' /\ RepeatRead'
  BY <1>1, <1>2 DEF RequestsInv, BeaconKept, RepeatRead
<1>5. MessageRead'
  BY <1>1, <1>2 DEF RequestsInv, MessageRead
<1> QED BY <1>3, <1>4, <1>5 DEF RequestsInv

(* The page of a frame to be repeated is asked for while it holds or awaits *)
(* the frame.                                                               *)
LEMMA RepeatRequests == FramesInv /\ RequestsInv /\ S!Repeat => RequestsInv'
<1> SUFFICES ASSUME FramesInv, RequestsInv, S!Repeat PROVE RequestsInv'
  OBVIOUS
<1>1. UNCHANGED <<tc_app, tc_txRq, tc_msRq, tc_flash, tc_ownSaved, tc_msbuf, tc_bufRq, tc_buffer>>
  BY DEF S!Repeat, S!rxVars
<1> DEFINE f == tc_rpque[S!First(S!DueEntries)].frame
           Held(p) == p \in S!Frame /\ (tc_flash[p] = p \/ (tc_bufRq = p /\ tc_buffer = p))
<1>2. \/ UNCHANGED <<tc_rpRq, tc_rpbuf, tc_overtaken>>
      \/ /\ tc_rpRq' = [page |-> 0, ready |-> FALSE] /\ tc_overtaken' = tc_overtaken \ {"rpbuf"}
         /\ tc_rpRq.ready
      \/ /\ ~tc_rpRq.ready /\ tc_rpbuf' = tc_rpbuf /\ S!DueEntries # {}
         /\ tc_rpRq' = [page |-> f, ready |-> FALSE]
         /\ tc_overtaken' = IF tc_app = "rpmark" /\ f # tc_rpRq.page
                            THEN tc_overtaken \cup {"rpbuf"} ELSE tc_overtaken
  BY Zenon DEF S!Repeat, S!DoRepeat, S!AskForRepeat, S!Replaced, S!NoRq
<1>3. S!DueEntries # {} => Held(f)
  <2> SUFFICES ASSUME S!DueEntries # {} PROVE Held(f)
    OBVIOUS
  <2>1. DOMAIN tc_rpque = 1 .. RepeatSlots
    BY DEF FramesInv, Buffers
  <2>2. S!DueEntries \in SUBSET Nat
    BY SchedulerAssumption, <2>1 DEF S!DueEntries
  <2>3. S!First(S!DueEntries) \in S!DueEntries
    BY <2>2, SchedulerFirst
  <2>4. S!First(S!DueEntries) \in 1 .. RepeatSlots /\ tc_rpque[S!First(S!DueEntries)].flag = 1
    BY <2>1, <2>3 DEF S!DueEntries
  <2>5. f \in S!Frame
    BY <2>4 DEF FramesInv, Buffers
  <2>6. tc_flash[f] = f \/ (tc_bufRq = f /\ tc_buffer = f)
    BY <2>1, <2>4 DEF FramesInv, S!PagesHold
  <2> QED BY <2>5, <2>6 DEF Held
<1>7. PICK g : g = f
  OBVIOUS
<1>8. /\ S!DueEntries # {} => Held(g)
      /\ \/ UNCHANGED <<tc_rpRq, tc_rpbuf, tc_overtaken>>
         \/ /\ tc_rpRq' = [page |-> 0, ready |-> FALSE] /\ tc_overtaken' = tc_overtaken \ {"rpbuf"}
            /\ tc_rpRq.ready
         \/ /\ ~tc_rpRq.ready /\ tc_rpbuf' = tc_rpbuf /\ S!DueEntries # {}
            /\ tc_rpRq' = [page |-> g, ready |-> FALSE]
            /\ tc_overtaken' = IF tc_app = "rpmark" /\ g # tc_rpRq.page
                               THEN tc_overtaken \cup {"rpbuf"} ELSE tc_overtaken
  BY Zenon, <1>2, <1>3, <1>7
<1> HIDE DEF f, Held
<1>4. PagesAsked'
  <2>2. CASE UNCHANGED tc_rpRq
    BY <1>1, <2>2 DEF RequestsInv, PagesAsked
  <2>3. CASE tc_rpRq' = [page |-> 0, ready |-> FALSE]
    BY <1>1, <2>3 DEF RequestsInv, PagesAsked
  <2>4. ASSUME tc_rpRq' = [page |-> g, ready |-> FALSE], Held(g) PROVE PagesAsked'
    <3>1. g \in S!Frame /\ g \in Nat /\ (tc_flash[g] = g \/ (tc_bufRq = g /\ tc_buffer = g))
      BY SchedulerAssumption, <2>4 DEF Held, S!Frame
    <3>2. /\ tc_rpRq'.page = g /\ tc_rpRq' \in [page : Nat, ready : BOOLEAN]
          /\ tc_msRq' \in [page : TxMessages \cup {0}, ready : BOOLEAN]
      BY <1>1, <2>4, <3>1 DEF RequestsInv, PagesAsked
    <3>3. tc_flash' = tc_flash /\ tc_bufRq' = tc_bufRq /\ tc_buffer' = tc_buffer
      BY <1>1
    <3> QED BY <3>1, <3>2, <3>3 DEF PagesAsked, S!Frame
  <2> QED BY <1>8, <2>2, <2>3, <2>4
<1>5. BeaconKept' /\ MessageRead'
  BY <1>1, <1>8 DEF RequestsInv, BeaconKept, MessageRead
<1>6. RepeatRead'
  BY <1>1, <1>8 DEF RequestsInv, RepeatRead
<1> QED BY <1>4, <1>5, <1>6 DEF RequestsInv

(* The handler serves the requests, one statement at a time.                *)
LEMMA HandlerRequests == FramesInv /\ RequestsInv /\ S!Handler => RequestsInv'
<1> SUFFICES ASSUME FramesInv, RequestsInv, S!Handler PROVE RequestsInv'
  OBVIOUS
<1>1. tc_buffer' = tc_buffer
  BY DEF S!Handler, S!rxVars
<1>2. CASE S!EnterHandler \/ S!LeaveHandler
  <2>1. UNCHANGED RequestVars /\ tc_bufRq' = tc_bufRq /\ tc_app' \in {"buffer", "loop"}
    BY <1>2 DEF S!EnterHandler, S!LeaveHandler, S!pageVars, S!rqVars, RequestVars
  <2>2. PagesAsked'
    BY <1>1, <2>1 DEF RequestVars, RequestsInv, PagesAsked
  <2>3. BeaconKept' /\ RepeatRead' /\ MessageRead'
    BY <2>1 DEF RequestVars, RequestsInv, BeaconKept, RepeatRead, MessageRead
  <2> QED BY <2>2, <2>3 DEF RequestsInv
<1>3. CASE S!WriteBuffer \/ S!ClearBuffer
  <2>1. /\ UNCHANGED <<tc_txRq, tc_rpRq, tc_msRq, tc_ownSaved, tc_rpbuf, tc_msbuf, tc_overtaken>>
        /\ tc_app' \in {"bufclear", "txbuf"}
    BY <1>3 DEF S!WriteBuffer, S!ClearBuffer, S!pageVars, S!rqVars
  <2>2. BeaconKept' /\ RepeatRead' /\ MessageRead'
    BY <2>1 DEF RequestsInv, BeaconKept, RepeatRead, MessageRead
  <2>3. PagesAsked'
    <3>1. CASE S!ClearBuffer
      <4>1. /\ tc_app = "bufclear" /\ tc_flash' = tc_flash
            /\ tc_flash[tc_bufRq] = tc_bufRq
        BY <3>1 DEF S!ClearBuffer, S!pageVars, FramesInv, Guarded
      <4> QED BY <1>1, <2>1, <4>1 DEF RequestsInv, PagesAsked
    <3>2. CASE S!WriteBuffer
      <4>1. /\ tc_bufRq' = tc_bufRq
            /\ tc_flash' = IF tc_bufRq # 0 THEN [tc_flash EXCEPT ![tc_bufRq] = tc_buffer] ELSE tc_flash
            /\ tc_bufRq # 0 => tc_buffer = tc_bufRq
        BY <3>2 DEF S!WriteBuffer, S!rqVars, FramesInv, Guarded
      <4>2. tc_flash \in [S!Frame -> 0 .. ModemFrames]
        BY DEF FramesInv, Buffers
      <4>3. ASSUME NEW p \in S!Frame, tc_flash[p] = p PROVE tc_flash'[p] = p
        BY <4>1, <4>2, <4>3
      <4> QED BY <1>1, <2>1, <4>1, <4>3 DEF RequestsInv, PagesAsked
    <3> QED BY <1>3, <3>1, <3>2
  <2> QED BY <2>2, <2>3 DEF RequestsInv
<1>4. CASE S!WriteTxbuf \/ S!ClearTxbuf
  <2>1. /\ UNCHANGED <<tc_bufRq, tc_rpRq, tc_msRq, tc_flash, tc_rpbuf, tc_msbuf, tc_overtaken>>
        /\ tc_app' \in {"txclear", "rpbuf"}
        /\ \/ tc_app = "txclear" /\ tc_app' = "rpbuf" /\ tc_txRq' = FALSE /\ tc_ownSaved' = tc_ownSaved
           \/ tc_txRq' = tc_txRq /\ tc_ownSaved' = TRUE
           \/ tc_txRq' = tc_txRq /\ tc_ownSaved' = tc_ownSaved /\ tc_app' = "rpbuf"
    BY <1>4 DEF S!WriteTxbuf, S!ClearTxbuf, S!pageVars, S!rqVars
  <2>2. PagesAsked'
    BY <1>1, <2>1 DEF RequestsInv, PagesAsked
  <2>3. BeaconKept'
    BY <2>1 DEF RequestsInv, BeaconKept
  <2>4. RepeatRead' /\ MessageRead'
    BY <2>1 DEF RequestsInv, RepeatRead, MessageRead
  <2> QED BY <2>2, <2>3, <2>4 DEF RequestsInv
<1>5. CASE S!ReadRpbuf \/ S!MarkRpbuf
  <2>1. UNCHANGED <<tc_bufRq, tc_txRq, tc_msRq, tc_flash, tc_ownSaved, tc_msbuf>> /\ tc_app' \in {"rpmark", "msbuf"}
    BY <1>5 DEF S!ReadRpbuf, S!MarkRpbuf, S!pageVars, S!rqVars
  <2>2. \/ /\ tc_app = "rpmark" /\ tc_app' = "msbuf" /\ tc_rpRq' = [tc_rpRq EXCEPT !.ready = TRUE]
           /\ UNCHANGED <<tc_rpbuf, tc_overtaken>>
        \/ /\ tc_app = "rpbuf" /\ tc_rpRq.page # 0 /\ ~tc_rpRq.ready /\ tc_app' = "rpmark"
           /\ tc_rpbuf' = tc_flash[tc_rpRq.page] /\ tc_overtaken' = tc_overtaken \ {"rpbuf"}
           /\ tc_rpRq' = tc_rpRq
        \/ tc_app' = "msbuf" /\ UNCHANGED <<tc_rpRq, tc_rpbuf, tc_overtaken>>
    BY <1>5 DEF S!ReadRpbuf, S!MarkRpbuf, S!pageVars, S!rqVars
  <2>3. tc_app = "rpbuf" /\ tc_rpRq.page # 0 => tc_flash[tc_rpRq.page] = tc_rpRq.page
    BY DEF FramesInv, Guarded, RequestsInv, PagesAsked, S!Frame
  <2>4. PagesAsked'
    BY <1>1, <2>1, <2>2 DEF RequestsInv, PagesAsked
  <2>5. BeaconKept' /\ MessageRead'
    BY <2>1, <2>2 DEF RequestsInv, BeaconKept, MessageRead
  <2>6. RepeatRead'
    BY <2>1, <2>2, <2>3 DEF RequestsInv, RepeatRead, PagesAsked
  <2> QED BY <2>4, <2>5, <2>6 DEF RequestsInv
<1>6. CASE S!ReadMsbuf \/ S!MarkMsbuf
  <2>1. UNCHANGED <<tc_bufRq, tc_txRq, tc_rpRq, tc_flash, tc_ownSaved, tc_rpbuf>> /\ tc_app' \in {"msmark", "end"}
    BY <1>6 DEF S!ReadMsbuf, S!MarkMsbuf, S!pageVars, S!rqVars
  <2>2. \/ /\ tc_app = "msmark" /\ tc_app' = "end" /\ tc_msRq' = [tc_msRq EXCEPT !.ready = TRUE]
           /\ UNCHANGED <<tc_msbuf, tc_overtaken>>
        \/ /\ tc_msRq.page # 0 /\ ~tc_msRq.ready /\ tc_app' = "msmark"
           /\ tc_msbuf' = tc_msRq.page /\ tc_overtaken' = tc_overtaken \ {"msbuf"}
           /\ tc_msRq' = tc_msRq
        \/ tc_app' = "end" /\ UNCHANGED <<tc_msRq, tc_msbuf, tc_overtaken>>
    BY <1>6 DEF S!ReadMsbuf, S!MarkMsbuf, S!pageVars, S!rqVars
  <2>3. PagesAsked'
    BY <1>1, <2>1, <2>2 DEF RequestsInv, PagesAsked
  <2>4. BeaconKept' /\ RepeatRead'
    BY <2>1, <2>2 DEF RequestsInv, BeaconKept, RepeatRead
  <2>5. MessageRead'
    BY <2>1, <2>2 DEF RequestsInv, MessageRead, PagesAsked
  <2> QED BY <2>3, <2>4, <2>5 DEF RequestsInv
<1> QED BY <1>2, <1>3, <1>4, <1>5, <1>6 DEF S!Handler

(* The steps that have nothing to do with requests. *)
LEMMA OtherRequests ==
  ASSUME RequestsInv,
         \/ S!SkipBuffers \/ S!ToLbuf \/ S!SendQueued \/ S!GetInjected \/ S!Draw \/ S!Inject
         \/ S!Injected \/ S!Arrive \/ (\E m \in TxMessages : S!Compose(m))
         \/ (\E i \in DOMAIN tc_rpque : S!Ages(i))
  PROVE  RequestsInv'
<1>1. CASE S!SkipBuffers \/ S!ToLbuf \/ S!SendQueued \/ S!GetInjected
  BY <1>1, RequestsStay DEF S!SkipBuffers, S!ToLbuf, S!SendQueued, S!GetInjected, RequestVars,
     S!rxVars, S!rqVars, S!pageVars
<1>2. CASE S!Draw \/ S!Inject \/ S!Injected \/ S!Arrive
  BY <1>2, RequestsStay DEF S!Draw, S!Inject, S!Injected, S!Arrive, RequestVars, S!rxVars, S!rqVars,
     S!pageVars
<1>3. ASSUME NEW m, S!Compose(m) PROVE RequestsInv'
  BY <1>3, RequestsStay DEF S!Compose, RequestVars, S!rxVars, S!rqVars, S!pageVars
<1>4. ASSUME NEW i, S!Ages(i) PROVE RequestsInv'
  BY <1>4, RequestsStay DEF S!Ages, RequestVars, S!rxVars, S!rqVars, S!pageVars
<1> QED BY <1>1, <1>2, <1>3, <1>4

(* Every step keeps the invariant of the scheduler. *)
LEMMA SchedulerNext == SchedulerInv /\ S!Next => SchedulerInv'
<1> SUFFICES ASSUME FramesInv, RequestsInv, S!Next PROVE FramesInv' /\ RequestsInv'
  BY DEF SchedulerInv
<1>1. ASSUME NEW outcome, S!FromTcp(outcome) \/ S!FromLbuf(outcome) \/ S!FromModem(outcome)
      PROVE  RequestsInv'
  <2>1. S!Idle
    BY Zenon, <1>1 DEF S!FromTcp, S!FromLbuf, S!FromModem
  <2>2. S!Update(tc_tcpbuf, outcome) \/ S!Update(tc_lbuf, outcome) \/ S!Update(tc_modem, outcome)
    BY Zenon, <1>1 DEF S!FromTcp, S!FromLbuf, S!FromModem
  <2>3. \A f : S!Update(f, outcome) => RequestsInv'
    BY <2>1, ReceivedRequests
  <2> HIDE DEF FramesInv, RequestsInv
  <2> QED BY Zenon, <2>2, <2>3
<1>2. ASSUME S!Tc1 PROVE RequestsInv'
  BY <1>1, <1>2, OtherRequests, BeaconRequests, MessageRequests, RepeatRequests, Zenon DEF S!Tc1
<1>3. RequestsInv'
  BY <1>2, HandlerRequests, OtherRequests, Zenon DEF S!Next
<1> QED BY <1>3, FramesNext

(* So every buffer holds what it is read for. *)
LEMMA SchedulerBuffers == SchedulerInv => S!PagesHold /\ S!ServedAsAsked /\ S!InOrder
BY DEF SchedulerInv, FramesInv, RequestsInv, BeaconKept, RepeatRead, MessageRead, S!ServedAsAsked
-----------------------------------------------------------------------------
(* The position.  The slot in use is one of those there are. *)
PositionInv ==
  /\ DOMAIN pos_slots = P!Slot
  /\ pos_useMode \in P!Modes
  /\ pos_activeSlot \in P!Slot
  /\ pos_parser \in P!Sentences
  /\ pos_gps \in [valid : BOOLEAN, fix : BOOLEAN, place : Places \cup {NoPlace}, speed : Speeds \cup {0}]

(* What a sentence says of a fix, of the position and of the speed.         *)
LEMMA SentenceTyped ==
  ASSUME NEW s \in P!Sentences
  PROVE  /\ s.fixed \in BOOLEAN /\ s.active \in BOOLEAN
         /\ s.fixed => s.place \in Places
         /\ s.active => s.speed \in Speeds
<1>1. \/ s = P!NoSentence
      \/ \E p \in Places : s = P!GGA(p)
      \/ \E v \in Speeds : s = P!RMC(v)
  BY Zenon DEF P!Sentences
<1>2. CASE s = P!NoSentence
  BY <1>2 DEF P!NoSentence
<1>3. ASSUME NEW p \in Places, s = P!GGA(p)
      PROVE  s.fixed /\ s.place = p /\ s.active = FALSE
  BY <1>3 DEF P!GGA, P!NoSentence
<1>4. ASSUME NEW v \in Speeds, s = P!RMC(v)
      PROVE  s.fixed = FALSE /\ s.active /\ s.speed = v
  BY <1>4 DEF P!RMC, P!NoSentence
<1> QED BY <1>1, <1>2, <1>3, <1>4

(* The first slot is in use at first, and there is no fix. *)
LEMMA PositionInit == P!Init => PositionInv
BY PositionAssumption DEF P!Init, P!GpsInit, P!Sentences, P!Slot, P!Modes, PositionInv

(* A slot is selected among those there are, and a configuration has all of *)
(* them.                                                                    *)
LEMMA PositionNext == PositionInv /\ P!Next => PositionInv'
<1> SUFFICES ASSUME PositionInv, P!Next PROVE PositionInv'
  OBVIOUS
<1>0. 0 \in P!Slot
  BY PositionAssumption DEF P!Slot
<1>1. \/ pos_slots' = pos_slots
      \/ \E slot, place : pos_slots' = [pos_slots EXCEPT ![slot] = place]
      \/ \E place : pos_slots' = [s \in P!Slot |-> place]
  BY Zenon DEF P!Next, P!Command, P!SetUseMode, P!SetReportMode, P!SetStatic, P!SelectSlot,
     P!Capture, P!SetManual, P!PushNmea, P!HearPosition, P!FactoryReset, P!LoadConfig, P!Tick,
     P!posVars
<1>2. \/ pos_activeSlot' = pos_activeSlot \/ pos_activeSlot' = 0
      \/ pos_activeSlot' \in P!Slot
  BY Zenon DEF P!Next, P!Command, P!SetUseMode, P!SetReportMode, P!SetStatic, P!SelectSlot,
     P!Capture, P!SetManual, P!PushNmea, P!HearPosition, P!FactoryReset, P!LoadConfig, P!Tick,
     P!posVars
<1>3. DOMAIN pos_slots' = P!Slot
  BY <1>1 DEF PositionInv
<1>4. pos_useMode' \in P!Modes
  <2>1. \/ pos_useMode' = pos_useMode \/ pos_useMode' = "auto" \/ pos_useMode' = "static"
        \/ pos_useMode' \in P!Modes
    BY Zenon DEF P!Next, P!Command, P!SetUseMode, P!SetReportMode, P!SetStatic, P!SelectSlot,
       P!Capture, P!SetManual, P!PushNmea, P!HearPosition, P!FactoryReset, P!LoadConfig, P!Tick,
       P!posVars
  <2> QED BY <2>1 DEF PositionInv, P!Modes
<1>5. \/ UNCHANGED <<pos_parser, pos_gps>>
      \/ \E pushed \in P!Parsed(P!Sentences) : P!Push(pushed)
      \/ P!GpsTick
  BY Zenon DEF P!Next, P!Command, P!SetUseMode, P!SetReportMode, P!SetStatic, P!SelectSlot,
     P!Capture, P!SetManual, P!PushNmea, P!HearPosition, P!FactoryReset, P!LoadConfig, P!Tick,
     P!gpsVars
<1> DEFINE Receiver == [valid : BOOLEAN, fix : BOOLEAN, place : Places \cup {NoPlace},
                        speed : Speeds \cup {0}]
<1>6. pos_parser' \in P!Sentences /\ pos_gps' \in Receiver
  <2>1. CASE UNCHANGED <<pos_parser, pos_gps>>
    BY <2>1 DEF PositionInv
  <2>2. ASSUME NEW pushed \in P!Parsed(P!Sentences), P!Push(pushed)
        PROVE  pos_parser' \in P!Sentences /\ pos_gps' \in Receiver
    <3>1. pushed.fields \in P!Sentences
      BY DEF P!Parsed, PositionInv
    <3>2. P!Applied(pushed.fields) \in Receiver
      BY <3>1, SentenceTyped DEF P!Applied, PositionInv
    <3> QED BY <2>2, <3>1, <3>2 DEF P!Push, PositionInv
  <2>3. CASE P!GpsTick
    BY <2>3 DEF P!GpsTick, PositionInv
  <2> QED BY <1>5, <2>1, <2>2, <2>3
<1> QED BY <1>0, <1>2, <1>3, <1>4, <1>6 DEF PositionInv, P!Slot

(* A step computes the distances again or leaves what the position in use   *)
(* depends on, unless it is one of those that overlook them.                *)
LEMMA PositionFollows == PositionInv /\ P!Next => P!DistancesFollow
<1> SUFFICES ASSUME PositionInv, P!Next, ~P!Overlooked
             PROVE  pos_ranged' = P!Effective' \/ (pos_ranged' = pos_ranged /\ P!Effective' = P!Effective)
  BY Zenon DEF P!DistancesFollow
<1> DEFINE Followed == pos_ranged' = P!Effective' \/ (pos_ranged' = pos_ranged /\ P!Effective' = P!Effective)
<1>1. P!Recalc => Followed
  BY DEF P!Recalc, P!Effective, P!EffectiveOf
<1>2. ASSUME pos_ranged' = pos_ranged, pos_useMode' = pos_useMode, pos_gps' = pos_gps,
             pos_slots'[pos_activeSlot'] = pos_slots[pos_activeSlot]
      PROVE  Followed
  BY <1>2 DEF P!Effective, P!EffectiveOf
<1>3. ASSUME NEW mode, P!SetUseMode(mode) PROVE Followed
  BY <1>1, <1>3 DEF P!SetUseMode
<1>4. ASSUME NEW mode, P!SetReportMode(mode) PROVE Followed
  BY <1>2, <1>4 DEF P!SetReportMode, P!gpsVars
<1>5. ASSUME NEW slot \in P!Slot, NEW place \in Places, P!SetStatic(slot, place) PROVE Followed
  <2>1. pos_useMode = "static"
    BY Zenon, <1>5 DEF P!Overlooked
  <2>2. CASE slot = pos_activeSlot
    BY <1>1, <1>5, <2>1, <2>2 DEF P!SetStatic
  <2>3. CASE slot # pos_activeSlot
    <3>1. /\ pos_ranged' = pos_ranged /\ pos_slots' = [pos_slots EXCEPT ![slot] = place]
          /\ pos_useMode' = pos_useMode /\ pos_gps' = pos_gps /\ pos_activeSlot' = pos_activeSlot
      BY <1>5, <2>3 DEF P!SetStatic, P!gpsVars
    <3>2. pos_slots'[pos_activeSlot'] = pos_slots[pos_activeSlot]
      BY <2>3, <3>1 DEF PositionInv
    <3> QED BY Zenon, <1>2, <3>1, <3>2
  <2> QED BY <2>2, <2>3
<1>6. ASSUME NEW slot \in P!Slot, P!SelectSlot(slot) PROVE Followed
  <2>1. pos_useMode = "static"
    BY Zenon, <1>6 DEF P!Overlooked
  <2> QED BY <1>1, <1>6, <2>1 DEF P!SelectSlot
<1>7. ASSUME NEW place \in Places, P!Capture(place) PROVE Followed
  <2>1. pos_useMode = "static"
    BY Zenon, <1>7 DEF P!Overlooked
  <2> QED BY <1>1, <1>7, <2>1 DEF P!Capture
<1>8. ASSUME NEW place, P!SetManual(place) PROVE Followed
  BY <1>1, <1>8 DEF P!SetManual
<1>9. ASSUME NEW pushed \in P!Parsed(P!Sentences), P!PushNmea(pushed) PROVE Followed
  <2>1. pos_useMode # "auto"
    BY Zenon, <1>9 DEF P!Overlooked
  <2>2. CASE pushed.ended /\ pushed.fields.fixed /\ pos_useMode = "gps"
    BY <1>1, <1>9, <2>2 DEF P!PushNmea
  <2>3. CASE ~(pushed.ended /\ pushed.fields.fixed /\ pos_useMode = "gps")
    <3>1. /\ pos_ranged' = pos_ranged /\ pos_slots' = pos_slots
          /\ pos_useMode' = pos_useMode /\ pos_activeSlot' = pos_activeSlot
          /\ pos_gps' = IF pushed.ended THEN P!Applied(pushed.fields) ELSE pos_gps
      BY <1>9, <2>3 DEF P!PushNmea, P!Push
    <3>2. CASE pos_useMode = "static"
      BY <3>1, <3>2 DEF P!Effective, P!EffectiveOf
    <3>3. CASE pos_useMode = "gps"
      <4>1. pushed.fields \in P!Sentences
        BY DEF P!Parsed, PositionInv
      <4>2. CASE ~pushed.ended
        BY <3>1, <4>2 DEF P!Effective, P!EffectiveOf
      <4>3. CASE pushed.ended
        <5>1. pushed.fields.fixed = FALSE
          BY <2>3, <3>3, <4>1, <4>3, SentenceTyped
        <5>2. pos_gps'.valid = pos_gps.valid /\ pos_gps'.place = pos_gps.place
          BY <3>1, <4>3, <5>1 DEF P!Applied, PositionInv
        <5> QED BY <3>1, <5>2 DEF P!Effective, P!EffectiveOf
      <4> QED BY <4>2, <4>3
    <3> QED BY <2>1, <3>2, <3>3 DEF PositionInv, P!Modes
  <2> QED BY <2>2, <2>3
<1>10. ASSUME P!FactoryReset PROVE Followed
  BY Zenon, <1>10 DEF P!Overlooked
<1>11. ASSUME NEW mode \in P!Modes, NEW place \in Places, NEW slot \in P!Slot,
              P!LoadConfig(mode, place, slot)
       PROVE  Followed
  BY Zenon, <1>11 DEF P!Overlooked
<1>12. ASSUME P!HearPosition PROVE Followed
  BY <1>1, <1>12 DEF P!HearPosition
<1>13. ASSUME P!Tick PROVE Followed
  <2>1. /\ UNCHANGED <<pos_ranged, pos_useMode, pos_slots, pos_activeSlot>>
        /\ pos_gps'.valid = pos_gps.valid /\ pos_gps'.place = pos_gps.place
    BY <1>13 DEF P!Tick, P!posVars, P!GpsTick, PositionInv
  <2> QED BY <2>1 DEF P!Effective, P!EffectiveOf
<1> HIDE DEF Followed
<1>14. P!Command => Followed
  BY Zenon, <1>3, <1>4, <1>5, <1>6, <1>7, <1>8, <1>9, <1>10, <1>11 DEF P!Command
<1>15. Followed
  BY Zenon, <1>12, <1>13, <1>14 DEF P!Next
<1> QED BY <1>15 DEF Followed
-----------------------------------------------------------------------------
(* The configuration file.  It holds the beginning of what one save writes, *)
(* the rest of which is still to come unless the engine stopped, or what    *)
(* another program left there.                                              *)
Begun(c, k) ==
  /\ k \in 0 .. 6
  /\ cfg_file = SubSeq(C!Stream(c), 1, k)
  /\ cfg_todo # <<>> => c = cfg_config /\ cfg_todo = SubSeq(C!Stream(c), k + 1, 6)
  /\ cfg_todo = <<>> /\ k = 6 => c \in cfg_intact

Found ==
  /\ cfg_todo = <<>> /\ cfg_file \in ForeignFiles
  /\ \A c \in Configs :
       Len(cfg_file) >= 6 /\ SubSeq(cfg_file, 1, 6) = C!Stream(c) => c \in cfg_intact

ConfigInv ==
  \/ Found
  \/ \E c, k : Begun(c, k)

(* A save writes six parts: three words, the checksum, and the data.        *)
LEMMA StreamHas ==
  ASSUME NEW c
  PROVE  /\ \E Values : C!Stream(c) \in Seq(Values)
         /\ Len(C!Stream(c)) = 6
         /\ C!Stream(c)[1] = "APRS" /\ C!Stream(c)[2] = 2 /\ C!Stream(c)[3] = 2
         /\ C!Stream(c)[4] = <<"crc", <<<<"data", c, 1>>, <<"data", c, 2>>>>>>
         /\ C!Stream(c)[5] = <<"data", c, 1>> /\ C!Stream(c)[6] = <<"data", c, 2>>
<1> DEFINE data == <<<<"data", c, 1>>, <<"data", c, 2>>>>
           sum == <<"crc", data>>
           head == <<"APRS", 2, 2, sum>>
           Values == {"APRS", 2, sum, <<"data", c, 1>>, <<"data", c, 2>>}
<1>1. C!Stream(c) = head \o data
  <2>1. C!Data(c) = data
    BY DEF C!Data, C!Whole
  <2> HIDE DEF data
  <2> QED BY Zenon, <2>1 DEF C!Stream, C!Magic, C!Version, C!Whole, C!Checksum
<1>2. head \in Seq(Values) /\ Len(head) = 4
  OBVIOUS
<1>3. data \in Seq(Values) /\ Len(data) = 2
      /\ data[1] = <<"data", c, 1>> /\ data[2] = <<"data", c, 2>>
  OBVIOUS
<1>4. head[1] = "APRS" /\ head[2] = 2 /\ head[3] = 2 /\ head[4] = sum
  OBVIOUS
<1>5. ASSUME NEW Others, NEW s \in Seq(Others), NEW d \in Seq(Others), Len(s) = 4, Len(d) = 2
      PROVE  /\ s \o d \in Seq(Others) /\ Len(s \o d) = 6
             /\ \A k \in 1 .. 4 : (s \o d)[k] = s[k]
             /\ (s \o d)[5] = d[1] /\ (s \o d)[6] = d[2]
  <2>1. s \o d \in Seq(Others) /\ Len(s \o d) = Len(s) + Len(d)
    OBVIOUS
  <2>2. \A k \in 1 .. Len(s) + Len(d) : (s \o d)[k] = IF k <= Len(s) THEN s[k] ELSE d[k - Len(s)]
    OBVIOUS
  <2>3. /\ \A k \in 1 .. 4 : k \in 1 .. Len(s) + Len(d) /\ k <= Len(s)
        /\ 5 \in 1 .. Len(s) + Len(d) /\ ~(5 <= Len(s)) /\ 5 - Len(s) = 1
        /\ 6 \in 1 .. Len(s) + Len(d) /\ ~(6 <= Len(s)) /\ 6 - Len(s) = 2
    BY <1>5
  <2>4. (s \o d)[5] = d[5 - Len(s)] /\ (s \o d)[6] = d[6 - Len(s)]
    BY <2>2, <2>3
  <2>5. \A k \in 1 .. 4 : (s \o d)[k] = s[k]
    BY <2>2, <2>3
  <2> QED BY <1>5, <2>1, <2>3, <2>4, <2>5
<1> HIDE DEF Values, head, data, sum
<1>6. /\ head \o data \in Seq(Values) /\ Len(head \o data) = 6
      /\ \A k \in 1 .. 4 : (head \o data)[k] = head[k]
      /\ (head \o data)[5] = data[1] /\ (head \o data)[6] = data[2]
  BY <1>2, <1>3, <1>5
<1>7. 1 \in 1 .. 4 /\ 2 \in 1 .. 4 /\ 3 \in 1 .. 4 /\ 4 \in 1 .. 4
  OBVIOUS
<1>8. sum = <<"crc", <<<<"data", c, 1>>, <<"data", c, 2>>>>>>
  BY DEF sum, data
<1> QED BY Zenon, <1>1, <1>3, <1>4, <1>6, <1>7, <1>8

(* There may be no file yet, or one that another program wrote. *)
LEMMA ConfigInit == C!Init => ConfigInv
<1> SUFFICES ASSUME C!Init PROVE ConfigInv
  OBVIOUS
<1>1. CASE cfg_file = <<>>
  <2>1. PICK Values : C!Stream(DefaultConfig) \in Seq(Values)
    BY StreamHas
  <2>2. SubSeq(C!Stream(DefaultConfig), 1, 0) = <<>>
    BY <2>1
  <2>3. Begun(DefaultConfig, 0)
    BY <1>1, <2>2 DEF Begun, C!Init
  <2> QED BY <2>3 DEF ConfigInv
<1>2. CASE cfg_file \in ForeignFiles
  BY <1>2 DEF C!Init, ConfigInv, Found, C!Whole
<1> QED BY <1>1, <1>2 DEF C!Init

(* A save begins with an empty file and writes one part after the other;    *)
(* when it has written the last, its configuration is saved.                *)
LEMMA ConfigNext == ConfigInv /\ C!Next => ConfigInv'
<1> SUFFICES ASSUME ConfigInv, C!Next PROVE ConfigInv'
  OBVIOUS
<1>1. ASSUME cfg_todo' = <<>>, cfg_file' = cfg_file, cfg_intact' = cfg_intact PROVE ConfigInv'
  <2>1. CASE Found
    BY <1>1, <2>1 DEF ConfigInv, Found, C!Stream
  <2>2. CASE \E c, k : Begun(c, k)
    <3>1. PICK c, k : Begun(c, k)
      BY <2>2
    <3>2. PICK Values : C!Stream(c) \in Seq(Values) /\ Len(C!Stream(c)) = 6
      BY StreamHas
    <3>3. k = 6 => cfg_todo = <<>>
      BY <3>1, <3>2 DEF Begun
    <3>4. Begun(c, k)'
      BY <1>1, <3>1, <3>3 DEF Begun, C!Stream
    <3> QED BY <3>4 DEF ConfigInv
  <2> QED BY <2>1, <2>2 DEF ConfigInv
<1>2. CASE C!Truncate
  <2> DEFINE c == cfg_config
  <2>1. PICK Values : C!Stream(c) \in Seq(Values) /\ Len(C!Stream(c)) = 6
    BY StreamHas
  <2>2. SubSeq(C!Stream(c), 1, 0) = <<>> /\ SubSeq(C!Stream(c), 1, 6) = C!Stream(c)
    BY <2>1
  <2>3. cfg_file' = <<>> /\ cfg_todo' = C!Stream(c) /\ cfg_config' = c
    BY <1>2 DEF C!Truncate
  <2>4. C!Stream(c) # <<>>
    BY <2>1
  <2> HIDE DEF c
  <2>5. \E k : /\ k \in 0 .. 6
               /\ cfg_file' = SubSeq(C!Stream(c), 1, k)
               /\ cfg_todo' # <<>> => c = cfg_config' /\ cfg_todo' = SubSeq(C!Stream(c), k + 1, 6)
               /\ cfg_todo' = <<>> /\ k = 6 => c \in cfg_intact'
    <3>1. C!Stream(c) = SubSeq(C!Stream(c), 0 + 1, 6)
      BY <2>1
    <3>2. /\ 0 \in 0 .. 6
          /\ cfg_file' = SubSeq(C!Stream(c), 1, 0)
          /\ cfg_todo' # <<>> => c = cfg_config' /\ cfg_todo' = SubSeq(C!Stream(c), 0 + 1, 6)
      BY <2>2, <2>3, <3>1
    <3> QED BY <2>3, <2>4, <3>2
  <2> QED BY <2>5 DEF ConfigInv, Begun
<1>3. CASE C!Write
  <2>1. PICK c, k : Begun(c, k)
    BY <1>3 DEF ConfigInv, Found, C!Write
  <2>2. PICK Values : C!Stream(c) \in Seq(Values) /\ Len(C!Stream(c)) = 6
    BY StreamHas
  <2>3. /\ k \in 0 .. 6 /\ cfg_file = SubSeq(C!Stream(c), 1, k)
        /\ c = cfg_config /\ cfg_todo = SubSeq(C!Stream(c), k + 1, 6) /\ cfg_todo # <<>>
    BY <1>3, <2>1 DEF Begun, C!Write
  <2>4. k < 6 /\ Len(cfg_todo) = 6 - k
    BY <2>2, <2>3
  <2>5. /\ cfg_file' = Append(cfg_file, Head(cfg_todo)) /\ cfg_todo' = Tail(cfg_todo)
        /\ cfg_config' = c
        /\ cfg_intact' = IF Len(cfg_todo) = 1 THEN cfg_intact \cup {c} ELSE cfg_intact
    BY <1>3, <2>3 DEF C!Write
  <2>6. Head(cfg_todo) = C!Stream(c)[k + 1] /\ Tail(cfg_todo) = SubSeq(C!Stream(c), k + 2, 6)
    BY <2>2, <2>3, <2>4
  <2>7. Append(SubSeq(C!Stream(c), 1, k), C!Stream(c)[k + 1]) = SubSeq(C!Stream(c), 1, k + 1)
    BY <2>2, <2>3, <2>4
  <2>8. k + 1 = 6 => Len(cfg_todo) = 1
    BY <2>3, <2>4
  <2>9. /\ k + 1 \in 0 .. 6
        /\ cfg_file' = SubSeq(C!Stream(c), 1, k + 1)
        /\ cfg_todo' = SubSeq(C!Stream(c), (k + 1) + 1, 6)
        /\ k + 1 = 6 => c \in cfg_intact'
    BY <2>3, <2>4, <2>5, <2>6, <2>7, <2>8
  <2> QED BY <2>5, <2>9 DEF ConfigInv, Begun
<1> QED BY <1>1, <1>2, <1>3 DEF C!Next, C!Set, C!Crash, C!Load, C!WriteFails

(* A foreign file that passes the checks is what some save wrote.           *)
LEMMA ForeignWhole ==
  ASSUME NEW f \in ForeignFiles, Len(f) >= 6, f[1] = "APRS", f[2] = 2, f[3] = 2,
         f[4] = <<"crc", SubSeq(f, 5, 6)>>
  PROVE  \E c \in Configs : SubSeq(f, 1, 6) = C!Stream(c) /\ f[5][2] = c
<1>1. f = [k \in 1 .. Len(f) |-> f[k]] /\ Len(f) \in Nat
  BY ConfigAssumption
<1>2. PICK c \in Configs : SubSeq(f, 5, 6) = <<<<"data", c, 1>>, <<"data", c, 2>>>>
  BY ConfigAssumption
<1>3. PICK Values : f \in Seq(Values)
  <2> DEFINE Values == {f[k] : k \in 1 .. Len(f)}
  <2>1. f \in Seq(Values)
    BY <1>1
  <2> QED BY <2>1
<1>4. SubSeq(f, 5, 6)[1] = f[5] /\ SubSeq(f, 5, 6)[2] = f[6]
  BY <1>3
<1>5. <<<<"data", c, 1>>, <<"data", c, 2>>>>[1] = <<"data", c, 1>>
      /\ <<<<"data", c, 1>>, <<"data", c, 2>>>>[2] = <<"data", c, 2>>
  OBVIOUS
<1>6. f[5] = <<"data", c, 1>> /\ f[6] = <<"data", c, 2>>
  BY Zenon, <1>2, <1>4, <1>5
<1>7. PICK s : s = SubSeq(f, 1, 6)
  OBVIOUS
<1>8. s \in Seq(Values) /\ Len(s) = 6 /\ \A k \in 1 .. 6 : s[k] = f[k]
  BY <1>3, <1>7
<1>9. PICK t : t = C!Stream(c)
  OBVIOUS
<1>10. f[4] = <<"crc", <<<<"data", c, 1>>, <<"data", c, 2>>>>>>
  BY Zenon, <1>2
<1>11. PICK Others : t \in Seq(Others)
  BY <1>9, StreamHas
<1>12. Len(t) = 6 /\ t[1] = f[1] /\ t[2] = f[2] /\ t[3] = f[3] /\ t[4] = f[4]
       /\ t[5] = f[5] /\ t[6] = f[6]
  BY Zenon, <1>6, <1>9, <1>10, StreamHas
<1>13. \A k \in 1 .. 6 : t[k] = f[k]
  <2>1. \A k \in 1 .. 6 : k = 1 \/ k = 2 \/ k = 3 \/ k = 4 \/ k = 5 \/ k = 6
    OBVIOUS
  <2> QED BY Zenon, <2>1, <1>12
<1>14. s = t
  <2>1. \A k \in 1 .. 6 : s[k] = t[k]
    BY Zenon, <1>8, <1>13
  <2>2. s = [k \in 1 .. 6 |-> s[k]] /\ t = [k \in 1 .. 6 |-> t[k]]
    BY <1>8, <1>11, <1>12
  <2>3. [k \in 1 .. 6 |-> s[k]] = [k \in 1 .. 6 |-> t[k]]
    BY Zenon, <2>1
  <2> QED BY Zenon, <2>2, <2>3
<1>15. <<"data", c, 1>>[2] = c
  OBVIOUS
<1> QED BY Zenon, <1>6, <1>7, <1>9, <1>14, <1>15

(* What passes the checks is whole, and it was saved. *)
LEMMA ConfigLoads == ConfigInv => C!LoadedWasSaved
<1> SUFFICES ASSUME ConfigInv, C!Load, C!Accepts
             PROVE  cfg_file[5][2] \in cfg_intact
  BY DEF C!LoadedWasSaved, C!Load
<1>1. cfg_todo = <<>> /\ Len(cfg_file) >= 6
      /\ cfg_file[1] = "APRS" /\ cfg_file[2] = 2 /\ cfg_file[3] = 2
  BY DEF C!Load, C!Accepts, C!Magic, C!Version, C!Whole
<1>2. ASSUME Found PROVE cfg_file[5][2] \in cfg_intact
  <2>1. cfg_file[4] = <<"crc", SubSeq(cfg_file, 5, 6)>>
    BY DEF C!Accepts, C!Checksum, C!Whole
  <2>2. PICK c \in Configs : SubSeq(cfg_file, 1, 6) = C!Stream(c) /\ cfg_file[5][2] = c
    BY <1>1, <1>2, <2>1, ForeignWhole DEF Found
  <2> QED BY <1>1, <1>2, <2>2 DEF Found
<1>3. ASSUME NEW c, NEW k, Begun(c, k) PROVE cfg_file[5][2] \in cfg_intact
  <2>1. PICK Values : C!Stream(c) \in Seq(Values)
    BY StreamHas
  <2>2. Len(C!Stream(c)) = 6 /\ C!Stream(c)[5][2] = c
    <3>1. <<"data", c, 1>>[2] = c
      OBVIOUS
    <3> QED BY Zenon, <3>1, StreamHas
  <2>3. k = 6
    BY <1>1, <1>3, <2>1, <2>2 DEF Begun
  <2>4. cfg_file = C!Stream(c) /\ c \in cfg_intact
    BY <1>1, <1>3, <2>1, <2>2, <2>3 DEF Begun
  <2> QED BY <2>2, <2>4
<1> QED BY <1>2, <1>3 DEF ConfigInv
-----------------------------------------------------------------------------
(* The list of the old program.  The cursor is on a line of the screen, and *)
(* the screen begins at a line of the list.                                 *)
ViewInv ==
  /\ list_num \in Nat /\ list_filtered \in Nat
  /\ list_start \in Nat /\ list_start >= 1
  /\ list_cur \in 1 .. Height
  /\ V!CursorFollows

(* The first line of an empty list. *)
LEMMA ListInit == V!Init => ViewInv
BY ListAssumption DEF V!Init, V!CursorFollows, ViewInv

(* However the list was sorted, chasing a station that is in it finds the   *)
(* station, and keeps the cursor on the screen (app.c goapp).               *)
LEMMA ChaseFinds ==
  ASSUME ViewInv, list_filtered' \in Nat, NEW station, V!Chase(station)
  PROVE  /\ list_start' \in Nat /\ list_start' >= 1
         /\ list_cur' \in 1 .. Height
         /\ list_filtered' > 0 =>
              /\ list_start' + list_cur' - 1 \in 1 .. list_filtered'
              /\ list_cstation' = list_sort'[list_start' + list_cur' - 1]
              /\ (\E k \in 1 .. list_filtered' : list_sort'[k] = station) =>
                   list_cstation' = station
<1> DEFINE shown == {k \in 1 .. list_filtered' : list_sort'[k] = station}
           line == V!Line(station)
<1>0. Height \in Nat /\ Height >= 1 /\ list_start \in Nat /\ list_cur \in 1 .. Height
  BY ListAssumption DEF ViewInv
<1>1. /\ line \in Nat /\ line >= 1
      /\ list_filtered' > 0 => line \in 1 .. list_filtered'
      /\ shown # {} => list_sort'[line] = station
  <2>1. CASE shown # {}
    <3>0. shown \in SUBSET Nat
      OBVIOUS
    <3>1. PICK k \in shown : \A l \in shown : k <= l
      <4> HIDE DEF shown
      <4> QED BY <2>1, <3>0, LeastNatural
    <3>2. line = CHOOSE i \in shown : \A l \in shown : i <= l
      BY <2>1 DEF V!Line
    <3>3. line \in shown
      BY <3>1, <3>2
    <3> QED BY <3>3
  <2>2. CASE shown = {}
    BY <2>2 DEF V!Line
  <2> QED BY <2>1, <2>2
<1> HIDE DEF line
<1>2. CASE list_sort'[line] = station
  <2>1. V!Follow(line) /\ list_cstation' = station
    BY <1>2 DEF V!Chase, line
  <2>2. /\ list_start' \in Nat /\ list_start' >= 1
        /\ list_cur' \in 1 .. Height
        /\ list_start' + list_cur' - 1 = line
    BY <1>0, <1>1, <2>1 DEF V!Follow
  <2> QED BY <1>1, <1>2, <2>1, <2>2
<1>3. CASE list_sort'[line] # station
  <2>1. list_start' = 1 /\ list_cur' = 1 /\ list_cstation' = list_sort'[1]
    BY <1>3 DEF V!Chase, V!Top, line
  <2>2. list_start' + list_cur' - 1 = 1
    BY <2>1
  <2> QED BY <1>0, <1>1, <1>3, <2>1, <2>2
<1> QED BY <1>2, <1>3

(* A frame sorts the list and sends the cursor after its station; every     *)
(* other key moves it by hand.                                              *)
LEMMA ListNext == ViewInv /\ V!Next => ViewInv'
<1> SUFFICES ASSUME ViewInv, V!Next PROVE ViewInv'
  OBVIOUS
<1>0. Height \in Nat /\ Height >= 1
  BY ListAssumption
<1>1. ASSUME NEW n \in Nat, V!Sorted(n) PROVE list_filtered' \in Nat
  BY <1>1 DEF V!Sorted
<1>2. ASSUME list_num' \in Nat, list_filtered' \in Nat, list_start' \in Nat, list_start' >= 1,
             list_cur' \in 1 .. Height, list_was' = 0
      PROVE  ViewInv'
  BY <1>2 DEF ViewInv, V!CursorFollows
<1>3. CASE V!Frame
  <2>1. list_num' \in Nat /\ V!Sorted(list_num')
    BY <1>3 DEF V!Frame, ViewInv
  <2>2. list_filtered' \in Nat
    BY <1>1, <2>1
  <2>3. CASE V!Top /\ list_was' = 0
    BY <1>0, <1>2, <2>1, <2>2, <2>3 DEF V!Top
  <2>4. CASE V!Chase(list_cstation) /\ list_was' = list_cstation
    BY <2>1, <2>2, <2>4, ChaseFinds DEF ViewInv, V!CursorFollows
  <2> QED BY <1>3, <2>3, <2>4 DEF V!Frame
<1>4. CASE V!Filter
  <2>1. list_filtered' \in Nat
    BY <1>1, <1>4 DEF V!Filter, ViewInv
  <2> QED BY <1>2, <1>4, <2>1 DEF V!Filter, ViewInv
<1>5. CASE V!Resort
  <2>1. list_filtered' \in Nat
    BY <1>1, <1>5 DEF V!Resort, ViewInv
  <2> QED BY <1>0, <1>2, <1>5, <2>1 DEF V!Resort, V!Top, ViewInv
<1>6. CASE V!GoTop
  BY <1>0, <1>2, <1>6 DEF V!GoTop, V!Top, ViewInv
<1>7. CASE V!GoMarked
  <2>1. list_filtered' \in Nat /\ list_num' \in Nat /\ list_was' = 0 /\ V!Chase(list_marked)
    BY <1>7 DEF V!GoMarked, ViewInv
  <2> QED BY <1>2, <2>1, ChaseFinds
<1>8. ASSUME NEW s \in Nat, NEW c \in 1 .. Height, s >= 1, V!Moved(s, c) PROVE ViewInv'
  BY <1>2, <1>8 DEF V!Moved, ViewInv
<1>9. CASE V!PageUp \/ V!PageDown \/ V!Down \/ V!Up
  <2>1. \E s \in Nat, c \in 1 .. Height : s >= 1 /\ V!Moved(s, c)
    BY <1>0, <1>9 DEF V!PageUp, V!PageDown, V!Down, V!Up, ViewInv
  <2> QED BY <1>8, <2>1
<1> QED BY <1>3, <1>4, <1>5, <1>6, <1>7, <1>9 DEF V!Next
-----------------------------------------------------------------------------
(* The settings of the old program.  An edit keeps the names of the         *)
(* settings, whatever else it does.                                         *)
Renames(edits) == \E e \in edits : DOMAIN e # DOMAIN set_settings

(* Setting one of them keeps the names.                                     *)
LEMMA PutNames == \A n, v : ~Renames(G!Put(n, v))
BY DEF Renames, G!Put

(* So does typing into one.                                                 *)
LEMMA TypedNames == \A n, texts : ~Renames(G!Typed(n, texts))
BY DEF Renames, G!Typed

(* Edits of two keys keep the names if those of each do.                    *)
LEMMA BothNames == \A a, b : ~Renames(a) /\ ~Renames(b) => ~Renames(a \cup b)
BY DEF Renames

(* The keys of a row keep the names.                                        *)
LEMMA KeyNames ==
  /\ \A n : ~Renames(G!Toggle(n)) /\ ~Renames(G!Tune(n))
  /\ \A n, k : ~Renames(G!Cycle(n, k))
  /\ \A n, lo, hi, by : ~Renames(G!Adjust(n, lo, hi, by))
  /\ ~Renames(G!Nothing)
  /\ ~Renames({})
<1>1. \A n : ~Renames(G!Toggle(n))
  BY PutNames DEF G!Toggle
<1>2. \A n : ~Renames(G!Tune(n))
  BY PutNames, BothNames DEF G!Tune
<1>3. \A n, k : ~Renames(G!Cycle(n, k))
  BY PutNames DEF G!Cycle
<1>4. \A n, lo, hi, by : ~Renames(G!Adjust(n, lo, hi, by))
  BY PutNames, BothNames DEF G!Adjust
<1>5. ~Renames(G!Nothing) /\ ~Renames({})
  BY DEF Renames, G!Nothing
<1> QED BY <1>1, <1>2, <1>3, <1>4, <1>5

(* How many rows each screen has.                                           *)
RowCount(s) ==
  IF s \in {"announce", "position_mode", "symbol", "option"} THEN 2
  ELSE IF s \in {"path", "status", "beacon", "frames", "txlock", "static_position", "startup"}
  THEN 3
  ELSE IF s = "aliases" THEN 4 ELSE IF s = "trx" THEN 5 ELSE IF s = "sounds" THEN 6
  ELSE IF s = "digi" THEN 2 ELSE 1

(* A screen has a function of rows, and no row of it renames a setting.     *)
Sound(screen, size) == DOMAIN screen = 1 .. size /\ \A m \in 1 .. size : ~Renames(screen[m])

(* The screens that have one row.                                           *)
LEMMA SingleRows ==
  /\ Sound(G!Suffix, 1) /\ Sound(G!NavTag, 1) /\ Sound(G!Dest, 1) /\ Sound(G!FilterScreen, 1)
  /\ Sound(G!MessagesReceive, 1) /\ Sound(G!FactoryScreen, 1) /\ Sound(G!Serial0, 1)
  /\ Sound(G!SerialKeyboard, 1) /\ Sound(G!Predefined, 1) /\ Sound(<<G!Nothing>>, 1)
<1>1. \A a : ~Renames(a) => Sound(<<a>>, 1)
  BY DEF Sound
<1>2. Sound(G!NavTag, 1) /\ Sound(G!MessagesReceive, 1) /\ Sound(G!SerialKeyboard, 1)
      /\ Sound(<<G!Nothing>>, 1)
  BY Zenon, <1>1, KeyNames DEF G!NavTag, G!MessagesReceive, G!SerialKeyboard
<1>3. Sound(G!Dest, 1) /\ Sound(G!Predefined, 1)
  BY Zenon, <1>1, TypedNames DEF G!Dest, G!Predefined
<1>4. Sound(G!Serial0, 1)
  BY Zenon, <1>1, KeyNames, PutNames, BothNames DEF G!Serial0
<1>5. Sound(G!Suffix, 1)
  <2> DEFINE sign == IF G!UserLevel < 2 THEN G!Typed("sign", SettingTexts) ELSE {}
  <2>1. ~Renames(sign)
    BY Zenon, TypedNames, KeyNames
  <2> QED BY Zenon, <2>1, <1>1, KeyNames, BothNames DEF G!Suffix
<1>6. Sound(G!FactoryScreen, 1)
  <2>1. ~Renames(G!FactoryScreen[1])
    BY DEF Renames, G!FactoryScreen
  <2> QED BY <2>1 DEF Sound, G!FactoryScreen
<1>7. Sound(G!FilterScreen, 1)
  <2> DEFINE turns == {G!Turned(f) : f \in G!Filters}
             schemes == {[set_settings EXCEPT !.include = s[1], !.exclude = s[2]] : s \in G!Schemes}
  <2>1. ~Renames(turns)
    BY DEF Renames, G!Turned
  <2>2. ~Renames(schemes)
    BY DEF Renames
  <2>3. G!FilterScreen = <<(turns \cup G!Toggle("announce_new")) \cup schemes>>
    BY DEF G!FilterScreen
  <2> HIDE DEF turns, schemes
  <2>4. ~Renames((turns \cup G!Toggle("announce_new")) \cup schemes)
    BY Zenon, <2>1, <2>2, KeyNames, BothNames
  <2> QED BY Zenon, <2>3, <2>4, <1>1
<1> QED BY <1>2, <1>3, <1>4, <1>5, <1>6, <1>7

(* The screens that list a row for each item of a table.                    *)
LEMMA TableRows ==
  /\ Sound(G!Symbol, 2) /\ Sound(G!PathScreen, 3) /\ Sound(G!StatusScreen, 3)
  /\ Sound(G!AliasScreen, 4) /\ Sound(G!Position, 3)
<1>1. Sound(G!Symbol, 2)
  BY PutNames DEF Sound, G!Symbol
<1>2. Sound(G!PathScreen, 3)
  BY Zenon, PutNames, TypedNames, KeyNames, BothNames DEF Sound, G!PathScreen
<1>3. Sound(G!StatusScreen, 3)
  BY Zenon, TypedNames, KeyNames, BothNames DEF Sound, G!StatusScreen
<1>4. Sound(G!AliasScreen, 4)
  BY Zenon, TypedNames, KeyNames, BothNames DEF Sound, G!AliasScreen
<1>5. Sound(G!Position, 3)
  <2> DEFINE own(m) == IF set_settings.static = 1
                       THEN G!Put("position", set_settings[G!Banks[m]]) ELSE {}
  <2>1. \A m : ~Renames(own(m))
    BY Zenon, PutNames, KeyNames
  <2> QED BY Zenon, <2>1, PutNames, TypedNames, BothNames DEF Sound, G!Position
<1> QED BY <1>1, <1>2, <1>3, <1>4, <1>5

(* The screens whose rows are written out.                                  *)
LEMMA WrittenRows ==
  /\ Sound(G!Announce, 2) /\ Sound(G!PositionMode, 2) /\ Sound(G!MessagesOption, 2)
  /\ Sound(G!DigiTiming, 2) /\ Sound(G!BeaconTiming, 3) /\ Sound(G!Frames, 3)
  /\ Sound(G!TxLock, 3) /\ Sound(G!Startup, 3) /\ Sound(G!Trx, 5) /\ Sound(G!SoundScreen, 6)
<1>2. \A a, b : ~Renames(a) /\ ~Renames(b) => Sound(<<a, b>>, 2)
  BY DEF Sound
<1>3. \A a, b, c : ~Renames(a) /\ ~Renames(b) /\ ~Renames(c) => Sound(<<a, b, c>>, 3)
  BY DEF Sound
<1>5. \A a, b, c, d, e : ~Renames(a) /\ ~Renames(b) /\ ~Renames(c) /\ ~Renames(d) /\ ~Renames(e)
                         => Sound(<<a, b, c, d, e>>, 5)
  BY DEF Sound
<1>6. \A a, b, c, d, e, f : /\ ~Renames(a) /\ ~Renames(b) /\ ~Renames(c)
                            /\ ~Renames(d) /\ ~Renames(e) /\ ~Renames(f)
                            => Sound(<<a, b, c, d, e, f>>, 6)
  BY DEF Sound
<1>7. Sound(G!Announce, 2) /\ Sound(G!PositionMode, 2) /\ Sound(G!MessagesOption, 2)
  BY Zenon, <1>2, KeyNames DEF G!Announce, G!PositionMode, G!MessagesOption
<1>8. Sound(G!DigiTiming, 2)
  BY Zenon, <1>2, TypedNames DEF G!DigiTiming
<1>9. Sound(G!BeaconTiming, 3)
  BY Zenon, <1>3, TypedNames, PutNames, BothNames, KeyNames DEF G!BeaconTiming
<1>10. Sound(G!Frames, 3) /\ Sound(G!TxLock, 3)
  BY Zenon, <1>3, KeyNames DEF G!Frames, G!TxLock
<1>11. Sound(G!Startup, 3)
  <2>1. ~Renames({[set_settings EXCEPT !.beacon_auto = 0, !.beacon_delay = G!STOP]})
    BY DEF Renames
  <2> QED BY Zenon, <2>1, <1>3, KeyNames DEF G!Startup
<1>12. Sound(G!Trx, 5)
  BY Zenon, <1>5, KeyNames DEF G!Trx
<1>13. Sound(G!SoundScreen, 6)
  <2> DEFINE Volume(n) == G!Cycle(n, 10) \cup
                          G!Put(n, IF set_settings[n] > 0 THEN set_settings[n] - 1 ELSE 0)
  <2>1. \A n : ~Renames(Volume(n))
    BY Zenon, KeyNames, PutNames, BothNames
  <2>2. G!SoundScreen = <<Volume("snd1"), Volume("snd2"), Volume("snd3"), Volume("snd4"),
                          Volume("snd5"), Volume("snd6")>>
    BY Zenon DEF G!SoundScreen
  <2> HIDE DEF Volume
  <2> QED BY Zenon, <2>1, <2>2, <1>6
<1> QED BY <1>7, <1>8, <1>9, <1>10, <1>11, <1>12, <1>13

(* Every screen has the rows counted for it, and renames nothing.           *)
LEMMA ScreensSound == \A s : Sound(G!Rows(s), RowCount(s))
<1> SUFFICES ASSUME NEW s PROVE Sound(G!Rows(s), RowCount(s))
  OBVIOUS
<1>1. CASE s \in {"announce", "position_mode", "symbol", "option"}
  BY <1>1, WrittenRows, TableRows DEF G!Rows, RowCount
<1>2. CASE s \in {"path", "status", "beacon", "frames"}
  BY <1>2, WrittenRows, TableRows DEF G!Rows, RowCount
<1>3. CASE s \in {"txlock", "static_position", "startup"}
  BY <1>3, WrittenRows, TableRows DEF G!Rows, RowCount
<1>4. CASE s \in {"aliases", "trx", "sounds", "digi"}
  BY <1>4, WrittenRows, TableRows DEF G!Rows, RowCount
<1>5. CASE s \in {"suffix", "navmark", "dest", "filter"}
  BY <1>5, SingleRows DEF G!Rows, RowCount
<1>6. CASE s \in {"receive", "factory", "serial0", "serialkbd", "predefined"}
  BY <1>6, SingleRows DEF G!Rows, RowCount
<1>7. CASE s \notin {"announce", "position_mode", "symbol", "option", "path", "status", "beacon",
                     "frames", "txlock", "static_position", "startup", "aliases", "trx", "sounds",
                     "digi", "suffix", "navmark", "dest", "filter", "receive", "factory",
                     "serial0", "serialkbd", "predefined"}
  BY <1>7, SingleRows DEF G!Rows, RowCount
<1> QED BY Zenon, <1>1, <1>2, <1>3, <1>4, <1>5, <1>6, <1>7

(* Page k holds what memory holds of it.                                    *)
Kept(k) == \A n \in G!OnPage(k) \cap DOMAIN set_flash : set_flash[n] = set_settings[n]

(* All pages do, but for the announcements.                                 *)
Current == \A n \in DOMAIN set_flash \ {"announce_new"} : set_flash[n] = set_settings[n]

(* The pages update_config has written agree with the memory until the last *)
(* is written; from then on all do, in the menu and in the screens that     *)
(* save nothing.  Where a start comes next or is under way, no screen has   *)
(* saved yet.                                                               *)
SettingsInv ==
  /\ DOMAIN set_settings = DOMAIN G!Initial
  /\ DOMAIN set_flash = G!Written
  /\ set_row \in 1 .. RowCount(set_place)
  /\ set_page \in 0 .. 3
  /\ set_place = "menu" => set_page = 0
  /\ set_place \in {"startup", "off"} => ~set_saved
  /\ set_place # "startup" => (set_page >= 2 => Kept(1)) /\ (set_page >= 3 => Kept(2))
  /\ set_saved /\ set_page = 0 /\ set_place \in G!Unsaving \cup {"menu"} => Current

(* Names that change on a screen but are on no page disturb none of this.   *)
LEMMA Undisturbed ==
  ASSUME SettingsInv, UNCHANGED set_flash,
         \A n \in G!Written : set_settings'[n] = set_settings[n]
  PROVE  /\ Current => Current'
         /\ Kept(1) => Kept(1)'
         /\ Kept(2) => Kept(2)'
<1>1. \A n \in DOMAIN set_flash' : set_settings'[n] = set_settings[n] /\ set_flash'[n] = set_flash[n]
  BY DEF SettingsInv
<1>2. Current => Current'
  BY <1>1 DEF Current
<1>3. \A k \in {1, 2} : G!OnPage(k)' = G!OnPage(k)
  BY DEF G!OnPage, G!Page2003, G!Page2004, G!Names, G!Routes, G!RouteTexts, G!Status, G!StatusTexts
<1>4. (Kept(1) => Kept(1)') /\ (Kept(2) => Kept(2)')
  BY Zenon, <1>1, <1>3 DEF Kept
<1> QED BY <1>2, <1>4

(* A step of update_config puts one page right and disturbs no other.       *)
LEMMA PageWritten ==
  ASSUME SettingsInv, G!WritePage, set_place # "startup"
  PROVE  /\ set_settings' = set_settings
         /\ DOMAIN set_flash' = DOMAIN set_flash
         /\ \A n \in DOMAIN set_flash :
              set_flash'[n] = IF n \in G!OnPage(set_page) THEN set_settings[n] ELSE set_flash[n]
<1>1. set_settings' = set_settings
  BY DEF G!WritePage, G!UserLevel
<1>2. set_flash' = [n \in DOMAIN set_flash |->
                      IF n \in G!OnPage(set_page) THEN set_settings'[n] ELSE set_flash[n]]
  <2> DEFINE now == IF set_place = "startup" THEN [set_settings' EXCEPT !.txenable = 0]
                    ELSE set_settings'
  <2>1. set_flash' = [n \in DOMAIN set_flash |->
                        IF n \in G!OnPage(set_page) THEN now[n] ELSE set_flash[n]]
    BY Zenon DEF G!WritePage
  <2>2. now = set_settings'
    OBVIOUS
  <2> HIDE DEF now
  <2> QED BY Zenon, <2>1, <2>2
<1> QED BY Zenon, <1>1, <1>2

(* A screen that saves nothing changes nothing that is to be saved, but for *)
(* the announcements.                                                       *)
LEMMA UnsavedEdit ==
  ASSUME SettingsInv, set_place \in G!Unsaving \ {"predefined"}, G!Edit
  PROVE  \A n \in G!Written \ {"announce_new"} : set_settings'[n] = set_settings[n]
<1> SUFFICES ASSUME NEW n \in G!Written \ {"announce_new"}
             PROVE  set_settings'[n] = set_settings[n]
  OBVIOUS
<1>1. n \in DOMAIN set_settings /\ n \notin G!Unwritten /\ n # "announce_new"
  BY DEF SettingsInv, G!Written
<1>2. set_row = 1 /\ set_settings' \in G!Rows(set_place)[1]
  BY DEF SettingsInv, RowCount, G!Unsaving, G!Edit
<1>3. CASE set_place \in {"contacts", "keys"}
  BY <1>2, <1>3 DEF G!Rows, G!Nothing
<1>4. CASE set_place = "serial0"
  <2>1. G!Rows(set_place)[1] = G!Serial0[1]
    BY <1>4 DEF G!Rows
  <2>2. \E v : set_settings' = [set_settings EXCEPT !["serial0_opt"] = v]
    BY <1>2, <2>1 DEF G!Serial0, G!Cycle, G!Put
  <2> QED BY <2>2, <1>1 DEF G!Unwritten
<1>5. CASE set_place = "serialkbd"
  <2>1. G!Rows(set_place)[1] = G!SerialKeyboard[1]
    BY <1>5 DEF G!Rows
  <2>2. \E v : set_settings' = [set_settings EXCEPT !["ser_kbden"] = v]
    BY <1>2, <2>1 DEF G!SerialKeyboard, G!Toggle, G!Put
  <2> QED BY <2>2, <1>1 DEF G!Unwritten
<1>6. CASE set_place = "filter"
  <2>1. G!Rows(set_place)[1] = G!FilterScreen[1]
    BY <1>6 DEF G!Rows
  <2>2. \/ \E f \in G!Filters : set_settings' = G!Turned(f)
        \/ set_settings' \in G!Toggle("announce_new")
        \/ \E s \in G!Schemes :
             set_settings' = [set_settings EXCEPT !.include = s[1], !.exclude = s[2]]
    BY <1>2, <2>1 DEF G!FilterScreen
  <2>3. n \notin {"include", "exclude", "announce_new"}
    BY <1>1 DEF G!Unwritten
  <2>4. ASSUME NEW f, set_settings' = G!Turned(f) PROVE set_settings'[n] = set_settings[n]
    BY <2>3, <2>4, <1>1 DEF G!Turned
  <2>5. ASSUME set_settings' \in G!Toggle("announce_new")
        PROVE  set_settings'[n] = set_settings[n]
    BY <2>3, <2>5, <1>1 DEF G!Toggle, G!Put
  <2>6. ASSUME NEW s,
               set_settings' = [set_settings EXCEPT !.include = s[1], !.exclude = s[2]]
        PROVE  set_settings'[n] = set_settings[n]
    BY <2>3, <2>6, <1>1
  <2> QED BY <2>2, <2>4, <2>5, <2>6
<1> QED BY <1>3, <1>4, <1>5, <1>6 DEF G!Unsaving

(* The start has the names, the first screen and nothing saved.             *)
LEMMA SettingsInit == G!Init => SettingsInv
<1> SUFFICES ASSUME G!Init PROVE SettingsInv
  OBVIOUS
<1>1. set_row = 1 /\ set_place = "startup" /\ set_saved = FALSE /\ set_page = 0
      /\ set_settings = G!Initial /\ set_flash = [n \in G!Written |-> 0]
  BY Zenon DEF G!Init
<1>2. set_row \in 1 .. RowCount(set_place)
  BY <1>1 DEF RowCount
<1>3. DOMAIN set_flash = G!Written
  BY Zenon, <1>1
<1> QED BY <1>1, <1>2, <1>3 DEF SettingsInv, G!Unsaving

(* No step of the menu, of its screens and of update_config, no stop and no *)
(* start loses what was saved.                                              *)
LEMMA SettingsNext == SettingsInv /\ G!Next => SettingsInv'
<1> SUFFICES ASSUME SettingsInv, G!Next PROVE SettingsInv'
  OBVIOUS
<1>0. \A s : 1 \in 1 .. RowCount(s)
  BY DEF RowCount
<1>1. CASE G!Open
  <2>1. set_place' \notin {"startup", "menu", "off"} /\ set_row = 1
    BY <1>1 DEF G!Open, G!Screens, SettingsInv, RowCount
  <2>2. /\ DOMAIN set_settings' = DOMAIN set_settings
        /\ \A n \in G!Written : set_settings'[n] = set_settings[n]
    BY <1>1 DEF G!Open, SettingsInv, G!Written, G!Unwritten
  <2>3. UNCHANGED <<set_flash, set_row, set_page, set_saved>> /\ set_place = "menu"
    BY <1>1 DEF G!Open
  <2>4. Current => Current'
    BY <2>2, <2>3, Undisturbed
  <2>5. set_saved => Current
    BY <2>3 DEF SettingsInv
  <2>6. set_page' = 0
    BY <2>3 DEF SettingsInv
  <2>7. set_row' \in 1 .. RowCount(set_place')
    BY <1>0, <2>1, <2>3
  <2> QED BY <2>1, <2>2, <2>3, <2>4, <2>5, <2>6, <2>7 DEF SettingsInv
<1>2. CASE G!MoveRow
  <2>1. set_row' \in 1 .. RowCount(set_place)
    BY <1>2, ScreensSound DEF G!MoveRow, Sound
  <2>2. UNCHANGED <<set_settings, set_flash, set_place, set_page, set_saved>>
    BY <1>2 DEF G!MoveRow
  <2>3. (Current => Current') /\ (Kept(1) => Kept(1)') /\ (Kept(2) => Kept(2)')
    BY <2>2, Undisturbed
  <2> QED BY <2>1, <2>2, <2>3 DEF SettingsInv
<1>3. CASE G!Edit
  <2>1. DOMAIN set_settings' = DOMAIN set_settings
    <3>1. set_row \in 1 .. RowCount(set_place) /\ set_settings' \in G!Rows(set_place)[set_row]
      BY <1>3 DEF G!Edit, SettingsInv
    <3> QED BY <3>1, ScreensSound DEF Sound, Renames
  <2>2. UNCHANGED <<set_flash, set_place, set_row, set_saved>> /\ set_place # "menu"
        /\ set_page = 0 /\ set_page' \in {0, 1}
        /\ (set_place = "predefined" => set_page' = 1)
    BY <1>3 DEF G!Edit, G!Shown
  <2>3. ASSUME set_saved, set_place \in G!Unsaving, set_page' = 0 PROVE Current'
    <3>1. set_place \in G!Unsaving \ {"predefined"}
      BY <2>2, <2>3
    <3>2. \A n \in G!Written \ {"announce_new"} : set_settings'[n] = set_settings[n]
      BY <1>3, <3>1, UnsavedEdit
    <3>3. Current
      BY <2>2, <2>3 DEF SettingsInv
    <3> QED BY <2>2, <3>2, <3>3 DEF SettingsInv, Current
  <2> QED BY <2>1, <2>2, <2>3 DEF SettingsInv
<1>4. CASE G!Leave
  <2>1. /\ DOMAIN set_settings' = DOMAIN set_settings
        /\ \A n \in G!Written : set_settings'[n] = set_settings[n]
    BY <1>4 DEF G!Leave, SettingsInv, G!Written, G!Unwritten
  <2>2. UNCHANGED <<set_flash, set_saved>> /\ set_page = 0 /\ set_place \notin {"off", "menu"}
    BY <1>4 DEF G!Leave, G!Shown
  <2>3. CASE set_place \in G!Unsaving \cup {"startup"}
    <3>1. set_place' = "menu" /\ set_row' = 1 /\ set_page' = 0
      BY <1>4, <2>3 DEF G!Leave
    <3>2. set_saved => Current
      BY <2>2, <2>3 DEF SettingsInv
    <3>3. set_saved' => Current'
      BY <2>1, <2>2, <3>2, Undisturbed
    <3> QED BY <1>0, <2>1, <2>2, <3>1, <3>3 DEF SettingsInv
  <2>4. CASE set_place \notin G!Unsaving \cup {"startup"}
    <3>1. set_place' = set_place /\ set_row' = set_row /\ set_page' = 1
      BY <1>4, <2>4 DEF G!Leave
    <3> QED BY <2>1, <2>2, <2>4, <3>1 DEF SettingsInv
  <2> QED BY <2>3, <2>4
<1>5. CASE G!WritePage
  <2>1. set_page \in {1, 2, 3} /\ set_page' = (set_page + 1) % 4
    BY <1>5 DEF G!WritePage, SettingsInv
  <2>2. CASE set_place = "startup"
    <3>1. UNCHANGED <<set_settings, set_place, set_row, set_saved>>
      BY <1>5, <2>2 DEF G!WritePage, G!UserLevel
    <3>2. DOMAIN set_flash' = DOMAIN set_flash
      BY <1>5 DEF G!WritePage
    <3>3. set_page' \in 0 .. 3
      BY <2>1
    <3> QED BY <2>2, <3>1, <3>2, <3>3 DEF SettingsInv
  <2>3. CASE set_place # "startup"
    <3>1. /\ set_settings' = set_settings
          /\ DOMAIN set_flash' = DOMAIN set_flash
          /\ \A n \in DOMAIN set_flash :
               set_flash'[n] = IF n \in G!OnPage(set_page) THEN set_settings[n] ELSE set_flash[n]
      BY <1>5, <2>3, PageWritten
    <3>2. \A k \in {1, 2} : G!OnPage(k)' = G!OnPage(k)
      BY <3>1 DEF G!OnPage, G!Page2003, G!Page2004, G!Names, G!Routes, G!RouteTexts,
                  G!Status, G!StatusTexts
    <3>3. (Kept(1) => Kept(1)') /\ (set_page = 1 => Kept(1)') /\ (set_page = 2 => Kept(2)')
      BY Zenon, <3>1, <3>2 DEF Kept
    <3>4. CASE set_page # 3
      <4>1. UNCHANGED <<set_place, set_row, set_saved>>
        BY <1>5, <3>4 DEF G!WritePage
      <4>2. set_page' = set_page + 1 /\ set_page \in {1, 2}
        BY <2>1, <3>4
      <4>3. (set_page' >= 2 => Kept(1)') /\ (set_page' >= 3 => Kept(2)')
        BY <2>3, <3>3, <4>2 DEF SettingsInv
      <4>4. set_page' \in 0 .. 3 /\ set_page' # 0 /\ set_place' # "menu"
        BY <4>1, <4>2 DEF SettingsInv
      <4> QED BY <3>1, <4>1, <4>3, <4>4 DEF SettingsInv
    <3>5. CASE set_page = 3
      <4>1. set_place' = "menu" /\ set_row' = 1 /\ set_page' = 0
        BY <1>5, <2>1, <2>3, <3>5 DEF G!WritePage
      <4>2. Kept(1) /\ Kept(2)
        BY <2>3, <3>5 DEF SettingsInv
      <4>3. \A n \in DOMAIN set_flash : n \in G!OnPage(1) \/ n \in G!OnPage(2) \/ n \in G!OnPage(3)
        <5>1. G!OnPage(1) = DOMAIN set_flash \ (G!Page2003 \cup G!Page2004)
              /\ G!OnPage(2) = G!Page2003 /\ G!OnPage(3) = G!Page2004
          BY DEF G!OnPage
        <5> QED BY Zenon, <5>1
      <4>4. Current'
        BY Zenon, <3>1, <3>5, <4>2, <4>3 DEF Current, Kept
      <4> QED BY <1>0, <3>1, <4>1, <4>4 DEF SettingsInv
    <3> QED BY <3>4, <3>5
  <2> QED BY <2>2, <2>3
<1>6. CASE G!Stop
  <2>1. set_place' = "off" /\ set_row' = 1 /\ set_page' = 0 /\ set_saved' = FALSE
        /\ DOMAIN set_settings' = DOMAIN set_settings /\ DOMAIN set_flash' = DOMAIN set_flash
    BY <1>6 DEF G!Stop
  <2> QED BY <1>0, <2>1 DEF SettingsInv
<1>7. CASE G!Start
  <2>1. set_place = "off" /\ set_place' = "startup"
        /\ UNCHANGED <<set_flash, set_row, set_page, set_saved>>
        /\ set_settings' = G!Started(set_flash)
    BY <1>7 DEF G!Start
  <2>2. DOMAIN set_settings' = DOMAIN G!Initial
    <3>1. \A held : DOMAIN G!Started(held) = DOMAIN G!Initial
      BY Zenon DEF G!Started
    <3> QED BY Zenon, <2>1, <3>1
  <2>3. set_row' \in 1 .. RowCount(set_place')
    BY <2>1 DEF SettingsInv, RowCount
  <2> QED BY <2>1, <2>2, <2>3 DEF SettingsInv
<1> QED BY <1>1, <1>2, <1>3, <1>4, <1>5, <1>6, <1>7 DEF G!Next

(* So the pages are up to date in the menu.                                 *)
LEMMA SettingsSaved == SettingsInv => G!SavedAtMenu
BY DEF SettingsInv, Current, G!SavedAtMenu
-----------------------------------------------------------------------------
(* The station log of the old program. *)
Signs == Callers \cup {OwnCall, "blank"}
StationRecords == [sign : Signs, page : Pages \cup {0}, minutes : Nat]
MessageRecords ==
  [stid : 0 .. LogEntries, ackid : Ids \cup {"none"}, page : Pages \cup {0}, status : 0 .. 2,
   from : Signs]

LogTyped ==
  /\ log_num \in 0 .. LogEntries
  /\ log_stations \in [0 .. LogEntries -> StationRecords]
  /\ log_messages \in [1 .. MessageSlots -> MessageRecords]
  /\ log_drafts \in [1 .. Drafts -> Pages \cup {0}]
  /\ log_found \in Pages \cup {0}
  /\ log_timeval \in Nat

Stored == {i \in 1 .. MessageSlots : log_messages[i].status > 0}

(* Entries in use have a page, the others no callsign; a message kept is of *)
(* an entry in use, and the page that is found but not yet taken is nobody's. *)
LogUsed ==
  /\ \A i \in 1 .. log_num : log_stations[i].page \in Pages
  /\ \A i \in 0 .. LogEntries : i > log_num => log_stations[i].sign = "blank"
  /\ \A i \in Stored : log_messages[i].stid \in 1 .. log_num /\ log_messages[i].page \in Pages
  /\ log_found # 0 =>
       /\ \A i \in 1 .. log_num : log_stations[i].page # log_found
       /\ \A i \in Stored : log_messages[i].page # log_found

(* LogTrue, part by part. *)
StationsApart ==
  \A i \in 1 .. log_num, j \in 0 .. log_num :
    i # j => log_stations[i].page # log_stations[j].page
MessagesApart ==
  \A i \in Stored :
    /\ log_stations[log_messages[i].stid].sign = log_messages[i].from
    /\ \A j \in 0 .. log_num \ {log_messages[i].stid} :
         log_stations[j].page # log_messages[i].page
    /\ \A k \in Stored \ {i} : log_messages[k].page # log_messages[i].page
DraftsApart ==
  \A d \in 1 .. Drafts : log_drafts[d] # 0 =>
    /\ \A i \in 1 .. log_num : log_stations[i].page # log_drafts[d]
    /\ \A i \in Stored : log_messages[i].page # log_drafts[d]

LogInv == LogTyped /\ LogUsed /\ StationsApart /\ MessagesApart /\ DraftsApart

(* The parts are the whole. *)
LEMMA LogParts == LogInv => L!LogTrue
<1> SUFFICES ASSUME LogInv PROVE L!LogTrue
  OBVIOUS
<1>1. DOMAIN log_messages = 1 .. MessageSlots /\ DOMAIN log_drafts = 1 .. Drafts
  BY DEF LogInv, LogTyped
<1> QED BY <1>1 DEF LogInv, StationsApart, MessagesApart, DraftsApart, Stored, L!LogTrue, L!NoPage

(* There are more pages than stations, messages and drafts can hold, so the *)
(* search for a free one ends (get_freepage).                               *)
LEMMA PageIsFree ==
  ASSUME LogTyped, NEW count \in 0 .. LogEntries,
         NEW kept \in [1 .. MessageSlots -> MessageRecords]
  PROVE  LET page == L!FreePage(count, kept)
         IN  /\ page \in Pages
             /\ page # log_found
             /\ \A i \in 0 .. count : log_stations[i].page # page
             /\ \A i \in 1 .. MessageSlots : kept[i].status > 0 => kept[i].page # page
             /\ \A d \in 1 .. Drafts : log_drafts[d] # page
<1> DEFINE EntryPages == {log_stations[i].page : i \in 0 .. count}
           M == {kept[i].page : i \in {j \in 1 .. MessageSlots : kept[j].status > 0}}
           MM == {kept[i].page : i \in 1 .. MessageSlots}
           DraftPages == {log_drafts[d] : d \in 1 .. Drafts}
           F == {log_found}
           page == L!FreePage(count, kept)
<1>1. ASSUME NEW Values, NEW Others, IsFiniteSet(Values), IsFiniteSet(Others)
      PROVE  /\ IsFiniteSet(Values \cup Others)
             /\ Cardinality(Values \cup Others) <= Cardinality(Values) + Cardinality(Others)
  <2>1. IsFiniteSet(Values \cup Others) /\ IsFiniteSet(Values \cap Others)
        /\ Cardinality(Values \cup Others) = Cardinality(Values) + Cardinality(Others) - Cardinality(Values \cap Others)
    BY <1>1, FS_Union, FS_Intersection
  <2>2. /\ Cardinality(Values) \in Nat /\ Cardinality(Others) \in Nat /\ Cardinality(Values \cap Others) \in Nat
    BY <1>1, <2>1, FS_CardinalityType
  <2> QED BY <2>1, <2>2
<1>2. IsFiniteSet(EntryPages) /\ Cardinality(EntryPages) <= LogEntries + 1
  <2>0. LogEntries \in Nat /\ count \in Nat /\ count <= LogEntries
    BY LogAssumption
  <2>1. IsFiniteSet(0 .. count) /\ Cardinality(0 .. count) <= LogEntries + 1
    BY <2>0, FS_Interval
  <2>2. IsFiniteSet(EntryPages) /\ Cardinality(EntryPages) <= Cardinality(0 .. count)
    <3> DEFINE f == [i \in 0 .. count |-> log_stations[i].page]
    <3>1. f \in Surjection(0 .. count, EntryPages)
      BY DEF Surjection
    <3> QED BY <2>1, <3>1, FS_Surjection
  <2>3. Cardinality(EntryPages) \in Nat /\ Cardinality(0 .. count) \in Nat
    BY <2>1, <2>2, FS_CardinalityType
  <2> QED BY <2>1, <2>2, <2>3, LogAssumption
<1>3. IsFiniteSet(M) /\ Cardinality(M) <= MessageSlots
  <2>0. MessageSlots \in Nat
    BY LogAssumption
  <2>1. IsFiniteSet(1 .. MessageSlots) /\ Cardinality(1 .. MessageSlots) = MessageSlots
    BY <2>0, FS_Interval
  <2>2. IsFiniteSet(MM) /\ Cardinality(MM) <= Cardinality(1 .. MessageSlots)
    <3> DEFINE f == [i \in 1 .. MessageSlots |-> kept[i].page]
    <3>1. f \in Surjection(1 .. MessageSlots, MM)
      BY DEF Surjection
    <3> QED BY <2>1, <3>1, FS_Surjection
  <2>3. M \in SUBSET MM
    OBVIOUS
  <2> HIDE DEF M, MM
  <2>4. IsFiniteSet(M) /\ Cardinality(M) <= Cardinality(MM)
    BY <2>2, <2>3, FS_Subset
  <2>5. Cardinality(M) \in Nat /\ Cardinality(MM) \in Nat
    BY <2>2, <2>4, FS_CardinalityType
  <2> QED BY <2>1, <2>2, <2>4, <2>5, LogAssumption
<1>4. IsFiniteSet(DraftPages) /\ Cardinality(DraftPages) <= Drafts
  <2>0. Drafts \in Nat
    BY LogAssumption
  <2>1. IsFiniteSet(1 .. Drafts) /\ Cardinality(1 .. Drafts) = Drafts
    BY <2>0, FS_Interval
  <2> DEFINE f == [d \in 1 .. Drafts |-> log_drafts[d]]
  <2>2. f \in Surjection(1 .. Drafts, DraftPages)
    BY DEF Surjection
  <2> QED BY <2>1, <2>2, FS_Surjection
<1>5. IsFiniteSet(F) /\ Cardinality(F) = 1
  BY FS_Singleton
<1>6. page = L!Min(Pages \ (((EntryPages \cup M) \cup DraftPages) \cup F))
  <2>1. DOMAIN kept = 1 .. MessageSlots /\ DOMAIN log_drafts = 1 .. Drafts
    BY DEF LogTyped
  <2>2. L!Busy(count, kept) = (EntryPages \cup M) \cup DraftPages
    BY <2>1 DEF L!Busy
  <2> QED BY <2>2 DEF L!FreePage
<1> DEFINE free == Pages \ (((EntryPages \cup M) \cup DraftPages) \cup F)
<1>7. free # {}
  <2> SUFFICES ASSUME free = {} PROVE FALSE
    OBVIOUS
  <2>1. Pages \in SUBSET (((EntryPages \cup M) \cup DraftPages) \cup F)
    OBVIOUS
  <2> HIDE DEF EntryPages, M, DraftPages, F, free
  <2>2. IsFiniteSet(EntryPages \cup M) /\ Cardinality(EntryPages \cup M) <= Cardinality(EntryPages) + Cardinality(M)
    BY <1>1, <1>2, <1>3
  <2>3. /\ IsFiniteSet((EntryPages \cup M) \cup DraftPages)
        /\ Cardinality((EntryPages \cup M) \cup DraftPages) <= Cardinality(EntryPages \cup M) + Cardinality(DraftPages)
    BY <1>1, <1>4, <2>2
  <2>4. /\ IsFiniteSet(((EntryPages \cup M) \cup DraftPages) \cup F)
        /\ Cardinality(((EntryPages \cup M) \cup DraftPages) \cup F) <= Cardinality((EntryPages \cup M) \cup DraftPages) + Cardinality(F)
    BY <1>1, <1>5, <2>3
  <2>5. Cardinality(Pages) <= Cardinality(((EntryPages \cup M) \cup DraftPages) \cup F)
    BY <2>1, <2>4, FS_Subset
  <2>6. /\ Cardinality(EntryPages) \in Nat /\ Cardinality(M) \in Nat /\ Cardinality(DraftPages) \in Nat
        /\ Cardinality(EntryPages \cup M) \in Nat /\ Cardinality((EntryPages \cup M) \cup DraftPages) \in Nat
        /\ Cardinality(((EntryPages \cup M) \cup DraftPages) \cup F) \in Nat /\ Cardinality(Pages) \in Nat
    BY <1>2, <1>3, <1>4, <2>2, <2>3, <2>4, LogAssumption, FS_CardinalityType
  <2> QED BY <1>2, <1>3, <1>4, <1>5, <2>2, <2>3, <2>4, <2>5, <2>6, LogAssumption
<1>8. page \in free
  <2>1. free \in SUBSET Nat
    BY LogAssumption
  <2>2. page = CHOOSE x \in free : \A y \in free : x <= y
    BY <1>6 DEF L!Min
  <2> HIDE DEF free, page
  <2>3. \E x \in free : \A y \in free : x <= y
    BY <1>7, <2>1, LeastNatural
  <2> QED BY <2>2, <2>3
<1> HIDE DEF page
<1> QED BY <1>8 DEF page

(* A message whose status alone changes. *)
LEMMA StatusOnly ==
  ASSUME NEW m \in MessageRecords, NEW s \in 0 .. 2
  PROVE  LET n == [m EXCEPT !.status = s]
         IN  /\ n \in MessageRecords
             /\ n.status = s
             /\ n.stid = m.stid /\ n.page = m.page /\ n.from = m.from
BY DEF MessageRecords

(* The entry a frame is entered at: that of its sender, the next one, or    *)
(* one of the others (header_match, update_aprs).                           *)
LEMMA LogPlace ==
  ASSUME LogTyped, LogUsed, NEW sign \in Callers \cup {OwnCall}
  PROVE  LET n == L!Place(sign)
         IN  /\ L!Known(sign) # {} => n \in 0 .. log_num /\ log_stations[n].sign = sign
             /\ L!Known(sign) = {} /\ log_num < LogEntries => n = log_num + 1
             /\ L!Known(sign) = {} /\ log_num = LogEntries => n \in 1 .. log_num
<1> DEFINE n == L!Place(sign)
<1>0. LogEntries \in Nat /\ LogEntries >= 1 /\ log_num \in 0 .. LogEntries /\ sign # "blank"
  BY LogAssumption DEF LogTyped
<1>1. CASE L!Known(sign) # {}
  <2>1. n = CHOOSE x \in L!Known(sign) : \A y \in L!Known(sign) : x <= y
    BY <1>1 DEF L!Place, L!Min
  <2>2. L!Known(sign) \in SUBSET Nat
    BY DEF L!Known
  <2>3. n \in L!Known(sign)
    BY <1>1, <2>1, <2>2, LeastNatural
  <2>4. n \in 0 .. LogEntries /\ log_stations[n].sign = sign
    BY <2>3 DEF L!Known
  <2>5. n \in 0 .. log_num
    BY <1>0, <2>4 DEF LogUsed
  <2> QED BY <1>1, <2>4, <2>5
<1>2. CASE L!Known(sign) = {} /\ log_num < LogEntries
  BY <1>0, <1>2 DEF L!Place
<1>3. CASE L!Known(sign) = {} /\ log_num = LogEntries
  <2>1. n = IF L!Older # {} THEN L!Min(L!Oldest) ELSE 1
    BY <1>0, <1>3 DEF L!Place
  <2>2. CASE L!Older # {}
    <3> DEFINE f == [i \in 1 .. LogEntries |-> log_stations[i].minutes]
    <3>1. \A i \in L!Older : i \in 1 .. LogEntries /\ f[i] = log_stations[i].minutes /\ f[i] \in Nat
      BY DEF L!Older, LogTyped, StationRecords
    <3> HIDE DEF f
    <3>2. Least(f, L!Older) # {}
      BY <2>2, <3>1, LeastNonEmpty
    <3>3. L!Oldest = Least(f, L!Older)
      BY <3>1 DEF L!Oldest, Least
    <3>4. L!Oldest \in SUBSET Nat /\ L!Oldest \in SUBSET (1 .. LogEntries)
      BY <3>1 DEF L!Oldest
    <3>5. L!Min(L!Oldest) \in L!Oldest
      BY <3>2, <3>3, <3>4, LeastNatural DEF L!Min
    <3>6. n \in 1 .. log_num
      BY <1>0, <1>3, <2>1, <2>2, <3>4, <3>5
    <3> HIDE DEF n
    <3> QED BY <1>0, <1>3, <3>6 DEF n
  <2>3. CASE L!Older = {}
    BY <1>0, <1>3, <2>1, <2>3
  <2> QED BY <2>2, <2>3
<1> QED BY <1>0, <1>1, <1>2, <1>3

(* Nothing is logged at first. *)
LEMMA LogInit == L!Init => LogInv
<1> SUFFICES ASSUME L!Init PROVE LogInv
  OBVIOUS
<1>1. LogTyped
  BY LogAssumption DEF L!Init, L!Blank, L!Empty, L!NoPage, L!NoMessage, LogTyped, StationRecords,
     MessageRecords, Signs
<1>2. Stored = {}
  BY DEF L!Init, L!Empty, Stored
<1>3. LogUsed
  BY <1>2, LogAssumption DEF L!Init, L!Blank, L!NoPage, LogUsed
<1>4. StationsApart /\ MessagesApart /\ DraftsApart
  BY <1>2, LogAssumption DEF L!Init, L!NoPage, StationsApart, MessagesApart, DraftsApart
<1> QED BY <1>1, <1>3, <1>4 DEF LogInv

(* A frame of another station takes the page and the slot of nobody else,   *)
(* and an entry that is given up takes its messages with it (update_aprs,   *)
(* add_message, remove_station).                                            *)
LEMMA LogReceives ==
  ASSUME LogInv, NEW sign \in Callers \cup {OwnCall}, NEW id \in Ids \cup {"none"},
         L!Receive(sign, id)
  PROVE  LogInv'
<1> DEFINE n     == L!Place(sign)
           count == IF L!Known(sign) = {} /\ log_num < LogEntries THEN log_num + 1 ELSE log_num
           kept  == L!Kept(sign)
           page  == L!FreePage(count, kept)
           named == IF n = 0 THEN "none" ELSE id
           slot  == L!SlotFor(kept, n, named)
           entry == [sign |-> sign, page |-> page, minutes |-> log_timeval]
           new   == [stid |-> n, ackid |-> named, page |-> page, status |-> 1, from |-> sign]
<1>0. LogEntries \in Nat /\ log_num \in 0 .. LogEntries /\ sign # "blank" /\ sign \in Signs
  BY LogAssumption DEF LogInv, LogTyped, Signs
<1>1. /\ count \in 0 .. LogEntries /\ n \in 0 .. count /\ log_num <= count
      /\ \A i \in 0 .. count : i # n => i \in 0 .. log_num
      /\ n \in 0 .. log_num => log_stations[n].sign = sign \/ L!Evicting(sign)
      /\ \A i \in 0 .. LogEntries : i > count => i > log_num /\ i # n
  <2>1. CASE L!Known(sign) # {}
    BY <1>0, <2>1, LogPlace DEF LogInv
  <2>2. CASE L!Known(sign) = {} /\ log_num < LogEntries
    <3>1. n = log_num + 1
      BY <2>2, LogPlace DEF LogInv
    <3> HIDE DEF n
    <3> QED BY <1>0, <2>2, <3>1
  <2>3. CASE L!Known(sign) = {} /\ log_num = LogEntries
    <3>1. n \in 1 .. log_num
      BY <2>3, LogPlace DEF LogInv
    <3> HIDE DEF n
    <3> QED BY <1>0, <2>3, <3>1 DEF L!Evicting
  <2> QED BY <1>0, <2>1, <2>2, <2>3
<1>2. /\ kept \in [1 .. MessageSlots -> MessageRecords]
      /\ \A i \in 1 .. MessageSlots : kept[i].status > 0 =>
           /\ i \in Stored
           /\ ~(L!Evicting(sign) /\ log_messages[i].stid = n)
           /\ kept[i].stid = log_messages[i].stid
           /\ kept[i].page = log_messages[i].page
           /\ kept[i].from = log_messages[i].from
  <2>1. DOMAIN log_messages = 1 .. MessageSlots
        /\ \A i \in 1 .. MessageSlots : log_messages[i] \in MessageRecords
    BY DEF LogInv, LogTyped
  <2>2. kept = [i \in 1 .. MessageSlots |->
                  IF L!Evicting(sign) /\ log_messages[i].stid = n
                  THEN [log_messages[i] EXCEPT !.status = 0] ELSE log_messages[i]]
    BY <2>1 DEF L!Kept
  <2> HIDE DEF kept, n
  <2>3. ASSUME NEW i \in 1 .. MessageSlots
        PROVE  /\ kept[i] \in MessageRecords
               /\ kept[i].status > 0 =>
                    /\ i \in Stored
                    /\ ~(L!Evicting(sign) /\ log_messages[i].stid = n)
                    /\ kept[i] = log_messages[i]
    <3>1. CASE L!Evicting(sign) /\ log_messages[i].stid = n
      <4>1. kept[i] = [log_messages[i] EXCEPT !.status = 0]
        BY <2>2, <3>1
      <4>2. 0 \in 0 .. 2
        OBVIOUS
      <4>3. \A m \in MessageRecords : /\ [m EXCEPT !.status = 0] \in MessageRecords
                                      /\ [m EXCEPT !.status = 0].status = 0
        BY <4>2, StatusOnly
      <4>4. kept[i] \in MessageRecords /\ kept[i].status = 0
        BY <2>1, <4>1, <4>3, Zenon
      <4> QED BY <4>4
    <3>2. CASE ~(L!Evicting(sign) /\ log_messages[i].stid = n)
      BY <2>1, <2>2, <3>2 DEF Stored
    <3> QED BY <3>1, <3>2
  <2> QED BY <2>2, <2>3
<1>3. /\ page \in Pages /\ page # log_found
      /\ \A i \in 0 .. count : log_stations[i].page # page
      /\ \A i \in 1 .. MessageSlots : kept[i].status > 0 => kept[i].page # page
      /\ \A d \in 1 .. Drafts : log_drafts[d] # page
  <2> HIDE DEF count, kept
  <2> QED BY <1>1, <1>2, PageIsFree DEF LogInv
<1>4. /\ log_num' = count /\ log_found = 0 /\ log_found' = 0
      /\ log_stations' = [log_stations EXCEPT ![n] = entry]
      /\ log_messages' = L!Stored(kept, n, named, page, sign)
      /\ log_drafts' = log_drafts /\ log_timeval' = log_timeval
  BY DEF L!Receive, L!NoPage, L!NoMessage
<1>5. \A i, k \in slot : i = k
  BY DEF L!SlotFor
<1>6. named # "none" => n \in 1 .. count
  BY <1>1
<1>7. entry \in StationRecords
  BY <1>0, <1>3 DEF StationRecords, LogInv, LogTyped
<1>8. new \in MessageRecords
  BY <1>0, <1>1, <1>3 DEF MessageRecords
<1>9. \A i \in 1 .. MessageSlots :
        \/ i \in slot /\ n \in 1 .. count /\ log_messages'[i] = new
        \/ log_messages'[i] = kept[i]
  BY <1>2, <1>4, <1>6 DEF L!Stored, L!NoMessage
<1>10. log_messages' \in [1 .. MessageSlots -> MessageRecords]
  <2>1. log_messages' = [i \in 1 .. MessageSlots |->
                           IF named # "none" /\ i \in slot THEN new ELSE kept[i]]
    BY <1>2, <1>4 DEF L!Stored, L!NoMessage
  <2> HIDE DEF new, kept, slot, named
  <2> QED BY <1>2, <1>8, <2>1
<1>11. /\ log_stations' \in [0 .. LogEntries -> StationRecords]
       /\ log_stations'[n] = entry
       /\ \A i \in 0 .. LogEntries : i # n => log_stations'[i] = log_stations[i]
  <2> HIDE DEF entry, n, count
  <2>1. n \in 0 .. LogEntries
    BY <1>0, <1>1
  <2>2. log_stations \in [0 .. LogEntries -> StationRecords]
    BY DEF LogInv, LogTyped
  <2> QED BY <1>4, <1>7, <2>1, <2>2
<1>12. entry.sign = sign /\ entry.page = page
  OBVIOUS
<1>13. new.stid = n /\ new.page = page /\ new.from = sign /\ new.status = 1
  OBVIOUS
<1> HIDE DEF n, count, kept, page, named, slot, entry, new
<1>14. LogTyped'
  BY <1>1, <1>4, <1>10, <1>11 DEF LogInv, LogTyped
<1>15. \A i \in Stored' : i \in 1 .. MessageSlots /\ log_messages'[i].status > 0
  BY DEF Stored
<1>16. ASSUME NEW i \in Stored'
       PROVE  \/ /\ i \in slot /\ n \in 1 .. count
                 /\ log_messages'[i].stid = n /\ log_messages'[i].page = page
                 /\ log_messages'[i].from = sign
              \/ /\ i \in Stored
                 /\ ~(L!Evicting(sign) /\ log_messages[i].stid = n)
                 /\ log_messages'[i].stid = log_messages[i].stid
                 /\ log_messages'[i].page = log_messages[i].page
                 /\ log_messages'[i].from = log_messages[i].from
                 /\ log_messages[i].page # page
  BY <1>2, <1>3, <1>9, <1>13, <1>15
<1>17. \A i \in Stored : log_messages[i].stid \in 1 .. log_num /\ log_messages[i].page \in Pages
  BY DEF LogInv, LogUsed
<1>18. \A i \in 0 .. count : i # n => i \in 0 .. log_num /\ log_stations'[i] = log_stations[i]
                                     /\ log_stations[i].page # page
  <2> SUFFICES ASSUME NEW i \in 0 .. count, i # n
               PROVE  i \in 0 .. log_num /\ log_stations'[i] = log_stations[i]
                        /\ log_stations[i].page # page
    BY Zenon
  <2>1. i \in 0 .. LogEntries
    <3>1. count \in 0 .. LogEntries
      BY Zenon, <1>1
    <3> QED BY <1>0, <3>1
  <2> QED BY Zenon, <1>1, <1>3, <1>11, <2>1
<1>19. LogUsed'
  <2>1. \A i \in 1 .. count : log_stations'[i].page \in Pages
    <3> TAKE i \in 1 .. count
    <3>1. CASE i = n
      BY <1>3, <1>11, <1>12, <3>1
    <3>2. CASE i # n
      <4>1. i \in 0 .. count /\ i # 0
        BY <1>1
      <4>2. i \in 1 .. log_num /\ log_stations'[i] = log_stations[i]
        BY <1>0, <1>18, <3>2, <4>1
      <4> QED BY <4>2 DEF LogInv, LogUsed
    <3> QED BY <3>1, <3>2
  <2>2. \A i \in 0 .. LogEntries : i > count => log_stations'[i].sign = "blank"
    BY <1>1, <1>11 DEF LogInv, LogUsed
  <2>3. \A i \in Stored' : log_messages'[i].stid \in 1 .. count /\ log_messages'[i].page \in Pages
    BY <1>0, <1>1, <1>3, <1>16, <1>17
  <2> QED BY <1>4, <2>1, <2>2, <2>3 DEF LogUsed
<1>20. StationsApart'
  <2> SUFFICES ASSUME NEW i \in 1 .. count, NEW j \in 0 .. count, i # j
               PROVE  log_stations'[i].page # log_stations'[j].page
    BY <1>4 DEF StationsApart
  <2>0. i \in 0 .. count /\ i # 0
    BY <1>1
  <2>1. CASE i = n
    BY <1>11, <1>12, <1>18, <2>1
  <2>2. CASE j = n
    BY <1>11, <1>12, <1>18, <2>0, <2>2
  <2>3. CASE i # n /\ j # n
    <3>1. i \in 1 .. log_num /\ j \in 0 .. log_num
      BY <1>0, <1>18, <2>0, <2>3
    <3> QED BY <1>18, <2>0, <2>3, <3>1 DEF LogInv, StationsApart
  <2> QED BY <2>1, <2>2, <2>3
<1>21. MessagesApart'
  <2> SUFFICES ASSUME NEW i \in Stored'
               PROVE  /\ log_stations'[log_messages'[i].stid].sign = log_messages'[i].from
                      /\ \A j \in 0 .. count \ {log_messages'[i].stid} :
                           log_stations'[j].page # log_messages'[i].page
                      /\ \A k \in Stored' \ {i} : log_messages'[k].page # log_messages'[i].page
    BY <1>4 DEF MessagesApart
  <2>1. CASE /\ i \in slot /\ log_messages'[i].stid = n /\ log_messages'[i].page = page
             /\ log_messages'[i].from = sign
    <3>1. log_stations'[n].sign = sign
      BY <1>11, <1>12
    <3>2. \A j \in 0 .. count \ {n} : log_stations'[j].page # page
      BY <1>18
    <3>3. \A k \in Stored' \ {i} : log_messages'[k].page # page
      BY <1>5, <1>16, <2>1
    <3> QED BY <2>1, <3>1, <3>2, <3>3
  <2>2. CASE /\ i \in Stored
             /\ ~(L!Evicting(sign) /\ log_messages[i].stid = n)
             /\ log_messages'[i].stid = log_messages[i].stid
             /\ log_messages'[i].page = log_messages[i].page
             /\ log_messages'[i].from = log_messages[i].from
             /\ log_messages[i].page # page
    <3> DEFINE m == log_messages[i].stid
    <3>1. m \in 1 .. log_num /\ m \in 0 .. log_num /\ m \in 0 .. count /\ m \in 0 .. LogEntries
      BY <1>0, <1>1, <1>17, <2>2
    <3>2. /\ log_stations[m].sign = log_messages[i].from
          /\ \A j \in 0 .. log_num \ {m} : log_stations[j].page # log_messages[i].page
          /\ \A k \in Stored \ {i} : log_messages[k].page # log_messages[i].page
      BY <2>2 DEF LogInv, MessagesApart
    <3>3. log_stations'[m].sign = log_messages[i].from
      <4>1. CASE m = n
        BY <1>1, <1>11, <1>12, <2>2, <3>1, <3>2, <4>1
      <4>2. CASE m # n
        BY <1>11, <3>1, <3>2, <4>2
      <4> QED BY <4>1, <4>2
    <3> HIDE DEF m
    <3>4. \A j \in 0 .. count \ {m} : log_stations'[j].page # log_messages[i].page
      <4> TAKE j \in 0 .. count \ {m}
      <4>1. CASE j = n
        BY <1>11, <1>12, <2>2, <4>1
      <4>2. CASE j # n
        BY <1>18, <3>2, <4>2
      <4> QED BY <4>1, <4>2
    <3>5. \A k \in Stored' \ {i} : log_messages'[k].page # log_messages[i].page
      BY <1>16, <2>2, <3>2
    <3> QED BY <2>2, <3>3, <3>4, <3>5 DEF m
  <2> QED BY <1>16, <2>1, <2>2
<1>22. DraftsApart'
  <2> SUFFICES ASSUME NEW d \in 1 .. Drafts, log_drafts[d] # 0
               PROVE  /\ \A i \in 1 .. count : log_stations'[i].page # log_drafts[d]
                      /\ \A i \in Stored' : log_messages'[i].page # log_drafts[d]
    BY <1>4 DEF DraftsApart
  <2>1. /\ \A i \in 1 .. log_num : log_stations[i].page # log_drafts[d]
        /\ \A i \in Stored : log_messages[i].page # log_drafts[d]
        /\ log_drafts[d] # page
    BY <1>3 DEF LogInv, DraftsApart
  <2>2. ASSUME NEW i \in 1 .. count PROVE log_stations'[i].page # log_drafts[d]
    <3>0. i \in 0 .. count /\ i # 0
      BY <1>1
    <3>1. CASE i = n
      BY <1>11, <1>12, <2>1, <3>1
    <3>2. CASE i # n
      <4>1. i \in 1 .. log_num
        BY <1>0, <1>18, <3>0, <3>2
      <4> QED BY <1>18, <2>1, <3>0, <3>2, <4>1
    <3> QED BY <3>1, <3>2
  <2>3. \A i \in Stored' : log_messages'[i].page # log_drafts[d]
    BY <1>16, <2>1
  <2> QED BY <2>2, <2>3
<1> QED BY <1>14, <1>19, <1>20, <1>21, <1>22 DEF LogInv

(* Nothing in LogInv depends on more than these. *)
LEMMA LogSame ==
  ASSUME LogInv, UNCHANGED <<log_stations, log_num, log_drafts, log_found>>,
         log_timeval' \in Nat,
         log_messages' \in [1 .. MessageSlots -> MessageRecords],
         \A i \in 1 .. MessageSlots :
           /\ log_messages'[i].stid = log_messages[i].stid
           /\ log_messages'[i].page = log_messages[i].page
           /\ log_messages'[i].from = log_messages[i].from
           /\ log_messages'[i].status > 0 => log_messages[i].status > 0
  PROVE  LogInv'
<1>1. LogTyped'
  BY DEF LogInv, LogTyped
<1>2. \A i \in Stored' :
        /\ i \in Stored
        /\ log_messages'[i].stid = log_messages[i].stid
        /\ log_messages'[i].page = log_messages[i].page
        /\ log_messages'[i].from = log_messages[i].from
  BY DEF Stored
<1>3. LogUsed'
  BY <1>2 DEF LogInv, LogUsed
<1>4. StationsApart'
  BY DEF LogInv, StationsApart
<1>5. MessagesApart'
  BY <1>2 DEF LogInv, MessagesApart
<1>6. DraftsApart'
  BY <1>2 DEF LogInv, DraftsApart
<1> QED BY <1>1, <1>3, <1>4, <1>5, <1>6 DEF LogInv

(* A beacon may come between the search for a draft's page and its use; the *)
(* page is then the beacon's too, but still nobody else's (send_beacon).    *)
LEMMA LogBeacon ==
  ASSUME LogInv, L!Beacon
  PROVE  LogInv'
<1> DEFINE page == L!FreePage(log_num, log_messages)
<1>0. LogEntries \in Nat /\ log_num \in 0 .. LogEntries
      /\ log_messages \in [1 .. MessageSlots -> MessageRecords]
      /\ log_stations \in [0 .. LogEntries -> StationRecords]
  BY LogAssumption DEF LogInv, LogTyped
<1>1. /\ page \in Pages
      /\ \A i \in 0 .. log_num : log_stations[i].page # page
      /\ \A i \in Stored : log_messages[i].page # page
      /\ \A d \in 1 .. Drafts : log_drafts[d] # page
  BY <1>0, PageIsFree DEF LogInv, Stored
<1>2. /\ log_stations' = [log_stations EXCEPT ![0].page = page]
      /\ log_found' = 0 \/ log_found' = page
      /\ UNCHANGED <<log_num, log_messages, log_drafts, log_timeval>>
  BY DEF L!Beacon, L!NoPage
<1> HIDE DEF page
<1>3. ASSUME NEW r \in StationRecords
      PROVE  LET n == [r EXCEPT !.page = page]
             IN n \in StationRecords /\ n.sign = r.sign /\ n.page = page
  BY <1>1 DEF StationRecords
<1>4. /\ log_stations' \in [0 .. LogEntries -> StationRecords]
      /\ log_stations'[0].sign = log_stations[0].sign /\ log_stations'[0].page = page
      /\ \A i \in 0 .. LogEntries : i # 0 => log_stations'[i] = log_stations[i]
  <2>1. 0 \in 0 .. LogEntries /\ log_stations[0] \in StationRecords
    BY <1>0
  <2>2. \A r \in StationRecords :
          /\ [r EXCEPT !.page = page] \in StationRecords
          /\ [r EXCEPT !.page = page].sign = r.sign
          /\ [r EXCEPT !.page = page].page = page
    BY <1>3
  <2> DEFINE n == [log_stations[0] EXCEPT !.page = page]
  <2>3. n \in StationRecords /\ n.sign = log_stations[0].sign /\ n.page = page
    BY <2>1, <2>2, Zenon
  <2>4. log_stations' = [log_stations EXCEPT ![0] = n]
    BY <1>2
  <2> HIDE DEF n
  <2> QED BY <1>0, <2>1, <2>3, <2>4
<1>5. Stored' = Stored /\ \A i \in 1 .. log_num : i \in 0 .. log_num /\ i # 0 /\ log_stations'[i] = log_stations[i]
  BY <1>0, <1>2, <1>4 DEF Stored
<1>6. \A i \in 0 .. log_num : i \in 0 .. LogEntries /\ log_stations'[i].sign = log_stations[i].sign
  BY <1>0, <1>4
<1>7. LogTyped'
  BY <1>1, <1>2, <1>4 DEF LogInv, LogTyped
<1>8. LogUsed'
  <2>1. \A i \in 0 .. LogEntries : i > log_num => i # 0
    BY <1>0
  <2>2. log_found' # 0 => /\ \A i \in 1 .. log_num : log_stations'[i].page # log_found'
                          /\ \A i \in Stored : log_messages[i].page # log_found'
    BY <1>1, <1>2, <1>5
  <2> QED BY <1>2, <1>4, <1>5, <2>1, <2>2 DEF LogInv, LogUsed
<1>9. StationsApart'
  <2> SUFFICES ASSUME NEW i \in 1 .. log_num, NEW j \in 0 .. log_num, i # j
               PROVE  log_stations'[i].page # log_stations'[j].page
    BY <1>2 DEF StationsApart
  <2>1. CASE j = 0
    BY <1>1, <1>4, <1>5, <2>1
  <2>2. CASE j # 0
    BY <1>4, <1>5, <1>6, <2>2 DEF LogInv, StationsApart
  <2> QED BY <2>1, <2>2
<1>10. MessagesApart'
  <2> SUFFICES ASSUME NEW i \in Stored
               PROVE  /\ log_stations'[log_messages[i].stid].sign = log_messages[i].from
                      /\ \A j \in 0 .. log_num \ {log_messages[i].stid} :
                           log_stations'[j].page # log_messages[i].page
                      /\ \A k \in Stored \ {i} : log_messages[k].page # log_messages[i].page
    BY <1>2, <1>5 DEF MessagesApart
  <2>1. log_messages[i].stid \in 1 .. log_num
    BY DEF LogInv, LogUsed
  <2>2. /\ log_stations[log_messages[i].stid].sign = log_messages[i].from
        /\ \A j \in 0 .. log_num \ {log_messages[i].stid} :
             log_stations[j].page # log_messages[i].page
        /\ \A k \in Stored \ {i} : log_messages[k].page # log_messages[i].page
    BY DEF LogInv, MessagesApart
  <2>3. ASSUME NEW j \in 0 .. log_num \ {log_messages[i].stid}
        PROVE  log_stations'[j].page # log_messages[i].page
    <3>1. CASE j = 0
      BY <1>1, <1>4, <3>1
    <3>2. CASE j # 0
      BY <1>4, <1>6, <2>2, <2>3, <3>2
    <3> QED BY <3>1, <3>2
  <2> QED BY <1>5, <2>1, <2>2, <2>3
<1>11. DraftsApart'
  BY <1>2, <1>5 DEF LogInv, DraftsApart
<1> QED BY <1>7, <1>8, <1>9, <1>10, <1>11 DEF LogInv

(* Every step keeps it. *)
LEMMA LogNext == LogInv /\ L!Next => LogInv'
<1> SUFFICES ASSUME LogInv, L!Next PROVE LogInv'
  OBVIOUS
<1>0. /\ DOMAIN log_messages = 1 .. MessageSlots /\ DOMAIN log_drafts = 1 .. Drafts
      /\ log_messages \in [1 .. MessageSlots -> MessageRecords]
      /\ \A i \in 1 .. MessageSlots : log_messages[i] \in MessageRecords
      /\ log_timeval \in Nat
  BY DEF LogInv, LogTyped
<1>1. CASE \E sign \in Callers \cup {OwnCall}, id \in Ids \cup {"none"} : L!Receive(sign, id)
  BY <1>1, LogReceives
<1>2. CASE L!Beacon
  BY <1>2, LogBeacon
<1>3. CASE L!FindPage
  <2> DEFINE page == L!FreePage(log_num, log_messages)
  <2>0. log_num \in 0 .. LogEntries /\ LogEntries \in Nat
    BY LogAssumption DEF LogInv, LogTyped
  <2>1. /\ page \in Pages
        /\ \A i \in 0 .. log_num : log_stations[i].page # page
        /\ \A i \in Stored : log_messages[i].page # page
    BY <1>0, <2>0, PageIsFree DEF LogInv, Stored
  <2>2. log_found' = page /\ UNCHANGED <<log_stations, log_num, log_messages, log_drafts, log_timeval>>
    BY <1>3 DEF L!FindPage
  <2> HIDE DEF page
  <2>3. Stored' = Stored
    BY <2>2 DEF Stored
  <2>4. LogTyped'
    BY <2>1, <2>2 DEF LogInv, LogTyped
  <2>5. LogUsed'
    BY <2>0, <2>1, <2>2, <2>3 DEF LogInv, LogUsed
  <2> QED BY <2>2, <2>3, <2>4, <2>5 DEF LogInv, StationsApart, MessagesApart, DraftsApart
<1>4. ASSUME NEW d \in 1 .. Drafts, L!WriteDraft(d) PROVE LogInv'
  <2>1. /\ log_found # 0 /\ log_found' = 0
        /\ log_drafts' = [log_drafts EXCEPT ![d] = log_found]
        /\ UNCHANGED <<log_stations, log_num, log_messages, log_timeval>>
    BY <1>4 DEF L!WriteDraft, L!NoPage
  <2>2. Stored' = Stored
    BY <2>1 DEF Stored
  <2>3. LogTyped' /\ LogUsed'
    BY <2>1, <2>2 DEF LogInv, LogTyped, LogUsed
  <2>4. /\ \A i \in 1 .. log_num : log_stations[i].page # log_found
        /\ \A i \in Stored : log_messages[i].page # log_found
    BY <2>1 DEF LogInv, LogUsed
  <2>5. DraftsApart'
    BY <2>1, <2>2, <2>4 DEF LogInv, LogTyped, DraftsApart
  <2> QED BY <2>1, <2>2, <2>3, <2>5 DEF LogInv, StationsApart, MessagesApart
<1>5. ASSUME NEW s \in {0, 2}, NEW chosen \in SUBSET Stored,
             log_messages' = [i \in 1 .. MessageSlots |->
                                IF i \in chosen THEN [log_messages[i] EXCEPT !.status = s]
                                                ELSE log_messages[i]],
             UNCHANGED <<log_stations, log_num, log_drafts, log_found, log_timeval>>
      PROVE  LogInv'
  <2>1. s \in 0 .. 2
    OBVIOUS
  <2>2. \A m \in MessageRecords :
          LET n == [m EXCEPT !.status = s]
          IN  n \in MessageRecords /\ n.stid = m.stid /\ n.page = m.page /\ n.from = m.from
    BY <2>1, StatusOnly
  <2>3. ASSUME NEW i \in 1 .. MessageSlots
        PROVE  /\ log_messages'[i] \in MessageRecords
               /\ log_messages'[i].stid = log_messages[i].stid
               /\ log_messages'[i].page = log_messages[i].page
               /\ log_messages'[i].from = log_messages[i].from
               /\ log_messages'[i].status > 0 => log_messages[i].status > 0
    <3>1. CASE i \in chosen
      <4>1. log_messages'[i] = [log_messages[i] EXCEPT !.status = s]
        BY <1>5, <3>1
      <4>2. log_messages[i].status > 0
        BY <3>1 DEF Stored
      <4> QED BY <1>0, <2>2, <4>1, <4>2, Zenon
    <3>2. CASE i \notin chosen
      BY <1>0, <1>5, <3>2
    <3> QED BY <3>1, <3>2
  <2>4. log_messages' \in [1 .. MessageSlots -> MessageRecords]
    BY <1>5, <2>3
  <2> QED BY <1>0, <1>5, <2>3, <2>4, LogSame
<1>6. ASSUME NEW i \in 1 .. MessageSlots, L!ReadMessage(i) PROVE LogInv'
  <2>1. log_messages' = [j \in 1 .. MessageSlots |->
                           IF j \in {i} THEN [log_messages[j] EXCEPT !.status = 2]
                                        ELSE log_messages[j]]
    BY <1>0, <1>6 DEF L!ReadMessage
  <2>2. {i} \in SUBSET Stored
    BY <1>6 DEF L!ReadMessage, Stored
  <2>3. UNCHANGED <<log_stations, log_num, log_drafts, log_found, log_timeval>>
    BY <1>6 DEF L!ReadMessage
  <2> QED BY <1>5, <2>1, <2>2, <2>3
<1>7. ASSUME NEW statuses \in SUBSET {1, 2}, L!DeleteMessages(statuses) PROVE LogInv'
  <2> DEFINE chosen == {i \in 1 .. MessageSlots : log_messages[i].status \in statuses}
  <2>1. log_messages' = [j \in 1 .. MessageSlots |->
                           IF j \in chosen THEN [log_messages[j] EXCEPT !.status = 0]
                                           ELSE log_messages[j]]
    BY <1>0, <1>7 DEF L!DeleteMessages
  <2>2. chosen \in SUBSET Stored
    <3>1. \A x \in statuses : x > 0
      OBVIOUS
    <3>2. \A i \in chosen : i \in 1 .. MessageSlots /\ log_messages[i].status > 0
      BY <3>1
    <3> HIDE DEF chosen
    <3> QED BY <3>2 DEF Stored
  <2>3. UNCHANGED <<log_stations, log_num, log_drafts, log_found, log_timeval>>
    BY <1>7 DEF L!DeleteMessages
  <2> HIDE DEF chosen
  <2> QED BY <1>5, <2>1, <2>2, <2>3
<1>8. CASE L!TimePasses
  <2>1. /\ UNCHANGED <<log_stations, log_num, log_messages, log_drafts, log_found>>
        /\ log_timeval' = log_timeval + 1
    BY <1>8 DEF L!TimePasses
  <2>2. Stored' = Stored
    BY <2>1 DEF Stored
  <2>3. LogTyped' /\ LogUsed'
    BY <1>0, <2>1, <2>2 DEF LogInv, LogTyped, LogUsed
  <2> QED BY <2>1, <2>2, <2>3 DEF LogInv, StationsApart, MessagesApart, DraftsApart
<1> QED
  <2>1. {2} \in SUBSET {1, 2} /\ {1, 2} \in SUBSET {1, 2}
    OBVIOUS
  <2> QED BY <1>0, <1>1, <1>2, <1>3, <1>4, <1>6, <1>7, <1>8, <2>1 DEF L!Next, L!NoMessage
-----------------------------------------------------------------------------
(* The components side by side: a step of all of them is one of a given   *)
(* component or leaves its variables alone.                               *)
LEMMA RemoteAlone == [Next]_vars => R!Next \/ UNCHANGED remVars
BY Zenon DEF Next, PositionStep, IngestStep, StatisticsStep, RemoteStep, EditorStep, ConfigFileStep,
       EventBusStep, KissLinkStep, Ax25Step, RequestsStep, SchedulerStep, StationLogStep,
       SettingsStep, ListViewStep, DigiPathStep, QueryStep, vars

(* The invariant of the remote control holds in every run.                *)
LEMMA RemoteHolds == Spec => []RemoteInv
<1>1. Init => RemoteInv
  BY RemoteInit DEF Init
<1>2. RemoteInv /\ UNCHANGED remVars => RemoteInv'
  BY DEF RemoteInv, KeysTyped, R!UsedOnlyInside, R!Positions, remVars
<1>3. RemoteInv /\ [Next]_vars => RemoteInv'
  BY <1>2, RemoteAlone, RemoteNext
<1> QED BY <1>1, <1>3, PTL DEF Spec

(* What is not a step of the queries of the old program leaves its        *)
(* variables alone.                                                       *)
LEMMA QueryAlone == [Next]_vars => U!Next \/ UNCHANGED qryVars
BY Zenon DEF Next, PositionStep, IngestStep, StatisticsStep, RemoteStep, EditorStep, ConfigFileStep,
       EventBusStep, KissLinkStep, Ax25Step, RequestsStep, SchedulerStep, StationLogStep,
       SettingsStep, ListViewStep, DigiPathStep, QueryStep, vars

(* The invariant of the queries of the old program holds in every run.    *)
LEMMA QueryHolds == Spec => []QueryInv
<1>1. Init => QueryInv
  BY QueryInit DEF Init
<1>2. QueryInv /\ UNCHANGED qryVars => QueryInv'
  BY DEF QueryInv, U!AnsweredOnce, U!Outstanding, U!Positions, qryVars
<1>3. QueryInv /\ [Next]_vars => QueryInv'
  BY <1>2, QueryAlone, QueryNext
<1> QED BY <1>1, <1>3, PTL DEF Spec

(* What is not a step of the frame ingest leaves its variables alone.     *)
LEMMA IngestAlone == [Next]_vars => I!Next \/ UNCHANGED ingVars
BY Zenon DEF Next, PositionStep, IngestStep, StatisticsStep, RemoteStep, EditorStep, ConfigFileStep,
       EventBusStep, KissLinkStep, Ax25Step, RequestsStep, SchedulerStep, StationLogStep,
       SettingsStep, ListViewStep, DigiPathStep, QueryStep, vars

(* The invariant of the frame ingest holds in every run.                  *)
LEMMA IngestHolds == Spec => []IngestInv
<1>1. Init => IngestInv
  BY IngestInit DEF Init
<1>2. IngestInv /\ UNCHANGED ingVars => IngestInv'
  BY DEF IngestInv, I!MemoryExact, I!Entries, ingVars
<1>3. IngestInv /\ [Next]_vars => IngestInv'
  BY <1>2, IngestAlone, IngestNext
<1> QED BY <1>1, <1>3, PTL DEF Spec

(* What is not a step of the statistics leaves its variables alone.       *)
LEMMA StatisticsAlone == [Next]_vars => T!Next \/ UNCHANGED statVars
BY Zenon DEF Next, PositionStep, IngestStep, StatisticsStep, RemoteStep, EditorStep, ConfigFileStep,
       EventBusStep, KissLinkStep, Ax25Step, RequestsStep, SchedulerStep, StationLogStep,
       SettingsStep, ListViewStep, DigiPathStep, QueryStep, vars

(* The invariant of the statistics holds in every run.                    *)
LEMMA StatisticsHolds == Spec => []StatInv
<1>1. Init => StatInv
  BY StatInit DEF Init
<1>2. StatInv /\ UNCHANGED statVars => StatInv'
  BY DEF StatInv, statVars
<1>3. StatInv /\ [Next]_vars => StatInv'
  BY <1>2, StatisticsAlone, StatNext
<1> QED BY <1>1, <1>3, PTL DEF Spec

(* What is not a step of the editor leaves its variables alone.           *)
LEMMA EditorAlone == [Next]_vars => E!Next \/ UNCHANGED edVars
BY Zenon DEF Next, PositionStep, IngestStep, StatisticsStep, RemoteStep, EditorStep, ConfigFileStep,
       EventBusStep, KissLinkStep, Ax25Step, RequestsStep, SchedulerStep, StationLogStep,
       SettingsStep, ListViewStep, DigiPathStep, QueryStep, vars

(* The invariant of the editor holds in every run.                        *)
LEMMA EditorHolds == Spec => []EditorInv
<1>1. Init => EditorInv
  BY EditorInit DEF Init
<1>2. EditorInv /\ UNCHANGED edVars => EditorInv'
  BY DEF EditorInv, E!Terminated, edVars
<1>3. EditorInv /\ [Next]_vars => EditorInv'
  BY <1>2, EditorAlone, EditorNext
<1> QED BY <1>1, <1>3, PTL DEF Spec

(* What is not a step of the request handling of the servers leaves its   *)
(* variables alone.                                                       *)
LEMMA RequestsAlone == [Next]_vars => Q!Next \/ UNCHANGED reqVars
BY Zenon DEF Next, PositionStep, IngestStep, StatisticsStep, RemoteStep, EditorStep, ConfigFileStep,
       EventBusStep, KissLinkStep, Ax25Step, RequestsStep, SchedulerStep, StationLogStep,
       SettingsStep, ListViewStep, DigiPathStep, QueryStep, vars

(* The invariant of the request handling of the servers holds in every run. *)
LEMMA RequestsHolds == Spec => []Q!RefusedChangesNothing
<1>1. Init => Q!RefusedChangesNothing
  BY RequestsInit DEF Init
<1>2. Q!RefusedChangesNothing /\ UNCHANGED reqVars => Q!RefusedChangesNothing'
  BY DEF Q!RefusedChangesNothing, reqVars
<1>3. Q!RefusedChangesNothing /\ [Next]_vars => Q!RefusedChangesNothing'
  BY <1>2, RequestsAlone, RequestsNext
<1> QED BY <1>1, <1>3, PTL DEF Spec

(* What is not a step of the event bus leaves its variables alone.        *)
LEMMA EventBusAlone == [Next]_vars => B!Next \/ UNCHANGED busVars
BY Zenon DEF Next, PositionStep, IngestStep, StatisticsStep, RemoteStep, EditorStep, ConfigFileStep,
       EventBusStep, KissLinkStep, Ax25Step, RequestsStep, SchedulerStep, StationLogStep,
       SettingsStep, ListViewStep, DigiPathStep, QueryStep, vars

(* The invariant of the event bus holds in every run.                     *)
LEMMA EventBusHolds == Spec => []BusInv
<1>1. Init => BusInv
  BY BusInit DEF Init
<1>2. BusInv /\ UNCHANGED busVars => BusInv'
  BY DEF BusInv, BusTyped, SteadyOn, B!SteadyAreCalled, busVars
<1>3. BusInv /\ [Next]_vars => BusInv'
  BY <1>2, EventBusAlone, BusNext
<1> QED BY <1>1, <1>3, PTL DEF Spec

(* What is not a step of the scheduler of the old program leaves its      *)
(* variables alone.                                                       *)
LEMMA SchedulerAlone == [Next]_vars => S!Next \/ UNCHANGED tcVars
BY Zenon DEF Next, PositionStep, IngestStep, StatisticsStep, RemoteStep, EditorStep, ConfigFileStep,
       EventBusStep, KissLinkStep, Ax25Step, RequestsStep, SchedulerStep, StationLogStep,
       SettingsStep, ListViewStep, DigiPathStep, QueryStep, vars

(* The invariant of the scheduler of the old program holds in every run.  *)
LEMMA SchedulerHolds == Spec => []SchedulerInv
<1>1. Init => SchedulerInv
  BY SchedulerInit DEF Init
<1>2. SchedulerInv /\ UNCHANGED tcVars => SchedulerInv'
  BY DEF SchedulerInv, FramesInv, RequestsInv, Buffers, Guarded, EmptyFirst, PagesAsked,
         BeaconKept, RepeatRead, MessageRead, S!PagesHold, S!InOrder, S!Idle, tcVars
<1>3. SchedulerInv /\ [Next]_vars => SchedulerInv'
  BY <1>2, SchedulerAlone, SchedulerNext
<1> QED BY <1>1, <1>3, PTL DEF Spec

(* What is not a step of the position manager leaves its variables alone. *)
LEMMA PositionAlone == [Next]_vars => P!Next \/ UNCHANGED posVars
BY Zenon DEF Next, PositionStep, IngestStep, StatisticsStep, RemoteStep, EditorStep, ConfigFileStep,
       EventBusStep, KissLinkStep, Ax25Step, RequestsStep, SchedulerStep, StationLogStep,
       SettingsStep, ListViewStep, DigiPathStep, QueryStep, vars

(* The invariant of the position manager holds in every run.              *)
LEMMA PositionHolds == Spec => []PositionInv
<1>1. Init => PositionInv
  BY PositionInit DEF Init
<1>2. PositionInv /\ UNCHANGED posVars => PositionInv'
  BY Zenon DEF PositionInv, P!Slot, P!Modes, P!Sentences, P!GGA, P!RMC, P!NoSentence, posVars
<1>3. PositionInv /\ [Next]_vars => PositionInv'
  BY <1>2, PositionAlone, PositionNext
<1> QED BY <1>1, <1>3, PTL DEF Spec

(* What is not a step of the configuration file leaves its variables alone. *)
LEMMA ConfigAlone == [Next]_vars => C!Next \/ UNCHANGED cfgVars
BY Zenon DEF Next, PositionStep, IngestStep, StatisticsStep, RemoteStep, EditorStep, ConfigFileStep,
       EventBusStep, KissLinkStep, Ax25Step, RequestsStep, SchedulerStep, StationLogStep,
       SettingsStep, ListViewStep, DigiPathStep, QueryStep, vars

(* The invariant of the configuration file holds in every run.            *)
LEMMA ConfigHolds == Spec => []ConfigInv
<1>1. Init => ConfigInv
  BY ConfigInit DEF Init
<1>2. ConfigInv /\ UNCHANGED cfgVars => ConfigInv'
  <2>1. ASSUME UNCHANGED cfgVars PROVE Found => Found'
    BY <2>1 DEF Found, C!Stream, cfgVars
  <2>2. ASSUME UNCHANGED cfgVars, NEW c, NEW k PROVE Begun(c, k) => Begun(c, k)'
    BY <2>2 DEF Begun, C!Stream, cfgVars
  <2> QED BY Zenon, <2>1, <2>2 DEF ConfigInv
<1>3. ConfigInv /\ [Next]_vars => ConfigInv'
  BY <1>2, ConfigAlone, ConfigNext
<1> QED BY <1>1, <1>3, PTL DEF Spec

(* What is not a step of the list leaves its variables alone.             *)
LEMMA ListAlone == [Next]_vars => V!Next \/ UNCHANGED listVars
BY Zenon DEF Next, PositionStep, IngestStep, StatisticsStep, RemoteStep, EditorStep, ConfigFileStep,
       EventBusStep, KissLinkStep, Ax25Step, RequestsStep, SchedulerStep, StationLogStep,
       SettingsStep, ListViewStep, DigiPathStep, QueryStep, vars

(* The invariant of the list holds in every run.                          *)
LEMMA ListHolds == Spec => []ViewInv
<1>1. Init => ViewInv
  BY ListInit DEF Init
<1>2. ViewInv /\ UNCHANGED listVars => ViewInv'
  BY DEF ViewInv, V!CursorFollows, listVars
<1>3. ViewInv /\ [Next]_vars => ViewInv'
  BY <1>2, ListAlone, ListNext
<1> QED BY <1>1, <1>3, PTL DEF Spec

(* What is not a step of the link to the TNC leaves its variables alone.  *)
LEMMA LinkAlone == [Next]_vars => K!Next \/ UNCHANGED kissVars
BY Zenon DEF Next, PositionStep, IngestStep, StatisticsStep, RemoteStep, EditorStep, ConfigFileStep,
       EventBusStep, KissLinkStep, Ax25Step, RequestsStep, SchedulerStep, StationLogStep,
       SettingsStep, ListViewStep, DigiPathStep, QueryStep, vars

(* The invariant of the link to the TNC holds in every run.               *)
LEMMA LinkHolds == Spec => []LinkInv
<1>1. Init => LinkInv
  BY LinkInit DEF Init
<1>2. LinkInv /\ UNCHANGED kissVars => LinkInv'
  BY LinkStays
<1>3. LinkInv /\ [Next]_vars => LinkInv'
  BY <1>2, LinkAlone, LinkNext
<1> QED BY <1>1, <1>3, PTL DEF Spec

(* What is not a step of the digipeating leaves its variables alone.      *)
LEMMA PathAlone == [Next]_vars => D!Next \/ UNCHANGED pathVars
BY Zenon DEF Next, PositionStep, IngestStep, StatisticsStep, RemoteStep, EditorStep, ConfigFileStep,
       EventBusStep, KissLinkStep, Ax25Step, RequestsStep, SchedulerStep, StationLogStep,
       SettingsStep, ListViewStep, DigiPathStep, QueryStep, vars

(* The invariant of the digipeating holds in every run.                   *)
LEMMA PathHolds == Spec => []PathInv
<1>1. Init => PathInv
  BY PathInit DEF Init
<1>2. PathInv /\ UNCHANGED pathVars => PathInv'
  BY DEF PathInv, D!RepeatsPaid, D!Budget, pathVars
<1>3. PathInv /\ [Next]_vars => PathInv'
  BY <1>2, PathAlone, PathNext
<1> QED BY <1>1, <1>3, PTL DEF Spec

(* What is not a step of the address fields leaves its variables alone.   *)
LEMMA FieldsAlone == [Next]_vars => A!Next \/ UNCHANGED axVars
BY Zenon DEF Next, PositionStep, IngestStep, StatisticsStep, RemoteStep, EditorStep, ConfigFileStep,
       EventBusStep, KissLinkStep, Ax25Step, RequestsStep, SchedulerStep, StationLogStep,
       SettingsStep, ListViewStep, DigiPathStep, QueryStep, vars

(* The invariant of the address fields holds in every run.                *)
LEMMA FieldsHolds == Spec => []A!RepeatedFramesRead
<1>1. Init => A!RepeatedFramesRead
  BY FieldsInit DEF Init
<1>2. A!RepeatedFramesRead /\ UNCHANGED axVars => A!RepeatedFramesRead'
  BY Zenon DEF A!RepeatedFramesRead, axVars
<1>3. A!RepeatedFramesRead /\ [Next]_vars => A!RepeatedFramesRead'
  BY <1>2, FieldsAlone, FieldsNext
<1> QED BY <1>1, <1>3, PTL DEF Spec

(* What is not a step of the settings leaves its variables alone.         *)
LEMMA SettingsAlone == [Next]_vars => G!Next \/ UNCHANGED setVars
BY Zenon DEF Next, PositionStep, IngestStep, StatisticsStep, RemoteStep, EditorStep, ConfigFileStep,
       EventBusStep, KissLinkStep, Ax25Step, RequestsStep, SchedulerStep, StationLogStep,
       SettingsStep, ListViewStep, DigiPathStep, QueryStep, vars

(* The invariant of the settings holds in every run.                      *)
LEMMA SettingsHolds == Spec => []SettingsInv
<1>1. Init => SettingsInv
  BY SettingsInit DEF Init
<1>2. SettingsInv /\ UNCHANGED setVars => SettingsInv'
  <2>1. ASSUME SettingsInv, UNCHANGED setVars PROVE SettingsInv'
    <3>1. (Current => Current') /\ (Kept(1) => Kept(1)') /\ (Kept(2) => Kept(2)')
      BY <2>1, Undisturbed DEF setVars
    <3>2. UNCHANGED <<set_settings, set_flash, set_place, set_row, set_page, set_saved>>
      BY <2>1 DEF setVars
    <3> QED BY <2>1, <3>1, <3>2 DEF SettingsInv
  <2> QED BY <2>1
<1>3. SettingsInv /\ [Next]_vars => SettingsInv'
  BY <1>2, SettingsAlone, SettingsNext
<1> QED BY <1>1, <1>3, PTL DEF Spec

(* What is not a step of the station log leaves its variables alone.      *)
LEMMA LogAlone == [Next]_vars => L!Next \/ UNCHANGED logVars
BY Zenon DEF Next, PositionStep, IngestStep, StatisticsStep, RemoteStep, EditorStep, ConfigFileStep,
       EventBusStep, KissLinkStep, Ax25Step, RequestsStep, SchedulerStep, StationLogStep,
       SettingsStep, ListViewStep, DigiPathStep, QueryStep, vars

(* The invariant of the station log holds in every run.                   *)
LEMMA LogHolds == Spec => []LogInv
<1>1. Init => LogInv
  BY LogInit DEF Init
<1>2. LogInv /\ UNCHANGED logVars => LogInv'
  BY DEF LogInv, LogTyped, LogUsed, StationsApart, MessagesApart, DraftsApart, Stored, logVars
<1>3. LogInv /\ [Next]_vars => LogInv'
  BY <1>2, LogAlone, LogNext
<1> QED BY <1>1, <1>3, PTL DEF Spec

-----------------------------------------------------------------------------
(* A key of the engine that let a command in and is still on belongs to a *)
(* command in progress (rc_execute_command): what the comments of           *)
(* remote_control.c call one-shot admits a second command only inside a     *)
(* command of the key's position, never after it returned.  A code of the   *)
(* old program is answered once (query_decode).  For every number of keys   *)
(* and every nesting of callbacks.                                          *)
THEOREM KeysAreSwitchedOff == Spec => []KeysSwitchedOff
<1>1. RemoteInv /\ QueryInv => KeysSwitchedOff
  BY DEF RemoteInv, QueryInv, KeysSwitchedOff
<1> QED BY <1>1, RemoteHolds, QueryHolds, PTL

(* What counts as unique traffic is decided by what each sender really sent *)
(* last (check_unique), and the graphs drawn of the traffic are the newest  *)
(* periods in their order, however long the rings have turned.            *)
THEOREM TrafficIsKnown == Spec => []TrafficKnown
<1>1. IngestInv /\ StatInv => TrafficKnown
  <2>1. StatInv => T!GraphTrue
    BY DrawsLog, StatisticsAssumption DEF StatInv, T!GraphTrue
  <2> QED BY <2>1 DEF IngestInv, TrafficKnown
<1> QED BY <1>1, IngestHolds, StatisticsHolds, PTL

(* A frame comes through the modem.  To us, through the octets of the link  *)
(* to the TNC, which come in pieces of any size: whole, once, in order, and *)
(* none kept back (kiss_encode, kiss_decode, kiss_tnc_poll).  From us, when *)
(* the socket took it whole; kiss_tnc_send reports one that was cut as sent *)
(* too, and such a one spoils no other.  Through the address fields, when   *)
(* it passed a digipeater field, and one of this program when it has one    *)
(* such field; its text up to the first NUL, which may lie behind the frame *)
(* (ax25_build, ax25_decode, on_kiss_frame).  And every repeat of it is     *)
(* paid for by a hop of its path (do_repeat).  For every set of frames that *)
(* fit the buffer, length of a field and set of aliases.                    *)
THEOREM FramesComeThrough == Spec => []FramesArrive
<1>1. LinkInv /\ A!RepeatedFramesRead /\ PathInv => FramesArrive
  BY LinkTrue DEF PathInv, FramesArrive
<1> QED BY <1>1, LinkHolds, FieldsHolds, PathHolds, PTL

(* A request the servers refuse has changed nothing, and the text that is   *)
(* edited byte by byte ends with its length: inside its buffer, or, when    *)
(* the last octet was edited (raw_frame_editor.c:94), with the octet behind *)
(* it.  For every size of the buffer.                                       *)
THEOREM ClientsAreServed == Spec => []ClientsServed
<1>1. Q!RefusedChangesNothing /\ EditorInv => ClientsServed
  BY DEF EditorInv, ClientsServed
<1> QED BY <1>1, RequestsHolds, EditorHolds, PTL

(* Whoever stays subscribed during an event has been called for it when the *)
(* loop of eb_publish is past its entry, although the callbacks subscribe,  *)
(* unsubscribe and publish: for every table size, depth and set of patterns *)
(* with their star at the end.                                            *)
THEOREM SteadyGetEvents == Spec => []SteadyAreCalled
<1>1. BusInv => SteadyAreCalled
  BY DEF BusInv, SteadyAreCalled
<1> QED BY <1>1, EventBusHolds, PTL

(* A frame that waits to be repeated is in its flash page, or will be, and  *)
(* no alarm writes another frame there; what the handler reads or writes is *)
(* what the alarm asked for, at every point of both where the other may     *)
(* run, unless the alarm replaced the request between a page and the        *)
(* statement that says it was served (peripherial.c:21-33): then a beacon   *)
(* is lost for its page, or another frame or message sent than the one that *)
(* is counted.  The frames of the modem are processed in the order they     *)
(* came, though one of them may wait in lbuf (tc1, spi_request_handler).    *)
THEOREM BuffersHold == Spec => []LegacyBuffers
<1>1. SchedulerInv => LegacyBuffers
  BY SchedulerBuffers DEF LegacyBuffers
<1> QED BY <1>1, SchedulerHolds, PTL

(* What the old program shows of stations and messages was sent by whom it  *)
(* names, though entries, slots and pages are used again, while there are *)
(* more pages than can be in use (update_aprs, get_freepage), and the     *)
(* cursor in its list follows its station through every sort (goapp).     *)
THEOREM TablesAreTrue == Spec => []LegacyTables
<1>1. ViewInv /\ LogInv => LegacyTables
  BY LogParts DEF ViewInv, LegacyTables
<1> QED BY <1>1, ListHolds, LogHolds, PTL

(* In every mode, a command or sentence that moves the position in use      *)
(* leaves the distances computed from where it went, but for the steps      *)
(* Position names Overlooked: a whole configuration (cp_load,               *)
(* cp_reset_factory), a stored position where the mode is not static        *)
(* (position_manager.c), and a fix in the automatic mode (gm_push_nmea).    *)
THEOREM DistancesAreOurs == Spec => DistancesFollow
<1>1. Next /\ active = "position" => P!Next
  BY Zenon DEF Next, PositionStep, IngestStep, StatisticsStep, RemoteStep, EditorStep, ConfigFileStep,
         EventBusStep, KissLinkStep, Ax25Step, RequestsStep, SchedulerStep, StationLogStep,
         SettingsStep, ListViewStep, DigiPathStep, QueryStep
<1>2. PositionInv /\ [Next]_vars => [active = "position" => P!DistancesFollow]_vars
  BY <1>1, PositionFollows
<1> QED BY <1>2, PositionHolds, PTL DEF Spec, DistancesFollow

(* A load puts the engine into a configuration that one save wrote to the   *)
(* end, wherever saves were cut short and whatever was damaged, or leaves   *)
(* it as it is (cp_save, cp_load).  Once a screen of the old program has    *)
(* saved, its menu is reached only with all three flash pages holding what  *)
(* memory holds, page by page, wherever the program stopped before          *)
(* (update_config); announce_new is excepted.                               *)
THEOREM ConfigurationsAreStored == Spec => ConfigurationsStored
<1>1. ConfigInv /\ SettingsInv' /\ [Next]_vars
      => [/\ active = "config" => C!LoadedWasSaved
          /\ active = "settings" => G!SavedAtMenu']_vars
  <2>1. SettingsInv' => G!SavedAtMenu'
    BY SettingsSaved, PTL
  <2>2. ConfigInv /\ [Next]_vars => [active = "config" => C!LoadedWasSaved]_vars
    BY ConfigLoads
  <2> QED BY <2>1, <2>2
<1> QED BY <1>1, ConfigHolds, SettingsHolds, PTL DEF Spec, ConfigurationsStored
=============================================================================
