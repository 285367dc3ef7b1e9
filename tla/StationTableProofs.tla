-------------------------- MODULE StationTableProofs --------------------------
(***************************************************************************)
(* Proofs about StationTable, for tables of every size: no callsign is     *)
(* listed twice, the list is complete and the sort sorts it, and the table *)
(* implements StationMap.                                                  *)
(***************************************************************************)
EXTENDS StationTable, SlotsProofs, FiniteSetTheorems

Entry == [call : Callsigns \cup {NoCall}, heard : Nat, marked : BOOLEAN]

(* The type of the table, without the order (see ListInv). *)
TableType ==
  /\ num \in 1 .. Size
  /\ stations \in [Table -> Entry]
  /\ now \in Nat
  /\ \A s \in Used : stations[s].call \in Callsigns

(* Entry 0 keeps the callsign the engine was created with: an eviction     *)
(* passes it by, and a lookup of that callsign ends there.                 *)
OwnEntry == stations[0].call = Self

IInv ==
  /\ TableType
  /\ CallsignsDistinct
  /\ OwnEntry

-----------------------------------------------------------------------------
(* The table has at least one entry, all of them used from the first on. *)
LEMMA Sizes ==
  ASSUME TableType
  PROVE  /\ Size \in Nat /\ num \in Nat /\ num >= 1 /\ num <= Size
         /\ Used \subseteq Table /\ Table \subseteq Nat /\ 0 \in Used
BY TableAssumption DEF TableType, Table, Used, Indices

(* A lookup of the callsign of an entry ends at that entry. *)
LEMMA Lookup ==
  IInv => \A s \in Used : /\ stations[s].call \in Calls
                          /\ First(Found(stations[s].call)) = s
                          /\ Book[stations[s].call] =
                               [heard |-> stations[s].heard, marked |-> stations[s].marked]
<1> SUFFICES ASSUME IInv, NEW s \in Used
             PROVE  /\ stations[s].call \in Calls
                    /\ First(Found(stations[s].call)) = s
                    /\ Book[stations[s].call] =
                         [heard |-> stations[s].heard, marked |-> stations[s].marked]
  OBVIOUS
<1>1. Found(stations[s].call) = {s}
  BY DEF Found, IInv, CallsignsDistinct
<1>2. s \in Nat
  BY Sizes DEF IInv
<1>3. First({s}) = s
  BY <1>2, FirstIsLeast
<1>4. stations[s].call \in Calls
  BY DEF Calls
<1>5. QED
  BY <1>1, <1>3, <1>4 DEF Book

(* The map has as many callsigns as the table has entries in use. *)
LEMMA Count ==
  ASSUME IInv
  PROVE  Cardinality(Calls) = num
<1> DEFINE f == [s \in Used |-> stations[s].call]
<1>1. num \in Nat /\ num >= 1
  BY Sizes DEF IInv
<1>2. IsFiniteSet(Used) /\ Cardinality(Used) = num
  BY <1>1, FS_Interval DEF Used, Indices
<1>3. f \in Surjection(Used, Calls)
  BY DEF Surjection, Calls
<1>4. f \in Injection(Used, Calls)
  BY <1>3 DEF Injection, IsInjective, Surjection, IInv, CallsignsDistinct
<1> HIDE DEF f
<1>5. QED
  BY <1>2, <1>3, <1>4, FS_Surjection

(* Where a frame of c is entered. *)
LEMMA PlaceFacts ==
  ASSUME IInv, NEW c \in Callsigns
  PROVE  /\ Place(c) \in Table
         /\ Found(c) # {} => Place(c) \in Used /\ stations[Place(c)].call = c
         /\ Found(c) = {} /\ num < Size => Place(c) = num
         /\ Found(c) = {} /\ num = Size =>
              /\ Place(c) \in Used \ {0}
              /\ \A t \in Used \ {0} : stations[Place(c)].heard <= stations[t].heard
<1> USE Sizes DEF IInv
<1>1. CASE Found(c) # {}
  <2>1. Found(c) \in SUBSET Nat
    BY DEF Found
  <2>2. First(Found(c)) \in Found(c)
    BY <1>1, <2>1, FirstIsLeast
  <2>3. Place(c) = First(Found(c))
    BY <1>1 DEF Place
  <2>4. QED
    BY <1>1, <2>2, <2>3 DEF Found
<1>2. CASE Found(c) = {} /\ num < Size
  <2>1. Place(c) = num
    BY <1>2 DEF Place
  <2>2. QED
    BY <1>2, <2>1 DEF Table, Indices
<1>3. CASE Found(c) = {} /\ num = Size
  <2> DEFINE others == Used \ {0}
             h == [s \in others |-> stations[s].heard]
  <2>1. Size > 1 /\ 1 \in others
    BY <1>3, TableAssumption DEF Used, Indices
  <2>2. \A s \in others : h[s] = stations[s].heard /\ h[s] \in Nat
    BY DEF TableType, Entry
  <2>3. Place(c) = First(Least(h, others))
    BY <1>3 DEF Place, Victim
  <2>4. others \in SUBSET Nat /\ others # {}
    BY <2>1
  <2> HIDE DEF h, others
  <2>5. Least(h, others) # {}
    BY <2>2, <2>4, LeastNonEmpty
  <2>6. Least(h, others) \in SUBSET Nat
    BY <2>4 DEF Least
  <2>7. Place(c) \in Least(h, others)
    BY <2>3, <2>5, <2>6, FirstIsLeast
  <2>8. Place(c) \in others /\ \A t \in others : h[Place(c)] <= h[t]
    BY <2>7 DEF Least
  <2>9. QED
    BY <1>3, <2>2, <2>8 DEF others
<1>4. QED
  BY <1>1, <1>2, <1>3 DEF TableType

-----------------------------------------------------------------------------
(* The invariant holds of a table with one's own station only (aprs_engine_create). *)
LEMMA InitHolds == Init => IInv
<1> SUFFICES ASSUME Init PROVE IInv
  OBVIOUS
<1>1. Size \in Nat /\ Size > 1 /\ 0 \in Table
  BY TableAssumption DEF Table, Indices
<1>2. Used = {0}
  BY DEF Init, Used, Indices
<1>3. stations \in [Table -> Entry] /\ stations[0].call = Self
  BY <1>1, TableAssumption DEF Init, Blank, Entry
<1>4. QED
  BY <1>1, <1>2, <1>3, TableAssumption DEF Init, IInv, TableType, CallsignsDistinct, OwnEntry

(* What a frame of c leaves in the table. *)
LEMMA HearFacts ==
  ASSUME IInv, NEW c \in Callsigns, Hear(c)
  PROVE  /\ stations' \in [Table -> Entry]
         /\ stations'[Place(c)] = [call   |-> c,
                                   heard  |-> now,
                                   marked |-> Found(c) # {} /\ stations[Place(c)].marked]
         /\ stations'[Place(c)].call = c
         /\ \A s \in Table \ {Place(c)} : stations'[s] = stations[s]
         /\ Used' = Used \cup {Place(c)}
         /\ num' \in 1 .. Size
<1>1. Place(c) \in Table
  BY PlaceFacts
<1>2. stations \in [Table -> Entry] /\ now \in Nat
  BY DEF IInv, TableType
<1> DEFINE new == [call   |-> c,
                   heard  |-> now,
                   marked |-> Found(c) # {} /\ stations[Place(c)].marked]
<1>3. new \in Entry
  <2>1. stations[Place(c)].marked \in BOOLEAN
    BY <1>1, <1>2 DEF Entry
  <2>2. QED
    BY <1>2, <2>1 DEF Entry
<1>4. stations' = [stations EXCEPT ![Place(c)] = new]
  BY DEF Hear
<1> HIDE DEF new
<1>5. /\ stations' \in [Table -> Entry]
      /\ stations'[Place(c)] = new
      /\ \A s \in Table \ {Place(c)} : stations'[s] = stations[s]
  BY <1>1, <1>2, <1>3, <1>4
<1>6. Used' = Used \cup {Place(c)} /\ num' \in 1 .. Size
  <2>1. num \in Nat /\ Size \in Nat /\ num >= 1 /\ num <= Size
    BY Sizes DEF IInv
  <2>2. CASE Found(c) = {} /\ num < Size
    <3>1. num' = num + 1 /\ Place(c) = num
      BY <2>2, PlaceFacts DEF Hear
    <3>2. QED
      BY <2>1, <2>2, <3>1 DEF Used, Indices
  <2>3. CASE ~(Found(c) = {} /\ num < Size)
    <3>1. num' = num
      BY <2>3 DEF Hear
    <3>2. Place(c) \in Used
      BY <2>1, <2>3, PlaceFacts
    <3>3. QED
      BY <2>1, <3>1, <3>2 DEF Used
  <2>4. QED
    BY <2>2, <2>3
<1>7. new.call = c
  BY DEF new
<1>8. QED
  BY <1>5, <1>6, <1>7 DEF new

(* A frame keeps it, whether its station is found, added or put in another's place. *)
LEMMA HearKeeps ==
  ASSUME IInv, NEW c \in Callsigns, Hear(c)
  PROVE  IInv'
<1> DEFINE p == Place(c)
<1>1. /\ stations' \in [Table -> Entry]
      /\ stations'[p].call = c
      /\ \A s \in Table \ {p} : stations'[s] = stations[s]
      /\ Used' = Used \cup {p}
      /\ num' \in 1 .. Size
  BY HearFacts
<1>2. Used \subseteq Table /\ Used \subseteq Nat /\ 0 \in Used
  BY Sizes DEF IInv
<1>3. Found(c) # {} => p \in Used /\ stations[p].call = c
  BY PlaceFacts
<1>4. Found(c) = {} => p # 0
  <2>1. num \in Nat /\ Size \in Nat /\ num >= 1 /\ num <= Size
    BY Sizes DEF IInv
  <2>2. QED
    BY <2>1, PlaceFacts
<1> HIDE DEF p
<1>5. \A s \in Used' \ {p} : s \in Used /\ stations'[s] = stations[s]
  BY <1>1, <1>2
<1>6. TableType'
  <2>1. now' \in Nat
    BY DEF Hear, IInv, TableType
  <2>2. \A s \in Used' : stations'[s].call \in Callsigns
    BY <1>1, <1>5 DEF IInv, TableType
  <2>3. QED
    BY <1>1, <2>1, <2>2 DEF TableType, Table
<1>7. CallsignsDistinct'
  <2>1. \A s \in Used \ {p} : stations[s].call # c
    BY <1>3 DEF Found, IInv, CallsignsDistinct
  <2>2. QED
    BY <1>1, <1>5, <2>1 DEF IInv, CallsignsDistinct
<1>8. OwnEntry'
  BY <1>1, <1>2, <1>3, <1>4 DEF IInv, OwnEntry
<1>9. QED
  BY <1>6, <1>7, <1>8 DEF IInv

(* The entry a mark changes, and nothing of it but the mark. *)
LEMMA MarkFacts ==
  ASSUME IInv, NEW c \in Callsigns, NEW mark \in BOOLEAN, Mark(c, mark)
  PROVE  LET m == First(Found(c))
         IN  /\ m \in Used
             /\ stations[m].call = c
             /\ stations' \in [Table -> Entry]
             /\ stations'[m].call = c
             /\ stations'[m].heard = stations[m].heard
             /\ stations'[m].marked = mark
             /\ \A s \in Table \ {m} : stations'[s] = stations[s]
<1> DEFINE m == First(Found(c))
<1>1. m \in Found(c)
  <2>1. Found(c) \in SUBSET Nat
    BY Sizes DEF Found, IInv
  <2>2. QED
    BY <2>1, FirstIsLeast DEF Mark
<1>2. m \in Used /\ m \in Table /\ stations[m].call = c
  BY <1>1, Sizes DEF Found, IInv
<1>3. stations' = [stations EXCEPT ![m].marked = mark]
  BY DEF Mark
<1>4. stations \in [Table -> Entry] /\ [stations[m] EXCEPT !.marked = mark] \in Entry
  BY <1>2 DEF IInv, TableType, Entry
<1> HIDE DEF m
<1>5. /\ stations' \in [Table -> Entry]
      /\ stations'[m] = [stations[m] EXCEPT !.marked = mark]
      /\ \A s \in Table \ {m} : stations'[s] = stations[s]
  BY <1>2, <1>3, <1>4
<1>6. stations'[m].call = c /\ stations'[m].heard = stations[m].heard /\ stations'[m].marked = mark
  <2>1. stations[m] \in Entry
    BY <1>2 DEF IInv, TableType
  <2>2. QED
    BY <1>2, <1>5, <2>1 DEF Entry
<1>7. QED
  BY <1>2, <1>5, <1>6 DEF m

(* A mark keeps it (sm_mark). *)
LEMMA MarkKeeps ==
  ASSUME IInv, NEW c \in Callsigns, NEW mark \in BOOLEAN, Mark(c, mark)
  PROVE  IInv'
<1> DEFINE m == First(Found(c))
<1>1. num' = num /\ now' = now /\ Used' = Used
  BY DEF Mark, Used
<1>2. stations \in [Table -> Entry] /\ Used \subseteq Table /\ 0 \in Used /\ m \in Table
  BY MarkFacts, Sizes DEF IInv, TableType
<1>3. \A s \in Used : stations'[s].call = stations[s].call
  <2> SUFFICES ASSUME NEW s \in Used PROVE stations'[s].call = stations[s].call
    OBVIOUS
  <2>1. CASE s = m
    BY <1>2, <2>1, MarkFacts DEF Entry
  <2>2. CASE s # m
    BY <1>2, <2>2, MarkFacts
  <2>3. QED
    BY <2>1, <2>2
<1>4. TableType'
  BY <1>1, <1>3, MarkFacts DEF IInv, TableType, Table
<1>5. CallsignsDistinct' /\ OwnEntry'
  BY <1>1, <1>2, <1>3 DEF IInv, CallsignsDistinct, OwnEntry
<1>6. QED
  BY <1>4, <1>5 DEF IInv

(* Every other step leaves the table alone; only a tick moves the clock. *)
LEMMA OtherSteps ==
  ASSUME IInv, [Next]_vars
  PROVE  \/ \E c \in Callsigns : Hear(c)
         \/ \E c \in Callsigns, mark \in BOOLEAN : Mark(c, mark)
         \/ /\ UNCHANGED <<stations, num>>
            /\ now' \in Nat
            /\ now' >= now
<1> USE TableAssumption DEF IInv, TableType
<1>1. CASE \E column \in Columns, ascending \in BOOLEAN : Sort(column, ascending)
  BY <1>1 DEF Sort
<1>2. CASE \E delta \in Deltas : BeginTick(delta)
  BY <1>2 DEF BeginTick
<1>3. CASE EndTick \/ UNCHANGED vars
  BY <1>3 DEF EndTick, vars
<1>4. QED
  BY <1>1, <1>2, <1>3 DEF Next

(* Every step keeps it. *)
LEMMA StepKeeps == IInv /\ [Next]_vars => IInv'
<1> SUFFICES ASSUME IInv, [Next]_vars PROVE IInv'
  OBVIOUS
<1>1. CASE UNCHANGED <<stations, num>> /\ now' \in Nat
  BY <1>1 DEF IInv, TableType, CallsignsDistinct, OwnEntry, Used, Table
<1>2. QED
  BY <1>1, OtherSteps, HearKeeps, MarkKeeps

(* The invariant holds in every reachable state of the table. *)
LEMMA Invariance == Spec => []IInv
BY InitHolds, StepKeeps, PTL DEF Spec

(* No callsign is ever listed twice (sm_find_or_create), for tables of      *)
(* every size.                                                              *)
THEOREM ListedOnce == Spec => []CallsignsDistinct
<1>1. IInv => CallsignsDistinct
  BY DEF IInv
<1>2. QED
  BY <1>1, Invariance, PTL

-----------------------------------------------------------------------------
(* The orders in which the entries in use, and they alone, are permuted.    *)
Orders ==
  {o \in [Table -> Table] :
     /\ \A s \in Used : o[s] \in Used
     /\ \A t \in Used : \E s \in Used : o[s] = t
     /\ \A s, t \in Used : o[s] = o[t] => s = t
     /\ \A s \in Table \ Used : o[s] = s}

(* What the list needs beyond IInv: nothing was written to the entries not   *)
(* in use, and the order permutes those in use.                              *)
ListInv ==
  /\ \A s \in Table \ Used : stations[s] = Blank
  /\ sortOrder \in Orders
  /\ ticking \in BOOLEAN

(* Every column, up or down, compares entries by a number of each: the      *)
(* comparisons of sm_sort contradict each other nowhere.                    *)
LEMMA ColumnRanks ==
  ASSUME IInv, NEW column, NEW ascending \in BOOLEAN
  PROVE  \E r \in [Used -> Int] :
           \A s, t \in Used : OutOfOrder(column, ascending, s, t) <=> r[s] > r[t]
<1>1. \A s \in Used : Key(column, s) \in Int
  <2>1. \A s \in Used : stations[s].call \in Int /\ stations[s].heard \in Int
    <3> TAKE s \in Used
    <3>1. s \in Table
      BY Sizes DEF IInv
    <3>2. stations[s] \in Entry /\ stations[s].call \in Callsigns
      BY <3>1 DEF IInv, TableType
    <3>3. stations[s].heard \in Nat
      BY <3>2 DEF Entry
    <3>4. stations[s].call \in Int
      BY <3>2, TableAssumption
    <3>5. QED
      BY <3>3, <3>4
  <2>2. QED
    BY <2>1 DEF Key
<1> DEFINE r == [s \in Used |-> IF ascending THEN Key(column, s) ELSE -Key(column, s)]
<1>2. r \in [Used -> Int]
  BY <1>1
<1>3. \A s, t \in Used : OutOfOrder(column, ascending, s, t) <=> r[s] > r[t]
  BY <1>1 DEF OutOfOrder
<1> HIDE DEF r
<1>4. QED
  BY <1>2, <1>3

(* One comparison: the two positions are left or exchanged, and others left. *)
LEMMA ComparedFacts ==
  ASSUME IInv, NEW column, NEW ascending, NEW o \in Orders,
         NEW i \in Used, NEW j \in Used, i # j
  PROVE  LET n == Compared(column, ascending, o, i, j)
         IN  /\ n \in Orders
             /\ \A t \in Used \ {i, j} : n[t] = o[t]
             /\ IF OutOfOrder(column, ascending, o[i], o[j])
                THEN n[i] = o[j] /\ n[j] = o[i]
                ELSE n[i] = o[i] /\ n[j] = o[j]
<1> DEFINE swapped == [o EXCEPT ![i] = o[j], ![j] = o[i]]
<1>1. Used \subseteq Table
  BY Sizes DEF IInv
<1>2. /\ o \in [Table -> Table]
      /\ \A s \in Used : o[s] \in Used
      /\ \A t \in Used : \E s \in Used : o[s] = t
      /\ \A s, t \in Used : o[s] = o[t] => s = t
      /\ \A s \in Table \ Used : o[s] = s
  BY DEF Orders
<1>3. /\ swapped \in [Table -> Table]
      /\ swapped[i] = o[j] /\ swapped[j] = o[i]
      /\ \A s \in Table \ {i, j} : swapped[s] = o[s]
  BY <1>1, <1>2
<1> HIDE DEF swapped
<1>4. \A t \in Used : \E s \in Used : swapped[s] = t
  <2> TAKE t \in Used
  <2>1. PICK s \in Used : o[s] = t
    BY <1>2
  <2>2. CASE s = i
    BY <1>3, <2>1, <2>2
  <2>3. CASE s = j
    BY <1>3, <2>1, <2>3
  <2>4. CASE s \notin {i, j}
    BY <1>1, <1>3, <2>1, <2>4
  <2>5. QED
    BY <2>2, <2>3, <2>4
<1>5. \A s, t \in Used : swapped[s] = swapped[t] => s = t
  BY <1>1, <1>2, <1>3
<1>6. swapped \in Orders
  BY <1>1, <1>2, <1>3, <1>4, <1>5 DEF Orders
<1>7. CASE OutOfOrder(column, ascending, o[i], o[j])
  BY <1>1, <1>3, <1>6, <1>7 DEF Compared, swapped
<1>8. CASE ~OutOfOrder(column, ascending, o[i], o[j])
  BY <1>8 DEF Compared
<1>9. QED
  BY <1>7, <1>8

(* One run of the inner loop of sm_sort: the entry of least rank comes to   *)
(* position i, and the others from i on stay behind it.                     *)
LEMMA PassFacts ==
  ASSUME IInv, NEW column, NEW ascending, NEW o \in Orders, NEW i \in Used,
         NEW r \in [Used -> Int],
         \A s, t \in Used : OutOfOrder(column, ascending, s, t) <=> r[s] > r[t]
  PROVE  LET n == Pass(column, ascending, o, i)
         IN  /\ n \in Orders
             /\ \A t \in Used : t < i => n[t] = o[t]
             /\ \A t \in Used : t >= i => \E u \in Used : u >= i /\ n[t] = o[u]
             /\ \A t \in Used : t > i => r[n[i]] <= r[n[t]]
<1> DEFINE b == num - 1
           Solves(f) == f = [j \in i .. b |->
                               IF j = i THEN o ELSE Compared(column, ascending, f[j - 1], i, j)]
           upTo == CHOOSE f : Solves(f)
<1>1. /\ i \in Int /\ b \in Int /\ i <= b
      /\ \A j \in i .. b : j \in Used /\ j \in Int
      /\ \A t \in Used : t \in Int /\ t <= b
  BY Sizes DEF IInv, Used, Indices
<1>2. Pass(column, ascending, o, i) = upTo[b]
  BY DEF Pass
<1> HIDE DEF b
<1>3. \E f : Solves(f)
  <2> DEFINE step == [j \in i .. b |-> [q \in Orders |->
                        IF j = i THEN o ELSE Compared(column, ascending, q, i, j)]]
  <2>1. \A j \in i .. b : \A q \in Orders : j # i => Compared(column, ascending, q, i, j) \in Orders
    BY <1>1, ComparedFacts
  <2>2. step \in [i .. b -> [Orders -> Orders]]
    BY <2>1
  <2>3. \A j \in i .. b : \A q \in Orders :
          j # i => step[j][q] = Compared(column, ascending, q, i, j)
    OBVIOUS
  <2> HIDE DEF step
  <2>4. PICK g \in [i .. b -> Orders] :
          g[i] = o /\ \A j \in i .. b : j # i => g[j] = step[j][g[j - 1]]
    <3>1. i \in Int /\ b \in Int /\ i <= b
      BY <1>1
    <3>2. Runs(i, b, Orders, o, step) # {}
      BY <2>2, <3>1, LoopExists
    <3>3. QED
      BY <3>2 DEF Runs
  <2>5. \A j \in i .. b : j # i => g[j] = Compared(column, ascending, g[j - 1], i, j)
    <3> SUFFICES ASSUME NEW j \in i .. b, j # i
                 PROVE  g[j] = Compared(column, ascending, g[j - 1], i, j)
      OBVIOUS
    <3>1. g[j - 1] \in Orders
      BY <1>1, <2>4
    <3>2. QED
      BY <2>3, <2>4, <3>1
  <2>6. Solves(g)
    BY <1>1, <2>4, <2>5
  <2>7. QED
    BY <2>6
<1>4. Solves(upTo)
  BY <1>3
<1> HIDE DEF upTo
<1> DEFINE Holds(j) ==
             /\ upTo[j] \in Orders
             /\ \A t \in Used : t < i => upTo[j][t] = o[t]
             /\ \A t \in Used : t >= i => \E u \in Used : u >= i /\ upTo[j][t] = o[u]
             /\ \A t \in Used : t > i /\ t <= j => r[upTo[j][i]] <= r[upTo[j][t]]
           G == {j \in i .. b : Holds(j)}
<1>5. i \in G
  <2>1. upTo[i] = o /\ i \in i .. b
    BY <1>1, <1>4
  <2>2. Holds(i)
    BY <1>1, <2>1
  <2> HIDE DEF Holds
  <2>3. QED
    BY <2>1, <2>2
<1>6. ASSUME NEW k \in i .. b, k \in G, k < b PROVE k + 1 \in G
  <2> DEFINE j == k + 1
             q == upTo[k]
             n == upTo[j]
  <2>1. j \in i .. b /\ j # i /\ j \in Used /\ k \in Int /\ j \in Int /\ i < j /\ j - 1 = k
    BY <1>1, <1>6
  <2>2. n = Compared(column, ascending, q, i, j)
    BY <1>4, <2>1
  <2>3. Holds(k)
    BY <1>6
  <2> HIDE DEF Solves
  <2>4. q \in Orders
    BY <2>3
  <2> HIDE DEF q, n, j
  <2>5. /\ n \in Orders
        /\ \A t \in Used \ {i, j} : n[t] = q[t]
        /\ IF OutOfOrder(column, ascending, q[i], q[j])
           THEN n[i] = q[j] /\ n[j] = q[i]
           ELSE n[i] = q[i] /\ n[j] = q[j]
    BY <2>1, <2>2, <2>4, ComparedFacts
  <2>6. \A t \in Used : q[t] \in Used /\ r[q[t]] \in Int
    BY <2>4 DEF Orders
  <2>7. OutOfOrder(column, ascending, q[i], q[j]) <=> r[q[i]] > r[q[j]]
    BY <2>1, <2>6
  <2>8. \A t \in Used : t < i => n[t] = o[t]
    BY <1>1, <2>1, <2>3, <2>5 DEF q
  <2>9. \A t \in Used : t >= i => \E u \in Used : u >= i /\ n[t] = o[u]
    <3>1. \A t \in Used : t >= i => \E u \in Used : u >= i /\ q[t] = o[u]
      BY <2>3 DEF q
    <3>2. \A t \in Used : t >= i => n[t] = q[t] \/ n[t] = q[i] \/ n[t] = q[j]
      BY <2>5
    <3>3. i >= i /\ j >= i
      BY <1>1, <2>1
    <3>4. QED
      BY <2>1, <3>1, <3>2, <3>3
  <2>10. ASSUME NEW t \in Used, t > i, t <= j PROVE r[n[i]] <= r[n[t]]
    <3>1. r[q[i]] \in Int /\ r[q[j]] \in Int /\ r[q[t]] \in Int
      BY <2>1, <2>6
    <3>2. r[n[i]] <= r[q[i]]
      BY <2>5, <2>7, <3>1
    <3>3. CASE t = j
      BY <2>5, <2>7, <3>1, <3>3
    <3>4. CASE t # j
      <4>1. t <= k
        BY <1>1, <2>1, <2>10, <3>4 DEF j
      <4>2. r[q[i]] <= r[q[t]]
        BY <2>3, <2>10, <4>1 DEF q
      <4>3. n[t] = q[t]
        BY <1>1, <2>5, <2>10, <3>4
      <4>4. r[n[i]] \in Int
        BY <2>5, <3>1
      <4>5. QED
        BY <3>1, <3>2, <4>2, <4>3, <4>4
    <3>5. QED
      BY <3>3, <3>4
  <2>11. Holds(j)
    BY <2>5, <2>8, <2>9, <2>10 DEF n
  <2> HIDE DEF Holds
  <2>12. QED
    BY <2>1, <2>11 DEF j
<1> HIDE DEF G
<1>7. \A k \in i .. b : k \in G /\ k < b => k + 1 \in G
  BY <1>6
<1>8. \A k \in i .. b : k \in G
  BY <1>1, <1>5, <1>7, IntervalInduction
<1>9. Holds(b)
  <2>1. b \in G
    BY <1>1, <1>8
  <2> HIDE DEF Holds
  <2>2. QED
    BY <2>1 DEF G
<1>10. QED
  BY <1>1, <1>2, <1>9

(* The two loops of sm_sort permute the entries in use and leave them       *)
(* sorted by rank, whatever the order was.                                  *)
LEMMA SortedFacts ==
  ASSUME IInv, sortOrder \in Orders, NEW column, NEW ascending,
         NEW r \in [Used -> Int],
         \A s, t \in Used : OutOfOrder(column, ascending, s, t) <=> r[s] > r[t]
  PROVE  LET n == Sorted(column, ascending)
         IN  /\ n \in Orders
             /\ \A p, q \in Used : p < q => r[n[p]] <= r[n[q]]
<1> DEFINE base == [s \in Table |-> IF s \in Used THEN s ELSE sortOrder[s]]
           Solves(f) == f = [i \in 0 .. num |->
                               IF i = 0 THEN base
                                        ELSE Pass(column, ascending, f[i - 1], i - 1)]
           passes == CHOOSE f : Solves(f)
<1>1. /\ num \in Int /\ 0 \in Int /\ 0 <= num
      /\ \A t \in Used : t \in Int /\ 0 <= t /\ t < num
      /\ \A i \in 0 .. num : i # 0 => i - 1 \in Used /\ i - 1 \in 0 .. num
  BY Sizes DEF IInv, Used, Indices
<1>2. Sorted(column, ascending) = passes[num]
  BY DEF Sorted
<1>3. base \in Orders
  BY Sizes DEF Orders, IInv
<1>4. \A o \in Orders : \A i \in Used :
        LET n == Pass(column, ascending, o, i)
        IN  /\ n \in Orders
            /\ \A t \in Used : t < i => n[t] = o[t]
            /\ \A t \in Used : t >= i => \E u \in Used : u >= i /\ n[t] = o[u]
            /\ \A t \in Used : t > i => r[n[i]] <= r[n[t]]
  BY PassFacts
<1> HIDE DEF base
<1>5. \E f : Solves(f)
  <2> DEFINE step == [i \in 0 .. num |-> [o \in Orders |->
                        IF i = 0 THEN base ELSE Pass(column, ascending, o, i - 1)]]
  <2>1. step \in [0 .. num -> [Orders -> Orders]]
    BY <1>1, <1>3, <1>4
  <2>2. \A i \in 0 .. num : \A o \in Orders :
          i # 0 => step[i][o] = Pass(column, ascending, o, i - 1)
    OBVIOUS
  <2> HIDE DEF step
  <2>3. PICK g \in [0 .. num -> Orders] :
          g[0] = base /\ \A i \in 0 .. num : i # 0 => g[i] = step[i][g[i - 1]]
    <3>1. 0 \in Int /\ num \in Int /\ 0 <= num
      BY <1>1
    <3>2. Runs(0, num, Orders, base, step) # {}
      BY <1>3, <2>1, <3>1, LoopExists
    <3>3. QED
      BY <3>2 DEF Runs
  <2>4. \A i \in 0 .. num : i # 0 => g[i] = Pass(column, ascending, g[i - 1], i - 1)
    <3> SUFFICES ASSUME NEW i \in 0 .. num, i # 0
                 PROVE  g[i] = Pass(column, ascending, g[i - 1], i - 1)
      OBVIOUS
    <3>1. g[i - 1] \in Orders
      BY <1>1, <2>3
    <3>2. QED
      BY <2>2, <2>3, <3>1
  <2>5. Solves(g)
    BY <1>1, <2>3, <2>4
  <2>6. QED
    BY <2>5
<1>6. Solves(passes)
  BY <1>5
<1> HIDE DEF passes
<1> DEFINE Holds(i) ==
             /\ passes[i] \in Orders
             /\ \A p, q \in Used : p < i /\ p < q => r[passes[i][p]] <= r[passes[i][q]]
           G == {i \in 0 .. num : Holds(i)}
<1>7. 0 \in G
  <2>1. passes[0] = base /\ 0 \in 0 .. num
    BY <1>1, <1>6
  <2>2. Holds(0)
    BY <1>1, <1>3, <2>1
  <2> HIDE DEF Holds
  <2>3. QED
    BY <2>1, <2>2
<1>8. ASSUME NEW k \in 0 .. num, k \in G, k < num PROVE k + 1 \in G
  <2> DEFINE o == passes[k]
             n == passes[k + 1]
  <2>1. k + 1 \in 0 .. num /\ k + 1 # 0 /\ (k + 1) - 1 = k /\ k \in Used /\ k \in Int
    BY <1>1, <1>8 DEF Used, Indices
  <2>2. n = Pass(column, ascending, o, k)
    BY <1>6, <2>1
  <2> HIDE DEF Solves
  <2>3. Holds(k)
    BY <1>8
  <2>4. o \in Orders
    BY <2>3
  <2> HIDE DEF o, n
  <2>5. /\ n \in Orders
        /\ \A t \in Used : t < k => n[t] = o[t]
        /\ \A t \in Used : t >= k => \E u \in Used : u >= k /\ n[t] = o[u]
        /\ \A t \in Used : t > k => r[n[k]] <= r[n[t]]
    BY <1>4, <2>1, <2>2, <2>4
  <2>6. \A p, q \in Used : p < k /\ p < q => r[o[p]] <= r[o[q]]
    BY <2>3 DEF o
  <2> HIDE DEF Holds
  <2>7. ASSUME NEW p \in Used, NEW q \in Used, p < k + 1, p < q
        PROVE  r[n[p]] <= r[n[q]]
    <3>1. CASE p = k
      BY <1>1, <2>5, <2>7, <3>1
    <3>2. CASE p < k /\ q < k
      BY <2>5, <2>6, <2>7, <3>2
    <3>3. CASE p < k /\ q >= k
      <4>1. PICK u \in Used : u >= k /\ n[q] = o[u]
        BY <2>5, <3>3
      <4>2. p < u
        BY <1>1, <2>1, <3>3, <4>1
      <4>3. QED
        BY <2>5, <2>6, <3>3, <4>1, <4>2
    <3>4. p = k \/ p < k
      BY <1>1, <2>1, <2>7
    <3>5. q < k \/ q >= k
      BY <1>1, <2>1
    <3>6. QED
      BY <3>1, <3>2, <3>3, <3>4, <3>5
  <2>8. Holds(k + 1)
    BY <2>5, <2>7 DEF Holds, n
  <2>9. QED
    BY <2>1, <2>8
<1> HIDE DEF G
<1>9. \A k \in 0 .. num : k \in G /\ k < num => k + 1 \in G
  BY <1>8
<1>10. \A k \in 0 .. num : k \in G
  BY <1>1, <1>7, <1>9, IntervalInduction
<1>11. Holds(num)
  <2>1. num \in G
    BY <1>1, <1>10
  <2> HIDE DEF Holds
  <2>2. QED
    BY <2>1 DEF G
<1>12. QED
  BY <1>1, <1>2, <1>11

(* The list a client sees is complete while the order permutes the entries. *)
LEMMA OrderShowsAll == IInv /\ ListInv => TypeOK /\ ListComplete
<1> SUFFICES ASSUME IInv, ListInv PROVE TypeOK /\ ListComplete
  OBVIOUS
<1>1. /\ sortOrder \in [Table -> Table]
      /\ \A s \in Used : sortOrder[s] \in Used
      /\ \A t \in Used : \E s \in Used : sortOrder[s] = t
      /\ \A s, t \in Used : sortOrder[s] = sortOrder[t] => s = t
  BY DEF ListInv, Orders
<1>2. TypeOK
  <2>1. \A s \in Table \ Used : stations[s] = Blank
    BY DEF ListInv
  <2>2. QED
    BY <1>1, <2>1 DEF IInv, TableType, ListInv, TypeOK, Entry
<1>3. \A p \in Used : Shown[p] = stations[sortOrder[p]].call
  BY DEF Shown
<1>4. {Shown[p] : p \in Used} = Calls
  BY <1>1, <1>3 DEF Calls
<1>5. \A p, q \in Used : Shown[p] = Shown[q] => p = q
  BY <1>1, <1>3 DEF IInv, CallsignsDistinct
<1>6. QED
  BY <1>2, <1>4, <1>5 DEF ListComplete

(* The order of aprs_engine_create is the identity. *)
LEMMA InitLists == Init => ListInv
<1> SUFFICES ASSUME Init PROVE ListInv
  OBVIOUS
<1>1. \A s \in Table \ Used : stations[s] = Blank
  <2>1. 0 \in Used
    BY DEF Init, Used, Indices
  <2>2. stations = [[s \in Table |-> Blank] EXCEPT ![0].call = Self]
    BY DEF Init
  <2>3. \A s \in Table : s # 0 => stations[s] = Blank
    BY <2>2, Zenon
  <2>4. QED
    BY <2>1, <2>3
<1>2. Used \subseteq Table
  BY InitHolds, Sizes DEF IInv
<1>3. sortOrder \in Orders
  BY <1>2 DEF Init, Orders
<1>4. QED
  BY <1>1, <1>3 DEF Init, ListInv

(* A frame that takes a new entry shows it last; one that takes another's   *)
(* entry takes its position.                                                *)
LEMMA HearLists ==
  ASSUME IInv, ListInv, NEW c \in Callsigns, Hear(c)
  PROVE  ListInv'
<1> DEFINE p == Place(c)
<1>1. /\ \A s \in Table \ {p} : stations'[s] = stations[s]
      /\ Used' = Used \cup {p}
      /\ sortOrder' = sortOrder /\ ticking' = ticking
      /\ p \in Table
  BY HearFacts, PlaceFacts DEF Hear
<1>2. Table' = Table /\ Used \subseteq Table
  BY Sizes DEF IInv, Table
<1>3. \A s \in Table \ Used : stations[s] = Blank
  BY DEF ListInv
<1>4. /\ sortOrder \in [Table -> Table]
      /\ \A s \in Used : sortOrder[s] \in Used
      /\ \A t \in Used : \E s \in Used : sortOrder[s] = t
      /\ \A s, t \in Used : sortOrder[s] = sortOrder[t] => s = t
      /\ \A s \in Table \ Used : sortOrder[s] = s
  BY DEF ListInv, Orders
<1> HIDE DEF p
<1>5. \A s \in Table' \ Used' : stations'[s] = Blank
  BY <1>1, <1>2, <1>3
<1>6. CASE p \in Used
  <2>1. Used' = Used
    BY <1>1, <1>6
  <2>2. sortOrder' \in Orders'
    BY <1>1, <1>2, <1>4, <2>1 DEF Orders
  <2>3. QED
    BY <1>1, <1>5, <2>2 DEF ListInv
<1>7. CASE p \notin Used
  <2>1. sortOrder[p] = p
    BY <1>1, <1>4, <1>7
  <2>2. \A s \in Used' : sortOrder[s] \in Used'
    BY <1>1, <1>4, <2>1
  <2>3. \A t \in Used' : \E s \in Used' : sortOrder[s] = t
    BY <1>1, <1>4, <2>1
  <2>4. \A s, t \in Used' : sortOrder[s] = sortOrder[t] => s = t
    BY <1>1, <1>4, <1>7, <2>1
  <2>5. \A s \in Table \ Used' : sortOrder[s] = s
    BY <1>1, <1>4
  <2>6. sortOrder' \in Orders'
    BY <1>1, <1>2, <1>4, <2>2, <2>3, <2>4, <2>5 DEF Orders
  <2>7. QED
    BY <1>1, <1>5, <2>6 DEF ListInv
<1>8. QED
  BY <1>6, <1>7

(* A sort keeps the order a permutation, whatever it sorts by. *)
LEMMA SortLists ==
  ASSUME IInv, ListInv, NEW column, NEW ascending \in BOOLEAN, Sort(column, ascending)
  PROVE  ListInv'
<1>1. Sorted(column, ascending) \in Orders
  <2>1. PICK r \in [Used -> Int] :
          \A s, t \in Used : OutOfOrder(column, ascending, s, t) <=> r[s] > r[t]
    BY ColumnRanks
  <2>2. QED
    BY <2>1, SortedFacts DEF ListInv
<1>2. /\ sortOrder' \in Orders
      /\ UNCHANGED <<stations, num, ticking>>
  BY <1>1 DEF Sort
<1>3. Orders' = Orders /\ Table' = Table /\ Used' = Used
  BY <1>2 DEF Orders, Used, Table
<1>4. QED
  BY <1>2, <1>3 DEF ListInv

(* Every step keeps it. *)
LEMMA StepLists == IInv /\ ListInv /\ [Next]_vars => ListInv'
<1> SUFFICES ASSUME IInv, ListInv, [Next]_vars PROVE ListInv'
  OBVIOUS
<1>1. CASE \E c \in Callsigns : Hear(c)
  BY <1>1, HearLists
<1>2. ASSUME NEW c \in Callsigns, NEW mark \in BOOLEAN, Mark(c, mark) PROVE ListInv'
  <2>1. /\ UNCHANGED <<num, sortOrder, ticking>>
        /\ Orders' = Orders /\ Table' = Table /\ Used' = Used
    BY <1>2 DEF Mark, Orders, Used, Table
  <2>2. \A s \in Table \ Used : stations'[s] = stations[s]
    BY <1>2, MarkFacts
  <2>3. QED
    BY <2>1, <2>2 DEF ListInv
<1>3. ASSUME NEW column \in Columns, NEW ascending \in BOOLEAN, Sort(column, ascending)
      PROVE  ListInv'
  BY <1>3, SortLists
<1>4. CASE \/ \E delta \in Deltas : BeginTick(delta)
           \/ EndTick
           \/ UNCHANGED vars
  <2>1. /\ UNCHANGED <<stations, num, sortOrder>>
        /\ ticking' \in BOOLEAN
        /\ Orders' = Orders /\ Table' = Table /\ Used' = Used
    BY <1>4 DEF BeginTick, EndTick, vars, ListInv, Orders, Used, Table
  <2>2. QED
    BY <2>1 DEF ListInv
<1>5. QED
  BY <1>1, <1>2, <1>3, <1>4 DEF Next

(* Entries are written as soon as they are in use and not before, and the   *)
(* order stays a permutation.                                               *)
LEMMA ListInvariance == Spec => []ListInv
BY InitLists, StepLists, Invariance, PTL DEF Spec

(* The state of the table keeps its type: an entry in use holds a callsign  *)
(* that was heard, maybe the empty one, and nothing was written to the      *)
(* others (sm_find_or_create), for tables of every size.                    *)
THEOREM TableTyped == Spec => []TypeOK
BY OrderShowsAll, Invariance, ListInvariance, PTL

(* A client sees every station, each once, whatever was heard, evicted and  *)
(* sorted since the engine was created (sm_sort, list_stations).            *)
THEOREM ListShowsAll == Spec => []ListComplete
BY OrderShowsAll, Invariance, ListInvariance, PTL

(* Every sort leaves the list in the order of its column, up or down        *)
(* (sm_sort), for tables of every size.                                     *)
THEOREM SortIsCorrect == Spec => SortSorts
<1>1. ASSUME IInv, ListInv, NEW column \in Columns, NEW ascending \in BOOLEAN,
             Sort(column, ascending)
      PROVE  \A p, q \in Used : p < q =>
               ~OutOfOrder(column, ascending, sortOrder'[p], sortOrder'[q])
  <2>1. PICK r \in [Used -> Int] :
          \A s, t \in Used : OutOfOrder(column, ascending, s, t) <=> r[s] > r[t]
    BY <1>1, ColumnRanks
  <2>2. /\ sortOrder' \in Orders
        /\ \A p, q \in Used : p < q => r[sortOrder'[p]] <= r[sortOrder'[q]]
    BY <1>1, <2>1, SortedFacts DEF ListInv, Sort
  <2>3. \A p \in Used : sortOrder'[p] \in Used /\ r[sortOrder'[p]] \in Int
    BY <2>2 DEF Orders
  <2>4. QED
    BY <2>1, <2>2, <2>3
<1>2. IInv /\ ListInv =>
        \A column \in Columns, ascending \in BOOLEAN :
          Sort(column, ascending) =>
            \A p, q \in Used : p < q =>
              ~OutOfOrder(column, ascending, sortOrder'[p], sortOrder'[q])
  BY <1>1
<1>3. QED
  BY <1>2, Invariance, ListInvariance, PTL DEF SortSorts

-----------------------------------------------------------------------------
(* The same callsigns are listed and found. *)
LEMMA ListedIsFound ==
  ASSUME NEW c
  PROVE  c \in Calls <=> Found(c) # {}
BY DEF Calls, Found

(* The frame of c changes the map as the abstract step says, `stay' being   *)
(* the callsigns whose entries stay.                                        *)
LEMMA HearRenews ==
  ASSUME IInv, IInv', NEW c \in Callsigns, Hear(c),
         NEW stay \in SUBSET Calls,
         Calls' = stay \cup {c}
  PROVE  Book' = Map!Renewed(c, stay)
<1> DEFINE p == Place(c)
           R == Map!Renewed(c, stay)
<1>1. /\ stations'[p] = [call |-> c, heard |-> now, marked |-> Found(c) # {} /\ stations[p].marked]
      /\ \A s \in Table \ {p} : stations'[s] = stations[s]
      /\ Used' = Used \cup {p}
  BY HearFacts
<1>2. Used \subseteq Table /\ (Found(c) # {} => p \in Used /\ stations[p].call = c)
  BY Sizes, PlaceFacts DEF IInv
<1>3. \A s \in Used : Book[stations[s].call] =
                         [heard |-> stations[s].heard, marked |-> stations[s].marked]
  BY Lookup
<1>4. \A s \in Used' : Book'[stations'[s].call] =
                          [heard |-> stations'[s].heard, marked |-> stations'[s].marked]
  <2>1. IInv' => (\A s \in Used : /\ stations[s].call \in Calls
                                  /\ First(Found(stations[s].call)) = s
                                  /\ Book[stations[s].call] =
                                       [heard |-> stations[s].heard, marked |-> stations[s].marked])'
    BY Lookup, PTL
  <2>2. QED
    BY <2>1
<1> HIDE DEF p
<1>5. R = [d \in Calls' |->
             IF d # c THEN Book[d]
             ELSE [heard |-> now, marked |-> c \in Calls /\ Book[c].marked]]
  BY DEF Map!Renewed, Map!Listed, Book
<1>6. ASSUME NEW d \in Calls', d # c
      PROVE  Book'[d] = Book[d]
  <2>1. PICK s \in Used' : stations'[s].call = d
    BY DEF Calls
  <2>2. s # p
    BY <1>1, <1>6, <2>1
  <2>3. s \in Used /\ stations'[s] = stations[s]
    BY <1>1, <1>2, <2>2
  <2>4. /\ Book[d] = [heard |-> stations[s].heard, marked |-> stations[s].marked]
        /\ Book'[d] = [heard |-> stations'[s].heard, marked |-> stations'[s].marked]
    <3>1. Book[stations[s].call] = [heard |-> stations[s].heard, marked |-> stations[s].marked]
      BY <1>3, <2>3
    <3>2. Book'[stations'[s].call] = [heard |-> stations'[s].heard, marked |-> stations'[s].marked]
      BY <1>4
    <3>3. stations[s].call = d
      BY <2>1, <2>3
    <3>4. QED
      BY <2>1, <3>1, <3>2, <3>3
  <2>5. QED
    BY <2>3, <2>4
<1>7. Book'[c] = [heard |-> now, marked |-> c \in Calls /\ Book[c].marked]
  <2>1. Book'[c] = [heard |-> now, marked |-> Found(c) # {} /\ stations[p].marked]
    BY <1>1, <1>4
  <2>2. CASE Found(c) # {}
    <3>1. Book[c] = [heard |-> stations[p].heard, marked |-> stations[p].marked]
      BY <1>2, <1>3, <2>2
    <3>2. Book[c].marked = stations[p].marked
      BY <3>1
    <3>3. c \in Calls
      BY <2>2, ListedIsFound
    <3>4. QED
      BY <2>1, <2>2, <3>2, <3>3
  <2>3. CASE Found(c) = {}
    <3>1. c \notin Calls
      BY <2>3, ListedIsFound
    <3>2. QED
      BY <2>1, <2>3, <3>1
  <2>4. QED
    BY <2>2, <2>3
<1>8. Book' = [d \in Calls' |-> Book'[d]]
  BY DEF Book
<1> HIDE DEF R
<1>9. \A d \in Calls' : Book'[d] = R[d]
  BY <1>5, <1>6, <1>7
<1>10. QED
  BY <1>5, <1>8, <1>9 DEF R

(* A frame does to the map what the abstract one does. *)
LEMMA HearRefines ==
  ASSUME IInv, IInv', NEW c \in Callsigns, Hear(c)
  PROVE  Map!Heard(c)
<1> DEFINE p == Place(c)
<1>1. /\ stations'[p].call = c
      /\ \A s \in Table \ {p} : stations'[s] = stations[s]
      /\ Used' = Used \cup {p}
  BY HearFacts
<1>2. num \in Nat /\ Size \in Nat /\ num <= Size /\ Used \subseteq Table /\ 0 \in Used
  BY Sizes DEF IInv
<1>3. Calls' = {stations[s].call : s \in Used \ {p}} \cup {c}
  <2>1. Used' \ {p} = Used \ {p} /\ p \in Used'
    BY <1>1
  <2>2. \A s \in Used \ {p} : stations'[s] = stations[s]
    BY <1>1, <1>2
  <2>3. QED
    BY <1>1, <2>1, <2>2 DEF Calls
<1>4. Map!Listed = Calls /\ now' = now /\ Map!Cardinality(Calls) = num
  <2>1. Map!Cardinality(Calls) = Cardinality(Calls)
    BY DEF Map!Cardinality, Cardinality
  <2>2. QED
    BY <2>1, Count DEF Map!Listed, Book, Hear
<1>5. CASE Found(c) # {} \/ num < Size
  <2>1. p \in Used => stations[p].call = c
    <3>1. CASE Found(c) # {}
      BY <3>1, PlaceFacts
    <3>2. CASE Found(c) = {} /\ num < Size
      <4>1. p = num
        BY <3>2, PlaceFacts
      <4>2. QED
        BY <1>2, <4>1 DEF Used, Indices
    <3>3. QED
      BY <1>5, <3>1, <3>2
  <2>2. Calls' = Calls \cup {c}
    BY <1>3, <2>1 DEF Calls
  <2>3. Book' = Map!Renewed(c, Calls)
    BY <2>2, HearRenews
  <2>4. c \in Map!Listed \/ Map!Cardinality(Map!Listed) < Size
    BY <1>4, <1>5, ListedIsFound
  <2>5. QED
    BY <1>4, <2>3, <2>4 DEF Map!Heard
<1>6. CASE Found(c) = {} /\ num = Size
  <2> DEFINE v == stations[p].call
  <2>1. p \in Used \ {0} /\ \A t \in Used \ {0} : stations[p].heard <= stations[t].heard
    BY <1>6, PlaceFacts
  <2>2. \A s \in Used : Book[stations[s].call].heard = stations[s].heard
    <3>1. TAKE s \in Used
    <3>2. Book[stations[s].call] =
            [heard |-> stations[s].heard, marked |-> stations[s].marked]
      BY Lookup
    <3>3. QED
      BY <3>2
  <2>3. v \in Calls \ {Self}
    BY <1>2, <2>1 DEF Calls, IInv, OwnEntry, CallsignsDistinct
  <2>4. v \in Map!LongestSilent
    <3>1. ASSUME NEW w \in Calls \ {Self} PROVE Book[v].heard <= Book[w].heard
      <4>1. PICK t \in Used : stations[t].call = w
        BY DEF Calls
      <4>2. t # 0
        BY <4>1, <3>1 DEF IInv, OwnEntry
      <4>3. QED
        BY <2>1, <2>2, <4>1, <4>2
    <3>2. QED
      BY <1>4, <2>3, <3>1 DEF Map!LongestSilent
  <2>5. {stations[s].call : s \in Used \ {p}} = Calls \ {v}
    BY <2>1 DEF Calls, IInv, CallsignsDistinct
  <2> HIDE DEF v
  <2>6. Calls' = (Calls \ {v}) \cup {c}
    BY <1>3, <2>5
  <2>7. Book' = Map!Renewed(c, Calls \ {v})
    BY <2>6, HearRenews
  <2>8. ~(c \in Map!Listed \/ Map!Cardinality(Map!Listed) < Size)
    BY <1>2, <1>4, <1>6, ListedIsFound
  <2>9. QED
    BY <1>4, <2>4, <2>7, <2>8 DEF Map!Heard
<1>7. QED
  BY <1>2, <1>5, <1>6

(* So does a mark. *)
LEMMA MarkRefines ==
  ASSUME IInv, IInv', NEW c \in Callsigns, NEW mark \in BOOLEAN, Mark(c, mark)
  PROVE  Map!Mark(c, mark)
<1> DEFINE m == First(Found(c))
           B == [Book EXCEPT ![c].marked = mark]
<1>1. /\ m \in Used
      /\ stations[m].call = c
      /\ stations'[m].call = c
      /\ stations'[m].heard = stations[m].heard
      /\ stations'[m].marked = mark
      /\ \A s \in Table \ {m} : stations'[s] = stations[s]
  BY MarkFacts
<1>2. Used' = Used /\ now' = now /\ Used \subseteq Table
  BY Sizes DEF Mark, Used, IInv
<1> HIDE DEF m
<1>3. \A s \in Used : Book[stations[s].call] =
                         [heard |-> stations[s].heard, marked |-> stations[s].marked]
  BY Lookup
<1>4. \A s \in Used' : Book'[stations'[s].call] =
                          [heard |-> stations'[s].heard, marked |-> stations'[s].marked]
  <2>1. IInv' => (\A s \in Used : /\ stations[s].call \in Calls
                                  /\ First(Found(stations[s].call)) = s
                                  /\ Book[stations[s].call] =
                                       [heard |-> stations[s].heard, marked |-> stations[s].marked])'
    BY Lookup, PTL
  <2>2. QED
    BY <2>1
<1>5. \A s \in Used : stations'[s].call = stations[s].call
  BY <1>1, <1>2
<1>6. Calls' = Calls /\ c \in Calls
  BY <1>1, <1>2, <1>5 DEF Calls
<1>7. DOMAIN Book = Calls /\ Book' = [d \in Calls |-> Book'[d]]
  BY <1>6 DEF Book
<1>8. DOMAIN B = Calls /\ B = [d \in Calls |-> B[d]]
  BY <1>7
<1>9. ASSUME NEW d \in Calls PROVE Book'[d] = B[d]
  <2>1. PICK s \in Used : stations[s].call = d
    BY DEF Calls
  <2>2. /\ Book[d] = [heard |-> stations[s].heard, marked |-> stations[s].marked]
        /\ Book'[d] = [heard |-> stations'[s].heard, marked |-> stations'[s].marked]
    BY <1>2, <1>3, <1>4, <1>5, <2>1
  <2>3. CASE d = c
    <3>1. s = m
      BY <1>1, <2>1, <2>3 DEF IInv, CallsignsDistinct
    <3>2. B[d] = [Book[d] EXCEPT !.marked = mark]
      BY <1>7, <2>3
    <3>3. B[d] = [heard |-> stations[s].heard, marked |-> mark]
      BY <2>2, <3>2
    <3>4. QED
      BY <1>1, <2>2, <3>1, <3>3
  <2>4. CASE d # c
    <3>1. s # m
      BY <1>1, <2>1, <2>4
    <3>2. stations'[s] = stations[s]
      BY <1>1, <1>2, <3>1
    <3>3. B[d] = Book[d]
      BY <1>7, <2>4
    <3>4. QED
      BY <2>2, <3>2, <3>3
  <2>5. QED
    BY <2>3, <2>4
<1> HIDE DEF B
<1>10. Book' = B
  BY <1>7, <1>8, <1>9
<1>11. QED
  BY <1>2, <1>6, <1>7, <1>10 DEF B, Map!Mark, Map!Listed

(* Every step of the table is a step of the map, or none. *)
LEMMA StepRefines == IInv /\ IInv' /\ [Next]_vars => [Map!Next]_(Map!vars)
<1> SUFFICES ASSUME IInv, IInv', [Next]_vars PROVE [Map!Next]_(Map!vars)
  OBVIOUS
<1>1. CASE \E c \in Callsigns : Hear(c)
  BY <1>1, HearRefines DEF Map!Next
<1>2. CASE \E c \in Callsigns, mark \in BOOLEAN : Mark(c, mark)
  BY <1>2, MarkRefines DEF Map!Next
<1>3. CASE UNCHANGED <<stations, num>> /\ now' \in Nat /\ now' >= now
  <2>1. Book' = Book
    BY <1>3 DEF Book, Calls, Found, Used
  <2>2. now' = now \/ now' > now
    BY <1>3 DEF IInv, TableType
  <2>3. QED
    BY <1>3, <2>1, <2>2 DEF Map!Next, Map!Pass, Map!vars
<1>4. QED
  BY <1>1, <1>2, <1>3, OtherSteps

(* The table implements the map: marks stay with their callsign, one's own  *)
(* station is never evicted, and of the others only one heard the longest   *)
(* ago (station_manager.c), for tables of every size.                       *)
THEOREM TableRefinement == Spec => ImplementsMap
<1>1. Init => Map!Init
  <2> SUFFICES ASSUME Init PROVE Map!Init
    OBVIOUS
  <2>1. Used = {0} /\ stations[0].call = Self /\ stations[0].heard = 0 /\ stations[0].marked = FALSE
    <3>1. 0 \in Table
      BY TableAssumption DEF Table, Indices
    <3>2. QED
      BY <3>1 DEF Init, Used, Indices, Blank
  <2>2. Calls = {Self}
    BY <2>1 DEF Calls
  <2>3. Book[Self] = [heard |-> 0, marked |-> FALSE]
    BY <2>1, InitHolds, Lookup
  <2>4. Book = [d \in {Self} |-> Book[d]]
    BY <2>2 DEF Book
  <2>5. Book = [d \in {Self} |-> [heard |-> 0, marked |-> FALSE]]
    BY <2>3, <2>4
  <2>6. QED
    BY <2>5 DEF Map!Init, Init
<1>2. QED
  BY <1>1, Invariance, StepRefines, PTL DEF Spec, ImplementsMap, Map!Spec
=============================================================================
