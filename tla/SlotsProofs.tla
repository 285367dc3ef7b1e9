----------------------------- MODULE SlotsProofs -----------------------------
(***************************************************************************)
(* The facts about scans that the proofs of the engine's tables rest on.   *)
(***************************************************************************)
EXTENDS Slots, WellFoundedInduction, TLAPS

(* A non-empty set of naturals has a least element.                         *)
LEMMA LeastNatural ==
  ASSUME NEW S \in SUBSET Nat, S # {}
  PROVE  \E s \in S : \A t \in S : s <= t
<1> DEFINE R == OpToRel(<, Nat)
<1>1. IsWellFoundedOn(R, Nat)
  BY NatLessThanWellFounded
<1>2. \E s \in S : \A t \in S : <<t, s>> \notin R
  BY <1>1, WFMin
<1>3. \A s, t \in Nat : t < s => <<t, s>> \in R
  BY DEF OpToRel
<1> HIDE DEF R
<1>4. PICK s \in S : \A t \in S : <<t, s>> \notin R
  BY <1>2
<1>5. \A t \in S : s \in Nat /\ t \in Nat /\ ~(t < s)
  BY <1>3, <1>4
<1>6. \A t \in S : s <= t
  BY <1>5
<1>7. QED
  BY <1>6

(* A scan that has something to find stops at a slot it looks for, the      *)
(* lowest one (every first-fit loop of the engine's tables).                *)
LEMMA FirstIsLeast ==
  ASSUME NEW S \in SUBSET Nat, S # {}
  PROVE  First(S) \in S /\ \A t \in S : First(S) <= t
BY LeastNatural DEF First

(* The search for the oldest entry of a non-empty set of slots finds one.   *)
LEMMA LeastNonEmpty ==
  ASSUME NEW S, S # {}, NEW f, \A s \in S : f[s] \in Nat
  PROVE  Least(f, S) # {}
<1> DEFINE V == {f[s] : s \in S}
<1>1. V \in SUBSET Nat /\ V # {}
  OBVIOUS
<1>2. PICK v \in V : \A w \in V : v <= w
  BY <1>1, LeastNatural
<1>3. PICK s \in S : f[s] = v
  OBVIOUS
<1>4. \A t \in S : f[s] <= f[t]
  BY <1>2, <1>3
<1>5. QED
  BY <1>4 DEF Least

(* A set that holds a and with each number the next holds all from a to b.  *)
LEMMA IntervalInduction ==
  ASSUME NEW a \in Int, NEW b \in Int, NEW G,
         a \in G, \A k \in a .. b : k \in G /\ k < b => k + 1 \in G
  PROVE  \A k \in a .. b : k \in G
<1> SUFFICES ASSUME NEW k \in a .. b, k \notin G PROVE FALSE
  OBVIOUS
<1> DEFINE Missing == {n \in Nat : n <= b - a /\ a + n \notin G}
<1>1. k - a \in Missing
  BY SMT
<1>2. PICK n \in Missing : \A m \in Missing : n <= m
  <2>1. Missing \in SUBSET Nat /\ Missing # {}
    BY <1>1
  <2> HIDE DEF Missing
  <2>2. QED
    BY <2>1, LeastNatural
<1>3. n \in Nat /\ n # 0 /\ n <= b - a /\ a + n \notin G
  BY SMT
<1>4. n - 1 \notin Missing
  BY <1>2, <1>3
<1>5. a + (n - 1) \in G /\ a + (n - 1) \in a .. b /\ a + (n - 1) < b
  BY <1>3, <1>4
<1>6. (a + (n - 1)) + 1 \in G
  BY <1>5
<1>7. (a + (n - 1)) + 1 = a + n
  BY <1>3
<1>8. QED
  BY <1>3, <1>6, <1>7

(* The runs of a loop from a to b over a state in S: what each round leaves. *)
Runs(a, b, S, base, step) ==
  {g \in [a .. b -> S] : g[a] = base /\ \A k \in a .. b : k # a => g[k] = step[k][g[k - 1]]}

(* Such a loop has a run. *)
LEMMA LoopExists ==
  ASSUME NEW a \in Int, NEW b \in Int, a <= b,
         NEW S, NEW base \in S, NEW step \in [a .. b -> [S -> S]]
  PROVE  Runs(a, b, S, base, step) # {}
<1> DEFINE Loop(g, n) ==
             g[a] = base /\ \A k \in a .. n : k # a => g[k] = step[k][g[k - 1]]
           G == {n \in a .. b : \E g \in [a .. n -> S] : Loop(g, n)}
<1>1. a \in G
  <2>1. [k \in a .. a |-> base] \in [a .. a -> S] /\ Loop([k \in a .. a |-> base], a)
    BY SMT
  <2>2. a \in a .. b
    OBVIOUS
  <2> HIDE DEF Loop
  <2>3. \E g \in [a .. a -> S] : Loop(g, a)
    BY <2>1
  <2>4. QED
    BY <2>2, <2>3
<1>2. ASSUME NEW n \in a .. b, n \in G, n < b PROVE n + 1 \in G
  <2>1. PICK g \in [a .. n -> S] : Loop(g, n)
    BY <1>2
  <2> DEFINE h == [k \in a .. (n + 1) |-> IF k = n + 1 THEN step[n + 1][g[n]] ELSE g[k]]
  <2>2. n \in a .. n /\ n + 1 \in a .. b /\ a .. n \subseteq a .. (n + 1)
    BY <1>2
  <2>3. step[n + 1][g[n]] \in S
    BY <2>1, <2>2
  <2>4. \A k \in a .. (n + 1) : k # n + 1 => k \in a .. n /\ (k # a => k - 1 \in a .. n)
    OBVIOUS
  <2>5. h \in [a .. (n + 1) -> S]
    BY <2>3, <2>4
  <2>6. h[a] = base
    BY <1>2, <2>1, <2>2
  <2>7. ASSUME NEW k \in a .. (n + 1), k # a PROVE h[k] = step[k][h[k - 1]]
    <3>1. CASE k = n + 1
      <4>1. k - 1 = n /\ n \in a .. (n + 1) /\ n # n + 1
        BY <1>2, <3>1
      <4>2. h[k] = step[n + 1][g[n]] /\ h[n] = g[n]
        BY <3>1, <4>1
      <4>3. QED
        BY <3>1, <4>1, <4>2
    <3>2. CASE k # n + 1
      <4>1. k \in a .. n /\ k - 1 \in a .. n /\ k - 1 \in a .. (n + 1) /\ k - 1 # n + 1
        BY <2>4, <2>7, <3>2
      <4>2. h[k] = g[k] /\ h[k - 1] = g[k - 1]
        BY <3>2, <4>1
      <4>3. QED
        BY <2>1, <2>7, <4>1, <4>2
    <3>3. QED
      BY <3>1, <3>2
  <2> HIDE DEF h
  <2>8. QED
    BY <2>2, <2>5, <2>6, <2>7
<1> HIDE DEF G
<1>3. \A k \in a .. b : k \in G /\ k < b => k + 1 \in G
  BY <1>2
<1>4. \A k \in a .. b : k \in G
  BY <1>1, <1>3, IntervalInduction
<1>5. b \in G
  BY <1>4
<1>6. QED
  BY <1>5 DEF G, Runs

(* A number is its quotient times m and a remainder. *)
LEMMA DivisionMod ==
  ASSUME NEW m \in Nat \ {0}, NEW a \in Nat
  PROVE  a = m * (a \div m) + (a % m) /\ a \div m \in Int /\ a % m \in Int
BY SMT

(* No multiple of m lies between 0 and m. *)
LEMMA NoMultipleBetween ==
  ASSUME NEW m \in Nat \ {0}, NEW d \in Int, 0 < m * d, m * d < m
  PROVE  FALSE
<1>1. CASE d <= 0
  BY <1>1
<1>2. CASE d >= 1
  BY <1>2
<1>3. QED
  BY <1>1, <1>2

(* Numbers less than m apart have different remainders modulo m. *)
LEMMA RemaindersDiffer ==
  ASSUME NEW m \in Nat \ {0}, NEW a \in Nat, NEW b \in Nat, a < b, b < a + m
  PROVE  a % m # b % m
<1> SUFFICES ASSUME a % m = b % m PROVE FALSE
  OBVIOUS
<1> DEFINE p == a \div m
           q == b \div m
           r == a % m
<1>1. a = m * p + r /\ b = m * q + r /\ p \in Int /\ q \in Int /\ r \in Int
  BY DivisionMod
<1> HIDE DEF p, q, r
<1>2. b - a = m * (q - p) /\ q - p \in Int
  BY <1>1
<1>3. 0 < m * (q - p) /\ m * (q - p) < m
  BY <1>2
<1>4. QED
  BY <1>2, <1>3, NoMultipleBetween
=============================================================================
