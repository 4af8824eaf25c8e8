------------------------------ MODULE DataProofs ------------------------------
(***************************************************************************)
(* Theorems about the parts whose properties speak of what is computed of  *)
(* any amount of data: the events found in samples and in averages of      *)
(* samples (SegmentUtilization), the sums of registers (ErrorCounters),    *)
(* the queue a launcher's window empties in one poll (LauncherWindow) and  *)
(* the views of the same snapshots (ModulationViews).                      *)
(* Induction is had from the library's well-founded order of finite sets.  *)
(***************************************************************************)
EXTENDS SegmentUtilization, ErrorCounters, LauncherWindow, ModulationViews, FiniteSetTheorems,
        SequenceTheorems, WellFoundedInduction, TLAPS

\* A set of numbers has a least one: the shortest of the intervals from 0 to its members.
LEMMA LeastNatural ==
  ASSUME NEW S \in SUBSET Nat, S # {}
  PROVE  \E m \in S : \A n \in S : m <= n
<1> DEFINE T == {0..m : m \in S}
           R == StrictSubsetOrdering(Nat)
           F == FiniteSubsetsOf(Nat)
<1>1. T \subseteq F /\ T # {}
  <2>1. ASSUME NEW m \in S PROVE 0..m \in F
    <3>1. IsFiniteSet(0..m)
      BY FS_Interval
    <3>2. QED
      BY <3>1 DEF FiniteSubsetsOf
  <2>2. QED
    BY <2>1
<1>2. IsWellFoundedOn(R, F)
  BY FS_StrictSubsetOrderingWellFounded
<1>3. \E x \in T : \A y \in T : ~(<<y, x>> \in R)
  <2> HIDE DEF T, R, F
  <2> QED BY <1>1, <1>2, WFMin
<1>4. PICK m \in S : \A n \in S : <<0..n, 0..m>> \notin R
  BY <1>3
<1>5. ASSUME NEW n \in S, n < m PROVE FALSE
  <2>1. 0..n \in SUBSET Nat /\ 0..m \in SUBSET Nat
    OBVIOUS
  <2>2. 0..n \subseteq 0..m /\ m \notin 0..n /\ m \in 0..m
    BY <1>5
  <2>3. <<0..n, 0..m>> \in R
    BY <2>1, <2>2 DEF StrictSubsetOrdering
  <2>4. QED
    BY <1>4, <2>3
<1>6. QED
  BY <1>5

\* Induction, of a set that holds 0 and what follows its members.
LEMMA InductionOnNat ==
  ASSUME NEW S, 0 \in S, \A n \in Nat : n \in S => n + 1 \in S
  PROVE  Nat \subseteq S
<1> DEFINE T == {n \in Nat : n \notin S}
<1>1. SUFFICES ASSUME T # {} PROVE FALSE
  OBVIOUS
<1>2. PICK m \in T : \A n \in T : m <= n
  BY <1>1, LeastNatural
<1>3. m # 0 /\ m - 1 \in Nat
  BY <1>2
<1>4. m - 1 \in S
  BY <1>2, <1>3
<1>5. QED
  BY <1>2, <1>3, <1>4

\* pick takes an element of each subset of S that has one, and X has a set when it has
\* what is left of it.
Picks(pick, S)    == \A T \in SUBSET S : T # {} => pick[T] \in T
Holds(X, pick, S) == {} \in X /\ \A T \in SUBSET S : T # {} /\ T \ {pick[T]} \in X => T \in X

\* The same of finite sets: X then has them all.
LEMMA InductionOnSubsets ==
  ASSUME NEW S, IsFiniteSet(S), NEW pick, Picks(pick, S), NEW X, Holds(X, pick, S)
  PROVE  SUBSET S \subseteq X
<1> DEFINE B == {T \in SUBSET S : T \notin X}
<1>1. SUFFICES ASSUME B # {} PROVE FALSE
  OBVIOUS
<1>2. B \subseteq FiniteSubsetsOf(S)
  BY FS_Subset DEF FiniteSubsetsOf
<1>3. PICK T \in B : \A U \in B : <<U, T>> \notin StrictSubsetOrdering(S)
  <2> HIDE DEF B
  <2> QED BY <1>1, <1>2, WFMin, FS_StrictSubsetOrderingWellFounded
<1>4. T # {} /\ T \in SUBSET S /\ pick[T] \in T
  BY <1>3 DEF Picks, Holds
<1>5. <<T \ {pick[T]}, T>> \in StrictSubsetOrdering(S)
  BY <1>4 DEF StrictSubsetOrdering
<1>6. T \ {pick[T]} \in X
  BY <1>3, <1>4, <1>5
<1>7. QED
  BY <1>3, <1>4, <1>6 DEF Holds

\* The function that recurses so over the subsets of a finite set.
Recurses(g, S, V, pick, base, step) ==
  /\ g \in [SUBSET S -> V]
  /\ \A T \in SUBSET S : g[T] = IF T = {} THEN base ELSE step[g[T \ {pick[T]}], pick[T]]
Recursion(S, V, pick, base, step) == CHOOSE g : Recurses(g, S, V, pick, base, step)

LEMMA RecursionOverSubsets ==
  ASSUME NEW S, IsFiniteSet(S), NEW pick, Picks(pick, S), NEW V, NEW base \in V, NEW step \in [V \X S -> V]
  PROVE  Recurses(Recursion(S, V, pick, base, step), S, V, pick, base, step)
<1> DEFINE Small(n) == {T \in SUBSET S : Cardinality(T) <= n}
           Good(n)  == \E g \in [Small(n) -> V] :
             \A T \in Small(n) : g[T] = IF T = {} THEN base ELSE step[g[T \ {pick[T]}], pick[T]]
           A == {n \in Nat : Good(n)}
<1>1. ASSUME NEW T \in SUBSET S
      PROVE  /\ IsFiniteSet(T) /\ Cardinality(T) \in Nat /\ Cardinality(T) <= Cardinality(S)
             /\ Cardinality(T) = 0 <=> T = {}
  <2>1. IsFiniteSet(T) /\ Cardinality(T) <= Cardinality(S)
    BY FS_Subset
  <2>2. Cardinality(T) \in Nat /\ (Cardinality(T) = 0 <=> T = {})
    BY <2>1, FS_CardinalityType, FS_EmptySet
  <2>3. QED
    BY <2>1, <2>2
<1>2. \A n \in Nat, T \in SUBSET S : T \in Small(n) <=> Cardinality(T) <= n
  OBVIOUS
<1>3. \A n \in Nat : Small(n) \subseteq SUBSET S
  OBVIOUS
<1>4. \A n \in Nat : n \in A <=> Good(n)
  OBVIOUS
<1> HIDE DEF Small, A
<1>5. 0 \in A
  <2>1. ASSUME NEW T \in Small(0) PROVE T = {}
    <3>1. T \in SUBSET S /\ Cardinality(T) <= 0
      BY <1>2, <1>3
    <3>2. QED
      BY <1>1, <3>1
  <2>2. [T \in Small(0) |-> base] \in [Small(0) -> V]
    OBVIOUS
  <2>3. Good(0)
    BY <2>1, <2>2
  <2>4. QED
    BY <1>4, <2>3
<1>6. ASSUME NEW n \in Nat, n \in A PROVE n + 1 \in A
  <2>1. PICK g \in [Small(n) -> V] :
          \A T \in Small(n) : g[T] = IF T = {} THEN base ELSE step[g[T \ {pick[T]}], pick[T]]
    BY <1>4, <1>6
  <2> HIDE DEF Good
  <2> DEFINE h == [T \in Small(n + 1) |-> IF T = {} THEN base ELSE step[g[T \ {pick[T]}], pick[T]]]
  <2>2. ASSUME NEW T \in Small(n + 1), T # {} PROVE T \ {pick[T]} \in Small(n) /\ pick[T] \in S
    <3>1. T \in SUBSET S /\ Cardinality(T) <= n + 1
      BY <1>2, <1>3
    <3>2. pick[T] \in S /\ pick[T] \in T /\ IsFiniteSet(T)
      BY <1>1, <2>2, <3>1 DEF Picks
    <3>3. Cardinality(T \ {pick[T]}) = Cardinality(T) - 1 /\ Cardinality(T) \in Nat
      BY <1>1, <3>1, <3>2, FS_RemoveElement
    <3>4. T \ {pick[T]} \in SUBSET S /\ Cardinality(T \ {pick[T]}) <= n
      BY <3>1, <3>3
    <3>5. QED
      BY <1>2, <3>2, <3>4
  <2>3. ASSUME NEW T \in Small(n) PROVE T \in Small(n + 1)
    <3>1. T \in SUBSET S /\ Cardinality(T) <= n
      BY <1>2, <1>3
    <3>2. Cardinality(T) <= n + 1
      BY <1>1, <3>1
    <3>3. QED
      BY <1>2, <3>1, <3>2
  <2>4. h \in [Small(n + 1) -> V]
    BY <2>1, <2>2
  <2>5. \A T \in Small(n) : h[T] = g[T]
    BY <2>1, <2>3
  <2>6. ASSUME NEW T \in Small(n + 1)
        PROVE  h[T] = IF T = {} THEN base ELSE step[h[T \ {pick[T]}], pick[T]]
    BY <2>2, <2>5
  <2>7. Good(n + 1)
    <3> HIDE DEF h
    <3> QED BY <2>4, <2>6 DEF Good
  <2>8. QED
    BY <1>4, <2>7
<1>7. Good(Cardinality(S))
  <2> HIDE DEF Good
  <2>1. Nat \subseteq A
    BY <1>5, <1>6, InductionOnNat
  <2>2. Cardinality(S) \in Nat
    BY <1>1
  <2>3. QED
    BY <1>4, <2>1, <2>2
<1>8. Small(Cardinality(S)) = SUBSET S
  BY <1>1, <1>2, <1>3
<1>9. \E g : Recurses(g, S, V, pick, base, step)
  BY <1>7, <1>8 DEF Recurses
<1>10. QED
  BY <1>9 DEF Recursion

\* A bounded set of numbers has a greatest one.
LEMMA GreatestNatural ==
  ASSUME NEW S \in SUBSET Nat, S # {}, NEW k \in Nat, \A n \in S : n < k
  PROVE  Max(S) \in S /\ \A n \in S : n <= Max(S)
<1> DEFINE T == {k - n : n \in S}
<1>1. T \in SUBSET Nat /\ T # {}
  <2>1. \A n \in S : k - n \in Nat
    OBVIOUS
  <2>2. QED
    BY <2>1
<1>2. PICK d \in T : \A e \in T : d <= e
  <2> HIDE DEF T
  <2> QED BY <1>1, LeastNatural
<1>3. PICK m \in S : d = k - m
  BY <1>2
<1>4. \A n \in S : k - n \in T
  OBVIOUS
<1>5. \A n \in S : m >= n
  BY <1>2, <1>3, <1>4
<1>6. QED
  BY <1>3, <1>5 DEF Max

(***************************************************************************)
(* Events of the segment's load                                            *)
(***************************************************************************)

LEMMA BucketAt ==
  ASSUME NEW width \in Nat \ {0}, NEW s \in Nat
  PROVE  /\ BucketOf(width, s) \in Nat /\ BucketOf(width, s) <= s /\ s < BucketOf(width, s) + width
         /\ \E n \in Nat : BucketOf(width, s) = n * width
<1>1. /\ s \div width \in Nat /\ (s \div width) * width <= s /\ s < (s \div width) * width + width
  OBVIOUS
<1>2. (s \div width) * width \in Nat
  BY <1>1
<1>3. QED
  BY <1>1, <1>2 DEF BucketOf

\* Of two moments in different buckets, the bucket of the later begins in between.
LEMMA BucketBetween ==
  ASSUME NEW width \in Nat \ {0}, NEW r \in Nat, NEW s \in Nat, r < s, BucketOf(width, r) # BucketOf(width, s)
  PROVE  r < BucketOf(width, s)
<1>1. PICK m \in Nat : BucketOf(width, r) = m * width
  BY BucketAt
<1>2. PICK n \in Nat : BucketOf(width, s) = n * width
  BY BucketAt
<1>3. m # n
  BY <1>1, <1>2
<1>4. CASE m < n
  <2>1. (m + 1) * width <= n * width
    <3>1. m + 1 <= n
      BY <1>4
    <3>2. QED
      BY <3>1
  <2>2. m * width + width <= n * width
    BY <2>1
  <2>3. r < m * width + width
    BY <1>1, BucketAt
  <2>4. m * width \in Nat /\ n * width \in Nat
    OBVIOUS
  <2>5. QED
    BY <1>2, <2>2, <2>3, <2>4
<1>5. CASE n < m
  <2>1. (n + 1) * width <= m * width
    <3>1. n + 1 <= m
      BY <1>5
    <3>2. QED
      BY <3>1
  <2>2. n * width + width <= m * width
    BY <2>1
  <2>3. s < n * width + width
    BY <1>2, BucketAt
  <2>4. m * width \in Nat /\ n * width \in Nat /\ m * width <= r
    BY <1>1, BucketAt
  <2>5. QED
    BY <2>2, <2>3, <2>4
<1>6. QED
  BY <1>3, <1>4, <1>5

\* The boundaries of the fine buckets, where averages lie.
Boundary(b) == \E n \in Nat : b = n * FineBucket
Raw(s)      == s % 2 = 1

\* A row that is not raw has room behind it, and a sample that was averaged away went with
\* all before it in its bucket.
SegInv ==
  /\ minute \in Nat /\ upkeepNow \in Nat
  /\ \A s \in DOMAIN load : s \in Nat /\ Raw(s) /\ s < 2 * minute
  /\ \A s \in DOMAIN samples : s \in Nat /\ (Raw(s) => s \in DOMAIN load /\ samples[s] = load[s])
  /\ \A b \in DOMAIN samples : ~Raw(b) =>
       Boundary(b) /\ b + 3 < 2 * minute /\ \A r \in DOMAIN samples : r > b => r > b + 3
  /\ \A s \in DOMAIN load \ DOMAIN samples, r \in DOMAIN samples :
       Raw(r) /\ r < s => \E b \in Nat : Boundary(b) /\ r < b /\ b <= s
  /\ \A s \in DOMAIN events :
       /\ events[s] \in Nat /\ events[s] < 2 * minute
       /\ \A r \in DOMAIN load : r \in s..events[s] => load[r] >= SaturatedFrom

LEMMA Boundaries ==
  ASSUME NEW a, NEW b, Boundary(a), Boundary(b)
  PROVE  a \in Nat /\ b \in Nat /\ ~Raw(a) /\ (a < b => a + 4 <= b)
<1>1. PICK m \in Nat, n \in Nat : a = m * FineBucket /\ b = n * FineBucket
  BY DEF Boundary
<1>2. FineBucket \in Nat /\ FineBucket % 2 = 0 /\ FineBucket >= 4
  BY SegmentAssumption
<1>3. PICK h \in Nat : FineBucket = 2 * h
  <2>1. FineBucket = 2 * (FineBucket \div 2) /\ FineBucket \div 2 \in Nat
    BY <1>2
  <2>2. QED
    BY <2>1
<1>4. a = 2 * (m * h) /\ m * h \in Nat
  BY <1>1, <1>3
<1>5. ~Raw(a)
  BY <1>4 DEF Raw
<1>6. ASSUME a < b PROVE a + 4 <= b
  <2>1. m < n
    <3>1. SUFFICES ASSUME n <= m PROVE FALSE
      OBVIOUS
    <3>2. n * FineBucket <= m * FineBucket
      BY <1>2, <3>1
    <3>3. QED
      BY <1>1, <1>2, <1>6, <3>2
  <2>2. m + 1 <= n
    BY <2>1
  <2>3. (m + 1) * FineBucket <= n * FineBucket
    BY <1>2, <2>2
  <2>4. m * FineBucket + FineBucket <= n * FineBucket
    BY <1>2, <2>3
  <2>5. QED
    BY <1>1, <1>2, <2>4
<1>7. QED
  BY <1>1, <1>2, <1>5, <1>6

\* A run of saturated rows covers saturated samples only, also those averaged away.
LEMMA RunsCoverSaturated ==
  ASSUME SegInv, NEW rows, DOMAIN rows \subseteq DOMAIN samples,
         \A s \in DOMAIN rows : rows[s] = samples[s],
         \A s \in DOMAIN samples, r \in DOMAIN rows : s <= r => s \in DOMAIN rows,
         NEW e \in Runs(rows), NEW s \in DOMAIN load, s \in e[1]..e[2]
  PROVE  load[s] >= SaturatedFrom
<1>1. /\ e[1] \in DOMAIN rows /\ e[2] \in DOMAIN rows /\ e[1] <= e[2] /\ e[1] \in Saturated(rows)
      /\ \A r \in DOMAIN rows : r > e[1] /\ r <= e[2] => Goes(rows, r)
  BY DEF Runs, Run
<1>2. e[1] \in Nat /\ e[2] \in Nat /\ s \in Nat /\ e[1] <= s /\ s <= e[2]
  BY <1>1 DEF SegInv
<1>3. CASE s \in DOMAIN rows
  <2>1. s \in Saturated(rows)
    BY <1>1, <1>2, <1>3 DEF Goes
  <2>2. Raw(s) /\ rows[s] = samples[s] /\ s \in DOMAIN samples
    BY <1>3 DEF SegInv
  <2>3. QED
    BY <2>1, <2>2 DEF SegInv, Saturated
<1>4. CASE s \notin DOMAIN rows
  <2>1. s \notin DOMAIN samples /\ Raw(s)
    BY <1>1, <1>2, <1>4 DEF SegInv
  <2>2. PICK n \in {r \in DOMAIN rows : r > s} : \A r \in {r \in DOMAIN rows : r > s} : n <= r
    <3> DEFINE S == {r \in DOMAIN rows : r > s}
    <3>1. S \in SUBSET Nat
      BY DEF SegInv
    <3>2. e[2] \in S
      BY <1>1, <1>2, <1>4
    <3> HIDE DEF S
    <3>3. \E m \in S : \A k \in S : m <= k
      BY <3>1, <3>2, LeastNatural
    <3>4. QED
      BY <3>3 DEF S
  <2>3. n \in Nat /\ n <= e[2] /\ n > e[1] /\ n > s /\ Goes(rows, n)
    BY <1>1, <1>2, <1>4, <2>2 DEF SegInv
  <2> DEFINE S == {r \in DOMAIN rows : r < n}
  <2>4. S \in SUBSET Nat /\ e[1] \in S /\ \A r \in S : r < n
    BY <1>1, <2>3 DEF SegInv
  <2>5. Max(S) \in S /\ \A r \in S : r <= Max(S)
    <3> HIDE DEF S
    <3> QED BY <2>3, <2>4, GreatestNatural
  <2>6. PICK p \in DOMAIN rows : p = Previous(rows, n) /\ p < n /\ n - p <= 3
    BY <2>3, <2>5 DEF Goes, Previous
  <2>7. p \in Nat /\ p < s /\ p \in DOMAIN samples /\ n \in DOMAIN samples
    BY <1>4, <2>2, <2>6 DEF SegInv
  <2>8. Raw(p)
    <3>1. SUFFICES ASSUME ~Raw(p) PROVE FALSE
      OBVIOUS
    <3>2. n > p + 3
      BY <2>6, <2>7, <3>1 DEF SegInv
    <3>3. QED
      BY <2>3, <2>6, <2>7, <3>2
  <2>9. n = s + 1 /\ p = s - 2
    BY <1>2, <2>1, <2>3, <2>6, <2>7, <2>8 DEF Raw
  <2>10. ~Raw(n) /\ Boundary(n)
    BY <1>2, <2>1, <2>7, <2>9 DEF SegInv, Raw
  <2>11. PICK b \in Nat : Boundary(b) /\ p < b /\ b <= s
    BY <2>1, <2>7, <2>8 DEF SegInv
  <2>12. b < n /\ s \in Nat
    BY <1>2, <2>9, <2>11
  <2>13. b + 4 <= n
    BY <2>10, <2>11, <2>12, Boundaries
  <2>14. QED
    BY <2>9, <2>11, <2>12, <2>13
<1>5. QED
  BY <1>3, <1>4

LEMMA SegInitInv == SegmentInit => SegInv
  BY DEF SegmentInit, SegInv

LEMMA CollectSampleSeg ==
  ASSUME SegInv, NEW level, CollectSample(level)
  PROVE  SegInv'
<1> USE DEF SampleAt
<1>1. CASE level \in Levels
  <2> DEFINE t == 2 * minute + 1
  <2>0. minute \in Nat /\ minute' = minute + 1 /\ t \in Nat /\ Raw(t) /\ UNCHANGED <<upkeepNow, events>>
    BY <1>1 DEF SegInv, CollectSample, Raw
  <2>1. \A s \in DOMAIN load \cup DOMAIN samples : s \in Nat /\ s < t
    BY <2>0 DEF SegInv
  <2>2. /\ DOMAIN load' = DOMAIN load \cup {t} /\ load'[t] = level
        /\ \A s \in DOMAIN load : load'[s] = load[s]
    BY <1>1, <2>1 DEF CollectSample, Beside
  <2>3. /\ DOMAIN samples' = DOMAIN samples \cup {t} /\ samples'[t] = level
        /\ \A s \in DOMAIN samples : samples'[s] = samples[s]
    BY <1>1, <2>1 DEF CollectSample, Beside
  <2> HIDE DEF t
  <2>4. \A s \in DOMAIN load' : s \in Nat /\ Raw(s) /\ s < 2 * minute'
    BY <2>0, <2>1, <2>2 DEF SegInv, t
  <2>5. \A s \in DOMAIN samples' : s \in Nat /\ (Raw(s) => s \in DOMAIN load' /\ samples'[s] = load'[s])
    BY <2>0, <2>1, <2>2, <2>3 DEF SegInv
  <2>6. ASSUME NEW b \in DOMAIN samples', ~Raw(b)
        PROVE  Boundary(b) /\ b + 3 < 2 * minute' /\ \A r \in DOMAIN samples' : r > b => r > b + 3
    <3>1. b \in DOMAIN samples /\ b \in Nat
      BY <2>0, <2>3, <2>6 DEF SegInv
    <3>2. Boundary(b) /\ b + 3 < 2 * minute /\ \A r \in DOMAIN samples : r > b => r > b + 3
      BY <2>6, <3>1 DEF SegInv
    <3>3. QED
      BY <2>0, <2>3, <3>1, <3>2 DEF t
  <2>7. ASSUME NEW s \in DOMAIN load' \ DOMAIN samples', NEW r \in DOMAIN samples', Raw(r), r < s
        PROVE  \E b \in Nat : Boundary(b) /\ r < b /\ b <= s
    <3>1. s \in DOMAIN load \ DOMAIN samples /\ r \in DOMAIN samples
      BY <2>0, <2>1, <2>2, <2>3, <2>7
    <3>2. QED
      BY <2>7, <3>1 DEF SegInv
  <2>8. ASSUME NEW s \in DOMAIN events
        PROVE  /\ events[s] \in Nat /\ events[s] < 2 * minute'
               /\ \A r \in DOMAIN load' : r \in s..events[s] => load'[r] >= SaturatedFrom
    <3>1. events[s] \in Nat /\ events[s] < 2 * minute
      BY DEF SegInv
    <3>2. ASSUME NEW r \in DOMAIN load', r \in s..events[s] PROVE r \in DOMAIN load /\ load'[r] = load[r]
      BY <2>0, <2>2, <3>1, <3>2 DEF t
    <3>3. QED
      BY <2>0, <3>1, <3>2 DEF SegInv
  <2>9. QED
    BY <2>0, <2>4, <2>5, <2>6, <2>7, <2>8 DEF SegInv
<1>2. CASE level \notin Levels
  BY <1>2 DEF SegInv, CollectSample, Boundary, Raw
<1>3. QED
  BY <1>1, <1>2

LEMMA MaterializeSeg ==
  ASSUME SegInv, Materialize
  PROVE  SegInv'
<1> DEFINE cutoff == upkeepNow - FineAfter
           rows   == UpTo(samples, cutoff)
           found  == {e \in Runs(rows) : e[2] < cutoff}
<1>1. /\ DOMAIN rows = {s \in DOMAIN samples : s <= cutoff}
      /\ \A s \in DOMAIN rows : rows[s] = samples[s]
  BY DEF UpTo, Restrict
<1>2. UNCHANGED <<minute, load, samples, upkeepNow>>
  BY DEF Materialize
<1>3. /\ DOMAIN events' = DOMAIN events \cup {e[1] : e \in found}
      /\ \A s \in DOMAIN events : events'[s] = events[s]
      /\ \A s \in DOMAIN events' \ DOMAIN events : events'[s] = (CHOOSE e \in found : e[1] = s)[2]
  BY DEF Materialize, Beside
<1>4. cutoff \in Int /\ \A s \in DOMAIN samples : s \in Nat
  BY SegmentAssumption DEF SegInv
<1> HIDE DEF rows, cutoff
<1>5. \A s \in DOMAIN samples, r \in DOMAIN rows : s <= r => s \in DOMAIN rows
  BY <1>1, <1>4
<1>6. ASSUME NEW s \in DOMAIN events' \ DOMAIN events
      PROVE  /\ events'[s] \in Nat /\ events'[s] < 2 * minute
             /\ \A r \in DOMAIN load : r \in s..events'[s] => load[r] >= SaturatedFrom
  <2>1. PICK e \in found : e[1] = s /\ events'[s] = e[2]
    BY <1>3
  <2>2. e \in Runs(rows) /\ e[2] \in DOMAIN samples
    BY <1>1, <2>1 DEF Runs
  <2>3. \A r \in DOMAIN load : r \in e[1]..e[2] => load[r] >= SaturatedFrom
    BY <1>1, <1>5, <2>2, RunsCoverSaturated
  <2>4. e[2] \in Nat /\ e[2] < 2 * minute
    <3>1. CASE Raw(e[2])
      BY <2>2, <3>1 DEF SegInv
    <3>2. CASE ~Raw(e[2])
      <4>1. e[2] \in Nat /\ e[2] + 3 < 2 * minute
        BY <2>2, <3>2 DEF SegInv
      <4>2. QED
        BY <4>1 DEF SegInv
    <3>3. QED
      BY <3>1, <3>2
  <2>5. QED
    BY <2>1, <2>3, <2>4
<1>7. QED
  BY <1>2, <1>3, <1>6 DEF SegInv, Boundary, Raw

\* Rows averaged into one make room behind it, and all before the cutoff go with them.
LEMMA DownsampledSeg ==
  ASSUME SegInv, NEW width \in Nat \ {0}, \A n \in Nat : Boundary(n * width), NEW cutoff \in Int,
         samples' = Downsampled(cutoff, width), UNCHANGED <<minute, load, events>>, upkeepNow' \in Nat
  PROVE  SegInv'
<1> DEFINE old    == {s \in DOMAIN samples : s < cutoff}
           In(b)  == {s \in old : BucketOf(width, s) = b}
           starts == {b \in {BucketOf(width, s) : s \in old} : Cardinality(In(b)) > 1}
           kept   == {s \in DOMAIN samples : s \notin UNION {In(b) : b \in starts}}
<1>1. DOMAIN Before(samples, cutoff) = old
  BY DEF Before, Restrict
<1>2. /\ DOMAIN samples' = kept \cup starts
      /\ \A s \in kept : samples'[s] = samples[s]
  <2>1. samples' = Beside(Restrict(samples, kept), [b \in starts |-> Average(samples, In(b))])
    BY <1>1 DEF Downsampled
  <2>2. kept \subseteq DOMAIN samples
    OBVIOUS
  <2> HIDE DEF kept, starts, In, old
  <2>3. QED
    BY <2>1, <2>2 DEF Restrict, Beside
<1>3. \A s \in DOMAIN samples : s \in Nat
  BY DEF SegInv
<1>4. ASSUME NEW b \in starts
      PROVE  /\ b \in Nat /\ Boundary(b) /\ ~Raw(b)
             /\ \E r, s \in In(b) : r < s
  <2>1. PICK s \in old : b = BucketOf(width, s)
    OBVIOUS
  <2>2. b \in Nat /\ Boundary(b) /\ ~Raw(b)
    BY <1>3, <2>1, BucketAt, Boundaries
  <2>3. \E r \in In(b) : r # s
    <3>1. SUFFICES ASSUME In(b) \subseteq {s} PROVE FALSE
      OBVIOUS
    <3>2. In(b) = {s}
      BY <2>1, <3>1
    <3>3. Cardinality(In(b)) = 1
      BY <3>2, FS_Singleton
    <3>4. QED
      BY <3>3
  <2>4. PICK r \in In(b) : r # s
    BY <2>3
  <2>5. s \in In(b)
    BY <2>1
  <2>6. r < s \/ s < r
    BY <1>3, <2>4
  <2>7. QED
    BY <2>2, <2>4, <2>5, <2>6
<1>5. ASSUME NEW b \in starts, NEW s \in In(b)
      PROVE  b <= s /\ s < b + width /\ s < cutoff /\ s \in DOMAIN samples
  BY <1>3, BucketAt
<1>6. ASSUME NEW b \in starts
      PROVE  /\ b + 3 < 2 * minute
             /\ \A r \in kept : r > b => r > b + 3
  <2>1. PICK r \in In(b), s \in In(b) : r < s
    BY <1>4
  <2>2. b \in Nat /\ r \in DOMAIN samples /\ s \in DOMAIN samples /\ r \in Nat /\ s \in Nat /\ b <= r
    BY <1>3, <1>4, <1>5
  <2>3. s >= b + 3
    <3>1. CASE Raw(s) /\ r # b
      BY <1>4, <2>1, <2>2, <3>1 DEF Raw
    <3>2. CASE ~Raw(s)
      <4>1. Boundary(s)
        BY <2>2, <3>2 DEF SegInv
      <4>2. b < s
        BY <2>1, <2>2
      <4>3. QED
        BY <1>4, <2>2, <4>1, <4>2, Boundaries
    <3>3. CASE r = b
      <4>1. ~Raw(r)
        BY <1>4, <3>3
      <4>2. s > r + 3
        BY <2>1, <2>2, <4>1 DEF SegInv
      <4>3. QED
        BY <2>2, <3>3, <4>2
    <3>4. QED
      BY <3>1, <3>2, <3>3
  <2>4. b + 3 < 2 * minute
    <3>1. CASE Raw(s)
      <4>1. s < 2 * minute /\ minute \in Nat
        BY <2>2, <3>1 DEF SegInv
      <4>2. QED
        BY <2>2, <2>3, <4>1
    <3>2. CASE ~Raw(s)
      <4>1. s + 3 < 2 * minute /\ minute \in Nat
        BY <2>2, <3>2 DEF SegInv
      <4>2. QED
        BY <2>2, <2>3, <4>1
    <3>3. QED
      BY <3>1, <3>2
  <2>5. ASSUME NEW k \in kept, k > b PROVE k > b + 3
    <3>1. k \in DOMAIN samples /\ k \in Nat /\ k \notin In(b)
      BY <1>3
    <3>2. CASE BucketOf(width, k) = b
      <4>1. k >= cutoff
        BY <3>1, <3>2
      <4>2. s < cutoff
        BY <1>5
      <4>3. QED
        BY <2>2, <2>3, <3>1, <4>1, <4>2
    <3>3. CASE BucketOf(width, k) # b
      <4>1. BucketOf(width, s) = b
        OBVIOUS
      <4>2. s < k
        <5>1. SUFFICES ASSUME k < s PROVE FALSE
          BY <2>2, <3>1, <3>3, <4>1
        <5>2. k < b
          BY <2>2, <3>1, <3>3, <4>1, <5>1, BucketBetween
        <5>3. QED
          BY <2>2, <2>5, <3>1, <5>2
      <4>3. QED
        BY <2>2, <2>3, <3>1, <4>2
    <3>4. QED
      BY <3>2, <3>3
  <2>6. QED
    BY <2>4, <2>5
<1> HIDE DEF starts, kept
<1>7. \A s \in DOMAIN samples' : s \in Nat /\ (Raw(s) => s \in DOMAIN load' /\ samples'[s] = load'[s])
  BY <1>2, <1>4 DEF SegInv, kept
<1>8. ASSUME NEW b \in DOMAIN samples', ~Raw(b)
      PROVE  Boundary(b) /\ b + 3 < 2 * minute /\ \A r \in DOMAIN samples' : r > b => r > b + 3
  <2>1. Boundary(b) /\ b \in Nat
    BY <1>2, <1>4, <1>8 DEF SegInv, kept
  <2>2. ASSUME NEW r \in starts, r > b PROVE r > b + 3
    BY <1>4, <2>1, <2>2, Boundaries
  <2>3. b + 3 < 2 * minute /\ \A r \in kept : r > b => r > b + 3
    <3>1. CASE b \in starts
      BY <1>6, <3>1
    <3>2. CASE b \in kept
      BY <1>8, <3>2 DEF SegInv, kept
    <3>3. QED
      BY <1>2, <3>1, <3>2
  <2>4. QED
    BY <1>2, <2>1, <2>2, <2>3
<1>9. ASSUME NEW s \in DOMAIN load \ DOMAIN samples', NEW r \in DOMAIN samples', Raw(r), r < s
      PROVE  \E b \in Nat : Boundary(b) /\ r < b /\ b <= s
  <2>1. r \in kept /\ r \in DOMAIN samples /\ r \in Nat /\ s \in Nat
    BY <1>2, <1>4, <1>7, <1>9 DEF kept, SegInv
  <2>2. CASE s \in DOMAIN samples
    <3>1. PICK b \in starts : s \in In(b)
      BY <1>2, <1>9, <2>2 DEF kept
    <3>2. BucketOf(width, s) = b /\ s < cutoff /\ b <= s
      BY <1>5, <3>1
    <3>3. r < cutoff
      BY <1>9, <2>1, <3>2
    <3>4. BucketOf(width, r) # b
      BY <2>1, <3>1, <3>3 DEF kept
    <3>5. r < b
      BY <1>9, <2>1, <3>2, <3>4, BucketBetween
    <3>6. QED
      BY <1>4, <3>2, <3>5
  <2>3. CASE s \notin DOMAIN samples
    BY <1>9, <2>1, <2>3 DEF SegInv
  <2>4. QED
    BY <2>2, <2>3
<1>10. QED
  BY <1>7, <1>8, <1>9 DEF SegInv, Boundary, Raw

LEMMA SegNextInv == SegInv /\ [SegmentNext]_segmentVars => SegInv'
<1>1. SUFFICES ASSUME SegInv, [SegmentNext]_segmentVars PROVE SegInv'
  OBVIOUS
<1>2. CASE BeginUpkeep \/ UpkeepStops \/ UNCHANGED segmentVars
  BY <1>1, <1>2 DEF BeginUpkeep, UpkeepStops, segmentVars, SegInv, Boundary, Raw
<1>3. CASE Downsample
  <2>1. /\ FineBucket \in Nat \ {0} /\ CoarseBucket \in Nat \ {0} /\ FineAfter \in Nat /\ CoarseAfter \in Nat
        /\ CoarseBucket % FineBucket = 0
    BY SegmentAssumption
  <2>2. UNCHANGED <<minute, load, events>> /\ upkeepNow' \in Nat /\ upkeepNow \in Nat
    BY <1>1, <1>3 DEF Downsample, SegInv
  <2>3. \A n \in Nat : Boundary(n * FineBucket)
    BY DEF Boundary
  <2>4. \A n \in Nat : Boundary(n * CoarseBucket)
    <3>1. PICK k \in Nat : CoarseBucket = k * FineBucket
      <4>1. CoarseBucket \div FineBucket \in Nat /\ CoarseBucket = FineBucket * (CoarseBucket \div FineBucket) + (CoarseBucket % FineBucket)
        BY <2>1
      <4>2. FineBucket * (CoarseBucket \div FineBucket) = (CoarseBucket \div FineBucket) * FineBucket
        BY <2>1, <4>1
      <4>3. QED
        BY <2>1, <4>1, <4>2
    <3>2. \A n \in Nat : n * k \in Nat /\ n * CoarseBucket = (n * k) * FineBucket
      BY <2>1, <3>1
    <3>3. QED
      BY <3>2 DEF Boundary
  <2>5. CASE upkeep = 2
    <3>1. samples' = Downsampled(upkeepNow - CoarseAfter, CoarseBucket) /\ upkeepNow - CoarseAfter \in Int
      BY <1>3, <2>1, <2>2, <2>5 DEF Downsample
    <3>2. QED
      BY <1>1, <2>1, <2>2, <2>4, <3>1, DownsampledSeg
  <2>6. CASE upkeep # 2
    <3>1. samples' = Downsampled(upkeepNow - FineAfter, FineBucket) /\ upkeepNow - FineAfter \in Int
      BY <1>3, <2>1, <2>2, <2>6 DEF Downsample
    <3>2. QED
      BY <1>1, <2>1, <2>2, <2>3, <3>1, DownsampledSeg
  <2>7. QED
    BY <2>5, <2>6
<1>4. QED
  BY <1>1, <1>2, <1>3, CollectSampleSeg, MaterializeSeg DEF SegmentNext

\* Every event that is stored or found covers saturated samples only, for any threshold,
\* any ages, and any buckets of which the coarse hold whole fine ones, wherever an upkeep
\* is cut off (storage/segment_utilization.py, get_events).
THEOREM EventsStayReal == SegmentSpec => []EventsAreReal
<1>1. SegInv => EventsAreReal
  <2>1. SUFFICES ASSUME SegInv, NEW e \in GetEvents, NEW s \in DOMAIN load, s \in e[1]..e[2]
                 PROVE  load[s] >= SaturatedFrom
    BY DEF EventsAreReal
  <2>2. CASE e \in Runs(samples)
    <3>1. \A r \in DOMAIN samples : samples[r] = samples[r]
      OBVIOUS
    <3>2. QED
      BY <2>1, <2>2, <3>1, RunsCoverSaturated
  <2>3. CASE e \notin Runs(samples)
    <3>1. PICK r \in DOMAIN events : e = <<r, events[r]>>
      BY <2>1, <2>3 DEF GetEvents
    <3>2. QED
      BY <2>1, <3>1 DEF SegInv
  <2>4. QED
    BY <2>2, <2>3
<1>2. QED
  BY SegInitInv, SegNextInv, <1>1, PTL DEF SegmentSpec

---------------------------------------------------------------------------

(***************************************************************************)
(* Sums over channels                                                      *)
(***************************************************************************)

\* A sum is taken element by element, in the order in which CHOOSE takes them.
Picked(S) == [T \in SUBSET S |-> CHOOSE c \in T : TRUE]
PartialSums(f, S) ==
  CHOOSE F : F = [T \in SUBSET S |-> IF T = {} THEN 0
                                    ELSE f[CHOOSE c \in T : TRUE] + F[T \ {CHOOSE c \in T : TRUE}]]
SumsOf(F, f, S) ==
  \A T \in SUBSET S : /\ F[T] \in Int
                     /\ F[T] = IF T = {} THEN 0 ELSE f[Picked(S)[T]] + F[T \ {Picked(S)[T]}]

LEMMA PickedPicks == \A S : Picks(Picked(S), S)
  BY DEF Picks, Picked

LEMMA SumIs ==
  ASSUME NEW S, IsFiniteSet(S), NEW f, \A c \in S : f[c] \in Int
  PROVE  SumsOf(PartialSums(f, S), f, S) /\ SumOver(f, S) = PartialSums(f, S)[S]
<1> DEFINE pick    == Picked(S)
           Rec(F)  == F = [T \in SUBSET S |-> IF T = {} THEN 0
                                             ELSE f[CHOOSE c \in T : TRUE] + F[T \ {CHOOSE c \in T : TRUE}]]
           F       == PartialSums(f, S)
           step    == [vc \in Int \X S |-> f[vc[2]] + vc[1]]
           g       == Recursion(S, Int, pick, 0, step)
<1>1. Picks(pick, S)
  BY PickedPicks
<1>2. step \in [Int \X S -> Int]
  OBVIOUS
<1>3. Recurses(g, S, Int, pick, 0, step)
  <2> HIDE DEF pick, step
  <2>1. 0 \in Int
    OBVIOUS
  <2> QED BY <1>1, <1>2, <2>1, RecursionOverSubsets
<1>4. Rec(g)
  <2> HIDE DEF g
  <2>1. ASSUME NEW T \in SUBSET S, T # {} PROVE g[T] = f[pick[T]] + g[T \ {pick[T]}]
    <3>1. pick[T] \in S /\ g[T \ {pick[T]}] \in Int
      BY <1>1, <1>3, <2>1 DEF Picks, Recurses
    <3>2. g[T] = step[g[T \ {pick[T]}], pick[T]]
      BY <1>3, <2>1 DEF Recurses
    <3> HIDE DEF pick
    <3>3. QED
      BY <3>1, <3>2
  <2>2. ASSUME NEW T \in SUBSET S
        PROVE  g[T] = IF T = {} THEN 0 ELSE f[CHOOSE c \in T : TRUE] + g[T \ {CHOOSE c \in T : TRUE}]
    <3>1. g[{}] = 0
      BY <1>3 DEF Recurses
    <3>2. pick[T] = CHOOSE c \in T : TRUE
      BY DEF Picked
    <3>3. QED
      BY <2>1, <3>1, <3>2
  <2>3. g = [T \in SUBSET S |-> g[T]]
    BY <1>3 DEF Recurses
  <2>4. QED
    BY <2>2, <2>3
<1>5. Rec(F)
  <2> HIDE DEF g
  <2>1. \E e : Rec(e)
    BY <1>4
  <2>2. F = CHOOSE e : Rec(e)
    BY DEF PartialSums
  <2> HIDE DEF Rec, F
  <2> QED BY <2>1, <2>2
<1>6. SumOver(f, S) = F[S]
  BY DEF SumOver, MapThenSumSet, MapThenFoldSet, PartialSums
<1>7. ASSUME NEW T \in SUBSET S PROVE F[T] = IF T = {} THEN 0 ELSE f[pick[T]] + F[T \ {pick[T]}]
  <2> HIDE DEF F
  <2>1. pick[T] = CHOOSE c \in T : TRUE
    BY DEF Picked
  <2> HIDE DEF pick
  <2>2. F[T] = IF T = {} THEN 0 ELSE f[CHOOSE c \in T : TRUE] + F[T \ {CHOOSE c \in T : TRUE}]
    BY <1>5
  <2> QED BY <2>1, <2>2
<1> HIDE DEF F, pick
<1> DEFINE X == {T \in SUBSET S : F[T] \in Int}
<1>8. ASSUME NEW T \in SUBSET S, T # {}, T \ {pick[T]} \in X PROVE T \in X
  <2>1. F[T \ {pick[T]}] \in Int /\ f[pick[T]] \in Int
    BY <1>1, <1>8 DEF Picks
  <2>2. F[T] = f[pick[T]] + F[T \ {pick[T]}]
    BY <1>7, <1>8
  <2>3. QED
    BY <2>1, <2>2
<1>9. Holds(X, pick, S)
  <2>1. {} \in X
    BY <1>7
  <2>2. \A T \in SUBSET S : T # {} /\ T \ {pick[T]} \in X => T \in X
    BY <1>8
  <2> HIDE DEF X
  <2>3. QED
    BY <2>1, <2>2 DEF Holds
<1>10. SUBSET S \subseteq X
  <2> HIDE DEF X
  <2> QED BY <1>1, <1>9, InductionOnSubsets
<1>11. QED
  BY <1>6, <1>7, <1>10 DEF SumsOf, pick, F

\* What all of a set's parts have once one more adds to it, the set has.
LEMMA SumInduction ==
  ASSUME NEW S, IsFiniteSet(S), NEW X, Holds(X, Picked(S), S)
  PROVE  S \in X
<1>1. SUBSET S \subseteq X
  BY PickedPicks, InductionOnSubsets
<1>2. QED
  BY <1>1

\* What differs from f + g by a multiple of k everywhere does so in the sum.
Whole(f, S)           == \A c \in S : f[c] \in Int
SumFollows(h, f, g, k, S) == \E w \in Nat : SumOver(h, S) = SumOver(f, S) + SumOver(g, S) - w * k
Follows(h, f, g, k, S) == \A c \in S : \E w \in Nat : h[c] = f[c] + g[c] - w * k

LEMMA SumsFollow ==
  ASSUME NEW S, IsFiniteSet(S), NEW f, NEW g, NEW h, NEW k \in Int,
         Whole(f, S), Whole(g, S), Whole(h, S), Follows(h, f, g, k, S)
  PROVE  /\ SumOver(f, S) \in Int /\ SumOver(g, S) \in Int
         /\ SumFollows(h, f, g, k, S)
<1> DEFINE pick == Picked(S)
           F    == PartialSums(f, S)
           G    == PartialSums(g, S)
           H    == PartialSums(h, S)
<1>1. SumsOf(F, f, S) /\ SumOver(f, S) = F[S]
  BY SumIs DEF Whole
<1>2. SumsOf(G, g, S) /\ SumOver(g, S) = G[S]
  BY SumIs DEF Whole
<1>3. SumsOf(H, h, S) /\ SumOver(h, S) = H[S]
  BY SumIs DEF Whole
<1>4. Picks(pick, S)
  BY PickedPicks
<1> HIDE DEF F, G, H
<1> DEFINE X == {T \in SUBSET S : \E w \in Nat : H[T] = F[T] + G[T] - w * k}
<1>5. {} \in X
  <2>1. F[{}] = 0 /\ G[{}] = 0 /\ H[{}] = 0
    BY <1>1, <1>2, <1>3 DEF SumsOf
  <2>2. H[{}] = F[{}] + G[{}] - 0 * k
    BY <2>1 DEF Follows
  <2>3. QED
    BY <2>2
<1>6. ASSUME NEW T \in SUBSET S, T # {}, T \ {pick[T]} \in X PROVE T \in X
  <2> DEFINE c == pick[T]
             U == T \ {pick[T]}
  <2>1. c \in S /\ U \in SUBSET S
    BY <1>4, <1>6 DEF Picks
  <2>2. F[T] = f[c] + F[U] /\ G[T] = g[c] + G[U] /\ H[T] = h[c] + H[U]
    BY <1>1, <1>2, <1>3, <1>6 DEF SumsOf
  <2>3. PICK v \in Nat : H[U] = F[U] + G[U] - v * k
    BY <1>6
  <2>4. PICK w \in Nat : h[c] = f[c] + g[c] - w * k
    BY <2>1 DEF Follows
  <2>5. F[U] \in Int /\ G[U] \in Int /\ H[U] \in Int /\ f[c] \in Int /\ g[c] \in Int /\ h[c] \in Int
    BY <1>1, <1>2, <1>3, <2>1 DEF SumsOf, Whole
  <2> HIDE DEF c, U
  <2>6. v + w \in Nat /\ (v + w) * k = v * k + w * k /\ v * k \in Int /\ w * k \in Int
    OBVIOUS
  <2>7. H[T] = F[T] + G[T] - (v + w) * k
    BY <2>2, <2>3, <2>4, <2>5, <2>6
  <2>8. QED
    BY <2>6, <2>7
<1>7. Holds(X, pick, S)
  <2>1. \A T \in SUBSET S : T # {} /\ T \ {pick[T]} \in X => T \in X
    BY <1>6
  <2> HIDE DEF X
  <2>2. QED
    BY <1>5, <2>1 DEF Holds
<1>8. S \in X
  <2> HIDE DEF X
  <2> QED BY <1>7, SumInduction
<1>9. QED
  BY <1>1, <1>2, <1>3, <1>8 DEF SumsOf, SumFollows

Adds(h, f, g, S) == \A c \in S : h[c] = f[c] + g[c]

LEMMA SumOfSums ==
  ASSUME NEW S, IsFiniteSet(S), NEW f, NEW g, NEW h, Whole(f, S), Whole(g, S), Adds(h, f, g, S)
  PROVE  SumOver(f, S) \in Int /\ SumOver(g, S) \in Int /\ SumOver(h, S) = SumOver(f, S) + SumOver(g, S)
<1> DEFINE zero == 0
<1>1. Whole(h, S)
  BY DEF Whole, Adds
<1>2. Follows(h, f, g, zero, S)
  <2>1. ASSUME NEW c \in S PROVE \E w \in Nat : h[c] = f[c] + g[c] - w * 0
    <3>1. f[c] \in Int /\ g[c] \in Int /\ h[c] = f[c] + g[c] - 0 * 0
      BY DEF Whole, Adds
    <3>2. QED
      BY <3>1
  <2>2. QED
    BY <2>1 DEF Follows
<1>3. zero \in Int /\ zero = 0
  OBVIOUS
<1> HIDE DEF zero
<1>4. SumOver(f, S) \in Int /\ SumOver(g, S) \in Int /\ SumFollows(h, f, g, zero, S)
  BY <1>1, <1>2, <1>3, SumsFollow
<1>5. QED
  BY <1>3, <1>4 DEF SumFollows

\* What is nowhere more than f + g is not in the sum.
LEMMA SumsBound ==
  ASSUME NEW S, IsFiniteSet(S), NEW f, NEW g, NEW h, Whole(f, S), Whole(g, S), Whole(h, S),
         \A c \in S : h[c] <= f[c] + g[c]
  PROVE  SumOver(f, S) \in Int /\ SumOver(g, S) \in Int /\ SumOver(h, S) \in Int /\ SumOver(h, S) <= SumOver(f, S) + SumOver(g, S)
<1> DEFINE one == 1
<1>1. Follows(h, f, g, one, S)
  <2>1. ASSUME NEW c \in S PROVE \E w \in Nat : h[c] = f[c] + g[c] - w * 1
    <3>1. f[c] \in Int /\ g[c] \in Int /\ h[c] \in Int /\ h[c] <= f[c] + g[c]
      BY DEF Whole
    <3>2. f[c] + g[c] - h[c] \in Nat /\ h[c] = f[c] + g[c] - (f[c] + g[c] - h[c]) * 1
      BY <3>1
    <3>3. QED
      BY <3>2
  <2>2. QED
    BY <2>1 DEF Follows
<1>2. one \in Int /\ one = 1
  OBVIOUS
<1> HIDE DEF one
<1>3. SumOver(f, S) \in Int /\ SumOver(g, S) \in Int /\ SumFollows(h, f, g, one, S)
  BY <1>1, <1>2, SumsFollow
<1>4. QED
  BY <1>2, <1>3 DEF SumFollows

LEMMA SumAtMost ==
  ASSUME NEW S, IsFiniteSet(S), NEW f, NEW h, Whole(f, S), Whole(h, S), \A c \in S : h[c] <= f[c]
  PROVE  SumOver(h, S) \in Int /\ SumOver(f, S) \in Int /\ SumOver(h, S) <= SumOver(f, S)
<1> DEFINE none == [c \in S |-> 0]
<1>1. \A c \in S : none[c] = 0
  OBVIOUS
<1> HIDE DEF none
<1>2. Whole(none, S)
  BY <1>1 DEF Whole
<1>3. Adds(none, none, none, S) /\ \A c \in S : h[c] <= f[c] + none[c]
  BY <1>1 DEF Whole, Adds
<1>4. SumOver(none, S) \in Int /\ SumOver(none, S) = SumOver(none, S) + SumOver(none, S)
  BY <1>2, <1>3, SumOfSums
<1>5. SumOver(f, S) \in Int /\ SumOver(none, S) \in Int /\ SumOver(h, S) \in Int /\ SumOver(h, S) <= SumOver(f, S) + SumOver(none, S)
  BY <1>2, <1>3, SumsBound
<1>6. QED
  BY <1>4, <1>5

\* A sum of counts holds each of them.
LEMMA SumHolds ==
  ASSUME NEW S, IsFiniteSet(S), NEW f, \A c \in S : f[c] \in Nat
  PROVE  SumOver(f, S) \in Nat /\ \A c \in S : f[c] <= SumOver(f, S)
<1> DEFINE pick == Picked(S)
           F    == PartialSums(f, S)
<1>1. SumsOf(F, f, S) /\ SumOver(f, S) = F[S]
  BY SumIs
<1>2. Picks(pick, S)
  BY PickedPicks
<1> HIDE DEF F
<1> DEFINE X == {T \in SUBSET S : F[T] \in Nat /\ \A c \in T : f[c] <= F[T]}
<1>3. {} \in X
  BY <1>1 DEF SumsOf
<1>4. ASSUME NEW T \in SUBSET S, T # {}, T \ {pick[T]} \in X PROVE T \in X
  <2> DEFINE U == T \ {pick[T]}
  <2>1. F[T] = f[pick[T]] + F[U] /\ pick[T] \in T /\ pick[T] \in S
    BY <1>1, <1>2, <1>4 DEF SumsOf, Picks
  <2>2. F[U] \in Nat /\ \A c \in U : f[c] <= F[U]
    BY <1>4
  <2>3. f[pick[T]] \in Nat
    BY <2>1
  <2>4. F[T] \in Nat
    BY <2>1, <2>2, <2>3
  <2>5. ASSUME NEW c \in T PROVE f[c] <= F[T]
    <3>1. c = pick[T] \/ c \in U
      OBVIOUS
    <3>2. f[c] \in Nat
      OBVIOUS
    <3>3. QED
      BY <2>1, <2>2, <2>3, <3>1, <3>2
  <2>6. QED
    BY <2>4, <2>5
<1>5. Holds(X, pick, S)
  <2>1. \A T \in SUBSET S : T # {} /\ T \ {pick[T]} \in X => T \in X
    BY <1>4
  <2> HIDE DEF X
  <2>2. QED
    BY <1>3, <2>1 DEF Holds
<1>6. S \in X
  <2> HIDE DEF X
  <2> QED BY <1>5, SumInduction
<1>7. QED
  BY <1>1, <1>6

---------------------------------------------------------------------------
(***************************************************************************)
(* Error counters                                                          *)
(***************************************************************************)

LEMMA SizeIs == Size \in Nat /\ Quarter \in Nat /\ Size = 4 * Quarter /\ Quarter >= 1
<1>1. Size \in Nat /\ Size % 4 = 0 /\ Size >= 1
  BY CounterAssumption
<1>2. QED
  BY <1>1 DEF Quarter

LEMMA ModIs ==
  ASSUME NEW q \in Int, NEW r \in 0..(Size - 1)
  PROVE  (q * Size + r) % Size = r /\ (q * Size + r) \div Size = q
<1> DEFINE n == q * Size + r
           d == n \div Size
           m == n % Size
<1>1. Size \in Nat /\ Size >= 1
  BY SizeIs
<1>2. n \in Int
  BY <1>1
<1> HIDE DEF n
<1>3. d \in Int /\ m \in Int /\ n = Size * d + m /\ 0 <= m /\ m < Size
  BY <1>1, <1>2
<1> HIDE DEF d, m
<1>4. q * Size + r = Size * d + m
  BY <1>3 DEF n
<1>5. (q - d) * Size = m - r
  BY <1>1, <1>3, <1>4
<1>6. ASSUME NEW k \in Int, k * Size = m - r PROVE k = 0
  <2>1. m - r < Size /\ m - r > -Size
    BY <1>1, <1>3
  <2>2. k >= 1 => k * Size >= Size
    BY <1>1
  <2>3. k <= -1 => k * Size <= -Size
    BY <1>1
  <2>4. QED
    BY <1>1, <1>6, <2>1, <2>2, <2>3
<1>7. q - d = 0
  BY <1>3, <1>5, <1>6
<1>8. q = d /\ m = r
  BY <1>1, <1>3, <1>5, <1>7
<1>9. QED
  BY <1>8 DEF n, d, m

\* The remainder of a register that has grown is short of the whole by full rounds.
LEMMA GrownBy ==
  ASSUME NEW n \in Nat
  PROVE  n % Size \in 0..(Size - 1) /\ \E w \in Nat : n % Size = n - w * Size
<1>1. Size \in Nat /\ Size >= 1
  BY SizeIs
<1> DEFINE d == n \div Size
           m == n % Size
<1>2. n \in Int /\ d \in Int /\ m \in Int /\ n = Size * d + m /\ 0 <= m /\ m < Size
  BY <1>1
<1> HIDE DEF d, m
<1>3. ASSUME d <= -1 PROVE FALSE
  <2> DEFINE p == Size * d
  <2>1. p <= -Size /\ p \in Int
    BY <1>1, <1>2, <1>3
  <2>2. n = p + m
    BY <1>2
  <2> HIDE DEF p
  <2>3. QED
    BY <1>1, <1>2, <2>1, <2>2
<1>4. d \in Nat /\ m \in 0..(Size - 1) /\ m = n - d * Size
  BY <1>1, <1>2, <1>3
<1>5. m \in 0..(Size - 1) /\ \E w \in Nat : m = n - w * Size
  BY <1>4
<1>6. QED
  BY <1>5 DEF m

LEMMA ModOfSum ==
  ASSUME NEW x \in Nat, NEW y \in Nat
  PROVE  ((x % Size) + y) % Size = (x + y) % Size
<1>1. Size \in Nat /\ Size >= 1
  BY SizeIs
<1>2. PICK v \in Nat : x % Size = x - v * Size
  BY GrownBy
<1>3. x % Size \in Nat
  BY GrownBy
<1> DEFINE n == (x % Size) + y
<1>4. n \in Nat
  BY <1>3
<1> HIDE DEF n
<1>5. n % Size \in 0..(Size - 1)
  BY <1>4, GrownBy
<1>6. PICK w \in Nat : n % Size = n - w * Size
  BY <1>4, GrownBy
<1> DEFINE r == n % Size
<1>7. x + y = (v + w) * Size + r
  <2>1. n = x - v * Size + y
    BY <1>2 DEF n
  <2>2. (v + w) * Size = v * Size + w * Size /\ v * Size \in Int /\ w * Size \in Int
    BY <1>1
  <2> DEFINE V == v * Size
             W == w * Size
  <2>3. n = x - V + y /\ r = n - W /\ (v + w) * Size = V + W /\ V \in Int /\ W \in Int
    BY <1>6, <2>1, <2>2
  <2> HIDE DEF V, W, r
  <2>4. QED
    BY <1>4, <2>3
<1>8. (x + y) % Size = r
  <2>1. r \in 0..(Size - 1) /\ v + w \in Int
    BY <1>5
  <2> HIDE DEF r
  <2>2. ((v + w) * Size + r) % Size = r
    BY <2>1, ModIs
  <2>3. QED
    BY <1>7, <2>2
<1>9. QED
  BY <1>8 DEF n, r

\* A row of the chart shows n for a register or sum of raw.
ShowsAs(row, n, raw) == row.shown = n /\ row.raw = raw /\ row.offset = n - raw

\* What grows without a wrap goes on from the same offset.
LEMMA RowGrows ==
  ASSUME NEW s \in Int, NEW r \in Int, NEW a \in Int, r <= a, NEW row, ShowsAs(row, s, r), NEW aggregate
  PROVE  ShowsAs(NextRow(row, a, aggregate), s + (a - r), a)
<1> DEFINE next == NextRow(row, a, aggregate)
<1>1. row.shown = s /\ row.raw = r /\ row.offset = s - r
  BY DEF ShowsAs
<1>2. ~(a < row.raw)
  BY <1>1
<1>3. next = [offset |-> row.offset, raw |-> a, shown |-> a + row.offset]
  BY <1>2 DEF NextRow, LooksLikeWrap
<1> HIDE DEF next
<1>4. next.shown = a + row.offset /\ next.raw = a /\ next.offset = row.offset
  BY <1>3
<1>5. next.shown = s + (a - r) /\ next.raw = a /\ next.offset = (s + (a - r)) - a
  BY <1>1, <1>4
<1>6. QED
  BY <1>5 DEF next, ShowsAs

\* What wraps n times goes on from as many sizes more.
LEMMA RowWraps ==
  ASSUME NEW s \in Int, NEW r \in Int, NEW a \in Int, NEW row, ShowsAs(row, s, r), NEW aggregate,
         LooksLikeWrap(r, a, aggregate), NEW n \in Nat \ {0}, (r - a) \div Size = n - 1
  PROVE  ShowsAs(NextRow(row, a, aggregate), s + (a - r) + Size * n, a)
<1> DEFINE next  == NextRow(row, a, aggregate)
           short == (row.shown - a - row.offset) \div Size
           more  == Size * n
<1>1. row.shown = s /\ row.raw = r /\ row.offset = s - r
  BY DEF ShowsAs
<1>2. row.shown - a - row.offset = r - a
  <2>1. s - a - (s - r) = r - a
    OBVIOUS
  <2>2. QED
    BY <1>1, <2>1
<1>3. short = n - 1
  BY <1>2
<1>4. more \in Int
  BY SizeIs
<1>5. (IF short > 0 THEN short + 1 ELSE 1) = n
  <2> HIDE DEF short
  <2> QED BY <1>3
<1>6. next = [offset |-> row.offset + more, raw |-> a, shown |-> a + (row.offset + more)]
  BY <1>1, <1>5 DEF NextRow
<1> HIDE DEF next, more, short
<1>7. next.shown = a + (row.offset + more) /\ next.raw = a /\ next.offset = row.offset + more
  BY <1>6
<1>8. /\ next.shown = s + (a - r) + more /\ next.raw = a
      /\ next.offset = (s + (a - r) + more) - a
  BY <1>1, <1>4, <1>7
<1>9. ShowsAs(next, s + (a - r) + more, a)
  BY <1>8 DEF ShowsAs
<1>10. QED
  BY <1>9 DEF next, more

LEMMA RegisterIs == ASSUME NEW x \in 0..(Size - 1) PROVE x % Size = x /\ x \div Size = 0
<1>1. 0 \in Int /\ 0 * Size + x = x
  BY SizeIs
<1>2. QED
  BY <1>1, ModIs

\* The chart of a register goes on with what really was counted, up to a quarter of it.
LEMMA RowFollows ==
  ASSUME NEW s \in Nat, NEW d \in Nat, d <= Quarter, NEW row, ShowsAs(row, s, s % Size)
  PROVE  ShowsAs(NextRow(row, (s + d) % Size, FALSE), s + d, (s + d) % Size)
<1> DEFINE r == s % Size
           a == (s + d) % Size
<1>1. Size \in Nat /\ Quarter \in Nat /\ Size = 4 * Quarter /\ Quarter >= 1
  BY SizeIs
<1>2. r \in 0..(Size - 1) /\ a \in 0..(Size - 1)
  BY GrownBy
<1>3. a = (r + d) % Size
  BY ModOfSum
<1>4. ShowsAs(row, s, r)
  OBVIOUS
<1> SUFFICES ShowsAs(NextRow(row, a, FALSE), s + d, a)
  OBVIOUS
<1> HIDE DEF r, a
<1>5. CASE r + d < Size
  <2>1. r + d \in 0..(Size - 1)
    BY <1>1, <1>2, <1>5
  <2>2. a = r + d
    BY <1>3, <2>1, RegisterIs
  <2>3. r <= a /\ s + (a - r) = s + d
    BY <1>2, <2>2
  <2>4. ShowsAs(NextRow(row, a, FALSE), s + (a - r), a)
    <3>1. s \in Int /\ r \in Int /\ a \in Int
      BY <1>1, <1>2
    <3>2. QED
      BY <1>4, <2>3, <3>1, RowGrows
  <2>5. QED
    BY <2>3, <2>4
<1>6. CASE r + d >= Size
  <2> DEFINE x == r + d - Size
  <2>1. x \in 0..(Size - 1) /\ 1 * Size + x = r + d /\ 1 \in Int
    BY <1>1, <1>2, <1>6
  <2> HIDE DEF x
  <2>2. (1 * Size + x) % Size = x
    BY <2>1, ModIs
  <2>3. a = x
    BY <1>3, <2>1, <2>2
  <2>4. a < r /\ r >= 3 * Quarter /\ a <= Quarter /\ r - a \in 0..(Size - 1)
    BY <1>1, <1>2, <1>6, <2>3 DEF x
  <2>5. LooksLikeWrap(r, a, FALSE)
    BY <1>2, <2>4, RegisterIs DEF LooksLikeWrap
  <2>6. (r - a) \div Size = 1 - 1 /\ 1 \in Nat \ {0}
    BY <2>4, RegisterIs
  <2>7. ShowsAs(NextRow(row, a, FALSE), s + (a - r) + Size * 1, a)
    <3>1. s \in Int /\ r \in Int /\ a \in Int
      BY <1>1, <1>2
    <3>2. QED
      BY <1>4, <2>5, <2>6, <3>1, RowWraps
  <2>8. s + (a - r) + Size * 1 = s + d
    BY <1>1, <1>2, <2>3 DEF x
  <2>9. QED
    BY <2>7, <2>8
<1>7. r + d < Size \/ r + d >= Size
  BY <1>1, <1>2
<1>8. QED
  BY <1>5, <1>6, <1>7

\* The same of the sum, which may wrap for several registers at once.
LEMMA SumRowFollows ==
  ASSUME NEW s \in Int, NEW r \in Int, NEW d \in Nat, d <= Quarter, NEW w \in Nat, w > 0 => d > 0,
         NEW row, ShowsAs(row, s, r), NEW a \in Int, a = r + d - w * Size
  PROVE  ShowsAs(NextRow(row, a, TRUE), s + d, a)
<1>1. Size \in Nat /\ Quarter \in Nat /\ Size = 4 * Quarter /\ Quarter >= 1
  BY SizeIs
<1>2. CASE w = 0
  <2>1. 0 * Size = 0
    BY <1>1
  <2>2. r <= a /\ s + (a - r) = s + d
    BY <1>1, <1>2, <2>1
  <2>3. ShowsAs(NextRow(row, a, TRUE), s + (a - r), a)
    BY <2>2, RowGrows
  <2>4. QED
    BY <2>2, <2>3
<1>3. CASE w # 0
  <2> DEFINE x == Size - d
             v == w - 1
  <2>1. d > 0 /\ x \in 0..(Size - 1) /\ x >= 3 * Quarter /\ v \in Int
    BY <1>1, <1>3
  <2>2. r - a = v * Size + x
    <3>1. w * Size = v * Size + Size /\ w * Size \in Int /\ v * Size \in Int
      BY <1>1
    <3> DEFINE p == w * Size
               q == v * Size
    <3>2. p = q + Size /\ p \in Int /\ q \in Int /\ a = r + d - p
      BY <3>1
    <3> HIDE DEF p, v
    <3>3. r - a = q + x
      BY <1>1, <3>2
    <3>4. QED
      BY <3>3
  <2>3. v * Size >= 0
    BY <1>1, <1>3
  <2> HIDE DEF x, v
  <2>4. (r - a) % Size = x /\ (r - a) \div Size = v
    <3>1. (v * Size + x) % Size = x /\ (v * Size + x) \div Size = v
      BY <2>1, ModIs
    <3>2. QED
      BY <2>2, <3>1
  <2>5. a < r
    <3> DEFINE q == v * Size
    <3>1. r - a = q + x /\ q \in Int /\ q >= 0
      BY <1>1, <2>1, <2>2, <2>3
    <3> HIDE DEF q
    <3>2. x > 0
      BY <1>1, <2>1
    <3>3. QED
      BY <2>1, <3>1, <3>2
  <2>6. LooksLikeWrap(r, a, TRUE)
    <3>1. (r - a) % Size >= 3 * Quarter
      BY <2>1, <2>4
    <3>2. QED
      BY <2>5, <3>1 DEF LooksLikeWrap
  <2>7. w \in Nat \ {0} /\ (r - a) \div Size = w - 1
    BY <1>3, <2>4 DEF v
  <2>8. ShowsAs(NextRow(row, a, TRUE), s + (a - r) + Size * w, a)
    BY <2>6, <2>7, RowWraps
  <2>9. s + (a - r) + Size * w = s + d
    <3> DEFINE p == w * Size
    <3>1. p \in Int /\ Size * w = p /\ a = r + d - p
      BY <1>1
    <3> HIDE DEF p
    <3>2. QED
      BY <3>1
  <2>10. QED
    BY <2>8, <2>9
<1>4. QED
  BY <1>2, <1>3

CountTypes ==
  /\ counter \in [Channels -> 0..(Size - 1)] /\ listed \in SUBSET Channels /\ steady \in SUBSET Channels
  /\ total \in [Channels -> Nat] /\ grown \in [Channels -> Nat]
  /\ atBaseline \in [Channels -> Nat] /\ atReport \in [Channels -> Nat]
  /\ \A c \in Channels : atBaseline[c] <= total[c] /\ atReport[c] <= total[c]

\* Since the baseline no register has grown by more than what happened.
BaseInv ==
  /\ Base.keys = listed /\ Base.sum \in Int
  /\ SumOver(counter, listed) - Base.sum <= SumOver(total, listed) - SumOver(atBaseline, listed)

\* A register that was never reset is the remainder of its errors, and its chart shows
\* those of its last report.
ChannelInv ==
  \A c \in steady : /\ counter[c] = total[c] % Size
                    /\ ShowsAs(chart[c], atReport[c], atReport[c] % Size)
                    /\ c \in listed => atReport[c] = total[c]

SumInv ==
  sumSteady => /\ listed = Channels
               /\ ShowsAs(sumChart, SumOver(total, Channels), SumOver(counter, Channels))

CounterInv == CountTypes /\ BaseInv /\ ChannelInv /\ SumInv /\ GrowthIsReal /\ ObservedIsReal

LEMMA Finite == \A T \in SUBSET Channels : IsFiniteSet(T)
  BY CounterAssumption, FS_Subset

\* The registers at a poll.
After(grow, resets) == [c \in Channels |-> (grow[c] + IF c \in resets THEN 0 ELSE counter[c]) % Size]

Polled(grow, resets, now) ==
  /\ CounterInv /\ grow \in [Channels -> Nat]
  /\ resets \in SUBSET Channels /\ now \in SUBSET Channels
  /\ counter' = After(grow, resets) /\ listed' = now
  /\ total' = [c \in Channels |-> total[c] + grow[c]] /\ grown' = grow
  /\ observed' = ObservedIncrease(counter, After(grow, resets), listed, now)
  /\ chart' = [c \in Channels |-> IF c \in now THEN NextRow(chart[c], After(grow, resets)[c], FALSE) ELSE chart[c]]
  /\ sumChart' = IF now = {} THEN sumChart ELSE NextRow(sumChart, SumOver(After(grow, resets), now), TRUE)
  /\ Followed(grow, resets, now)

LEMMA PollIs ==
  ASSUME CounterInv, NEW grow \in [Channels -> Growths], NEW resets \in SUBSET Channels,
         NEW now \in SUBSET Channels, NEW spike \in BOOLEAN, NEW older \in BOOLEAN,
         Poll(grow, resets, now, spike, older)
  PROVE  Polled(grow, resets, now) /\ Score(After(grow, resets), now, spike, older)
<1>1. grow \in [Channels -> Nat]
  BY CounterAssumption
<1> HIDE DEF CounterInv
<1>2. QED
  BY <1>1 DEF Poll, Polled, After

LEMMA AfterIs ==
  ASSUME NEW grow, NEW resets, NEW now, Polled(grow, resets, now)
  PROVE  /\ After(grow, resets) \in [Channels -> 0..(Size - 1)]
         /\ \A c \in Channels : After(grow, resets)[c] <= counter[c] + grow[c]
         /\ \A c \in resets : After(grow, resets)[c] <= grow[c]
<1>1. counter \in [Channels -> 0..(Size - 1)] /\ grow \in [Channels -> Nat] /\ resets \in SUBSET Channels
  BY DEF Polled, CounterInv, CountTypes
<1>2. Size \in Nat /\ Size >= 1
  BY SizeIs
<1>3. ASSUME NEW c \in Channels
      PROVE  /\ After(grow, resets)[c] \in 0..(Size - 1)
             /\ After(grow, resets)[c] <= counter[c] + grow[c]
             /\ c \in resets => After(grow, resets)[c] <= grow[c]
  <2> DEFINE n == grow[c] + IF c \in resets THEN 0 ELSE counter[c]
  <2>1. grow[c] \in Nat /\ counter[c] \in Nat
    BY <1>1, <1>2
  <2>2. n \in Nat /\ n <= counter[c] + grow[c] /\ (c \in resets => n = grow[c])
    BY <2>1
  <2>3. After(grow, resets)[c] = n % Size
    BY DEF After
  <2> HIDE DEF n
  <2>4. PICK w \in Nat : n % Size = n - w * Size
    BY <2>2, GrownBy
  <2>5. n % Size \in 0..(Size - 1)
    BY <2>2, GrownBy
  <2>6. w * Size >= 0 /\ w * Size \in Int
    BY <1>2
  <2> DEFINE p == w * Size
             m == n % Size
  <2>7. m = n - p /\ p >= 0 /\ p \in Int /\ m \in 0..(Size - 1)
    BY <2>4, <2>5, <2>6
  <2> HIDE DEF p, m
  <2>8. m <= n
    BY <1>2, <2>2, <2>7
  <2>9. m \in 0..(Size - 1) /\ m <= counter[c] + grow[c] /\ (c \in resets => m <= grow[c])
    BY <1>2, <2>1, <2>2, <2>7, <2>8
  <2>10. QED
    BY <2>3, <2>9 DEF m
<1>4. DOMAIN After(grow, resets) = Channels /\ After(grow, resets) = [c \in Channels |-> After(grow, resets)[c]]
  BY DEF After
<1>5. QED
  BY <1>1, <1>3, <1>4

LEMMA TypesNext ==
  ASSUME NEW grow, NEW resets, NEW now, Polled(grow, resets, now),
         atBaseline' \in {atBaseline, total'}
  PROVE  CountTypes'
<1>1. CountTypes /\ grow \in [Channels -> Nat] /\ now \in SUBSET Channels
  BY DEF Polled, CounterInv
<1>2. total' \in [Channels -> Nat] /\ \A c \in Channels : total[c] <= total'[c]
  BY <1>1 DEF Polled, CountTypes
<1>3. counter' \in [Channels -> 0..(Size - 1)] /\ listed' \in SUBSET Channels /\ grown' \in [Channels -> Nat]
  BY <1>1, AfterIs DEF Polled
<1>4. steady' \in SUBSET Channels
  BY <1>1 DEF Polled, Followed, CountTypes
<1>5. atReport' \in [Channels -> Nat] /\ \A c \in Channels : atReport'[c] <= total'[c]
  <2>1. atReport' = [c \in Channels |-> IF c \in now THEN total'[c] ELSE atReport[c]]
    BY DEF Polled, Followed
  <2>2. ASSUME NEW c \in Channels PROVE atReport'[c] \in Nat /\ atReport'[c] <= total'[c]
    <3>1. total'[c] \in Nat /\ total[c] \in Nat /\ atReport[c] \in Nat /\ atReport[c] <= total[c] /\ total[c] <= total'[c]
      BY <1>1, <1>2 DEF CountTypes
    <3>2. QED
      BY <2>1, <3>1
  <2>3. QED
    BY <2>1, <2>2
<1>6. atBaseline' \in [Channels -> Nat] /\ \A c \in Channels : atBaseline'[c] <= total'[c]
  <2>1. CASE atBaseline' = total'
    BY <1>2, <2>1
  <2>2. CASE atBaseline' = atBaseline
    <3>1. ASSUME NEW c \in Channels PROVE atBaseline[c] <= total'[c]
      <4>1. total'[c] \in Nat /\ total[c] \in Nat /\ atBaseline[c] \in Nat /\ atBaseline[c] <= total[c] /\ total[c] <= total'[c]
        BY <1>1, <1>2 DEF CountTypes
      <4>2. QED
        BY <4>1
    <3>2. QED
      BY <1>1, <2>2, <3>1 DEF CountTypes
  <2>3. QED
    BY <2>1, <2>2
<1>7. QED
  BY <1>2, <1>3, <1>4, <1>5, <1>6 DEF CountTypes

LEMMA ChannelsNext ==
  ASSUME NEW grow, NEW resets, NEW now, Polled(grow, resets, now)
  PROVE  ChannelInv'
<1>1. CountTypes /\ ChannelInv /\ grow \in [Channels -> Nat] /\ now \in SUBSET Channels
  BY DEF Polled, CounterInv
<1>2. SUFFICES ASSUME NEW c \in steady'
               PROVE  /\ counter'[c] = total'[c] % Size
                      /\ ShowsAs(chart'[c], atReport'[c], atReport'[c] % Size)
                      /\ c \in listed' => atReport'[c] = total'[c]
  BY DEF ChannelInv
<1>3. c \in steady /\ c \notin resets /\ total'[c] - atReport[c] <= Quarter /\ c \in Channels
  BY <1>1, <1>2 DEF Polled, Followed, CountTypes
<1>4. total'[c] = total[c] + grow[c] /\ total[c] \in Nat /\ grow[c] \in Nat /\ atReport[c] \in Nat /\ atReport[c] <= total[c]
  BY <1>1, <1>3 DEF Polled, CountTypes
<1>5. counter'[c] = total'[c] % Size
  <2>1. counter'[c] = (grow[c] + counter[c]) % Size
    BY <1>3 DEF Polled, After
  <2>2. counter[c] = total[c] % Size /\ counter[c] \in Int
    BY <1>1, <1>3, SizeIs DEF ChannelInv, CountTypes
  <2>3. grow[c] + counter[c] = counter[c] + grow[c]
    BY <1>4, <2>2
  <2>4. ((total[c] % Size) + grow[c]) % Size = (total[c] + grow[c]) % Size
    BY <1>4, ModOfSum
  <2>5. QED
    BY <1>4, <2>1, <2>2, <2>3, <2>4
<1>6. atReport'[c] = IF c \in now THEN total'[c] ELSE atReport[c]
  BY <1>3 DEF Polled, Followed
<1>7. chart'[c] = IF c \in now THEN NextRow(chart[c], counter'[c], FALSE) ELSE chart[c]
  BY <1>3 DEF Polled
<1>8. ShowsAs(chart[c], atReport[c], atReport[c] % Size)
  BY <1>1, <1>3 DEF ChannelInv
<1>9. CASE c \in now
  <2> DEFINE d == total'[c] - atReport[c]
             s == atReport[c]
  <2>1. d \in Nat /\ d <= Quarter /\ s \in Nat /\ s + d = total'[c]
    BY <1>3, <1>4
  <2> HIDE DEF d
  <2>2. ShowsAs(NextRow(chart[c], (s + d) % Size, FALSE), s + d, (s + d) % Size)
    BY <1>8, <2>1, RowFollows
  <2>3. QED
    BY <1>5, <1>6, <1>7, <1>9, <2>1, <2>2
<1>10. CASE c \notin now
  BY <1>5, <1>6, <1>7, <1>8, <1>10 DEF Polled
<1>11. QED
  BY <1>9, <1>10

LEMMA SumEmpty == ASSUME NEW f PROVE SumOver(f, {}) = 0
<1>1. IsFiniteSet({}) /\ \A c \in {} : f[c] \in Int
  BY FS_EmptySet
<1>2. SumOver(f, {}) = PartialSums(f, {})[{}] /\ SumsOf(PartialSums(f, {}), f, {})
  BY <1>1, SumIs
<1>3. QED
  BY <1>2 DEF SumsOf

LEMMA CountsAreWhole ==
  ASSUME NEW T \in SUBSET Channels, NEW f \in [Channels -> Nat] PROVE Whole(f, T)
  BY DEF Whole

LEMMA WholeTypes ==
  ASSUME NEW grow, NEW resets, NEW now, Polled(grow, resets, now), NEW T \in SUBSET Channels
  PROVE  /\ IsFiniteSet(T) /\ Whole(counter, T) /\ Whole(After(grow, resets), T) /\ Whole(grow, T)
         /\ Whole(total, T) /\ Whole(total', T) /\ Whole(atBaseline, T)
<1>1. CountTypes /\ grow \in [Channels -> Nat]
  BY DEF Polled, CounterInv
<1>2. /\ counter \in [Channels -> Nat] /\ After(grow, resets) \in [Channels -> Nat]
      /\ total \in [Channels -> Nat] /\ total' \in [Channels -> Nat] /\ atBaseline \in [Channels -> Nat]
  <2>1. 0..(Size - 1) \subseteq Nat
    OBVIOUS
  <2>2. After(grow, resets) \in [Channels -> 0..(Size - 1)] /\ counter \in [Channels -> 0..(Size - 1)]
    BY <1>1, AfterIs DEF CountTypes
  <2>3. total' \in [Channels -> Nat]
    BY <1>1 DEF Polled, CountTypes
  <2>4. QED
    BY <1>1, <2>1, <2>2, <2>3 DEF CountTypes
<1>3. QED
  BY <1>1, <1>2, Finite, CountsAreWhole

LEMMA TotalsGrow ==
  ASSUME NEW grow, NEW resets, NEW now, Polled(grow, resets, now), NEW T \in SUBSET Channels
  PROVE  /\ SumOver(total', T) = SumOver(total, T) + SumOver(grow, T)
         /\ SumOver(total, T) \in Int /\ SumOver(grow, T) \in Nat /\ SumOver(counter, T) \in Int
         /\ SumOver(After(grow, resets), T) \in Int /\ SumOver(After(grow, resets), T) <= SumOver(counter, T) + SumOver(grow, T)
<1>1. IsFiniteSet(T) /\ Whole(total, T) /\ Whole(grow, T) /\ Whole(counter, T) /\ Whole(After(grow, resets), T)
  BY WholeTypes
<1>2. Adds(total', total, grow, T)
  BY DEF Adds, Polled
<1>3. \A c \in T : After(grow, resets)[c] <= counter[c] + grow[c]
  BY AfterIs
<1>4. SumOver(total', T) = SumOver(total, T) + SumOver(grow, T) /\ SumOver(total, T) \in Int
  BY <1>1, <1>2, SumOfSums
<1>5. /\ SumOver(counter, T) \in Int /\ SumOver(After(grow, resets), T) \in Int
      /\ SumOver(After(grow, resets), T) <= SumOver(counter, T) + SumOver(grow, T)
  BY <1>1, <1>3, SumsBound
<1>6. SumOver(grow, T) \in Nat
  <2>1. \A c \in T : grow[c] \in Nat
    BY DEF Polled
  <2>2. QED
    BY <1>1, <2>1, SumHolds
<1>7. QED
  BY <1>4, <1>5, <1>6

LEMMA SumNext ==
  ASSUME NEW grow, NEW resets, NEW now, Polled(grow, resets, now)
  PROVE  SumInv'
<1> DEFINE after == After(grow, resets)
           D     == SumOver(grow, Channels)
           R     == SumOver(counter, Channels)
           s     == SumOver(total, Channels)
           a     == SumOver(after, Channels)
<1>1. SUFFICES ASSUME sumSteady'
               PROVE  listed' = Channels /\ ShowsAs(sumChart', SumOver(total', Channels), SumOver(counter', Channels))
  BY DEF SumInv
<1>2. sumSteady /\ resets = {} /\ now = Channels /\ D <= Quarter
  BY <1>1 DEF Polled, Followed
<1>3. listed' = Channels /\ SumOver(counter', Channels) = a /\ SumOver(total', Channels) = s + D
  <2>1. Channels \in SUBSET Channels
    OBVIOUS
  <2>2. SumOver(total', Channels) = SumOver(total, Channels) + SumOver(grow, Channels)
    BY <2>1, TotalsGrow
  <2>3. listed' = Channels /\ counter' = after
    BY <1>2 DEF Polled
  <2>4. QED
    BY <2>2, <2>3
<1>4. ShowsAs(sumChart, s, R)
  BY <1>2 DEF Polled, CounterInv, SumInv
<1>5. D \in Nat /\ R \in Int /\ s \in Int /\ a \in Int
  BY TotalsGrow
<1>6. PICK w \in Nat : a = R + D - w * Size
  <2>1. Follows(after, counter, grow, Size, Channels)
    <3>1. ASSUME NEW c \in Channels PROVE \E w \in Nat : after[c] = counter[c] + grow[c] - w * Size
      <4>1. counter[c] \in Nat /\ grow[c] \in Nat
        BY SizeIs DEF Polled, CounterInv, CountTypes
      <4> DEFINE n == counter[c] + grow[c]
      <4>2. n \in Nat /\ after[c] = n % Size
        <5>1. after[c] = (grow[c] + counter[c]) % Size
          BY <1>2 DEF After
        <5>2. grow[c] + counter[c] = n
          BY <4>1
        <5>3. QED
          BY <4>1, <5>1, <5>2
      <4> HIDE DEF n, after
      <4>3. PICK w \in Nat : n % Size = n - w * Size
        BY <4>2, GrownBy
      <4>4. after[c] = counter[c] + grow[c] - w * Size
        <5> DEFINE p == w * Size
        <5>1. after[c] = n - p /\ p \in Int
          BY <4>2, <4>3, SizeIs
        <5> HIDE DEF p
        <5>2. after[c] = counter[c] + (grow[c] - p)
          BY <4>1, <5>1 DEF n
        <5>3. QED
          BY <5>2 DEF p
      <4>5. QED
        BY <4>4
    <3>2. QED
      BY <3>1 DEF Follows
  <2>2. SumFollows(after, counter, grow, Size, Channels)
    <3>1. Channels \in SUBSET Channels /\ Size \in Int
      BY SizeIs
    <3>2. IsFiniteSet(Channels) /\ Whole(counter, Channels) /\ Whole(after, Channels) /\ Whole(grow, Channels)
      BY <3>1, WholeTypes
    <3> HIDE DEF after
    <3>3. QED
      BY <2>1, <3>1, <3>2, SumsFollow
  <2> HIDE DEF after
  <2>3. QED
    BY <2>2 DEF SumFollows
<1>7. w > 0 => D > 0
  <2>1. SUFFICES ASSUME w > 0, D = 0 PROVE FALSE
    BY <1>5
  <2>2. ASSUME NEW c \in Channels PROVE grow[c] = 0
    <3>1. IsFiniteSet(Channels) /\ \A b \in Channels : grow[b] \in Nat
      BY Finite DEF Polled
    <3>2. grow[c] <= D /\ grow[c] \in Nat
      BY <3>1, SumHolds
    <3>3. QED
      BY <2>1, <3>2
  <2>3. after = counter
    <3>1. counter \in [Channels -> 0..(Size - 1)]
      BY DEF Polled, CounterInv, CountTypes
    <3>2. ASSUME NEW c \in Channels PROVE after[c] = counter[c]
      <4>1. after[c] = (0 + counter[c]) % Size
        BY <1>2, <2>2 DEF After
      <4>2. counter[c] \in 0..(Size - 1) /\ 0 + counter[c] = counter[c]
        BY <3>1
      <4>3. QED
        BY <4>1, <4>2, RegisterIs
    <3>3. after = [c \in Channels |-> after[c]]
      BY DEF After
    <3> HIDE DEF after
    <3>4. QED
      BY <3>1, <3>2, <3>3
  <2>4. a = R
    BY <2>3
  <2>5. w * Size >= 1 /\ w * Size \in Int
    BY <2>1, SizeIs
  <2> DEFINE p == w * Size
  <2>6. p \in Int /\ p >= 1 /\ a = R + (D - p)
    BY <1>6, <2>5
  <2> HIDE DEF p, a, R, D
  <2>7. QED
    BY <1>5, <2>1, <2>4, <2>6
<1>8. CASE now = {}
  <2>1. Channels = {} /\ sumChart' = sumChart
    BY <1>2, <1>8 DEF Polled
  <2>2. D = 0 /\ a = R
    BY <2>1, SumEmpty
  <2>3. s + D = s
    BY <1>5, <2>2
  <2>4. QED
    BY <1>3, <1>4, <2>1, <2>2, <2>3
<1>9. CASE now # {}
  <2>1. sumChart' = NextRow(sumChart, a, TRUE)
    BY <1>2, <1>9 DEF Polled
  <2> HIDE DEF a, R, D, s
  <2>2. ShowsAs(NextRow(sumChart, a, TRUE), s + D, a)
    BY <1>2, <1>4, <1>5, <1>6, <1>7, SumRowFollows
  <2>3. QED
    BY <1>3, <2>1, <2>2
<1>10. QED
  BY <1>8, <1>9

LEMMA ObservedNext ==
  ASSUME NEW grow, NEW resets, NEW now, Polled(grow, resets, now)
  PROVE  ObservedIsReal'
<1> DEFINE after    == After(grow, resets)
           shown(c) == NextRow(FirstRow(counter[c]), after[c], FALSE).shown
           rise     == [c \in listed |-> shown(c) - counter[c]]
<1>1. SUFFICES ASSUME observed' # NoCounts, ~topReset' PROVE observed' <= SumOver(grown', listed')
  BY DEF ObservedIsReal
<1>2. /\ listed = now /\ \A c \in listed : ~(shown(c) < counter[c])
      /\ observed' = SumOver(rise, listed)
  BY <1>1 DEF Polled, ObservedIncrease
<1>3. \A c \in resets : ~(counter[c] >= 3 * Quarter)
  BY <1>1 DEF Polled, Followed
<1>4. ASSUME NEW c \in listed PROVE rise[c] \in Int /\ rise[c] <= grow[c]
  <2> DEFINE b == counter[c]
             a == after[c]
  <2>1. c \in Channels /\ grow[c] \in Nat /\ b \in 0..(Size - 1) /\ a \in 0..(Size - 1) /\ a <= b + grow[c]
        /\ (c \in resets => a <= grow[c])
    BY AfterIs DEF Polled, CounterInv, CountTypes
  <2>2. Size \in Nat /\ Quarter \in Nat /\ Size = 4 * Quarter /\ Quarter >= 1
    BY SizeIs
  <2>3. c \notin resets => a = (grow[c] + b) % Size
    BY <2>1 DEF After
  <2>4. c \in resets => b < 3 * Quarter
    BY <1>3, <2>1, <2>2
  <2>5. ~(NextRow(FirstRow(b), a, FALSE).shown < b)
    BY <1>2
  <2>6. rise[c] = NextRow(FirstRow(b), a, FALSE).shown - b
    OBVIOUS
  <2> HIDE DEF a, b, rise, after
  <2>7. ShowsAs(FirstRow(b), b, b)
    BY <2>1, <2>2 DEF ShowsAs, FirstRow
  <2>8. CASE b <= a
    <3>1. ShowsAs(NextRow(FirstRow(b), a, FALSE), b + (a - b), a)
      <4>1. b \in Int /\ a \in Int
        BY <2>1, <2>2
      <4>2. QED
        BY <2>7, <2>8, <4>1, RowGrows
    <3>2. NextRow(FirstRow(b), a, FALSE).shown = b + (a - b)
      BY <3>1 DEF ShowsAs
    <3>3. rise[c] = a - b
      <4>1. (b + (a - b)) - b = a - b
        BY <2>1, <2>2
      <4>2. rise[c] = (b + (a - b)) - b
        BY <2>6, <3>2
      <4>3. QED
        BY <4>1, <4>2
    <3>4. QED
      BY <2>1, <2>2, <3>3
  <2>9. CASE a < b /\ LooksLikeWrap(b, a, FALSE)
    <3>1. b - a \in 0..(Size - 1)
      BY <2>1, <2>2, <2>9
    <3>2. (b - a) \div Size = 1 - 1 /\ 1 \in Nat \ {0}
      BY <3>1, RegisterIs
    <3>3. ShowsAs(NextRow(FirstRow(b), a, FALSE), b + (a - b) + Size * 1, a)
      <4>1. b \in Int /\ a \in Int
        BY <2>1, <2>2
      <4>2. QED
        BY <2>7, <2>9, <3>2, <4>1, RowWraps
    <3>4. NextRow(FirstRow(b), a, FALSE).shown = b + (a - b) + Size * 1
      BY <3>3 DEF ShowsAs
    <3>5. rise[c] = (a - b) + Size
      <4>1. (b + (a - b) + Size * 1) - b = (a - b) + Size
        BY <2>1, <2>2
      <4>2. rise[c] = (b + (a - b) + Size * 1) - b
        BY <2>6, <3>4
      <4>3. QED
        BY <4>1, <4>2
    <3>6. b >= 3 * Quarter
      <4>1. b % Size >= 3 * Quarter
        BY <2>9 DEF LooksLikeWrap
      <4>2. QED
        BY <2>1, <4>1, RegisterIs
    <3>7. c \notin resets
      BY <2>1, <2>2, <2>4, <3>6
    <3>8. (a - b) + Size <= grow[c]
      <4> DEFINE n == grow[c] + b
      <4>1. n \in Nat /\ a = n % Size
        BY <2>1, <2>2, <2>3, <3>7
      <4> HIDE DEF n
      <4>2. PICK w \in Nat : n % Size = n - w * Size
        BY <4>1, GrownBy
      <4>3. w # 0
        <5>1. SUFFICES ASSUME w = 0 PROVE FALSE
          OBVIOUS
        <5>2. w * Size = 0
          BY <2>2, <5>1
        <5>3. a = n
          BY <4>1, <4>2, <5>2
        <5>4. QED
          BY <2>1, <2>2, <2>9, <5>3 DEF n
      <4>4. w * Size >= Size /\ w * Size \in Int
        BY <2>2, <4>3
      <4> DEFINE p == w * Size
      <4>5. p \in Int /\ p >= Size /\ a = n - p
        BY <4>1, <4>2, <4>4
      <4> HIDE DEF p
      <4>6. QED
        BY <2>1, <2>2, <4>5 DEF n
    <3>9. QED
      BY <2>1, <2>2, <3>5, <3>8
  <2>10. CASE a < b /\ ~LooksLikeWrap(b, a, FALSE)
    <3>1. FirstRow(b).raw = b /\ FirstRow(b).offset = 0
      BY DEF FirstRow
    <3>2. NextRow(FirstRow(b), a, FALSE) = [offset |-> 0, raw |-> a, shown |-> a + 0]
      BY <2>10, <3>1 DEF NextRow
    <3>3. NextRow(FirstRow(b), a, FALSE).shown = a + 0
      <4> DEFINE next == NextRow(FirstRow(b), a, FALSE)
                 n    == a + 0
      <4>1. next = [offset |-> 0, raw |-> a, shown |-> n]
        BY <3>2
      <4> HIDE DEF next, n
      <4>2. next.shown = n
        BY <4>1
      <4>3. QED
        BY <4>2 DEF next, n
    <3>4. a + 0 < b
      BY <2>1, <2>2, <2>10
    <3>5. QED
      BY <2>5, <3>3, <3>4
  <2>11. b <= a \/ a < b
    BY <2>1, <2>2
  <2>12. QED
    BY <2>8, <2>9, <2>10, <2>11
<1>5. IsFiniteSet(listed) /\ Whole(grow, listed) /\ Whole(rise, listed)
  <2>1. now \in SUBSET Channels
    BY DEF Polled
  <2>2. IsFiniteSet(now) /\ Whole(grow, now)
    BY <2>1, WholeTypes
  <2> HIDE DEF rise
  <2>3. QED
    BY <1>2, <1>4, <2>2 DEF Whole
<1>6. SumOver(rise, listed) <= SumOver(grow, listed)
  <2> HIDE DEF rise
  <2> QED BY <1>4, <1>5, SumAtMost
<1>7. QED
  BY <1>2, <1>6 DEF Polled

\* With a new baseline nothing has grown since; without, the same channels have.
LEMMA GrowthNext ==
  ASSUME NEW grow, NEW resets, NEW now, Polled(grow, resets, now),
         NEW spike \in BOOLEAN, NEW older \in BOOLEAN, Score(After(grow, resets), now, spike, older)
  PROVE  BaseInv' /\ GrowthIsReal' /\ atBaseline' \in {atBaseline, total'}
<1> DEFINE after == After(grow, resets)
           fresh == spike \/ older \/ Fresh(after, now)
<1>1. /\ SumOver(total', now) = SumOver(total, now) + SumOver(grow, now)
      /\ SumOver(total, now) \in Int /\ SumOver(grow, now) \in Nat /\ SumOver(counter, now) \in Int
      /\ SumOver(after, now) \in Int /\ SumOver(after, now) <= SumOver(counter, now) + SumOver(grow, now)
  <2>1. now \in SUBSET Channels
    BY DEF Polled
  <2>2. QED
    BY <2>1, TotalsGrow
<1>2. SumOver(atBaseline, now) \in Int
  <2>1. now \in SUBSET Channels
    BY DEF Polled
  <2>2. IsFiniteSet(now) /\ Whole(atBaseline, now)
    BY <2>1, WholeTypes
  <2>3. QED
    BY <2>2, SumAtMost DEF Whole
<1>3. listed' = now /\ counter' = after /\ grown' = grow
  BY DEF Polled
<1>4. CASE fresh
  <2>1. atBaseline' = total'
    BY <1>4 DEF Score
  <2>2. Base'.keys = now /\ Base'.sum = SumOver(after, now)
    <3>1. CASE baseline' = NoCounts
      BY <1>3, <3>1 DEF Base
    <3>2. CASE baseline' = [keys |-> now, sum |-> SumOver(after, now)]
      BY <1>3, <3>2 DEF Base
    <3>3. QED
      BY <1>4, <3>1, <3>2 DEF Score
  <2>3. BaseInv'
    <3>1. SumOver(after, now) - SumOver(after, now) <= SumOver(total', now) - SumOver(total', now)
      BY <1>1
    <3>2. QED
      BY <1>1, <1>3, <2>1, <2>2, <3>1 DEF BaseInv
  <2>4. growth' = NoCounts \/ (growth'.recent = 0 /\ growth'.delta = 0)
    BY <1>4 DEF Score
  <2>5. 0 <= SumOver(grow, now) /\ 0 <= SumOver(total', now) - SumOver(total', now)
    BY <1>1
  <2>6. GrowthIsReal'
    BY <1>3, <2>1, <2>4, <2>5 DEF GrowthIsReal
  <2>7. QED
    BY <2>1, <2>3, <2>6
<1>5. CASE ~fresh
  <2>1. now = listed /\ now = Base.keys
    BY <1>5 DEF Fresh, CohortChanged
  <2>2. /\ baseline' = [keys |-> now, sum |-> Base.sum]
        /\ growth' = [recent |-> SumOver(after, now) - SumOver(counter, listed), delta |-> SumOver(after, now) - Base.sum]
        /\ atBaseline' = atBaseline
    BY <1>5 DEF Score
  <2>3. Base.sum \in Int /\ SumOver(counter, now) - Base.sum <= SumOver(total, now) - SumOver(atBaseline, now)
    BY <2>1 DEF Polled, CounterInv, BaseInv
  <2>4. SumOver(after, now) - Base.sum <= SumOver(total', now) - SumOver(atBaseline, now)
    BY <1>1, <1>2, <2>3
  <2>5. GrowthIsReal'
    <3>1. SumOver(after, now) - SumOver(counter, now) <= SumOver(grow, now)
      BY <1>1
    <3>2. growth'.recent = SumOver(after, now) - SumOver(counter, now) /\ growth'.delta = SumOver(after, now) - Base.sum
      BY <2>1, <2>2
    <3>3. QED
      BY <1>3, <2>2, <2>4, <3>1, <3>2 DEF GrowthIsReal
  <2>6. BaseInv'
    <3>1. CASE baseline' = NoCounts
      <4>1. Base'.keys = now /\ Base'.sum = SumOver(after, now)
        BY <1>3, <3>1 DEF Base
      <4>2. SumOver(after, now) - SumOver(after, now) <= SumOver(total', now) - SumOver(atBaseline, now)
        <5>1. now \in SUBSET Channels
          BY DEF Polled
        <5>2. IsFiniteSet(now) /\ Whole(atBaseline, now) /\ Whole(total, now)
          BY <5>1, WholeTypes
        <5>3. \A c \in now : atBaseline[c] <= total[c]
          BY <5>1 DEF Polled, CounterInv, CountTypes
        <5>4. SumOver(atBaseline, now) <= SumOver(total, now)
          BY <5>2, <5>3, SumAtMost
        <5>5. QED
          BY <1>1, <1>2, <5>4
      <4>3. QED
        BY <1>1, <1>3, <2>2, <4>1, <4>2 DEF BaseInv
    <3>2. CASE baseline' # NoCounts
      <4>1. Base'.keys = now /\ Base'.sum = Base.sum
        BY <2>2, <3>2 DEF Base
      <4>2. QED
        BY <1>3, <2>2, <2>3, <2>4, <4>1 DEF BaseInv
    <3>3. QED
      BY <3>1, <3>2
  <2>7. QED
    BY <2>2, <2>5, <2>6
<1>6. QED
  BY <1>4, <1>5

LEMMA CountersInit == CounterInit => CounterInv
<1> SUFFICES ASSUME CounterInit PROVE CounterInv
  OBVIOUS
<1>1. counter \in [Channels -> 0..(Size - 1)] /\ counter \in [Channels -> Nat]
  <2>1. counter \in [Channels -> Starts]
    BY DEF CounterInit
  <2>2. Starts \subseteq 0..(Size - 1) /\ 0..(Size - 1) \subseteq Nat
    BY CounterAssumption
  <2>3. QED
    BY <2>1, <2>2
<1>2. CountTypes
  <2>1. \A c \in Channels : counter[c] <= counter[c]
    BY <1>1
  <2>2. QED
    BY <1>1, <2>1 DEF CounterInit, CountTypes
<1>3. Whole(counter, Channels) /\ IsFiniteSet(Channels)
  BY <1>1, CounterAssumption DEF Whole
<1>4. SumOver(counter, Channels) \in Int
  BY <1>3, SumAtMost DEF Whole
<1>5. BaseInv
  <2>1. Base.keys = Channels /\ Base.sum = SumOver(counter, Channels) /\ listed = Channels
    BY DEF CounterInit, Base
  <2>2. total = counter /\ atBaseline = counter
    BY DEF CounterInit
  <2>3. SumOver(counter, Channels) - SumOver(counter, Channels) <= SumOver(counter, Channels) - SumOver(counter, Channels)
    BY <1>4
  <2>4. QED
    BY <1>4, <2>1, <2>2, <2>3 DEF BaseInv
<1>6. ChannelInv
  <2>1. ASSUME NEW c \in Channels
        PROVE  counter[c] = counter[c] % Size /\ ShowsAs(FirstRow(counter[c]), counter[c], counter[c])
    <3>1. counter[c] \in 0..(Size - 1)
      BY <1>1
    <3>2. counter[c] - counter[c] = 0
      BY <3>1
    <3>3. QED
      BY <3>1, <3>2, RegisterIs DEF ShowsAs, FirstRow
  <2>2. steady = Channels /\ total = counter /\ atReport = counter /\ \A c \in Channels : chart[c] = FirstRow(counter[c])
    BY DEF CounterInit
  <2>3. QED
    BY <2>1, <2>2 DEF ChannelInv
<1>7. SumInv
  <2>1. SumOver(counter, Channels) - SumOver(counter, Channels) = 0
    BY <1>4
  <2>2. QED
    BY <2>1 DEF CounterInit, SumInv, ShowsAs, FirstRow
<1>8. GrowthIsReal /\ ObservedIsReal
  BY DEF CounterInit, GrowthIsReal, ObservedIsReal
<1>9. QED
  BY <1>2, <1>5, <1>6, <1>7, <1>8 DEF CounterInv

LEMMA CountersNext == CounterInv /\ [CounterNext]_counterVars => CounterInv'
<1>1. ASSUME CounterInv, NEW grow \in [Channels -> Growths], NEW resets \in SUBSET Channels,
             NEW now \in SUBSET Channels, NEW spike \in BOOLEAN, NEW older \in BOOLEAN,
             Poll(grow, resets, now, spike, older)
      PROVE  CounterInv'
  <2>1. Polled(grow, resets, now) /\ Score(After(grow, resets), now, spike, older)
    BY <1>1, PollIs
  <2>2. BaseInv' /\ GrowthIsReal' /\ atBaseline' \in {atBaseline, total'}
    BY <2>1, GrowthNext
  <2>3. CountTypes' /\ ChannelInv' /\ SumInv' /\ ObservedIsReal'
    BY <2>1, <2>2, TypesNext, ChannelsNext, SumNext, ObservedNext
  <2>4. QED
    BY <2>2, <2>3 DEF CounterInv
<1>2. ASSUME CounterInv, UNCHANGED counterVars PROVE CounterInv'
  BY <1>2 DEF counterVars, CounterInv, CountTypes, BaseInv, Base, ChannelInv, SumInv, GrowthIsReal, ObservedIsReal
<1>3. QED
  BY <1>1, <1>2 DEF CounterNext

\* What is scored and observed never exceeds the errors that happened, and the charts show
\* just those, for any set of channels and any register: through wraps, resets, channels that
\* join and leave, and baselines that are dropped (error_counters.py, storage/error_counters.py).
THEOREM CountersStayReal == CounterSpec => []CountersAreReal
<1>1. CounterInv => CountersAreReal
  <2>1. SUFFICES ASSUME CounterInv PROVE ChartsAreExact
    BY DEF CounterInv, CountersAreReal
  <2>2. \A c \in listed \cap steady : chart[c].shown = total[c]
    BY <2>1 DEF CounterInv, ChannelInv, ShowsAs
  <2>3. sumSteady => sumChart.shown = SumOver(total, Channels)
    BY <2>1 DEF CounterInv, SumInv, ShowsAs
  <2>4. QED
    BY <2>2, <2>3 DEF ChartsAreExact
<1>2. QED
  BY CountersInit, CountersNext, <1>1, PTL DEF CounterSpec

---------------------------------------------------------------------------
(***************************************************************************)
(* The launcher's window                                                   *)
(***************************************************************************)
Events == [attempt : Nat, kind : {"ready"}, value : BOOLEAN]
            \cup [attempt : Nat, kind : {"error"}, value : Codes]
            \cup [attempt : Nat, kind : {"exit"}, value : {None}]

\* What a view has become that was v, of the events at T of a queue.
Becomes(v, q, T, d) ==
  /\ d \in Views /\ d.attempt = v.attempt
  /\ v.recovery # None => d.recovery # None
  /\ \A i \in T : q[i].attempt = v.attempt =>
       (q[i].kind = "exit" => d.closed = TRUE) /\ (q[i].kind = "error" => d.recovery # None)
  /\ d.owns = TRUE =>
       v.owns = TRUE \/ \E i \in T : q[i].attempt = v.attempt /\ q[i].kind = "ready" /\ q[i].value = TRUE

\* One event more.
LEMMA AppliedIs ==
  ASSUME NEW v \in Views, NEW e \in Events
  PROVE  /\ Apply(v, e) \in Views /\ Apply(v, e).attempt = v.attempt
         /\ v.recovery # None => Apply(v, e).recovery # None
         /\ v.closed = TRUE => Apply(v, e).closed = TRUE
         /\ e.attempt = v.attempt => /\ e.kind = "exit" => Apply(v, e).closed = TRUE
                                     /\ e.kind = "error" => Apply(v, e).recovery # None
         /\ Apply(v, e).owns = TRUE =>
              v.owns = TRUE \/ (e.attempt = v.attempt /\ e.kind = "ready" /\ e.value = TRUE)
<1> DEFINE d == Apply(v, e)
<1>1. CASE e.attempt # v.attempt
  BY <1>1 DEF Apply
<1>2. CASE e.attempt = v.attempt /\ e.kind = "ready"
  <2>1. e.value \in BOOLEAN
    BY <1>2 DEF Events
  <2>2. d = [v EXCEPT !.ready = TRUE, !.owns = e.value]
    BY <1>2 DEF Apply
  <2> HIDE DEF d
  <2>3. d = [attempt |-> v.attempt, ready |-> TRUE, owns |-> e.value, closed |-> v.closed, recovery |-> v.recovery]
    BY <2>2 DEF Views
  <2>4. d \in Views /\ d.attempt = v.attempt /\ d.recovery = v.recovery /\ d.closed = v.closed /\ d.owns = e.value
    BY <2>1, <2>3 DEF Views
  <2>5. QED
    BY <1>2, <2>4 DEF d
<1>3. CASE e.attempt = v.attempt /\ e.kind = "error"
  <2>1. e.value \in Codes /\ e.value # None
    BY <1>3, WindowAssumption DEF Events
  <2>2. d = [v EXCEPT !.ready = (e.value = "browser_open_failure"), !.recovery = e.value]
    BY <1>3 DEF Apply
  <2> DEFINE b == e.value = "browser_open_failure"
  <2>3. b \in BOOLEAN
    OBVIOUS
  <2> HIDE DEF d, b
  <2>4. d = [attempt |-> v.attempt, ready |-> b, owns |-> v.owns, closed |-> v.closed, recovery |-> e.value]
    BY <2>2 DEF Views, b
  <2>5. d \in Views /\ d.attempt = v.attempt /\ d.recovery = e.value /\ d.closed = v.closed /\ d.owns = v.owns
    BY <2>1, <2>3, <2>4 DEF Views
  <2>6. QED
    BY <1>3, <2>1, <2>5 DEF d
<1>4. CASE e.attempt = v.attempt /\ e.kind = "exit"
  <2>1. d = [v EXCEPT !.closed = TRUE]
    BY <1>4 DEF Apply
  <2> HIDE DEF d
  <2>2. d = [attempt |-> v.attempt, ready |-> v.ready, owns |-> v.owns, closed |-> TRUE, recovery |-> v.recovery]
    BY <2>1 DEF Views
  <2>3. d \in Views /\ d.attempt = v.attempt /\ d.recovery = v.recovery /\ d.closed = TRUE /\ d.owns = v.owns
    BY <2>2 DEF Views
  <2>4. QED
    BY <1>4, <2>3 DEF d
<1>5. e.kind \in {"ready", "error", "exit"}
  BY DEF Events
<1>6. QED
  BY <1>1, <1>2, <1>3, <1>4, <1>5

Furthest(q) == [T \in SUBSET DOMAIN q |-> Max(T)]

\* What the whole queue makes of a view.
LEMMA Drains ==
  ASSUME NEW v \in Views, NEW q \in Seq(Events)
  PROVE  Becomes(v, q, DOMAIN q, FoldLeft(Apply, v, q))
<1> DEFINE S      == DOMAIN q
           pick   == Furthest(q)
           step   == [ve \in Views \X S |-> Apply(ve[1], q[ve[2]])]
           Rec(F) == F = [T \in SUBSET S |-> IF T = {} THEN v ELSE Apply(F[T \ {Max(T)}], q[Max(T)])]
           F      == CHOOSE F : Rec(F)
           g      == Recursion(S, Views, pick, v, step)
<1>1. IsFiniteSet(S) /\ S \in SUBSET Nat /\ Len(q) + 1 \in Nat /\ (\A n \in S : n < Len(q) + 1)
      /\ \A n \in S : q[n] \in Events
  <2>1. S = 1..Len(q) /\ Len(q) \in Nat
    OBVIOUS
  <2>2. QED
    BY <2>1, FS_Interval
<1>2. ASSUME NEW T \in SUBSET S, T # {} PROVE pick[T] = Max(T) /\ Max(T) \in T
  <2>1. Max(T) \in T
    BY <1>1, <1>2, GreatestNatural
  <2>2. QED
    BY <2>1 DEF Furthest
<1>3. Picks(pick, S)
  BY <1>2 DEF Picks
<1>4. step \in [Views \X S -> Views]
  BY <1>1, AppliedIs
<1>5. Recurses(g, S, Views, pick, v, step)
  <2> HIDE DEF pick, step, S
  <2> QED BY <1>1, <1>3, <1>4, RecursionOverSubsets
<1>6. Rec(g)
  <2> HIDE DEF g
  <2>1. ASSUME NEW T \in SUBSET S
        PROVE  g[T] = IF T = {} THEN v ELSE Apply(g[T \ {Max(T)}], q[Max(T)])
    <3>1. CASE T = {}
      BY <1>5, <3>1 DEF Recurses
    <3>2. CASE T # {}
      <4>1. pick[T] = Max(T) /\ Max(T) \in S
        BY <1>2, <3>2
      <4>2. g[T \ {Max(T)}] \in Views
        BY <1>5 DEF Recurses
      <4>3. g[T] = step[g[T \ {pick[T]}], pick[T]]
        BY <1>5, <3>2 DEF Recurses
      <4> HIDE DEF pick
      <4>4. QED
        BY <3>2, <4>1, <4>2, <4>3
    <3>3. QED
      BY <3>1, <3>2
  <2>2. g = [T \in SUBSET S |-> g[T]]
    BY <1>5 DEF Recurses
  <2>3. QED
    BY <2>1, <2>2
<1>7. Rec(F)
  <2> HIDE DEF g
  <2>1. \E e : Rec(e)
    BY <1>6
  <2> HIDE DEF Rec
  <2>2. QED
    BY <2>1
<1>8. FoldLeft(Apply, v, q) = F[S]
  BY DEF FoldLeft, MapThenFoldSet
<1> HIDE DEF F, pick
<1> DEFINE X == {T \in SUBSET S : Becomes(v, q, T, F[T])}
<1>9. {} \in X
  <2>1. F[{}] = v
    BY <1>7
  <2>2. QED
    BY <2>1 DEF Becomes
<1>10. ASSUME NEW T \in SUBSET S, T # {}, T \ {pick[T]} \in X PROVE T \in X
  <2> DEFINE u == F[T \ {Max(T)}]
             e == q[Max(T)]
  <2>1. Max(T) \in T /\ Max(T) \in S /\ pick[T] = Max(T)
    BY <1>2, <1>10
  <2>2. F[T] = Apply(u, e)
    BY <1>7, <1>10
  <2>3. Becomes(v, q, T \ {Max(T)}, u)
    BY <1>10, <2>1
  <2>4. e \in Events /\ u \in Views
    BY <1>1, <2>1, <2>3 DEF Becomes
  <2> HIDE DEF u, e
  <2> DEFINE d == Apply(u, e)
  <2>5. /\ d \in Views /\ d.attempt = u.attempt
        /\ u.recovery # None => d.recovery # None
        /\ u.closed = TRUE => d.closed = TRUE
        /\ e.attempt = u.attempt => /\ e.kind = "exit" => d.closed = TRUE
                                    /\ e.kind = "error" => d.recovery # None
        /\ d.owns = TRUE => u.owns = TRUE \/ (e.attempt = u.attempt /\ e.kind = "ready" /\ e.value = TRUE)
    BY <2>4, AppliedIs
  <2> HIDE DEF d
  <2>6. \A i \in T : i \in T \ {Max(T)} \/ q[i] = e
    BY DEF e
  <2>7. Becomes(v, q, T, d)
    BY <2>1, <2>3, <2>5, <2>6 DEF Becomes, e
  <2>8. QED
    BY <2>2, <2>7 DEF d
<1>11. Holds(X, pick, S)
  <2>1. \A T \in SUBSET S : T # {} /\ T \ {pick[T]} \in X => T \in X
    BY <1>10
  <2> HIDE DEF X, S
  <2>2. QED
    BY <1>9, <2>1 DEF Holds
<1>12. SUBSET S \subseteq X
  <2> HIDE DEF X, S
  <2>1. QED
    BY <1>1, <1>3, <1>11, InductionOnSubsets
<1>13. S \in X
  BY <1>12
<1>14. QED
  BY <1>8, <1>13

WindowTyped ==
  /\ view \in Views /\ queued \in Seq(Events) /\ visible \in BOOLEAN /\ running \in BOOLEAN
  /\ view.attempt >= Mine /\ tray \in {"none", "starting", "shown", "failed"}
  /\ commands \in Seq({"quit", "startup_failed"})

Commanded(c)   == \E i \in DOMAIN commands : commands[i] = c
Announced      == \E i \in DOMAIN queued : /\ queued[i].attempt = Mine /\ queued[i].kind = "ready"
                                           /\ queued[i].value = TRUE

\* An icon that failed is told of, unless what came since has its own way out.
FailureIsTold == tray = "failed" => Commanded("startup_failed") \/ view.recovery # None \/ view.attempt # Mine

\* After a retry the window has, or is about to get, a way out.
RetryIsTold == view.attempt # Mine => view.recovery # None \/ Pending("error")

\* A worker that is done has told so.
DoneIsTold ==
  startup = "done" /\ view.attempt = Mine => Pending("exit") \/ Pending("error") \/ view.recovery # None

\* Only the worker's own application is announced, once it waits for its end.
OwnedIsAwaited ==
  (view.owns = TRUE /\ view.attempt = Mine) \/ Announced => startup \in {"join", "done"}

WindowInv ==
  /\ WindowTyped
  /\ running => /\ FailureIsTold /\ RetryIsTold /\ DoneIsTold /\ OwnedIsAwaited
                /\ ControlPath /\ EndIsHeard

\* What another event adds to the queue.
LEMMA Queued ==
  ASSUME queued \in Seq(Events), NEW more \in Seq(Events), queued' = queued \o more
  PROVE  /\ queued' \in Seq(Events)
         /\ \A i \in DOMAIN queued : i \in DOMAIN queued' /\ queued'[i] = queued[i]
         /\ \A j \in DOMAIN more : \E i \in DOMAIN queued' : queued'[i] = more[j]
         /\ \A i \in DOMAIN queued' : \/ i \in DOMAIN queued /\ queued'[i] = queued[i]
                                      \/ \E j \in DOMAIN more : queued'[i] = more[j]
<1>1. queued' \in Seq(Events)
  OBVIOUS
<1>2. Len(queued') = Len(queued) + Len(more) /\ Len(queued) \in Nat /\ Len(more) \in Nat
  OBVIOUS
<1>3. DOMAIN queued = 1..Len(queued) /\ DOMAIN more = 1..Len(more) /\ DOMAIN queued' = 1..Len(queued')
  BY <1>1
<1>4. \A i \in 1..Len(queued) : queued'[i] = queued[i]
  OBVIOUS
<1>5. \A j \in 1..Len(more) : queued'[Len(queued) + j] = more[j]
  OBVIOUS
<1>6. ASSUME NEW j \in DOMAIN more PROVE \E i \in DOMAIN queued' : queued'[i] = more[j]
  <2>1. Len(queued) + j \in DOMAIN queued'
    BY <1>2, <1>3
  <2>2. QED
    BY <1>3, <1>5, <2>1
<1>7. ASSUME NEW i \in DOMAIN queued'
      PROVE  \/ i \in DOMAIN queued /\ queued'[i] = queued[i]
             \/ \E j \in DOMAIN more : queued'[i] = more[j]
  <2>1. CASE i <= Len(queued)
    BY <1>2, <1>3, <1>4, <2>1
  <2>2. CASE i > Len(queued)
    <3>1. i - Len(queued) \in DOMAIN more /\ Len(queued) + (i - Len(queued)) = i
      BY <1>2, <1>3, <2>2
    <3>2. QED
      BY <1>3, <1>5, <3>1
  <2>3. QED
    BY <1>2, <1>3, <2>1, <2>2
<1>8. ASSUME NEW i \in DOMAIN queued PROVE i \in DOMAIN queued' /\ queued'[i] = queued[i]
  BY <1>2, <1>3, <1>4
<1>9. QED
  BY <1>1, <1>6, <1>7, <1>8

LEMMA WindowInitInv == WindowInit => WindowInv
<1> SUFFICES ASSUME WindowInit PROVE WindowInv
  OBVIOUS
<1>1. view = FreshView(1) /\ queued = <<>> /\ commands = <<>> /\ visible = TRUE /\ running = TRUE
      /\ tray = "none" /\ startup = "prepare"
  BY DEF WindowInit
<1>2. view \in Views /\ view.attempt = 1 /\ view.owns = FALSE
  BY <1>1 DEF FreshView, Views
<1>3. WindowTyped
  BY <1>1, <1>2 DEF WindowTyped, Mine
<1>4. ~Announced
  BY <1>1 DEF Announced
<1>5. QED
  BY <1>1, <1>2, <1>3, <1>4 DEF WindowInv, FailureIsTold, RetryIsTold, DoneIsTold, OwnedIsAwaited, ControlPath,
     EndIsHeard, Mine

\* What the worker adds to the queue in a step: it ends with an exit or an error, and its
\* application is ready when it goes on to wait for its end.
Adding(more) ==
  /\ more \in Seq(Events) /\ queued' = queued \o more
  /\ \A j \in DOMAIN more : more[j].attempt = Mine
  /\ startup = "done" => startup' = "done"
  /\ startup = "join" => startup' \in {"join", "done"}
  /\ startup' = "done" => startup = "done" \/ \E j \in DOMAIN more : more[j].kind \in {"exit", "error"}
  /\ (\E j \in DOMAIN more : more[j].kind = "ready" /\ more[j].value = TRUE) => startup' = "join"

LEMMA AddsNothing ==
  ASSUME queued \in Seq(Events), UNCHANGED queued, startup \notin {"join", "done"}, startup' # "done"
  PROVE  Adding(<<>>)
<1>1. queued \o <<>> = queued
  OBVIOUS
<1>2. QED
  BY <1>1 DEF Adding

LEMMA AddsOne ==
  ASSUME queued \in Seq(Events), NEW kind, NEW value, Event(Mine, kind, value) \in Events, Emit(kind, value),
         startup # "done",
         \/ kind \in {"exit", "error"} /\ startup' = "done"
         \/ kind = "ready" /\ startup # "join" /\ startup' = "join"
  PROVE  \E more : Adding(more)
<1> DEFINE e == Event(Mine, kind, value)
<1>1. e \in Events /\ e.attempt = Mine /\ e.kind = kind
  BY DEF Event
<1>2. queued' = Append(queued, e)
  BY DEF Emit
<1> HIDE DEF e
<1>3. <<e>> \in Seq(Events) /\ (\A j \in DOMAIN <<e>> : <<e>>[j] = e) /\ 1 \in DOMAIN <<e>>
  BY <1>1
<1>4. queued' = queued \o <<e>>
  BY <1>1, <1>2
<1>5. Adding(<<e>>)
  BY <1>1, <1>3, <1>4 DEF Adding
<1>6. QED
  BY <1>5

LEMMA WorkAdds == ASSUME queued \in Seq(Events), Work PROVE \E more : Adding(more)
<1>1. ASSUME UNCHANGED queued, startup \notin {"join", "done"}, startup' # "done" PROVE \E more : Adding(more)
  BY <1>1, AddsNothing
<1>2. ASSUME NEW code \in Codes, Fail(code), startup # "done" PROVE \E more : Adding(more)
  <2>1. Event(Mine, "error", code) \in Events
    BY DEF Event, Events, Mine
  <2>2. Emit("error", code) /\ startup' = "done"
    BY <1>2 DEF Fail
  <2>3. QED
    BY <1>2, <2>1, <2>2, AddsOne
<1>3. ASSUME startup = "open", Emit("ready", TRUE), startup' = "join" PROVE \E more : Adding(more)
  <2>1. Event(Mine, "ready", TRUE) \in Events
    BY DEF Event, Events, Mine
  <2>2. QED
    BY <1>3, <2>1, AddsOne
<1>4. ASSUME startup = "join", Emit("exit", None), startup' = "done" PROVE \E more : Adding(more)
  <2>1. Event(Mine, "exit", None) \in Events
    BY DEF Event, Events, Mine
  <2>2. QED
    BY <1>4, <2>1, AddsOne
<1>5. ASSUME startup = "follow", startup' = "done",
             queued' = queued \o <<Event(Mine, "ready", FALSE), Event(Mine, "exit", None)>>
      PROVE  \E more : Adding(more)
  <2> DEFINE e == Event(Mine, "ready", FALSE)
             f == Event(Mine, "exit", None)
  <2>1. e \in Events /\ f \in Events /\ e.attempt = Mine /\ f.attempt = Mine /\ e.value = FALSE /\ f.kind = "exit"
    BY DEF Event, Events, Mine
  <2>2. queued' = queued \o <<e, f>>
    BY <1>5
  <2> HIDE DEF e, f
  <2>3. <<e, f>> \in Seq(Events) /\ DOMAIN <<e, f>> = {1, 2} /\ <<e, f>>[1] = e /\ <<e, f>>[2] = f
    BY <2>1
  <2>4. Adding(<<e, f>>)
    BY <1>5, <2>1, <2>2, <2>3 DEF Adding
  <2>5. QED
    BY <2>4
<1>6. {"no_free_port", "readiness_timeout", "startup_failure", "app_thread_failure", "browser_open_failure"} \subseteq Codes
  BY DEF Codes
<1>7. QED
  BY <1>1, <1>2, <1>3, <1>4, <1>5, <1>6 DEF Work

LEMMA WorkKeeps == ASSUME WindowInv, Work PROVE WindowInv'
<1>1. WindowTyped /\ running /\ FailureIsTold /\ RetryIsTold /\ DoneIsTold /\ OwnedIsAwaited /\ ControlPath /\ EndIsHeard
  BY DEF WindowInv, Work
<1>2. UNCHANGED <<running, commands, view, visible, tray>>
  BY DEF Work
<1>3. queued \in Seq(Events)
  BY <1>1 DEF WindowTyped
<1>4. PICK more : Adding(more)
  BY <1>3, WorkAdds
<1>5. /\ queued' \in Seq(Events)
      /\ \A i \in DOMAIN queued : i \in DOMAIN queued' /\ queued'[i] = queued[i]
      /\ \A j \in DOMAIN more : \E i \in DOMAIN queued' : queued'[i] = more[j]
      /\ \A i \in DOMAIN queued' : \/ i \in DOMAIN queued /\ queued'[i] = queued[i]
                                   \/ \E j \in DOMAIN more : queued'[i] = more[j]
  BY <1>3, <1>4, Queued DEF Adding
<1>6. ASSUME NEW kind, Pending(kind) PROVE Pending(kind)'
  BY <1>2, <1>5, <1>6 DEF Pending
<1>7. WindowTyped'
  BY <1>1, <1>2, <1>5 DEF WindowTyped
<1>8. FailureIsTold' /\ ControlPath'
  BY <1>1, <1>2 DEF FailureIsTold, ControlPath, Commanded
<1>9. RetryIsTold'
  BY <1>1, <1>2, <1>6 DEF RetryIsTold
<1>10. ASSUME startup' = "done", startup # "done", view.attempt = Mine PROVE Pending("exit")' \/ Pending("error")'
  <2>1. PICK j \in DOMAIN more : more[j].kind \in {"exit", "error"} /\ more[j].attempt = Mine
    BY <1>4, <1>10 DEF Adding
  <2>2. QED
    BY <1>2, <1>5, <1>10, <2>1 DEF Pending
<1>11. DoneIsTold'
  BY <1>1, <1>2, <1>6, <1>10 DEF DoneIsTold
<1>12. OwnedIsAwaited'
  <2>1. CASE Announced'
    <3>1. PICK i \in DOMAIN queued' : queued'[i].attempt = Mine /\ queued'[i].kind = "ready" /\ queued'[i].value = TRUE
      BY <2>1 DEF Announced
    <3>2. CASE i \in DOMAIN queued /\ queued'[i] = queued[i]
      BY <1>1, <1>4, <3>1, <3>2 DEF OwnedIsAwaited, Announced, Adding
    <3>3. CASE \E j \in DOMAIN more : queued'[i] = more[j]
      BY <1>4, <3>1, <3>3 DEF OwnedIsAwaited, Adding
    <3>4. QED
      BY <1>5, <3>2, <3>3
  <2>2. CASE view.owns = TRUE /\ view.attempt = Mine
    BY <1>1, <1>2, <1>4, <2>2 DEF OwnedIsAwaited, Adding
  <2>3. QED
    BY <1>2, <2>1, <2>2 DEF OwnedIsAwaited
<1>13. EndIsHeard'
  <2>1. startup = "join" => startup' \in {"join", "done"}
    BY <1>4 DEF Adding
  <2>2. QED
    BY <1>1, <1>2, <1>6, <1>10, <2>1 DEF EndIsHeard
<1>14. QED
  BY <1>7, <1>8, <1>9, <1>11, <1>12, <1>13 DEF WindowInv

\* Nothing but commands and the icon.
LEMMA OthersKeep ==
  ASSUME WindowInv, ApplicationEnds \/ TraySetup \/ AskToQuit
  PROVE  WindowInv'
<1>1. UNCHANGED <<running, startup, queued, view, visible>>
  BY DEF ApplicationEnds, TraySetup, AskToQuit
<1>2. WindowTyped /\ running /\ FailureIsTold /\ RetryIsTold /\ DoneIsTold /\ OwnedIsAwaited /\ ControlPath /\ EndIsHeard
  BY DEF WindowInv, ApplicationEnds, TraySetup, AskToQuit
<1>3. RetryIsTold' /\ DoneIsTold' /\ OwnedIsAwaited' /\ EndIsHeard'
  BY <1>1, <1>2 DEF RetryIsTold, DoneIsTold, OwnedIsAwaited, EndIsHeard, Pending, Announced
<1>4. /\ commands' \in Seq({"quit", "startup_failed"})
      /\ Commanded("startup_failed") => Commanded("startup_failed")'
      /\ tray' = tray \/ tray' = "shown" \/ (tray' = "failed" /\ Commanded("startup_failed")')
      /\ tray' = tray \/ tray = "starting"
  <2>1. commands \in Seq({"quit", "startup_failed"})
    BY <1>2 DEF WindowTyped
  <2>2. CASE UNCHANGED <<commands, tray>>
    BY <2>1, <2>2 DEF Commanded
  <2>3. CASE UNCHANGED commands /\ tray = "starting" /\ tray' = "shown"
    BY <2>1, <2>3 DEF Commanded
  <2>4. ASSUME NEW c \in {"quit", "startup_failed"}, commands' = Append(commands, c)
        PROVE  /\ commands' \in Seq({"quit", "startup_failed"})
               /\ Commanded("startup_failed") => Commanded("startup_failed")'
               /\ c = "startup_failed" => Commanded("startup_failed")'
    <3>1. commands' \in Seq({"quit", "startup_failed"})
      BY <2>1, <2>4
    <3>2. Len(commands') = Len(commands) + 1 /\ Len(commands) \in Nat
      BY <2>1, <2>4
    <3>3. DOMAIN commands = 1..Len(commands) /\ DOMAIN commands' = 1..Len(commands')
      BY <2>1, <3>1
    <3>4. \A i \in 1..Len(commands) : commands'[i] = commands[i]
      BY <2>1, <2>4
    <3>5. commands'[Len(commands) + 1] = c /\ Len(commands) + 1 \in DOMAIN commands'
      BY <2>1, <2>4, <3>2, <3>3
    <3>6. \A i \in DOMAIN commands : i \in DOMAIN commands' /\ commands'[i] = commands[i]
      BY <3>2, <3>3, <3>4
    <3>7. QED
      BY <3>1, <3>5, <3>6 DEF Commanded
  <2>5. QED
    BY <2>2, <2>3, <2>4 DEF ApplicationEnds, TraySetup, AskToQuit
<1>5. WindowTyped'
  BY <1>1, <1>2, <1>4 DEF WindowTyped
<1>6. FailureIsTold'
  BY <1>1, <1>2, <1>4 DEF FailureIsTold
<1>7. ControlPath'
  BY <1>1, <1>2, <1>4 DEF ControlPath, Commanded
<1>8. QED
  BY <1>3, <1>5, <1>6, <1>7 DEF WindowInv

\* _handle and the failures it may meet leave attempt and ownership, and a way out stands.
LEMMA HandledIs ==
  /\ view \in Views => /\ Handled(view) \in Views /\ Handled(view).attempt = view.attempt
                       /\ Handled(view).owns = view.owns
                       /\ view.recovery # None => Handled(view).recovery # None
                       /\ Commanded("startup_failed") => Handled(view).recovery # None
  /\ \A v \in Views : /\ Recovered(v) \in Views /\ Recovered(v).attempt = v.attempt
                      /\ Recovered(v).owns = v.owns /\ Recovered(v).recovery # None
                      /\ TrayFailure(v) \in Views /\ TrayFailure(v).attempt = v.attempt
                      /\ TrayFailure(v).owns = v.owns /\ TrayFailure(v).recovery # None
<1>1. "startup_failure" \in Codes /\ "startup_failure" # None
  BY WindowAssumption DEF Codes
<1>2. ASSUME NEW v \in Views
      PROVE  /\ Recovered(v) \in Views /\ Recovered(v).attempt = v.attempt
             /\ Recovered(v).owns = v.owns /\ Recovered(v).recovery # None
  <2> DEFINE d    == Recovered(v)
             code == "startup_failure"
  <2>1. d = [v EXCEPT !.ready = FALSE, !.recovery = code]
    BY DEF Recovered
  <2>2. code \in Codes /\ code # None
    BY <1>1
  <2> HIDE DEF d, code
  <2>3. d = [attempt |-> v.attempt, ready |-> FALSE, owns |-> v.owns, closed |-> v.closed, recovery |-> code]
    BY <2>1 DEF Views
  <2>4. d \in Views /\ d.attempt = v.attempt /\ d.owns = v.owns /\ d.recovery # None
    BY <2>2, <2>3 DEF Views
  <2>5. QED
    BY <2>4 DEF d
<1>3. ASSUME NEW v \in Views
      PROVE  /\ TrayFailure(v) \in Views /\ TrayFailure(v).attempt = v.attempt
             /\ TrayFailure(v).owns = v.owns /\ TrayFailure(v).recovery # None
  BY <1>2 DEF TrayFailure
<1>4. Commanded("startup_failed") <=> "startup_failed" \in {commands[i] : i \in DOMAIN commands}
  BY DEF Commanded
<1>5. QED
  BY <1>2, <1>3, <1>4 DEF Handled

\* What a poll makes of the view, and what it means for a window that would hide.
LEMMA DrainedIs ==
  ASSUME WindowInv, running, NEW drained, drained = FoldLeft(Apply, Handled(view), queued)
  PROVE  /\ drained \in Views /\ drained.attempt = view.attempt
         /\ view.recovery # None \/ Commanded("startup_failed") => drained.recovery # None
         /\ Pending("exit") => drained.closed = TRUE
         /\ Pending("error") => drained.recovery # None
         /\ drained.owns = TRUE /\ drained.attempt = Mine => startup \in {"join", "done"}
<1> DEFINE v == Handled(view)
<1>1. view \in Views /\ queued \in Seq(Events) /\ OwnedIsAwaited
  BY DEF WindowInv, WindowTyped
<1>2. /\ v \in Views /\ v.attempt = view.attempt /\ v.owns = view.owns
      /\ view.recovery # None \/ Commanded("startup_failed") => v.recovery # None
  BY <1>1, HandledIs
<1> HIDE DEF v
<1>3. Becomes(v, queued, DOMAIN queued, FoldLeft(Apply, v, queued))
  BY <1>1, <1>2, Drains
<1>4. Becomes(v, queued, DOMAIN queued, drained)
  BY <1>3 DEF v
<1>5. ASSUME drained.owns = TRUE, drained.attempt = Mine PROVE startup \in {"join", "done"}
  <2>1. v.owns = TRUE \/ \E i \in DOMAIN queued : /\ queued[i].attempt = v.attempt /\ queued[i].kind = "ready"
                                                  /\ queued[i].value = TRUE
    BY <1>4, <1>5 DEF Becomes
  <2>2. view.attempt = Mine
    BY <1>2, <1>4, <1>5 DEF Becomes
  <2>3. QED
    BY <1>1, <1>2, <2>1, <2>2 DEF OwnedIsAwaited, Announced
<1>6. QED
  BY <1>2, <1>4, <1>5 DEF Becomes, Pending

\* A view with no way out whose window hides has its end awaited.
LEMMA HiddenIsHeard ==
  ASSUME WindowInv, running, NEW drained, drained = FoldLeft(Apply, Handled(view), queued),
         drained.closed # TRUE, ~ShownBy(drained)
  PROVE  startup = "join" /\ drained.attempt = Mine
<1>1. WindowTyped /\ RetryIsTold /\ DoneIsTold /\ EndIsHeard
  BY DEF WindowInv
<1>2. /\ drained \in Views /\ drained.attempt = view.attempt
      /\ view.recovery # None \/ Commanded("startup_failed") => drained.recovery # None
      /\ Pending("exit") => drained.closed = TRUE
      /\ Pending("error") => drained.recovery # None
      /\ drained.owns = TRUE /\ drained.attempt = Mine => startup \in {"join", "done"}
  BY DrainedIs
<1>3. drained.recovery = None /\ (visible => drained.owns = TRUE)
  BY <1>2 DEF ShownBy, Views
<1>4. ~Pending("exit") /\ ~Pending("error") /\ view.recovery = None
  BY <1>2, <1>3
<1>5. view.attempt = Mine
  BY <1>1, <1>4 DEF RetryIsTold
<1>6. startup # "done"
  BY <1>1, <1>4, <1>5 DEF DoneIsTold
<1>7. CASE visible
  BY <1>2, <1>3, <1>5, <1>6, <1>7
<1>8. CASE ~visible
  BY <1>1, <1>2, <1>4, <1>5, <1>8 DEF EndIsHeard
<1>9. QED
  BY <1>7, <1>8

\* A poll that leaves a view with its way out, or keeps queue, attempt and ownership.
LEMMA PollKeeps == ASSUME WindowInv, PollWindow PROVE WindowInv'
<1> DEFINE drained == FoldLeft(Apply, Handled(view), queued)
<1>1. running /\ commands' = <<>> /\ UNCHANGED <<startup, application>>
  BY DEF PollWindow
<1>2. /\ WindowTyped /\ FailureIsTold /\ RetryIsTold /\ DoneIsTold /\ OwnedIsAwaited /\ ControlPath /\ EndIsHeard
  BY <1>1 DEF WindowInv
<1>3. /\ drained \in Views /\ drained.attempt = view.attempt
      /\ view.recovery # None \/ Commanded("startup_failed") => drained.recovery # None
      /\ Pending("exit") => drained.closed = TRUE
      /\ Pending("error") => drained.recovery # None
      /\ drained.owns = TRUE /\ drained.attempt = Mine => startup \in {"join", "done"}
  BY <1>1, DrainedIs
<1>4. drained.closed # TRUE /\ ~ShownBy(drained) => startup = "join" /\ drained.attempt = Mine
  BY <1>1, HiddenIsHeard
<1>5. commands' \in Seq({"quit", "startup_failed"}) /\ <<>> \in Seq(Events)
  BY <1>1
<1>6. \A c : ~Commanded(c)'
  BY <1>1 DEF Commanded
<1>7. CASE running' = FALSE /\ queued' = <<>> /\ UNCHANGED <<view, visible, tray>>
  BY <1>2, <1>5, <1>7 DEF WindowInv, WindowTyped
<1>8. ASSUME UNCHANGED running, view' \in Views, view'.attempt = view.attempt, view'.recovery # None,
             visible' = TRUE, queued' = <<>> \/ UNCHANGED queued, tray' \in {tray, "failed"},
             view'.owns = TRUE /\ view'.attempt = Mine => startup \in {"join", "done"}
      PROVE  WindowInv'
  <2>1. WindowTyped'
    BY <1>1, <1>2, <1>5, <1>8 DEF WindowTyped
  <2>2. FailureIsTold' /\ RetryIsTold' /\ DoneIsTold' /\ ControlPath' /\ EndIsHeard'
    BY <1>8 DEF FailureIsTold, RetryIsTold, DoneIsTold, ControlPath, EndIsHeard
  <2>3. Announced' => Announced
    BY <1>8 DEF Announced
  <2>4. OwnedIsAwaited'
    BY <1>1, <1>2, <1>8, <2>3 DEF OwnedIsAwaited
  <2>5. QED
    BY <2>1, <2>2, <2>4 DEF WindowInv
<1>9. ASSUME UNCHANGED running, drained.closed # TRUE, queued' = <<>>, view' = drained, visible' = ShownBy(drained),
             tray' = IF WantsTray(drained) THEN "starting" ELSE tray
      PROVE  WindowInv'
  <2> HIDE DEF drained
  <2>1. visible' \in BOOLEAN
    BY <1>9, <1>2, <1>3 DEF ShownBy, WindowTyped, Views
  <2>2. WindowTyped'
    BY <1>1, <1>2, <1>3, <1>5, <1>9, <2>1 DEF WindowTyped
  <2>3. FailureIsTold'
    BY <1>2, <1>3, <1>9 DEF FailureIsTold, WantsTray
  <2>4. RetryIsTold'
    BY <1>2, <1>3, <1>9 DEF RetryIsTold
  <2>5. DoneIsTold'
    <3>1. SUFFICES ASSUME startup = "done", view.attempt = Mine PROVE drained.recovery # None
      BY <1>1, <1>3, <1>9 DEF DoneIsTold
    <3>2. QED
      BY <1>2, <1>3, <1>9, <3>1 DEF DoneIsTold
  <2>6. OwnedIsAwaited'
    <3>1. ~Announced'
      BY <1>9 DEF Announced
    <3>2. QED
      BY <1>1, <1>3, <1>9, <3>1 DEF OwnedIsAwaited
  <2>7. EndIsHeard'
    BY <1>1, <1>4, <1>9 DEF EndIsHeard
  <2>8. ControlPath'
    <3>1. SUFFICES ASSUME ~ShownBy(drained) PROVE tray' \in {"starting", "shown"}
      BY <1>9 DEF ControlPath
    <3>2. drained.recovery = None /\ (visible => drained.ready = TRUE /\ drained.owns = TRUE)
      BY <1>3, <3>1 DEF ShownBy, Views
    <3>3. ~Commanded("startup_failed") /\ view.recovery = None /\ view.attempt = Mine
      BY <1>3, <1>4, <1>9, <3>1, <3>2
    <3>4. tray # "failed"
      BY <1>2, <3>3 DEF FailureIsTold
    <3>5. CASE tray \in {"starting", "shown"}
      BY <1>9, <3>5
    <3>6. CASE tray = "none"
      <4>1. visible
        BY <1>1, <1>2, <3>3, <3>6 DEF ControlPath, Commanded
      <4>2. WantsTray(drained)
        BY <3>2, <3>6, <4>1 DEF WantsTray
      <4>3. QED
        BY <1>9, <4>2
    <3>7. tray \in {"none", "starting", "shown", "failed"}
      BY <1>2 DEF WindowTyped
    <3>8. QED
      BY <3>4, <3>5, <3>6, <3>7
  <2>9. QED
    BY <2>2, <2>3, <2>4, <2>5, <2>6, <2>7, <2>8 DEF WindowInv
<1>10. ASSUME UNCHANGED running, WantsTray(drained), queued' = <<>>, view' = TrayFailure(drained), visible' = ShownBy(view'),
              tray' = "failed"
       PROVE  WindowInv'
  <2> HIDE DEF drained
  <2>1. view' \in Views /\ view'.attempt = view.attempt /\ view'.owns = drained.owns /\ view'.recovery # None
    BY <1>3, <1>10, HandledIs
  <2>2. visible' = TRUE
    BY <1>10, <2>1 DEF ShownBy
  <2>3. QED
    BY <1>3, <1>8, <1>10, <2>1, <2>2
<1>11. ASSUME UNCHANGED running, view' = Recovered(Handled(view)), visible' = TRUE, UNCHANGED <<queued, tray>>
       PROVE  WindowInv'
  <2>1. view \in Views
    BY <1>2 DEF WindowTyped
  <2>2. view' \in Views /\ view'.attempt = view.attempt /\ view'.owns = view.owns /\ view'.recovery # None
    BY <1>11, <2>1, HandledIs
  <2>3. QED
    BY <1>2, <1>8, <1>11, <2>2 DEF OwnedIsAwaited
<1>12. ASSUME UNCHANGED running, view' = Recovered(drained), visible' = TRUE, queued' = <<>>, UNCHANGED tray
       PROVE  WindowInv'
  <2> HIDE DEF drained
  <2>1. view' \in Views /\ view'.attempt = view.attempt /\ view'.owns = drained.owns /\ view'.recovery # None
    BY <1>3, <1>12, HandledIs
  <2>2. QED
    BY <1>3, <1>8, <1>12, <2>1
<1>13. drained.closed # TRUE \/ drained.closed
  BY <1>3 DEF Views
<1>14. QED
  <2> HIDE DEF drained
  <2>1. \/ End /\ queued' = <<>>
        \/ /\ UNCHANGED running /\ ~drained.closed
           /\ \/ /\ queued' = <<>> /\ view' = drained /\ visible' = ShownBy(drained)
                 /\ tray' = IF WantsTray(drained) THEN "starting" ELSE tray
              \/ WantsTray(drained) /\ queued' = <<>> /\ view' = TrayFailure(drained) /\ visible' = ShownBy(view') /\ tray' = "failed"
              \/ view' = Recovered(Handled(view)) /\ UNCHANGED <<queued, tray>> /\ visible' = TRUE
              \/ view' = Recovered(drained) /\ queued' = <<>> /\ visible' = TRUE /\ UNCHANGED tray
    BY DEF PollWindow, drained
  <2>2. ~drained.closed => drained.closed # TRUE
    OBVIOUS
  <2>3. QED
    BY <1>7, <1>9, <1>10, <1>11, <1>12, <2>1, <2>2 DEF End

LEMMA RetryKeeps == ASSUME WindowInv, Retry PROVE WindowInv'
<1>1. running /\ visible /\ view.recovery # None /\ UNCHANGED <<startup, application, commands>>
  BY DEF Retry
<1>2. WindowTyped /\ ControlPath /\ OwnedIsAwaited
  BY <1>1 DEF WindowInv
<1>3. CASE running' = FALSE /\ UNCHANGED <<view, visible, queued, tray>>
  BY <1>1, <1>2, <1>3 DEF WindowInv, WindowTyped
<1>4. CASE /\ view' = FreshView(view.attempt + 1)
           /\ queued' = Append(queued, Event(view.attempt + 1, "error", "relaunch_failure"))
           /\ UNCHANGED <<running, visible, tray>>
  <2> DEFINE e == Event(view.attempt + 1, "error", "relaunch_failure")
  <2>1. view.attempt \in Nat /\ view.attempt >= Mine /\ queued \in Seq(Events)
    BY <1>2 DEF WindowTyped, Views
  <2>2. e \in Events /\ e.attempt = view.attempt + 1 /\ e.kind = "error"
    BY <2>1 DEF Event, Events, Codes
  <2>3. view' \in Views /\ view'.attempt = view.attempt + 1 /\ view'.owns = FALSE
    BY <1>4, <2>1 DEF FreshView, Views
  <2>4. view'.attempt >= Mine /\ view'.attempt # Mine
    BY <2>1, <2>3 DEF Mine
  <2> HIDE DEF e
  <2>5. queued' = queued \o <<e>> /\ <<e>> \in Seq(Events) /\ DOMAIN <<e>> = {1} /\ <<e>>[1] = e
    BY <1>4, <2>1, <2>2 DEF e
  <2>6. /\ queued' \in Seq(Events)
        /\ \A j \in DOMAIN <<e>> : \E i \in DOMAIN queued' : queued'[i] = <<e>>[j]
        /\ \A i \in DOMAIN queued' : \/ i \in DOMAIN queued /\ queued'[i] = queued[i]
                                     \/ \E j \in DOMAIN <<e>> : queued'[i] = <<e>>[j]
    BY <2>1, <2>5, Queued
  <2>7. Pending("error")'
    BY <2>2, <2>3, <2>5, <2>6 DEF Pending
  <2>8. Announced' => Announced
    BY <2>2, <2>5, <2>6 DEF Announced
  <2>9. WindowTyped'
    BY <1>1, <1>2, <1>4, <2>3, <2>4, <2>6 DEF WindowTyped
  <2>10. FailureIsTold' /\ RetryIsTold' /\ DoneIsTold' /\ EndIsHeard' /\ ControlPath'
    BY <1>1, <1>4, <2>4, <2>7 DEF FailureIsTold, RetryIsTold, DoneIsTold, EndIsHeard, ControlPath
  <2>11. OwnedIsAwaited'
    BY <1>1, <1>2, <2>4, <2>8 DEF OwnedIsAwaited
  <2>12. QED
    BY <2>9, <2>10, <2>11 DEF WindowInv
<1>5. QED
  BY <1>3, <1>4 DEF Retry, End

LEMMA WindowNextInv == WindowInv /\ [WindowNext]_windowVars => WindowInv'
<1>1. ASSUME WindowInv, UNCHANGED windowVars PROVE WindowInv'
  BY <1>1 DEF windowVars, WindowInv, WindowTyped, FailureIsTold, RetryIsTold, DoneIsTold, OwnedIsAwaited,
     ControlPath, EndIsHeard, Commanded, Pending, Announced
<1>2. QED
  BY <1>1, WorkKeeps, OthersKeep, PollKeeps, RetryKeeps DEF WindowNext

\* The user is never without window, icon, or the news that brings one back, and a window
\* that is hidden hears of the end of its application, for any number of failures and
\* retries and any length of the queues (packaging/windows, LauncherController.poll).
THEOREM LauncherStaysInReach == WindowSpec => []NeverOutOfReach
<1>1. WindowInv => NeverOutOfReach
  BY DEF WindowInv, NeverOutOfReach, ControlPath, EndIsHeard
<1>2. QED
  BY WindowInitInv, WindowNextInv, <1>1, PTL DEF WindowSpec

\* Any element may be taken first.
LEMMA SumUnfolds ==
  ASSUME NEW S, IsFiniteSet(S), S # {}, NEW f, Whole(f, S)
  PROVE  \E x \in S : SumOver(f, S \ {x}) \in Int /\ SumOver(f, S) = f[x] + SumOver(f, S \ {x})
<1> DEFINE x == Picked(S)[S]
           T == S \ {x}
           F == PartialSums(f, S)
           G == PartialSums(f, T)
<1>1. x \in S
  BY PickedPicks DEF Picks
<1>2. IsFiniteSet(T) /\ T \in SUBSET S /\ Whole(f, T)
  BY FS_RemoveElement DEF Whole
<1>3. SumsOf(F, f, S) /\ SumOver(f, S) = F[S]
  BY SumIs DEF Whole
<1>4. SumsOf(G, f, T) /\ SumOver(f, T) = G[T]
  <2> HIDE DEF T
  <2> QED BY <1>2, SumIs DEF Whole
<1> HIDE DEF F, G
<1> DEFINE X == {U \in SUBSET T : F[U] = G[U]}
<1>5. {} \in X
  BY <1>3, <1>4 DEF SumsOf
<1>6. ASSUME NEW U \in SUBSET T, U # {}, U \ {Picked(T)[U]} \in X PROVE U \in X
  <2>1. Picked(T)[U] = Picked(S)[U] /\ U \in SUBSET S
    BY <1>2 DEF Picked
  <2>2. F[U] = f[Picked(T)[U]] + F[U \ {Picked(T)[U]}]
    BY <1>3, <1>6, <2>1 DEF SumsOf
  <2>3. G[U] = f[Picked(T)[U]] + G[U \ {Picked(T)[U]}]
    BY <1>4, <1>6 DEF SumsOf
  <2>4. QED
    BY <1>6, <2>2, <2>3
<1>7. Holds(X, Picked(T), T)
  <2>1. \A U \in SUBSET T : U # {} /\ U \ {Picked(T)[U]} \in X => U \in X
    BY <1>6
  <2> HIDE DEF X, T
  <2>2. QED
    BY <1>5, <2>1 DEF Holds
<1>8. T \in X
  <2> HIDE DEF X, T
  <2> QED BY <1>2, <1>7, SumInduction
<1>9. F[S] = f[x] + F[T] /\ F[T] \in Int
  BY <1>2, <1>3 DEF SumsOf
<1>10. QED
  BY <1>1, <1>3, <1>4, <1>8, <1>9

LEMMA SumSplits ==
  ASSUME NEW S, IsFiniteSet(S), NEW f, Whole(f, S)
  PROVE  \A x \in S : SumOver(f, S \ {x}) \in Int /\ SumOver(f, S) = f[x] + SumOver(f, S \ {x})
<1> DEFINE Splits(T) == \A x \in T : SumOver(f, T \ {x}) \in Int /\ SumOver(f, T) = f[x] + SumOver(f, T \ {x})
           B == {T \in SUBSET S : ~Splits(T)}
<1>1. SUFFICES ASSUME B # {} PROVE FALSE
  OBVIOUS
<1>2. B \subseteq FiniteSubsetsOf(S)
  BY FS_Subset DEF FiniteSubsetsOf
<1>3. PICK T \in B : \A U \in B : <<U, T>> \notin StrictSubsetOrdering(S)
  <2> HIDE DEF B
  <2> QED BY <1>1, <1>2, WFMin, FS_StrictSubsetOrderingWellFounded
<1>4. T \in SUBSET S /\ IsFiniteSet(T) /\ Whole(f, T)
  BY <1>3, FS_Subset DEF Whole
<1>5. ASSUME NEW z \in T PROVE Splits(T \ {z})
  <2>1. <<T \ {z}, T>> \in StrictSubsetOrdering(S)
    BY <1>4 DEF StrictSubsetOrdering
  <2>2. T \ {z} \notin B /\ T \ {z} \in SUBSET S
    BY <1>3, <1>4, <2>1
  <2>3. QED
    BY <2>2
<1>6. PICK x \in T : ~(SumOver(f, T \ {x}) \in Int /\ SumOver(f, T) = f[x] + SumOver(f, T \ {x}))
  BY <1>3
<1>7. PICK y \in T : SumOver(f, T \ {y}) \in Int /\ SumOver(f, T) = f[y] + SumOver(f, T \ {y})
  <2> HIDE DEF B
  <2> QED BY <1>4, <1>6, SumUnfolds
<1> HIDE DEF B
<1>8. x # y
  BY <1>6, <1>7
<1>9. /\ SumOver(f, (T \ {y}) \ {x}) \in Int
      /\ SumOver(f, T \ {y}) = f[x] + SumOver(f, (T \ {y}) \ {x})
  BY <1>5, <1>8
<1>10. SumOver(f, T \ {x}) = f[y] + SumOver(f, (T \ {x}) \ {y})
  BY <1>5, <1>8
<1>11. (T \ {x}) \ {y} = (T \ {y}) \ {x}
  OBVIOUS
<1>12. f[x] \in Int /\ f[y] \in Int
  BY <1>4 DEF Whole
<1> DEFINE a == SumOver(f, T)
           b == SumOver(f, T \ {x})
           c == SumOver(f, T \ {y})
           d == SumOver(f, (T \ {y}) \ {x})
<1>13. d \in Int /\ c = f[x] + d /\ b = f[y] + d /\ a = f[y] + c
  BY <1>7, <1>9, <1>10, <1>11
<1>14. ~(b \in Int /\ a = f[x] + b)
  BY <1>6
<1> HIDE DEF a, b, c, d
<1>15. QED
  BY <1>12, <1>13, <1>14

LEMMA SumOfNone == \A f : SumOver(f, {}) = 0
<1>1. ASSUME NEW f PROVE SumOver(f, {}) = 0
  <2>1. IsFiniteSet({}) /\ \A c \in {} : f[c] \in Int
    BY FS_EmptySet
  <2>2. SumsOf(PartialSums(f, {}), f, {}) /\ SumOver(f, {}) = PartialSums(f, {})[{}]
    BY <2>1, SumIs
  <2>3. QED
    BY <2>2 DEF SumsOf
<1>2. QED
  BY <1>1

LEMMA SumIsWhole ==
  ASSUME NEW S, IsFiniteSet(S), NEW f, Whole(f, S)
  PROVE  SumOver(f, S) \in Int
<1> DEFINE F == PartialSums(f, S)
<1>1. SumsOf(F, f, S) /\ SumOver(f, S) = F[S]
  BY SumIs DEF Whole
<1> HIDE DEF F
<1>2. QED
  BY <1>1 DEF SumsOf

LEMMA SumTakes ==
  ASSUME NEW S, IsFiniteSet(S), NEW f, NEW x, x \notin S, Whole(f, S), f[x] \in Int
  PROVE  SumOver(f, S \cup {x}) = SumOver(f, S) + f[x]
<1> DEFINE T == S \cup {x}
<1>1. IsFiniteSet(T) /\ Whole(f, T) /\ x \in T /\ T \ {x} = S
  BY FS_AddElement DEF Whole
<1> HIDE DEF T
<1>2. SumOver(f, T) = f[x] + SumOver(f, S) /\ SumOver(f, S) \in Int
  BY <1>1, SumSplits
<1>3. QED
  BY <1>2 DEF T

\* Sums of the same numbers are the same.
LEMMA SumsAreSame ==
  ASSUME NEW S, IsFiniteSet(S), NEW f, NEW g, Whole(f, S), \A c \in S : g[c] = f[c]
  PROVE  SumOver(g, S) = SumOver(f, S)
<1>1. Whole(g, S)
  BY DEF Whole
<1>2. SumOver(g, S) \in Int /\ SumOver(f, S) \in Int /\ SumOver(g, S) <= SumOver(f, S)
  BY <1>1, SumAtMost DEF Whole
<1>3. SumOver(f, S) <= SumOver(g, S)
  BY <1>1, SumAtMost DEF Whole
<1>4. QED
  BY <1>2, <1>3

LEMMA SumOfTwo ==
  ASSUME NEW S, IsFiniteSet(S), NEW T, IsFiniteSet(T), S \cap T = {}, NEW f, Whole(f, S), Whole(f, T)
  PROVE  SumOver(f, S \cup T) = SumOver(f, S) + SumOver(f, T) /\ IsFiniteSet(S \cup T)
<1> DEFINE pick == Picked(T)
           X == {U \in SUBSET T : SumOver(f, S \cup U) = SumOver(f, S) + SumOver(f, U) /\ IsFiniteSet(S \cup U)}
<1>1. {} \in X
  <2>1. S \cup {} = S
    OBVIOUS
  <2>2. SumOver(f, S) \in Int
    BY SumIsWhole
  <2>3. QED
    BY <2>1, <2>2, SumOfNone
<1>2. ASSUME NEW U \in SUBSET T, U # {}, U \ {pick[U]} \in X PROVE U \in X
  <2> DEFINE x == pick[U]
             V == U \ {x}
             R == S \cup V
  <2>1. x \in U /\ x \in T /\ x \notin S
    BY <1>2, PickedPicks DEF Picks
  <2>2. IsFiniteSet(V) /\ Whole(f, V) /\ IsFiniteSet(R) /\ Whole(f, R) /\ f[x] \in Int /\ x \notin V /\ x \notin R
    BY <1>2, <2>1, FS_Subset DEF Whole
  <2>3. SumOver(f, R) = SumOver(f, S) + SumOver(f, V)
    BY <1>2
  <2>4. S \cup U = R \cup {x} /\ U = V \cup {x}
    BY <2>1
  <2> HIDE DEF R, V, x
  <2>5. SumOver(f, R \cup {x}) = SumOver(f, R) + f[x] /\ SumOver(f, V \cup {x}) = SumOver(f, V) + f[x]
    BY <2>2, SumTakes
  <2>6. IsFiniteSet(R \cup {x})
    BY <2>2, FS_AddElement
  <2>7. SumOver(f, S) \in Int /\ SumOver(f, V) \in Int
    BY <2>2, SumIsWhole
  <2>8. SumOver(f, S \cup U) = SumOver(f, S) + SumOver(f, U)
    <3>1. SumOver(f, S \cup U) = SumOver(f, S) + SumOver(f, V) + f[x]
      BY <2>3, <2>4, <2>5
    <3>2. SumOver(f, U) = SumOver(f, V) + f[x]
      BY <2>4, <2>5
    <3>3. QED
      BY <2>2, <2>7, <3>1, <3>2
  <2>9. IsFiniteSet(S \cup U)
    BY <2>4, <2>6
  <2>10. QED
    BY <2>8, <2>9
<1>3. Holds(X, pick, T)
  <2>1. \A U \in SUBSET T : U # {} /\ U \ {pick[U]} \in X => U \in X
    BY <1>2
  <2> HIDE DEF X
  <2>2. QED
    BY <1>1, <2>1 DEF Holds
<1>4. T \in X
  <2> HIDE DEF X
  <2> QED BY <1>3, SumInduction
<1>5. QED
  BY <1>4

\* What is summed over parts of a whole is summed over the whole.
Together(A, D) == UNION {A[c] : c \in D}
Parts(A, C)    == /\ \A c \in C : IsFiniteSet(A[c])
                  /\ \A c, e \in C : c # e => A[c] \cap A[e] = {}

LEMMA SumOfParts ==
  ASSUME NEW C, IsFiniteSet(C), NEW A, Parts(A, C), NEW f, Whole(f, Together(A, C)),
         NEW h, \A c \in C : h[c] = SumOver(f, A[c])
  PROVE  SumOver(f, Together(A, C)) = SumOver(h, C) /\ IsFiniteSet(Together(A, C)) /\ Whole(h, C)
<1> DEFINE pick == Picked(C)
           X == {D \in SUBSET C : SumOver(f, Together(A, D)) = SumOver(h, D) /\ IsFiniteSet(Together(A, D))}
<1>1. \A c \in C : IsFiniteSet(A[c]) /\ Whole(f, A[c])
  BY DEF Parts, Whole, Together
<1>2. Whole(h, C)
  <2>1. ASSUME NEW c \in C PROVE h[c] \in Int
    BY <1>1, SumIsWhole
  <2>2. QED
    BY <2>1 DEF Whole
<1>3. {} \in X
  <2>1. Together(A, {}) = {}
    BY DEF Together
  <2>2. QED
    BY <2>1, SumOfNone, FS_EmptySet
<1>4. ASSUME NEW D \in SUBSET C, D # {}, D \ {pick[D]} \in X PROVE D \in X
  <2> DEFINE x == pick[D]
             E == D \ {x}
             P == Together(A, E)
  <2>1. x \in D /\ x \in C
    BY <1>4, PickedPicks DEF Picks
  <2>2. IsFiniteSet(E) /\ Whole(h, E) /\ h[x] \in Int /\ x \notin E /\ E \cup {x} = D
    BY <1>2, <1>4, <2>1, FS_Subset DEF Whole
  <2>3. P \cap A[x] = {} /\ Together(A, D) = P \cup A[x]
    BY <2>1 DEF Together, Parts
  <2>4. SumOver(f, P) = SumOver(h, E) /\ IsFiniteSet(P) /\ Whole(f, P)
    BY <1>4 DEF Together, Whole
  <2> HIDE DEF P, E, x
  <2>5. SumOver(f, P \cup A[x]) = SumOver(f, P) + SumOver(f, A[x]) /\ IsFiniteSet(P \cup A[x])
    BY <1>1, <2>1, <2>3, <2>4, SumOfTwo
  <2>6. SumOver(h, E \cup {x}) = SumOver(h, E) + h[x]
    BY <2>2, SumTakes
  <2>7. QED
    BY <2>1, <2>2, <2>3, <2>4, <2>5, <2>6
<1>5. Holds(X, pick, C)
  <2>1. \A D \in SUBSET C : D # {} /\ D \ {pick[D]} \in X => D \in X
    BY <1>4
  <2> HIDE DEF X
  <2>2. QED
    BY <1>3, <2>1 DEF Holds
<1>6. C \in X
  <2> HIDE DEF X
  <2> QED BY <1>5, SumInduction
<1>7. QED
  BY <1>2, <1>6

\* To count is to sum ones.
LEMMA SumOfOnes ==
  ASSUME NEW S, IsFiniteSet(S), NEW f, \A c \in S : f[c] = 1
  PROVE  SumOver(f, S) = Cardinality(S)
<1> DEFINE pick == Picked(S)
           X == {T \in SUBSET S : SumOver(f, T) = Cardinality(T)}
<1>1. {} \in X
  BY SumOfNone, FS_EmptySet
<1>2. ASSUME NEW T \in SUBSET S, T # {}, T \ {pick[T]} \in X PROVE T \in X
  <2> DEFINE x == pick[T]
             U == T \ {x}
  <2>1. x \in T /\ x \in S
    BY <1>2, PickedPicks DEF Picks
  <2>2. IsFiniteSet(T) /\ IsFiniteSet(U) /\ Whole(f, T)
    BY FS_Subset, FS_RemoveElement DEF Whole
  <2>3. Cardinality(U) = Cardinality(T) - 1 /\ Cardinality(T) \in Nat
    BY <2>1, <2>2, FS_RemoveElement, FS_CardinalityType
  <2>4. SumOver(f, T) = f[x] + SumOver(f, U)
    BY <2>1, <2>2, SumSplits
  <2>5. SumOver(f, U) = Cardinality(U) /\ f[x] = 1
    BY <1>2, <2>1
  <2> HIDE DEF U, x
  <2>6. QED
    BY <2>3, <2>4, <2>5
<1>3. Holds(X, pick, S)
  <2>1. \A T \in SUBSET S : T # {} /\ T \ {pick[T]} \in X => T \in X
    BY <1>2
  <2> HIDE DEF X
  <2>2. QED
    BY <1>1, <2>1 DEF Holds
<1>4. S \in X
  <2> HIDE DEF X
  <2> QED BY <1>3, SumInduction
<1>5. QED
  BY <1>4

LEMMA CountOfParts ==
  ASSUME NEW C, IsFiniteSet(C), NEW A, Parts(A, C), NEW h, \A c \in C : h[c] = Cardinality(A[c])
  PROVE  Cardinality(Together(A, C)) = SumOver(h, C) /\ IsFiniteSet(Together(A, C)) /\ Whole(h, C)
<1> DEFINE one == [o \in Together(A, C) |-> 1]
<1>1. \A o \in Together(A, C) : one[o] = 1
  OBVIOUS
<1>2. Whole(one, Together(A, C)) /\ \A c \in C : \A o \in A[c] : one[o] = 1
  BY DEF Whole, Together
<1> HIDE DEF one
<1>3. ASSUME NEW c \in C PROVE h[c] = SumOver(one, A[c])
  BY <1>2, SumOfOnes DEF Parts
<1>4. /\ SumOver(one, Together(A, C)) = SumOver(h, C) /\ IsFiniteSet(Together(A, C)) /\ Whole(h, C)
  BY <1>2, <1>3, SumOfParts
<1>5. QED
  BY <1>1, <1>4, SumOfOnes

LEMMA SumTimes ==
  ASSUME NEW S, IsFiniteSet(S), NEW f, NEW h, NEW k \in Int, Whole(f, S), \A c \in S : h[c] = k * f[c]
  PROVE  SumOver(h, S) = k * SumOver(f, S) /\ Whole(h, S)
<1> DEFINE pick == Picked(S)
           X == {T \in SUBSET S : SumOver(h, T) = k * SumOver(f, T)}
<1>0. Whole(h, S)
  BY DEF Whole
<1>1. {} \in X
  <2>1. k * 0 = 0
    OBVIOUS
  <2>2. QED
    BY <2>1, SumOfNone
<1>2. ASSUME NEW T \in SUBSET S, T # {}, T \ {pick[T]} \in X PROVE T \in X
  <2> DEFINE x == pick[T]
             U == T \ {x}
  <2>1. x \in T /\ x \in S
    BY <1>2, PickedPicks DEF Picks
  <2>2. IsFiniteSet(T) /\ Whole(f, T) /\ Whole(h, T)
    BY <1>0, FS_Subset DEF Whole
  <2>3. SumOver(f, T) = f[x] + SumOver(f, U) /\ SumOver(f, U) \in Int
    BY <2>1, <2>2, SumSplits
  <2>4. SumOver(h, T) = h[x] + SumOver(h, U) /\ SumOver(h, U) \in Int
    BY <2>1, <2>2, SumSplits
  <2>5. SumOver(h, U) = k * SumOver(f, U) /\ h[x] = k * f[x] /\ f[x] \in Int
    BY <1>2, <2>1 DEF Whole
  <2> HIDE DEF U, x
  <2> DEFINE a == SumOver(f, U)
             b == f[x]
  <2>6. k * b + k * a = k * (b + a)
    <3>1. a \in Int /\ b \in Int
      BY <2>3, <2>5
    <3> HIDE DEF a, b
    <3>2. QED
      BY <3>1
  <2>7. QED
    BY <2>3, <2>4, <2>5, <2>6
<1>3. Holds(X, pick, S)
  <2>1. \A T \in SUBSET S : T # {} /\ T \ {pick[T]} \in X => T \in X
    BY <1>2
  <2> HIDE DEF X
  <2>2. QED
    BY <1>1, <2>1 DEF Holds
<1>4. S \in X
  <2> HIDE DEF X
  <2> QED BY <1>3, SumInduction
<1>5. QED
  BY <1>0, <1>4

\* A finite set of integers has a greatest and a least.
LEMMA Extremes ==
  ASSUME NEW S, IsFiniteSet(S), S # {}, \A n \in S : n \in Int
  PROVE  /\ Max(S) \in S /\ \A n \in S : n <= Max(S)
         /\ Min(S) \in S /\ \A n \in S : n >= Min(S)
<1> DEFINE pick == Picked(S)
           X == {T \in SUBSET S : T = {} \/ \E m, l \in T : \A n \in T : l <= n /\ n <= m}
<1>1. ASSUME NEW T \in SUBSET S, T # {}, T \ {pick[T]} \in X PROVE T \in X
  <2> DEFINE x == pick[T]
             U == T \ {x}
  <2>1. x \in T /\ x \in Int
    BY <1>1, PickedPicks DEF Picks
  <2>2. CASE U = {}
    <3>1. T = {x}
      BY <2>1, <2>2
    <3> HIDE DEF x
    <3>2. \A n \in T : x <= n /\ n <= x
      BY <2>1, <3>1
    <3>3. QED
      BY <2>1, <3>2
  <2>3. CASE U # {}
    <3>1. PICK m \in U, l \in U : \A n \in U : l <= n /\ n <= m
      BY <1>1, <2>3
    <3>2. \A n \in T : n = x \/ n \in U
      OBVIOUS
    <3>3. m \in Int /\ l \in Int /\ m \in T /\ l \in T /\ \A n \in T : n \in Int
      BY <3>1
    <3> HIDE DEF x, U
    <3> DEFINE g == IF x >= m THEN x ELSE m
               s == IF x <= l THEN x ELSE l
    <3>4. g \in T /\ s \in T
      BY <2>1, <3>3
    <3>5. \A n \in T : s <= n /\ n <= g
      BY <2>1, <3>1, <3>2, <3>3
    <3> HIDE DEF g, s
    <3>6. QED
      BY <3>4, <3>5
  <2>4. QED
    BY <2>2, <2>3
<1>2. Holds(X, pick, S)
  <2>1. \A T \in SUBSET S : T # {} /\ T \ {pick[T]} \in X => T \in X
    BY <1>1
  <2>2. {} \in X
    OBVIOUS
  <2> HIDE DEF X
  <2>3. QED
    BY <2>1, <2>2 DEF Holds
<1>3. S \in X
  <2> HIDE DEF X
  <2> QED BY <1>2, SumInduction
<1>4. PICK m \in S, l \in S : \A n \in S : l <= n /\ n <= m
  BY <1>3
<1>5. Max(S) \in S /\ \A n \in S : Max(S) >= n
  <2>1. \A n \in S : m >= n
    BY <1>4
  <2>2. QED
    BY <2>1 DEF Max
<1>6. Min(S) \in S /\ \A n \in S : Min(S) <= n
  BY <1>4 DEF Min
<1>7. QED
  BY <1>5, <1>6

\* What a quotient is bounded by.
LEMMA QuotientIs ==
  ASSUME NEW a \in Int, NEW n \in Nat \ {0}
  PROVE  /\ a \div n \in Int
         /\ \A m \in Int : (a \div n <= m <=> a < (m + 1) * n) /\ (m <= a \div n <=> m * n <= a)
<1> DEFINE q == a \div n
<1>1. q \in Int /\ q * n <= a /\ a < q * n + n
  OBVIOUS
<1> HIDE DEF q
<1>2. ASSUME NEW m \in Int, q <= m PROVE a < (m + 1) * n
  <2>1. q * n + n = (q + 1) * n /\ (q + 1) * n <= (m + 1) * n
    BY <1>1, <1>2
  <2>2. QED
    BY <1>1, <2>1
<1>3. ASSUME NEW m \in Int, m <= q PROVE m * n <= a
  <2>1. m * n <= q * n
    BY <1>1, <1>3
  <2>2. QED
    BY <1>1, <2>1
<1>4. ASSUME NEW m \in Int, m < q PROVE ~(a < (m + 1) * n)
  <2>1. (m + 1) * n <= a
    BY <1>1, <1>3, <1>4
  <2>2. (m + 1) * n \in Int
    OBVIOUS
  <2>3. QED
    BY <2>1, <2>2
<1>5. ASSUME NEW m \in Int, q < m PROVE ~(m * n <= a)
  <2>1. a < ((m - 1) + 1) * n
    BY <1>1, <1>2, <1>5
  <2>2. QED
    BY <2>1
<1>6. ASSUME NEW m \in Int
      PROVE  (q <= m <=> a < (m + 1) * n) /\ (m <= q <=> m * n <= a)
  BY <1>1, <1>2, <1>3, <1>4, <1>5
<1>7. QED
  BY <1>1, <1>6 DEF q

\* A mean over parts is no more than the greatest of theirs, and no less than the least.
LEMMA MeanOfParts ==
  ASSUME NEW C, IsFiniteSet(C), C # {}, NEW f, NEW n, NEW m \in Int,
         Whole(f, C), \A c \in C : n[c] \in Nat \ {0}
  PROVE  /\ SumOver(n, C) \in Nat \ {0} /\ SumOver(f, C) \in Int
         /\ (\A c \in C : f[c] \div n[c] <= m) => SumOver(f, C) \div SumOver(n, C) <= m
         /\ (\A c \in C : m <= f[c] \div n[c]) => m <= SumOver(f, C) \div SumOver(n, C)
<1>1. Whole(n, C) /\ SumOver(f, C) \in Int
  BY SumIsWhole DEF Whole
<1>2. SumOver(n, C) \in Nat \ {0}
  <2>1. SumOver(n, C) \in Nat /\ \A c \in C : n[c] <= SumOver(n, C)
    BY SumHolds
  <2>2. PICK c \in C : TRUE
    OBVIOUS
  <2>3. QED
    BY <2>1, <2>2
<1> DEFINE a == SumOver(f, C)
           k == SumOver(n, C)
<1>3. ASSUME \A c \in C : f[c] \div n[c] <= m PROVE a \div k <= m
  <2> DEFINE g   == [c \in C |-> (m + 1) * n[c]]
             one == [c \in C |-> 1]
             h   == [c \in C |-> f[c] + 1]
  <2>1. \A c \in C : f[c] < (m + 1) * n[c]
    BY <1>3, QuotientIs DEF Whole
  <2>2. SumOver(g, C) = (m + 1) * k /\ Whole(g, C)
    <3>1. \A c \in C : g[c] = (m + 1) * n[c]
      OBVIOUS
    <3> HIDE DEF g
    <3>2. QED
      BY <1>1, <3>1, SumTimes
  <2>3. Whole(h, C) /\ Whole(one, C) /\ Adds(h, f, one, C) /\ \A c \in C : one[c] = 1
    BY DEF Whole, Adds
  <2>4. \A c \in C : h[c] <= g[c]
    <3>1. \A c \in C : (m + 1) * n[c] \in Int
      OBVIOUS
    <3>2. QED
      BY <2>1, <3>1 DEF Whole
  <2> HIDE DEF g, one, h
  <2>5. SumOver(h, C) <= SumOver(g, C)
    BY <2>2, <2>3, <2>4, SumAtMost
  <2>6. SumOver(h, C) = a + SumOver(one, C)
    BY <2>3, SumOfSums
  <2>7. SumOver(one, C) \in Nat \ {0}
    <3>1. SumOver(one, C) = Cardinality(C)
      BY <2>3, SumOfOnes
    <3>2. QED
      BY <3>1, FS_EmptySet, FS_CardinalityType
  <2> HIDE DEF a, k
  <2>8. a < (m + 1) * k
    <3>1. (m + 1) * k \in Int /\ a \in Int
      BY <1>1, <1>2 DEF a, k
    <3>2. QED
      BY <2>2, <2>5, <2>6, <2>7, <3>1
  <2>9. QED
    BY <1>1, <1>2, <2>8, QuotientIs DEF a, k
<1>4. ASSUME \A c \in C : m <= f[c] \div n[c] PROVE m <= a \div k
  <2> DEFINE g == [c \in C |-> m * n[c]]
  <2>1. \A c \in C : m * n[c] <= f[c]
    BY <1>4, QuotientIs DEF Whole
  <2>2. \A c \in C : g[c] = m * n[c]
    OBVIOUS
  <2>3. \A c \in C : g[c] <= f[c]
    BY <2>1
  <2> HIDE DEF g
  <2>4. SumOver(g, C) = m * k /\ Whole(g, C)
    BY <1>1, <2>2, SumTimes
  <2>5. SumOver(g, C) <= a
    BY <2>3, <2>4, SumAtMost
  <2>6. QED
    BY <1>1, <1>2, <2>4, <2>5, QuotientIs
<1>5. QED
  BY <1>1, <1>2, <1>3, <1>4

---------------------------------------------------------------------------
(***************************************************************************)
(* The views of the modulation                                             *)
(***************************************************************************)
Qams      == {Orders[b] : b \in 2..12} \cup {Unknown}
Reporting == [version : Versions, family : STRING, qam : Qams, rate : Nat \cup {Unknown}]

\* What storage returns: channels that exist with what they may report, day after day.
SnapsSound ==
  /\ snaps \in Seq([day : Nat, time : Nat, chans : Listings])
  /\ \A i \in DOMAIN snaps : \A c \in DOMAIN snaps[i].chans : c \in Carriers /\ snaps[i].chans[c] \in Reports[c]
  /\ \A i, j \in DOMAIN snaps : i < j => snaps[i].day <= snaps[j].day

LEMMA SnapsInit == ModulationInit => SnapsSound
  BY DEF ModulationInit, SnapsSound

LEMMA SnapsNext == SnapsSound /\ [ModulationNext]_modulationVars => SnapsSound'
<1>1. SUFFICES ASSUME SnapsSound, TakeSnapshot PROVE SnapsSound'
  BY DEF ModulationNext, modulationVars, SnapsSound
<1> DEFINE Rows == [day : Nat, time : Nat, chans : Listings]
<1>2. PICK chans \in {l \in Listings : \A c \in DOMAIN l : l[c] \in Reports[c]} :
      \E at \in IF snaps = <<>> THEN {<<1, 1>>}
                ELSE LET p == Last(snaps) IN {<<p.day, p.time + 1>>, <<p.day, p.time - 1>>, <<p.day + 1, 1>>} :
        /\ at[1] <= MaxDay /\ at[2] >= 1
        /\ snaps' = Append(snaps, [day |-> at[1], time |-> at[2], chans |-> chans])
  BY <1>1 DEF TakeSnapshot
<1>3. PICK at : /\ at \in IF snaps = <<>> THEN {<<1, 1>>}
                          ELSE LET p == Last(snaps) IN {<<p.day, p.time + 1>>, <<p.day, p.time - 1>>, <<p.day + 1, 1>>}
                /\ at[2] >= 1
                /\ snaps' = Append(snaps, [day |-> at[1], time |-> at[2], chans |-> chans])
  BY <1>2
<1>4. /\ snaps \in Seq(Rows) /\ DOMAIN snaps = 1..Len(snaps) /\ Len(snaps) \in Nat
      /\ \A i \in DOMAIN snaps : snaps[i] \in Rows
  <2>1. snaps \in Seq(Rows)
    BY <1>1 DEF SnapsSound
  <2> HIDE DEF Rows
  <2>2. QED
    BY <2>1
<1> DEFINE row == [day |-> at[1], time |-> at[2], chans |-> chans]
<1>5. at[1] \in Nat /\ at[2] \in Nat /\ \A i \in DOMAIN snaps : snaps[i].day <= at[1]
  <2>1. CASE snaps = <<>>
    BY <1>3, <2>1
  <2>2. CASE snaps # <<>>
    <3> DEFINE p == Last(snaps)
    <3>1. p \in Rows /\ p = snaps[Len(snaps)] /\ Len(snaps) \in DOMAIN snaps
      <4> HIDE DEF Rows
      <4>1. Len(snaps) \in DOMAIN snaps
        BY <1>4, <2>2
      <4>2. QED
        BY <1>4, <4>1 DEF Last
    <3>2. \A i \in DOMAIN snaps : snaps[i].day <= p.day /\ snaps[i].day \in Nat
      <4>1. ASSUME NEW i \in DOMAIN snaps PROVE snaps[i].day <= p.day /\ snaps[i].day \in Nat
        <5>1. snaps[i] \in Rows /\ (i < Len(snaps) \/ i = Len(snaps))
          BY <1>4
        <5>2. QED
          BY <1>1, <3>1, <5>1 DEF SnapsSound
      <4>2. QED
        BY <4>1
    <3>3. at \in {<<p.day, p.time + 1>>, <<p.day, p.time - 1>>, <<p.day + 1, 1>>}
      BY <1>3, <2>2
    <3> HIDE DEF p
    <3>4. QED
      BY <1>3, <3>1, <3>2, <3>3
  <2>3. QED
    BY <2>1, <2>2
<1>6. row \in Rows
  BY <1>2, <1>5
<1> HIDE DEF row
<1>7. snaps' \in Seq(Rows) /\ DOMAIN snaps' = DOMAIN snaps \cup {Len(snaps) + 1}
      /\ snaps'[Len(snaps) + 1] = row /\ \A i \in DOMAIN snaps : snaps'[i] = snaps[i] /\ i \in 1..Len(snaps)
  BY <1>3, <1>4, <1>6 DEF row
<1>8. row.day = at[1] /\ row.chans = chans
  BY DEF row
<1>9. \A c \in DOMAIN chans : c \in Carriers /\ chans[c] \in Reports[c]
  BY <1>2 DEF Listings
<1>10. \A i \in DOMAIN snaps' : \A c \in DOMAIN snaps'[i].chans : c \in Carriers /\ snaps'[i].chans[c] \in Reports[c]
  BY <1>1, <1>7, <1>8, <1>9 DEF SnapsSound
<1>11. ASSUME NEW i \in DOMAIN snaps', NEW j \in DOMAIN snaps', i < j PROVE snaps'[i].day <= snaps'[j].day
  <2>1. i \in DOMAIN snaps
    BY <1>4, <1>7, <1>11
  <2>2. QED
    BY <1>1, <1>5, <1>7, <1>8, <1>11, <2>1 DEF SnapsSound
<1>12. QED
  BY <1>7, <1>10, <1>11 DEF SnapsSound

\* What the operators of the views speak of.
LEMMA SnapsAre ==
  ASSUME SnapsSound
  PROVE  /\ DOMAIN snaps \subseteq Nat /\ IsFiniteSet(DOMAIN snaps) /\ IsFiniteSet(Days) /\ Days \subseteq Nat
         /\ \A i \in DOMAIN snaps : /\ snaps[i].day \in Days /\ snaps[i].time \in Nat
                                    /\ \A c \in DOMAIN snaps[i].chans : c \in Carriers /\ snaps[i].chans[c] \in Reporting
         /\ \A D : IsFiniteSet(Seen(D)) /\ \A o \in Seen(D) :
              /\ o[1] \in DOMAIN snaps /\ o[2] \in DOMAIN snaps[o[1]].chans /\ snaps[o[1]].day \in D
              /\ o = <<o[1], o[2]>> /\ o[2] \in Carriers /\ Report(o) \in Reporting
<1> DEFINE Rows == [day : Nat, time : Nat, chans : Listings]
<1>1. DOMAIN snaps = 1..Len(snaps) /\ Len(snaps) \in Nat /\ \A i \in DOMAIN snaps : snaps[i] \in Rows
  <2>1. snaps \in Seq(Rows)
    BY DEF SnapsSound
  <2> HIDE DEF Rows
  <2>2. QED
    BY <2>1
<1>2. IsFiniteSet(DOMAIN snaps) /\ DOMAIN snaps \subseteq Nat
  BY <1>1, FS_Interval
<1>3. \A i \in DOMAIN snaps : snaps[i].day \in Nat /\ snaps[i].time \in Nat /\ snaps[i].day \in Days
  BY <1>1 DEF Days
<1>4. IsFiniteSet(Days)
  <2> DEFINE f == [i \in DOMAIN snaps |-> snaps[i].day]
  <2>1. f \in Surjection(DOMAIN snaps, Days)
    BY DEF Surjection, Days
  <2>2. QED
    BY <1>2, <2>1, FS_Surjection
<1>5. Days \subseteq Nat
  BY <1>3 DEF Days
<1>6. \A i \in DOMAIN snaps : \A c \in DOMAIN snaps[i].chans : c \in Carriers /\ snaps[i].chans[c] \in Reporting
  BY ReportsAssumption DEF SnapsSound, Reporting, Qams
<1>7. ASSUME NEW D PROVE IsFiniteSet(Seen(D))
  <2>1. IsFiniteSet((DOMAIN snaps) \X Carriers)
    BY <1>2, FS_Product, ReportsAssumption
  <2>2. Seen(D) \in SUBSET ((DOMAIN snaps) \X Carriers)
    BY DEF Seen
  <2>3. QED
    BY <2>1, <2>2, FS_Subset
<1>8. ASSUME NEW D, NEW o \in Seen(D)
      PROVE  /\ o[1] \in DOMAIN snaps /\ o[2] \in DOMAIN snaps[o[1]].chans /\ snaps[o[1]].day \in D
             /\ o = <<o[1], o[2]>> /\ o[2] \in Carriers /\ Report(o) \in Reporting
  BY <1>6 DEF Seen, Report
<1>9. QED
  BY <1>2, <1>3, <1>4, <1>5, <1>6, <1>7, <1>8

LEMMA LatestOne ==
  ASSUME SnapsSound, NEW T \in SUBSET DOMAIN snaps, T # {}
  PROVE  \E x \in T : \A y \in T : y # x => Earlier(y, x)
<1> DEFINE time  == [i \in T |-> snaps[i].time]
           times == {snaps[i].time : i \in T}
           top   == Max(times)
           late  == {i \in T : snaps[i].time = top}
<1>1. IsFiniteSet(T) /\ T \subseteq Nat /\ \A i \in T : snaps[i].time \in Nat
  BY SnapsAre, FS_Subset
<1>2. IsFiniteSet(times)
  <2>1. time \in Surjection(T, times)
    BY DEF Surjection
  <2>2. QED
    BY <1>1, <2>1, FS_Surjection
<1>3. times # {} /\ \A n \in times : n \in Int
  BY <1>1
<1>4. top \in times /\ \A n \in times : n <= top
  <2> HIDE DEF times
  <2> QED BY <1>2, <1>3, Extremes
<1>5. late # {} /\ \A i \in T : snaps[i].time <= top
  BY <1>4
<1>6. IsFiniteSet(late) /\ \A i \in late : i \in Int
  <2>1. late \in SUBSET T
    OBVIOUS
  <2> HIDE DEF late
  <2>2. IsFiniteSet(late)
    BY <1>1, <2>1, FS_Subset
  <2>3. QED
    BY <1>1, <2>1, <2>2
<1>7. Max(late) \in late /\ \A i \in late : i <= Max(late)
  <2> HIDE DEF late
  <2> QED BY <1>5, <1>6, Extremes
<1>8. ASSUME NEW y \in T, y # Max(late) PROVE Earlier(y, Max(late))
  <2>1. CASE y \in late
    <3>1. y <= Max(late) /\ y < Max(late) /\ snaps[y].time = snaps[Max(late)].time
      BY <1>1, <1>7, <1>8, <2>1
    <3>2. QED
      BY <3>1 DEF Earlier
  <2>2. CASE y \notin late
    <3>1. snaps[y].time # top /\ snaps[y].time <= top /\ snaps[Max(late)].time = top
      BY <1>5, <1>7, <2>2
    <3>2. snaps[y].time \in Nat /\ top \in Nat
      BY <1>1, <1>4
    <3> HIDE DEF top, late
    <3>3. QED
      BY <3>1, <3>2 DEF Earlier
  <2>3. QED
    BY <2>1, <2>2
<1>9. QED
  BY <1>7, <1>8

Ordered(s, S) == /\ s \in [1..Cardinality(S) -> S]
                 /\ \A j, k \in 1..Cardinality(S) : j < k => Earlier(s[j], s[k])

\* Snapshots can be sorted, and none is lost by it.
LEMMA Sorts ==
  ASSUME SnapsSound, NEW S \in SUBSET DOMAIN snaps
  PROVE  /\ Ordered(InOrder(S), S) /\ Cardinality(S) \in Nat
         /\ \A x \in S : \E k \in 1..Cardinality(S) : InOrder(S)[k] = x
<1> DEFINE latest == [T \in SUBSET S |-> CHOOSE x \in T : \A y \in T : y # x => Earlier(y, x)]
           X      == {T \in SUBSET S : \E s : Ordered(s, T)}
<1>1. IsFiniteSet(S)
  BY SnapsAre, FS_Subset
<1>2. ASSUME NEW T \in SUBSET S, T # {}
      PROVE  latest[T] \in T /\ \A y \in T : y # latest[T] => Earlier(y, latest[T])
  <2>1. \E x \in T : \A y \in T : y # x => Earlier(y, x)
    BY <1>2, LatestOne
  <2>2. QED
    BY <2>1
<1>3. Picks(latest, S)
  BY <1>2 DEF Picks
<1>4. {} \in X
  <2>1. Cardinality({}) = 0 /\ 1..0 = {}
    BY FS_EmptySet
  <2>2. Ordered([k \in {} |-> 0], {})
    BY <2>1 DEF Ordered
  <2>3. QED
    BY <2>2
<1>5. ASSUME NEW T \in SUBSET S, T # {}, T \ {latest[T]} \in X PROVE T \in X
  <2> DEFINE x == latest[T]
             U == T \ {x}
             n == Cardinality(T)
  <2>1. x \in T /\ \A y \in U : Earlier(y, x)
    BY <1>2, <1>5
  <2>2. n \in Nat /\ Cardinality(U) = n - 1 /\ n - 1 \in Nat
    <3>1. IsFiniteSet(T) /\ IsFiniteSet(U)
      BY <1>1, FS_Subset
    <3>2. n \in Nat /\ Cardinality(U) \in Nat
      BY <3>1, FS_CardinalityType
    <3>3. Cardinality(U) = n - 1
      BY <2>1, <3>1, FS_RemoveElement
    <3> HIDE DEF n, U
    <3>4. QED
      BY <3>2, <3>3
  <2>3. PICK s : Ordered(s, U)
    BY <1>5
  <2> HIDE DEF x, n
  <2> DEFINE r == [k \in 1..n |-> IF k = n THEN x ELSE s[k]]
  <2>4. \A k \in 1..n : k = n \/ k \in 1..(n - 1)
    BY <2>2
  <2>5. s \in [1..(n - 1) -> U] /\ \A j, k \in 1..(n - 1) : j < k => Earlier(s[j], s[k])
    BY <2>2, <2>3 DEF Ordered
  <2>6. r \in [1..n -> T]
    BY <2>1, <2>4, <2>5
  <2>7. ASSUME NEW j \in 1..n, NEW k \in 1..n, j < k PROVE Earlier(r[j], r[k])
    <3>1. j \in 1..(n - 1) /\ r[j] = s[j] /\ s[j] \in U
      BY <2>2, <2>5, <2>7
    <3>2. CASE k = n
      BY <2>1, <3>1, <3>2
    <3>3. CASE k # n
      <4>1. k \in 1..(n - 1) /\ r[k] = s[k]
        BY <2>4, <3>3
      <4>2. QED
        BY <2>5, <2>7, <3>1, <4>1
    <3>4. QED
      BY <3>2, <3>3
  <2> HIDE DEF r
  <2>8. Ordered(r, T)
    BY <2>6, <2>7 DEF Ordered, n
  <2>9. QED
    BY <2>8
<1>6. Holds(X, latest, S)
  <2>1. \A T \in SUBSET S : T # {} /\ T \ {latest[T]} \in X => T \in X
    BY <1>5
  <2> HIDE DEF X, latest
  <2>2. QED
    BY <1>4, <2>1 DEF Holds
<1>7. S \in X
  <2> HIDE DEF X, latest
  <2>1. SUBSET S \subseteq X
    BY <1>1, <1>3, <1>6, InductionOnSubsets
  <2>2. QED
    BY <2>1
<1>8. PICK s : Ordered(s, S)
  BY <1>7
<1> DEFINE n == Cardinality(S)
           t == InOrder(S)
<1>9. n \in Nat
  BY <1>1, FS_CardinalityType
<1>10. Ordered(t, S)
  <2>1. s \in [1..n -> S] /\ \A j, k \in DOMAIN s : j < k => Earlier(s[j], s[k])
    BY <1>8 DEF Ordered
  <2>2. t \in [1..n -> S] /\ \A j, k \in DOMAIN t : j < k => Earlier(t[j], t[k])
    BY <2>1 DEF InOrder
  <2>3. QED
    BY <2>2 DEF Ordered
<1> HIDE DEF t, n, X, latest
<1>11. t \in [1..n -> S] /\ \A j, k \in 1..n : j < k => Earlier(t[j], t[k])
  BY <1>10 DEF Ordered, n
<1>12. \A x \in S : ~Earlier(x, x)
  BY SnapsAre DEF Earlier
<1>13. \A j, k \in 1..n : t[j] = t[k] => j = k
  <2>1. ASSUME NEW j \in 1..n, NEW k \in 1..n, t[j] = t[k] PROVE j = k
    <3>1. ~(j < k) /\ ~(k < j)
      BY <1>11, <1>12, <2>1
    <3>2. QED
      BY <3>1
  <2>2. QED
    BY <2>1
<1>14. t \in Injection(1..n, S)
  BY <1>11, <1>13 DEF Injection, IsInjective
<1>15. Cardinality(1..n) = n
  BY <1>9, FS_Interval
<1>16. t \in Surjection(1..n, S)
  BY <1>1, <1>14, <1>15, FS_Injection DEF n
<1>17. QED
  BY <1>9, <1>10, <1>16 DEF Surjection, t, n

Spans  == [start : Nat, end : Nat, qam : Qams, count : Nat]
TimeOf(i)   == snaps[i].time
QamOf(i, c) == snaps[i].chans[c].qam
ShownIn(c) == {i \in DOMAIN snaps : c \in DOMAIN snaps[i].chans}

\* One observation more lengthens the last period or begins one.
Lengthens(d, ps, i, c) ==
  /\ Len(d) = Len(ps) /\ Len(ps) >= 1 /\ ps[Len(ps)].qam = QamOf(i, c)
  /\ \A k \in 1..(Len(ps) - 1) : d[k] = ps[k]
  /\ d[Len(ps)].start = ps[Len(ps)].start /\ d[Len(ps)].qam = QamOf(i, c)
  /\ d[Len(ps)].end = TimeOf(i) /\ d[Len(ps)].count = ps[Len(ps)].count + 1
Begins(d, ps, i, c) ==
  /\ Len(d) = Len(ps) + 1 /\ (Len(ps) >= 1 => ps[Len(ps)].qam # QamOf(i, c))
  /\ \A k \in 1..Len(ps) : d[k] = ps[k]
  /\ d[Len(ps) + 1] = [start |-> TimeOf(i), end |-> TimeOf(i), qam |-> QamOf(i, c), count |-> 1]

LEMMA ObservationIs ==
  ASSUME SnapsSound, NEW c, NEW i \in ShownIn(c)
  PROVE  TimeOf(i) \in Nat /\ QamOf(i, c) \in Qams /\ c \in Carriers
<1>1. snaps[i].time \in Nat /\ snaps[i].chans[c] \in Reporting /\ c \in Carriers
  BY SnapsAre DEF ShownIn
<1>2. QED
  BY <1>1 DEF TimeOf, QamOf, Reporting

LEMMA ExtendIs ==
  ASSUME SnapsSound, NEW c, NEW i \in ShownIn(c), NEW ps \in Seq(Spans)
  PROVE  /\ Extend(ps, i, c) \in Seq(Spans)
         /\ Lengthens(Extend(ps, i, c), ps, i, c) \/ Begins(Extend(ps, i, c), ps, i, c)
<1> DEFINE d == Extend(ps, i, c)
           n == Len(ps)
           t == TimeOf(i)
           m == QamOf(i, c)
<1>1. t \in Nat /\ m \in Qams
  BY ObservationIs
<1>2. n \in Nat /\ (ps # <<>> <=> n >= 1) /\ \A k \in 1..n : ps[k] \in Spans
  <2> HIDE DEF Qams
  <2>1. n \in Nat /\ (ps # <<>> <=> n >= 1)
    OBVIOUS
  <2>2. \A k \in 1..n : ps[k] \in Spans
    OBVIOUS
  <2>3. QED
    BY <2>1, <2>2
<1>3. CASE ps # <<>> /\ Last(ps).qam = m
  <2> DEFINE r == [start |-> ps[n].start, end |-> t, qam |-> m, count |-> ps[n].count + 1]
  <2>1. d = [ps EXCEPT ![n] = r]
    BY <1>3 DEF Extend, TimeOf, QamOf
  <2>2. ps[n].qam = m /\ n \in 1..n
    BY <1>2, <1>3 DEF Last
  <2>3. r \in Spans /\ r.start = ps[n].start /\ r.qam = ps[n].qam /\ r.end = t /\ r.count = ps[n].count + 1
    <3>1. ps[n] \in Spans
      BY <1>2, <2>2
    <3>2. ps[n].start \in Nat /\ ps[n].count \in Nat /\ ps[n].count + 1 \in Nat
      BY <3>1 DEF Spans
    <3> HIDE DEF t, m
    <3>3. QED
      BY <1>1, <2>2, <3>2 DEF Spans
  <2> HIDE DEF r, d, t, m
  <2>4. d \in Seq(Spans) /\ Len(d) = n /\ d[n] = r /\ \A k \in 1..(n - 1) : d[k] = ps[k]
    BY <1>2, <2>1, <2>2, <2>3
  <2>5. Lengthens(d, ps, i, c)
    BY <1>2, <1>3, <2>2, <2>3, <2>4 DEF Lengthens, t, m
  <2>6. QED
    BY <2>4, <2>5 DEF d
<1>4. CASE ~(ps # <<>> /\ Last(ps).qam = m)
  <2> DEFINE r == [start |-> t, end |-> t, qam |-> m, count |-> 1]
  <2>1. d = Append(ps, r)
    BY <1>4 DEF Extend, TimeOf, QamOf
  <2>2. n >= 1 => ps[n].qam # m
    BY <1>2, <1>4 DEF Last
  <2>3. r \in Spans
    BY <1>1 DEF Spans
  <2> HIDE DEF r, d, t, m
  <2>4. d \in Seq(Spans) /\ Len(d) = n + 1 /\ d[n + 1] = r /\ \A k \in 1..n : d[k] = ps[k]
    BY <1>2, <2>1, <2>3
  <2>5. Begins(d, ps, i, c)
    BY <1>2, <2>2, <2>4 DEF Begins, r, t, m
  <2>6. QED
    BY <2>4, <2>5 DEF d
<1>5. QED
  BY <1>3, <1>4

\* The periods of some modulations, and the observations in them.
Within(ps, L)  == {k \in DOMAIN ps : ps[k].qam \in L}
Counted(ps, L) == SumOver([k \in Within(ps, L) |-> ps[k].count], Within(ps, L))

LEMMA CountsFit ==
  ASSUME SnapsSound, NEW c, NEW i \in ShownIn(c), NEW ps \in Seq(Spans), NEW L
  PROVE  /\ Counted(Extend(ps, i, c), L) = Counted(ps, L) + (IF QamOf(i, c) \in L THEN 1 ELSE 0)
         /\ Counted(ps, L) \in Int
         /\ Within(Extend(ps, i, c), L) # {} <=> Within(ps, L) # {} \/ QamOf(i, c) \in L
<1> DEFINE d == Extend(ps, i, c)
           n == Len(ps)
           S == Within(ps, L)
           f == [k \in Within(ps, L) |-> ps[k].count]
           g == [k \in Within(d, L) |-> d[k].count]
<1>1. d \in Seq(Spans) /\ (Lengthens(d, ps, i, c) \/ Begins(d, ps, i, c))
  BY ExtendIs
<1> HIDE DEF d
<1>2. /\ n \in Nat /\ DOMAIN ps = 1..n /\ DOMAIN d = 1..Len(d)
      /\ \A k \in DOMAIN ps : ps[k].count \in Nat
      /\ \A k \in DOMAIN d : d[k].count \in Nat
  <2>1. n \in Nat /\ DOMAIN ps = 1..n /\ DOMAIN d = 1..Len(d)
    BY <1>1
  <2>2. (\A k \in DOMAIN ps : ps[k] \in Spans) /\ (\A k \in DOMAIN d : d[k] \in Spans)
    BY <1>1
  <2>3. QED
    BY <2>1, <2>2 DEF Spans
<1>3. S \subseteq 1..n /\ IsFiniteSet(S) /\ Whole(f, S) /\ \A k \in S : f[k] = ps[k].count
  <2>1. S \in SUBSET (1..n) /\ Whole(f, S) /\ \A k \in S : f[k] = ps[k].count
    BY <1>2 DEF Within, Whole
  <2> HIDE DEF S
  <2>2. IsFiniteSet(S)
    <3>1. IsFiniteSet(1..n)
      <4>1. n \in Int
        BY <1>2
      <4> HIDE DEF n
      <4>2. QED
        BY <4>1, FS_Interval
    <3>2. QED
      BY <2>1, <3>1, FS_Subset
  <2>3. QED
    BY <2>1, <2>2
<1>4. Whole(g, Within(d, L)) /\ \A k \in Within(d, L) : g[k] = d[k].count
  BY <1>2 DEF Within, Whole
<1>5. Counted(d, L) = SumOver(g, Within(d, L)) /\ Counted(ps, L) = SumOver(f, S)
  BY DEF Counted
<1>6. SumOver(f, S) \in Int
  BY <1>3, SumIsWhole
<1> HIDE DEF f, g
<1>7. CASE Lengthens(d, ps, i, c)
  <2>1. Within(d, L) = S
    <3>1. \A k \in 1..n : d[k].qam = ps[k].qam
      <4>1. \A k \in 1..n : k = n \/ k \in 1..(n - 1)
        BY <1>2
      <4>2. QED
        BY <1>7, <4>1 DEF Lengthens
    <3>2. QED
      BY <1>2, <1>7, <3>1 DEF Within, Lengthens
  <2>2. ps[n].qam = QamOf(i, c) /\ n \in 1..n
    BY <1>2, <1>7 DEF Lengthens
  <2> HIDE DEF S
  <2>3. CASE QamOf(i, c) \in L
    <3>1. n \in S
      BY <1>2, <2>2, <2>3 DEF S, Within
    <3>2. \A k \in S \ {n} : g[k] = f[k]
      <4>1. ASSUME NEW k \in S \ {n} PROVE k \in 1..(n - 1)
        <5>1. k \in 1..n /\ k # n /\ n \in Nat
          BY <1>2, <1>3
        <5>2. QED
          BY <5>1
      <4>2. QED
        BY <1>3, <1>4, <1>7, <2>1, <4>1 DEF Lengthens
    <3>3. IsFiniteSet(S \ {n}) /\ Whole(f, S \ {n})
      BY <1>3, FS_RemoveElement DEF Whole
    <3>4. SumOver(g, S \ {n}) = SumOver(f, S \ {n})
      BY <3>2, <3>3, SumsAreSame
    <3>5. SumOver(f, S \ {n}) \in Int /\ SumOver(f, S) = f[n] + SumOver(f, S \ {n})
      BY <1>3, <3>1, SumSplits
    <3>6. SumOver(g, S) = g[n] + SumOver(g, S \ {n})
      BY <1>3, <1>4, <2>1, <3>1, SumSplits
    <3>7. g[n] = f[n] + 1 /\ f[n] \in Int
      BY <1>3, <1>4, <1>7, <2>1, <3>1 DEF Lengthens, Whole
    <3>8. SumOver(g, S) = SumOver(f, S) + 1
      BY <3>4, <3>5, <3>6, <3>7
    <3>9. QED
      BY <1>5, <1>6, <2>1, <2>3, <3>1, <3>8 DEF d, S
  <2>4. CASE QamOf(i, c) \notin L
    <3>1. n \notin S
      BY <2>2, <2>4 DEF S, Within
    <3>2. \A k \in S : g[k] = f[k]
      <4>1. \A k \in S : k \in 1..(n - 1)
        BY <1>2, <1>3, <3>1
      <4>2. QED
        BY <1>3, <1>4, <1>7, <2>1, <4>1 DEF Lengthens
    <3>3. SumOver(g, S) = SumOver(f, S)
      BY <1>3, <3>2, SumsAreSame
    <3>4. QED
      BY <1>5, <1>6, <2>1, <2>4, <3>3 DEF d, S
  <2>5. QED
    BY <2>3, <2>4
<1>8. CASE Begins(d, ps, i, c)
  <2>1. /\ DOMAIN d = (1..n) \cup {n + 1} /\ d[n + 1].qam = QamOf(i, c) /\ d[n + 1].count = 1
        /\ \A k \in 1..n : d[k] = ps[k]
    BY <1>2, <1>8 DEF Begins
  <2>2. n + 1 \notin S
    BY <1>2, <1>3
  <2>3. IF QamOf(i, c) \in L THEN Within(d, L) = S \cup {n + 1} ELSE Within(d, L) = S
    BY <1>2, <2>1 DEF Within
  <2>4. \A k \in S : k \in Within(d, L) /\ g[k] = f[k]
    BY <1>3, <1>4, <2>1, <2>3
  <2> HIDE DEF S
  <2>5. SumOver(g, S) = SumOver(f, S) /\ Whole(g, S)
    BY <1>3, <2>4, SumsAreSame DEF Whole
  <2>6. CASE QamOf(i, c) \in L
    <3>1. g[n + 1] = 1
      BY <1>4, <2>1, <2>3, <2>6
    <3>2. SumOver(g, S \cup {n + 1}) = SumOver(g, S) + g[n + 1]
      <4> DEFINE x == n + 1
      <4>1. g[x] \in Int /\ x \notin S
        BY <2>2, <3>1
      <4>2. IsFiniteSet(S) /\ Whole(g, S)
        BY <1>3, <2>5
      <4> HIDE DEF x
      <4>3. SumOver(g, S \cup {x}) = SumOver(g, S) + g[x]
        BY <4>1, <4>2, SumTakes
      <4>4. QED
        BY <4>3 DEF x
    <3>3. Within(d, L) # {}
      BY <2>3, <2>6
    <3>4. QED
      BY <1>5, <1>6, <2>3, <2>5, <2>6, <3>1, <3>2, <3>3 DEF d
  <2>7. CASE QamOf(i, c) \notin L
    BY <1>5, <1>6, <2>3, <2>5, <2>7 DEF d, S
  <2>8. QED
    BY <2>6, <2>7
<1>9. QED
  BY <1>1, <1>7, <1>8

\* What the periods are of the observations at T of a day's snapshots.
Those(q, c, L, T) == {j \in T : QamOf(q[j], c) \in L}
Fits(ps, q, c, T) ==
  /\ ps \in Seq(Spans)
  /\ T = {} => ps = <<>>
  /\ T # {} => Len(ps) >= 1 /\ ps[Len(ps)].end = TimeOf(q[Max(T)])
  /\ \A k \in 1..Len(ps) : ps[k].start <= ps[k].end
  /\ \A k \in 1..(Len(ps) - 1) : ps[k].end <= ps[k + 1].start /\ ps[k].qam # ps[k + 1].qam
  /\ \A L : /\ Counted(ps, L) = Cardinality(Those(q, c, L, T))
            /\ Within(ps, L) # {} <=> Those(q, c, L, T) # {}

InTime(q, c) == /\ q \in [DOMAIN q -> ShownIn(c)]
                /\ \A j, k \in DOMAIN q : j < k => TimeOf(q[j]) <= TimeOf(q[k])

LEMMA ExtendFits ==
  ASSUME SnapsSound, NEW c, NEW n \in Nat, NEW q, DOMAIN q = 1..n, InTime(q, c),
         NEW T \in SUBSET (1..n), NEW x \in T, \A j \in T : j <= x, Max(T) = x,
         T \ {x} # {} => Max(T \ {x}) \in T \ {x},
         NEW ps, Fits(ps, q, c, T \ {x})
  PROVE  Fits(Extend(ps, q[x], c), q, c, T)
<1> DEFINE d == Extend(ps, q[x], c)
           U == T \ {x}
           i == q[x]
           l == Len(ps)
<1>1. i \in ShownIn(c) /\ TimeOf(i) \in Nat
  BY ObservationIs DEF InTime
<1>2. ps \in Seq(Spans) /\ l \in Nat /\ (\A k \in 1..l : ps[k] \in Spans)
  BY DEF Fits
<1>3. d \in Seq(Spans) /\ (Lengthens(d, ps, i, c) \/ Begins(d, ps, i, c))
  BY <1>1, <1>2, ExtendIs
<1>4. \A k \in 1..l : ps[k].start \in Nat /\ ps[k].end \in Nat
  BY <1>2 DEF Spans
<1>5. U = {} => l = 0
  BY DEF Fits
<1>6. U # {} => l >= 1 /\ ps[l].end <= TimeOf(i)
  <2>1. SUFFICES ASSUME U # {} PROVE l >= 1 /\ ps[l].end <= TimeOf(i)
    OBVIOUS
  <2>2. Max(U) \in U /\ Max(U) \in 1..n /\ x \in 1..n /\ Max(U) < x
    <3>1. Max(U) \in U /\ x \in 1..n
      BY <2>1
    <3>2. Max(U) \in 1..n /\ Max(U) <= x /\ Max(U) # x
      BY <3>1
    <3> HIDE DEF U
    <3>3. QED
      BY <3>1, <3>2
  <2>3. TimeOf(q[Max(U)]) <= TimeOf(i)
    BY <2>2 DEF InTime
  <2>4. l >= 1 /\ ps[l].end = TimeOf(q[Max(U)])
    BY <2>1 DEF Fits
  <2>5. QED
    BY <2>3, <2>4
<1>7. /\ \A k \in 1..l : ps[k].start <= ps[k].end
      /\ \A k \in 1..(l - 1) : ps[k].end <= ps[k + 1].start /\ ps[k].qam # ps[k + 1].qam
  BY DEF Fits
<1>8. ASSUME NEW L
      PROVE  /\ Counted(d, L) = Cardinality(Those(q, c, L, T))
             /\ Within(d, L) # {} <=> Those(q, c, L, T) # {}
  <2> DEFINE old == Those(q, c, L, U)
  <2>1. /\ Counted(d, L) = Counted(ps, L) + (IF QamOf(i, c) \in L THEN 1 ELSE 0)
        /\ Within(d, L) # {} <=> Within(ps, L) # {} \/ QamOf(i, c) \in L
    BY <1>1, <1>2, CountsFit
  <2>2. Counted(ps, L) = Cardinality(old) /\ (Within(ps, L) # {} <=> old # {})
    BY DEF Fits
  <2>3. Those(q, c, L, T) = (IF QamOf(i, c) \in L THEN old \cup {x} ELSE old) /\ x \notin old
    BY DEF Those
  <2>4. IsFiniteSet(old)
    <3>1. IsFiniteSet(1..n) /\ old \in SUBSET (1..n)
      <4>1. old \in SUBSET (1..n)
        BY DEF Those
      <4>2. IsFiniteSet(1..n)
        BY FS_Interval
      <4>3. QED
        BY <4>1, <4>2
    <3> HIDE DEF old
    <3>2. QED
      BY <3>1, FS_Subset
  <2> HIDE DEF old, d
  <2>5. Cardinality(old \cup {x}) = Cardinality(old) + 1 /\ Cardinality(old) \in Nat
    BY <2>3, <2>4, FS_AddElement, FS_CardinalityType
  <2>6. QED
    BY <2>1, <2>2, <2>3, <2>5
<1> HIDE DEF d, i, U, l
<1>9. CASE Lengthens(d, ps, i, c)
  <2>1. /\ Len(d) = l /\ l >= 1 /\ (\A k \in 1..(l - 1) : d[k] = ps[k])
        /\ d[l].start = ps[l].start /\ d[l].qam = ps[l].qam /\ d[l].end = TimeOf(i)
    BY <1>9 DEF Lengthens, l
  <2>2. U # {}
    BY <1>5, <2>1
  <2>3. \A k \in 1..l : d[k].start = ps[k].start /\ d[k].qam = ps[k].qam /\ (k = l \/ d[k] = ps[k])
    <3>1. \A k \in 1..l : k = l \/ k \in 1..(l - 1)
      BY <1>2
    <3>2. QED
      BY <2>1, <3>1
  <2>4. ASSUME NEW k \in 1..l PROVE d[k].start <= d[k].end
    <3>1. CASE k = l
      BY <1>1, <1>4, <1>6, <1>7, <2>1, <2>2, <3>1
    <3>2. CASE k # l
      BY <1>7, <2>3, <3>2
    <3>3. QED
      BY <3>1, <3>2
  <2>5. ASSUME NEW k \in 1..(l - 1) PROVE d[k].end <= d[k + 1].start /\ d[k].qam # d[k + 1].qam
    <3>1. k \in 1..l /\ k + 1 \in 1..l /\ k # l
      BY <1>2
    <3>2. d[k] = ps[k] /\ d[k + 1].start = ps[k + 1].start /\ d[k + 1].qam = ps[k + 1].qam
      BY <2>3, <3>1
    <3>3. QED
      BY <1>7, <3>2
  <2>6. QED
    BY <1>3, <1>8, <2>1, <2>4, <2>5 DEF Fits, d, i
<1>10. CASE Begins(d, ps, i, c)
  <2>1. /\ Len(d) = l + 1 /\ (l >= 1 => ps[l].qam # QamOf(i, c)) /\ (\A k \in 1..l : d[k] = ps[k])
        /\ d[l + 1].start = TimeOf(i) /\ d[l + 1].end = TimeOf(i) /\ d[l + 1].qam = QamOf(i, c)
    BY <1>10 DEF Begins, l
  <2>2. ASSUME NEW k \in 1..(l + 1) PROVE d[k].start <= d[k].end
    <3>1. k = l + 1 \/ k \in 1..l
      BY <1>2
    <3>2. QED
      BY <1>1, <1>7, <2>1, <3>1
  <2>3. ASSUME NEW k \in 1..l PROVE d[k].end <= d[k + 1].start /\ d[k].qam # d[k + 1].qam
    <3>1. CASE k = l
      <4>1. U # {}
        BY <1>2, <1>5, <3>1
      <4>2. QED
        BY <1>6, <2>1, <3>1, <4>1
    <3>2. CASE k # l
      <4>1. k \in 1..(l - 1) /\ k + 1 \in 1..l
        BY <1>2, <3>2
      <4>2. QED
        BY <1>7, <2>1, <4>1
    <3>3. QED
      BY <3>1, <3>2
  <2>4. Len(d) - 1 = l /\ Len(d) >= 1
    BY <1>2, <2>1
  <2>5. QED
    BY <1>3, <1>8, <2>1, <2>2, <2>3, <2>4 DEF Fits, d, i
<1>11. QED
  BY <1>3, <1>9, <1>10 DEF d

\* What the whole timeline becomes.
LEMMA PeriodsFit ==
  ASSUME SnapsSound, NEW c, NEW n \in Nat, NEW q, q \in [1..n -> ShownIn(c)], InTime(q, c)
  PROVE  Fits(PeriodsOf(q, c), q, c, 1..n)
<1> DEFINE S      == DOMAIN q
           V      == Seq(Spans)
           pick   == Furthest(q)
           step   == [ve \in V \X S |-> Extend(ve[1], q[ve[2]], c)]
           Rec(F) == F = [T \in SUBSET S |-> IF T = {} THEN <<>> ELSE Extend(F[T \ {Max(T)}], q[Max(T)], c)]
           F      == CHOOSE F : Rec(F)
           g      == Recursion(S, V, pick, <<>>, step)
<1>1. S = 1..n /\ IsFiniteSet(S) /\ S \in SUBSET Nat /\ n + 1 \in Nat /\ (\A k \in S : k < n + 1)
      /\ \A k \in S : q[k] \in ShownIn(c)
  BY FS_Interval
<1>2. ASSUME NEW T \in SUBSET S, T # {} PROVE pick[T] = Max(T) /\ Max(T) \in T /\ \A k \in T : k <= Max(T)
  <2>1. Max(T) \in T /\ \A k \in T : k <= Max(T)
    BY <1>1, <1>2, GreatestNatural
  <2>2. QED
    BY <2>1 DEF Furthest
<1>3. Picks(pick, S)
  BY <1>2 DEF Picks
<1>4. step \in [V \X S -> V]
  BY <1>1, ExtendIs
<1>5. Recurses(g, S, V, pick, <<>>, step)
  <2>1. <<>> \in V
    OBVIOUS
  <2> HIDE DEF pick, step, S, V
  <2> QED BY <1>1, <1>3, <1>4, <2>1, RecursionOverSubsets
<1>6. Rec(g)
  <2> HIDE DEF g, V
  <2>1. ASSUME NEW T \in SUBSET S
        PROVE  g[T] = IF T = {} THEN <<>> ELSE Extend(g[T \ {Max(T)}], q[Max(T)], c)
    <3>1. CASE T = {}
      BY <1>5, <3>1 DEF Recurses
    <3>2. CASE T # {}
      <4>1. pick[T] = Max(T) /\ Max(T) \in S
        BY <1>2, <3>2
      <4>2. g[T \ {Max(T)}] \in V
        BY <1>5 DEF Recurses
      <4>3. g[T] = step[g[T \ {pick[T]}], pick[T]]
        BY <1>5, <3>2 DEF Recurses
      <4> HIDE DEF pick
      <4>4. QED
        BY <3>2, <4>1, <4>2, <4>3
    <3>3. QED
      BY <3>1, <3>2
  <2>2. g = [T \in SUBSET S |-> g[T]]
    BY <1>5 DEF Recurses
  <2>3. QED
    BY <2>1, <2>2
<1>7. Rec(F)
  <2> HIDE DEF g
  <2>1. \E e : Rec(e)
    BY <1>6
  <2> HIDE DEF Rec
  <2>2. QED
    BY <2>1
<1>8. PeriodsOf(q, c) = F[S]
  BY DEF PeriodsOf, FoldLeft, MapThenFoldSet
<1> HIDE DEF F, pick
<1> DEFINE X == {T \in SUBSET S : Fits(F[T], q, c, T)}
<1>9. {} \in X
  <2>1. F[{}] = <<>>
    BY <1>7
  <2>2. <<>> \in Seq(Spans) /\ Len(<<>>) = 0 /\ \A L : Within(<<>>, L) = {} /\ Those(q, c, L, {}) = {}
    BY DEF Within, Those
  <2>3. Cardinality({}) = 0 /\ \A L : Counted(<<>>, L) = 0
    BY <2>2, SumOfNone, FS_EmptySet DEF Counted
  <2>4. Fits(<<>>, q, c, {})
    <3>1. \A k \in 1..Len(<<>>) : FALSE
      BY <2>2
    <3>2. \A k \in 1..(Len(<<>>) - 1) : FALSE
      BY <2>2
    <3>3. \A L : /\ Counted(<<>>, L) = Cardinality(Those(q, c, L, {}))
                 /\ Within(<<>>, L) # {} <=> Those(q, c, L, {}) # {}
      BY <2>2, <2>3
    <3>4. QED
      BY <2>2, <3>1, <3>2, <3>3, Zenon DEF Fits
  <2>5. QED
    BY <2>1, <2>4
<1>10. ASSUME NEW T \in SUBSET S, T # {}, T \ {pick[T]} \in X PROVE T \in X
  <2> DEFINE x == Max(T)
             U == T \ {x}
  <2>1. x \in T /\ pick[T] = x /\ (\A k \in T : k <= x) /\ (U # {} => Max(U) \in U)
    BY <1>2, <1>10
  <2>2. F[T] = Extend(F[U], q[x], c)
    BY <1>7, <1>10
  <2>3. Fits(F[U], q, c, U)
    BY <1>10, <2>1
  <2>4. Max(T) = x
    OBVIOUS
  <2> HIDE DEF x
  <2>5. Fits(Extend(F[U], q[x], c), q, c, T)
    BY <1>1, <2>1, <2>3, <2>4, ExtendFits
  <2>6. QED
    BY <2>2, <2>5
<1>11. Holds(X, pick, S)
  <2>1. \A T \in SUBSET S : T # {} /\ T \ {pick[T]} \in X => T \in X
    BY <1>10
  <2> HIDE DEF X, S
  <2>2. QED
    BY <1>9, <2>1 DEF Holds
<1>12. SUBSET S \subseteq X
  <2> HIDE DEF X, S
  <2>1. QED
    BY <1>1, <1>3, <1>11, InductionOnSubsets
<1>13. QED
  BY <1>1, <1>8, <1>12

\* As many snapshots as places where the timeline shows them.
LEMMA TimelineIs ==
  ASSUME SnapsSound, NEW c, NEW day
  PROVE  LET n == Cardinality(ListedOn(c, day))  q == Timeline(c, day) IN
         /\ n \in Nat /\ q \in [1..n -> ListedOn(c, day)] /\ Len(q) = n /\ IsFiniteSet(ListedOn(c, day))
         /\ InTime(q, c) /\ q \in [1..n -> ShownIn(c)]
         /\ \A i \in ListedOn(c, day) : \E k \in 1..n : q[k] = i
         /\ \A j, k \in 1..n : q[j] = q[k] => j = k
<1> DEFINE S == ListedOn(c, day)
           n == Cardinality(S)
           q == Timeline(c, day)
<1>1. S \in SUBSET DOMAIN snaps /\ S \subseteq ShownIn(c)
  BY DEF ListedOn, ShownIn
<1>2. IsFiniteSet(S)
  BY <1>1, SnapsAre, FS_Subset
<1>3. Ordered(q, S) /\ n \in Nat /\ \A i \in S : \E k \in 1..n : q[k] = i
  <2> HIDE DEF S
  <2> QED BY <1>1, Sorts DEF Timeline, S
<1>4. \A i \in S : snaps[i].time \in Nat /\ i \in Nat
  BY <1>1, SnapsAre
<1> HIDE DEF S, n, q
<1>5. q \in [1..n -> S] /\ \A j, k \in 1..n : j < k => Earlier(q[j], q[k])
  BY <1>3 DEF Ordered, n
<1>6. Len(q) = n
  BY <1>3, <1>5
<1>7. \A j, k \in 1..n : j < k => TimeOf(q[j]) <= TimeOf(q[k]) /\ q[j] # q[k]
  <2>1. ASSUME NEW j \in 1..n, NEW k \in 1..n, j < k PROVE TimeOf(q[j]) <= TimeOf(q[k]) /\ q[j] # q[k]
    <3>1. q[j] \in S /\ q[k] \in S /\ Earlier(q[j], q[k])
      BY <1>5, <2>1
    <3> DEFINE x == q[j]
               y == q[k]
    <3> HIDE DEF x, y
    <3>2. snaps[x].time \in Nat /\ snaps[y].time \in Nat /\ x \in Nat /\ y \in Nat /\ Earlier(x, y)
      BY <1>4, <3>1 DEF x, y
    <3>3. snaps[x].time <= snaps[y].time /\ x # y
      BY <3>2 DEF Earlier
    <3>4. QED
      BY <3>3 DEF TimeOf, x, y
  <2>2. QED
    BY <2>1
<1>8. \A j, k \in 1..n : q[j] = q[k] => j = k
  <2>1. ASSUME NEW j \in 1..n, NEW k \in 1..n, q[j] = q[k] PROVE j = k
    <3>1. ~(j < k) /\ ~(k < j)
      BY <1>7, <2>1
    <3>2. QED
      BY <3>1
  <2>2. QED
    BY <2>1
<1>9. DOMAIN q = 1..n /\ q \in [1..n -> ShownIn(c)]
  BY <1>1, <1>5
<1>10. InTime(q, c)
  BY <1>7, <1>9 DEF InTime
<1>11. QED
  BY <1>2, <1>3, <1>5, <1>6, <1>8, <1>9, <1>10 DEF S, n, q

LowSet(d, v)      == {m \in Qams : m # Unknown /\ m <= LowUpTo(d, v)}
LowAt(d, c, day)  == {i \in ListedOn(c, day) : QamOf(i, c) \in LowSet(d, DayVersion(c, day))}

LEMMA PeriodsAre ==
  ASSUME SnapsSound, NEW c, NEW day
  PROVE  /\ PeriodsInOrder(c, day)
         /\ \A d : /\ LowSamples(d, c, day) = Cardinality(LowAt(d, c, day)) /\ IsFiniteSet(LowAt(d, c, day))
                   /\ LowPeriods(d, c, day) # {} <=> LowAt(d, c, day) # {}
<1> DEFINE n  == Cardinality(ListedOn(c, day))
           q  == Timeline(c, day)
           ps == Periods(c, day)
<1>1. /\ n \in Nat /\ q \in [1..n -> ListedOn(c, day)] /\ IsFiniteSet(ListedOn(c, day))
      /\ InTime(q, c) /\ q \in [1..n -> ShownIn(c)]
      /\ \A i \in ListedOn(c, day) : \E k \in 1..n : q[k] = i
      /\ \A j, k \in 1..n : q[j] = q[k] => j = k
  BY TimelineIs
<1>2. Fits(ps, q, c, 1..n)
  <2> HIDE DEF n, q
  <2>1. Fits(PeriodsOf(q, c), q, c, 1..n)
    BY <1>1, PeriodsFit
  <2>2. QED
    BY <2>1 DEF Periods, q
<1> HIDE DEF n, q, ps
<1>3. ps \in Seq(Spans) /\ Len(ps) \in Nat /\ DOMAIN ps = 1..Len(ps) /\ \A k \in DOMAIN ps : ps[k].qam \in Qams
  <2>1. ps \in Seq(Spans)
    BY <1>2 DEF Fits
  <2>2. Len(ps) \in Nat /\ DOMAIN ps = 1..Len(ps) /\ \A k \in DOMAIN ps : ps[k] \in Spans
    BY <2>1
  <2>3. QED
    BY <2>1, <2>2 DEF Spans
<1>4. PeriodsInOrder(c, day)
  BY <1>2, <1>3 DEF PeriodsInOrder, Fits, ps
<1>5. ASSUME NEW d
      PROVE  /\ LowSamples(d, c, day) = Cardinality(LowAt(d, c, day)) /\ IsFiniteSet(LowAt(d, c, day))
             /\ LowPeriods(d, c, day) # {} <=> LowAt(d, c, day) # {}
  <2> DEFINE L == LowSet(d, DayVersion(c, day))
             A == Those(q, c, L, 1..n)
             B == LowAt(d, c, day)
             f == [j \in A |-> q[j]]
  <2>1. LowPeriods(d, c, day) = Within(ps, L)
    BY <1>3 DEF LowPeriods, Within, LowSet, ps
  <2>2. LowSamples(d, c, day) = Counted(ps, L)
    BY <2>1 DEF LowSamples, Counted, ps
  <2>3. Counted(ps, L) = Cardinality(A) /\ (Within(ps, L) # {} <=> A # {})
    BY <1>2 DEF Fits
  <2>4. IsFiniteSet(A)
    <3>1. A \in SUBSET (1..n)
      BY DEF Those
    <3>2. IsFiniteSet(1..n)
      BY <1>1, FS_Interval
    <3> HIDE DEF A
    <3>3. QED
      BY <3>1, <3>2, FS_Subset
  <2>5. f \in Bijection(A, B)
    <3>1. \A j \in A : q[j] \in B /\ j \in 1..n
      BY <1>1 DEF Those, LowAt
    <3>2. \A i \in B : \E j \in A : q[j] = i
      BY <1>1 DEF Those, LowAt
    <3> HIDE DEF A, B
    <3>3. f \in [A -> B] /\ \A j \in A : f[j] = q[j]
      BY <3>1
    <3> HIDE DEF f
    <3>4. IsInjective(f)
      BY <1>1, <3>1, <3>3 DEF IsInjective
    <3>5. f \in Injection(A, B)
      BY <3>3, <3>4 DEF Injection
    <3>6. f \in Surjection(A, B)
      BY <3>2, <3>3 DEF Surjection
    <3>7. QED
      BY <3>5, <3>6 DEF Bijection
  <2> HIDE DEF f
  <2>6. Cardinality(B) = Cardinality(A) /\ IsFiniteSet(B)
    <3>1. ExistsBijection(A, B)
      BY <2>5 DEF ExistsBijection
    <3> HIDE DEF A, B
    <3>2. QED
      BY <2>4, <3>1, FS_Bijection
  <2>7. A # {} <=> B # {}
    BY <2>4, <2>6, FS_EmptySet
  <2>8. QED
    BY <2>1, <2>2, <2>3, <2>6, <2>7
<1>6. QED
  BY <1>4, <1>5

LEMMA PairsAre ==
  ASSUME NEW S, IsFiniteSet(S), NEW c
  PROVE  IsFiniteSet({<<i, c>> : i \in S}) /\ Cardinality({<<i, c>> : i \in S}) = Cardinality(S)
<1> DEFINE A == {<<i, c>> : i \in S}
           f == [i \in S |-> <<i, c>>]
<1>1. f \in Injection(S, A) /\ f \in Surjection(S, A)
  BY DEF Injection, IsInjective, Surjection
<1>2. ExistsBijection(S, A)
  <2> HIDE DEF f
  <2> QED BY <1>1 DEF ExistsBijection, Bijection
<1>3. QED
  <2> HIDE DEF A
  <2>1. IsFiniteSet(A) /\ Cardinality(A) = Cardinality(S)
    BY <1>2, FS_Bijection
  <2>2. QED
    BY <2>1 DEF A

\* A day's observations, channel by channel.
LowOf(d, c, day) == {<<i, c>> : i \in LowAt(d, c, day)}

LEMMA SeenOfDay ==
  ASSUME SnapsSound, NEW day
  PROVE  /\ \A c \in Carriers : OfDay(c, day) = {o \in Seen({day}) : o[2] = c}
         /\ \A o \in Seen({day}) : o \in OfDay(o[2], day) /\ ListedOn(o[2], day) # {} /\ o[2] \in Carriers
         /\ \A c : \A o \in OfDay(c, day) : o[2] = c /\ o[1] \in ListedOn(c, day) /\ Report(o).qam = QamOf(o[1], c)
<1>1. \A o \in Seen({day}) : /\ o[1] \in DOMAIN snaps /\ o[2] \in DOMAIN snaps[o[1]].chans /\ snaps[o[1]].day = day
                            /\ o = <<o[1], o[2]>> /\ o[2] \in Carriers
  BY SnapsAre
<1>2. \A o \in Seen({day}) : o[1] \in ListedOn(o[2], day)
  BY <1>1 DEF ListedOn
<1>3. \A o \in Seen({day}) : o \in OfDay(o[2], day) /\ ListedOn(o[2], day) # {}
  BY <1>1, <1>2 DEF OfDay
<1>4. ASSUME NEW c \in Carriers, NEW o \in OfDay(c, day) PROVE o \in Seen({day}) /\ o[2] = c
  BY <1>4 DEF OfDay, ListedOn, Seen
<1>5. \A c \in Carriers : OfDay(c, day) = {o \in Seen({day}) : o[2] = c}
  BY <1>3, <1>4
<1>6. \A c : \A o \in OfDay(c, day) : o[2] = c /\ o[1] \in ListedOn(c, day) /\ Report(o).qam = QamOf(o[1], c)
  BY DEF OfDay, Report, QamOf
<1>7. QED
  BY <1>1, <1>3, <1>5, <1>6

LEMMA GroupsAre ==
  ASSUME SnapsSound, NEW day, KeptVersion(day), NEW v, NEW d
  PROVE  LET C == Drawn(v, day) IN
         /\ IsFiniteSet(C) /\ C \subseteq Carriers
         /\ VersionGroup(v, {day}) = Together([c \in C |-> OfDay(c, day)], C)
         /\ Parts([c \in C |-> OfDay(c, day)], C)
         /\ LowOnes(d, v, {day}) = Together([c \in C |-> LowOf(d, c, day)], C)
         /\ Parts([c \in C |-> LowOf(d, c, day)], C)
<1> DEFINE C == Drawn(v, day)
           A == [c \in C |-> OfDay(c, day)]
           B == [c \in C |-> LowOf(d, c, day)]
<1>1. IsFiniteSet(C) /\ C \in SUBSET Carriers
  <2>1. C \in SUBSET Carriers
    BY DEF Drawn
  <2> HIDE DEF C
  <2>2. QED
    BY <2>1, FS_Subset, ReportsAssumption
<1>2. \A c \in C : DayVersion(c, day) = v /\ c \in Carriers /\ ListedOn(c, day) # {}
  BY DEF Drawn
<1>3. \A o \in Seen({day}) : Report(o).version = DayVersion(o[2], day) /\ Report(o).qam \in Qams
  BY SnapsAre DEF KeptVersion, Reporting
<1>4. ASSUME NEW o \in VersionGroup(v, {day}) PROVE o[2] \in C /\ o \in OfDay(o[2], day)
  <2>1. o \in Seen({day}) /\ Report(o).version = v
    BY DEF VersionGroup
  <2>2. o[2] \in Carriers /\ ListedOn(o[2], day) # {} /\ o \in OfDay(o[2], day)
    BY <2>1, SeenOfDay
  <2>3. DayVersion(o[2], day) = v
    BY <1>3, <2>1
  <2>4. QED
    BY <2>2, <2>3 DEF Drawn
<1>5. ASSUME NEW c \in C, NEW o \in OfDay(c, day) PROVE o \in VersionGroup(v, {day}) /\ o[2] = c
  <2>1. o \in Seen({day}) /\ o[2] = c
    BY <1>2, SeenOfDay
  <2>2. QED
    BY <1>2, <1>3, <2>1 DEF VersionGroup
<1>6. VersionGroup(v, {day}) = Together(A, C)
  <2>1. \A c \in C : A[c] = OfDay(c, day)
    OBVIOUS
  <2> HIDE DEF A, C
  <2>2. ASSUME NEW o \in VersionGroup(v, {day}) PROVE \E c \in C : o \in A[c]
    BY <1>4, <2>1
  <2>3. ASSUME NEW c \in C, NEW o \in A[c] PROVE o \in VersionGroup(v, {day})
    BY <1>5, <2>1
  <2>4. QED
    BY <2>2, <2>3 DEF Together
<1>7. \A c \in C : IsFiniteSet(OfDay(c, day)) /\ IsFiniteSet(LowOf(d, c, day)) /\ LowOf(d, c, day) \subseteq OfDay(c, day)
  <2>1. ASSUME NEW c \in C
        PROVE  IsFiniteSet(OfDay(c, day)) /\ IsFiniteSet(LowOf(d, c, day)) /\ LowOf(d, c, day) \subseteq OfDay(c, day)
    <3>1. IsFiniteSet(ListedOn(c, day)) /\ IsFiniteSet(LowAt(d, c, day)) /\ LowAt(d, c, day) \subseteq ListedOn(c, day)
      <4>1. IsFiniteSet(ListedOn(c, day))
        BY TimelineIs
      <4>2. IsFiniteSet(LowAt(d, c, day))
        BY PeriodsAre
      <4>3. QED
        BY <4>1, <4>2 DEF LowAt
    <3>2. QED
      BY <3>1, PairsAre DEF OfDay, LowOf
  <2>2. QED
    BY <2>1
<1>8. Parts(A, C) /\ Parts(B, C)
  BY <1>5, <1>7 DEF Parts
<1>9. ASSUME NEW c \in C, NEW o \in OfDay(c, day)
      PROVE  o \in LowOnes(d, v, {day}) <=> o \in LowOf(d, c, day)
  <2>1. o \in VersionGroup(v, {day}) /\ Report(o).qam = QamOf(o[1], c) /\ o[1] \in ListedOn(c, day) /\ o = <<o[1], c>>
    <3>1. o \in VersionGroup(v, {day}) /\ o = <<o[1], c>>
      BY <1>5 DEF OfDay
    <3>2. Report(o).qam = QamOf(o[1], c) /\ o[1] \in ListedOn(c, day)
      BY SeenOfDay
    <3>3. QED
      BY <3>1, <3>2
  <2>2. Report(o).qam \in Qams
    BY <1>3, <2>1 DEF VersionGroup
  <2>3. o \in LowOnes(d, v, {day}) <=> QamOf(o[1], c) \in LowSet(d, v)
    BY <2>1, <2>2 DEF LowOnes, Numeric, LowSet
  <2>4. o \in LowOf(d, c, day) <=> QamOf(o[1], c) \in LowSet(d, v)
    <3>1. o \in LowOf(d, c, day) <=> o[1] \in LowAt(d, c, day)
      BY <2>1 DEF LowOf
    <3>2. QED
      BY <1>2, <2>1, <3>1 DEF LowAt
  <2>5. QED
    BY <2>3, <2>4
<1>10. LowOnes(d, v, {day}) = Together(B, C)
  <2>1. LowOnes(d, v, {day}) \subseteq VersionGroup(v, {day})
    BY DEF LowOnes, Numeric
  <2>2. QED
    BY <1>4, <1>7, <1>9, <2>1 DEF Together
<1>11. QED
  BY <1>1, <1>6, <1>8, <1>10

LEMMA OverviewFits ==
  ASSUME SnapsSound, NEW day, KeptVersion(day), NEW v, NEW d
  PROVE  OverviewIsTimelines(d, v, day)
<1> DEFINE C == Drawn(v, day)
           A == [c \in C |-> OfDay(c, day)]
           B == [c \in C |-> LowOf(d, c, day)]
           a == [c \in C |-> Len(Timeline(c, day))]
           b == [c \in C |-> LowSamples(d, c, day)]
<1>1. /\ IsFiniteSet(C) /\ C \subseteq Carriers
      /\ VersionGroup(v, {day}) = Together(A, C) /\ Parts(A, C)
      /\ LowOnes(d, v, {day}) = Together(B, C) /\ Parts(B, C)
  BY GroupsAre
<1>2. ASSUME NEW c \in C PROVE a[c] = Cardinality(A[c]) /\ b[c] = Cardinality(B[c])
  <2>1. Len(Timeline(c, day)) = Cardinality(ListedOn(c, day)) /\ IsFiniteSet(ListedOn(c, day))
    BY TimelineIs
  <2>2. LowSamples(d, c, day) = Cardinality(LowAt(d, c, day)) /\ IsFiniteSet(LowAt(d, c, day))
    BY PeriodsAre
  <2>3. QED
    BY <2>1, <2>2, PairsAre DEF OfDay, LowOf
<1>3. \A c \in C : (B[c] # {} <=> LowPeriods(d, c, day) # {}) /\ \A o \in B[c] : o[2] = c
  <2>1. ASSUME NEW c \in C PROVE (B[c] # {} <=> LowPeriods(d, c, day) # {}) /\ \A o \in B[c] : o[2] = c
    <3>1. LowPeriods(d, c, day) # {} <=> LowAt(d, c, day) # {}
      BY PeriodsAre
    <3>2. B[c] = LowOf(d, c, day)
      OBVIOUS
    <3> HIDE DEF B, C
    <3> DEFINE I == LowAt(d, c, day)
    <3>3. B[c] = {<<i, c>> : i \in I}
      BY <3>2 DEF LowOf
    <3> HIDE DEF I
    <3>4. (B[c] # {} <=> I # {}) /\ \A o \in B[c] : o[2] = c
      <4>1. \A i \in I : <<i, c>> \in B[c]
        BY <3>3
      <4>2. \A o \in B[c] : \E i \in I : o = <<i, c>>
        BY <3>3
      <4>3. \A o \in B[c] : o[2] = c
        BY <4>2
      <4>4. ASSUME I # {} PROVE B[c] # {}
        BY <4>1, <4>4
      <4>5. ASSUME B[c] # {} PROVE I # {}
        <5>1. PICK o \in B[c] : TRUE
          BY <4>5
        <5>2. QED
          BY <4>2, <5>1
      <4>6. QED
        BY <4>3, <4>4, <4>5
    <3>5. QED
      BY <3>1, <3>4 DEF I
  <2>2. QED
    BY <2>1
<1> HIDE DEF A, B, C, a, b
<1>4. Cardinality(VersionGroup(v, {day})) = SumOver(a, C) /\ Cardinality(LowOnes(d, v, {day})) = SumOver(b, C)
  BY <1>1, <1>2, CountOfParts
<1>5. Degraded(d, v, {day}) = {c \in C : LowPeriods(d, c, day) # {}}
  <2>1. \A o : o \in LowOnes(d, v, {day}) <=> \E c \in C : o \in B[c]
    BY <1>1 DEF Together
  <2>2. \A c : c \in Degraded(d, v, {day}) <=> \E o \in LowOnes(d, v, {day}) : c = o[2]
    BY DEF Degraded
  <2>3. \A c : c \in Degraded(d, v, {day}) <=> c \in C /\ B[c] # {}
    BY <1>3, <2>1, <2>2
  <2>4. QED
    BY <1>3, <2>3
<1>6. QED
  BY <1>4, <1>5 DEF OverviewIsTimelines, a, b, C

LEMMA TrendFits ==
  ASSUME SnapsSound, NEW day
  PROVE  /\ TrendSamples(day) = Cardinality(Seen({day}))
         /\ KeptVersion(day) => \A d :
              LET drawn == UNION {Drawn(v, day) : v \in Versions} IN
              TrendLow(d, day) = SumOver([c \in drawn |-> LowSamples(d, c, day)], drawn)
<1>1. IsFiniteSet(Versions)
  <2>1. Versions = {"3.0"} \cup {"3.1"}
    BY DEF Versions
  <2>2. IsFiniteSet({"3.0"})
    BY FS_Singleton
  <2>3. QED
    BY <2>1, <2>2, FS_AddElement
<1>2. TrendSamples(day) = Cardinality(Seen({day}))
  <2> DEFINE A == [v \in Versions |-> VersionGroup(v, {day})]
             h == [v \in Versions |-> Cardinality(VersionGroup(v, {day}))]
  <2>1. IsFiniteSet(Seen({day})) /\ \A o \in Seen({day}) : Report(o).version \in Versions
    BY SnapsAre DEF Reporting
  <2>2. \A v \in Versions : A[v] = {o \in Seen({day}) : Report(o).version = v} /\ h[v] = Cardinality(A[v])
    BY DEF VersionGroup
  <2> HIDE DEF A, h
  <2>3. \A v \in Versions : IsFiniteSet(A[v])
    <3>1. \A v \in Versions : A[v] \in SUBSET Seen({day})
      BY <2>2
    <3>2. QED
      BY <2>1, <3>1, FS_Subset
  <2>4. Parts(A, Versions)
    BY <2>2, <2>3 DEF Parts
  <2>5. Together(A, Versions) = Seen({day})
    <3>1. \A o \in Seen({day}) : o \in A[Report(o).version]
      BY <2>1, <2>2
    <3>2. \A v \in Versions : A[v] \subseteq Seen({day})
      BY <2>2
    <3>3. QED
      BY <2>1, <3>1, <3>2 DEF Together
  <2>6. Cardinality(Together(A, Versions)) = SumOver(h, Versions)
    BY <1>1, <2>2, <2>4, CountOfParts
  <2>7. QED
    BY <2>5, <2>6 DEF TrendSamples, h
<1>3. ASSUME KeptVersion(day), NEW d
      PROVE  LET drawn == UNION {Drawn(v, day) : v \in Versions} IN
             TrendLow(d, day) = SumOver([c \in drawn |-> LowSamples(d, c, day)], drawn)
  <2> DEFINE drawn == UNION {Drawn(v, day) : v \in Versions}
             A == [v \in Versions |-> Drawn(v, day)]
             f == [c \in drawn |-> LowSamples(d, c, day)]
             h == [v \in Versions |-> Cardinality(LowOnes(d, v, {day}))]
  <2>1. Together(A, Versions) = drawn
    BY DEF Together
  <2>2. \A c : LowSamples(d, c, day) \in Int
    <3>1. ASSUME NEW c PROVE LowSamples(d, c, day) \in Int
      <4>1. LowSamples(d, c, day) = Cardinality(LowAt(d, c, day)) /\ IsFiniteSet(LowAt(d, c, day))
        BY PeriodsAre
      <4>2. QED
        BY <4>1, FS_CardinalityType
    <3>2. QED
      BY <3>1
  <2>3. ASSUME NEW v \in Versions
        PROVE  IsFiniteSet(A[v]) /\ h[v] = SumOver(f, A[v]) /\ A[v] = Drawn(v, day)
    <3> DEFINE g == [c \in Drawn(v, day) |-> LowSamples(d, c, day)]
    <3>1. Cardinality(LowOnes(d, v, {day})) = SumOver(g, Drawn(v, day))
      BY <1>3, OverviewFits DEF OverviewIsTimelines
    <3>2. IsFiniteSet(Drawn(v, day))
      BY <1>3, GroupsAre
    <3>3. Whole(g, Drawn(v, day)) /\ \A c \in Drawn(v, day) : f[c] = g[c]
      BY <2>2 DEF Whole
    <3> HIDE DEF f, g
    <3>4. SumOver(f, Drawn(v, day)) = SumOver(g, Drawn(v, day))
      BY <3>2, <3>3, SumsAreSame
    <3>5. QED
      BY <3>1, <3>2, <3>4
  <2>4. \A v, w \in Versions : v # w => A[v] \cap A[w] = {}
    BY DEF Drawn
  <2>5. Whole(f, drawn)
    BY <2>2 DEF Whole
  <2> HIDE DEF A, f, h, drawn
  <2>6. Parts(A, Versions)
    BY <2>3, <2>4 DEF Parts
  <2>7. SumOver(f, Together(A, Versions)) = SumOver(h, Versions)
    BY <1>1, <2>1, <2>3, <2>5, <2>6, SumOfParts
  <2>8. QED
    BY <2>1, <2>7 DEF TrendLow, h, f, drawn
<1>4. QED
  BY <1>2, <1>3

LEMMA OrdersAre ==
  /\ \A b \in 2..12 : Orders[b] \in Nat /\ Orders[b] >= 4 /\ (Orders[b] <= 4 => b = 2)
  /\ \A a, b \in 2..12 : Orders[a] <= Orders[b] => a <= b
<1>1. /\ Orders[2] = 4 /\ Orders[3] = 8 /\ Orders[4] = 16 /\ Orders[5] = 32 /\ Orders[6] = 64 /\ Orders[7] = 128
      /\ Orders[8] = 256 /\ Orders[9] = 512 /\ Orders[10] = 1024 /\ Orders[11] = 2048 /\ Orders[12] = 4096
  BY DEF Orders
<1>2. \A b \in 2..12 : b \in {2, 3, 4, 5, 6, 7, 8, 9, 10, 11, 12}
  OBVIOUS
<1>3. \A b \in 2..12 : Orders[b] \in Nat /\ Orders[b] >= 4 /\ (Orders[b] <= 4 => b = 2)
  BY <1>1, <1>2
<1>4. \A b \in 2..11 : Orders[b] < Orders[b + 1]
  <2>1. \A b \in 2..11 : b \in {2, 3, 4, 5, 6, 7, 8, 9, 10, 11}
    OBVIOUS
  <2>2. QED
    BY <1>1, <2>1
<1>5. ASSUME NEW a \in 2..12, NEW b \in 2..12, b < a PROVE Orders[b] < Orders[a]
  BY <1>1, <1>2, <1>5
<1>6. \A a, b \in 2..12 : Orders[a] <= Orders[b] => a <= b
  <2>1. ASSUME NEW a \in 2..12, NEW b \in 2..12, Orders[a] <= Orders[b], ~(a <= b) PROVE FALSE
    <3>1. Orders[b] < Orders[a]
      BY <1>5, <2>1
    <3>2. Orders[a] \in Nat /\ Orders[b] \in Nat
      BY <1>3
    <3>3. QED
      BY <2>1, <3>1, <3>2
  <2>2. QED
    BY <2>1
<1>7. QED
  BY <1>3, <1>6

\* How many bits an order has.
LEMMA BitsAre ==
  /\ \A m \in Qams \ {Unknown} : /\ m \in Nat /\ m >= 4 /\ Bits(m) \in 2..12 /\ Orders[Bits(m)] = m
                                 /\ (m <= 4 => Bits(m) = 2)
  /\ \A m, r \in Qams \ {Unknown} : m <= r => Bits(m) <= Bits(r)
<1>1. ASSUME NEW m \in Qams \ {Unknown} PROVE Bits(m) \in 2..12 /\ Orders[Bits(m)] = m
  <2>1. \E b \in 2..12 : Orders[b] = m
    BY DEF Qams
  <2>2. QED
    BY <2>1 DEF Bits
<1>2. QED
  BY <1>1, OrdersAre

\* The score of an order against the best of its channel, and against a better one.
LEMMA ScoresAre ==
  ASSUME NEW m \in Qams \ {Unknown}, NEW best \in Qams \ {Unknown}, NEW top \in Qams \ {Unknown},
         m <= best, best <= top
  PROVE  /\ QamScore(m, best) \in Int /\ QamScore(m, top) \in Int
         /\ QamScore(m, top) <= QamScore(m, best)
<1> DEFINE k == Bits(m) - 2
           b == Bits(best) - 2
           t == Bits(top) - 2
<1>1. /\ k \in 0..10 /\ b \in 0..10 /\ t \in 0..10 /\ k <= b /\ b <= t /\ best \in Nat /\ top \in Nat
      /\ best >= 4 /\ top >= 4
  <2>1. Bits(m) \in 2..12 /\ Bits(best) \in 2..12 /\ Bits(top) \in 2..12 /\ best \in Nat /\ top \in Nat
        /\ best >= 4 /\ top >= 4
    BY BitsAre
  <2>2. Bits(m) <= Bits(best) /\ Bits(best) <= Bits(top)
    BY BitsAre
  <2>3. QED
    BY <2>1, <2>2
<1>2. (best <= 4 <=> b = 0) /\ (top <= 4 <=> t = 0)
  <2>1. Orders[2] = 4
    BY DEF Orders
  <2>2. Orders[Bits(best)] = best /\ Orders[Bits(top)] = top /\ (best <= 4 => Bits(best) = 2) /\ (top <= 4 => Bits(top) = 2)
    BY BitsAre
  <2>3. Bits(best) \in 2..12 /\ Bits(top) \in 2..12
    BY BitsAre
  <2>4. QED
    BY <1>1, <2>1, <2>2, <2>3
<1> DEFINE score(n) == IF n = 0 THEN 12000 ELSE (12000 * k) \div n
<1>3. QamScore(m, best) = score(b) /\ QamScore(m, top) = score(t)
  <2>1. 100 * Scale = 12000
    BY DEF Scale
  <2>2. QED
    BY <1>2, <2>1 DEF QamScore
<1> HIDE DEF k, b, t
<1>4. \A n \in 1..10 : (12000 * k) \div n \in Int /\ (k <= n => (12000 * k) \div n <= 12000)
  <2>1. ASSUME NEW n \in 1..10 PROVE (12000 * k) \div n \in Int /\ (k <= n => (12000 * k) \div n <= 12000)
    <3>1. 12000 * k \in Int /\ n \in Nat \ {0} /\ 12000 \in Int
      BY <1>1
    <3>2. (12000 * k) \div n \in Int /\ ((12000 * k) \div n <= 12000 <=> 12000 * k < (12000 + 1) * n)
      BY <3>1, QuotientIs
    <3>3. QED
      BY <1>1, <3>1, <3>2
  <2>2. QED
    BY <2>1
<1>5. CASE b # 0 /\ t # 0
  <2>1. b \in 1..10 /\ t \in 1..10 /\ 12000 * k \in Int
    BY <1>1, <1>5
  <2> DEFINE q == (12000 * k) \div b
  <2>2. q \in Int /\ 12000 * k < (q + 1) * b
    BY <2>1, QuotientIs
  <2>3. q >= 0
    <3>1. 0 * b <= 12000 * k /\ 0 \in Int
      BY <1>1, <2>1
    <3>2. QED
      BY <2>1, <3>1, QuotientIs
  <2> HIDE DEF q
  <2>4. (q + 1) * b <= (q + 1) * t
    BY <1>1, <2>1, <2>2, <2>3
  <2>5. 12000 * k < (q + 1) * t
    <3>1. (q + 1) * b \in Int /\ (q + 1) * t \in Int
      BY <2>1, <2>2
    <3>2. QED
      BY <2>1, <2>2, <2>4, <3>1
  <2>6. (12000 * k) \div t <= q
    BY <2>1, <2>2, <2>5, QuotientIs
  <2>7. QED
    BY <1>3, <1>4, <1>5, <2>1, <2>6 DEF q
<1>6. CASE b = 0 \/ t = 0
  <2>1. b = 0 /\ k = 0
    BY <1>1, <1>6
  <2>2. t # 0 => t \in 1..10 /\ k <= t
    BY <1>1
  <2>3. QED
    BY <1>3, <1>4, <2>1, <2>2
<1>7. QED
  BY <1>5, <1>6

\* Of channels with a number, the day's numbers are theirs.
LEMMA NumbersAre ==
  ASSUME SnapsSound, NEW day, KeptVersion(day), NEW v
  PROVE  LET C == Indexed(v, day)  A == [c \in C |-> Numeric(OfDay(c, day))] IN
         /\ IsFiniteSet(C) /\ C \subseteq Drawn(v, day) /\ C \subseteq Carriers
         /\ Numeric(VersionGroup(v, {day})) = Together(A, C) /\ Parts(A, C)
         /\ \A c \in C : /\ A[c] # {} /\ IsFiniteSet(A[c]) /\ A[c] \subseteq Numeric(VersionGroup(v, {day}))
                         /\ A[c] \subseteq OfDay(c, day) /\ DayVersion(c, day) = v
                         /\ \A o \in A[c] : o[2] = c /\ Report(o).qam \in Qams \ {Unknown}
<1> DEFINE D == Drawn(v, day)
           B == [c \in D |-> OfDay(c, day)]
           C == Indexed(v, day)
           A == [c \in C |-> Numeric(OfDay(c, day))]
           G == VersionGroup(v, {day})
<1>1. IsFiniteSet(D) /\ D \subseteq Carriers /\ G = Together(B, D) /\ Parts(B, D)
  BY GroupsAre
<1>2. C \in SUBSET D
  BY DEF Indexed
<1>3. IsFiniteSet(C) /\ C \subseteq Carriers
  <2> HIDE DEF C, D
  <2> QED BY <1>1, <1>2, FS_Subset
<1>4. \A o \in G : Report(o).qam \in Qams
  BY SnapsAre DEF VersionGroup, Reporting
<1>5. ASSUME NEW c \in D
      PROVE  /\ Numeric(OfDay(c, day)) \in SUBSET OfDay(c, day) /\ Numeric(OfDay(c, day)) \in SUBSET Numeric(G)
             /\ IsFiniteSet(OfDay(c, day)) /\ IsFiniteSet(Numeric(OfDay(c, day)))
  <2>1. OfDay(c, day) \subseteq G /\ IsFiniteSet(OfDay(c, day))
    BY <1>1 DEF Together, Parts
  <2>2. Numeric(OfDay(c, day)) \in SUBSET OfDay(c, day) /\ Numeric(OfDay(c, day)) \in SUBSET Numeric(G)
    BY <2>1 DEF Numeric
  <2>3. QED
    BY <2>1, <2>2, FS_Subset
<1>6. ASSUME NEW c \in C
      PROVE  /\ A[c] # {} /\ IsFiniteSet(A[c]) /\ A[c] \subseteq Numeric(G)
             /\ A[c] \subseteq OfDay(c, day) /\ DayVersion(c, day) = v
             /\ \A o \in A[c] : o[2] = c /\ Report(o).qam \in Qams \ {Unknown}
  <2>1. c \in D /\ A[c] = Numeric(OfDay(c, day)) /\ A[c] # {} /\ DayVersion(c, day) = v
    BY <1>2 DEF Indexed, Drawn
  <2>2. /\ IsFiniteSet(A[c]) /\ A[c] \subseteq Numeric(G) /\ A[c] \subseteq OfDay(c, day)
    BY <1>5, <2>1
  <2>3. \A o \in A[c] : o[2] = c
    BY <2>2, SeenOfDay
  <2>4. \A o \in A[c] : Report(o).qam \in Qams \ {Unknown}
    BY <1>4, <2>2 DEF Numeric
  <2>5. QED
    BY <2>1, <2>2, <2>3, <2>4
<1>7. Parts(A, C)
  <2> HIDE DEF A, C
  <2>1. \A c \in C : IsFiniteSet(A[c]) /\ \A o \in A[c] : o[2] = c
    BY <1>6
  <2>2. QED
    BY <2>1 DEF Parts
<1>8. ASSUME NEW o \in Numeric(G) PROVE \E c \in C : o \in A[c]
  <2>1. o \in G /\ Report(o).qam # Unknown
    BY DEF Numeric
  <2>2. PICK c \in D : o \in OfDay(c, day)
    BY <1>1, <2>1 DEF Together
  <2>3. o \in Numeric(OfDay(c, day))
    BY <2>1, <2>2 DEF Numeric
  <2>4. c \in C
    BY <2>3 DEF Indexed
  <2>5. QED
    BY <2>3, <2>4
<1>9. Numeric(G) = Together(A, C)
  <2> HIDE DEF A, C, G
  <2> QED BY <1>6, <1>8 DEF Together
<1>10. QED
  BY <1>2, <1>3, <1>6, <1>7, <1>9

LEMMA BestIs ==
  ASSUME SnapsSound, NEW D, NEW O \in SUBSET Seen(D), Numeric(O) # {}
  PROVE  /\ Best(O) \in Qams \ {Unknown}
         /\ \A o \in Numeric(O) : Report(o).qam \in Qams \ {Unknown} /\ Report(o).qam <= Best(O)
         /\ \E o \in Numeric(O) : Best(O) = Report(o).qam
<1> DEFINE N == Numeric(O)
           Q == {Report(o).qam : o \in N}
           f == [o \in N |-> Report(o).qam]
<1>1. IsFiniteSet(Seen(D)) /\ \A o \in Seen(D) : Report(o).qam \in Qams
  BY SnapsAre DEF Reporting
<1>2. IsFiniteSet(N) /\ \A o \in N : Report(o).qam \in Qams \ {Unknown}
  <2>1. N \in SUBSET Seen(D) /\ \A o \in N : Report(o).qam \in Qams \ {Unknown}
    BY <1>1 DEF Numeric
  <2> HIDE DEF N
  <2>2. QED
    BY <1>1, <2>1, FS_Subset
<1>3. IsFiniteSet(Q)
  <2> HIDE DEF N
  <2>1. f \in Surjection(N, Q)
    BY DEF Surjection
  <2>2. QED
    BY <1>2, <2>1, FS_Surjection
<1>4. Q # {} /\ \A m \in Q : m \in Qams \ {Unknown}
  BY <1>2
<1>5. \A m \in Q : m \in Nat /\ m >= 4
  BY <1>4, BitsAre
<1> HIDE DEF Q
<1> DEFINE R == {0} \cup Q
<1>6. IsFiniteSet(R) /\ R # {} /\ \A m \in R : m \in Int
  <2>1. IsFiniteSet(Q \cup {0})
    BY <1>3, FS_AddElement
  <2>2. Q \cup {0} = R
    OBVIOUS
  <2>3. QED
    BY <1>5, <2>1, <2>2
<1>7. Max(R) \in R /\ \A m \in R : m <= Max(R)
  <2> HIDE DEF R
  <2> QED BY <1>6, Extremes
<1>8. Max(R) \in Q
  <2>1. PICK m \in Q : TRUE
    BY <1>4
  <2>2. m <= Max(R) /\ m \in Nat /\ m >= 4
    BY <1>5, <1>7, <2>1
  <2>3. Max(R) # 0
    BY <2>2
  <2>4. QED
    BY <1>7, <2>3
<1>9. Best(O) = Max(R)
  BY DEF Best, Q
<1>10. \A o \in N : Report(o).qam \in Q
  BY DEF Q
<1>11. \E o \in N : Best(O) = Report(o).qam
  BY <1>8, <1>9 DEF Q
<1>12. QED
  BY <1>2, <1>4, <1>7, <1>8, <1>9, <1>10, <1>11

LEMMA Bounded ==
  ASSUME NEW a \in Int, NEW b \in Int, NEW n \in Nat \ {0}, a <= b
  PROVE  a \div n <= b \div n
<1>1. b \div n \in Int /\ b < (b \div n + 1) * n
  BY QuotientIs
<1> DEFINE q == b \div n
<1>2. q \in Int /\ a < (q + 1) * n
  <2>1. (q + 1) * n \in Int
    BY <1>1
  <2>2. QED
    BY <1>1, <2>1
<1> HIDE DEF q
<1>3. a \div n <= q
  BY <1>2, QuotientIs
<1>4. QED
  BY <1>3 DEF q

\* Downstream: every observation of a day scores no more against the range's best.
LEMMA IndexDownFits ==
  ASSUME SnapsSound, NEW day \in Days, KeptVersion(day), NEW v
  PROVE  IndexIsOfChannels("ds", v, day)
<1> DEFINE C    == Indexed(v, day)
           A    == [c \in C |-> Numeric(OfDay(c, day))]
           G    == VersionGroup(v, {day})
           N    == Numeric(G)
           base == [c \in Carriers |-> RangeBaseline(v, c)]
           s    == [o \in N |-> QamScore(Report(o).qam, base[o[2]])]
           own(c) == [k \in {c} |-> Best(OfDay(c, day))]
           t(c) == [o \in A[c] |-> QamScore(Report(o).qam, own(c)[o[2]])]
           h    == [c \in C |-> SumOver(s, A[c])]
           f    == [c \in C |-> SumOver(t(c), A[c])]
           n    == [c \in C |-> Cardinality(A[c])]
           theirs == {ChannelIndex("ds", c, day) : c \in C}
<1>1. SUFFICES ASSUME C # {} PROVE DayIndex("ds", v, day) <= Max(theirs)
  BY DEF IndexIsOfChannels
<1>2. /\ IsFiniteSet(C) /\ C \subseteq Drawn(v, day) /\ C \subseteq Carriers
      /\ N = Together(A, C) /\ Parts(A, C)
      /\ \A c \in C : /\ A[c] # {} /\ IsFiniteSet(A[c]) /\ A[c] \subseteq N
                      /\ A[c] \subseteq OfDay(c, day) /\ DayVersion(c, day) = v
                      /\ \A o \in A[c] : o[2] = c /\ Report(o).qam \in Qams \ {Unknown}
  BY NumbersAre
<1>3. ASSUME NEW c \in C, NEW o \in A[c]
      PROVE  /\ s[o] \in Int /\ t(c)[o] \in Int /\ s[o] <= t(c)[o]
  <2> DEFINE O == OfDay(c, day)
             R == {x \in VersionGroup(v, Days) : x[2] = c}
  <2>1. o \in N /\ o[2] = c /\ c \in Carriers /\ Report(o).qam \in Qams \ {Unknown}
    BY <1>2
  <2>2. s[o] = QamScore(Report(o).qam, Best(R)) /\ t(c)[o] = QamScore(Report(o).qam, Best(O))
    BY <2>1 DEF RangeBaseline
  <2>3. O \in SUBSET Seen({day}) /\ R \in SUBSET Seen(Days)
    BY <2>1, SeenOfDay DEF VersionGroup
  <2>4. o \in Numeric(O)
    OBVIOUS
  <2>5. O \subseteq R
    <3>1. \A x \in O : x \in Seen({day}) /\ x[2] = c
      BY <2>1, SeenOfDay
    <3>2. \A x \in Seen({day}) : x \in Seen(Days)
      BY DEF Seen
    <3>3. \A x \in Seen({day}) : Report(x).version = DayVersion(x[2], day)
      BY DEF KeptVersion
    <3>4. DayVersion(c, day) = v
      BY <1>2
    <3>5. QED
      BY <3>1, <3>2, <3>3, <3>4 DEF VersionGroup
  <2>6. Numeric(O) \subseteq Numeric(R) /\ Numeric(O) # {} /\ Numeric(R) # {}
    BY <2>4, <2>5 DEF Numeric
  <2> HIDE DEF O, R, s, t, A
  <2>7. Best(O) \in Qams \ {Unknown} /\ \A x \in Numeric(O) : Report(x).qam <= Best(O)
    BY <2>3, <2>6, BestIs
  <2>8. /\ Best(R) \in Qams \ {Unknown}
        /\ \A x \in Numeric(R) : Report(x).qam \in Qams \ {Unknown} /\ Report(x).qam <= Best(R)
    BY <2>3, <2>6, BestIs
  <2>9. Best(O) <= Best(R)
    <3>1. PICK x \in Numeric(O) : Best(O) = Report(x).qam
      BY <2>3, <2>6, BestIs
    <3>2. QED
      BY <2>6, <2>8, <3>1
  <2>10. Report(o).qam <= Best(O)
    BY <2>4, <2>7
  <2>11. QED
    BY <2>1, <2>2, <2>7, <2>8, <2>9, <2>10, ScoresAre
<1>4. \A c \in C : ChannelIndex("ds", c, day) = f[c] \div n[c]
  BY DEF ChannelIndex, BaselineIndex
<1>5. DayIndex("ds", v, day) = SumOver(s, N) \div Cardinality(N)
  BY DEF DayIndex, BaselineIndex
<1> HIDE DEF A, s, t, N
<1>6. \A c \in C : /\ Whole(s, A[c]) /\ Whole(t(c), A[c]) /\ h[c] = SumOver(s, A[c]) /\ f[c] = SumOver(t(c), A[c])
                   /\ n[c] = Cardinality(A[c])
  BY <1>3 DEF Whole
<1> HIDE DEF h, f, n
<1>7. ASSUME NEW c \in C PROVE h[c] \in Int /\ f[c] \in Int /\ h[c] <= f[c] /\ n[c] \in Nat \ {0}
  <2>1. IsFiniteSet(A[c]) /\ A[c] # {}
    BY <1>2
  <2>2. n[c] \in Nat /\ n[c] # 0
    BY <1>6, <2>1, FS_CardinalityType, FS_EmptySet
  <2>3. Whole(s, A[c]) /\ Whole(t(c), A[c]) /\ \A o \in A[c] : s[o] <= t(c)[o]
    BY <1>3, <1>6
  <2> DEFINE u == t(c)
  <2> HIDE DEF u
  <2>4. SumOver(s, A[c]) \in Int /\ SumOver(u, A[c]) \in Int /\ SumOver(s, A[c]) <= SumOver(u, A[c])
    BY <2>1, <2>3, SumAtMost DEF u
  <2>5. QED
    BY <1>6, <2>2, <2>4 DEF u
<1>8. SumOver(s, N) = SumOver(h, C)
  <2>1. Whole(s, Together(A, C))
    BY <1>6 DEF Whole, Together
  <2>2. QED
    BY <1>2, <1>6, <2>1, SumOfParts
<1>9. Cardinality(N) = SumOver(n, C)
  BY <1>2, <1>6, CountOfParts
<1>10. Max(theirs) \in Int /\ \A c \in C : f[c] \div n[c] <= Max(theirs)
  <2> DEFINE g == [c \in C |-> ChannelIndex("ds", c, day)]
  <2>1. IsFiniteSet(theirs)
    <3>1. g \in Surjection(C, theirs)
      BY DEF Surjection
    <3> HIDE DEF C, g, theirs
    <3>2. QED
      BY <1>2, <3>1, FS_Surjection
  <2>2. \A c \in C : f[c] \div n[c] \in Int
    BY <1>7, QuotientIs
  <2>3. theirs # {} /\ (\A m \in theirs : m \in Int) /\ \A c \in C : f[c] \div n[c] \in theirs
    BY <1>1, <1>4, <2>2
  <2> HIDE DEF theirs
  <2>4. Max(theirs) \in theirs /\ \A m \in theirs : m <= Max(theirs)
    BY <2>1, <2>3, Extremes
  <2>5. QED
    BY <2>3, <2>4
<1>11. ASSUME NEW c \in C PROVE h[c] \div n[c] <= Max(theirs)
  <2>1. h[c] \div n[c] <= f[c] \div n[c] /\ h[c] \div n[c] \in Int /\ f[c] \div n[c] \in Int
    BY <1>7, Bounded, QuotientIs
  <2> HIDE DEF theirs
  <2>2. QED
    BY <1>10, <2>1
<1>12. SumOver(h, C) \div SumOver(n, C) <= Max(theirs)
  <2> HIDE DEF theirs, C
  <2>1. Whole(h, C)
    BY <1>7 DEF Whole
  <2>2. QED
    BY <1>1, <1>2, <1>7, <1>10, <1>11, <2>1, MeanOfParts
<1>13. QED
  BY <1>5, <1>8, <1>9, <1>12

Held(x) == Max({0, Min({100 * Scale, x})})

LEMMA HeldIs ==
  \A x \in Int : Held(x) = IF x < 0 THEN 0 ELSE IF x > 12000 THEN 12000 ELSE x
<1>1. 100 * Scale = 12000
  BY DEF Scale
<1>2. ASSUME NEW x \in Int PROVE Held(x) = IF x < 0 THEN 0 ELSE IF x > 12000 THEN 12000 ELSE x
  <2> DEFINE S == {12000, x}
             y == Min(S)
             T == {0, y}
  <2>1. y = IF x > 12000 THEN 12000 ELSE x
    BY DEF Min
  <2>2. y \in Int
    BY <2>1
  <2>3. Held(x) = Max(T)
    BY <1>1 DEF Held
  <2> HIDE DEF y
  <2>4. Max(T) = IF y < 0 THEN 0 ELSE y
    BY <2>2 DEF Max
  <2>5. QED
    BY <2>1, <2>3, <2>4
<1>3. QED
  BY <1>2

LEMMA HeldInside ==
  /\ \A x \in Int : Held(x) \in Int /\ 0 <= Held(x) /\ Held(x) <= 12000
  /\ \A x, y \in Int :
       /\ y < 12000 /\ Held(x) <= y => x <= y
       /\ 0 < y /\ y <= Held(x) => y <= x
       /\ 0 <= y /\ x <= y => Held(x) <= y
       /\ y <= 12000 /\ y <= x => y <= Held(x)
<1>1. ASSUME NEW x \in Int PROVE Held(x) \in Int /\ 0 <= Held(x) /\ Held(x) <= 12000
  <2> DEFINE z == Held(x)
  <2>1. z = IF x < 0 THEN 0 ELSE IF x > 12000 THEN 12000 ELSE x
    BY HeldIs
  <2> HIDE DEF z
  <2>2. z \in Int /\ 0 <= z /\ z <= 12000
    BY <2>1
  <2>3. QED
    BY <2>2 DEF z
<1>2. ASSUME NEW x \in Int, NEW y \in Int
      PROVE  /\ y < 12000 /\ Held(x) <= y => x <= y
             /\ 0 < y /\ y <= Held(x) => y <= x
             /\ 0 <= y /\ x <= y => Held(x) <= y
             /\ y <= 12000 /\ y <= x => y <= Held(x)
  <2> DEFINE z == Held(x)
  <2>1. z = IF x < 0 THEN 0 ELSE IF x > 12000 THEN 12000 ELSE x
    BY HeldIs
  <2> HIDE DEF z
  <2>2. /\ y < 12000 /\ z <= y => x <= y
        /\ 0 < y /\ y <= z => y <= x
        /\ 0 <= y /\ x <= y => z <= y
        /\ y <= 12000 /\ y <= x => y <= z
    BY <2>1
  <2>3. QED
    BY <2>2 DEF z
<1>3. QED
  BY <1>1, <1>2

LEMMA GroupIs ==
  ASSUME NEW O, NEW d, NEW v
  PROVE  GroupIndex(O, d, v)
           = Held((12000 * (SumOver([o \in Numeric(O) |-> Bits(Report(o).qam)], Numeric(O)) - 2 * Cardinality(Numeric(O))))
                  \div (Cardinality(Numeric(O)) * (MaxBits(d, v) - 2)))
<1> DEFINE n == Cardinality(Numeric(O))
           y == SumOver([o \in Numeric(O) |-> Bits(Report(o).qam)], Numeric(O)) - 2 * n
           z == n * (MaxBits(d, v) - 2)
<1>1. GroupIndex(O, d, v) = Held((100 * Scale * y) \div z)
  BY DEF GroupIndex, Held
<1>2. 100 * Scale = 12000
  BY DEF Scale
<1> HIDE DEF y, z
<1>3. 100 * Scale * y = 12000 * y
  BY <1>2
<1>4. GroupIndex(O, d, v) = Held((12000 * y) \div z)
  BY <1>1, <1>3
<1>5. QED
  BY <1>4 DEF y, z

\* Upstream: a mean of bits, held between 0 and 100.
LEMMA IndexUpFits ==
  ASSUME SnapsSound, NEW day, KeptVersion(day), NEW v \in Versions
  PROVE  IndexIsOfChannels("us", v, day)
<1> DEFINE C    == Indexed(v, day)
           A    == [c \in C |-> Numeric(OfDay(c, day))]
           N    == Numeric(VersionGroup(v, {day}))
           K    == MaxBits("us", v) - 2
           s    == [o \in N |-> Bits(Report(o).qam)]
           t(c) == [o \in A[c] |-> Bits(Report(o).qam)]
           h    == [c \in C |-> SumOver(t(c), A[c])]
           n    == [c \in C |-> Cardinality(A[c])]
           less == [c \in C |-> (-2) * n[c]]
           e    == [c \in C |-> h[c] + less[c]]
           f    == [c \in C |-> 12000 * e[c]]
           m    == [c \in C |-> K * n[c]]
           x(c) == f[c] \div m[c]
           all  == SumOver(f, C) \div SumOver(m, C)
           theirs == {ChannelIndex("us", c, day) : c \in C}
<1>1. SUFFICES ASSUME C # {} PROVE DayIndex("us", v, day) <= Max(theirs) /\ DayIndex("us", v, day) >= Min(theirs)
  BY DEF IndexIsOfChannels
<1>2. K \in {4, 8} /\ 100 * Scale = 12000
  BY DEF MaxBits, Versions, Scale
<1>3. /\ IsFiniteSet(C) /\ C \subseteq Drawn(v, day)
      /\ N = Together(A, C) /\ Parts(A, C)
      /\ \A c \in C : /\ A[c] # {} /\ IsFiniteSet(A[c]) /\ A[c] \subseteq N /\ DayVersion(c, day) = v
                      /\ \A o \in A[c] : Report(o).qam \in Qams \ {Unknown}
  BY NumbersAre
<1>4. \A c \in C : ChannelIndex("us", c, day) = Held((12000 * (h[c] - 2 * n[c])) \div (n[c] * K))
  <2>1. ASSUME NEW c \in C
        PROVE  ChannelIndex("us", c, day) = Held((12000 * (h[c] - 2 * n[c])) \div (n[c] * K))
    <3>1. DayVersion(c, day) = v
      BY <1>3
    <3>2. ChannelIndex("us", c, day) = GroupIndex(OfDay(c, day), "us", v)
      BY <3>1 DEF ChannelIndex
    <3> DEFINE O == OfDay(c, day)
    <3>3. h[c] = SumOver([o \in Numeric(O) |-> Bits(Report(o).qam)], Numeric(O)) /\ n[c] = Cardinality(Numeric(O))
      OBVIOUS
    <3> HIDE DEF h, n
    <3>4. QED
      BY <3>2, <3>3, GroupIs
  <2>2. QED
    BY <2>1
<1>5. DayIndex("us", v, day)
        = Held((12000 * (SumOver(s, N) - 2 * Cardinality(N))) \div (Cardinality(N) * K))
  <2> DEFINE O == VersionGroup(v, {day})
  <2>1. DayIndex("us", v, day) = GroupIndex(O, "us", v)
    BY DEF DayIndex
  <2> HIDE DEF O
  <2>2. QED
    BY <2>1, GroupIs DEF O
<1>6. ASSUME NEW c \in C, NEW o \in A[c] PROVE s[o] = t(c)[o] /\ s[o] \in Int
  <2>1. o \in N /\ Report(o).qam \in Qams \ {Unknown}
    BY <1>3
  <2>2. QED
    BY <2>1, BitsAre
<1> HIDE DEF A, s, t, N
<1>7. ASSUME NEW c \in C
      PROVE  /\ Whole(s, A[c]) /\ h[c] = SumOver(s, A[c]) /\ n[c] = Cardinality(A[c])
             /\ h[c] \in Int /\ n[c] \in Nat \ {0}
  <2>1. IsFiniteSet(A[c]) /\ A[c] # {}
    BY <1>3
  <2>2. n[c] = Cardinality(A[c]) /\ h[c] = SumOver(t(c), A[c])
    OBVIOUS
  <2>3. n[c] \in Nat /\ n[c] # 0
    BY <2>1, <2>2, FS_CardinalityType, FS_EmptySet
  <2>4. Whole(s, A[c])
    BY <1>6 DEF Whole
  <2> DEFINE u == t(c)
  <2>5. \A o \in A[c] : u[o] = s[o]
    BY <1>6
  <2> HIDE DEF u
  <2>6. SumOver(u, A[c]) = SumOver(s, A[c])
    BY <2>1, <2>4, <2>5, SumsAreSame
  <2>7. h[c] = SumOver(s, A[c]) /\ h[c] \in Int
    BY <2>1, <2>2, <2>4, <2>6, SumIsWhole DEF u
  <2>8. QED
    BY <2>2, <2>3, <2>4, <2>7
<1> HIDE DEF h, n
<1>8. SumOver(s, N) = SumOver(h, C) /\ Cardinality(N) = SumOver(n, C) /\ Whole(h, C) /\ Whole(n, C)
  <2>1. Whole(s, Together(A, C))
    BY <1>7 DEF Whole, Together
  <2>2. \A c \in C : h[c] = SumOver(s, A[c]) /\ n[c] = Cardinality(A[c])
    BY <1>7
  <2> HIDE DEF C
  <2>3. SumOver(s, Together(A, C)) = SumOver(h, C) /\ Whole(h, C)
    BY <1>3, <2>1, <2>2, SumOfParts
  <2>4. Cardinality(Together(A, C)) = SumOver(n, C) /\ Whole(n, C)
    BY <1>3, <2>2, CountOfParts
  <2>5. QED
    BY <1>3, <2>3, <2>4
<1> DEFINE b == SumOver(h, C)
           k == SumOver(n, C)
<1>9. b \in Int /\ k \in Int /\ K \in Int
  BY <1>2, <1>3, <1>8, SumIsWhole
<1>10. SumOver(less, C) = (-2) * k /\ Whole(less, C)
  <2> DEFINE l == -2
  <2>1. l \in Int /\ \A c \in C : less[c] = l * n[c]
    OBVIOUS
  <2> HIDE DEF less, C, l
  <2>2. SumOver(less, C) = l * k /\ Whole(less, C)
    BY <1>3, <1>8, <2>1, SumTimes
  <2>3. QED
    BY <2>2 DEF l
<1>11. SumOver(e, C) = b - 2 * k /\ Whole(e, C)
  <2>1. Adds(e, h, less, C)
    BY DEF Adds
  <2>2. Whole(e, C)
    BY <1>8, <1>10 DEF Whole
  <2> HIDE DEF e, less, C
  <2>3. SumOver(e, C) = SumOver(h, C) + SumOver(less, C)
    BY <1>3, <1>8, <1>10, <2>1, SumOfSums
  <2>4. QED
    BY <1>9, <1>10, <2>2, <2>3
<1>12. SumOver(f, C) = 12000 * (b - 2 * k) /\ Whole(f, C)
  <2>1. \A c \in C : f[c] = 12000 * e[c]
    OBVIOUS
  <2> HIDE DEF e, f, C
  <2>2. SumOver(f, C) = 12000 * SumOver(e, C) /\ Whole(f, C)
    BY <1>3, <1>11, <2>1, SumTimes
  <2>3. QED
    BY <1>11, <2>2
<1>13. SumOver(m, C) = k * K
  <2>1. \A c \in C : m[c] = K * n[c]
    OBVIOUS
  <2> HIDE DEF m, C, K
  <2>2. SumOver(m, C) = K * k
    BY <1>3, <1>8, <1>9, <2>1, SumTimes
  <2> HIDE DEF k
  <2>3. QED
    BY <1>9, <2>2
<1>14. ASSUME NEW c \in C
       PROVE  /\ f[c] = 12000 * (h[c] - 2 * n[c]) /\ m[c] = n[c] * K /\ m[c] \in Nat \ {0}
              /\ f[c] \in Int /\ x(c) \in Int
  <2>1. less[c] = (-2) * n[c] /\ e[c] = h[c] + less[c] /\ f[c] = 12000 * e[c] /\ m[c] = K * n[c]
    OBVIOUS
  <2> HIDE DEF less, e, f, m, K
  <2>2. h[c] \in Int /\ n[c] \in Nat \ {0}
    BY <1>7
  <2>3. f[c] = 12000 * (h[c] - 2 * n[c]) /\ f[c] \in Int /\ m[c] = n[c] * K /\ m[c] \in Nat \ {0}
    BY <1>2, <2>1, <2>2
  <2>4. QED
    BY <2>3, QuotientIs
<1>15. \A c \in C : ChannelIndex("us", c, day) = Held(x(c)) /\ x(c) \in Int
  BY <1>4, <1>14
<1>16. DayIndex("us", v, day) = Held(all)
  BY <1>5, <1>8, <1>12, <1>13
<1> HIDE DEF f, m
<1>17. /\ all \in Int
       /\ \A y \in Int : /\ (\A c \in C : x(c) <= y) => all <= y
                         /\ (\A c \in C : y <= x(c)) => y <= all
  <2>1. Whole(f, C) /\ \A c \in C : m[c] \in Nat \ {0}
    BY <1>12, <1>14
  <2> HIDE DEF C
  <2>2. ASSUME NEW y \in Int
        PROVE  /\ SumOver(m, C) \in Nat \ {0} /\ SumOver(f, C) \in Int
               /\ (\A c \in C : x(c) <= y) => all <= y
               /\ (\A c \in C : y <= x(c)) => y <= all
    BY <1>1, <1>3, <2>1, MeanOfParts
  <2>3. SumOver(m, C) \in Nat \ {0} /\ SumOver(f, C) \in Int
    BY <2>2
  <2>4. all \in Int
    BY <2>3, QuotientIs
  <2>5. QED
    BY <2>2, <2>4
<1> HIDE DEF x, all
<1> DEFINE top == Max(theirs)
           low == Min(theirs)
<1>18. /\ \A c \in C : Held(x(c)) <= top /\ Held(x(c)) >= low
       /\ top \in Int /\ low \in Int /\ 0 <= top /\ low <= 12000
  <2> DEFINE g == [c \in C |-> ChannelIndex("us", c, day)]
  <2>1. IsFiniteSet(theirs)
    <3>1. g \in Surjection(C, theirs)
      BY DEF Surjection
    <3> HIDE DEF C, g, theirs
    <3>2. QED
      BY <1>3, <3>1, FS_Surjection
  <2>2. \A c \in C : Held(x(c)) \in Int /\ 0 <= Held(x(c)) /\ Held(x(c)) <= 12000
    BY <1>15, HeldInside
  <2>3. /\ theirs # {} /\ (\A c \in C : Held(x(c)) \in theirs)
        /\ \A y \in theirs : y \in Int /\ 0 <= y /\ y <= 12000
    BY <1>1, <1>15, <2>2
  <2> HIDE DEF theirs
  <2>4. \A y \in theirs : y \in Int
    BY <2>3
  <2>5. /\ Max(theirs) \in theirs /\ \A y \in theirs : y <= Max(theirs)
        /\ Min(theirs) \in theirs /\ \A y \in theirs : y >= Min(theirs)
    BY <2>1, <2>3, <2>4, Extremes
  <2>6. QED
    BY <2>3, <2>5
<1> HIDE DEF theirs, top, low
<1>19. Held(all) <= top
  <2>1. CASE top >= 12000
    <3>1. Held(all) \in Int /\ Held(all) <= 12000
      BY <1>17, HeldInside
    <3>2. QED
      BY <1>18, <2>1, <3>1
  <2>2. CASE top < 12000
    <3>1. ASSUME NEW c \in C PROVE x(c) <= top
      <4> DEFINE z == x(c)
      <4>1. z \in Int /\ Held(z) <= top
        BY <1>15, <1>18
      <4> HIDE DEF z
      <4>2. z <= top
        BY <1>18, <2>2, <4>1, HeldInside
      <4>3. QED
        BY <4>2 DEF z
    <3>2. all <= top
      BY <1>17, <1>18, <3>1
    <3>3. all \in Int
      BY <1>17
    <3>4. QED
      BY <1>18, <3>2, <3>3, HeldInside
  <2>3. QED
    BY <1>18, <2>1, <2>2
<1>20. Held(all) >= low
  <2>1. CASE low <= 0
    <3>1. Held(all) \in Int /\ 0 <= Held(all)
      BY <1>17, HeldInside
    <3>2. QED
      BY <1>18, <2>1, <3>1
  <2>2. CASE low > 0
    <3>1. ASSUME NEW c \in C PROVE low <= x(c)
      <4> DEFINE z == x(c)
      <4>1. z \in Int /\ low <= Held(z)
        <5>1. Held(x(c)) \in Int
          BY <1>15, HeldInside
        <5>2. QED
          BY <1>15, <1>18, <5>1
      <4> HIDE DEF z
      <4>2. low <= z
        BY <1>18, <2>2, <4>1, HeldInside
      <4>3. QED
        BY <4>2 DEF z
    <3>2. low <= all
      BY <1>17, <1>18, <3>1
    <3>3. all \in Int
      BY <1>17
    <3>4. low <= Held(all) /\ Held(all) \in Int
      BY <1>18, <3>2, <3>3, HeldInside
    <3>5. QED
      BY <1>18, <3>4
  <2>3. QED
    BY <1>18, <2>1, <2>2
<1>21. QED
  BY <1>16, <1>19, <1>20 DEF top, low

LEMMA ImageIsFinite ==
  ASSUME NEW S, IsFiniteSet(S), NEW f
  PROVE  IsFiniteSet({f[x] : x \in S})
<1> DEFINE T == {f[x] : x \in S}
           g == [x \in S |-> f[x]]
<1>1. g \in Surjection(S, T)
  BY DEF Surjection
<1> HIDE DEF T, g
<1>2. QED
  BY <1>1, FS_Surjection DEF T

\* What has a capacity in a range has it in one of its days, and no other.
LEMMA CapacitiesAre ==
  ASSUME SnapsSound
  PROVE  LET K == [day \in Days |-> Calculated(Seen({day}))]
             W == [day \in Days |-> WithCapacity({day})]
         IN  /\ Calculated(Seen(Days)) = Together(K, Days) /\ Parts(K, Days)
             /\ WithCapacity(Days) = Together(W, Days) /\ Parts(W, Days)
             /\ \A day \in Days : \A i \in W[day] : i \in DOMAIN snaps /\ snaps[i].day = day
             /\ IsFiniteSet(Calculated(Seen(Days))) /\ IsFiniteSet(WithCapacity(Days))
             /\ \A i \in WithCapacity(Days) : SnapshotCapacity(i) \in Int
<1> DEFINE K == [day \in Days |-> Calculated(Seen({day}))]
           W == [day \in Days |-> WithCapacity({day})]
<1>1. /\ IsFiniteSet(DOMAIN snaps) /\ IsFiniteSet(Days) /\ \A i \in DOMAIN snaps : snaps[i].day \in Days
      /\ \A D : IsFiniteSet(Seen(D)) /\ \A o \in Seen(D) : /\ o[1] \in DOMAIN snaps /\ snaps[o[1]].day \in D
                                                          /\ Report(o) \in Reporting
  BY SnapsAre
<1>2. \A day \in Days : \A o : o \in Seen({day}) <=> o \in Seen(Days) /\ snaps[o[1]].day = day
  BY DEF Seen
<1>3. \A D : IsFiniteSet(Calculated(Seen(D)))
  BY <1>1, FS_Subset DEF Calculated
<1>4. \A day \in Days : \A o : o \in K[day] <=> o \in Calculated(Seen(Days)) /\ snaps[o[1]].day = day
  BY <1>2 DEF Calculated
<1>5. Calculated(Seen(Days)) = Together(K, Days)
  <2>1. \A o \in Calculated(Seen(Days)) : \E day \in Days : o \in K[day]
    <3>1. ASSUME NEW o \in Calculated(Seen(Days)) PROVE \E day \in Days : o \in K[day]
      <4> DEFINE day == snaps[o[1]].day
      <4>1. day \in Days
        BY <1>1 DEF Calculated
      <4> HIDE DEF K
      <4>2. o \in K[day]
        BY <1>4, <4>1
      <4>3. QED
        BY <4>1, <4>2
    <3>2. QED
      BY <3>1
  <2>2. \A day \in Days : \A o \in K[day] : o \in Calculated(Seen(Days))
    BY <1>4
  <2> HIDE DEF K
  <2>3. QED
    BY <2>1, <2>2 DEF Together
<1>6. Parts(K, Days)
  <2>1. \A day \in Days : IsFiniteSet(K[day])
    BY <1>3
  <2>2. \A day, e \in Days : day # e => K[day] \cap K[e] = {}
    BY <1>4
  <2> HIDE DEF K
  <2>3. QED
    BY <2>1, <2>2 DEF Parts
<1>7. \A day \in Days : \A i : i \in W[day] <=> \E o \in K[day] : i = o[1]
  BY DEF WithCapacity
<1>8. \A i : i \in WithCapacity(Days) <=> \E o \in Calculated(Seen(Days)) : i = o[1]
  BY DEF WithCapacity
<1> HIDE DEF K, W
<1>9. \A day \in Days : \A i : i \in W[day] <=> i \in WithCapacity(Days) /\ snaps[i].day = day
  BY <1>4, <1>7, <1>8
<1>10. WithCapacity(Days) \subseteq DOMAIN snaps /\ IsFiniteSet(WithCapacity(Days))
  <2>1. WithCapacity(Days) \subseteq DOMAIN snaps
    BY <1>1, <1>8 DEF Calculated
  <2>2. QED
    BY <1>1, <2>1, FS_Subset
<1>11. WithCapacity(Days) = Together(W, Days)
  <2>1. \A i \in WithCapacity(Days) : \E day \in Days : i \in W[day]
    BY <1>1, <1>9, <1>10
  <2>2. \A day \in Days : \A i \in W[day] : i \in WithCapacity(Days)
    BY <1>9
  <2>3. QED
    BY <2>1, <2>2 DEF Together
<1>12. Parts(W, Days) /\ \A day \in Days : \A i \in W[day] : i \in DOMAIN snaps /\ snaps[i].day = day
  <2>1. \A day \in Days : W[day] \subseteq WithCapacity(Days)
    BY <1>9
  <2>2. \A day \in Days : IsFiniteSet(W[day])
    BY <1>10, <2>1, FS_Subset
  <2>3. \A day, e \in Days : day # e => W[day] \cap W[e] = {}
    BY <1>9
  <2>4. QED
    BY <1>9, <1>10, <2>2, <2>3 DEF Parts
<1>13. ASSUME NEW i \in WithCapacity(Days) PROVE SnapshotCapacity(i) \in Int
  <2> DEFINE O == Calculated({o \in Seen(Days) : o[1] = i})
             f == [o \in O |-> Capacity(o)]
  <2>1. O \subseteq Seen(Days) /\ IsFiniteSet(O)
    <3>1. O \subseteq Seen(Days)
      BY DEF Calculated
    <3>2. QED
      BY <1>1, <3>1, FS_Subset
  <2>2. \A o \in O : Capacity(o) \in Int
    <3>1. ASSUME NEW o \in O PROVE Capacity(o) \in Int
      <4>1. Report(o) \in Reporting /\ Capacity(o) # Unknown
        BY <1>1, <2>1 DEF Calculated
      <4>2. Report(o).rate \in Nat \cup {Unknown} /\ Report(o).qam \in Qams
        BY <4>1 DEF Reporting
      <4>3. Report(o).qam # Unknown => Bits(Report(o).qam) \in Int
        <5>1. Report(o).qam # Unknown => Bits(Report(o).qam) \in 2..12
          BY <4>2, BitsAre
        <5>2. QED
          BY <5>1
      <4> HIDE DEF O
      <4>4. CASE Report(o).family # "sc_qam"
        BY <4>1, <4>4 DEF Capacity
      <4>5. CASE Report(o).family = "sc_qam" /\ Report(o).rate # Unknown
        <5>1. Capacity(o) = Report(o).rate
          BY <4>5 DEF Capacity
        <5>2. QED
          BY <4>2, <4>5, <5>1
      <4>6. CASE Report(o).family = "sc_qam" /\ Report(o).rate = Unknown /\ Report(o).qam # Unknown
        <5>1. Capacity(o) = Bits(Report(o).qam)
          BY <4>6 DEF Capacity
        <5>2. QED
          BY <4>3, <4>6, <5>1
      <4>7. CASE Report(o).family = "sc_qam" /\ Report(o).rate = Unknown /\ Report(o).qam = Unknown
        BY <4>1, <4>7 DEF Capacity
      <4>8. QED
        BY <4>4, <4>5, <4>6, <4>7
    <3>2. QED
      BY <3>1
  <2>3. SnapshotCapacity(i) = SumOver(f, O)
    BY DEF SnapshotCapacity
  <2> HIDE DEF O
  <2>4. Whole(f, O)
    BY <2>2 DEF Whole
  <2> HIDE DEF f
  <2>5. QED
    BY <2>1, <2>3, <2>4, SumIsWhole
<1>14. QED
  BY <1>3, <1>5, <1>6, <1>10, <1>11, <1>12, <1>13 DEF K, W

LEMMA CapacityFits == SnapsSound => CapacityIsOfDays
<1> SUFFICES ASSUME SnapsSound PROVE CapacityIsOfDays
  OBVIOUS
<1> DEFINE all     == CapacityHistory(Days)
           of(day) == CapacityHistory({day})
           K       == [day \in Days |-> Calculated(Seen({day}))]
           W       == [day \in Days |-> WithCapacity({day})]
           A       == WithCapacity(Days)
           cap     == [i \in A |-> SnapshotCapacity(i)]
           caps(S) == {cap[i] : i \in S}
           some    == {day \in Days : of(day).samples > 0}
           held    == [day \in Days |-> of(day).samples]
           known   == [day \in Days |-> of(day).known]
<1>1. /\ Calculated(Seen(Days)) = Together(K, Days) /\ Parts(K, Days)
      /\ A = Together(W, Days) /\ Parts(W, Days)
      /\ \A day \in Days : \A i \in W[day] : i \in DOMAIN snaps /\ snaps[i].day = day
      /\ IsFiniteSet(A)
      /\ \A i \in A : cap[i] \in Int
  BY CapacitiesAre
<1>2. IsFiniteSet(Days) /\ Days \subseteq Nat /\ DOMAIN snaps \subseteq Nat
  BY SnapsAre
<1>3. /\ \A day \in Days : W[day] \subseteq A /\ IsFiniteSet(W[day])
      /\ \A i \in A : \E day \in Days : i \in W[day]
  <2> HIDE DEF W, A, cap, K
  <2>1. \A day \in Days : IsFiniteSet(W[day])
    BY <1>1 DEF Parts
  <2>2. \A i : i \in A <=> \E day \in Days : i \in W[day]
    <3>1. A = Together(W, Days)
      BY <1>1
    <3>2. QED
      BY <3>1 DEF Together
  <2>3. QED
    BY <2>1, <2>2
<1> USE DEF cap
<1>4. all.samples = Cardinality(A) /\ all.known = Cardinality(Calculated(Seen(Days)))
  BY DEF CapacityHistory
<1>5. \A day \in Days : /\ of(day).samples = Cardinality(W[day]) /\ of(day).known = Cardinality(K[day])
                        /\ held[day] = Cardinality(W[day]) /\ known[day] = Cardinality(K[day])
  BY DEF CapacityHistory
<1>6. ASSUME A # {}
      PROVE  /\ all.least = Min(caps(A)) /\ all.most = Max(caps(A))
             /\ all.current = cap[Max(A)]
  <2> DEFINE H == {SnapshotCapacity(i) : i \in A}
  <2>1. H = caps(A) /\ H # {}
    BY <1>6
  <2>2. Max(A) \in A
    <3>1. \A i \in A : i \in Int
      <4> HIDE DEF A, W, cap
      <4>1. \A i \in A : i \in DOMAIN snaps
        BY <1>1, <1>3
      <4>2. QED
        BY <1>2, <4>1
    <3> HIDE DEF A
    <3>2. QED
      BY <1>1, <1>6, <3>1, Extremes
  <2>3. /\ all.least = IF H = {} THEN Unknown ELSE Min(H)
        /\ all.most = IF H = {} THEN Unknown ELSE Max(H)
        /\ all.current = IF H = {} THEN Unknown ELSE SnapshotCapacity(Max(A))
    BY DEF CapacityHistory
  <2>4. cap[Max(A)] = SnapshotCapacity(Max(A))
    BY <2>2
  <2> HIDE DEF H, all, cap, A
  <2>5. QED
    BY <2>1, <2>3, <2>4
<1>7. ASSUME NEW day \in Days, W[day] # {}
      PROVE  /\ of(day).least = Min(caps(W[day])) /\ of(day).most = Max(caps(W[day]))
             /\ of(day).current = cap[Max(W[day])]
  <2> DEFINE S == WithCapacity({day})
             H == {SnapshotCapacity(i) : i \in S}
  <2>1. S = W[day] /\ S \subseteq A
    BY <1>3
  <2>2. H = caps(S) /\ H # {}
    BY <1>7, <2>1
  <2>3. Max(S) \in S
    <3>1. (\A i \in S : i \in Int) /\ IsFiniteSet(S)
      BY <1>1, <1>2, <1>3, <2>1
    <3> HIDE DEF S, W
    <3>2. QED
      BY <1>7, <2>1, <3>1, Extremes
  <2>4. /\ of(day).least = IF H = {} THEN Unknown ELSE Min(H)
        /\ of(day).most = IF H = {} THEN Unknown ELSE Max(H)
        /\ of(day).current = IF H = {} THEN Unknown ELSE SnapshotCapacity(Max(S))
    BY DEF CapacityHistory
  <2>5. cap[Max(S)] = SnapshotCapacity(Max(S))
    BY <2>1, <2>3
  <2> HIDE DEF H, of, cap, S
  <2>6. QED
    BY <2>1, <2>2, <2>4, <2>5
<1>8. some = {day \in Days : W[day] # {}}
  <2>1. \A day \in Days : of(day).samples > 0 <=> W[day] # {}
    <3>1. \A day \in Days : Cardinality(W[day]) \in Nat /\ (Cardinality(W[day]) = 0 <=> W[day] = {})
      BY <1>3, FS_CardinalityType, FS_EmptySet
    <3> DEFINE n(day) == of(day).samples
    <3>2. \A day \in Days : n(day) = Cardinality(W[day])
      BY <1>5
    <3> HIDE DEF n, W
    <3>3. \A day \in Days : n(day) > 0 <=> W[day] # {}
      BY <3>1, <3>2
    <3>4. QED
      BY <3>3 DEF n
  <2> HIDE DEF of, W
  <2>2. QED
    BY <2>1
<1> DEFINE first == [day \in Days |-> of(day).least]
           most  == [day \in Days |-> of(day).most]
           L == {of(day).least : day \in some}
           M == {of(day).most : day \in some}
<1>9. L = {first[day] : day \in some} /\ M = {most[day] : day \in some}
  OBVIOUS
<1>10. \A day \in Days : first[day] = of(day).least /\ most[day] = of(day).most
  OBVIOUS
<1> HIDE DEF all, of, K, W, A, cap, some, held, known, first, most, L, M
<1>11. all.samples = SumOver(held, Days) /\ all.known = SumOver(known, Days)
  <2>1. Cardinality(A) = SumOver(held, Days)
    <3>1. \A day \in Days : held[day] = Cardinality(W[day])
      BY <1>5
    <3>2. Cardinality(Together(W, Days)) = SumOver(held, Days)
      BY <1>1, <1>2, <3>1, CountOfParts
    <3>3. QED
      BY <1>1, <3>2
  <2>2. Cardinality(Calculated(Seen(Days))) = SumOver(known, Days)
    <3>1. \A day \in Days : known[day] = Cardinality(K[day])
      BY <1>5
    <3>2. Cardinality(Together(K, Days)) = SumOver(known, Days)
      BY <1>1, <1>2, <3>1, CountOfParts
    <3>3. QED
      BY <1>1, <3>2
  <2>3. QED
    BY <1>4, <2>1, <2>2
<1>12. ASSUME some # {}
       PROVE  all.least = Min(L) /\ all.most = Max(M) /\ all.current = of(Max(some)).current
  <2>1. A # {} /\ some \subseteq Days /\ IsFiniteSet(some) /\ (\A day \in some : day \in Int)
    <3>1. some \subseteq Days
      BY <1>8
    <3>2. IsFiniteSet(some)
      BY <1>2, <3>1, FS_Subset
    <3>3. A # {}
      BY <1>3, <1>8, <1>12
    <3>4. QED
      BY <1>2, <3>1, <3>2, <3>3
  <2>2. ASSUME NEW S, S \subseteq A, S # {}, IsFiniteSet(S)
        PROVE  /\ \A x \in caps(S) : x \in Int
               /\ Max(caps(S)) \in caps(S) /\ \A x \in caps(S) : x <= Max(caps(S))
               /\ Min(caps(S)) \in caps(S) /\ \A x \in caps(S) : x >= Min(caps(S))
    <3> DEFINE H == caps(S)
    <3>1. IsFiniteSet(H)
      BY <2>2, ImageIsFinite
    <3>2. H # {} /\ \A x \in H : x \in Int
      BY <1>1, <2>2
    <3> HIDE DEF H
    <3>3. /\ Max(H) \in H /\ \A x \in H : x <= Max(H)
          /\ Min(H) \in H /\ \A x \in H : x >= Min(H)
      BY <3>1, <3>2, Extremes
    <3>4. QED
      BY <3>2, <3>3 DEF H
  <2> DEFINE a == caps(A)
             w == [day \in Days |-> caps(W[day])]
  <2>3. /\ \A x \in a : x \in Int
        /\ Max(a) \in a /\ \A x \in a : x <= Max(a)
        /\ Min(a) \in a /\ \A x \in a : x >= Min(a)
    BY <1>1, <2>1, <2>2
  <2>4. \A day \in some : /\ day \in Days /\ W[day] # {} /\ W[day] \subseteq A /\ IsFiniteSet(W[day])
    BY <1>3, <1>8
  <2>5. \A day \in some :
          /\ \A x \in w[day] : x \in a
          /\ Max(w[day]) \in w[day] /\ \A x \in w[day] : x <= Max(w[day])
          /\ Min(w[day]) \in w[day] /\ \A x \in w[day] : x >= Min(w[day])
    <3>1. ASSUME NEW day \in some
          PROVE  /\ \A x \in w[day] : x \in a
                 /\ Max(w[day]) \in w[day] /\ \A x \in w[day] : x <= Max(w[day])
                 /\ Min(w[day]) \in w[day] /\ \A x \in w[day] : x >= Min(w[day])
      <4>1. w[day] = caps(W[day])
        BY <2>4
      <4>2. \A x \in caps(W[day]) : x \in a
        BY <2>4
      <4>3. /\ Max(caps(W[day])) \in caps(W[day]) /\ \A x \in caps(W[day]) : x <= Max(caps(W[day]))
            /\ Min(caps(W[day])) \in caps(W[day]) /\ \A x \in caps(W[day]) : x >= Min(caps(W[day]))
        BY <2>2, <2>4
      <4> HIDE DEF w, a
      <4>4. QED
        BY <4>1, <4>2, <4>3
    <3>2. QED
      BY <3>1
  <2>6. \A x \in a : \E day \in some : x \in w[day]
    BY <1>3, <1>8
  <2>7. \A day \in some : first[day] = Min(w[day]) /\ most[day] = Max(w[day])
    <3>1. \A day \in some : w[day] = caps(W[day])
      BY <2>4
    <3> HIDE DEF w
    <3>2. QED
      BY <1>7, <1>10, <2>4, <3>1
  <2>8. all.least = Min(a) /\ all.most = Max(a)
    BY <1>6, <2>1
  <2> HIDE DEF a, w
  <2>9. /\ IsFiniteSet(L) /\ L # {} /\ IsFiniteSet(M) /\ M # {}
        /\ (\A x \in L : x \in Int) /\ \A x \in M : x \in Int
    <3>1. IsFiniteSet(L) /\ IsFiniteSet(M)
      BY <1>9, <2>1, ImageIsFinite
    <3>2. L # {} /\ M # {}
      BY <1>9, <1>12
    <3>3. \A day \in some : first[day] \in Int /\ most[day] \in Int
      BY <2>3, <2>5, <2>7
    <3>4. QED
      BY <1>9, <3>1, <3>2, <3>3
  <2>10. /\ Min(L) \in L /\ \A x \in L : x >= Min(L)
         /\ Max(M) \in M /\ \A x \in M : x <= Max(M)
    BY <2>9, Extremes
  <2>11. Min(a) = Min(L)
    <3>1. PICK day \in some : Min(a) \in w[day]
      BY <2>3, <2>6
    <3>2. first[day] \in L /\ first[day] <= Min(a) /\ first[day] \in Int
      <4>1. first[day] \in L
        BY <1>9
      <4>2. first[day] <= Min(a)
        BY <2>5, <2>7, <3>1
      <4>3. QED
        BY <2>9, <4>1, <4>2
    <3>3. PICK other \in some : Min(L) = first[other]
      BY <1>9, <2>10
    <3>4. Min(L) \in a
      BY <2>5, <2>7, <3>3
    <3>5. Min(L) <= first[day] /\ Min(a) <= Min(L) /\ Min(a) \in Int /\ Min(L) \in Int
      BY <2>3, <2>9, <2>10, <3>2, <3>4
    <3>6. QED
      BY <3>2, <3>5
  <2>12. Max(a) = Max(M)
    <3>1. PICK day \in some : Max(a) \in w[day]
      BY <2>3, <2>6
    <3>2. most[day] \in M /\ most[day] >= Max(a) /\ most[day] \in Int
      <4>1. most[day] \in M
        BY <1>9
      <4>2. most[day] >= Max(a)
        BY <2>5, <2>7, <3>1
      <4>3. QED
        BY <2>9, <4>1, <4>2
    <3>3. PICK other \in some : Max(M) = most[other]
      BY <1>9, <2>10
    <3>4. Max(M) \in a
      BY <2>5, <2>7, <3>3
    <3>5. Max(M) >= most[day] /\ Max(a) >= Max(M) /\ Max(a) \in Int /\ Max(M) \in Int
      BY <2>3, <2>9, <2>10, <3>2, <3>4
    <3>6. QED
      BY <3>2, <3>5
  <2>13. Max(A) = Max(W[Max(some)])
    <3> DEFINE m == Max(some)
               x == Max(A)
               y == Max(W[m])
    <3>1. m \in some /\ \A day \in some : day <= m
      BY <1>12, <2>1, Extremes
    <3>2. \A i \in A : i \in Int
      BY <1>1, <1>2, <1>3
    <3>3. x \in A /\ \A i \in A : i <= x
      BY <1>1, <2>1, <3>2, Extremes
    <3> HIDE DEF m
    <3>4. m \in Days /\ W[m] # {} /\ W[m] \subseteq A /\ IsFiniteSet(W[m]) /\ \A i \in W[m] : i \in Int
      BY <2>4, <3>1, <3>2
    <3>5. y \in W[m] /\ \A i \in W[m] : i <= y
      BY <3>4, Extremes
    <3> HIDE DEF x, y
    <3>6. PICK day \in Days : x \in W[day]
      BY <1>3, <3>3
    <3>7. day \in some /\ day <= m
      BY <1>8, <3>1, <3>6
    <3>8. /\ x \in DOMAIN snaps /\ snaps[x].day = day /\ y \in DOMAIN snaps /\ snaps[y].day = m
          /\ y <= x /\ x \in Int /\ y \in Int /\ day \in Int /\ m \in Int
      BY <1>1, <1>2, <3>2, <3>3, <3>4, <3>5, <3>6
    <3>9. m <= day
      <4>1. CASE y = x
        BY <3>8, <4>1
      <4>2. CASE y < x
        BY <3>8, <4>2 DEF SnapsSound
      <4>3. QED
        BY <3>8, <4>1, <4>2
    <3>10. day = m
      BY <3>7, <3>8, <3>9
    <3>11. x <= y
      BY <3>5, <3>6, <3>10
    <3>12. x = y
      BY <3>8, <3>11
    <3>13. QED
      BY <3>12 DEF x, y, m
  <2>14. all.current = of(Max(some)).current
    <3>1. Max(some) \in some
      BY <1>12, <2>1, Extremes
    <3>2. Max(some) \in Days /\ W[Max(some)] # {}
      BY <2>4, <3>1
    <3>3. of(Max(some)).current = cap[Max(W[Max(some)])]
      BY <1>7, <3>2
    <3>4. QED
      BY <1>6, <2>1, <2>13, <3>3
  <2>15. QED
    BY <2>8, <2>11, <2>12, <2>14
<1>13. QED
  BY <1>11, <1>12 DEF CapacityIsOfDays, all, of, some, held, known, L, M

\* The views of the same snapshots agree: for any number of days, snapshots and channels,
\* the overview and the trend are the sums of the timelines, the periods follow one
\* another, a day's index lies within its channels', and the capacity of a range is that
\* of its days (engine.py, compute_distribution_v2, compute_intraday, compute_capacity_history).
THEOREM ViewsStayTogether == ModulationSpec => []ViewsAgree
<1>1. ASSUME SnapsSound PROVE ViewsAgree
  <2>1. ASSUME NEW day \in Days, NEW d \in Directions, KeptVersion(day), NEW v \in Versions
        PROVE  OverviewIsTimelines(d, v, day) /\ IndexIsOfChannels(d, v, day)
    BY <1>1, <2>1, OverviewFits, IndexUpFits, IndexDownFits DEF Directions
  <2>2. ASSUME NEW day \in Days, NEW d \in Directions
        PROVE  /\ TrendSamples(day) = Cardinality(Seen({day}))
               /\ KeptVersion(day) => LET drawn == UNION {Drawn(v, day) : v \in Versions} IN
                                      TrendLow(d, day) = SumOver([c \in drawn |-> LowSamples(d, c, day)], drawn)
    BY <1>1, TrendFits
  <2>3. \A day \in Days, c \in Carriers : PeriodsInOrder(c, day)
    BY <1>1, PeriodsAre
  <2>4. QED
    BY <1>1, <2>1, <2>2, <2>3, CapacityFits DEF ViewsAgree
<1>2. QED
  BY SnapsInit, SnapsNext, <1>1, PTL DEF ModulationSpec
=============================================================================
