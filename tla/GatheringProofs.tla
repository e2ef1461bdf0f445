-------------------------- MODULE GatheringProofs --------------------------
(* Proofs about Gathering and PlayerColors.                                 *)
EXTENDS Gathering, FiniteSetTheorems, SequenceTheorems, WellFoundedInduction, TLAPS

----------------------------------------------------------------------------
(* Loops over an index.                                                     *)

\* A non-empty set of natural numbers has a least one.
LEMMA LeastOf ==
  ASSUME NEW S \in SUBSET Nat, S # {}
  PROVE  \E m \in S : \A n \in S : m <= n
<1>1. PICK m \in S : \A n \in S : <<n, m>> \notin OpToRel(<, Nat)
  BY WFMin, NatLessThanWellFounded
<1>2. \A n \in S : n \in Nat /\ m \in Nat /\ ~(n < m)  BY <1>1 DEF OpToRel
<1>3. \A n \in S : m <= n  BY <1>2
<1> QED  BY <1>3

\* What holds at 0 and after each step holds up to n.
LEMMA Steps ==
  ASSUME NEW n \in Nat, NEW T, 0 \in T,
         \A i \in 1 .. n : i - 1 \in T => i \in T
  PROVE  \A i \in 0 .. n : i \in T
<1> DEFINE Bad == {i \in 0 .. n : i \notin T}
<1> SUFFICES ASSUME Bad # {}  PROVE FALSE  OBVIOUS
<1>1. Bad \in SUBSET Nat  OBVIOUS
<1>2. PICK m \in Bad : \A i \in Bad : m <= i
  <2> HIDE DEF Bad
  <2> QED  BY <1>1, LeastOf
<1>3. \A i \in Bad : ~(i < m)  BY <1>1, <1>2
<1>4. m \in 1 .. n /\ m - 1 \in 0 .. n /\ m - 1 < m
  <2>1. m \in 0 .. n /\ m # 0  BY <1>2
  <2> QED  BY <2>1
<1>5. m - 1 \in T  BY <1>3, <1>4
<1> QED  BY <1>2, <1>4, <1>5

\* One run of a loop, f[i] being what it has come to after i iterations.
Run(f, n, S, base, step) ==
  /\ f \in [0 .. n -> S] /\ f[0] = base
  /\ \A i \in 1 .. n : f[i] = step[i][f[i - 1]]

\* A loop whose steps stay in a set can be run for any number of iterations.
LEMMA LoopRuns ==
  ASSUME NEW n \in Nat, NEW S, NEW base \in S, NEW step \in [1 .. n -> [S -> S]]
  PROVE  \E f : Run(f, n, S, base, step)
<1> USE DEF Run
<1> DEFINE Runs(k, f) == Run(f, k, S, base, step)
           T == {k \in 0 .. n : \E f : Runs(k, f)}
<1>1. 0 \in T
  <2> DEFINE f == [i \in 0 .. 0 |-> base]
  <2>1. Runs(0, f)  OBVIOUS
  <2>2. 0 \in 0 .. n  OBVIOUS
  <2> HIDE DEF Runs, f
  <2> QED  BY <2>1, <2>2
<1>2. ASSUME NEW k \in 1 .. n, k - 1 \in T  PROVE k \in T
  <2>1. PICK f : Runs(k - 1, f)  BY <1>2
  <2> DEFINE g == [i \in 0 .. k |-> IF i < k THEN f[i] ELSE step[k][f[k - 1]]]
  <2>2. \A i \in 0 .. (k - 1) : g[i] = f[i] /\ f[i] \in S  BY <2>1
  <2>3. k - 1 \in 0 .. (k - 1) /\ k \in 0 .. k  OBVIOUS
  <2>4. g[k] = step[k][g[k - 1]] /\ step[k][f[k - 1]] \in S
    <3>1. g[k - 1] = f[k - 1] /\ f[k - 1] \in S  BY <2>2, <2>3
    <3>2. g[k] = step[k][f[k - 1]]  BY <2>3
    <3> QED  BY <3>1, <3>2
  <2>5. g \in [0 .. k -> S]
    <3>1. ASSUME NEW i \in 0 .. k
          PROVE  (IF i < k THEN f[i] ELSE step[k][f[k - 1]]) \in S
      <4>1. i < k => i \in 0 .. (k - 1)  OBVIOUS
      <4> QED  BY <4>1, <2>2, <2>4
    <3> QED  BY <3>1
  <2>6. ASSUME NEW i \in 1 .. k  PROVE g[i] = step[i][g[i - 1]]
    <3>1. CASE i = k  BY <3>1, <2>4
    <3>2. CASE i # k
      <4>1. i \in 0 .. (k - 1) /\ i - 1 \in 0 .. (k - 1) /\ i \in 1 .. (k - 1)  BY <3>2
      <4> QED  BY <4>1, <2>1, <2>2
    <3> QED  BY <3>1, <3>2
  <2>7. g[0] = base  BY <2>1, <2>2
  <2> HIDE DEF g
  <2>8. Runs(k, g)  BY <2>5, <2>6, <2>7
  <2> QED  BY <2>8
<1> HIDE DEF T
<1>3. \A i \in 0 .. n : i \in T  BY <1>1, <1>2, Steps
<1>4. n \in T  BY <1>3
<1> QED  BY <1>4 DEF T

----------------------------------------------------------------------------
(* The colors.                                                              *)

\* What players among the first n may wear: no two of them the same color.
Wearings(n) ==
  {w \in UNION {[T -> Color] : T \in SUBSET (1 .. n)} :
     \A i, j \in DOMAIN w : w[i] = w[j] => i = j}

\* Which functions from players to colors are wearings: the injective ones.
LEMMA WearingsAre ==
  ASSUME NEW n, NEW w
  PROVE  w \in Wearings(n) <=> /\ DOMAIN w \subseteq 1 .. n /\ w \in [DOMAIN w -> Color]
                               /\ \A i, j \in DOMAIN w : w[i] = w[j] => i = j
BY Zenon DEF Wearings

\* As long as somebody has none there is a color that nobody has.
LEMMA FreeColor ==
  ASSUME NEW n \in Nat, n <= NumColors, NEW w \in Wearings(n),
         NEW i \in 1 .. n, i \notin DOMAIN w
  PROVE  /\ FirstFree(Range(w), n) \in Color
         /\ \A j \in DOMAIN w : w[j] # FirstFree(Range(w), n)
<1> DEFINE taken == Range(w)
           Free == {c \in 0 .. (n - 1) : c \notin taken}
<1>1. DOMAIN w \subseteq 1 .. n /\ \A j, k \in DOMAIN w : w[j] = w[k] => j = k
  BY WearingsAre
<1>2. \A c : c \in taken <=> \E j \in DOMAIN w : w[j] = c  BY DEF Range
<1>3. Free # {}
  <2> SUFFICES ASSUME Free = {}  PROVE FALSE  OBVIOUS
  <2> DEFINE h == [c \in 0 .. (n - 1) |-> CHOOSE j \in DOMAIN w : w[j] = c]
  <2>1. \A c \in 0 .. (n - 1) : \E j \in DOMAIN w : w[j] = c  BY <1>2
  <2>2. \A c \in 0 .. (n - 1) : h[c] \in DOMAIN w /\ w[h[c]] = c  BY <2>1
  <2>3. h \in [0 .. (n - 1) -> DOMAIN w]  BY <2>2
  <2>4. IsFiniteSet(0 .. (n - 1)) /\ Cardinality(0 .. (n - 1)) = n
    BY FS_Interval
  <2>5. IsFiniteSet(DOMAIN w) /\ Cardinality(DOMAIN w) <= n - 1 /\ Cardinality(DOMAIN w) \in Nat
    <3>1. IsFiniteSet(1 .. n) /\ Cardinality(1 .. n) = n  BY FS_Interval
    <3>2. IsFiniteSet((1 .. n) \ {i}) /\ Cardinality((1 .. n) \ {i}) = n - 1
      BY <3>1, FS_RemoveElement
    <3>3. DOMAIN w \in SUBSET ((1 .. n) \ {i})  BY <1>1
    <3>4. IsFiniteSet(DOMAIN w) /\ Cardinality(DOMAIN w) <= n - 1  BY <3>2, <3>3, FS_Subset
    <3> QED  BY <3>4, FS_CardinalityType
  <2>6. Cardinality(DOMAIN w) < Cardinality(0 .. (n - 1))  BY <2>4, <2>5
  <2> HIDE DEF h
  <2>7. \E c, d \in 0 .. (n - 1) : c # d /\ h[c] = h[d]
    BY <2>3, <2>4, <2>5, <2>6, FS_PigeonHole
  <2> QED  BY <2>2, <2>7
<1>4. PICK c \in Free : \A d \in Free : c <= d
  <2>1. Free \in SUBSET Nat  OBVIOUS
  <2> HIDE DEF Free
  <2> QED  BY <1>3, <2>1, LeastOf
<1>5. c \in 0 .. (n - 1) /\ c \notin taken /\ \A d \in 0 .. (c - 1) : d \in taken  BY <1>4
<1>6. FirstFree(taken, n) \in 0 .. (n - 1) /\ FirstFree(taken, n) \notin taken
  BY <1>5, Zenon DEF FirstFree
<1>7. \A d \in 0 .. (n - 1) : d \in Color  BY ColorsAssumption DEF Color
<1> QED  BY <1>2, <1>6, <1>7

\* Then who has none gets a color that nobody wears.
LEMMA OneMoreWears ==
  ASSUME NEW ps, Len(ps) \in Nat, Len(ps) <= NumColors, NEW w \in Wearings(Len(ps)),
         NEW i \in 1 .. Len(ps), i \notin DOMAIN w
  PROVE  /\ Given(w, i, ps) \in Wearings(Len(ps))
         /\ \A j : j \in DOMAIN Given(w, i, ps) <=> j \in DOMAIN w \/ j = i
<1> DEFINE n == Len(ps)
           c == FirstFree(Range(w), n)
<1>0. c \in Color /\ \A j \in DOMAIN w : w[j] # c
  <2> HIDE DEF c
  <2> QED  BY FreeColor DEF c
<1>1. /\ DOMAIN w \subseteq 1 .. n /\ w \in [DOMAIN w -> Color]
      /\ \A j, k \in DOMAIN w : w[j] = w[k] => j = k
  BY WearingsAre
<1> DEFINE v == Given(w, i, ps)
<1>2. DOMAIN v = DOMAIN w \cup {i}  BY DEF Given
<1>3. v[i] = c /\ \A j \in DOMAIN w : v[j] = w[j]  BY DEF Given
<1>4. v = [j \in DOMAIN v |-> v[j]]  BY DEF Given
<1> HIDE DEF v, c
<1>5. v \in [DOMAIN v -> Color]
  <2>1. ASSUME NEW j \in DOMAIN v  PROVE v[j] \in Color  BY <1>0, <1>1, <1>2, <1>3
  <2> QED  BY <1>4, <2>1
<1>6. \A j, k \in DOMAIN v : v[j] = v[k] => j = k  BY <1>0, <1>1, <1>2, <1>3
<1>7. v \in Wearings(n)  BY <1>1, <1>2, <1>5, <1>6, WearingsAre
<1> QED  BY <1>2, <1>7 DEF v

\* First the wishes that can be granted are granted.
LEMMA WishesAreWorn ==
  ASSUME NEW ps, NEW n \in Nat, \A i \in 1 .. n : ps[i].desired \in Color,
         NEW w \in Wearings(n), NEW members \in SUBSET (1 .. n),
         \A i \in members : i \notin DOMAIN w
  PROVE  /\ Granted(w, members, ps) \in Wearings(n)
         /\ DOMAIN w \subseteq DOMAIN Granted(w, members, ps)
         /\ DOMAIN Granted(w, members, ps) \subseteq DOMAIN w \cup members
<1>1. /\ DOMAIN w \subseteq 1 .. n /\ w \in [DOMAIN w -> Color]
      /\ \A j, k \in DOMAIN w : w[j] = w[k] => j = k
  BY WearingsAre
<1> DEFINE W == Wishes(w, members, ps)
           v == Granted(w, members, ps)
<1>2. \A i \in W : /\ i \in members /\ i \notin DOMAIN w /\ ps[i].desired \in Color
                   /\ \A j \in DOMAIN w : w[j] # ps[i].desired
                   /\ \A j \in members : j < i => ps[j].desired # ps[i].desired
  BY DEF Wishes, Range
<1>3. DOMAIN v = DOMAIN w \cup W  BY DEF Granted
<1>4. \A j \in DOMAIN v : v[j] = IF j \in DOMAIN w THEN w[j] ELSE ps[j].desired
  BY DEF Granted
<1>5. v = [j \in DOMAIN v |-> v[j]]  BY DEF Granted
<1> HIDE DEF v, W
<1>6. ASSUME NEW j \in DOMAIN v  PROVE v[j] \in Color  BY <1>1, <1>2, <1>3, <1>4
<1>7. v \in [DOMAIN v -> Color]  BY <1>5, <1>6
<1>8. ASSUME NEW j \in DOMAIN v, NEW k \in DOMAIN v, v[j] = v[k]  PROVE j = k
  <2>1. CASE j \in DOMAIN w /\ k \in DOMAIN w  BY <1>1, <1>4, <1>8, <2>1
  <2>2. CASE j \notin DOMAIN w /\ k \notin DOMAIN w
    <3>1. j \in W /\ k \in W /\ ps[j].desired = ps[k].desired  BY <1>3, <1>4, <1>8, <2>2
    <3>2. j \in 1 .. n /\ k \in 1 .. n  BY <1>2, <3>1
    <3>3. ~(j < k) /\ ~(k < j)  BY <1>2, <3>1
    <3> QED  BY <3>2, <3>3
  <2>3. CASE j \in DOMAIN w /\ k \notin DOMAIN w  BY <1>2, <1>3, <1>4, <1>8, <2>3
  <2>4. CASE j \notin DOMAIN w /\ k \in DOMAIN w  BY <1>2, <1>3, <1>4, <1>8, <2>4
  <2> QED  BY <2>1, <2>2, <2>3, <2>4
<1>9. DOMAIN v \subseteq DOMAIN w \cup members  BY <1>2, <1>3
<1>10. v \in Wearings(n)  BY <1>1, <1>7, <1>8, <1>9, WearingsAre
<1> QED  BY <1>3, <1>9, <1>10 DEF v

\* Players for whom there are enough colors.
Roster(ps) ==
  /\ Len(ps) \in Nat /\ Len(ps) <= NumColors /\ DOMAIN ps = 1 .. Len(ps)
  /\ \A i \in 1 .. Len(ps) : ps[i].desired \in Color /\ ps[i].team \in Color

\* A round: everybody in members wears a color now.
GivenLoop(g, w, members, ps) ==
  g = [i \in 0 .. Len(ps) |->
         IF i = 0 THEN Granted(w, members, ps)
         ELSE IF i \in members \ DOMAIN g[i - 1] THEN Given(g[i - 1], i, ps)
         ELSE g[i - 1]]

\* One round: whoever wore a color keeps wearing one, the members get one each,
\* and no two of them all get the same.
LEMMA RoundWears ==
  ASSUME NEW ps, Roster(ps), NEW w \in Wearings(Len(ps)), NEW members \in SUBSET (1 .. Len(ps)),
         \A i \in members : i \notin DOMAIN w
  PROVE  /\ Round(w, members, ps) \in Wearings(Len(ps))
         /\ \A j : j \in DOMAIN Round(w, members, ps) <=> j \in DOMAIN w \/ j \in members
<1> DEFINE n == Len(ps)
           base == Granted(w, members, ps)
           Next1(i, v) == IF i \in members \ DOMAIN v THEN Given(v, i, ps) ELSE v
<1>0. Len(ps) \in Nat /\ Len(ps) <= NumColors  BY DEF Roster
<1>1. n \in Nat /\ \A i \in 1 .. n : ps[i].desired \in Color  BY DEF Roster
<1>2. /\ base \in Wearings(n) /\ DOMAIN w \subseteq DOMAIN base
      /\ DOMAIN base \subseteq DOMAIN w \cup members
  BY <1>1, WishesAreWorn
<1>3. ASSUME NEW i \in 1 .. n, NEW v \in Wearings(n)
      PROVE  /\ Next1(i, v) \in Wearings(n)
             /\ DOMAIN v \subseteq DOMAIN Next1(i, v)
             /\ DOMAIN Next1(i, v) \subseteq DOMAIN v \cup (members \cap {i})
             /\ i \in members => i \in DOMAIN Next1(i, v)
  <2>1. CASE i \in members \ DOMAIN v
    <3>1. /\ Given(v, i, ps) \in Wearings(Len(ps))
          /\ \A j : j \in DOMAIN Given(v, i, ps) <=> j \in DOMAIN v \/ j = i
      BY <1>0, <2>1, OneMoreWears
    <3> QED  BY <2>1, <3>1
  <2>2. CASE ~(i \in members \ DOMAIN v)  BY <2>2
  <2> QED  BY <2>1, <2>2
<1> HIDE DEF base, Next1, n
<1>4. \E g : g = [i \in 0 .. n |-> IF i = 0 THEN base ELSE Next1(i, g[i - 1])]
  <2> DEFINE step == [i \in 1 .. n |-> [v \in Wearings(n) |-> Next1(i, v)]]
  <2>1. step \in [1 .. n -> [Wearings(n) -> Wearings(n)]]  BY <1>3
  <2>2. \A i \in 1 .. n, v \in Wearings(n) : step[i][v] = Next1(i, v)  OBVIOUS
  <2> HIDE DEF step
  <2>3. PICK g \in [0 .. n -> Wearings(n)] :
          g[0] = base /\ \A i \in 1 .. n : g[i] = step[i][g[i - 1]]
    <3> DEFINE S == Wearings(n)
    <3>1. base \in S /\ step \in [1 .. n -> [S -> S]]  BY <1>2, <2>1
    <3> HIDE DEF S
    <3>2. \E g : Run(g, n, S, base, step)  BY <1>1, <3>1, LoopRuns
    <3> QED  BY <3>2 DEF S, Run
  <2>4. ASSUME NEW i \in 0 .. n
        PROVE  g[i] = IF i = 0 THEN base ELSE Next1(i, g[i - 1])
    <3>1. CASE i = 0  BY <2>3, <3>1
    <3>2. CASE i # 0
      <4>1. i \in 1 .. n /\ i - 1 \in 0 .. n  BY <1>1, <3>2
      <4>2. g[i - 1] \in Wearings(n)  BY <4>1
      <4> QED  BY <2>2, <2>3, <3>2, <4>1, <4>2
    <3> QED  BY <3>1, <3>2
  <2>5. g = [i \in 0 .. n |-> g[i]]  OBVIOUS
  <2>6. [i \in 0 .. n |-> g[i]]
          = [i \in 0 .. n |-> IF i = 0 THEN base ELSE Next1(i, g[i - 1])]
    BY <2>4, Zenon
  <2> QED  BY <2>5, <2>6, Zenon
<1>5. PICK g : /\ g = [i \in 0 .. n |-> IF i = 0 THEN base ELSE Next1(i, g[i - 1])]
               /\ Round(w, members, ps) = g[n]
  <2>1. Round(w, members, ps) = (CHOOSE g : GivenLoop(g, w, members, ps))[n]
    BY Zenon DEF Round, GivenLoop, n
  <2>2. \A g : GivenLoop(g, w, members, ps)
               <=> g = [i \in 0 .. n |-> IF i = 0 THEN base ELSE Next1(i, g[i - 1])]
    BY Zenon DEF GivenLoop, n, base, Next1
  <2>3. GivenLoop(CHOOSE g : GivenLoop(g, w, members, ps), w, members, ps)
    BY <1>4, <2>2, Zenon
  <2> QED  BY <2>1, <2>2, <2>3, Zenon
<1>6. g[0] = base /\ \A i \in 1 .. n : i - 1 \in 0 .. n /\ g[i] = Next1(i, g[i - 1])
  <2>1. \A i \in 0 .. n : g[i] = IF i = 0 THEN base ELSE Next1(i, g[i - 1])
    BY <1>5, Zenon
  <2>2. 0 \in 0 .. n /\ \A i \in 1 .. n : i \in 0 .. n /\ i # 0 /\ i - 1 \in 0 .. n
    BY <1>1
  <2> QED  BY <2>1, <2>2
<1> DEFINE T == {i \in 0 .. n : /\ g[i] \in Wearings(n) /\ DOMAIN w \subseteq DOMAIN g[i]
                                /\ DOMAIN g[i] \subseteq DOMAIN w \cup members
                                /\ \A j \in members : j <= i => j \in DOMAIN g[i]}
<1>7. 0 \in T
  <2>1. \A j \in members : ~(j <= 0)  BY DEF n
  <2> QED  BY <1>1, <1>2, <1>6, <2>1
<1>8. ASSUME NEW i \in 1 .. n, i - 1 \in T  PROVE i \in T
  <2>1. /\ g[i - 1] \in Wearings(n) /\ DOMAIN w \subseteq DOMAIN g[i - 1]
        /\ DOMAIN g[i - 1] \subseteq DOMAIN w \cup members
        /\ \A j \in members : j <= i - 1 => j \in DOMAIN g[i - 1]
    BY <1>8
  <2>2. g[i] = Next1(i, g[i - 1])  BY <1>6
  <2>3. /\ g[i] \in Wearings(n) /\ DOMAIN g[i - 1] \subseteq DOMAIN g[i]
        /\ DOMAIN g[i] \subseteq DOMAIN g[i - 1] \cup (members \cap {i})
        /\ i \in members => i \in DOMAIN g[i]
    BY <1>3, <2>1, <2>2
  <2>4. \A j \in members : j <= i => (j <= i - 1 \/ j = i)  BY <1>1 DEF n
  <2>5. i \in 0 .. n  BY <1>1
  <2> QED  BY <2>1, <2>3, <2>4, <2>5
<1> HIDE DEF T
<1>9. n \in T
  <2>1. \A i \in 0 .. n : i \in T  BY <1>1, <1>7, <1>8, Steps
  <2> QED  BY <1>1, <2>1
<1>10. \A j \in members : j <= n  BY <1>1 DEF n
<1> QED  BY <1>5, <1>9, <1>10 DEF T, n

\* The rounds of the teams, one after the other: everybody wears a color.
WornLoop(g, ps) ==
  g = [t \in 0 .. NumColors |->
         IF t = 0 THEN <<>> ELSE Round(g[t - 1], Team(t - 1, ps), ps)]

\* All rounds: everybody wears a color and no two wear the same, with unique
\* teams and without.
LEMMA TeamsWear ==
  ASSUME NEW ps, Roster(ps)
  PROVE  Worn(ps) \in Wearings(Len(ps)) /\ DOMAIN Worn(ps) = 1 .. Len(ps)
<1> DEFINE n == Len(ps)
           none == <<>>
<1>0. /\ Len(ps) \in Nat /\ Len(ps) <= NumColors /\ DOMAIN ps = 1 .. Len(ps)
      /\ \A i \in 1 .. Len(ps) : ps[i].desired \in Color /\ ps[i].team \in Color
  BY DEF Roster
<1>1. n \in Nat /\ NumColors \in Nat  BY <1>0, ColorsAssumption
<1>2. none \in Wearings(n) /\ DOMAIN none = {}
  <2>1. DOMAIN none = {} /\ none = [i \in {} |-> none[i]]  OBVIOUS
  <2>2. none \in [DOMAIN none -> Color]  BY <2>1
  <2> HIDE DEF none
  <2> QED  BY <2>1, <2>2, WearingsAre
<1> HIDE DEF none
<1>3. CASE UniqueTeams
  <2>1. Worn(ps) = Round(none, 1 .. n, ps)  BY <1>0, <1>3, Zenon DEF Worn, none, n
  <2>2. 1 .. n \in SUBSET (1 .. Len(ps)) /\ \A i \in 1 .. n : i \notin DOMAIN none  BY <1>2
  <2>3. /\ Round(none, 1 .. n, ps) \in Wearings(Len(ps))
        /\ \A j : j \in DOMAIN Round(none, 1 .. n, ps)
                  <=> j \in DOMAIN none \/ j \in 1 .. n
    <3> DEFINE everybody == 1 .. n
    <3>1. everybody \in SUBSET (1 .. Len(ps)) /\ \A i \in everybody : i \notin DOMAIN none  BY <2>2
    <3> HIDE DEF everybody
    <3>2. /\ Round(none, everybody, ps) \in Wearings(Len(ps))
          /\ \A j : j \in DOMAIN Round(none, everybody, ps)
                    <=> j \in DOMAIN none \/ j \in everybody
      BY ONLY Roster(ps), <1>2, <3>1, RoundWears
    <3> QED  BY <3>2 DEF everybody
  <2> QED  BY <1>2, <2>1, <2>3
<1>4. CASE ~UniqueTeams
  <2> DEFINE Of(t) == {w \in Wearings(n) : DOMAIN w = {i \in 1 .. n : ps[i].team < t}}
             Next1(t, w) == Round(w, Team(t - 1, ps), ps)
  <2>1. none \in Of(0)
    <3>1. \A i \in 1 .. n : ~(ps[i].team < 0)  BY <1>0, <1>1 DEF Color
    <3> QED  BY <1>2, <3>1
  <2>2. ASSUME NEW t \in 1 .. NumColors, NEW w \in Of(t - 1)  PROVE Next1(t, w) \in Of(t)
    <3> DEFINE members == Team(t - 1, ps)
    <3>1. members = {i \in 1 .. n : ps[i].team = t - 1}  BY <1>0 DEF Team
    <3>2. w \in Wearings(n) /\ DOMAIN w = {i \in 1 .. n : ps[i].team < t - 1}  BY <2>2
    <3>3. \A i \in 1 .. n : ps[i].team \in Int /\ t \in Int  BY <1>0, <1>1 DEF Color
    <3>4. members \in SUBSET (1 .. Len(ps))  BY <3>1
    <3>5. \A i \in members : i \notin DOMAIN w  BY <3>1, <3>2, <3>3
    <3>6. DOMAIN w \cup members = {i \in 1 .. n : ps[i].team < t}
      BY <3>1, <3>2, <3>3
    <3> HIDE DEF members
    <3>7. /\ Round(w, members, ps) \in Wearings(Len(ps))
          /\ \A j : j \in DOMAIN Round(w, members, ps) <=> j \in DOMAIN w \/ j \in members
      BY ONLY Roster(ps), w \in Wearings(Len(ps)), <3>4, <3>5, RoundWears
    <3>8. DOMAIN Round(w, members, ps) = DOMAIN w \cup members  BY <3>7
    <3> QED  BY <3>6, <3>7, <3>8 DEF members
  <2> DEFINE S == {w \in UNION {Of(t) : t \in 0 .. NumColors} : TRUE}
             Step1(t, w) == IF w \in Of(t - 1) THEN Next1(t, w) ELSE none
             step == [t \in 1 .. NumColors |-> [w \in S |-> Step1(t, w)]]
  <2>3. \A t \in 0 .. NumColors : \A w \in Of(t) : w \in S  OBVIOUS
  <2> HIDE DEF Of, Next1
  <2>4. none \in S /\ step \in [1 .. NumColors -> [S -> S]]
    <3>1. none \in S  BY <1>1, <2>1, <2>3
    <3>2. ASSUME NEW t \in 1 .. NumColors, NEW w \in S  PROVE Step1(t, w) \in S
      <4>1. t \in 0 .. NumColors  BY <1>1
      <4> HIDE DEF S
      <4> QED  BY <2>2, <2>3, <3>1, <4>1
    <3> HIDE DEF S, Step1
    <3> QED  BY <3>1, <3>2
  <2>5. \A t \in 1 .. NumColors : \A w \in S : step[t][w] = Step1(t, w)  OBVIOUS
  <2> HIDE DEF S, step
  <2>6. PICK g : Run(g, NumColors, S, none, step)  BY <1>1, <2>4, LoopRuns
  <2>7. \A t \in 0 .. NumColors : g[t] \in Of(t)
    <3> DEFINE T == {t \in 0 .. NumColors : g[t] \in Of(t)}
    <3>1. 0 \in T  BY <1>1, <2>1, <2>6 DEF Run
    <3>2. ASSUME NEW t \in 1 .. NumColors, t - 1 \in T  PROVE t \in T
      <4>1. t \in 0 .. NumColors /\ t - 1 \in 0 .. NumColors /\ g[t - 1] \in Of(t - 1)
        BY <1>1, <3>2
      <4>2. g[t] = step[t][g[t - 1]] /\ g[t - 1] \in S  BY <2>3, <2>6, <4>1 DEF Run
      <4>3. g[t] = Next1(t, g[t - 1])  BY <2>5, <4>1, <4>2
      <4> QED  BY <2>2, <4>1, <4>3
    <3> HIDE DEF T
    <3>3. \A t \in 0 .. NumColors : t \in T  BY <1>1, <3>1, <3>2, Steps
    <3> QED  BY <3>3 DEF T
  <2>8. \A t \in 1 .. NumColors : g[t] = Next1(t, g[t - 1])
    <3> TAKE t \in 1 .. NumColors
    <3>1. t \in 0 .. NumColors /\ t - 1 \in 0 .. NumColors  BY <1>1
    <3>2. g[t] = step[t][g[t - 1]] /\ g[t - 1] \in S  BY <2>3, <2>6, <2>7, <3>1 DEF Run
    <3> QED  BY <2>5, <2>7, <3>1, <3>2
  <2>9. g = [t \in 0 .. NumColors |-> IF t = 0 THEN none ELSE Next1(t, g[t - 1])]
    <3>1. g = [t \in 0 .. NumColors |-> g[t]] /\ g[0] = none  BY <2>6 DEF Run
    <3>2. \A t \in 0 .. NumColors : t # 0 => t \in 1 .. NumColors  BY <1>1
    <3>3. \A t \in 0 .. NumColors : g[t] = IF t = 0 THEN none ELSE Next1(t, g[t - 1])
      BY <2>8, <3>1, <3>2
    <3>4. [t \in 0 .. NumColors |-> g[t]]
            = [t \in 0 .. NumColors |-> IF t = 0 THEN none ELSE Next1(t, g[t - 1])]
      BY <3>3, Zenon
    <3> QED  BY <3>1, <3>4, Zenon
  <2>10. WornLoop(g, ps)  BY <2>9, Zenon DEF WornLoop, none, Next1
  <2> DEFINE h == CHOOSE f : WornLoop(f, ps)
  <2>11. WornLoop(h, ps)  BY <2>10, Zenon
  <2>12. Worn(ps) = h[NumColors]  BY <1>4, Zenon DEF Worn, WornLoop
  <2> HIDE DEF h
  <2>13. \A t \in 0 .. NumColors : h[t] \in Of(t)
    <3>1. \A t \in 0 .. NumColors : h[t] = IF t = 0 THEN none ELSE Next1(t, h[t - 1])
      BY <2>11, Zenon DEF WornLoop, none, Next1
    <3> DEFINE T == {t \in 0 .. NumColors : h[t] \in Of(t)}
    <3>2. 0 \in T
      <4>1. 0 \in 0 .. NumColors  BY <1>1
      <4> QED  BY <2>1, <3>1, <4>1
    <3>3. ASSUME NEW t \in 1 .. NumColors, t - 1 \in T  PROVE t \in T
      <4>1. t \in 0 .. NumColors /\ t # 0 /\ h[t - 1] \in Of(t - 1)  BY <1>1, <3>3
      <4> QED  BY <2>2, <3>1, <4>1
    <3> HIDE DEF T
    <3>4. \A t \in 0 .. NumColors : t \in T  BY <1>1, <3>2, <3>3, Steps
    <3> QED  BY <3>4 DEF T
  <2>14. NumColors \in 0 .. NumColors /\ \A i \in 1 .. n : ps[i].team < NumColors
    BY <1>0, <1>1 DEF Color
  <2>15. Worn(ps) \in Of(NumColors)  BY <2>12, <2>13, <2>14
  <2>16. {i \in 1 .. n : ps[i].team < NumColors} = 1 .. n  BY <2>14
  <2> QED  BY <2>15, <2>16 DEF Of
<1> QED  BY <1>3, <1>4

Player == [stream : Stream \cup {0}, id : Nat, desired : Color, color : Color, team : Color]

\* reassign_player_colors: the players stay who they are and no two of them
\* wear the same color.
LEMMA ReassignedPlayers ==
  ASSUME NEW ps \in Seq(Player), Len(ps) <= NumColors
  PROVE  /\ Reassigned(ps) \in Seq(Player) /\ Len(Reassigned(ps)) = Len(ps)
         /\ \A i \in 1 .. Len(ps) : /\ Reassigned(ps)[i].stream = ps[i].stream
                                    /\ Reassigned(ps)[i].id = ps[i].id
         /\ \A i, j \in 1 .. Len(ps) :
              Reassigned(ps)[i].color = Reassigned(ps)[j].color => i = j
<1> DEFINE n == Len(ps)
           worn == Worn(ps)
           r == Reassigned(ps)
           Other(i) == IF UniqueTeams THEN [ps[i] EXCEPT !.color = worn[i], !.team = worn[i]]
                       ELSE [ps[i] EXCEPT !.color = worn[i]]
<1>1. n \in Nat /\ DOMAIN ps = 1 .. n /\ \A i \in 1 .. n : ps[i] \in Player  OBVIOUS
<1>2. worn \in Wearings(n) /\ DOMAIN worn = 1 .. n
  <2>1. \A i \in 1 .. n : ps[i].desired \in Color /\ ps[i].team \in Color
    BY <1>1 DEF Player
  <2>2. Roster(ps)  BY <1>1, <2>1 DEF Roster
  <2> QED  BY <2>2, TeamsWear
<1>3. r = [i \in 1 .. n |-> Other(i)]  BY <1>1, Zenon DEF Reassigned
<1> HIDE DEF worn, r
<1>4. /\ \A i \in 1 .. n : worn[i] \in Color
      /\ \A i, j \in 1 .. n : worn[i] = worn[j] => i = j
  BY <1>2, WearingsAre
<1>5. ASSUME NEW i \in 1 .. n
      PROVE  /\ Other(i) \in Player
             /\ Other(i).stream = ps[i].stream /\ Other(i).id = ps[i].id
             /\ Other(i).color = worn[i]
  <2> DEFINE p == ps[i]
             c == worn[i]
  <2>1. p \in Player /\ c \in Color  BY <1>1, <1>4
  <2> HIDE DEF p, c
  <2>2. /\ [p EXCEPT !.color = c] \in Player
        /\ [p EXCEPT !.color = c].stream = p.stream /\ [p EXCEPT !.color = c].id = p.id
        /\ [p EXCEPT !.color = c].color = c
    BY <2>1 DEF Player
  <2>3. /\ [p EXCEPT !.color = c, !.team = c] \in Player
        /\ [p EXCEPT !.color = c, !.team = c].stream = p.stream
        /\ [p EXCEPT !.color = c, !.team = c].id = p.id
        /\ [p EXCEPT !.color = c, !.team = c].color = c
    BY <2>1 DEF Player
  <2> QED  BY <2>2, <2>3 DEF p, c
<1> HIDE DEF Other
<1>6. DOMAIN r = 1 .. n /\ \A i \in 1 .. n : r[i] = Other(i)  BY <1>3
<1>7. r \in Seq(Player) /\ Len(r) = n  BY <1>1, <1>3, <1>5
<1> QED  BY <1>4, <1>5, <1>6, <1>7 DEF r

----------------------------------------------------------------------------
(* Types. What was sent and has not been handled is seen as one pipe each   *)
(* way: what is queued behind what is under way, as long as the connection  *)
(* is up.                                                                   *)

DownMessage ==
  [type : {"hello", "gameSession", "endGameData"}]
    \cup [type : {"capabilities"}, gatherable : BOOLEAN]
    \cup [type : {"clientInfo"}, action : {"add", "update", "remove"}, stream : Stream \cup {0}]
    \cup [type : {"joinPlayer"}, id : Nat]
    \cup [type : {"topology"}, tag : {"newPlayer", "droppedPlayer", "changedPlayer", "startGame"},
          players : Seq(Player)]
UpMessage ==
  [type : {"joinerInfo"}]
    \cup [type : {"capabilities"}, gatherable : BOOLEAN]
    \cup [type : {"acceptJoin"}, id : Nat, look : Look]
    \cup [type : {"changeColors"}, look : Look]
Warning == {"unexpectedTopology", "unexpectedSession", "clientExists", "nullChatInfo"}
Joiner ==
  [net : JoinerState, handler : {"awaitingHello", "joining", "waiting", "startingUp"},
   id : Nat, players : Seq(Player), session : BOOLEAN, chat : SUBSET (Stream \cup {0}),
   out : Seq(UpMessage), gathered : BOOLEAN, anomalies : SUBSET Warning]

Types ==
  /\ netState \in {"gathering", "active", "uninitialized"}
  /\ players \in Seq(Player) /\ nextIdentifier \in Nat \ {0}
  /\ ungathered \in SUBSET Stream /\ connected \in SUBSET Stream
  /\ chatInfo \in SUBSET (Stream \cup {0})
  /\ client \in [Stream -> ClientState]
  /\ out \in [Stream -> Seq(DownMessage)] /\ down \in [Stream -> Seq(DownMessage)]
  /\ up \in [Stream -> Seq(UpMessage)]
  /\ failed \in {"none", "num_players", "netState", "peerAddress"}
  /\ link \in [Stream -> {"none", "up", "down"}]
  /\ joiner \in [Stream -> Joiner]
  /\ changes \in Nat /\ mishaps \in Nat

Pipe(l, away, queued) == IF l = "up" THEN away \o queued ELSE away
Down(s) == Pipe(link[s], down[s], out[s])
Up(s) == Pipe(link[s], up[s], joiner[s].out)
Alive == {"joining", "waiting", "startingUp", "active"}

----------------------------------------------------------------------------
(* The joiner's handlers, field by field.                                   *)

\* What of a joiner is the same before and after a message.
SameBut(j, h, fields) ==
  /\ "net" \in fields \/ h.net = j.net
  /\ "handler" \in fields \/ h.handler = j.handler
  /\ "id" \in fields \/ h.id = j.id
  /\ "players" \in fields \/ h.players = j.players
  /\ "session" \in fields \/ h.session = j.session
  /\ "chat" \in fields \/ h.chat = j.chat
  /\ "out" \in fields \/ h.out = j.out
  /\ "gathered" \in fields \/ h.gathered = j.gathered
  /\ "anomalies" \in fields \/ h.anomalies = j.anomalies

\* A hello is answered by whoever awaits it, once.
LEMMA HeardHello ==
  ASSUME NEW j \in Joiner, NEW g \in BOOLEAN, NEW m \in DownMessage, m.type = "hello"
  PROVE  LET h == Heard(j, m, g) IN
         /\ h \in Joiner /\ SameBut(j, h, {"handler", "out"})
         /\ j.handler = "awaitingHello" =>
              h.handler = "joining" /\ h.out = Append(j.out, JoinerInfo)
         /\ j.handler # "awaitingHello" => h.handler = j.handler /\ h.out = j.out
<1> DEFINE h == Heard(j, m, g)
           o == Append(j.out, JoinerInfo)
<1>1. h = HelloHeard(j)  BY DEF Heard
<1>2. CASE j.handler = "awaitingHello"
  <2>1. o \in Seq(UpMessage)  BY DEF Joiner, UpMessage, JoinerInfo
  <2>2. h = [[j EXCEPT !.out = o] EXCEPT !.handler = "joining"]
    BY <1>1, <1>2 DEF HelloHeard, Replies
  <2> HIDE DEF h, o
  <2>3. h \in Joiner  BY <2>1, <2>2 DEF Joiner
  <2>4. SameBut(j, h, {"handler", "out"}) /\ h.handler = "joining" /\ h.out = o
    BY <2>2 DEF Joiner, SameBut
  <2> QED  BY <1>2, <2>3, <2>4 DEF h, o
<1>3. CASE j.handler # "awaitingHello"  BY <1>1, <1>3 DEF HelloHeard, SameBut
<1> QED  BY <1>2, <1>3

\* Capabilities are answered by who is joining.
LEMMA HeardCapabilities ==
  ASSUME NEW j \in Joiner, NEW g \in BOOLEAN, NEW m \in DownMessage, m.type = "capabilities"
  PROVE  LET h == Heard(j, m, g) IN
         /\ h \in Joiner /\ SameBut(j, h, {"out"})
         /\ j.handler = "joining" => h.out = Append(j.out, Capabilities(g))
         /\ j.handler # "joining" => h.out = j.out
<1> DEFINE h == Heard(j, m, g)
           o == Append(j.out, Capabilities(g))
<1>1. h = CapabilitiesHeard(j, g)  BY DEF Heard
<1>2. CASE j.handler = "joining"
  <2>1. o \in Seq(UpMessage)  BY DEF Joiner, UpMessage, Capabilities
  <2>2. h = [j EXCEPT !.out = o]  BY <1>1, <1>2 DEF CapabilitiesHeard, Replies
  <2> HIDE DEF h, o
  <2>3. h \in Joiner  BY <2>1, <2>2 DEF Joiner
  <2>4. SameBut(j, h, {"out"}) /\ h.out = o  BY <2>2 DEF Joiner, SameBut
  <2> QED  BY <1>2, <2>3, <2>4 DEF h, o
<1>3. CASE j.handler # "joining"  BY <1>1, <1>3 DEF CapabilitiesHeard, SameBut
<1> QED  BY <1>2, <1>3

\* Who is joining and is invited takes the identifier and accepts.
LEMMA HeardJoinPlayer ==
  ASSUME NEW j \in Joiner, NEW g \in BOOLEAN, NEW m \in DownMessage, m.type = "joinPlayer"
  PROVE  LET h == Heard(j, m, g) IN
         /\ h \in Joiner /\ SameBut(j, h, {"handler", "id", "out"})
         /\ j.handler = "joining" =>
              /\ h.handler = "waiting" /\ h.id = m.id
              /\ h.out = Append(j.out, AcceptJoin(m.id, DefaultLook))
         /\ j.handler # "joining" => h.handler = j.handler /\ h.id = j.id /\ h.out = j.out
<1> DEFINE h == Heard(j, m, g)
           i == m.id
           o == Append(j.out, AcceptJoin(i, DefaultLook))
<1>1. h = JoinPlayerHeard(j, m) /\ i \in Nat  BY DEF Heard, DownMessage
<1>2. CASE j.handler = "joining"
  <2>1. o \in Seq(UpMessage)
    BY <1>1, GatheringAssumption DEF Joiner, UpMessage, AcceptJoin
  <2>2. h = [[j EXCEPT !.out = o] EXCEPT !.id = i, !.handler = "waiting"]
    BY <1>1, <1>2 DEF JoinPlayerHeard, Replies
  <2> HIDE DEF h, o, i
  <2>3. h \in Joiner  BY <1>1, <2>1, <2>2 DEF Joiner
  <2>4. SameBut(j, h, {"handler", "id", "out"})
    BY <2>2 DEF Joiner, SameBut
  <2>5. h.handler = "waiting" /\ h.id = i /\ h.out = o  BY <2>2 DEF Joiner
  <2> QED  BY <1>2, <2>3, <2>4, <2>5 DEF h, o, i
<1>3. CASE j.handler # "joining"  BY <1>1, <1>3 DEF JoinPlayerHeard, SameBut
<1> QED  BY <1>2, <1>3

\* Who waits takes the topology; anybody else takes note of an anomaly.
LEMMA HeardTopology ==
  ASSUME NEW j \in Joiner, NEW g \in BOOLEAN, NEW m \in DownMessage, m.type = "topology"
  PROVE  LET h == Heard(j, m, g) IN
         /\ h \in Joiner /\ SameBut(j, h, {"handler", "players", "gathered", "anomalies"})
         /\ j.net = "waiting" =>
              /\ h.handler = IF m.tag = "startGame" THEN "startingUp" ELSE "waiting"
              /\ h.players = m.players /\ h.anomalies = j.anomalies
         /\ j.net # "waiting" => h.handler = j.handler /\ h.players = j.players
<1> DEFINE h == Heard(j, m, g)
           ps == m.players
           state == NewState(m.tag)
<1>1. h = TopologyHeard(j, m)  BY DEF Heard
<1>2. /\ ps \in Seq(Player) /\ state \in {"startingUp", "waiting"}
      /\ state = IF m.tag = "startGame" THEN "startingUp" ELSE "waiting"
  BY DEF DownMessage, NewState
<1>3. CASE j.net = "waiting"
  <2>1. h = [j EXCEPT !.players = ps, !.handler = state, !.gathered = TRUE]
    BY <1>1, <1>3 DEF TopologyHeard
  <2> HIDE DEF h, ps, state
  <2>2. h \in Joiner  BY <1>2, <2>1 DEF Joiner
  <2>3. SameBut(j, h, {"handler", "players", "gathered", "anomalies"})
    BY <2>1 DEF Joiner, SameBut
  <2>4. h.handler = state /\ h.players = ps /\ h.anomalies = j.anomalies  BY <2>1 DEF Joiner
  <2> QED  BY <1>2, <1>3, <2>2, <2>3, <2>4 DEF h, ps
<1>4. CASE j.net # "waiting"
  <2> DEFINE a == j.anomalies \cup {"unexpectedTopology"}
  <2>1. a \in SUBSET Warning  BY DEF Joiner, Warning
  <2>2. h = [j EXCEPT !.anomalies = a]  BY <1>1, <1>4 DEF TopologyHeard, Anomaly
  <2> HIDE DEF h, a
  <2>3. h \in Joiner  BY <2>1, <2>2 DEF Joiner
  <2>4. SameBut(j, h, {"handler", "players", "gathered", "anomalies"})
    BY <2>2 DEF Joiner, SameBut
  <2>5. h.handler = j.handler /\ h.players = j.players  BY <2>2 DEF Joiner
  <2> QED  BY <1>4, <2>3, <2>4, <2>5 DEF h
<1> QED  BY <1>3, <1>4

\* Who waits takes the session; anybody else takes note of an anomaly.
LEMMA HeardGameSession ==
  ASSUME NEW j \in Joiner, NEW g \in BOOLEAN, NEW m \in DownMessage, m.type = "gameSession"
  PROVE  LET h == Heard(j, m, g) IN
         /\ h \in Joiner /\ SameBut(j, h, {"session", "anomalies"})
         /\ j.handler = "waiting" => h.session = TRUE /\ h.anomalies = j.anomalies
<1> DEFINE h == Heard(j, m, g)
<1>1. h = GameSessionHeard(j)  BY DEF Heard
<1>2. CASE j.handler = "waiting"
  <2>1. h = [j EXCEPT !.session = TRUE]  BY <1>1, <1>2 DEF GameSessionHeard
  <2> HIDE DEF h
  <2>2. h \in Joiner  BY <2>1 DEF Joiner
  <2>3. SameBut(j, h, {"session", "anomalies"}) /\ h.session = TRUE /\ h.anomalies = j.anomalies
    BY <2>1 DEF Joiner, SameBut
  <2> QED  BY <1>2, <2>2, <2>3 DEF h
<1>3. CASE j.handler # "waiting"
  <2> DEFINE a == j.anomalies \cup {"unexpectedSession"}
  <2>1. a \in SUBSET Warning  BY DEF Joiner, Warning
  <2>2. h = [j EXCEPT !.anomalies = a]  BY <1>1, <1>3 DEF GameSessionHeard, Anomaly
  <2> HIDE DEF h, a
  <2>3. h \in Joiner  BY <2>1, <2>2 DEF Joiner
  <2>4. SameBut(j, h, {"session", "anomalies"})  BY <2>2 DEF Joiner, SameBut
  <2> QED  BY <1>3, <2>3, <2>4 DEF h
<1> QED  BY <1>2, <1>3

\* Whoever has all of the game data is active.
LEMMA HeardEndGameData ==
  ASSUME NEW j \in Joiner, NEW g \in BOOLEAN, NEW m \in DownMessage, m.type = "endGameData"
  PROVE  LET h == Heard(j, m, g) IN
         h \in Joiner /\ SameBut(j, h, {"net"}) /\ h.net = "active"
<1> DEFINE h == Heard(j, m, g)
<1>1. h = [j EXCEPT !.net = "active"]  BY DEF Heard
<1> HIDE DEF h
<1>2. h \in Joiner  BY <1>1 DEF Joiner, JoinerState
<1>3. SameBut(j, h, {"net"}) /\ h.net = "active"  BY <1>1 DEF Joiner, SameBut
<1> QED  BY <1>2, <1>3 DEF h

Adds(m, t) == m.type = "clientInfo" /\ m.action = "add" /\ m.stream = t
Removes(m, t) == m.type = "clientInfo" /\ m.action = "remove" /\ m.stream = t
Updates(m, t) == m.type = "clientInfo" /\ m.action = "update" /\ m.stream = t

\* News of a chat client changes the chat info accordingly, and an anomaly is
\* noted only of an addition that is known or a change of one that is not.
LEMMA HeardClientInfo ==
  ASSUME NEW j \in Joiner, NEW g \in BOOLEAN, NEW m \in DownMessage, m.type = "clientInfo"
  PROVE  LET h == Heard(j, m, g) IN
         /\ h \in Joiner /\ SameBut(j, h, {"chat", "anomalies"})
         /\ \A t \in Stream \cup {0} :
              t \in h.chat <=> ~Removes(m, t) /\ (t \in j.chat \/ Adds(m, t))
         /\ h.anomalies = j.anomalies
              \/ \E t \in Stream \cup {0} :
                   \/ Adds(m, t) /\ t \in j.chat
                   \/ Updates(m, t) /\ t \notin j.chat
         /\ h.anomalies \subseteq j.anomalies \cup {"clientExists", "nullChatInfo"}
<1> DEFINE h == Heard(j, m, g)
           s == m.stream
<1>1. /\ h = ClientInfoHeard(j, m) /\ s \in Stream \cup {0}
      /\ m.action \in {"add", "update", "remove"}
  BY DEF Heard, DownMessage
<1>2. /\ \A t : Adds(m, t) <=> m.action = "add" /\ t = s
      /\ \A t : Removes(m, t) <=> m.action = "remove" /\ t = s
      /\ \A t : Updates(m, t) <=> m.action = "update" /\ t = s
  BY DEF Adds, Removes, Updates
<1>3. j.chat \in SUBSET (Stream \cup {0}) /\ j.anomalies \in SUBSET Warning  BY DEF Joiner
<1>4. CASE m.action = "add"
  <2> DEFINE c == j.chat \cup {s}
             a == j.anomalies \cup {"clientExists"}
  <2>1. c \in SUBSET (Stream \cup {0}) /\ a \in SUBSET Warning  BY <1>1, <1>3 DEF Warning
  <2>2. h = [(IF s \in j.chat THEN [j EXCEPT !.anomalies = a] ELSE j) EXCEPT !.chat = @ \cup {s}]
    BY <1>1, <1>4 DEF ClientInfoHeard, Anomaly
  <2>3. CASE s \in j.chat
    <3>1. h = [[j EXCEPT !.anomalies = a] EXCEPT !.chat = c]  BY <2>2, <2>3 DEF Joiner
    <3> HIDE DEF h, c, a
    <3>2. h \in Joiner  BY <2>1, <3>1 DEF Joiner
    <3>3. SameBut(j, h, {"chat", "anomalies"}) /\ h.chat = c /\ h.anomalies = a
      BY <3>1 DEF Joiner, SameBut
    <3> QED  BY <1>1, <1>2, <1>4, <2>3, <3>2, <3>3 DEF h, c, a
  <2>4. CASE s \notin j.chat
    <3>1. h = [j EXCEPT !.chat = c]  BY <2>2, <2>4 DEF Joiner
    <3> HIDE DEF h, c, a
    <3>2. h \in Joiner  BY <2>1, <3>1 DEF Joiner
    <3>3. SameBut(j, h, {"chat", "anomalies"}) /\ h.chat = c /\ h.anomalies = j.anomalies
      BY <3>1 DEF Joiner, SameBut
    <3> QED  BY <1>1, <1>2, <1>4, <3>2, <3>3 DEF h, c
  <2> QED  BY <2>3, <2>4
<1>5. CASE m.action = "remove"
  <2> DEFINE c == j.chat \ {s}
  <2>1. c \in SUBSET (Stream \cup {0})  BY <1>3
  <2>2. h = [j EXCEPT !.chat = c]  BY <1>1, <1>5 DEF ClientInfoHeard
  <2> HIDE DEF h, c
  <2>3. h \in Joiner  BY <2>1, <2>2 DEF Joiner
  <2>4. SameBut(j, h, {"chat", "anomalies"}) /\ h.chat = c /\ h.anomalies = j.anomalies
    BY <2>2 DEF Joiner, SameBut
  <2> QED  BY <1>1, <1>2, <1>5, <2>3, <2>4 DEF h, c
<1>6. CASE m.action = "update"
  <2> DEFINE a == j.anomalies \cup {"nullChatInfo"}
  <2>1. a \in SUBSET Warning  BY <1>3 DEF Warning
  <2>2. h = IF s \notin j.chat THEN [j EXCEPT !.anomalies = a] ELSE j
    BY <1>1, <1>6 DEF ClientInfoHeard, Anomaly
  <2>3. CASE s \in j.chat
    BY <1>1, <1>2, <1>6, <2>2, <2>3 DEF SameBut
  <2>4. CASE s \notin j.chat
    <3>1. h = [j EXCEPT !.anomalies = a]  BY <2>2, <2>4
    <3> HIDE DEF h, a
    <3>2. h \in Joiner  BY <2>1, <3>1 DEF Joiner
    <3>3. SameBut(j, h, {"chat", "anomalies"}) /\ h.chat = j.chat /\ h.anomalies = a
      BY <3>1 DEF Joiner, SameBut
    <3> QED  BY <1>1, <1>2, <1>6, <2>4, <3>2, <3>3 DEF h, a
  <2> QED  BY <2>3, <2>4
<1> QED  BY <1>1, <1>4, <1>5, <1>6

\* Any message leaves a joiner a joiner.
LEMMA HeardTyped ==
  ASSUME NEW j \in Joiner, NEW g \in BOOLEAN, NEW m \in DownMessage
  PROVE  Heard(j, m, g) \in Joiner
<1>1. m.type \in {"hello", "gameSession", "endGameData", "capabilities", "clientInfo",
                  "joinPlayer", "topology"}
  BY DEF DownMessage
<1>2. CASE m.type = "hello"  BY <1>2, HeardHello
<1>3. CASE m.type = "gameSession"  BY <1>3, HeardGameSession
<1>4. CASE m.type = "endGameData"  BY <1>4, HeardEndGameData
<1>5. CASE m.type = "capabilities"  BY <1>5, HeardCapabilities
<1>6. CASE m.type = "clientInfo"  BY <1>6, HeardClientInfo
<1>7. CASE m.type = "joinPlayer"  BY <1>7, HeardJoinPlayer
<1>8. CASE m.type = "topology"  BY <1>8, HeardTopology
<1> QED  BY <1>1, <1>2, <1>3, <1>4, <1>5, <1>6, <1>7, <1>8

\* A joiner who is joining hears several messages, one after the other.
Hears(h, j, ms, g) ==
  /\ h \in [0 .. Len(ms) -> Joiner] /\ h[0] = j
  /\ \A i \in 1 .. Len(ms) : h[i] = Heard(h[i - 1], ms[i], g)
HeardLoop(h, j, ms, g) ==
  h = [i \in 0 .. Len(ms) |-> IF i = 0 THEN j ELSE Heard(h[i - 1], ms[i], g)]

\* Several messages are heard one by one.
LEMMA HeardAllSteps ==
  ASSUME NEW j \in Joiner, NEW ms \in Seq(DownMessage), NEW g \in BOOLEAN
  PROVE  \E h : Hears(h, j, ms, g) /\ HeardAll(j, ms, g) = h[Len(ms)]
<1> DEFINE n == Len(ms)
           step == [i \in 1 .. n |-> [k \in Joiner |-> Heard(k, ms[i], g)]]
<1>1. n \in Nat /\ \A i \in 1 .. n : ms[i] \in DownMessage  OBVIOUS
<1>2. \E h : HeardLoop(h, j, ms, g)
  <2>1. step \in [1 .. n -> [Joiner -> Joiner]]  BY <1>1, HeardTyped
  <2>2. \A i \in 1 .. n : \A k \in Joiner : step[i][k] = Heard(k, ms[i], g)  OBVIOUS
  <2> DEFINE S == Joiner
  <2>3. j \in S /\ step \in [1 .. n -> [S -> S]]  BY <2>1
  <2> HIDE DEF step, S
  <2>4. PICK h : Run(h, n, S, j, step)  BY <1>1, <2>3, LoopRuns
  <2>5. \A i \in 0 .. n : h[i] = IF i = 0 THEN j ELSE Heard(h[i - 1], ms[i], g)
    <3> TAKE i \in 0 .. n
    <3>1. CASE i = 0  BY <2>4, <3>1 DEF Run
    <3>2. CASE i # 0
      <4>1. i \in 1 .. n /\ i - 1 \in 0 .. n  BY <1>1, <3>2
      <4>2. h[i] = step[i][h[i - 1]] /\ h[i - 1] \in S  BY <2>4, <4>1 DEF Run
      <4> QED  BY <2>2, <3>2, <4>1, <4>2 DEF S
    <3> QED  BY <3>1, <3>2
  <2>6. h = [i \in 0 .. n |-> h[i]]  BY <2>4 DEF Run
  <2>7. [i \in 0 .. n |-> h[i]]
          = [i \in 0 .. n |-> IF i = 0 THEN j ELSE Heard(h[i - 1], ms[i], g)]
    BY <2>5, Zenon
  <2>8. HeardLoop(h, j, ms, g)  BY <2>6, <2>7, Zenon DEF HeardLoop, n
  <2> QED  BY <2>8
<1> DEFINE h == CHOOSE f : HeardLoop(f, j, ms, g)
<1>3. HeardLoop(h, j, ms, g)  BY <1>2, Zenon
<1>4. HeardAll(j, ms, g) = h[n]  BY Zenon DEF HeardAll, HeardLoop
<1> HIDE DEF h
<1>5. /\ h[0] = j
      /\ \A i \in 1 .. n : i \in 0 .. n /\ i - 1 \in 0 .. n /\ h[i] = Heard(h[i - 1], ms[i], g)
  <2>1. \A i \in 0 .. n : h[i] = IF i = 0 THEN j ELSE Heard(h[i - 1], ms[i], g)
    BY <1>3, Zenon DEF HeardLoop
  <2>2. 0 \in 0 .. n /\ \A i \in 1 .. n : i \in 0 .. n /\ i # 0 /\ i - 1 \in 0 .. n
    BY <1>1
  <2> QED  BY <2>1, <2>2
<1>6. \A i \in 0 .. n : h[i] \in Joiner
  <2> DEFINE T == {i \in 0 .. n : h[i] \in Joiner}
  <2>1. 0 \in T  BY <1>1, <1>5
  <2>2. ASSUME NEW i \in 1 .. n, i - 1 \in T  PROVE i \in T
    <3>1. h[i - 1] \in Joiner /\ ms[i] \in DownMessage  BY <1>1, <2>2
    <3> QED  BY <1>5, <3>1, HeardTyped
  <2> HIDE DEF T
  <2>3. \A i \in 0 .. n : i \in T  BY <1>1, <2>1, <2>2, Steps
  <2> QED  BY <2>3 DEF T
<1>7. h \in [0 .. n -> Joiner]
  <2>1. h = [i \in 0 .. n |-> IF i = 0 THEN j ELSE Heard(h[i - 1], ms[i], g)]
    BY <1>3 DEF HeardLoop
  <2>2. h = [i \in 0 .. n |-> h[i]]  BY <2>1
  <2> HIDE DEF n
  <2> QED  BY <1>6, <2>2
<1>8. Hears(h, j, ms, g)  BY <1>5, <1>7 DEF Hears
<1> QED  BY <1>4, <1>8

----------------------------------------------------------------------------
(* The inductive invariant. For a stream, l is the connection, listed says  *)
(* whether its channel is connected, d and u are the pipes, c is the        *)
(* client's state and j the joiner; state, fate, ps and info are netState,  *)
(* failed, players and chatInfo.                                            *)

\* What the end of a connection leaves behind, and what it takes along.
LinkOk(l, listed, d, u, c, j, running) ==
  /\ l = "none" <=> j.net = "none"
  /\ l = "none" => c = "none" /\ j = NoJoiner /\ d = <<>>
  /\ listed => c # "none" /\ l # "none"
  /\ ~listed => l # "up" /\ u = <<>>
  /\ l = "up" => running /\ j.net \in Alive
  /\ j.net \notin Alive \cup {"none"} => d = <<>> /\ j.out = <<>>
Links == \A s \in Stream : LinkOk(link[s], s \in connected, Down(s), Up(s), client[s],
                                  joiner[s], Running)

\* How far a joiner is, by both of his variables.
HandlerOk(j) ==
  /\ j.net = "joining" => j.handler \in {"awaitingHello", "joining"}
  /\ j.net = "waiting" => j.handler = "waiting"
  /\ j.net \in {"startingUp", "active"} => j.handler = "startingUp"
  /\ j.net # "cancelled"
Handlers == \A s \in Stream : HandlerOk(joiner[s])

\* A joiner introduces himself once.
Introduces(u, k) == u[k].type = "joinerInfo"
IntroducedOk(u, c, j) ==
  /\ j.handler = "awaitingHello" =>
       c \in {"none", "connecting"} /\ \A k \in DOMAIN u : ~Introduces(u, k)
  /\ \A k \in DOMAIN u : Introduces(u, k) =>
       c = "connecting" /\ \A n \in DOMAIN u : Introduces(u, n) => n = k
Introduced == \A s \in Stream : IntroducedOk(Up(s), client[s], joiner[s])

\* Who has accepted, or is told that the game data are complete, is not
\* joining any more.
In == {"awaitingMap", "ingame"}
Accepts(m) == m.type = "acceptJoin"
Ends(m) == m.type = "endGameData"
JoinedOk(d, u, c, j) ==
  \/ j.net \notin {"none", "joining"}
  \/ /\ \A k \in DOMAIN u : ~Accepts(u[k])
     /\ c \notin In
     /\ \A k \in DOMAIN d : ~Ends(d[k])
Joined == \A s \in Stream : JoinedOk(Down(s), Up(s), client[s], joiner[s])

\* The dialog's list and the topology have whom they should.
Plays(s, ps) == \E i \in DOMAIN ps : ps[i].stream = s
Lists ==
  /\ netState = "gathering" => \A s \in Stream : s \in ungathered <=> client[s] = "connected"
  /\ netState # "gathering" => ungathered = {}
  /\ netState = "uninitialized" => players = <<>> /\ \A s \in Stream : client[s] = "none"
  /\ \A s \in Stream : /\ client[s] = "awaitingMap" => netState = "gathering"
                       /\ client[s] = "ingame" => netState = "active"
  /\ Running =>
       /\ 1 <= Len(players) /\ Len(players) <= MaxPlayers
       /\ players[1].stream = 0
       /\ \A i, k \in DOMAIN players : players[i].stream = players[k].stream => i = k
       /\ \A s \in Stream : Plays(s, players) <=> client[s] \in In

\* An identifier belongs to one stream: in the invitation, in what the joiner
\* knows, in his answer and in the topology.
Invites(m, id) == m.type = "joinPlayer" /\ m.id = id
AcceptsAs(m, id) == m.type = "acceptJoin" /\ m.id = id
PlaysAs(s, ps, id) == \E i \in DOMAIN ps : ps[i].stream = s /\ ps[i].id = id
Knows(d, u, j, id) ==
  \/ \E k \in DOMAIN d : Invites(d[k], id)
  \/ j.handler \notin {"awaitingHello", "joining"} /\ j.id = id
  \/ \E k \in DOMAIN u : AcceptsAs(u[k], id)
HasId(s, id) == Knows(Down(s), Up(s), joiner[s], id) \/ PlaysAs(s, players, id)
Invited == {"none", "awaitingAcceptJoin", "awaitingMap", "ingame"}
Identifiers ==
  /\ \A s \in Stream, id \in Nat :
       HasId(s, id) => id \in 1 .. (nextIdentifier - 1) /\ client[s] \in Invited
  /\ \A s, t \in Stream : \A id, jd \in Nat :
       HasId(s, id) /\ HasId(t, jd) => (s = t <=> id = jd)
  /\ \A i \in DOMAIN players : players[i].stream = 0 => players[i].id = 0

\* What is told of the topology and the session: nothing before the joiner has
\* accepted, the session first, and nothing after the start of the game.
Asked == {"connecting", "awaitingCapabilities", "ungatherable", "notYetShown", "connected",
          "awaitingAcceptJoin"}
IsTopology(m) == m.type = "topology"
IsSession(m) == m.type = "gameSession"
IsAbout(m) == m.type \in {"topology", "gameSession"}
Starts(m) == m.type = "topology" /\ m.tag = "startGame"
Playing == {"startingUp", "active"}
SessionOk(s, d, c, j, state, fate, ps) ==
  /\ c \in Asked =>
       /\ \A k \in DOMAIN d : ~IsAbout(d[k]) /\ ~Ends(d[k])
       /\ j.session = FALSE /\ j.net \notin Playing
  /\ \A k \in DOMAIN d : IsAbout(d[k]) => j.net = "waiting"
  /\ \A k \in DOMAIN d : IsTopology(d[k]) =>
       j.session = TRUE \/ \E n \in DOMAIN d : n < k /\ IsSession(d[n])
  /\ \A k, n \in DOMAIN d : k < n /\ IsTopology(d[k]) => ~IsSession(d[n])
  /\ \A k, n \in DOMAIN d : k < n /\ Starts(d[k]) => ~IsAbout(d[n])
  /\ \A k \in DOMAIN d : Starts(d[k]) =>
       state = "active" /\ (fate = "none" => d[k].players = ps /\ Plays(s, ps))
  /\ j.net \in Playing =>
       /\ state = "active" /\ j.session = TRUE
       /\ fate = "none" => j.players = ps /\ Plays(s, ps)
  /\ "unexpectedTopology" \notin j.anomalies /\ "unexpectedSession" \notin j.anomalies
Sessions == \A s \in Stream : SessionOk(s, Down(s), client[s], joiner[s], netState,
                                        failed, players)

\* Everybody in the topology has it once everything sent to him has arrived.
ToldOk(l, d, c, j, ps) ==
  l = "up" /\ c \in In =>
    \/ j.players = ps /\ \A k \in DOMAIN d : ~IsTopology(d[k])
    \/ \E k \in DOMAIN d : /\ IsTopology(d[k]) /\ d[k].players = ps
                           /\ \A n \in DOMAIN d : k < n => ~IsTopology(d[n])
Told == \A s \in Stream : ToldOk(link[s], Down(s), client[s], joiner[s], players)

\* Who waits for an answer will get it, who is in will have the session, and
\* who is to start will start.
AnswerOk(l, d, u, c, j) ==
  /\ l = "up" /\ c = "awaitingAcceptJoin" =>
       \/ j.handler = "joining" /\ \E k \in DOMAIN d : d[k].type = "joinPlayer"
       \/ \E k \in DOMAIN u : Accepts(u[k])
  /\ l = "up" /\ c \in In => j.session = TRUE \/ \E n \in DOMAIN d : IsSession(d[n])
  /\ l = "up" /\ c = "ingame" =>
       \/ \E k, n \in DOMAIN d : k < n /\ Starts(d[k]) /\ Ends(d[n])
       \/ j.net = "startingUp" /\ \E n \in DOMAIN d : Ends(d[n])
       \/ j.net = "active"
Answers == \A s \in Stream : AnswerOk(link[s], Down(s), Up(s), client[s], joiner[s])

\* No two players wear the same color.
Dressed ==
  failed = "none" => \A i, k \in DOMAIN players : players[i].color = players[k].color => i = k

\* Chat info: whom a joiner knows of after the first n messages of d, who had
\* chat before.
Known(chat, d, n, t) ==
  \/ t \in chat /\ \A k \in 1 .. n : ~Removes(d[k], t)
  \/ \E k \in 1 .. n : Adds(d[k], t) /\ \A m \in (k + 1) .. n : ~Removes(d[m], t)
Anybody == Stream \cup {0}
ChatOk(l, d, c, j, info) ==
  /\ \A k \in DOMAIN d : \A t \in Anybody :
       /\ Adds(d[k], t) => ~Known(j.chat, d, k - 1, t)
       /\ Updates(d[k], t) => Known(j.chat, d, k - 1, t)
  /\ c \in {"connecting", "awaitingCapabilities"} =>
       /\ \A t \in Anybody : t \notin j.chat
       /\ \A k \in DOMAIN d : d[k].type # "clientInfo"
  /\ l = "up" /\ CanPregameChat(c) =>
       \A t \in Anybody : t \in info <=> Known(j.chat, d, Len(d), t)
  /\ "clientExists" \notin j.anomalies /\ "nullChatInfo" \notin j.anomalies
Chats == \A s \in Stream : ChatOk(link[s], Down(s), client[s], joiner[s], chatInfo)
Unheard == \A s \in Stream : client[s] = "connecting" \/ link[s] = "none" => s \notin chatInfo

IInv == /\ Types /\ Links /\ Handlers /\ Introduced /\ Joined /\ Lists /\ Identifiers
        /\ Sessions /\ Told /\ Answers /\ Dressed /\ Chats /\ Unheard

----------------------------------------------------------------------------
(* A joiner takes the first message of his pipe.                            *)

\* The joiner j is h after message m, his netState having followed.
Greeted(j, m) == m.type = "hello" /\ j.handler = "awaitingHello"
Gathered(j, m) == m.type = "joinPlayer" /\ j.handler = "joining"
Takes(j, m, h) ==
  /\ h.handler = IF Greeted(j, m) THEN "joining" ELSE IF Gathered(j, m) THEN "waiting"
                 ELSE IF Starts(m) THEN "startingUp" ELSE j.handler
  /\ h.net = IF Gathered(j, m) THEN "waiting" ELSE IF Starts(m) THEN "startingUp"
             ELSE IF Ends(m) /\ j.net \in Playing THEN "active" ELSE j.net
  /\ h.id = IF Gathered(j, m) THEN m.id ELSE j.id
  /\ h.players = IF IsTopology(m) THEN m.players ELSE j.players
  /\ h.session = IF IsSession(m) THEN TRUE ELSE j.session
  /\ \A t \in Anybody : t \in h.chat <=> ~Removes(m, t) /\ (t \in j.chat \/ Adds(m, t))
  /\ \/ h.anomalies = j.anomalies
     \/ /\ \A a \in h.anomalies : a \in j.anomalies \cup {"clientExists", "nullChatInfo"}
        /\ \E t \in Anybody : \/ Adds(m, t) /\ t \in j.chat
                              \/ Updates(m, t) /\ t \notin j.chat

\* His answer: his pipe u becomes v.
Answered(j, m, l, u, v) ==
  \/ v = u /\ (l = "up" => ~Greeted(j, m) /\ ~Gathered(j, m))
  \/ l = "up" /\ Greeted(j, m) /\ v = Append(u, JoinerInfo)
  \/ l = "up" /\ m.type = "capabilities" /\ \E g \in BOOLEAN : v = Append(u, Capabilities(g))
  \/ l = "up" /\ Gathered(j, m) /\ v = Append(u, AcceptJoin(m.id, DefaultLook))

\* Who takes a message is alive, and takes what he should.
MayTake(j, m) ==
  /\ j.net \in Alive /\ HandlerOk(j)
  /\ IsAbout(m) => j.net = "waiting"
  /\ Ends(m) => j.net # "joining"

\* What has been answered so far stays, and only an answer comes behind it.
OneAnswer(j, m, l, u, v) ==
  /\ l = "up" /\ Len(v) = Len(u) + 1 /\ DOMAIN v = 1 .. Len(v)
  /\ \A k \in 1 .. Len(u) : v[k] = u[k]
  /\ \/ Greeted(j, m) /\ v[Len(v)] = JoinerInfo
     \/ v[Len(v)].type = "capabilities" /\ m.type = "capabilities"
     \/ Gathered(j, m) /\ v[Len(v)] = AcceptJoin(m.id, DefaultLook)

\* An answer, if any, is one message behind what was there.
LEMMA AnswerIs ==
  ASSUME NEW j, NEW m, NEW l, NEW u \in Seq(UpMessage), NEW v, Answered(j, m, l, u, v)
  PROVE  v = u \/ OneAnswer(j, m, l, u, v)
<1> USE DEF OneAnswer
<1>1. CASE v = u  BY <1>1
<1>2. CASE l = "up" /\ Greeted(j, m) /\ v = Append(u, JoinerInfo)  BY <1>2
<1>3. ASSUME NEW g \in BOOLEAN, l = "up", m.type = "capabilities", v = Append(u, Capabilities(g))
      PROVE  OneAnswer(j, m, l, u, v)
  BY <1>3 DEF Capabilities
<1>4. CASE l = "up" /\ Gathered(j, m) /\ v = Append(u, AcceptJoin(m.id, DefaultLook))  BY <1>4
<1> HIDE DEF OneAnswer
<1> QED  BY <1>1, <1>2, <1>3, <1>4 DEF Answered, OneAnswer

\* Taking a message: the connection and what is under way still fit.
LEMMA TakeLink ==
  ASSUME NEW j \in Joiner, NEW m \in DownMessage, NEW h \in Joiner, NEW l, NEW listed,
         NEW u \in Seq(UpMessage), NEW v, NEW d, NEW e, NEW c, NEW running,
         MayTake(j, m), Takes(j, m, h), Answered(j, m, l, u, v),
         LinkOk(l, listed, d, u, c, j, running)
  PROVE  LinkOk(l, listed, e, v, c, h, running)
<1>1. h.net \in Alive  BY DEF MayTake, Takes, Alive
<1>2. l # "none" /\ h.net # "none"  BY <1>1 DEF LinkOk, MayTake, Alive
<1>3. l # "up" => v = u  BY DEF Answered
<1> QED  BY <1>1, <1>2, <1>3 DEF LinkOk

\* Taking a message: netState and the handler's state still fit.
LEMMA TakeHandler ==
  ASSUME NEW j \in Joiner, NEW m \in DownMessage, NEW h \in Joiner,
         MayTake(j, m), Takes(j, m, h)
  PROVE  HandlerOk(h)
BY DEF MayTake, Takes, HandlerOk, Alive, Greeted, Gathered, Starts, IsAbout, Ends, Playing

\* Taking a message: he has still introduced himself at most once.
LEMMA TakeIntroduced ==
  ASSUME NEW j \in Joiner, NEW m \in DownMessage, NEW h \in Joiner, NEW l, NEW listed,
         NEW u \in Seq(UpMessage), NEW v, NEW c, NEW d, NEW running,
         MayTake(j, m), Takes(j, m, h), Answered(j, m, l, u, v),
         LinkOk(l, listed, d, u, c, j, running), IntroducedOk(u, c, j)
  PROVE  IntroducedOk(v, c, h)
<1>1. h.handler = "awaitingHello" => j.handler = "awaitingHello" /\ ~Greeted(j, m)
  BY DEF Takes, Greeted
<1>2. CASE v = u  BY <1>1, <1>2 DEF IntroducedOk
<1>3. CASE v # u
  <2>0. OneAnswer(j, m, l, u, v)  BY <1>3, AnswerIs
  <2>1. /\ l = "up" /\ Len(v) = Len(u) + 1 /\ DOMAIN v = 1 .. Len(v)
        /\ \A k \in 1 .. Len(u) : v[k] = u[k]
        /\ \/ Greeted(j, m) /\ v[Len(v)] = JoinerInfo
           \/ v[Len(v)].type = "capabilities" /\ m.type = "capabilities"
           \/ Gathered(j, m) /\ v[Len(v)] = AcceptJoin(m.id, DefaultLook)
    BY <2>0 DEF OneAnswer
  <2>2. Len(u) \in Nat /\ DOMAIN u = 1 .. Len(u)  OBVIOUS
  <2>3. \A k \in DOMAIN v : k = Len(v) \/ (k \in DOMAIN u /\ v[k] = u[k])  BY <2>1, <2>2
  <2>4. Introduces(v, Len(v)) => Greeted(j, m)
    BY <2>1 DEF Introduces, AcceptJoin
  <2>5. Greeted(j, m) => c = "connecting" /\ \A k \in DOMAIN u : ~Introduces(u, k)
    BY <2>1 DEF Greeted, IntroducedOk, LinkOk
  <2>6. \A k \in DOMAIN u : Introduces(v, k) <=> Introduces(u, k)
    BY <2>1, <2>2 DEF Introduces
  <2>7. j.handler = "awaitingHello" => ~Gathered(j, m)  BY DEF Gathered
  <2> QED  BY <1>1, <2>3, <2>4, <2>5, <2>6, <2>7 DEF IntroducedOk
<1> QED  BY <1>2, <1>3

\* Taking a message: nobody who has accepted is joining still.
LEMMA TakeJoined ==
  ASSUME NEW j \in Joiner, NEW d \in Seq(DownMessage), d # <<>>, NEW h \in Joiner, NEW l,
         NEW u \in Seq(UpMessage), NEW v, NEW c,
         MayTake(j, Head(d)), Takes(j, Head(d), h), Answered(j, Head(d), l, u, v),
         JoinedOk(d, u, c, j)
  PROVE  JoinedOk(Tail(d), v, c, h)
<1> DEFINE m == Head(d)
<1>1. j.net # "joining" => h.net \notin {"none", "joining"}
  BY DEF MayTake, Takes, Alive, Playing
<1>2. Gathered(j, m) => h.net \notin {"none", "joining"}  BY DEF Takes
<1>3. CASE h.net \in {"none", "joining"}
  <2>1. j.net = "joining" /\ ~Gathered(j, m)  BY <1>1, <1>2, <1>3
  <2>2. \A k \in DOMAIN v : ~Accepts(v[k])
    <3>1. \A k \in DOMAIN u : ~Accepts(u[k])  BY <2>1 DEF JoinedOk
    <3>2. m \in DownMessage  OBVIOUS
    <3> HIDE DEF m
    <3>3. CASE v # u
      <4>1. /\ Len(v) = Len(u) + 1 /\ DOMAIN v = 1 .. Len(v)
            /\ \A k \in 1 .. Len(u) : v[k] = u[k]
            /\ v[Len(v)] = JoinerInfo \/ v[Len(v)].type = "capabilities"
        BY <2>1, <3>2, <3>3, AnswerIs DEF OneAnswer, m
      <4>2. ~Accepts(v[Len(v)])  BY <4>1 DEF Accepts, JoinerInfo
      <4>3. \A k \in DOMAIN v : k = Len(v) \/ (k \in DOMAIN u /\ v[k] = u[k])  BY <4>1
      <4> QED  BY <3>1, <4>2, <4>3
    <3> QED  BY <3>1, <3>3
  <2>3. \A k \in DOMAIN Tail(d) : k + 1 \in DOMAIN d /\ Tail(d)[k] = d[k + 1]  OBVIOUS
  <2> QED  BY <2>1, <2>2, <2>3 DEF JoinedOk
<1> QED  BY <1>3 DEF JoinedOk

\* What is behind the first message of a pipe.
LEMMA Behind ==
  ASSUME NEW S, NEW d \in Seq(S), d # <<>>
  PROVE  /\ Tail(d) \in Seq(S) /\ 1 \in DOMAIN d /\ Head(d) = d[1] /\ Head(d) \in S
         /\ \A k \in DOMAIN Tail(d) : /\ k + 1 \in DOMAIN d /\ Tail(d)[k] = d[k + 1]
                                      /\ k + 1 # 1 /\ k >= 1
         /\ \A k \in DOMAIN d : k = 1 \/ (k - 1 \in DOMAIN Tail(d) /\ Tail(d)[k - 1] = d[k])
         /\ Len(d) \in Nat \ {0} /\ Len(Tail(d)) = Len(d) - 1
         /\ DOMAIN Tail(d) = 1 .. (Len(d) - 1) /\ DOMAIN d = 1 .. Len(d)
OBVIOUS

\* Taking a message: the session still comes before any topology, and a
\* topology that starts the game after all others.
LEMMA TakeSession ==
  ASSUME NEW s, NEW j \in Joiner, NEW d \in Seq(DownMessage), d # <<>>, NEW h \in Joiner,
         NEW c, NEW state, NEW fate, NEW ps,
         MayTake(j, Head(d)), Takes(j, Head(d), h), SessionOk(s, d, c, j, state, fate, ps)
  PROVE  SessionOk(s, Tail(d), c, h, state, fate, ps)
<1> DEFINE m == Head(d)
           e == Tail(d)
<1>1. /\ 1 \in DOMAIN d /\ m = d[1]
      /\ \A k \in DOMAIN e : k + 1 \in DOMAIN d /\ e[k] = d[k + 1] /\ k + 1 \in Nat /\ k \in Nat
                             /\ 1 < k + 1
  BY Behind
<1>2. MayTake(j, m) /\ Takes(j, m, h)  OBVIOUS
<1> HIDE DEF m, e
<1>3. c \in Asked =>
        /\ \A k \in DOMAIN e : ~IsAbout(e[k]) /\ ~Ends(e[k])
        /\ h.session = FALSE /\ h.net \notin Playing
  <2> SUFFICES ASSUME c \in Asked
               PROVE  /\ \A k \in DOMAIN e : ~IsAbout(e[k]) /\ ~Ends(e[k])
                      /\ h.session = FALSE /\ h.net \notin Playing
    OBVIOUS
  <2>1. /\ \A k \in DOMAIN d : ~IsAbout(d[k]) /\ ~Ends(d[k])
        /\ j.session = FALSE /\ j.net \notin Playing
    BY DEF SessionOk
  <2>2. ~IsSession(m) /\ ~Starts(m) /\ ~Ends(m)
    BY <1>1, <2>1 DEF IsAbout, IsSession, Starts
  <2>3. h.session = FALSE /\ h.net \notin Playing
    BY <1>2, <2>1, <2>2 DEF Takes, Playing
  <2> QED  BY <1>1, <2>1, <2>3
<1>4. ASSUME NEW k \in DOMAIN e, IsAbout(e[k])  PROVE h.net = "waiting"
  <2>1. j.net = "waiting" /\ ~Starts(m)
    BY <1>1, <1>4 DEF SessionOk
  <2>2. j.handler = "waiting"  BY <1>2, <2>1 DEF MayTake, HandlerOk
  <2> QED  BY <1>2, <2>1, <2>2 DEF Takes, Gathered, Playing
<1>5. ASSUME NEW k \in DOMAIN e, IsTopology(e[k])
      PROVE  h.session = TRUE \/ \E n \in DOMAIN e : n < k /\ IsSession(e[n])
  <2>1. CASE j.session = TRUE  BY <1>2, <2>1 DEF Takes
  <2>2. ASSUME NEW n \in DOMAIN d, n < k + 1, IsSession(d[n])
        PROVE  h.session = TRUE \/ \E i \in DOMAIN e : i < k /\ IsSession(e[i])
    <3>1. CASE n = 1  BY <1>1, <1>2, <2>2, <3>1 DEF Takes
    <3>2. CASE n # 1
      <4>1. n - 1 \in DOMAIN e /\ e[n - 1] = d[n]  BY <3>2, Behind DEF e
      <4>2. n - 1 < k  BY <1>1, <2>2
      <4> QED  BY <2>2, <4>1, <4>2
    <3> QED  BY <3>1, <3>2
  <2>3. k + 1 \in DOMAIN d /\ IsTopology(d[k + 1])  BY <1>1, <1>5
  <2> QED  BY <2>1, <2>2, <2>3 DEF SessionOk
<1>6. \A k, n \in DOMAIN e : k < n => k + 1 < n + 1  BY <1>1
<1>7. \A k, n \in DOMAIN e : k < n /\ IsTopology(e[k]) => ~IsSession(e[n])
  BY <1>1, <1>6 DEF SessionOk
<1>8. \A k, n \in DOMAIN e : k < n /\ Starts(e[k]) => ~IsAbout(e[n])
  BY <1>1, <1>6 DEF SessionOk
<1>9. \A k \in DOMAIN e : Starts(e[k]) =>
        state = "active" /\ (fate = "none" => e[k].players = ps /\ Plays(s, ps))
  BY <1>1 DEF SessionOk
<1>10. h.net \in Playing =>
         /\ state = "active" /\ h.session = TRUE
         /\ fate = "none" => h.players = ps /\ Plays(s, ps)
  <2> SUFFICES ASSUME h.net \in Playing
               PROVE  /\ state = "active" /\ h.session = TRUE
                      /\ fate = "none" => h.players = ps /\ Plays(s, ps)
    OBVIOUS
  <2>1. CASE Starts(m)
    <3>1. IsTopology(m) /\ IsAbout(m)  BY <2>1 DEF IsTopology, Starts, IsAbout
    <3>2. state = "active" /\ (fate = "none" => m.players = ps /\ Plays(s, ps))
      BY <1>1, <2>1 DEF SessionOk
    <3>3. j.session = TRUE
      <4>1. j.session = TRUE \/ \E n \in DOMAIN d : n < 1 /\ IsSession(d[n])
        BY <1>1, <3>1 DEF SessionOk
      <4>2. \A n \in DOMAIN d : ~(n < 1)  OBVIOUS
      <4> QED  BY <4>1, <4>2
    <3> QED  BY <1>2, <3>1, <3>2, <3>3 DEF Takes
  <2>2. CASE ~Starts(m)
    <3>1. j.net \in Playing  BY <1>2, <2>2 DEF Takes, Playing
    <3>2. /\ state = "active" /\ j.session = TRUE
          /\ fate = "none" => j.players = ps /\ Plays(s, ps)
      BY <3>1 DEF SessionOk
    <3>3. ~IsTopology(m)
      BY <1>2, <3>1 DEF MayTake, IsTopology, IsAbout, Playing
    <3> QED  BY <1>2, <3>2, <3>3 DEF Takes
  <2> QED  BY <2>1, <2>2
<1>11. "unexpectedTopology" \notin h.anomalies /\ "unexpectedSession" \notin h.anomalies
  BY <1>2 DEF Takes, SessionOk
<1> HIDE DEF SessionOk
<1>12. SessionOk(s, e, c, h, state, fate, ps)
  BY <1>3, <1>4, <1>5, <1>7, <1>8, <1>9, <1>10, <1>11 DEF SessionOk
<1> QED  BY <1>12 DEF e

\* Taking a message: he still has, or will have, the topology.
LEMMA TakeTold ==
  ASSUME NEW j \in Joiner, NEW d \in Seq(DownMessage), d # <<>>, NEW h \in Joiner,
         NEW l, NEW c, NEW ps,
         Takes(j, Head(d), h), ToldOk(l, d, c, j, ps)
  PROVE  ToldOk(l, Tail(d), c, h, ps)
<1> DEFINE m == Head(d)
           e == Tail(d)
<1>1. /\ 1 \in DOMAIN d /\ m = d[1]
      /\ \A k \in DOMAIN e : k + 1 \in DOMAIN d /\ e[k] = d[k + 1] /\ k \in Nat
      /\ \A k \in DOMAIN d : k \in Nat /\ (k = 1 \/ (k - 1 \in DOMAIN e /\ e[k - 1] = d[k]))
  BY Behind
<1>2. Takes(j, m, h)  OBVIOUS
<1> HIDE DEF m, e
<1> SUFFICES ASSUME l = "up", c \in In
             PROVE  \/ h.players = ps /\ \A k \in DOMAIN e : ~IsTopology(e[k])
                    \/ \E k \in DOMAIN e : /\ IsTopology(e[k]) /\ e[k].players = ps
                                           /\ \A n \in DOMAIN e : k < n => ~IsTopology(e[n])
  BY DEF ToldOk, e
<1>3. CASE j.players = ps /\ \A k \in DOMAIN d : ~IsTopology(d[k])
  BY <1>1, <1>2, <1>3 DEF Takes
<1>4. ASSUME NEW k \in DOMAIN d, IsTopology(d[k]), d[k].players = ps,
             \A n \in DOMAIN d : k < n => ~IsTopology(d[n])
      PROVE  \/ h.players = ps /\ \A i \in DOMAIN e : ~IsTopology(e[i])
             \/ \E i \in DOMAIN e : /\ IsTopology(e[i]) /\ e[i].players = ps
                                    /\ \A n \in DOMAIN e : i < n => ~IsTopology(e[n])
  <2>1. CASE k = 1
    <3>1. h.players = ps  BY <1>1, <1>2, <1>4, <2>1 DEF Takes
    <3>2. \A i \in DOMAIN e : ~IsTopology(e[i])
      <4>1. \A i \in DOMAIN e : i + 1 \in DOMAIN d /\ 1 < i + 1  BY Behind DEF e
      <4> QED  BY <1>1, <1>4, <2>1, <4>1
    <3> QED  BY <3>1, <3>2
  <2>2. CASE k # 1
    <3>1. k - 1 \in DOMAIN e /\ IsTopology(e[k - 1]) /\ e[k - 1].players = ps
      BY <1>1, <1>4, <2>2
    <3>2. \A n \in DOMAIN e : k - 1 < n => ~IsTopology(e[n])
      <4> TAKE n \in DOMAIN e
      <4> HAVE k - 1 < n
      <4>1. n + 1 \in DOMAIN d /\ e[n] = d[n + 1] /\ n \in Nat /\ k \in Nat  BY <1>1
      <4>2. k < n + 1  BY <4>1
      <4> QED  BY <1>4, <4>1, <4>2
    <3> QED  BY <3>1, <3>2
  <2> QED  BY <2>1, <2>2
<1> QED  BY <1>3, <1>4 DEF ToldOk

\* Taking a message: what is waited for is still to come.
LEMMA TakeAnswer ==
  ASSUME NEW j \in Joiner, NEW d \in Seq(DownMessage), d # <<>>, NEW h \in Joiner, NEW l,
         NEW u \in Seq(UpMessage), NEW v, NEW c,
         MayTake(j, Head(d)), Takes(j, Head(d), h), Answered(j, Head(d), l, u, v),
         AnswerOk(l, d, u, c, j)
  PROVE  AnswerOk(l, Tail(d), v, c, h)
<1> DEFINE m == Head(d)
           e == Tail(d)
<1>1. /\ 1 \in DOMAIN d /\ m = d[1] /\ m \in DownMessage
      /\ \A k \in DOMAIN d : k \in Nat /\ (k = 1 \/ (k - 1 \in DOMAIN e /\ e[k - 1] = d[k]))
  BY Behind
<1>2. MayTake(j, m) /\ Takes(j, m, h) /\ Answered(j, m, l, u, v)  OBVIOUS
<1> HIDE DEF m, e
<1> SUFFICES ASSUME l = "up"  PROVE AnswerOk(l, e, v, c, h)  BY DEF AnswerOk, e
<1>3. (\E k \in DOMAIN u : Accepts(u[k])) \/ Gathered(j, m) => \E k \in DOMAIN v : Accepts(v[k])
  <2>1. CASE v = u  BY <1>2, <2>1 DEF Answered, Greeted, Gathered
  <2>2. CASE v # u
    <3>0. OneAnswer(j, m, l, u, v)  BY <1>2, <2>2, AnswerIs
    <3>1. /\ Len(v) = Len(u) + 1 /\ DOMAIN v = 1 .. Len(v)
          /\ \A k \in 1 .. Len(u) : v[k] = u[k]
          /\ \/ Greeted(j, m) /\ v[Len(v)] = JoinerInfo
             \/ v[Len(v)].type = "capabilities" /\ m.type = "capabilities"
             \/ Gathered(j, m) /\ v[Len(v)] = AcceptJoin(m.id, DefaultLook)
      BY <3>0 DEF OneAnswer
    <3>2. \A k \in DOMAIN u : k \in DOMAIN v /\ v[k] = u[k]  BY <3>1
    <3>3. Gathered(j, m) => Len(v) \in DOMAIN v /\ Accepts(v[Len(v)])
      BY <3>1 DEF Gathered, Greeted, Accepts, AcceptJoin
    <3> QED  BY <3>2, <3>3
  <2> QED  BY <2>1, <2>2
<1>4. c = "awaitingAcceptJoin" =>
        \/ h.handler = "joining" /\ \E k \in DOMAIN e : e[k].type = "joinPlayer"
        \/ \E k \in DOMAIN v : Accepts(v[k])
  <2>1. ASSUME NEW k \in DOMAIN d, j.handler = "joining", d[k].type = "joinPlayer"
        PROVE  \/ h.handler = "joining" /\ \E n \in DOMAIN e : e[n].type = "joinPlayer"
               \/ Gathered(j, m)
    <3>1. CASE k = 1  BY <1>1, <2>1, <3>1 DEF Gathered
    <3>2. CASE k # 1 /\ ~Gathered(j, m)
      <4>1. h.handler = "joining"
        BY <1>2, <2>1, <3>2 DEF Takes, MayTake, HandlerOk, IsAbout, Starts
      <4> QED  BY <1>1, <2>1, <3>2, <4>1
    <3> QED  BY <3>1, <3>2
  <2> QED  BY <1>3, <2>1 DEF AnswerOk
<1>5. c \in In => h.session = TRUE \/ \E n \in DOMAIN e : IsSession(e[n])
  <2>1. ASSUME NEW n \in DOMAIN d, IsSession(d[n])
        PROVE  h.session = TRUE \/ \E k \in DOMAIN e : IsSession(e[k])
    <3>1. CASE n = 1  BY <1>1, <1>2, <2>1, <3>1 DEF Takes
    <3>2. CASE n # 1  BY <1>1, <2>1, <3>2
    <3> QED  BY <3>1, <3>2
  <2>2. j.session = TRUE => h.session = TRUE  BY <1>2 DEF Takes
  <2> QED  BY <2>1, <2>2 DEF AnswerOk
<1>6. c = "ingame" =>
       \/ \E k, n \in DOMAIN e : k < n /\ Starts(e[k]) /\ Ends(e[n])
       \/ h.net = "startingUp" /\ \E n \in DOMAIN e : Ends(e[n])
       \/ h.net = "active"
  <2>1. ASSUME NEW k \in DOMAIN d, NEW n \in DOMAIN d, k < n, Starts(d[k]), Ends(d[n])
        PROVE  \/ \E i, o \in DOMAIN e : i < o /\ Starts(e[i]) /\ Ends(e[o])
               \/ h.net = "startingUp" /\ \E o \in DOMAIN e : Ends(e[o])
    <3>1. n \in Nat /\ k \in Nat /\ n # 1 /\ n - 1 \in DOMAIN e /\ Ends(e[n - 1])
      <4>1. k \in Nat /\ n \in Nat /\ k >= 1  BY <1>1, Behind
      <4> QED  BY <1>1, <2>1, <4>1
    <3>2. CASE k = 1
      <4>1. h.net = "startingUp"
        BY <1>1, <1>2, <2>1, <3>2 DEF Takes, Gathered, Starts
      <4> QED  BY <3>1, <4>1
    <3>3. CASE k # 1
      <4>1. k - 1 \in DOMAIN e /\ Starts(e[k - 1]) /\ k - 1 < n - 1
        BY <1>1, <2>1, <3>1, <3>3
      <4> QED  BY <3>1, <4>1
    <3> QED  BY <3>2, <3>3
  <2>2. ASSUME NEW n \in DOMAIN d, Ends(d[n]), j.net = "startingUp"
        PROVE  \/ h.net = "startingUp" /\ \E o \in DOMAIN e : Ends(e[o])
               \/ h.net = "active"
    <3>1. ~Gathered(j, m) /\ ~Starts(m)
      BY <1>2, <2>2 DEF MayTake, HandlerOk, Gathered, Starts, IsAbout
    <3>2. CASE n = 1  BY <1>1, <1>2, <2>2, <3>1, <3>2 DEF Takes, Playing
    <3>3. CASE n # 1
      <4>1. h.net \in {"startingUp", "active"}  BY <1>2, <2>2, <3>1 DEF Takes, Playing
      <4> QED  BY <1>1, <2>2, <3>3, <4>1
    <3> QED  BY <3>2, <3>3
  <2>3. j.net = "active" => h.net = "active"
    BY <1>2 DEF Takes, MayTake, HandlerOk, Gathered, Starts, IsAbout
  <2> QED  BY <2>1, <2>2, <2>3 DEF AnswerOk
<1> QED  BY <1>4, <1>5, <1>6 DEF AnswerOk

\* An identifier that is known somewhere was known before.
LEMMA TakeKnows ==
  ASSUME NEW j \in Joiner, NEW d \in Seq(DownMessage), d # <<>>, NEW h \in Joiner, NEW l,
         NEW u \in Seq(UpMessage), NEW v, NEW id,
         MayTake(j, Head(d)), Takes(j, Head(d), h), Answered(j, Head(d), l, u, v),
         Knows(Tail(d), v, h, id)
  PROVE  Knows(d, u, j, id)
<1> DEFINE m == Head(d)
           e == Tail(d)
<1>1. /\ 1 \in DOMAIN d /\ m = d[1] /\ m \in DownMessage
      /\ \A k \in DOMAIN e : k + 1 \in DOMAIN d /\ e[k] = d[k + 1]
  BY Behind
<1>2. MayTake(j, m) /\ Takes(j, m, h) /\ Answered(j, m, l, u, v) /\ Knows(e, v, h, id)
  OBVIOUS
<1> HIDE DEF m, e
<1>3. Gathered(j, m) /\ m.id = id => Knows(d, u, j, id)
  BY <1>1 DEF Gathered, Knows, Invites
<1>4. CASE \E k \in DOMAIN e : Invites(e[k], id)  BY <1>1, <1>4 DEF Knows
<1>5. CASE h.handler \notin {"awaitingHello", "joining"} /\ h.id = id
  <2>1. CASE Gathered(j, m)  BY <1>2, <1>3, <1>5, <2>1 DEF Takes
  <2>2. CASE ~Gathered(j, m)
    <3>1. j.handler \notin {"awaitingHello", "joining"}
      BY <1>2, <1>5, <2>2 DEF Takes, MayTake, HandlerOk, IsAbout, Starts, Greeted
    <3> QED  BY <1>2, <1>5, <2>2, <3>1 DEF Takes, Knows
  <2> QED  BY <2>1, <2>2
<1>6. ASSUME NEW k \in DOMAIN v, AcceptsAs(v[k], id)  PROVE Knows(d, u, j, id)
  <2>1. CASE v = u  BY <1>6, <2>1 DEF Knows
  <2>2. CASE v # u
    <3>0. OneAnswer(j, m, l, u, v)  BY <1>2, <2>2, AnswerIs
    <3>1. /\ Len(v) = Len(u) + 1 /\ DOMAIN v = 1 .. Len(v)
          /\ \A i \in 1 .. Len(u) : v[i] = u[i]
          /\ \/ Greeted(j, m) /\ v[Len(v)] = JoinerInfo
             \/ v[Len(v)].type = "capabilities" /\ m.type = "capabilities"
             \/ Gathered(j, m) /\ v[Len(v)] = AcceptJoin(m.id, DefaultLook)
      BY <3>0 DEF OneAnswer
    <3>2. CASE k = Len(v)
      <4>1. Gathered(j, m) /\ m.id = id
        BY <1>6, <3>1, <3>2 DEF AcceptsAs, JoinerInfo, AcceptJoin
      <4> QED  BY <1>3, <4>1
    <3>3. CASE k # Len(v)
      <4>1. k \in DOMAIN u /\ v[k] = u[k]  BY <3>1, <3>3
      <4> QED  BY <1>6, <4>1 DEF Knows
    <3> QED  BY <3>2, <3>3
  <2> QED  BY <2>1, <2>2
<1> QED  BY <1>2, <1>4, <1>5, <1>6 DEF Knows

\* Whom a joiner knows of after n more messages, once he has taken the first.
LEMMA TakeKnown ==
  ASSUME NEW d \in Seq(DownMessage), d # <<>>, NEW chat, NEW after, NEW t, NEW n \in Nat,
         n <= Len(d) - 1,
         t \in after <=> ~Removes(Head(d), t) /\ (t \in chat \/ Adds(Head(d), t))
  PROVE  Known(after, Tail(d), n, t) <=> Known(chat, d, n + 1, t)
<1> DEFINE m == Head(d)
           e == Tail(d)
<1>1. /\ m = d[1] /\ 1 \in 1 .. (n + 1)
      /\ \A k \in 1 .. n : e[k] = d[k + 1] /\ k + 1 \in 1 .. (n + 1)
      /\ \A k \in 1 .. (n + 1) : k = 1 \/ (k - 1 \in 1 .. n /\ e[k - 1] = d[k])
  BY Behind
<1>2. t \in after <=> ~Removes(m, t) /\ (t \in chat \/ Adds(m, t))  OBVIOUS
<1> HIDE DEF m, e
<1>3. Adds(m, t) => ~Removes(m, t)  BY DEF Adds, Removes
<1>4. (\A k \in 1 .. (n + 1) : ~Removes(d[k], t))
        <=> ~Removes(m, t) /\ \A k \in 1 .. n : ~Removes(e[k], t)
  BY <1>1
<1>5. \A k \in 1 .. n :
        (\A i \in (k + 1) .. n : ~Removes(e[i], t))
          <=> \A i \in (k + 1 + 1) .. (n + 1) : ~Removes(d[i], t)
  <2> TAKE k \in 1 .. n
  <2>1. \A i \in (k + 1) .. n : i \in 1 .. n /\ i + 1 \in (k + 1 + 1) .. (n + 1)  OBVIOUS
  <2>2. \A i \in (k + 1 + 1) .. (n + 1) :
          i # 1 /\ i \in 1 .. (n + 1) /\ i - 1 \in (k + 1) .. n
    OBVIOUS
  <2> QED  BY <1>1, <2>1, <2>2
<1>6. (\A k \in 1 .. n : ~Removes(e[k], t))
        <=> \A i \in (1 + 1) .. (n + 1) : ~Removes(d[i], t)
  <2>1. \A i \in 1 .. n : i + 1 \in (1 + 1) .. (n + 1)  OBVIOUS
  <2>2. \A i \in (1 + 1) .. (n + 1) : i # 1 /\ i \in 1 .. (n + 1) /\ i - 1 \in 1 .. n  OBVIOUS
  <2> QED  BY <1>1, <2>1, <2>2
<1>7. ASSUME Known(after, e, n, t)  PROVE Known(chat, d, n + 1, t)
  <2>1. CASE t \in after /\ \A k \in 1 .. n : ~Removes(e[k], t)
    <3>1. CASE t \in chat  BY <1>2, <1>4, <2>1, <3>1 DEF Known
    <3>2. CASE Adds(m, t)  BY <1>1, <1>6, <2>1, <3>2 DEF Known
    <3> QED  BY <1>2, <2>1, <3>1, <3>2
  <2>2. ASSUME NEW k \in 1 .. n, Adds(e[k], t), \A i \in (k + 1) .. n : ~Removes(e[i], t)
        PROVE  Known(chat, d, n + 1, t)
    <3>1. k + 1 \in 1 .. (n + 1) /\ Adds(d[k + 1], t)  BY <1>1, <2>2
    <3>2. \A i \in (k + 1 + 1) .. (n + 1) : ~Removes(d[i], t)  BY <1>5, <2>2
    <3> QED  BY <3>1, <3>2 DEF Known
  <2> QED  BY <1>7, <2>1, <2>2 DEF Known
<1>8. ASSUME Known(chat, d, n + 1, t)  PROVE Known(after, e, n, t)
  <2>1. CASE t \in chat /\ \A k \in 1 .. (n + 1) : ~Removes(d[k], t)
    BY <1>2, <1>4, <2>1 DEF Known
  <2>2. ASSUME NEW k \in 1 .. (n + 1), Adds(d[k], t),
               \A i \in (k + 1) .. (n + 1) : ~Removes(d[i], t)
        PROVE  Known(after, e, n, t)
    <3>1. CASE k = 1
      <4>1. t \in after  BY <1>1, <1>2, <1>3, <2>2, <3>1
      <4>2. \A i \in 1 .. n : ~Removes(e[i], t)  BY <1>6, <2>2, <3>1
      <4> QED  BY <4>1, <4>2 DEF Known
    <3>2. CASE k # 1
      <4>1. k - 1 \in 1 .. n /\ Adds(e[k - 1], t) /\ (k - 1) + 1 = k  BY <1>1, <2>2, <3>2
      <4>2. \A i \in ((k - 1) + 1) .. n : ~Removes(e[i], t)
        BY <1>5, <2>2, <4>1
      <4> QED  BY <4>1, <4>2 DEF Known
    <3> QED  BY <3>1, <3>2
  <2> QED  BY <1>8, <2>1, <2>2 DEF Known
<1>9. Known(after, e, n, t) <=> Known(chat, d, n + 1, t)  BY <1>7, <1>8
<1> QED  BY <1>9 DEF e

\* Taking a message: he still has, or will have, the chat info.
LEMMA TakeChat ==
  ASSUME NEW j \in Joiner, NEW d \in Seq(DownMessage), d # <<>>, NEW h \in Joiner,
         NEW l, NEW c, NEW info, Takes(j, Head(d), h), ChatOk(l, d, c, j, info)
  PROVE  ChatOk(l, Tail(d), c, h, info)
<1> DEFINE m == Head(d)
           e == Tail(d)
<1>1. /\ 1 \in DOMAIN d /\ m = d[1] /\ Len(d) - 1 \in Nat /\ Len(e) = Len(d) - 1
      /\ \A k \in DOMAIN e : /\ k + 1 \in DOMAIN d /\ e[k] = d[k + 1]
                             /\ k - 1 \in Nat /\ k - 1 <= Len(d) - 1
                             /\ (k - 1) + 1 = (k + 1) - 1
  BY Behind
<1>2. /\ Takes(j, m, h)
      /\ \A t \in Anybody : \A n \in Nat :
           n <= Len(d) - 1 => (Known(h.chat, e, n, t) <=> Known(j.chat, d, n + 1, t))
  <2>1. ASSUME NEW t \in Anybody, NEW n \in Nat, n <= Len(d) - 1
        PROVE  Known(h.chat, e, n, t) <=> Known(j.chat, d, n + 1, t)
    <3>1. t \in h.chat <=> ~Removes(m, t) /\ (t \in j.chat \/ Adds(m, t))  BY DEF Takes
    <3> QED  BY <2>1, <3>1, TakeKnown
  <2> QED  BY <2>1
<1> HIDE DEF m, e
<1>3. ASSUME NEW k \in DOMAIN e, NEW t \in Anybody
      PROVE  /\ Adds(e[k], t) => ~Known(h.chat, e, k - 1, t)
             /\ Updates(e[k], t) => Known(h.chat, e, k - 1, t)
  <2>1. Known(h.chat, e, k - 1, t) <=> Known(j.chat, d, (k + 1) - 1, t)  BY <1>1, <1>2
  <2> QED  BY <1>1, <2>1 DEF ChatOk
<1>4. c \in {"connecting", "awaitingCapabilities"} =>
        /\ \A t \in Anybody : t \notin h.chat
        /\ \A k \in DOMAIN e : e[k].type # "clientInfo"
  <2>1. m.type # "clientInfo" => \A t \in Anybody : t \in h.chat <=> t \in j.chat
    BY <1>2 DEF Takes, Adds, Removes
  <2> QED  BY <1>1, <2>1 DEF ChatOk
<1>5. l = "up" /\ CanPregameChat(c) =>
        \A t \in Anybody : t \in info <=> Known(h.chat, e, Len(e), t)
  <2>1. \A t \in Anybody : Known(h.chat, e, Len(e), t) <=> Known(j.chat, d, Len(d), t)
    <3>1. Len(e) \in Nat /\ Len(e) <= Len(d) - 1 /\ Len(e) + 1 = Len(d)  BY <1>1
    <3> QED  BY <1>2, <3>1
  <2> QED  BY <2>1 DEF ChatOk
<1>6. "clientExists" \notin h.anomalies /\ "nullChatInfo" \notin h.anomalies
  <2>1. ASSUME NEW t \in Anybody
        PROVE  ~(Adds(m, t) /\ t \in j.chat) /\ ~(Updates(m, t) /\ t \notin j.chat)
    <3>1. /\ Adds(d[1], t) => ~Known(j.chat, d, 1 - 1, t)
          /\ Updates(d[1], t) => Known(j.chat, d, 1 - 1, t)
      BY <1>1 DEF ChatOk
    <3>2. Known(j.chat, d, 1 - 1, t) <=> t \in j.chat  BY DEF Known
    <3> QED  BY <1>1, <3>1, <3>2
  <2>2. h.anomalies = j.anomalies  BY <1>2, <2>1 DEF Takes
  <2> QED  BY <2>2 DEF ChatOk
<1>7. ChatOk(l, e, c, h, info)  BY <1>3, <1>4, <1>5, <1>6 DEF ChatOk
<1> QED  BY <1>7 DEF e

\* All that the invariant says of one stream, for the gatherer as he is.
StreamOk(s, l, d, u, j) ==
  /\ d \in Seq(DownMessage) /\ u \in Seq(UpMessage) /\ j \in Joiner
  /\ LinkOk(l, s \in connected, d, u, client[s], j, Running)
  /\ HandlerOk(j) /\ IntroducedOk(u, client[s], j) /\ JoinedOk(d, u, client[s], j)
  /\ SessionOk(s, d, client[s], j, netState, failed, players)
  /\ ToldOk(l, d, client[s], j, players)
  /\ AnswerOk(l, d, u, client[s], j)
  /\ ChatOk(l, d, client[s], j, chatInfo)

\* Taking a message keeps all that the invariant says of a stream.
LEMMA TakeOne ==
  ASSUME NEW s, NEW l, NEW d, NEW u, NEW j, StreamOk(s, l, d, u, j), d # <<>>,
         NEW h \in Joiner, NEW v \in Seq(UpMessage),
         MayTake(j, Head(d)), Takes(j, Head(d), h), Answered(j, Head(d), l, u, v)
  PROVE  StreamOk(s, l, Tail(d), v, h)
<1> DEFINE c == client[s]
           listed == s \in connected
           running == Running
           m == Head(d)
<1>1. /\ d \in Seq(DownMessage) /\ u \in Seq(UpMessage) /\ j \in Joiner
      /\ LinkOk(l, listed, d, u, c, j, running)
      /\ HandlerOk(j) /\ IntroducedOk(u, c, j) /\ JoinedOk(d, u, c, j)
      /\ SessionOk(s, d, c, j, netState, failed, players)
      /\ ToldOk(l, d, c, j, players) /\ AnswerOk(l, d, u, c, j)
      /\ ChatOk(l, d, c, j, chatInfo)
  BY DEF StreamOk
<1>2. Tail(d) \in Seq(DownMessage) /\ m \in DownMessage  BY <1>1
<1>3. MayTake(j, m) /\ Takes(j, m, h) /\ Answered(j, m, l, u, v)  OBVIOUS
<1> HIDE DEF c, listed, running
<1>4. LinkOk(l, listed, Tail(d), v, c, h, running)
  <2> HIDE DEF m
  <2> QED  BY <1>1, <1>2, <1>3, TakeLink
<1>5. HandlerOk(h)
  <2> HIDE DEF m
  <2> QED  BY <1>1, <1>2, <1>3, TakeHandler
<1>6. IntroducedOk(v, c, h)
  <2> HIDE DEF m
  <2> QED  BY <1>1, <1>2, <1>3, TakeIntroduced
<1>7. JoinedOk(Tail(d), v, c, h)  BY <1>1, <1>3, TakeJoined
<1>8. SessionOk(s, Tail(d), c, h, netState, failed, players)  BY <1>1, <1>3, TakeSession
<1>9. ToldOk(l, Tail(d), c, h, players)  BY <1>1, <1>3, TakeTold
<1>10. AnswerOk(l, Tail(d), v, c, h)  BY <1>1, <1>3, TakeAnswer
<1>11. ChatOk(l, Tail(d), c, h, chatInfo)  BY <1>1, <1>3, TakeChat
<1> QED
  BY <1>2, <1>4, <1>5, <1>6, <1>7, <1>8, <1>9, <1>10, <1>11 DEF StreamOk, c, listed, running

\* What is queued makes no difference to it once it counts as under way.
LEMMA OutAside ==
  ASSUME NEW s, NEW l, NEW d, NEW u, NEW j, StreamOk(s, l, d, u, j), j.net \in Alive,
         NEW h \in Joiner, SameBut(j, h, {"out"})
  PROVE  StreamOk(s, l, d, u, h)
<1>1. /\ h.net = j.net /\ h.handler = j.handler /\ h.id = j.id /\ h.players = j.players
      /\ h.session = j.session /\ h.chat = j.chat /\ h.anomalies = j.anomalies
  BY DEF SameBut
<1>2. d \in Seq(DownMessage) /\ u \in Seq(UpMessage)  BY DEF StreamOk
<1>3. LinkOk(l, s \in connected, d, u, client[s], h, Running)
  <2>1. LinkOk(l, s \in connected, d, u, client[s], j, Running)  BY DEF StreamOk
  <2>2. l # "none"  BY <2>1 DEF LinkOk, Alive
  <2> QED  BY <1>1, <2>1, <2>2 DEF LinkOk
<1>4. HandlerOk(h)  BY <1>1 DEF StreamOk, HandlerOk
<1>5. IntroducedOk(u, client[s], h)  BY <1>1 DEF StreamOk, IntroducedOk
<1>6. JoinedOk(d, u, client[s], h)  BY <1>1 DEF StreamOk, JoinedOk
<1>7. SessionOk(s, d, client[s], h, netState, failed, players)
  BY <1>1 DEF StreamOk, SessionOk
<1>8. ToldOk(l, d, client[s], h, players)  BY <1>1 DEF StreamOk, ToldOk
<1>9. AnswerOk(l, d, u, client[s], h)  BY <1>1 DEF StreamOk, AnswerOk
<1>10. ChatOk(l, d, client[s], h, chatInfo)  BY <1>1 DEF StreamOk, ChatOk
<1> QED
  BY <1>2, <1>3, <1>4, <1>5, <1>6, <1>7, <1>8, <1>9, <1>10 DEF StreamOk

\* While he waits: his netState follows his handler.
LEMMA WaitingTakes ==
  ASSUME NEW j \in Joiner, j.net = "waiting", j.handler = "waiting", j.out = <<>>,
         NEW m \in DownMessage
  PROVE  LET h == [Heard(j, m, TRUE) EXCEPT !.net = Heard(j, m, TRUE).handler]
         IN h \in Joiner /\ h.out = <<>> /\ Takes(j, m, h)
<1> DEFINE k == Heard(j, m, TRUE)
           h == [k EXCEPT !.net = k.handler]
<1>1. m.type \in {"hello", "gameSession", "endGameData", "capabilities", "clientInfo",
                  "joinPlayer", "topology"}
  BY DEF DownMessage
<1>2. TRUE \in BOOLEAN  OBVIOUS
<1>3. /\ k \in Joiner /\ k.out = <<>> /\ k.id = j.id
      /\ k.handler = IF Starts(m) THEN "startingUp" ELSE "waiting"
      /\ k.players = IF IsTopology(m) THEN m.players ELSE j.players
      /\ k.session = IF IsSession(m) THEN TRUE ELSE j.session
      /\ \A t \in Anybody : t \in k.chat <=> ~Removes(m, t) /\ (t \in j.chat \/ Adds(m, t))
      /\ \/ k.anomalies = j.anomalies
         \/ /\ \A a \in k.anomalies : a \in j.anomalies \cup {"clientExists", "nullChatInfo"}
            /\ \E t \in Anybody : \/ Adds(m, t) /\ t \in j.chat
                                  \/ Updates(m, t) /\ t \notin j.chat
  <2> USE DEF SameBut, Starts, IsTopology, IsSession
  <2> HIDE DEF k
  <2>0. m.type # "clientInfo" => \A t : ~Adds(m, t) /\ ~Removes(m, t)
    BY DEF Adds, Removes
  <2>1. CASE m.type = "hello"
    <3>1. /\ k \in Joiner /\ SameBut(j, k, {"handler", "out"})
          /\ k.handler = j.handler /\ k.out = j.out
      BY <1>2, <2>1, HeardHello DEF k
    <3> QED  BY <2>0, <2>1, <3>1
  <2>2. CASE m.type = "gameSession"
    <3>1. k \in Joiner /\ SameBut(j, k, {"session", "anomalies"}) /\ k.session = TRUE
          /\ k.anomalies = j.anomalies
      BY <1>2, <2>2, HeardGameSession DEF k
    <3> QED  BY <2>0, <2>2, <3>1
  <2>3. CASE m.type = "endGameData"
    <3>1. k \in Joiner /\ SameBut(j, k, {"net"})
      BY <1>2, <2>3, HeardEndGameData DEF k
    <3> QED  BY <2>0, <2>3, <3>1
  <2>4. CASE m.type = "capabilities"
    <3>1. k \in Joiner /\ SameBut(j, k, {"out"}) /\ k.out = j.out
      BY <1>2, <2>4, HeardCapabilities DEF k
    <3> QED  BY <2>0, <2>4, <3>1
  <2>5. CASE m.type = "clientInfo"
    <3>1. /\ k \in Joiner /\ SameBut(j, k, {"chat", "anomalies"})
          /\ \A t \in Stream \cup {0} :
               t \in k.chat <=> ~Removes(m, t) /\ (t \in j.chat \/ Adds(m, t))
          /\ k.anomalies = j.anomalies
               \/ \E t \in Stream \cup {0} :
                    \/ Adds(m, t) /\ t \in j.chat
                    \/ Updates(m, t) /\ t \notin j.chat
          /\ k.anomalies \subseteq j.anomalies \cup {"clientExists", "nullChatInfo"}
      BY <1>2, <2>5, HeardClientInfo DEF k
    <3> QED  BY <2>5, <3>1 DEF Anybody
  <2>6. CASE m.type = "joinPlayer"
    <3>1. k \in Joiner /\ SameBut(j, k, {"handler", "id", "out"})
          /\ k.handler = j.handler /\ k.id = j.id /\ k.out = j.out
      BY <1>2, <2>6, HeardJoinPlayer DEF k
    <3> QED  BY <2>0, <2>6, <3>1
  <2>7. CASE m.type = "topology"
    <3>1. k \in Joiner /\ SameBut(j, k, {"handler", "players", "gathered", "anomalies"})
          /\ k.handler = (IF m.tag = "startGame" THEN "startingUp" ELSE "waiting")
          /\ k.players = m.players /\ k.anomalies = j.anomalies
      BY <1>2, <2>7, HeardTopology DEF k
    <3> QED  BY <2>0, <2>7, <3>1
  <2> QED  BY <1>1, <2>1, <2>2, <2>3, <2>4, <2>5, <2>6, <2>7
<1> HIDE DEF k
<1>4. k.handler \in JoinerState  BY <1>3 DEF JoinerState
<1>5. h \in Joiner  BY <1>3, <1>4 DEF Joiner
<1>6. SameBut(k, h, {"net"}) /\ h.net = k.handler  BY <1>3 DEF Joiner, SameBut
<1> HIDE DEF h
<1>7. h.out = <<>> /\ Takes(j, m, h)
  BY <1>3, <1>6 DEF SameBut, Takes, Greeted, Gathered, Playing
<1> QED  BY <1>5, <1>7 DEF h, k

\* Once he starts up: the message says where his netState goes.
LEMMA StartedTakes ==
  ASSUME NEW j \in Joiner, j.net \in Playing, j.handler = "startingUp", j.out = <<>>,
         NEW m \in DownMessage, ~IsAbout(m)
  PROVE  LET h == Heard(j, m, TRUE)
         IN h \in Joiner /\ h.out = <<>> /\ Takes(j, m, h)
<1> DEFINE h == Heard(j, m, TRUE)
<1>1. m.type \in {"hello", "endGameData", "capabilities", "clientInfo", "joinPlayer"}
  BY DEF DownMessage, IsAbout
<1>2. TRUE \in BOOLEAN /\ ~Starts(m) /\ ~IsTopology(m) /\ ~IsSession(m)
  BY DEF IsAbout, Starts, IsTopology, IsSession
<1>3. /\ h \in Joiner /\ h.out = <<>> /\ h.id = j.id /\ h.handler = "startingUp"
      /\ h.net = IF Ends(m) THEN "active" ELSE j.net
      /\ h.players = j.players /\ h.session = j.session
      /\ \A t \in Anybody : t \in h.chat <=> ~Removes(m, t) /\ (t \in j.chat \/ Adds(m, t))
      /\ \/ h.anomalies = j.anomalies
         \/ /\ \A a \in h.anomalies : a \in j.anomalies \cup {"clientExists", "nullChatInfo"}
            /\ \E t \in Anybody : \/ Adds(m, t) /\ t \in j.chat
                                  \/ Updates(m, t) /\ t \notin j.chat
  <2> USE DEF SameBut, Ends
  <2> HIDE DEF h
  <2>0. m.type # "clientInfo" => \A t : ~Adds(m, t) /\ ~Removes(m, t)
    BY DEF Adds, Removes
  <2>1. CASE m.type = "hello"
    <3>1. /\ h \in Joiner /\ SameBut(j, h, {"handler", "out"})
          /\ h.handler = j.handler /\ h.out = j.out
      BY <1>2, <2>1, HeardHello DEF h
    <3> QED  BY <2>0, <2>1, <3>1
  <2>2. CASE m.type = "endGameData"
    <3>1. h \in Joiner /\ SameBut(j, h, {"net"}) /\ h.net = "active"
      BY <1>2, <2>2, HeardEndGameData DEF h
    <3> QED  BY <2>0, <2>2, <3>1
  <2>3. CASE m.type = "capabilities"
    <3>1. h \in Joiner /\ SameBut(j, h, {"out"}) /\ h.out = j.out
      BY <1>2, <2>3, HeardCapabilities DEF h
    <3> QED  BY <2>0, <2>3, <3>1
  <2>4. CASE m.type = "clientInfo"
    <3>1. /\ h \in Joiner /\ SameBut(j, h, {"chat", "anomalies"})
          /\ \A t \in Stream \cup {0} :
               t \in h.chat <=> ~Removes(m, t) /\ (t \in j.chat \/ Adds(m, t))
          /\ h.anomalies = j.anomalies
               \/ \E t \in Stream \cup {0} :
                    \/ Adds(m, t) /\ t \in j.chat
                    \/ Updates(m, t) /\ t \notin j.chat
          /\ h.anomalies \subseteq j.anomalies \cup {"clientExists", "nullChatInfo"}
      BY <1>2, <2>4, HeardClientInfo DEF h
    <3> QED  BY <2>4, <3>1 DEF Anybody
  <2>5. CASE m.type = "joinPlayer"
    <3>1. /\ h \in Joiner /\ SameBut(j, h, {"handler", "id", "out"})
          /\ h.handler = j.handler /\ h.id = j.id /\ h.out = j.out
      BY <1>2, <2>5, HeardJoinPlayer DEF h
    <3> QED  BY <2>0, <2>5, <3>1
  <2> QED  BY <1>1, <2>1, <2>2, <2>3, <2>4, <2>5
<1> HIDE DEF h
<1>4. Takes(j, m, h)
  BY <1>2, <1>3 DEF Takes, Greeted, Gathered
<1> QED  BY <1>3, <1>4 DEF h

\* While he is joining his netState follows his handler only in the end; as he
\* would be if it followed at once:
Following(j) == IF j.handler = "waiting" THEN [j EXCEPT !.net = "waiting"] ELSE j

\* netState follows the handler's state and nothing else changes.
LEMMA FollowingIs ==
  ASSUME NEW j \in Joiner, j.net = "joining"
  PROVE  /\ Following(j) \in Joiner /\ SameBut(j, Following(j), {"net"})
         /\ Following(j).net = IF j.handler = "waiting" THEN "waiting" ELSE "joining"
<1> DEFINE h == [j EXCEPT !.net = "waiting"]
<1>1. h \in Joiner  BY DEF Joiner, JoinerState
<1>2. SameBut(j, h, {"net"}) /\ h.net = "waiting"  BY DEF SameBut, Joiner
<1>3. SameBut(j, j, {"net"})  BY DEF SameBut
<1> QED  BY <1>1, <1>2, <1>3 DEF Following

\* A message that is heard while joining is taken as it should.
LEMMA JoiningTakes ==
  ASSUME NEW j \in Joiner, j.net = "joining",
         j.handler \in {"awaitingHello", "joining", "waiting"},
         NEW m \in DownMessage, ~IsAbout(m), ~Ends(m), NEW g \in BOOLEAN
  PROVE  LET h == Heard(j, m, g)
         IN /\ h \in Joiner /\ h.net = "joining"
            /\ h.handler \in {"awaitingHello", "joining", "waiting"}
            /\ Takes(Following(j), m, Following(h))
            /\ \A l : Answered(Following(j), m, l, j.out, IF l = "up" THEN h.out ELSE j.out)
<1> DEFINE h == Heard(j, m, g)
<1>1. m.type \in {"hello", "capabilities", "clientInfo", "joinPlayer"}
  BY DEF DownMessage, IsAbout, Ends
<1>2. ~Starts(m) /\ ~IsTopology(m) /\ ~IsSession(m)
  BY DEF IsAbout, Starts, IsTopology, IsSession
<1>3. /\ h \in Joiner /\ h.net = "joining"
      /\ h.handler = IF Greeted(j, m) THEN "joining" ELSE IF Gathered(j, m) THEN "waiting"
                     ELSE j.handler
      /\ h.id = IF Gathered(j, m) THEN m.id ELSE j.id
      /\ h.players = j.players /\ h.session = j.session
      /\ \A t \in Anybody : t \in h.chat <=> ~Removes(m, t) /\ (t \in j.chat \/ Adds(m, t))
      /\ \/ h.anomalies = j.anomalies
         \/ /\ \A a \in h.anomalies : a \in j.anomalies \cup {"clientExists", "nullChatInfo"}
            /\ \E t \in Anybody : \/ Adds(m, t) /\ t \in j.chat
                                  \/ Updates(m, t) /\ t \notin j.chat
      /\ \/ h.out = j.out /\ ~Greeted(j, m) /\ ~Gathered(j, m)
         \/ Greeted(j, m) /\ h.out = Append(j.out, JoinerInfo)
         \/ m.type = "capabilities" /\ h.out = Append(j.out, Capabilities(g))
         \/ Gathered(j, m) /\ h.out = Append(j.out, AcceptJoin(m.id, DefaultLook))
  <2> USE DEF SameBut, Greeted, Gathered
  <2> HIDE DEF h
  <2>0. m.type # "clientInfo" => \A t : ~Adds(m, t) /\ ~Removes(m, t)
    BY DEF Adds, Removes
  <2>1. CASE m.type = "hello"
    <3>1. /\ h \in Joiner /\ SameBut(j, h, {"handler", "out"})
          /\ j.handler = "awaitingHello" =>
               h.handler = "joining" /\ h.out = Append(j.out, JoinerInfo)
          /\ j.handler # "awaitingHello" => h.handler = j.handler /\ h.out = j.out
      BY <2>1, HeardHello DEF h
    <3> QED  BY <2>0, <2>1, <3>1
  <2>2. CASE m.type = "capabilities"
    <3>1. /\ h \in Joiner /\ SameBut(j, h, {"out"})
          /\ j.handler = "joining" => h.out = Append(j.out, Capabilities(g))
          /\ j.handler # "joining" => h.out = j.out
      BY <2>2, HeardCapabilities DEF h
    <3> QED  BY <2>0, <2>2, <3>1
  <2>3. CASE m.type = "clientInfo"
    <3>1. /\ h \in Joiner /\ SameBut(j, h, {"chat", "anomalies"})
          /\ \A t \in Stream \cup {0} :
               t \in h.chat <=> ~Removes(m, t) /\ (t \in j.chat \/ Adds(m, t))
          /\ h.anomalies = j.anomalies
               \/ \E t \in Stream \cup {0} :
                    \/ Adds(m, t) /\ t \in j.chat
                    \/ Updates(m, t) /\ t \notin j.chat
          /\ h.anomalies \subseteq j.anomalies \cup {"clientExists", "nullChatInfo"}
      BY <2>3, HeardClientInfo DEF h
    <3> QED  BY <2>3, <3>1 DEF Anybody
  <2>4. CASE m.type = "joinPlayer"
    <3>1. /\ h \in Joiner /\ SameBut(j, h, {"handler", "id", "out"})
          /\ j.handler = "joining" =>
               /\ h.handler = "waiting" /\ h.id = m.id
               /\ h.out = Append(j.out, AcceptJoin(m.id, DefaultLook))
          /\ j.handler # "joining" => h.handler = j.handler /\ h.id = j.id /\ h.out = j.out
      BY <2>4, HeardJoinPlayer DEF h
    <3> QED  BY <2>0, <2>4, <3>1
  <2> QED  BY <1>1, <2>1, <2>2, <2>3, <2>4
<1> HIDE DEF h
<1>4. h.handler \in {"awaitingHello", "joining", "waiting"}  BY <1>3
<1> DEFINE j1 == Following(j)
           h1 == Following(h)
<1>5. /\ SameBut(j, j1, {"net"})
      /\ j1.net = IF j.handler = "waiting" THEN "waiting" ELSE "joining"
      /\ SameBut(h, h1, {"net"})
      /\ h1.net = IF h.handler = "waiting" THEN "waiting" ELSE "joining"
  BY <1>3, FollowingIs
<1> HIDE DEF j1, h1
<1>6. (Greeted(j1, m) <=> Greeted(j, m)) /\ (Gathered(j1, m) <=> Gathered(j, m))
  BY <1>5 DEF Greeted, Gathered, SameBut
<1>7. Takes(j1, m, h1)
  <2>1. ~Ends(m)  OBVIOUS
  <2>2. /\ h1.handler = h.handler /\ h1.id = h.id /\ h1.players = h.players
        /\ h1.session = h.session /\ h1.chat = h.chat /\ h1.anomalies = h.anomalies
        /\ j1.handler = j.handler /\ j1.id = j.id /\ j1.players = j.players
        /\ j1.session = j.session /\ j1.chat = j.chat /\ j1.anomalies = j.anomalies
    BY <1>5 DEF SameBut
  <2>3. h1.net = IF Gathered(j1, m) THEN "waiting" ELSE j1.net
    BY <1>3, <1>5, <1>6 DEF Greeted, Gathered
  <2> QED  BY <1>2, <1>3, <1>6, <2>1, <2>2, <2>3 DEF Takes
<1>8. ASSUME NEW l  PROVE Answered(j1, m, l, j.out, IF l = "up" THEN h.out ELSE j.out)
  BY <1>3, <1>6 DEF Answered
<1> QED  BY <1>3, <1>4, <1>7, <1>8 DEF h, j1, h1

----------------------------------------------------------------------------
(* Pipes.                                                                   *)

PipeGives(S, l, a, q) ==
  /\ Pipe(l, a, q) \in Seq(S) /\ Pipe(l, a, <<>>) = a
  /\ Len(Pipe(l, a, q)) = IF l = "up" THEN Len(a) + Len(q) ELSE Len(a)
  /\ \A k \in 1 .. Len(a) : k \in DOMAIN Pipe(l, a, q) /\ Pipe(l, a, q)[k] = a[k]

\* A pipe has what is under way and behind it, if the connection is up, what
\* is queued.
LEMMA PipeIs ==
  ASSUME NEW S, NEW l, NEW a \in Seq(S), NEW q \in Seq(S)
  PROVE  PipeGives(S, l, a, q)
<1>1. /\ a \o q \in Seq(S) /\ Len(a \o q) = Len(a) + Len(q)
      /\ \A i \in 1 .. Len(a) + Len(q) : (a \o q)[i] = IF i <= Len(a) THEN a[i] ELSE q[i - Len(a)]
  BY ConcatProperties
<1>2. a \o <<>> = a  BY ConcatEmptySeq
<1>3. Len(a) \in Nat /\ Len(q) \in Nat  OBVIOUS
<1> DEFINE p == a \o q
<1> HIDE DEF p
<1>4. \A k \in 1 .. Len(a) : k \in 1 .. Len(a) + Len(q) /\ k <= Len(a)  BY <1>3
<1>5. \A k \in 1 .. Len(a) : k \in DOMAIN p /\ p[k] = a[k]  BY <1>1, <1>4 DEF p
<1> QED  BY <1>1, <1>2, <1>5 DEF Pipe, p, PipeGives

\* The same, spelled out.
LEMMA PipeTyped ==
  ASSUME NEW S, NEW l, NEW a \in Seq(S), NEW q \in Seq(S)
  PROVE  /\ Pipe(l, a, q) \in Seq(S) /\ Pipe(l, a, <<>>) = a
         /\ Len(Pipe(l, a, q)) = IF l = "up" THEN Len(a) + Len(q) ELSE Len(a)
         /\ \A k \in 1 .. Len(a) : k \in DOMAIN Pipe(l, a, q) /\ Pipe(l, a, q)[k] = a[k]
<1>1. PipeGives(S, l, a, q)  BY PipeIs
<1> QED  BY <1>1 DEF PipeGives

\* The two pipes of a stream.
LEMMA PipeDown ==
  ASSUME NEW l, NEW a \in Seq(DownMessage), NEW q \in Seq(DownMessage)
  PROVE  /\ Pipe(l, a, q) \in Seq(DownMessage)
         /\ \A k \in 1 .. Len(a) : k \in DOMAIN Pipe(l, a, q) /\ Pipe(l, a, q)[k] = a[k]
<1>1. PipeGives(DownMessage, l, a, q)  BY PipeIs
<1> QED  BY <1>1 DEF PipeGives

\* The pipe to the gatherer.
LEMMA PipeUp ==
  ASSUME NEW l, NEW a \in Seq(UpMessage), NEW q \in Seq(UpMessage)
  PROVE  /\ Pipe(l, a, q) \in Seq(UpMessage) /\ Pipe(l, a, <<>>) = a
         /\ \A k \in 1 .. Len(a) : k \in DOMAIN Pipe(l, a, q) /\ Pipe(l, a, q)[k] = a[k]
<1>1. PipeGives(UpMessage, l, a, q)  BY PipeIs
<1> QED  BY <1>1 DEF PipeGives

\* What is enqueued comes behind.
LEMMA PipeConcat ==
  ASSUME NEW S, NEW l, NEW a \in Seq(S), NEW q \in Seq(S), NEW r \in Seq(S)
  PROVE  Pipe(l, a, q \o r) = Pipe(l, Pipe(l, a, q), r)
<1>1. (a \o q) \o r = a \o (q \o r)  BY ConcatAssociative
<1> QED  BY <1>1 DEF Pipe

\* One message that is enqueued comes behind.
LEMMA PipeAppend ==
  ASSUME NEW S, NEW l, NEW a \in Seq(S), NEW q \in Seq(S), NEW x \in S
  PROVE  Pipe(l, a, Append(q, x)) = IF l = "up" THEN Append(Pipe(l, a, q), x) ELSE Pipe(l, a, q)
<1>1. Append(q, x) = q \o <<x>> /\ <<x>> \in Seq(S)  BY AppendIsConcat
<1>2. (a \o q) \o <<x>> = a \o (q \o <<x>>)  BY <1>1, ConcatAssociative
<1>3. a \o q \in Seq(S)  BY ConcatProperties
<1>4. Append(a \o q, x) = (a \o q) \o <<x>>  BY <1>3, AppendIsConcat
<1> QED  BY <1>1, <1>2, <1>4 DEF Pipe

\* What is left of a pipe after its first n messages.
Rest(d, n) == SubSeq(d, n + 1, Len(d))

\* The messages of the rest of a pipe.
LEMMA RestIs ==
  ASSUME NEW S, NEW d \in Seq(S), NEW n \in 0 .. Len(d)
  PROVE  /\ Rest(d, n) \in Seq(S) /\ Len(Rest(d, n)) = Len(d) - n
         /\ \A k \in 1 .. (Len(d) - n) : Rest(d, n)[k] = d[k + n]
<1>1. Len(d) \in Nat /\ n \in Nat /\ n + 1 \in Int /\ Len(d) \in Int  OBVIOUS
<1>2. \A i \in (n + 1) .. Len(d) : d[i] \in S  OBVIOUS
<1>3. /\ SubSeq(d, n + 1, Len(d)) \in Seq(S)
      /\ Len(SubSeq(d, n + 1, Len(d))) = IF n + 1 <= Len(d) THEN Len(d) - (n + 1) + 1 ELSE 0
      /\ \A i \in 1 .. Len(d) - (n + 1) + 1 : SubSeq(d, n + 1, Len(d))[i] = d[(n + 1) + i - 1]
  BY <1>1, <1>2, SubSeqProperties
<1> DEFINE r == SubSeq(d, n + 1, Len(d))
           len == Len(d)
<1>4. /\ r \in Seq(S) /\ Len(r) = IF n + 1 <= len THEN len - (n + 1) + 1 ELSE 0
      /\ \A i \in 1 .. len - (n + 1) + 1 : r[i] = d[(n + 1) + i - 1]
      /\ len \in Nat /\ n \in Nat /\ n <= len
  BY <1>1, <1>3
<1> HIDE DEF r, len
<1>5. Len(r) = len - n  BY <1>4
<1>6. \A k \in 1 .. (len - n) : k \in 1 .. len - (n + 1) + 1 /\ (n + 1) + k - 1 = k + n
  BY <1>4
<1> QED  BY <1>4, <1>5, <1>6 DEF Rest, r, len

\* The rest of a pipe, message by message.
LEMMA RestStep ==
  ASSUME NEW S, NEW d \in Seq(S)
  PROVE  /\ Rest(d, 0) = d
         /\ \A n \in 1 .. Len(d) : /\ Rest(d, n - 1) # <<>> /\ Head(Rest(d, n - 1)) = d[n]
                                   /\ Tail(Rest(d, n - 1)) = Rest(d, n)
<1>1. Len(d) \in Nat /\ 0 \in 0 .. Len(d)  OBVIOUS
<1>2. Rest(d, 0) = d
  <2> DEFINE r == Rest(d, 0)
  <2>1. r \in Seq(S) /\ Len(r) = Len(d) - 0 /\ \A k \in 1 .. (Len(d) - 0) : r[k] = d[k + 0]
    BY <1>1, RestIs
  <2> HIDE DEF r
  <2>2. Len(r) = Len(d) /\ \A k \in 1 .. Len(r) : r[k] = d[k]  BY <1>1, <2>1
  <2>3. r = d  BY <2>1, <2>2, SeqEqual
  <2> QED  BY <2>3 DEF r
<1>3. ASSUME NEW n \in 1 .. Len(d)
      PROVE  /\ Rest(d, n - 1) # <<>> /\ Head(Rest(d, n - 1)) = d[n]
             /\ Tail(Rest(d, n - 1)) = Rest(d, n)
  <2> DEFINE r == Rest(d, n - 1)
             t == Rest(d, n)
             len == Len(d)
  <2>1. n - 1 \in 0 .. len /\ n \in 0 .. len /\ len \in Nat /\ n \in 1 .. len  BY <1>1
  <2>2. /\ r \in Seq(S) /\ Len(r) = len - (n - 1)
        /\ \A k \in 1 .. (len - (n - 1)) : r[k] = d[k + (n - 1)]
    BY <2>1, RestIs
  <2>3. t \in Seq(S) /\ Len(t) = len - n /\ \A k \in 1 .. (len - n) : t[k] = d[k + n]
    BY <2>1, RestIs
  <2> HIDE DEF r, t, len
  <2>4. r # <<>> /\ 1 \in 1 .. (len - (n - 1)) /\ 1 + (n - 1) = n  BY <2>1, <2>2
  <2>5. Head(r) = d[n]  BY <2>2, <2>4
  <2>6. Tail(r) \in Seq(S) /\ Len(Tail(r)) = Len(r) - 1
        /\ \A i \in 1 .. Len(Tail(r)) : Tail(r)[i] = r[i + 1]
    BY <2>2, <2>4, HeadTailProperties
  <2>7. Len(Tail(r)) = Len(t)  BY <2>1, <2>2, <2>3, <2>6
  <2>8. ASSUME NEW i \in 1 .. Len(Tail(r))  PROVE Tail(r)[i] = t[i]
    <3>1. i \in 1 .. (len - n) /\ i + 1 \in 1 .. (len - (n - 1)) /\ (i + 1) + (n - 1) = i + n
      BY <2>1, <2>2, <2>6
    <3> QED  BY <2>2, <2>3, <2>6, <3>1
  <2>9. Tail(r) = t  BY <2>3, <2>6, <2>7, <2>8, SeqEqual
  <2> QED  BY <2>4, <2>5, <2>9 DEF r, t
<1> QED  BY <1>2, <1>3

\* A pipe whose first messages that are under way are taken.
LEMMA PipeRest ==
  ASSUME NEW S, NEW l, NEW a \in Seq(S), NEW q \in Seq(S), NEW n \in 0 .. Len(a)
  PROVE  /\ Pipe(l, Rest(a, n), q) = Rest(Pipe(l, a, q), n)
         /\ n \in 0 .. Len(Pipe(l, a, q))
<1> DEFINE b == Rest(a, n)
           p == a \o q
           z == b \o q
           la == Len(a)
           lq == Len(q)
<1>0. la \in Nat /\ lq \in Nat /\ n \in 0 .. la  OBVIOUS
<1>1. b \in Seq(S) /\ Len(b) = la - n /\ \A k \in 1 .. (la - n) : b[k] = a[k + n]
  BY RestIs
<1>2. /\ p \in Seq(S) /\ Len(p) = la + lq
      /\ \A i \in 1 .. la + lq : p[i] = IF i <= la THEN a[i] ELSE q[i - la]
  BY ConcatProperties
<1> HIDE DEF b
<1>3. /\ z \in Seq(S) /\ Len(z) = Len(b) + lq
      /\ \A i \in 1 .. Len(b) + lq : z[i] = IF i <= Len(b) THEN b[i] ELSE q[i - Len(b)]
  BY <1>1, ConcatProperties
<1> HIDE DEF p, z
<1> DEFINE r == Rest(p, n)
<1>4. /\ n \in 0 .. Len(p)
      /\ r \in Seq(S) /\ Len(r) = Len(p) - n /\ \A k \in 1 .. (Len(p) - n) : r[k] = p[k + n]
  <2>1. n \in 0 .. Len(p)
    <3> HIDE DEF la, lq
    <3> QED  BY <1>0, <1>2
  <2> QED  BY <1>2, <2>1, RestIs
<1> HIDE DEF r, la, lq
<1>5. Len(z) = Len(r)  BY <1>0, <1>1, <1>2, <1>3, <1>4
<1>6. ASSUME NEW i \in 1 .. Len(z)  PROVE z[i] = r[i]
  <2>1. /\ i \in 1 .. Len(b) + lq /\ i \in 1 .. (Len(p) - n) /\ i + n \in 1 .. la + lq
        /\ (i <= Len(b) <=> i + n <= la) /\ i - Len(b) = (i + n) - la
        /\ (i <= Len(b) => i \in 1 .. (la - n))
    BY <1>0, <1>1, <1>2, <1>3
  <2>2. z[i] = IF i <= Len(b) THEN b[i] ELSE q[i - Len(b)]  BY <1>3, <2>1
  <2>3. r[i] = IF i + n <= la THEN a[i + n] ELSE q[(i + n) - la]  BY <1>2, <1>4, <2>1
  <2>4. i <= Len(b) => b[i] = a[i + n]  BY <1>1, <2>1
  <2> QED  BY <2>1, <2>2, <2>3, <2>4
<1>7. z = r  BY <1>3, <1>4, <1>5, <1>6, SeqEqual
<1>8. CASE l = "up"  BY <1>4, <1>7, <1>8 DEF Pipe, z, r, p, b
<1>9. CASE l # "up"  BY <1>0, <1>9 DEF Pipe, b, la
<1> QED  BY <1>8, <1>9

----------------------------------------------------------------------------
(* The joiner's steps, seen by the invariant.                               *)

\* An answer that is queued is an answer in the pipe.
LEMMA AnsweredPipe ==
  ASSUME NEW j, NEW m, NEW l, NEW u \in Seq(UpMessage), NEW a \in Seq(UpMessage),
         NEW b \in Seq(UpMessage), m.type = "joinPlayer" => m.id \in Nat,
         Answered(j, m, l, a, IF l = "up" THEN b ELSE a)
  PROVE  Answered(j, m, l, Pipe(l, u, a), Pipe(l, u, b))
<1>1. CASE l # "up"  BY <1>1 DEF Answered, Pipe
<1>2. CASE l = "up"
  <2>1. JoinerInfo \in UpMessage /\ \A g \in BOOLEAN : Capabilities(g) \in UpMessage
    BY DEF JoinerInfo, Capabilities, UpMessage
  <2>2. Gathered(j, m) => AcceptJoin(m.id, DefaultLook) \in UpMessage
    BY GatheringAssumption DEF Gathered, AcceptJoin, UpMessage
  <2>3. \A x \in UpMessage : Pipe(l, u, Append(a, x)) = Append(Pipe(l, u, a), x)
    BY <1>2, PipeAppend
  <2>4. CASE b = a /\ ~Greeted(j, m) /\ ~Gathered(j, m)  BY <2>4 DEF Answered
  <2>5. CASE Greeted(j, m) /\ b = Append(a, JoinerInfo)
    BY <1>2, <2>1, <2>3, <2>5 DEF Answered
  <2>6. ASSUME NEW g \in BOOLEAN, m.type = "capabilities", b = Append(a, Capabilities(g))
        PROVE  Answered(j, m, l, Pipe(l, u, a), Pipe(l, u, b))
    <3>1. Pipe(l, u, b) = Append(Pipe(l, u, a), Capabilities(g))  BY <2>1, <2>3, <2>6
    <3> QED  BY <1>2, <2>6, <3>1 DEF Answered
  <2>7. CASE Gathered(j, m) /\ b = Append(a, AcceptJoin(m.id, DefaultLook))
    BY <1>2, <2>2, <2>3, <2>7 DEF Answered
  <2> QED  BY <1>2, <2>4, <2>5, <2>6, <2>7 DEF Answered
<1> QED  BY <1>1, <1>2

\* A pump leaves nothing in a joiner's queue and changes nothing else of him.
LEMMA Emptied ==
  ASSUME NEW j \in Joiner
  PROVE  LET k == [j EXCEPT !.out = <<>>]
         IN k \in Joiner /\ SameBut(j, k, {"out"}) /\ k.out = <<>> /\ j.out \in Seq(UpMessage)
<1>1. [j EXCEPT !.out = <<>>] \in Joiner
  <2>1. <<>> \in Seq(UpMessage)  OBVIOUS
  <2> QED  BY <2>1 DEF Joiner
<1>2. j.out \in Seq(UpMessage)  BY DEF Joiner
<1> DEFINE k == [j EXCEPT !.out = <<>>]
<1>3. /\ k.net = j.net /\ k.handler = j.handler /\ k.id = j.id /\ k.players = j.players
      /\ k.session = j.session /\ k.chat = j.chat /\ k.gathered = j.gathered
      /\ k.anomalies = j.anomalies /\ k.out = <<>>
  BY DEF Joiner
<1> HIDE DEF k
<1> QED  BY <1>1, <1>2, <1>3 DEF k, SameBut

\* A joiner whose netState alone changes.
LEMMA NetChanged ==
  ASSUME NEW j \in Joiner, NEW net \in JoinerState
  PROVE  [j EXCEPT !.net = net] \in Joiner /\ [j EXCEPT !.net = net].out = j.out
BY DEF Joiner

\* While he joins: everything that has arrived, one message after the other.
JoinsWell(s, l, a, q, b, j, n, g) ==
  LET k == HeardAll([j EXCEPT !.out = <<>>], SubSeq(a, 1, n), g)
      d == Pipe(l, Rest(a, n), q)
      u == Pipe(l, Pipe(l, b, j.out), k.out)
  IN /\ k \in Joiner /\ k.net = "joining" /\ StreamOk(s, l, d, u, Following(k))
     /\ \A id : Knows(d, u, Following(k), id) => Knows(Pipe(l, a, q), Pipe(l, b, j.out), j, id)

\* Everything that arrives while joining, message by message, keeps what the
\* invariant says of the stream.
LEMMA Joins ==
  ASSUME NEW s, NEW l, NEW a \in Seq(DownMessage), NEW q \in Seq(DownMessage),
         NEW b \in Seq(UpMessage), NEW j \in Joiner, j.net = "joining",
         StreamOk(s, l, Pipe(l, a, q), Pipe(l, b, j.out), j),
         NEW n \in 0 .. Len(a), NEW g \in BOOLEAN
  PROVE  JoinsWell(s, l, a, q, b, j, n, g)
<1> DEFINE j0 == [j EXCEPT !.out = <<>>]
           ms == SubSeq(a, 1, n)
           d == Pipe(l, a, q)
           u == Pipe(l, b, j.out)
<1>1. /\ j0 \in Joiner /\ SameBut(j, j0, {"out"}) /\ j0.out = <<>>
      /\ j.out \in Seq(UpMessage)
  BY Emptied
<1>2. /\ d \in Seq(DownMessage) /\ n \in 0 .. Len(d)
      /\ \A k \in 1 .. Len(a) : k \in DOMAIN d /\ d[k] = a[k]
      /\ u \in Seq(UpMessage) /\ Pipe(l, u, <<>>) = u
  <2>1. n \in 0 .. Len(d)  BY PipeRest
  <2>2. u \in Seq(UpMessage)  BY <1>1, PipeUp
  <2> HIDE DEF u
  <2>3. Pipe(l, u, <<>>) = u
    <3>1. <<>> \in Seq(UpMessage)  OBVIOUS
    <3> QED  BY <2>2, <3>1, PipeUp
  <2> QED  BY <2>1, <2>2, <2>3, PipeDown
<1>3. ms \in Seq(DownMessage) /\ Len(ms) = n /\ \A k \in 1 .. n : ms[k] = a[k]
  <2>1. n \in Nat /\ n \in Int /\ 1 \in Int /\ \A i \in 1 .. n : i \in 1 .. Len(a)  OBVIOUS
  <2>2. \A i \in 1 .. n : a[i] \in DownMessage  BY <2>1
  <2>3. /\ ms \in Seq(DownMessage) /\ Len(ms) = IF 1 <= n THEN n - 1 + 1 ELSE 0
        /\ \A i \in 1 .. n - 1 + 1 : ms[i] = a[1 + i - 1]
    BY <2>1, <2>2, SubSeqProperties
  <2> HIDE DEF ms
  <2>4. Len(ms) = n  BY <2>1, <2>3
  <2>5. \A k \in 1 .. n : k \in 1 .. n - 1 + 1 /\ 1 + k - 1 = k  BY <2>1
  <2> QED  BY <2>3, <2>4, <2>5
<1>4. StreamOk(s, l, d, u, j0)
  <2> HIDE DEF d, u, j0
  <2>1. j.net \in Alive /\ StreamOk(s, l, d, u, j)  BY DEF Alive, d, u
  <2> QED  BY <1>1, <2>1, OutAside
<1>5. \A k \in 1 .. n : /\ k \in DOMAIN d /\ d[k] = ms[k] /\ ms[k] \in DownMessage
                        /\ ~IsAbout(ms[k]) /\ ~Ends(ms[k])
  <2>1. JoinedOk(d, u, client[s], j) /\ SessionOk(s, d, client[s], j, netState, failed, players)
    BY DEF StreamOk
  <2>2. \A k \in DOMAIN d : ~IsAbout(d[k]) /\ ~Ends(d[k])
    BY <2>1 DEF JoinedOk, SessionOk
  <2>3. \A k \in 1 .. n : k \in 1 .. Len(a) /\ k \in 1 .. Len(ms)  BY <1>3
  <2> QED  BY <1>2, <1>3, <2>2, <2>3
<1>6. n \in Nat /\ \A k \in 1 .. n : k \in 1 .. Len(d)  BY <1>2
<1>7. PICK h : Hears(h, j0, ms, g) /\ HeardAll(j0, ms, g) = h[Len(ms)]
  <2> HIDE DEF j0, ms
  <2> QED  BY <1>1, <1>3, HeardAllSteps
<1>8. /\ h[0] = j0
      /\ \A i \in 1 .. n : h[i] = Heard(h[i - 1], ms[i], g)
  BY <1>3, <1>7 DEF Hears
<1> HIDE DEF j0, ms, d, u
<1> DEFINE Good(i) ==
             /\ h[i] \in Joiner /\ h[i].net = "joining"
             /\ h[i].handler \in {"awaitingHello", "joining", "waiting"}
             /\ StreamOk(s, l, Rest(d, i), Pipe(l, u, h[i].out), Following(h[i]))
             /\ \A id : Knows(Rest(d, i), Pipe(l, u, h[i].out), Following(h[i]), id)
                          => Knows(d, u, j, id)
           T == {i \in 0 .. n : Good(i)}
<1>9. 0 \in T
  <2>1. h[0] \in Joiner /\ h[0].net = "joining" /\ h[0].out = <<>> /\ h[0].handler = j.handler
    BY <1>1, <1>8 DEF SameBut
  <2>2. h[0].handler \in {"awaitingHello", "joining"}
    <3>1. HandlerOk(j)  BY DEF StreamOk
    <3> QED  BY <2>1, <3>1 DEF HandlerOk
  <2>3. Following(h[0]) = j0  BY <1>8, <2>2 DEF Following
  <2>4. Rest(d, 0) = d /\ Pipe(l, u, h[0].out) = u  BY <1>2, <2>1, RestStep
  <2>5. \A id : Knows(d, u, j0, id) => Knows(d, u, j, id)
    BY <1>1 DEF Knows, SameBut
  <2>6. 0 \in 0 .. n  BY <1>6
  <2>7. Good(0)  BY <1>4, <2>1, <2>2, <2>3, <2>4, <2>5
  <2> QED  BY <2>6, <2>7
<1>10. ASSUME NEW i \in 1 .. n, i - 1 \in T  PROVE i \in T
  <2>1. i \in 0 .. n /\ i \in 1 .. Len(d) /\ i - 1 \in 0 .. Len(d)  BY <1>2, <1>6
  <2> DEFINE k == h[i - 1]
             m == ms[i]
             k2 == h[i]
             e == Rest(d, i - 1)
             v == Pipe(l, u, k.out)
             v2 == Pipe(l, u, k2.out)
  <2>2. Good(i - 1)  BY <1>10
  <2>3. /\ k \in Joiner /\ k.net = "joining"
        /\ k.handler \in {"awaitingHello", "joining", "waiting"}
        /\ StreamOk(s, l, e, v, Following(k))
        /\ \A id : Knows(e, v, Following(k), id) => Knows(d, u, j, id)
    BY <2>2
  <2>4. m \in DownMessage /\ ~IsAbout(m) /\ ~Ends(m) /\ d[i] = m /\ k2 = Heard(k, m, g)
    BY <1>5, <1>8
  <2>5. e # <<>> /\ Head(e) = m /\ Tail(e) = Rest(d, i)
    BY <1>2, <2>1, <2>4, RestStep
  <2> HIDE DEF k, m, k2, e
  <2>6. /\ k2 \in Joiner /\ k2.net = "joining"
        /\ k2.handler \in {"awaitingHello", "joining", "waiting"}
        /\ Takes(Following(k), m, Following(k2))
        /\ \A l0 : Answered(Following(k), m, l0, k.out, IF l0 = "up" THEN k2.out ELSE k.out)
    <3> DEFINE kk == Heard(k, m, g)
    <3>1. k \in Joiner /\ k.net = "joining" /\ k.handler \in {"awaitingHello", "joining", "waiting"}
          /\ m \in DownMessage /\ ~IsAbout(m) /\ ~Ends(m) /\ g \in BOOLEAN /\ k2 = kk
      BY <2>3, <2>4
    <3>2. /\ kk \in Joiner /\ kk.net = "joining"
          /\ kk.handler \in {"awaitingHello", "joining", "waiting"}
          /\ Takes(Following(k), m, Following(kk))
          /\ \A l0 : Answered(Following(k), m, l0, k.out, IF l0 = "up" THEN kk.out ELSE k.out)
      BY <3>1, JoiningTakes
    <3> HIDE DEF kk
    <3> QED  BY <3>1, <3>2
  <2>7. /\ k.out \in Seq(UpMessage) /\ k2.out \in Seq(UpMessage)
        /\ m.type = "joinPlayer" => m.id \in Nat
    BY <2>3, <2>4, <2>6 DEF Joiner, DownMessage
  <2>8. Answered(Following(k), m, l, v, v2)
    <3>1. Answered(Following(k), m, l, k.out, IF l = "up" THEN k2.out ELSE k.out)  BY <2>6
    <3> QED  BY <1>2, <2>7, <3>1, AnsweredPipe
  <2>9. v2 \in Seq(UpMessage) /\ v \in Seq(UpMessage)  BY <1>2, <2>7, PipeTyped
  <2>10. Following(k2) \in Joiner /\ Following(k) \in Joiner
         /\ Following(k).net \in {"joining", "waiting"}
    BY <2>3, <2>6, FollowingIs
  <2>11. MayTake(Following(k), m)
    <3>1. HandlerOk(Following(k))  BY <2>3 DEF StreamOk
    <3> QED  BY <2>4, <2>10, <3>1 DEF MayTake, Alive
  <2> HIDE DEF v, v2
  <2> DEFINE f == Following(k)
             f2 == Following(k2)
  <2>12. /\ StreamOk(s, l, e, v, f) /\ MayTake(f, Head(e)) /\ Takes(f, Head(e), f2)
         /\ Answered(f, Head(e), l, v, v2) /\ f \in Joiner /\ f2 \in Joiner
    BY <2>3, <2>5, <2>6, <2>8, <2>10, <2>11
  <2> HIDE DEF f, f2
  <2>13. StreamOk(s, l, Tail(e), v2, f2)  BY <2>5, <2>9, <2>12, TakeOne
  <2>14. ASSUME NEW id, Knows(Tail(e), v2, f2, id)  PROVE Knows(d, u, j, id)
    <3>1. e \in Seq(DownMessage)  BY <2>12 DEF StreamOk
    <3>2. Knows(e, v, f, id)  BY <2>5, <2>9, <2>12, <2>14, <3>1, TakeKnows
    <3> QED  BY <2>3, <3>2 DEF f
  <2>15. Good(i)  BY <2>5, <2>6, <2>13, <2>14 DEF f2, k2, v2
  <2> QED  BY <2>1, <2>15
<1> HIDE DEF T
<1>11. \A i \in 0 .. n : i \in T  BY <1>6, <1>9, <1>10, Steps
<1>12. Good(n)  BY <1>6, <1>11 DEF T
<1>13. Rest(d, n) = Pipe(l, Rest(a, n), q)  BY PipeRest DEF d
<1> QED  BY <1>3, <1>7, <1>12, <1>13 DEF j0, ms, d, u, JoinsWell

----------------------------------------------------------------------------
(* The invariant, taken apart by streams and put together again.            *)

\* What the invariant says of one stream.
LEMMA OfStream ==
  ASSUME IInv, NEW s \in Stream
  PROVE  /\ StreamOk(s, link[s], Down(s), Up(s), joiner[s])
         /\ down[s] \in Seq(DownMessage) /\ out[s] \in Seq(DownMessage)
         /\ up[s] \in Seq(UpMessage) /\ joiner[s] \in Joiner /\ joiner[s].out \in Seq(UpMessage)
<1>1. /\ down[s] \in Seq(DownMessage) /\ out[s] \in Seq(DownMessage)
      /\ up[s] \in Seq(UpMessage) /\ joiner[s] \in Joiner
  BY DEF IInv, Types
<1>2. joiner[s].out \in Seq(UpMessage)  BY <1>1 DEF Joiner
<1>3. Down(s) \in Seq(DownMessage) /\ Up(s) \in Seq(UpMessage)
  BY <1>1, <1>2, PipeTyped DEF Down, Up
<1>4. StreamOk(s, link[s], Down(s), Up(s), joiner[s])
  BY <1>1, <1>3 DEF IInv, StreamOk, Links, Handlers, Introduced, Joined, Sessions, Told,
                    Answers, Chats
<1> QED  BY <1>1, <1>2, <1>4

\* What it says of all streams, and of the gatherer, is all.
LEMMA Together ==
  ASSUME Types', Lists', Identifiers', Dressed', Unheard',
         \A s \in Stream : StreamOk(s, link[s], Down(s), Up(s), joiner[s])'
  PROVE  IInv'
<1>1. Links'  BY DEF Links, StreamOk
<1>2. Handlers'  BY DEF Handlers, StreamOk
<1>3. Introduced'  BY DEF Introduced, StreamOk
<1>4. Joined'  BY DEF Joined, StreamOk
<1>5. Sessions'  BY DEF Sessions, StreamOk
<1>6. Told'  BY DEF Told, StreamOk
<1>7. Answers'  BY DEF Answers, StreamOk
<1>8. Chats'  BY DEF Chats, StreamOk
<1> QED  BY <1>1, <1>2, <1>3, <1>4, <1>5, <1>6, <1>7, <1>8 DEF IInv

\* A step of the joiner s, which leaves the gatherer and the other joiners
\* alone.
LEMMA JoinerStep ==
  ASSUME IInv, NEW s \in Stream, UNCHANGED gathererVars,
         link' \in [Stream -> {"none", "up", "down"}], up' \in [Stream -> Seq(UpMessage)],
         down' \in [Stream -> Seq(DownMessage)], joiner' \in [Stream -> Joiner],
         changes' \in Nat, mishaps' \in Nat,
         \A t \in Stream : t # s => /\ link'[t] = link[t] /\ up'[t] = up[t]
                                    /\ down'[t] = down[t] /\ joiner'[t] = joiner[t],
         link'[s] = "none" => link[s] = "none",
         StreamOk(s, link'[s], Down(s)', Up(s)', joiner'[s]),
         \A id : Knows(Down(s)', Up(s)', joiner'[s], id) => Knows(Down(s), Up(s), joiner[s], id)
  PROVE  IInv'
<1>1. /\ netState' = netState /\ players' = players /\ nextIdentifier' = nextIdentifier
      /\ ungathered' = ungathered /\ chatInfo' = chatInfo /\ client' = client
      /\ connected' = connected /\ out' = out /\ failed' = failed
  BY DEF gathererVars
<1>2. Types'
  BY <1>1 DEF IInv, Types
<1>3. \A t \in Stream : t # s => Down(t)' = Down(t) /\ Up(t)' = Up(t)
  BY <1>1 DEF Down, Up
<1>4. Lists'  BY <1>1 DEF IInv, Lists, Running
<1>5. Dressed' /\ Unheard'
  BY <1>1 DEF IInv, Dressed, Unheard
<1>6. Identifiers'
  <2>1. \A t \in Stream : \A id : HasId(t, id)' => HasId(t, id)
    <3>1. ASSUME NEW t \in Stream, NEW id, HasId(t, id)'  PROVE HasId(t, id)
      <4>1. Knows(Down(t)', Up(t)', joiner'[t], id) \/ PlaysAs(t, players, id)
        BY <1>1, <3>1 DEF HasId, Knows, PlaysAs
      <4>2. CASE t = s  BY <4>1, <4>2 DEF HasId
      <4>3. CASE t # s  BY <1>3, <4>1, <4>3 DEF HasId
      <4> QED  BY <4>2, <4>3
    <3> QED  BY <3>1
  <2>2. Identifiers  BY DEF IInv
  <2> HIDE DEF HasId
  <2> QED  BY <1>1, <2>1, <2>2 DEF Identifiers
<1>7. ASSUME NEW t \in Stream  PROVE StreamOk(t, link[t], Down(t), Up(t), joiner[t])'
  <2>1. StreamOk(t, link'[t], Down(t)', Up(t)', joiner'[t])
    <3>1. CASE t = s  BY <3>1
    <3>2. CASE t # s
      <4>1. StreamOk(t, link[t], Down(t), Up(t), joiner[t])  BY OfStream
      <4> QED  BY <1>3, <3>2, <4>1
    <3> QED  BY <3>1, <3>2
  <2> QED  BY <1>1, <2>1 DEF StreamOk, Running
<1> QED  BY <1>2, <1>4, <1>5, <1>6, <1>7, Together

\* NetUpdateJoinState while joining.
LEMMA UpdateJoiningStep ==
  ASSUME IInv, NEW s \in Stream, UpdateJoining(s)
  PROVE  IInv'
<1>1. /\ joiner \in [Stream -> Joiner] /\ up \in [Stream -> Seq(UpMessage)]
      /\ down \in [Stream -> Seq(DownMessage)] /\ link \in [Stream -> {"none", "up", "down"}]
      /\ changes \in Nat /\ mishaps \in Nat
  BY DEF IInv, Types
<1> DEFINE j == joiner[s]
           j0 == [j EXCEPT !.out = <<>>]
           l == link[s]
           a == down[s]
           q == out[s]
           b == up[s]
<1>2. PICK n \in 0 .. Len(a), g \in BOOLEAN :
        LET k == HeardAll(j0, SubSeq(a, 1, n), g)
        IN /\ mishaps' = IF g THEN mishaps ELSE mishaps + 1
           /\ joiner' = [joiner EXCEPT ![s] =
                           IF k.handler = "waiting" THEN [k EXCEPT !.net = "waiting"] ELSE k]
           /\ down' = [down EXCEPT ![s] = SubSeq(@, n + 1, Len(@))]
  BY DEF UpdateJoining
<1> DEFINE k == HeardAll(j0, SubSeq(a, 1, n), g)
           b2 == Pipe(l, b, j.out)
           d2 == Pipe(l, Rest(a, n), q)
           u2 == Pipe(l, b2, k.out)
<1>3. /\ a \in Seq(DownMessage) /\ q \in Seq(DownMessage) /\ b \in Seq(UpMessage) /\ j \in Joiner
      /\ j.out \in Seq(UpMessage) /\ j.net = "joining"
      /\ StreamOk(s, l, Pipe(l, a, q), Pipe(l, b, j.out), j)
  BY OfStream DEF UpdateJoining, Down, Up
<1>4. /\ k \in Joiner /\ k.net = "joining" /\ StreamOk(s, l, d2, u2, Following(k))
      /\ \A id : Knows(d2, u2, Following(k), id)
                   => Knows(Pipe(l, a, q), Pipe(l, b, j.out), j, id)
  <2> HIDE DEF a, q, b, j, l
  <2>1. n \in 0 .. Len(a)  BY DEF a
  <2>2. JoinsWell(s, l, a, q, b, j, n, g)  BY <1>3, <2>1, Joins
  <2> QED  BY <2>2 DEF JoinsWell
<1>5. /\ joiner' = [joiner EXCEPT ![s] = Following(k)]
      /\ down' = [down EXCEPT ![s] = Rest(a, n)]
      /\ up' = [up EXCEPT ![s] = b2]
      /\ UNCHANGED gathererVars /\ link' = link /\ changes' = changes
  BY <1>1, <1>2 DEF UpdateJoining, Pumped, Following, Rest, Pipe
<1>6. /\ Following(k) \in Joiner /\ SameBut(k, Following(k), {"net"})
  <2> HIDE DEF k
  <2> QED  BY <1>4, FollowingIs
<1>7. Rest(a, n) \in Seq(DownMessage) /\ b2 \in Seq(UpMessage)
  <2> HIDE DEF a, b, j
  <2> QED  BY <1>3, RestIs, PipeTyped
<1> HIDE DEF k, b2
<1>8. /\ link'[s] = l /\ joiner'[s] = Following(k) /\ down'[s] = Rest(a, n) /\ up'[s] = b2
      /\ out'[s] = q
  BY <1>1, <1>5 DEF gathererVars
<1>9. Down(s)' = d2 /\ Up(s)' = u2
  <2>1. Following(k).out = k.out  BY <1>6 DEF SameBut
  <2> QED  BY <1>8, <2>1 DEF Down, Up
<1>10. Pipe(l, a, q) = Down(s) /\ Pipe(l, b, j.out) = Up(s)  BY DEF Down, Up
<1>11. joiner' \in [Stream -> Joiner]  BY <1>1, <1>5, <1>6
<1>12. /\ down' \in [Stream -> Seq(DownMessage)] /\ up' \in [Stream -> Seq(UpMessage)]
  BY <1>1, <1>5, <1>7
<1>13. mishaps' \in Nat  BY <1>1, <1>2
<1>14. \A t \in Stream : t # s => /\ link'[t] = link[t] /\ up'[t] = up[t]
                                  /\ down'[t] = down[t] /\ joiner'[t] = joiner[t]
  BY <1>1, <1>5
<1>15. link' \in [Stream -> {"none", "up", "down"}] /\ changes' \in Nat
  BY <1>1, <1>5
<1>16. StreamOk(s, link'[s], Down(s)', Up(s)', joiner'[s])
  BY <1>4, <1>8, <1>9
<1>17. \A id : Knows(Down(s)', Up(s)', joiner'[s], id) => Knows(Down(s), Up(s), joiner[s], id)
  BY <1>4, <1>8, <1>9, <1>10
<1>18. UNCHANGED gathererVars /\ (link'[s] = "none" => link[s] = "none")  BY <1>5
<1> HIDE DEF IInv, gathererVars, j, j0, l, a, q, b, d2, u2
<1> QED  BY <1>11, <1>12, <1>13, <1>14, <1>15, <1>16, <1>17, <1>18, JoinerStep

\* A joiner that takes one message, or only pumps: he is h then, with nothing
\* queued.
LEMMA TakesStep ==
  ASSUME IInv, NEW s \in Stream, Pumped(s), mishaps' = mishaps,
         joiner[s].net \in Alive,
         NEW j0 \in Joiner, SameBut(joiner[s], j0, {"out"}),
         NEW h \in Joiner, h.out = <<>>, joiner' = [joiner EXCEPT ![s] = h],
         \/ down[s] = <<>> /\ h = j0 /\ down' = down
         \/ /\ down[s] # <<>> /\ down' = [down EXCEPT ![s] = Tail(@)]
            /\ MayTake(j0, Head(down[s])) /\ Takes(j0, Head(down[s]), h)
            /\ ~Greeted(j0, Head(down[s])) /\ ~Gathered(j0, Head(down[s]))
  PROVE  IInv'
<1>1. /\ joiner \in [Stream -> Joiner] /\ up \in [Stream -> Seq(UpMessage)]
      /\ down \in [Stream -> Seq(DownMessage)] /\ link \in [Stream -> {"none", "up", "down"}]
      /\ changes \in Nat /\ mishaps \in Nat
  BY DEF IInv, Types
<1> DEFINE l == link[s]
           a == down[s]
           q == out[s]
           d == Pipe(l, a, q)
           u == Pipe(l, up[s], joiner[s].out)
           m == Head(a)
           a2 == down'[s]
<1>2. /\ a \in Seq(DownMessage) /\ q \in Seq(DownMessage) /\ up[s] \in Seq(UpMessage)
      /\ joiner[s].out \in Seq(UpMessage) /\ StreamOk(s, l, d, u, joiner[s])
  BY OfStream DEF Down, Up
<1>3. u \in Seq(UpMessage) /\ d \in Seq(DownMessage)  BY <1>2, PipeTyped
<1>4. /\ up' = [up EXCEPT ![s] = u] /\ UNCHANGED gathererVars /\ link' = link
      /\ changes' = changes
  BY <1>1 DEF Pumped, Pipe
<1>5. StreamOk(s, l, d, u, j0)
  <2> HIDE DEF d, u, l
  <2> QED  BY <1>2, OutAside
<1>6. \A id : Knows(d, u, j0, id) => Knows(d, u, joiner[s], id)  BY DEF Knows, SameBut
<1>7. /\ a2 \in Seq(DownMessage) /\ down' \in [Stream -> Seq(DownMessage)]
      /\ \A t \in Stream : t # s => down'[t] = down[t]
      /\ StreamOk(s, l, Pipe(l, a2, q), u, h)
      /\ \A id : Knows(Pipe(l, a2, q), u, h, id) => Knows(d, u, j0, id)
  <2>1. CASE a = <<>> /\ h = j0 /\ down' = down  BY <1>1, <1>2, <1>5, <2>1
  <2>2. CASE /\ a # <<>> /\ down' = [down EXCEPT ![s] = Tail(@)]
             /\ MayTake(j0, m) /\ Takes(j0, m, h)
             /\ ~Greeted(j0, m) /\ ~Gathered(j0, m)
    <3>1. a2 = Tail(a)  BY <1>1, <2>2
    <3>2. Tail(a) \in Seq(DownMessage) /\ Len(a) \in Nat \ {0}  BY <1>2, <2>2, Behind
    <3>3. down' \in [Stream -> Seq(DownMessage)] /\ \A t \in Stream : t # s => down'[t] = down[t]
      BY <1>1, <2>2, <3>2
    <3>4. Rest(a, 0) = a /\ Tail(a) = Rest(a, 1)
      <4>1. 1 \in 1 .. Len(a) /\ 1 - 1 = 0  BY <3>2
      <4>2. Rest(a, 0) = a  BY <1>2, RestStep
      <4>3. Tail(Rest(a, 1 - 1)) = Rest(a, 1)  BY <1>2, <4>1, RestStep
      <4> QED  BY <4>1, <4>2, <4>3
    <3>5. Pipe(l, Tail(a), q) = Rest(d, 1) /\ 1 \in 0 .. Len(d)
      <4>1. 1 \in 0 .. Len(a)  BY <3>2
      <4> QED  BY <1>2, <3>4, <4>1, PipeRest
    <3>6. d # <<>> /\ Head(d) = m /\ Tail(d) = Rest(d, 1)
      <4>1. Rest(d, 0) = d  BY <1>3, RestStep
      <4>2. 1 \in 1 .. Len(d) /\ 1 - 1 = 0  BY <3>5
      <4>3. /\ Rest(d, 1 - 1) # <<>> /\ Head(Rest(d, 1 - 1)) = d[1]
            /\ Tail(Rest(d, 1 - 1)) = Rest(d, 1)
        BY <1>3, <4>2, RestStep
      <4>4. d[1] = a[1] /\ m = a[1]
        <5>1. 1 \in 1 .. Len(a)  BY <3>2
        <5>2. d[1] = a[1]
          <6> HIDE DEF a, q, l
          <6> QED  BY <1>2, <5>1, PipeDown
        <5> QED  BY <1>2, <2>2, <5>2, Behind
      <4> QED  BY <4>1, <4>2, <4>3, <4>4
    <3>7. Answered(j0, m, l, u, u)  BY <2>2 DEF Answered
    <3> HIDE DEF d, u, l, m
    <3>8. StreamOk(s, l, Tail(d), u, h)  BY <1>3, <1>5, <2>2, <3>6, <3>7, TakeOne
    <3>9. \A id : Knows(Tail(d), u, h, id) => Knows(d, u, j0, id)
      BY <1>3, <2>2, <3>6, <3>7, TakeKnows
    <3> QED  BY <3>1, <3>2, <3>3, <3>5, <3>6, <3>8, <3>9 DEF l
  <2> QED  BY <2>1, <2>2
<1>8. Pipe(l, u, <<>>) = u
  <2>1. <<>> \in Seq(UpMessage)  OBVIOUS
  <2> HIDE DEF u
  <2> QED  BY <1>3, <2>1, PipeUp
<1>9. /\ link'[s] = l /\ joiner'[s] = h /\ up'[s] = u /\ out'[s] = q
  BY <1>1, <1>4 DEF gathererVars
<1>10. Down(s)' = Pipe(l, a2, q) /\ Up(s)' = u /\ Down(s) = d /\ Up(s) = u
  BY <1>8, <1>9 DEF Down, Up
<1>11. joiner' \in [Stream -> Joiner] /\ \A t \in Stream : t # s => joiner'[t] = joiner[t]
  BY <1>1
<1>12. up' \in [Stream -> Seq(UpMessage)] /\ \A t \in Stream : t # s => up'[t] = up[t]
  BY <1>1, <1>3, <1>4
<1>13. StreamOk(s, link'[s], Down(s)', Up(s)', joiner'[s])  BY <1>7, <1>9, <1>10
<1>14. \A id : Knows(Down(s)', Up(s)', joiner'[s], id) => Knows(Down(s), Up(s), joiner[s], id)
  BY <1>6, <1>7, <1>9, <1>10
<1>15. /\ link' \in [Stream -> {"none", "up", "down"}] /\ changes' \in Nat /\ mishaps' \in Nat
       /\ \A t \in Stream : link'[t] = link[t]
  BY <1>1, <1>4
<1> HIDE DEF l, a, q, d, u, m, a2
<1>16. \A t \in Stream : t # s => /\ link'[t] = link[t] /\ up'[t] = up[t]
                                  /\ down'[t] = down[t] /\ joiner'[t] = joiner[t]
  BY <1>7, <1>11, <1>12, <1>15
<1> HIDE DEF IInv, gathererVars, Pumped
<1> QED  BY <1>4, <1>7, <1>11, <1>12, <1>13, <1>14, <1>15, <1>16, JoinerStep

\* NetUpdateJoinState while waiting.
LEMMA UpdateWaitingStep ==
  ASSUME IInv, NEW s \in Stream, UpdateWaiting(s)
  PROVE  IInv'
<1> DEFINE j == joiner[s]
           j0 == [j EXCEPT !.out = <<>>, !.handler = "waiting"]
           m == Head(down[s])
           k == IF down[s] = <<>> THEN j0 ELSE Heard(j0, m, TRUE)
           h == [k EXCEPT !.net = k.handler]
<1>1. /\ j.net = "waiting" /\ Pumped(s) /\ mishaps' = mishaps
      /\ joiner' = [joiner EXCEPT ![s] = h]
      /\ down' = [down EXCEPT ![s] = IF @ = <<>> THEN @ ELSE Tail(@)]
  BY DEF UpdateWaiting
<1>2. /\ j \in Joiner /\ HandlerOk(j)
      /\ SessionOk(s, Down(s), client[s], j, netState, failed, players)
      /\ down[s] \in Seq(DownMessage)
  BY OfStream DEF StreamOk
<1>3. j.handler = "waiting"  BY <1>1, <1>2 DEF HandlerOk
<1>4. /\ j0 \in Joiner /\ SameBut(j, j0, {"out"}) /\ j0.out = <<>>
      /\ j0.net = "waiting" /\ j0.handler = "waiting"
  <2> DEFINE i == [j EXCEPT !.out = <<>>]
  <2>1. i \in Joiner /\ SameBut(j, i, {"out"}) /\ i.out = <<>>  BY <1>2, Emptied
  <2>2. i.net = "waiting" /\ i.handler = "waiting"  BY <1>1, <1>3, <2>1 DEF SameBut
  <2>3. j0 = [i EXCEPT !.handler = "waiting"]  BY <1>2 DEF Joiner
  <2> HIDE DEF i, j0
  <2>4. [i EXCEPT !.handler = "waiting"] = i  BY <2>1, <2>2 DEF Joiner
  <2> QED  BY <2>1, <2>2, <2>3, <2>4
<1>5. joiner[s].net \in Alive /\ down \in [Stream -> Seq(DownMessage)]
  BY <1>1 DEF Alive, IInv, Types
<1>6. CASE down[s] = <<>>
  <2>1. h = j0
    <3>1. h = [j0 EXCEPT !.net = j0.net]  BY <1>4, <1>6
    <3> HIDE DEF j0
    <3> QED  BY <1>4, <3>1 DEF Joiner
  <2>2. down' = down  BY <1>1, <1>5, <1>6
  <2>3. h \in Joiner /\ h.out = <<>>  BY <1>4, <2>1
  <2> HIDE DEF j, j0, h, IInv, Pumped
  <2> QED  BY <1>1, <1>4, <1>5, <1>6, <2>1, <2>2, <2>3, TakesStep DEF j
<1>7. CASE down[s] # <<>>
  <2>1. m \in DownMessage  BY <1>2, <1>7
  <2>2. h = [Heard(j0, m, TRUE) EXCEPT !.net = Heard(j0, m, TRUE).handler]  BY <1>7
  <2> HIDE DEF m, j0, h, j, k
  <2>3. h \in Joiner /\ h.out = <<>> /\ Takes(j0, m, h)  BY <1>4, <2>1, <2>2, WaitingTakes
  <2>4. MayTake(j0, m)
    BY <1>4 DEF MayTake, Alive, HandlerOk
  <2>5. ~Greeted(j0, m) /\ ~Gathered(j0, m)  BY <1>4 DEF Greeted, Gathered
  <2>6. down' = [down EXCEPT ![s] = Tail(@)]  BY <1>1, <1>5, <1>7
  <2> HIDE DEF IInv, Pumped
  <2> QED  BY <1>1, <1>4, <1>5, <1>7, <2>3, <2>4, <2>5, <2>6, TakesStep DEF m, j
<1> QED  BY <1>6, <1>7

\* Receiving game data, and messages in the game.
LEMMA ReceiveStartedStep ==
  ASSUME IInv, NEW s \in Stream, ReceiveStarted(s)
  PROVE  IInv'
<1> DEFINE j == joiner[s]
           j0 == [j EXCEPT !.out = <<>>]
           m == Head(down[s])
           h == Heard(j0, m, TRUE)
<1>1. /\ j.net \in Playing /\ Pumped(s) /\ mishaps' = mishaps /\ down[s] # <<>>
      /\ joiner' = [joiner EXCEPT ![s] = h] /\ down' = [down EXCEPT ![s] = Tail(@)]
  BY DEF ReceiveStarted, Playing, IInv, Types
<1>2. /\ j \in Joiner /\ HandlerOk(j)
      /\ SessionOk(s, Down(s), client[s], j, netState, failed, players)
      /\ down[s] \in Seq(DownMessage) /\ out[s] \in Seq(DownMessage)
  BY OfStream DEF StreamOk
<1>3. j.handler = "startingUp"  BY <1>1, <1>2 DEF HandlerOk, Playing
<1>4. /\ j0 \in Joiner /\ SameBut(j, j0, {"out"}) /\ j0.out = <<>>
      /\ j0.net \in Playing /\ j0.handler = "startingUp"
  <2>1. j0 \in Joiner /\ SameBut(j, j0, {"out"}) /\ j0.out = <<>>  BY <1>2, Emptied
  <2> QED  BY <1>1, <1>3, <2>1 DEF SameBut
<1>5. joiner[s].net \in Alive  BY <1>1 DEF Alive, Playing
<1>6. m \in DownMessage /\ ~IsAbout(m)
  <2>1. 1 \in 1 .. Len(down[s]) /\ m = down[s][1] /\ m \in DownMessage  BY <1>1, <1>2, Behind
  <2>2. 1 \in DOMAIN Down(s) /\ Down(s)[1] = m  BY <1>2, <2>1, PipeDown DEF Down
  <2>3. j.net # "waiting"  BY <1>1 DEF Playing
  <2>4. IsAbout(Down(s)[1]) => j.net = "waiting"  BY <1>2, <2>2 DEF SessionOk
  <2> QED  BY <2>1, <2>2, <2>3, <2>4
<1> HIDE DEF m, j0, j
<1>7. h \in Joiner /\ h.out = <<>> /\ Takes(j0, m, h)  BY <1>4, <1>6, StartedTakes
<1>8. MayTake(j0, m)
  BY <1>4, <1>6 DEF MayTake, Alive, HandlerOk, Playing
<1>9. ~Greeted(j0, m) /\ ~Gathered(j0, m)  BY <1>4 DEF Greeted, Gathered
<1> HIDE DEF h, IInv, Pumped
<1> QED  BY <1>1, <1>4, <1>5, <1>7, <1>8, <1>9, TakesStep DEF m, j

\* A joiner asks for other colors.
LEMMA RequestColorsStep ==
  ASSUME IInv, NEW s \in Stream, NEW look \in Looks, RequestColors(s, look)
  PROVE  IInv'
<1>1. /\ joiner \in [Stream -> Joiner] /\ up \in [Stream -> Seq(UpMessage)]
      /\ down \in [Stream -> Seq(DownMessage)] /\ link \in [Stream -> {"none", "up", "down"}]
      /\ changes \in Nat /\ mishaps \in Nat
  BY DEF IInv, Types
<1> DEFINE j == joiner[s]
           m == ChangeColors(look)
           o == Append(j.out, m)
           h == [j EXCEPT !.out = o]
           u == Up(s)
           v == Up(s)'
           d == Down(s)
           c == client[s]
           l == link[s]
<1>2. /\ j \in Joiner /\ j.out \in Seq(UpMessage) /\ up[s] \in Seq(UpMessage)
      /\ StreamOk(s, l, d, u, j)
  BY OfStream
<1>3. m \in UpMessage /\ m.type = "changeColors"
  BY GatheringAssumption DEF UpMessage, ChangeColors
<1>4. /\ j.net = "waiting" /\ joiner' = [joiner EXCEPT ![s] = h] /\ changes' = changes + 1
      /\ UNCHANGED <<gathererVars, link, up, down, mishaps>>
  BY DEF RequestColors, Replies
<1>5. h \in Joiner /\ SameBut(j, h, {"out"}) /\ h.out = o
  <2>1. o \in Seq(UpMessage)  BY <1>2, <1>3
  <2> HIDE DEF o, j
  <2> QED  BY <1>2, <2>1 DEF Joiner, SameBut
<1> HIDE DEF m, h
<1>6. joiner'[s] = h /\ Down(s)' = d /\ link'[s] = l
  BY <1>1, <1>4 DEF gathererVars, Down
<1>7. v = IF l = "up" THEN Append(u, m) ELSE u
  <2>1. v = Pipe(l, up[s], o)  BY <1>4, <1>5, <1>6 DEF Up
  <2> HIDE DEF v
  <2> QED  BY <1>2, <1>3, <2>1, PipeAppend DEF Up
<1>8. u \in Seq(UpMessage) /\ v \in Seq(UpMessage)
  <2>1. u \in Seq(UpMessage)  BY <1>2 DEF StreamOk
  <2> HIDE DEF u, v
  <2> QED  BY <1>3, <1>7, <2>1
<1>9. \A k \in DOMAIN v : (k \in DOMAIN u /\ v[k] = u[k]) \/ v[k].type = "changeColors"
  <2> HIDE DEF u, v
  <2>1. CASE l = "up"
    <3>1. v = Append(u, m)  BY <1>7, <2>1
    <3> QED  BY <1>3, <1>8, <3>1
  <2>2. CASE l # "up"  BY <1>7, <2>2
  <2> QED  BY <2>1, <2>2
<1>10. \A k \in DOMAIN u : k \in DOMAIN v /\ v[k] = u[k]
  <2> HIDE DEF u, v
  <2> QED  BY <1>3, <1>7, <1>8
<1> HIDE DEF u, v, d, l, c
<1>11. StreamOk(s, l, d, u, h)
  <2>1. j.net \in Alive  BY <1>4 DEF Alive
  <2> QED  BY <1>2, <1>5, <2>1, OutAside
<1>12. StreamOk(s, l, d, v, h)
  <2>0. /\ LinkOk(l, s \in connected, d, u, c, h, Running)
        /\ IntroducedOk(u, c, h) /\ JoinedOk(d, u, c, h) /\ AnswerOk(l, d, u, c, h)
        /\ h.net = "waiting"
    BY <1>4, <1>5, <1>11 DEF StreamOk, SameBut, c
  <2>1. LinkOk(l, s \in connected, d, v, c, h, Running)
    BY <1>7, <2>0 DEF LinkOk
  <2>2. IntroducedOk(v, c, h)
    BY <1>9, <1>10, <2>0 DEF IntroducedOk, Introduces
  <2>3. JoinedOk(d, v, c, h)  BY <2>0 DEF JoinedOk
  <2>4. AnswerOk(l, d, v, c, h)  BY <1>10, <2>0 DEF AnswerOk
  <2> QED  BY <1>8, <1>11, <2>1, <2>2, <2>3, <2>4 DEF StreamOk, c
<1>13. ASSUME NEW id, Knows(d, v, h, id)  PROVE Knows(d, u, j, id)
  <2>1. \A k \in DOMAIN v : AcceptsAs(v[k], id) => k \in DOMAIN u /\ AcceptsAs(u[k], id)
    BY <1>9 DEF AcceptsAs
  <2> QED  BY <1>5, <1>13, <2>1 DEF Knows, SameBut
<1>14. joiner' \in [Stream -> Joiner] /\ \A t \in Stream : t # s => joiner'[t] = joiner[t]
  BY <1>1, <1>4, <1>5
<1>15. StreamOk(s, link'[s], Down(s)', Up(s)', joiner'[s])  BY <1>6, <1>12 DEF v
<1>16. \A id : Knows(Down(s)', Up(s)', joiner'[s], id) => Knows(Down(s), Up(s), joiner[s], id)
  BY <1>6, <1>13 DEF v, d, u, j
<1>17. changes' \in Nat /\ mishaps' \in Nat /\ UNCHANGED gathererVars
       /\ link' = link /\ up' = up /\ down' = down
  BY <1>1, <1>4
<1> HIDE DEF IInv, gathererVars
<1> QED  BY <1>1, <1>14, <1>15, <1>16, <1>17, JoinerStep

----------------------------------------------------------------------------
(* A connection ends, or has ended: of what is under way only the beginning *)
(* stays.                                                                   *)

Begins(e, d) == \A k \in DOMAIN e : k \in DOMAIN d /\ e[k] = d[k]
Within(v, u) == \E o \in Nat : \A k \in DOMAIN v : k + o \in DOMAIN u /\ v[k] = u[k + o]
Gone == {"joinError", "crashed", "left"}

\* The joiner stays as he is or is gone, and with him what he would have got.
Ended(l, d, j, e, h) ==
  \/ h = j
  \/ /\ SameBut(j, h, {"net", "out"}) /\ h.net \in Gone /\ h.out = <<>>
     /\ e = <<>> /\ l # "none"

\* The gatherer keeps the client, or does not listen to him any more.
Forgotten(listed, c, listedNow, v, cNow) ==
  /\ listedNow => listed
  /\ ~listedNow => v = <<>>
  /\ cNow = c \/ (cNow = "none" /\ ~listedNow)

\* Nothing changes for those who play.
Steady(state, fate, ps, stateNow, fateNow, psNow) ==
  state = "active" => /\ stateNow = "active"
                      /\ fateNow = "none" => fate = "none" /\ psNow = ps

\* Cutting a connection or forgetting a client: the connection and its ends
\* still fit.
LEMMA CutLink ==
  ASSUME NEW l, NEW k, NEW listed, NEW listedNow, NEW d \in Seq(DownMessage),
         NEW e \in Seq(DownMessage), NEW u \in Seq(UpMessage), NEW v \in Seq(UpMessage),
         NEW c, NEW cNow, NEW j \in Joiner, NEW h \in Joiner, NEW running, NEW runningNow,
         LinkOk(l, listed, d, u, c, j, running), k # "up", k = "none" <=> l = "none",
         Begins(e, d), Forgotten(listed, c, listedNow, v, cNow), Ended(l, d, j, e, h)
  PROVE  LinkOk(k, listedNow, e, v, cNow, h, runningNow)
<1>1. d = <<>> => e = <<>>
  <2> SUFFICES ASSUME d = <<>>, e # <<>>  PROVE FALSE  OBVIOUS
  <2>1. 1 \in DOMAIN e  BY Behind
  <2>2. 1 \notin DOMAIN d  OBVIOUS
  <2> QED  BY <2>1, <2>2 DEF Begins
<1>2. h.net = "none" <=> j.net = "none"
  BY DEF Ended, Gone, LinkOk
<1>3. h.net \notin Alive \cup {"none"} => e = <<>> /\ h.out = <<>>
  BY <1>1 DEF Ended, LinkOk, Gone
<1>4. k = "none" => cNow = "none" /\ h = NoJoiner /\ e = <<>>
  BY <1>1 DEF LinkOk, Ended, Forgotten
<1>5. listedNow => cNow # "none" /\ k # "none"  BY DEF LinkOk, Forgotten
<1>6. ~listedNow => k # "up" /\ v = <<>>  BY DEF Forgotten
<1>7. k = "none" <=> h.net = "none"  BY <1>2 DEF LinkOk
<1> QED  BY <1>3, <1>4, <1>5, <1>6, <1>7 DEF LinkOk

\* Cutting: netState and the handler's state still fit.
LEMMA CutHandler ==
  ASSUME NEW j, NEW h, NEW l, NEW d, NEW e, HandlerOk(j), Ended(l, d, j, e, h)
  PROVE  HandlerOk(h)
BY DEF HandlerOk, Ended, Gone, Playing

\* Cutting: he has still introduced himself at most once.
LEMMA CutIntroduced ==
  ASSUME NEW listed, NEW listedNow, NEW u \in Seq(UpMessage), NEW v \in Seq(UpMessage),
         NEW c, NEW cNow, NEW j, NEW h, NEW l, NEW d, NEW e,
         IntroducedOk(u, c, j), Within(v, u),
         Forgotten(listed, c, listedNow, v, cNow), Ended(l, d, j, e, h)
  PROVE  IntroducedOk(v, cNow, h)
<1>1. PICK o \in Nat : \A k \in DOMAIN v : k + o \in DOMAIN u /\ v[k] = u[k + o]
  BY DEF Within
<1>2. h.handler = j.handler  BY DEF Ended, SameBut
<1>3. \A k \in DOMAIN v : Introduces(v, k) => Introduces(u, k + o)  BY <1>1 DEF Introduces
<1>4. \A k, n \in DOMAIN v : k + o = n + o => k = n  BY <1>1
<1>5. cNow = c \/ (cNow = "none" /\ \A k \in DOMAIN v : FALSE)  BY DEF Forgotten
<1>6. \A k \in DOMAIN v : Introduces(v, k) =>
        cNow = "connecting" /\ \A n \in DOMAIN v : Introduces(v, n) => n = k
  <2>1. \A k \in DOMAIN v : Introduces(v, k) => c = "connecting" /\ cNow = "connecting"
    BY <1>1, <1>3, <1>5 DEF IntroducedOk
  <2>2. \A k, n \in DOMAIN v : Introduces(v, k) /\ Introduces(v, n) => n + o = k + o
    BY <1>1, <1>3 DEF IntroducedOk
  <2> QED  BY <1>4, <2>1, <2>2
<1>7. h.handler = "awaitingHello" =>
        cNow \in {"none", "connecting"} /\ \A k \in DOMAIN v : ~Introduces(v, k)
  BY <1>1, <1>2, <1>3, <1>5 DEF IntroducedOk
<1> QED  BY <1>6, <1>7 DEF IntroducedOk

\* Cutting: nobody who has accepted is joining still.
LEMMA CutJoined ==
  ASSUME NEW listed, NEW listedNow, NEW u, NEW v, NEW c, NEW cNow, NEW j, NEW h, NEW l,
         NEW d, NEW e, JoinedOk(d, u, c, j), Begins(e, d), Within(v, u),
         Forgotten(listed, c, listedNow, v, cNow), Ended(l, d, j, e, h)
  PROVE  JoinedOk(e, v, cNow, h)
<1>1. \A k \in DOMAIN e : Ends(e[k]) => k \in DOMAIN d /\ Ends(d[k])  BY DEF Begins
<1>2. \A k \in DOMAIN v : Accepts(v[k]) => \E n \in DOMAIN u : Accepts(u[n])
  BY DEF Within
<1>3. cNow \in In => c \in In  BY DEF Forgotten, In
<1>4. j.net \notin {"none", "joining"} => h.net \notin {"none", "joining"}
  BY DEF Ended, Gone
<1>5. h.net \in {"none", "joining"} => h = j  BY DEF Ended, Gone
<1> QED  BY <1>1, <1>2, <1>3, <1>4 DEF JoinedOk

\* Cutting: session and topologies still come in their order.
LEMMA CutSession ==
  ASSUME NEW s, NEW listed, NEW listedNow, NEW d \in Seq(DownMessage),
         NEW e \in Seq(DownMessage), NEW v, NEW c, NEW cNow, NEW j, NEW h,
         NEW l, NEW state, NEW fate, NEW ps, NEW stateNow, NEW fateNow, NEW psNow,
         SessionOk(s, d, c, j, state, fate, ps), Begins(e, d),
         Steady(state, fate, ps, stateNow, fateNow, psNow),
         Forgotten(listed, c, listedNow, v, cNow), Ended(l, d, j, e, h)
  PROVE  SessionOk(s, e, cNow, h, stateNow, fateNow, psNow)
<1>1. \A k \in DOMAIN e : k \in DOMAIN d /\ e[k] = d[k]  BY DEF Begins
<1>2. /\ h.session = j.session /\ h.players = j.players /\ h.anomalies = j.anomalies
      /\ h.net = j.net \/ (DOMAIN e = {} /\ h.net \notin Playing)
  BY DEF Ended, SameBut, Gone, Playing
<1>3. \A k \in DOMAIN e : \A n \in DOMAIN d : n < k => n \in DOMAIN e  OBVIOUS
<1>4. cNow \in Asked => c \in Asked  BY DEF Forgotten, Asked
<1>5. cNow \in Asked =>
        /\ \A k \in DOMAIN e : ~IsAbout(e[k]) /\ ~Ends(e[k])
        /\ h.session = FALSE /\ h.net \notin Playing
  BY <1>1, <1>2, <1>4 DEF SessionOk
<1>6. \A k \in DOMAIN e : IsAbout(e[k]) => h.net = "waiting"
  BY <1>1, <1>2 DEF SessionOk
<1>7. ASSUME NEW k \in DOMAIN e, IsTopology(e[k])
      PROVE  h.session = TRUE \/ \E n \in DOMAIN e : n < k /\ IsSession(e[n])
  <2>1. j.session = TRUE \/ \E n \in DOMAIN d : n < k /\ IsSession(d[n])
    BY <1>1, <1>7 DEF SessionOk
  <2> QED  BY <1>1, <1>2, <1>3, <2>1
<1>8. \A k, n \in DOMAIN e : k < n /\ IsTopology(e[k]) => ~IsSession(e[n])
  BY <1>1 DEF SessionOk
<1>9. \A k, n \in DOMAIN e : k < n /\ Starts(e[k]) => ~IsAbout(e[n])
  BY <1>1 DEF SessionOk
<1>10. \A k \in DOMAIN e : Starts(e[k]) =>
         stateNow = "active" /\ (fateNow = "none" => e[k].players = psNow /\ Plays(s, psNow))
  BY <1>1 DEF SessionOk, Steady
<1>11. h.net \in Playing =>
         /\ stateNow = "active" /\ h.session = TRUE
         /\ fateNow = "none" => h.players = psNow /\ Plays(s, psNow)
  BY <1>2 DEF SessionOk, Steady
<1>12. "unexpectedTopology" \notin h.anomalies /\ "unexpectedSession" \notin h.anomalies
  BY <1>2 DEF SessionOk
<1> QED
  BY <1>5, <1>6, <1>7, <1>8, <1>9, <1>10, <1>11, <1>12 DEF SessionOk

\* Cutting: what was under way of chat info still makes sense.
LEMMA CutChat ==
  ASSUME NEW l, NEW k, NEW listed, NEW listedNow, NEW d \in Seq(DownMessage),
         NEW e \in Seq(DownMessage), NEW v, NEW c, NEW cNow, NEW j, NEW h, NEW info, NEW infoNow,
         ChatOk(l, d, c, j, info), k # "up", Begins(e, d),
         Forgotten(listed, c, listedNow, v, cNow), Ended(l, d, j, e, h)
  PROVE  ChatOk(k, e, cNow, h, infoNow)
<1>1. \A i \in DOMAIN e : i \in DOMAIN d /\ e[i] = d[i]  BY DEF Begins
<1>2. h.chat = j.chat /\ h.anomalies = j.anomalies  BY DEF Ended, SameBut
<1>3. \A i \in DOMAIN e : \A n \in 1 .. (i - 1) : n \in DOMAIN e  OBVIOUS
<1>4. ASSUME NEW i \in DOMAIN e, NEW t
      PROVE  Known(h.chat, e, i - 1, t) <=> Known(j.chat, d, i - 1, t)
  <2>1. \A n \in 1 .. (i - 1) : e[n] = d[n]  BY <1>1, <1>3
  <2>2. \A n \in 1 .. (i - 1) : \A m \in (n + 1) .. (i - 1) : m \in 1 .. (i - 1)  OBVIOUS
  <2> QED  BY <1>2, <2>1, <2>2 DEF Known
<1>5. \A i \in DOMAIN e : \A t \in Anybody :
        /\ Adds(e[i], t) => ~Known(h.chat, e, i - 1, t)
        /\ Updates(e[i], t) => Known(h.chat, e, i - 1, t)
  BY <1>1, <1>4 DEF ChatOk
<1>6. cNow \in {"connecting", "awaitingCapabilities"} =>
        /\ \A t \in Anybody : t \notin h.chat
        /\ \A i \in DOMAIN e : e[i].type # "clientInfo"
  BY <1>1, <1>2 DEF ChatOk, Forgotten
<1>7. "clientExists" \notin h.anomalies /\ "nullChatInfo" \notin h.anomalies
  BY <1>2 DEF ChatOk
<1> QED  BY <1>5, <1>6, <1>7 DEF ChatOk

\* Cutting: nobody learns of an identifier.
LEMMA CutKnows ==
  ASSUME NEW d, NEW e, NEW u, NEW v, NEW j, NEW h, NEW l, NEW id,
         Begins(e, d), Within(v, u), Ended(l, d, j, e, h), Knows(e, v, h, id)
  PROVE  Knows(d, u, j, id)
<1>1. h.handler = j.handler /\ h.id = j.id  BY DEF Ended, SameBut
<1>2. (\E k \in DOMAIN e : Invites(e[k], id)) => \E k \in DOMAIN d : Invites(d[k], id)
  BY DEF Begins
<1>3. (\E k \in DOMAIN v : AcceptsAs(v[k], id)) => \E k \in DOMAIN u : AcceptsAs(u[k], id)
  BY DEF Within
<1> QED  BY <1>1, <1>2, <1>3 DEF Knows

\* All of it, for a stream as it is and as it will be.
LEMMA CutStream ==
  ASSUME NEW s, NEW l, NEW d, NEW u, NEW j, StreamOk(s, l, d, u, j),
         NEW k, k # "up", k = "none" <=> l = "none",
         NEW e \in Seq(DownMessage), NEW v \in Seq(UpMessage), NEW h \in Joiner,
         Begins(e, d), Within(v, u), Ended(l, d, j, e, h),
         Forgotten(s \in connected, client[s], (s \in connected)', v, client'[s]),
         Steady(netState, failed, players, netState', failed', players')
  PROVE  /\ e \in Seq(DownMessage) /\ v \in Seq(UpMessage) /\ h \in Joiner
         /\ LinkOk(k, (s \in connected)', e, v, client'[s], h, Running')
         /\ HandlerOk(h) /\ IntroducedOk(v, client'[s], h) /\ JoinedOk(e, v, client'[s], h)
         /\ SessionOk(s, e, client'[s], h, netState', failed', players')
         /\ ToldOk(k, e, client'[s], h, players')
         /\ AnswerOk(k, e, v, client'[s], h)
         /\ ChatOk(k, e, client'[s], h, chatInfo')
<1> DEFINE c == client[s]
           cNow == client'[s]
           listed == s \in connected
           listedNow == (s \in connected)'
           running == Running
           runningNow == Running'
           stateNow == netState'
           fateNow == failed'
           psNow == players'
           infoNow == chatInfo'
<1>1. /\ d \in Seq(DownMessage) /\ u \in Seq(UpMessage) /\ j \in Joiner
      /\ LinkOk(l, listed, d, u, c, j, running)
      /\ HandlerOk(j) /\ IntroducedOk(u, c, j) /\ JoinedOk(d, u, c, j)
      /\ SessionOk(s, d, c, j, netState, failed, players)
      /\ ChatOk(l, d, c, j, chatInfo)
      /\ Forgotten(listed, c, listedNow, v, cNow)
      /\ Steady(netState, failed, players, stateNow, fateNow, psNow)
  BY DEF StreamOk
<1> HIDE DEF c, cNow, listed, listedNow, running, runningNow, stateNow, fateNow, psNow, infoNow
<1>2. LinkOk(k, listedNow, e, v, cNow, h, runningNow)  BY <1>1, CutLink
<1>3. HandlerOk(h)  BY <1>1, CutHandler
<1>4. IntroducedOk(v, cNow, h)  BY <1>1, CutIntroduced
<1>5. JoinedOk(e, v, cNow, h)  BY <1>1, CutJoined
<1>6. SessionOk(s, e, cNow, h, stateNow, fateNow, psNow)  BY <1>1, CutSession
<1>7. ToldOk(k, e, cNow, h, psNow) /\ AnswerOk(k, e, v, cNow, h)  BY DEF ToldOk, AnswerOk
<1>8. ChatOk(k, e, cNow, h, infoNow)  BY <1>1, CutChat
<1> QED
  BY <1>2, <1>3, <1>4, <1>5, <1>6, <1>7, <1>8
  DEF cNow, listedNow, runningNow, stateNow, fateNow, psNow, infoNow

\* What is under way begins the pipe, and nothing is from who is not heard.
LEMMA UnderWay ==
  ASSUME IInv, NEW t \in Stream
  PROVE  /\ Begins(down[t], Down(t)) /\ Within(up[t], Up(t))
         /\ t \notin connected => up[t] = <<>> /\ link[t] # "up"
<1>1. /\ down[t] \in Seq(DownMessage) /\ out[t] \in Seq(DownMessage)
      /\ up[t] \in Seq(UpMessage) /\ joiner[t].out \in Seq(UpMessage)
  BY OfStream
<1>2. \A k \in 1 .. Len(down[t]) : k \in DOMAIN Down(t) /\ Down(t)[k] = down[t][k]
  BY <1>1, PipeDown DEF Down
<1>3. \A k \in 1 .. Len(up[t]) : k \in DOMAIN Up(t) /\ Up(t)[k] = up[t][k]
  <2> DEFINE b == up[t]
             o == joiner[t].out
  <2>1. b \in Seq(UpMessage) /\ o \in Seq(UpMessage) /\ Up(t) = Pipe(link[t], b, o)
    BY <1>1 DEF Up
  <2> HIDE DEF b, o
  <2>2. \A k \in 1 .. Len(b) : k \in DOMAIN Up(t) /\ Up(t)[k] = b[k]
    <3>1. PipeGives(UpMessage, link[t], b, o)  BY <2>1, PipeIs
    <3> QED  BY <2>1, <3>1 DEF PipeGives
  <2> QED  BY <2>2 DEF b
<1>4. DOMAIN down[t] = 1 .. Len(down[t]) /\ DOMAIN up[t] = 1 .. Len(up[t])  BY <1>1
<1>5. \A k \in 1 .. Len(up[t]) : k + 0 = k  OBVIOUS
<1>6. t \notin connected => up[t] = <<>> /\ link[t] # "up"
  <2>1. LinkOk(link[t], t \in connected, Down(t), Up(t), client[t], joiner[t], Running)
    BY DEF IInv, Links
  <2> QED  BY <2>1 DEF LinkOk, Up, Pipe
<1> HIDE DEF Down, Up
<1>7. Begins(down[t], Down(t))  BY <1>2, <1>4 DEF Begins
<1>8. Within(up[t], Up(t))
  <2>1. \A k \in DOMAIN up[t] : k + 0 \in DOMAIN Up(t) /\ up[t][k] = Up(t)[k + 0]
    BY <1>3, <1>4, <1>5
  <2> QED  BY <2>1 DEF Within
<1> QED  BY <1>6, <1>7, <1>8

\* A joiner that ends, or whose connection the network ends.
LEMMA EndsStep ==
  ASSUME IInv, NEW s \in Stream, UNCHANGED <<gathererVars, up, changes>>,
         mishaps' \in Nat, joiner[s].net # "none",
         link' \in [Stream -> {"none", "up", "down"}], link'[s] = "down",
         \A t \in Stream : t # s => link'[t] = link[t],
         \/ joiner' = joiner /\ down' = down
         \/ \E net \in Gone :
              /\ joiner' = [joiner EXCEPT ![s].net = net, ![s].out = <<>>]
              /\ down' = [down EXCEPT ![s] = <<>>]
  PROVE  IInv'
<1>1. /\ joiner \in [Stream -> Joiner] /\ up \in [Stream -> Seq(UpMessage)]
      /\ down \in [Stream -> Seq(DownMessage)] /\ changes \in Nat
  BY DEF IInv, Types
<1> DEFINE l == link[s]
           d == Down(s)
           u == Up(s)
           j == joiner[s]
           h == joiner'[s]
           e == down'[s]
           v == up[s]
<1>2. /\ StreamOk(s, l, d, u, j) /\ j \in Joiner /\ down[s] \in Seq(DownMessage)
      /\ out[s] \in Seq(DownMessage) /\ up[s] \in Seq(UpMessage) /\ j.out \in Seq(UpMessage)
  BY OfStream
<1>3. l # "none"
  <2>1. l = "none" <=> j.net = "none"  BY <1>2 DEF StreamOk, LinkOk
  <2> QED  BY <2>1
<1>4. Begins(down[s], d) /\ Within(v, u)  BY UnderWay
<1>5. /\ h \in Joiner /\ e \in Seq(DownMessage) /\ Begins(e, d) /\ Ended(l, d, j, e, h)
      /\ joiner' \in [Stream -> Joiner] /\ down' \in [Stream -> Seq(DownMessage)]
      /\ \A t \in Stream : t # s => joiner'[t] = joiner[t] /\ down'[t] = down[t]
  <2>1. CASE joiner' = joiner /\ down' = down  BY <1>1, <1>2, <1>4, <2>1 DEF Ended
  <2>2. ASSUME NEW net \in Gone,
               joiner' = [joiner EXCEPT ![s].net = net, ![s].out = <<>>],
               down' = [down EXCEPT ![s] = <<>>]
        PROVE  /\ h \in Joiner /\ e \in Seq(DownMessage) /\ Begins(e, d) /\ Ended(l, d, j, e, h)
               /\ joiner' \in [Stream -> Joiner] /\ down' \in [Stream -> Seq(DownMessage)]
               /\ \A t \in Stream : t # s => joiner'[t] = joiner[t] /\ down'[t] = down[t]
    <3> DEFINE f == [j EXCEPT !.net = net, !.out = <<>>]
    <3>1. joiner' = [joiner EXCEPT ![s] = f]  BY <1>1, <2>2
    <3>2. f \in Joiner /\ SameBut(j, f, {"net", "out"}) /\ f.net = net /\ f.out = <<>>
      <4>1. <<>> \in Seq(UpMessage) /\ net \in JoinerState  BY DEF Gone, JoinerState
      <4> HIDE DEF j
      <4> QED  BY <1>2, <4>1 DEF Joiner, SameBut
    <3> HIDE DEF f, j
    <3>3. h = f /\ joiner' \in [Stream -> Joiner]
          /\ \A t \in Stream : t # s => joiner'[t] = joiner[t]
      BY <1>1, <3>1, <3>2
    <3>4. /\ e = <<>> /\ down' \in [Stream -> Seq(DownMessage)]
          /\ \A t \in Stream : t # s => down'[t] = down[t]
      <4>1. down \in [Stream -> Seq(DownMessage)] /\ <<>> \in Seq(DownMessage)  BY <1>1
      <4>2. down' = [down EXCEPT ![s] = <<>>]  BY <2>2
      <4> QED  BY <4>1, <4>2 DEF e
    <3>5. Begins(e, d)  BY <3>4 DEF Begins
    <3>6. Ended(l, d, j, e, h)  BY <1>3, <3>2, <3>3, <3>4 DEF Ended
    <3> HIDE DEF h, e, d, l
    <3> QED  BY <3>2, <3>3, <3>4, <3>5, <3>6
  <2> QED  BY <2>1, <2>2
<1>6. /\ netState' = netState /\ players' = players /\ chatInfo' = chatInfo /\ client' = client
      /\ connected' = connected /\ failed' = failed /\ out' = out /\ up' = up
  BY DEF gathererVars
<1>7. Down(s)' = e /\ Up(s)' = v  BY <1>6 DEF Down, Up, Pipe
<1>8. Steady(netState, failed, players, netState', failed', players')  BY <1>6 DEF Steady
<1>9. ~(s \in connected) => v = <<>>
  <2>1. ~(s \in connected) => l # "up" /\ u = <<>>  BY <1>2 DEF StreamOk, LinkOk
  <2> QED  BY <2>1 DEF Up, Pipe
<1>10. Forgotten(s \in connected, client[s], (s \in connected)', v, client'[s])
  BY <1>6, <1>9 DEF Forgotten
<1>11. v \in Seq(UpMessage) /\ link'[s] # "up" /\ (link'[s] = "none" <=> l = "none")
  BY <1>2, <1>3
<1> HIDE DEF l, d, u, j, h, e, v
<1>12. StreamOk(s, link'[s], e, v, h)
  <2>1. /\ e \in Seq(DownMessage) /\ v \in Seq(UpMessage) /\ h \in Joiner
        /\ LinkOk(link'[s], (s \in connected)', e, v, client'[s], h, Running')
        /\ HandlerOk(h) /\ IntroducedOk(v, client'[s], h) /\ JoinedOk(e, v, client'[s], h)
        /\ SessionOk(s, e, client'[s], h, netState', failed', players')
        /\ ToldOk(link'[s], e, client'[s], h, players')
        /\ AnswerOk(link'[s], e, v, client'[s], h)
        /\ ChatOk(link'[s], e, client'[s], h, chatInfo')
    BY <1>2, <1>4, <1>5, <1>8, <1>10, <1>11, CutStream
  <2>2. (s \in connected)' = (s \in connected) /\ Running' = Running
    BY <1>6 DEF Running
  <2> QED  BY <1>6, <2>1, <2>2 DEF StreamOk
<1>13. \A id : Knows(e, v, h, id) => Knows(d, u, j, id)
  BY <1>4, <1>5, CutKnows
<1>14. StreamOk(s, link'[s], Down(s)', Up(s)', joiner'[s])  BY <1>7, <1>12 DEF h
<1>15. \A id : Knows(Down(s)', Up(s)', joiner'[s], id) => Knows(Down(s), Up(s), joiner[s], id)
  BY <1>7, <1>13 DEF h, d, u, j
<1>16. /\ UNCHANGED gathererVars /\ changes' \in Nat /\ up' \in [Stream -> Seq(UpMessage)]
       /\ \A t \in Stream : t # s => /\ link'[t] = link[t] /\ up'[t] = up[t]
                                     /\ down'[t] = down[t] /\ joiner'[t] = joiner[t]
  BY <1>1, <1>5, <1>6
<1>17. link'[s] = "none" => link[s] = "none"  BY <1>11 DEF l
<1> HIDE DEF IInv, gathererVars
<1> QED  BY <1>5, <1>14, <1>15, <1>16, <1>17, JoinerStep

\* A joiner crashes on a topology from a closed connection.
LEMMA TopologyFromClosedStep ==
  ASSUME IInv, NEW s \in Stream, TopologyFromClosed(s)
  PROVE  IInv'
<1>1. /\ joiner[s].net = "waiting" /\ link[s] = "down" /\ "crashed" \in Gone
      /\ joiner' = [joiner EXCEPT ![s].net = "crashed", ![s].out = <<>>]
      /\ down' = [down EXCEPT ![s] = <<>>]
      /\ UNCHANGED <<gathererVars, up, changes>> /\ link' = link /\ mishaps' = mishaps
  BY DEF TopologyFromClosed, Gone
<1>2. link \in [Stream -> {"none", "up", "down"}] /\ mishaps \in Nat  BY DEF IInv, Types
<1> HIDE DEF IInv, gathererVars
<1> QED  BY <1>1, <1>2, EndsStep

\* A joiner finds that his connection is lost.
LEMMA LoseServerStep ==
  ASSUME IInv, NEW s \in Stream, LoseServer(s)
  PROVE  IInv'
<1>1. /\ joiner[s].net # "none" /\ link[s] = "down" /\ "joinError" \in Gone
      /\ joiner' = [joiner EXCEPT ![s].net = "joinError", ![s].out = <<>>]
      /\ down' = [down EXCEPT ![s] = <<>>]
      /\ UNCHANGED <<gathererVars, up, changes>> /\ link' = link /\ mishaps' = mishaps
  BY DEF LoseServer, Gone
<1>2. link \in [Stream -> {"none", "up", "down"}] /\ mishaps \in Nat  BY DEF IInv, Types
<1> HIDE DEF IInv, gathererVars
<1> QED  BY <1>1, <1>2, EndsStep

\* A joiner leaves, or the network ends his connection.
LEMMA LeaveStep ==
  ASSUME IInv, NEW s \in Stream, Leave(s)
  PROVE  IInv'
<1>1. link \in [Stream -> {"none", "up", "down"}] /\ mishaps \in Nat  BY DEF IInv, Types
<1>2. /\ joiner[s].net # "none" /\ "left" \in Gone /\ mishaps' = mishaps + 1
      /\ link' = [link EXCEPT ![s] = "down"] /\ UNCHANGED <<gathererVars, up, changes>>
      /\ \/ joiner' = joiner /\ down' = down
         \/ /\ joiner' = [joiner EXCEPT ![s].net = "left", ![s].out = <<>>]
            /\ down' = [down EXCEPT ![s] = <<>>]
  BY DEF Leave, Gone
<1>3. /\ link' \in [Stream -> {"none", "up", "down"}] /\ link'[s] = "down" /\ mishaps' \in Nat
      /\ \A t \in Stream : t # s => link'[t] = link[t]
  BY <1>1, <1>2
<1> HIDE DEF IInv, gathererVars
<1> QED  BY <1>2, <1>3, EndsStep

----------------------------------------------------------------------------
(* The gatherer's steps, by what they do to a stream.                       *)

\* Nothing.
LEMMA StreamSame ==
  ASSUME IInv, NEW t \in Stream, link'[t] = link[t], joiner'[t] = joiner[t],
         Down(t)' = Down(t), Up(t)' = Up(t), client'[t] = client[t],
         (t \in connected)' <=> t \in connected,
         netState' = netState, failed' = failed, players' = players, chatInfo' = chatInfo
  PROVE  /\ StreamOk(t, link[t], Down(t), Up(t), joiner[t])'
         /\ \A id : Knows(Down(t), Up(t), joiner[t], id)' => Knows(Down(t), Up(t), joiner[t], id)
<1>1. StreamOk(t, link[t], Down(t), Up(t), joiner[t])  BY OfStream
<1>2. StreamOk(t, link[t], Down(t), Up(t), joiner[t])'  BY <1>1 DEF StreamOk, Running
<1> QED  BY <1>2

\* Its connection ends, or has ended.
LEMMA GathererCuts ==
  ASSUME IInv, NEW t \in Stream, joiner'[t] = joiner[t],
         link'[t] # "up", link'[t] = "none" <=> link[t] = "none",
         down'[t] \in Seq(DownMessage), Begins(down'[t], Down(t)),
         up'[t] \in Seq(UpMessage), Within(up'[t], Up(t)),
         Forgotten(t \in connected, client[t], (t \in connected)', up'[t], client'[t]),
         Steady(netState, failed, players, netState', failed', players')
  PROVE  /\ StreamOk(t, link[t], Down(t), Up(t), joiner[t])'
         /\ \A id : Knows(Down(t), Up(t), joiner[t], id)' => Knows(Down(t), Up(t), joiner[t], id)
<1>1. StreamOk(t, link[t], Down(t), Up(t), joiner[t]) /\ joiner[t] \in Joiner  BY OfStream
<1>2. Down(t)' = down'[t] /\ Up(t)' = up'[t]  BY DEF Down, Up, Pipe
<1> DEFINE l == link[t]
           d == Down(t)
           u == Up(t)
           j == joiner[t]
           k == link'[t]
           e == down'[t]
           v == up'[t]
<1>3. Ended(l, d, j, e, j)  BY DEF Ended
<1>4. /\ StreamOk(t, l, d, u, j) /\ k # "up" /\ (k = "none" <=> l = "none") /\ j \in Joiner
      /\ e \in Seq(DownMessage) /\ v \in Seq(UpMessage) /\ Begins(e, d) /\ Within(v, u)
      /\ Forgotten(t \in connected, client[t], (t \in connected)', v, client'[t])
  BY <1>1
<1> HIDE DEF l, d, u, j, k, e, v
<1>5. /\ e \in Seq(DownMessage) /\ v \in Seq(UpMessage) /\ j \in Joiner
      /\ LinkOk(k, (t \in connected)', e, v, client'[t], j, Running')
      /\ HandlerOk(j) /\ IntroducedOk(v, client'[t], j) /\ JoinedOk(e, v, client'[t], j)
      /\ SessionOk(t, e, client'[t], j, netState', failed', players')
      /\ ToldOk(k, e, client'[t], j, players')
      /\ AnswerOk(k, e, v, client'[t], j)
      /\ ChatOk(k, e, client'[t], j, chatInfo')
  BY <1>3, <1>4, CutStream
<1>6. \A id : Knows(e, v, j, id) => Knows(d, u, j, id)  BY <1>3, <1>4, CutKnows
<1>7. StreamOk(t, link[t], Down(t), Up(t), joiner[t])'
  BY <1>2, <1>5 DEF StreamOk, k, e, v, j
<1>8. \A id : Knows(Down(t)', Up(t)', joiner'[t], id) => Knows(Down(t), Up(t), joiner[t], id)
  BY <1>2, <1>6 DEF d, u, e, v, j
<1> QED  BY <1>7, <1>8

\* No identifier is given.
LEMMA SameIds ==
  ASSUME IInv, nextIdentifier' = nextIdentifier,
         \A t \in Stream : client[t] \in Invited => client'[t] \in Invited,
         \A t \in Stream : \A id \in Nat : HasId(t, id)' => HasId(t, id),
         \A i \in DOMAIN players' : players'[i].stream = 0 => players'[i].id = 0
  PROVE  Identifiers'
<1>1. Identifiers  BY DEF IInv
<1> HIDE DEF HasId
<1>2. \A t \in Stream, id \in Nat :
        HasId(t, id)' => id \in 1 .. (nextIdentifier' - 1) /\ client'[t] \in Invited
  BY <1>1 DEF Identifiers
<1>3. \A t, r \in Stream : \A id, jd \in Nat :
        HasId(t, id)' /\ HasId(r, jd)' => (t = r <=> id = jd)
  BY <1>1 DEF Identifiers
<1> QED  BY <1>2, <1>3 DEF Identifiers

\* Identifiers that nobody new learns of stay whose they are.
LEMMA IdsFrom ==
  ASSUME \A t \in Stream : \A id :
           Knows(Down(t), Up(t), joiner[t], id)' => HasId(t, id),
         \A t \in Stream : \A id : PlaysAs(t, players', id) => HasId(t, id)
  PROVE  \A t \in Stream : \A id \in Nat : HasId(t, id)' => HasId(t, id)
BY DEF HasId

\* The gatherer's program ends: all connections do.
LEMMA CrashStep ==
  ASSUME IInv, Running, failed' \in {"num_players", "netState", "peerAddress"},
         link' = AllEnded,
         UNCHANGED <<netState, nextIdentifier, ungathered, chatInfo, client, connected,
                     joiner, changes, mishaps>>,
         players' \in Seq(Player), out' \in [Stream -> Seq(DownMessage)],
         down' \in [Stream -> Seq(DownMessage)], up' \in [Stream -> Seq(UpMessage)],
         \A t \in Stream : Begins(down'[t], Down(t)) /\ Within(up'[t], Up(t)),
         \A t \in Stream : t \notin connected => up'[t] = <<>>,
         \A i \in DOMAIN players' : players'[i].stream = 0 => players'[i].id = 0,
         \A t \in Stream : \A id : PlaysAs(t, players', id) => HasId(t, id)
  PROVE  IInv'
<1>1. /\ link \in [Stream -> {"none", "up", "down"}] /\ joiner \in [Stream -> Joiner]
      /\ Types /\ Lists /\ Unheard
  BY DEF IInv, Types
<1>2. /\ link' \in [Stream -> {"none", "up", "down"}]
      /\ \A t \in Stream : link'[t] # "up" /\ (link'[t] = "none" <=> link[t] = "none")
  BY <1>1 DEF AllEnded
<1>3. /\ netState' = netState /\ nextIdentifier' = nextIdentifier /\ ungathered' = ungathered
      /\ chatInfo' = chatInfo /\ client' = client /\ connected' = connected
      /\ joiner' = joiner /\ changes' = changes /\ mishaps' = mishaps
  OBVIOUS
<1>4. Types'  BY <1>1, <1>2, <1>3 DEF Types
<1>5. Lists'  BY <1>1, <1>3 DEF Lists, Running
<1>6. Dressed' /\ Unheard'  BY <1>1, <1>2, <1>3 DEF Dressed, Unheard
<1>7. Steady(netState, failed, players, netState', failed', players')
  BY <1>3 DEF Steady
<1>8. ASSUME NEW t \in Stream
      PROVE  /\ StreamOk(t, link[t], Down(t), Up(t), joiner[t])'
             /\ \A id : Knows(Down(t), Up(t), joiner[t], id)'
                          => Knows(Down(t), Up(t), joiner[t], id)
  <2>1. Forgotten(t \in connected, client[t], (t \in connected)', up'[t], client'[t])
    BY <1>3 DEF Forgotten
  <2>2. joiner'[t] = joiner[t] /\ down'[t] \in Seq(DownMessage) /\ up'[t] \in Seq(UpMessage)
    BY <1>3
  <2> HIDE DEF IInv
  <2> QED  BY <1>2, <1>7, <2>1, <2>2, GathererCuts
<1>9. Identifiers'
  <2>1. \A t \in Stream : \A id : Knows(Down(t), Up(t), joiner[t], id)' => HasId(t, id)
    BY <1>8 DEF HasId
  <2>2. \A t \in Stream : \A id \in Nat : HasId(t, id)' => HasId(t, id)
    BY <2>1, IdsFrom
  <2> HIDE DEF IInv
  <2> QED  BY <1>3, <2>2, SameIds
<1> QED  BY <1>4, <1>5, <1>6, <1>8, <1>9, Together

\* The gatherer crashes on an acceptance from a closed connection.
LEMMA AcceptFromClosedStep ==
  ASSUME IInv, NEW s \in Stream, AcceptFromClosed(s)
  PROVE  IInv'
<1>1. /\ Running /\ failed' = "peerAddress" /\ link' = AllEnded
      /\ UNCHANGED <<netState, nextIdentifier, ungathered, chatInfo, client, connected,
                     joiner, changes, mishaps>>
      /\ players' = players /\ out' = out /\ down' = down /\ up' = up
  BY DEF AcceptFromClosed
<1>2. /\ players \in Seq(Player) /\ out \in [Stream -> Seq(DownMessage)]
      /\ down \in [Stream -> Seq(DownMessage)] /\ up \in [Stream -> Seq(UpMessage)]
  BY DEF IInv, Types
<1>3. \A i \in DOMAIN players : players[i].stream = 0 => players[i].id = 0
  BY DEF IInv, Identifiers
<1>4. \A t \in Stream : \A id : PlaysAs(t, players, id) => HasId(t, id)  BY DEF HasId
<1> HIDE DEF IInv
<1> QED  BY <1>1, <1>2, <1>3, <1>4, UnderWay, CrashStep

\* The gatherer's pump finds a connection lost.
LEMMA LoseClientStep ==
  ASSUME IInv, NEW s \in Stream, LoseClient(s)
  PROVE  IInv'
<1>1. /\ link[s] = "down" /\ connected' = connected \ {s}
      /\ out' = [out EXCEPT ![s] = <<>>] /\ up' = [up EXCEPT ![s] = <<>>]
      /\ netState' = netState /\ players' = players /\ nextIdentifier' = nextIdentifier
      /\ ungathered' = ungathered /\ chatInfo' = chatInfo /\ client' = client
      /\ failed' = failed /\ link' = link /\ down' = down /\ joiner' = joiner
      /\ changes' = changes /\ mishaps' = mishaps
  BY DEF LoseClient
<1>2. /\ Types /\ Lists /\ Dressed /\ Unheard
      /\ out \in [Stream -> Seq(DownMessage)] /\ up \in [Stream -> Seq(UpMessage)]
      /\ down \in [Stream -> Seq(DownMessage)] /\ joiner \in [Stream -> Joiner]
  BY DEF IInv, Types
<1>3. Types'
  <2>1. /\ out' \in [Stream -> Seq(DownMessage)] /\ up' \in [Stream -> Seq(UpMessage)]
        /\ connected' \in SUBSET Stream
    BY <1>1, <1>2 DEF Types
  <2> QED  BY <1>1, <1>2, <2>1 DEF Types
<1>4. Lists' /\ Dressed' /\ Unheard'
  BY <1>1, <1>2 DEF Lists, Dressed, Unheard, Running
<1>5. ASSUME NEW t \in Stream
      PROVE  /\ StreamOk(t, link[t], Down(t), Up(t), joiner[t])'
             /\ \A id : Knows(Down(t), Up(t), joiner[t], id)'
                          => Knows(Down(t), Up(t), joiner[t], id)
  <2>1. CASE t = s
    <3>1. /\ joiner'[t] = joiner[t] /\ link'[t] # "up" /\ (link'[t] = "none" <=> link[t] = "none")
          /\ down'[t] = down[t] /\ down[t] \in Seq(DownMessage) /\ up'[t] = <<>>
          /\ <<>> \in Seq(UpMessage)
      BY <1>1, <1>2, <2>1
    <3>2. Begins(down[t], Down(t)) /\ Within(<<>>, Up(t))
      <4>1. Within(<<>>, Up(t))  BY DEF Within
      <4> QED  BY <4>1, UnderWay
    <3>3. Forgotten(t \in connected, client[t], (t \in connected)', up'[t], client'[t])
      BY <1>1, <2>1, <3>1 DEF Forgotten
    <3>4. Steady(netState, failed, players, netState', failed', players')
      BY <1>1 DEF Steady
    <3> HIDE DEF IInv
    <3> QED  BY <3>1, <3>2, <3>3, <3>4, GathererCuts
  <2>2. CASE t # s
    <3>1. /\ link'[t] = link[t] /\ joiner'[t] = joiner[t] /\ client'[t] = client[t]
          /\ up'[t] = up[t] /\ down'[t] = down[t] /\ out'[t] = out[t]
          /\ ((t \in connected)' <=> t \in connected)
      BY <1>1, <1>2, <2>2
    <3>2. Down(t)' = Down(t) /\ Up(t)' = Up(t)  BY <3>1 DEF Down, Up
    <3> HIDE DEF IInv
    <3> QED  BY <1>1, <3>1, <3>2, StreamSame
  <2> QED  BY <2>1, <2>2
<1>6. Identifiers'
  <2>1. \A t \in Stream : \A id : Knows(Down(t), Up(t), joiner[t], id)' => HasId(t, id)
    BY <1>5 DEF HasId
  <2>2. \A t \in Stream : \A id : PlaysAs(t, players', id) => HasId(t, id)
    BY <1>1 DEF HasId
  <2>3. \A i \in DOMAIN players' : players'[i].stream = 0 => players'[i].id = 0
    BY <1>1 DEF IInv, Identifiers
  <2>4. \A t \in Stream : \A id \in Nat : HasId(t, id)' => HasId(t, id)
    BY <2>1, <2>2, IdsFrom
  <2> HIDE DEF IInv
  <2> QED  BY <1>1, <2>3, <2>4, SameIds
<1> QED  BY <1>3, <1>4, <1>5, <1>6, Together

\* The dialog is cancelled.
LEMMA CancelGatherStep ==
  ASSUME IInv, CancelGather
  PROVE  IInv'
<1>1. /\ netState = "gathering" /\ netState' = "uninitialized"
      /\ players' = <<>> /\ ungathered' = {} /\ chatInfo' = {} /\ connected' = {}
      /\ client' = [s \in Stream |-> "none"]
      /\ out' = [s \in Stream |-> <<>>] /\ up' = [s \in Stream |-> <<>>]
      /\ link' = [s \in Stream |-> IF client[s] # "none" THEN "down" ELSE link[s]]
      /\ nextIdentifier' = nextIdentifier /\ failed' = failed /\ down' = down
      /\ joiner' = joiner /\ changes' = changes /\ mishaps' = mishaps
  BY DEF CancelGather
<1>2. /\ Types /\ link \in [Stream -> {"none", "up", "down"}]
      /\ down \in [Stream -> Seq(DownMessage)] /\ joiner \in [Stream -> Joiner]
  BY DEF IInv, Types
<1>3. Types'
  <2>1. /\ out' \in [Stream -> Seq(DownMessage)] /\ up' \in [Stream -> Seq(UpMessage)]
        /\ link' \in [Stream -> {"none", "up", "down"}] /\ client' \in [Stream -> ClientState]
        /\ players' \in Seq(Player)
    BY <1>1, <1>2 DEF ClientState
  <2> QED  BY <1>1, <1>2, <2>1 DEF Types
<1>4. Lists' /\ Dressed' /\ Unheard'
  <2>1. \A s \in Stream : client'[s] = "none"  BY <1>1
  <2> QED  BY <1>1, <2>1 DEF Lists, Dressed, Unheard, Running
<1>5. ASSUME NEW t \in Stream
      PROVE  /\ StreamOk(t, link[t], Down(t), Up(t), joiner[t])'
             /\ \A id : Knows(Down(t), Up(t), joiner[t], id)'
                          => Knows(Down(t), Up(t), joiner[t], id)
  <2>1. /\ joiner'[t] = joiner[t] /\ down'[t] = down[t] /\ down[t] \in Seq(DownMessage)
        /\ up'[t] = <<>> /\ <<>> \in Seq(UpMessage) /\ client'[t] = "none"
        /\ link'[t] = IF client[t] # "none" THEN "down" ELSE link[t]
    BY <1>1, <1>2
  <2>2. LinkOk(link[t], t \in connected, Down(t), Up(t), client[t], joiner[t], Running)
    BY DEF IInv, Links
  <2>3. link'[t] # "up" /\ (link'[t] = "none" <=> link[t] = "none")
    BY <2>1, <2>2 DEF LinkOk
  <2>4. Begins(down[t], Down(t)) /\ Within(<<>>, Up(t))
    <3>1. Within(<<>>, Up(t))  BY DEF Within
    <3> QED  BY <3>1, UnderWay
  <2>5. Forgotten(t \in connected, client[t], (t \in connected)', up'[t], client'[t])
    BY <1>1, <2>1 DEF Forgotten
  <2>6. Steady(netState, failed, players, netState', failed', players')
    BY <1>1 DEF Steady
  <2> HIDE DEF IInv
  <2> QED  BY <2>1, <2>3, <2>4, <2>5, <2>6, GathererCuts
<1>6. Identifiers'
  <2>1. \A t \in Stream : \A id : Knows(Down(t), Up(t), joiner[t], id)' => HasId(t, id)
    BY <1>5 DEF HasId
  <2>2. \A t \in Stream : \A id : PlaysAs(t, players', id) => HasId(t, id)
    BY <1>1 DEF PlaysAs
  <2>3. \A i \in DOMAIN players' : players'[i].stream = 0 => players'[i].id = 0
    BY <1>1
  <2>4. \A t \in Stream : \A id \in Nat : HasId(t, id)' => HasId(t, id)
    BY <2>1, <2>2, IdsFrom
  <2>5. \A t \in Stream : client'[t] \in Invited  BY <1>1 DEF Invited
  <2> HIDE DEF IInv
  <2> QED  BY <1>1, <2>3, <2>4, <2>5, SameIds
<1> QED  BY <1>3, <1>4, <1>5, <1>6, Together

----------------------------------------------------------------------------
(* What the gatherer sends. Put is one message that he enqueues.            *)

Put(l, d, m) == IF l = "up" THEN Append(d, m) ELSE d

PutGives(l, d, m) ==
  /\ Put(l, d, m) \in Seq(DownMessage) /\ Pipe(l, d, <<m>>) = Put(l, d, m)
  /\ \A k \in DOMAIN d : k \in DOMAIN Put(l, d, m) /\ Put(l, d, m)[k] = d[k]
  /\ \A k \in DOMAIN Put(l, d, m) : k \in DOMAIN d \/ (l = "up" /\ k = Len(d) + 1)
  /\ l = "up" => /\ Len(Put(l, d, m)) = Len(d) + 1
                 /\ Len(d) + 1 \in DOMAIN Put(l, d, m) /\ Put(l, d, m)[Len(d) + 1] = m
                 /\ \A k \in DOMAIN d : k < Len(d) + 1
  /\ Len(d) \in Nat /\ DOMAIN d = 1 .. Len(d)

\* One message more in a pipe.
LEMMA PutIs ==
  ASSUME NEW l, NEW d \in Seq(DownMessage), NEW m \in DownMessage
  PROVE  PutGives(l, d, m)
<1> USE DEF PutGives
<1>1. Append(d, m) = d \o <<m>>  BY AppendIsConcat
<1>2. CASE l = "up"  BY <1>1, <1>2 DEF Put, Pipe
<1>3. CASE l # "up"  BY <1>3 DEF Put, Pipe
<1> QED  BY <1>2, <1>3

\* All that the invariant says of a stream but for what is told, answered and
\* chatted.
Core(s, l, listed, d, u, c, j, state, fate, ps, running) ==
  /\ d \in Seq(DownMessage) /\ u \in Seq(UpMessage) /\ j \in Joiner
  /\ LinkOk(l, listed, d, u, c, j, running) /\ HandlerOk(j)
  /\ IntroducedOk(u, c, j) /\ JoinedOk(d, u, c, j)
  /\ SessionOk(s, d, c, j, state, fate, ps)

\* What the next state of a client may be.
Moves(c, cNow, v, j) ==
  \/ cNow = c
  \/ /\ cNow = "none" \/ j.handler # "awaitingHello"
     /\ \A k \in DOMAIN v : ~Introduces(v, k)
     /\ cNow \in In => c \in In \/ j.net \notin {"none", "joining"}
     /\ cNow \in Asked => c \in Asked

\* A client's state moves on and some of what he said is heard: all but what
\* is waited for is kept.
LEMMA CoreMoves ==
  ASSUME NEW s, NEW l, NEW listed, NEW d, NEW u, NEW c, NEW j, NEW state, NEW fate, NEW ps,
         NEW running, NEW v \in Seq(UpMessage), NEW cNow, NEW stateNow, NEW fateNow, NEW psNow,
         NEW runningNow,
         Core(s, l, listed, d, u, c, j, state, fate, ps, running),
         Within(v, u), Moves(c, cNow, v, j),
         ~listed => v = <<>>, listed => cNow # "none", l = "none" => cNow = "none",
         l = "up" => runningNow, Steady(state, fate, ps, stateNow, fateNow, psNow)
  PROVE  Core(s, l, listed, d, v, cNow, j, stateNow, fateNow, psNow, runningNow)
<1>1. LinkOk(l, listed, d, v, cNow, j, runningNow)  BY DEF Core, LinkOk
<1>2. IntroducedOk(v, cNow, j)
  <2>0. IntroducedOk(u, c, j)  BY DEF Core
  <2>1. PICK o \in Nat : \A k \in DOMAIN v : k + o \in DOMAIN u /\ v[k] = u[k + o]
    BY DEF Within
  <2>2. \A k \in DOMAIN v : Introduces(v, k) => Introduces(u, k + o)
    BY <2>1 DEF Introduces
  <2>3. CASE cNow = c
    <3>1. \A k, n \in DOMAIN v : k + o = n + o => k = n  BY <2>1
    <3>2. \A k \in DOMAIN v : Introduces(v, k) => c = "connecting"
      BY <2>0, <2>1, <2>2 DEF IntroducedOk
    <3>3. \A k, n \in DOMAIN v : Introduces(v, k) /\ Introduces(v, n) => n + o = k + o
      BY <2>0, <2>1, <2>2 DEF IntroducedOk
    <3>4. \A k, n \in DOMAIN v : Introduces(v, k) /\ Introduces(v, n) => n = k
      BY <3>1, <3>3
    <3>5. j.handler = "awaitingHello" =>
            c \in {"none", "connecting"} /\ \A k \in DOMAIN v : ~Introduces(v, k)
      BY <2>0, <2>1, <2>2 DEF IntroducedOk
    <3> QED  BY <2>3, <3>2, <3>4, <3>5 DEF IntroducedOk
  <2>4. CASE cNow # c  BY <2>4 DEF IntroducedOk, Moves
  <2> QED  BY <2>3, <2>4
<1>3. JoinedOk(d, v, cNow, j)
  <2>1. \A k \in DOMAIN v : Accepts(v[k]) => \E n \in DOMAIN u : Accepts(u[n])
    BY DEF Within
  <2> QED  BY <2>1 DEF Core, JoinedOk, Moves
<1>4. SessionOk(s, d, cNow, j, stateNow, fateNow, psNow)
  <2>1. cNow \in Asked => c \in Asked  BY DEF Moves
  <2> QED  BY <2>1 DEF Core, SessionOk, Steady
<1> QED  BY <1>1, <1>2, <1>3, <1>4 DEF Core

\* When a message may be sent.
Fits(s, m, d, c, j, state, fate, ps) ==
  /\ IsAbout(m) => c \notin Asked /\ j.net = "waiting" /\ \A k \in DOMAIN d : ~Starts(d[k])
  /\ Ends(m) => c \notin Asked /\ j.net \notin {"none", "joining"}
  /\ IsSession(m) => \A k \in DOMAIN d : ~IsTopology(d[k])
  /\ IsTopology(m) => j.session = TRUE \/ \E n \in DOMAIN d : IsSession(d[n])
  /\ Starts(m) => state = "active" /\ (fate = "none" => m.players = ps /\ Plays(s, ps))

\* A message that fits is put: all but what is waited for is kept.
LEMMA CorePut ==
  ASSUME NEW s, NEW l, NEW listed, NEW d, NEW u, NEW c, NEW j, NEW state, NEW fate, NEW ps,
         NEW running, Core(s, l, listed, d, u, c, j, state, fate, ps, running),
         NEW m \in DownMessage, l = "up" => Fits(s, m, d, c, j, state, fate, ps)
  PROVE  Core(s, l, listed, Put(l, d, m), u, c, j, state, fate, ps, running)
<1>1. CASE l # "up"  BY <1>1 DEF Put
<1>2. CASE l = "up"
  <2> DEFINE e == Put(l, d, m)
             n == Len(d) + 1
  <2>1. d \in Seq(DownMessage)  BY DEF Core
  <2>2. /\ e \in Seq(DownMessage) /\ n \in DOMAIN e /\ e[n] = m
        /\ \A k \in DOMAIN d : k \in DOMAIN e /\ e[k] = d[k] /\ k < n
        /\ \A k \in DOMAIN e : k \in DOMAIN d \/ k = n
    <3>1. PutGives(l, d, m)  BY <2>1, PutIs
    <3> QED  BY <1>2, <3>1 DEF PutGives
  <2>3. \A k \in DOMAIN e : ~(k < k) /\ \A i \in DOMAIN e : k < i => ~(i < k)
    BY <2>2
  <2> HIDE DEF e, n
  <2>4. LinkOk(l, listed, e, u, c, j, running)
    BY <1>2 DEF Core, LinkOk, Alive
  <2>5. JoinedOk(e, u, c, j)
    BY <1>2, <2>2 DEF Core, JoinedOk, Fits
  <2>6. SessionOk(s, e, c, j, state, fate, ps)
    <3>0. SessionOk(s, d, c, j, state, fate, ps) /\ Fits(s, m, d, c, j, state, fate, ps)
      BY <1>2 DEF Core
    <3>1. c \in Asked =>
            /\ \A k \in DOMAIN e : ~IsAbout(e[k]) /\ ~Ends(e[k])
            /\ j.session = FALSE /\ j.net \notin Playing
      BY <2>2, <3>0 DEF SessionOk, Fits
    <3>2. \A k \in DOMAIN e : IsAbout(e[k]) => j.net = "waiting"
      BY <2>2, <3>0 DEF SessionOk, Fits
    <3>3. ASSUME NEW k \in DOMAIN e, IsTopology(e[k])
          PROVE  j.session = TRUE \/ \E i \in DOMAIN e : i < k /\ IsSession(e[i])
      <4>1. CASE k \in DOMAIN d
        <5>1. j.session = TRUE \/ \E i \in DOMAIN d : i < k /\ IsSession(d[i])
          BY <2>2, <3>0, <3>3, <4>1 DEF SessionOk
        <5> QED  BY <2>2, <5>1
      <4>2. CASE k = n
        <5>1. j.session = TRUE \/ \E i \in DOMAIN d : IsSession(d[i])
          BY <2>2, <3>0, <3>3, <4>2 DEF Fits
        <5> QED  BY <2>2, <4>2, <5>1
      <4> QED  BY <2>2, <4>1, <4>2
    <3>4. ASSUME NEW k \in DOMAIN e, NEW i \in DOMAIN e, k < i
          PROVE  /\ IsTopology(e[k]) => ~IsSession(e[i])
                 /\ Starts(e[k]) => ~IsAbout(e[i])
      <4>1. k \in DOMAIN d  BY <2>2, <2>3, <3>4
      <4>2. CASE i \in DOMAIN d  BY <2>2, <3>0, <3>4, <4>1, <4>2 DEF SessionOk
      <4>3. CASE i = n  BY <2>2, <3>0, <4>1, <4>3 DEF Fits
      <4> QED  BY <2>2, <4>2, <4>3
    <3>5. \A k \in DOMAIN e : Starts(e[k]) =>
            state = "active" /\ (fate = "none" => e[k].players = ps /\ Plays(s, ps))
      BY <2>2, <3>0 DEF SessionOk, Fits
    <3> QED  BY <3>0, <3>1, <3>2, <3>3, <3>4, <3>5 DEF SessionOk
  <2>7. Core(s, l, listed, e, u, c, j, state, fate, ps, running)
    BY <2>2, <2>4, <2>5, <2>6 DEF Core
  <2> QED  BY <2>7 DEF e
<1> QED  BY <1>1, <1>2

\* e is d and what of M was sent behind it.
Extends(d, e, M) ==
  /\ e \in Seq(DownMessage)
  /\ \A k \in DOMAIN d : k \in DOMAIN e /\ e[k] = d[k]
  /\ \A k \in DOMAIN e : k \in DOMAIN d \/ (e[k] \in M /\ \A i \in DOMAIN d : i < k)

\* A pipe with one message more extends what it was.
LEMMA PutExtends ==
  ASSUME NEW l, NEW d \in Seq(DownMessage), NEW m \in DownMessage
  PROVE  Extends(d, Put(l, d, m), {m})
<1> DEFINE e == Put(l, d, m)
           n == Len(d) + 1
<1>1. /\ e \in Seq(DownMessage)
      /\ \A k \in DOMAIN d : k \in DOMAIN e /\ e[k] = d[k]
      /\ \A k \in DOMAIN e : k \in DOMAIN d \/ (l = "up" /\ k = n)
      /\ l = "up" => e[n] = m /\ \A k \in DOMAIN d : k < n
  BY PutIs DEF PutGives
<1> HIDE DEF e, n
<1>2. Extends(d, e, {m})  BY <1>1 DEF Extends
<1> QED  BY <1>2 DEF e

\* A pipe behind which messages are enqueued extends what it was.
LEMMA PipeExtends ==
  ASSUME NEW l, NEW d \in Seq(DownMessage), NEW q \in Seq(DownMessage), NEW M,
         \A k \in DOMAIN q : q[k] \in M
  PROVE  Extends(d, Pipe(l, d, q), M)
<1>1. CASE l # "up"  BY <1>1 DEF Pipe, Extends
<1>2. CASE l = "up"
  <2> DEFINE e == d \o q
  <2>1. /\ e \in Seq(DownMessage) /\ Len(e) = Len(d) + Len(q)
        /\ \A i \in 1 .. Len(d) + Len(q) : e[i] = IF i <= Len(d) THEN d[i] ELSE q[i - Len(d)]
    BY ConcatProperties
  <2>2. /\ Len(d) \in Nat /\ Len(q) \in Nat /\ DOMAIN d = 1 .. Len(d) /\ DOMAIN q = 1 .. Len(q)
    OBVIOUS
  <2> HIDE DEF e
  <2>3. DOMAIN e = 1 .. Len(d) + Len(q)  BY <2>1
  <2>4. \A k \in DOMAIN d : k \in DOMAIN e /\ e[k] = d[k]  BY <2>1, <2>2, <2>3
  <2>5. \A k \in DOMAIN e : k \in DOMAIN d \/ (k - Len(d) \in DOMAIN q /\ e[k] = q[k - Len(d)]
                                               /\ \A i \in DOMAIN d : i < k)
    BY <2>1, <2>2, <2>3
  <2>6. Extends(d, e, M)  BY <2>1, <2>4, <2>5 DEF Extends
  <2> QED  BY <1>2, <2>6 DEF Pipe, e
<1> QED  BY <1>1, <1>2

\* Nothing about the topology or the session.
LEMMA CoreExtends ==
  ASSUME NEW s, NEW l, NEW listed, NEW d, NEW u, NEW c, NEW j, NEW state, NEW fate, NEW ps,
         NEW running, Core(s, l, listed, d, u, c, j, state, fate, ps, running),
         NEW e, NEW M, Extends(d, e, M), \A m \in M : ~IsAbout(m) /\ ~Ends(m),
         l = "up" \/ e = d
  PROVE  Core(s, l, listed, e, u, c, j, state, fate, ps, running)
<1>1. CASE e = d  BY <1>1
<1>2. CASE l = "up"
  <2>1. /\ \A k \in DOMAIN d : k \in DOMAIN e /\ e[k] = d[k]
        /\ \A k \in DOMAIN e : IsAbout(e[k]) \/ Ends(e[k]) => k \in DOMAIN d /\ e[k] = d[k]
    BY DEF Extends
  <2>2. \A k \in DOMAIN e : IsTopology(e[k]) \/ IsSession(e[k]) \/ Starts(e[k]) => IsAbout(e[k])
    BY DEF IsTopology, IsSession, IsAbout, Starts
  <2>3. LinkOk(l, listed, e, u, c, j, running)
    BY <1>2 DEF Core, LinkOk, Alive
  <2>4. JoinedOk(e, u, c, j)  BY <2>1 DEF Core, JoinedOk
  <2>5. SessionOk(s, e, c, j, state, fate, ps)
    <3>0. SessionOk(s, d, c, j, state, fate, ps)  BY DEF Core
    <3>1. c \in Asked =>
            /\ \A k \in DOMAIN e : ~IsAbout(e[k]) /\ ~Ends(e[k])
            /\ j.session = FALSE /\ j.net \notin Playing
      BY <2>1, <3>0 DEF SessionOk
    <3>2. \A k \in DOMAIN e : IsAbout(e[k]) => j.net = "waiting"
      BY <2>1, <3>0 DEF SessionOk
    <3>3. ASSUME NEW k \in DOMAIN e, IsTopology(e[k])
          PROVE  j.session = TRUE \/ \E i \in DOMAIN e : i < k /\ IsSession(e[i])
      <4>1. j.session = TRUE \/ \E i \in DOMAIN d : i < k /\ IsSession(d[i])
        BY <2>1, <2>2, <3>0, <3>3 DEF SessionOk
      <4> QED  BY <2>1, <4>1
    <3>4. \A k, i \in DOMAIN e : k < i /\ IsTopology(e[k]) => ~IsSession(e[i])
      BY <2>1, <2>2, <3>0 DEF SessionOk
    <3>5. \A k, i \in DOMAIN e : k < i /\ Starts(e[k]) => ~IsAbout(e[i])
      BY <2>1, <2>2, <3>0 DEF SessionOk
    <3>6. \A k \in DOMAIN e : Starts(e[k]) =>
            state = "active" /\ (fate = "none" => e[k].players = ps /\ Plays(s, ps))
      BY <2>1, <2>2, <3>0 DEF SessionOk
    <3> QED  BY <3>0, <3>1, <3>2, <3>3, <3>4, <3>5, <3>6 DEF SessionOk
  <2>6. e \in Seq(DownMessage)  BY DEF Extends
  <2> QED  BY <2>3, <2>4, <2>5, <2>6 DEF Core
<1> QED  BY <1>1, <1>2

\* What was promised stays so.
LEMMA AnswerExtends ==
  ASSUME NEW l, NEW d \in Seq(DownMessage), NEW u, NEW c, NEW j, AnswerOk(l, d, u, c, j),
         NEW e, NEW M, Extends(d, e, M)
  PROVE  AnswerOk(l, e, u, c, j)
<1>1. \A k \in DOMAIN d : k \in DOMAIN e /\ e[k] = d[k]  BY DEF Extends
<1> QED  BY <1>1 DEF AnswerOk

\* What is no topology does not change what a joiner has of it in the end.
LEMMA ToldExtends ==
  ASSUME NEW l, NEW d \in Seq(DownMessage), NEW c, NEW j, NEW ps, ToldOk(l, d, c, j, ps),
         NEW e, NEW M, Extends(d, e, M), \A m \in M : ~IsTopology(m)
  PROVE  ToldOk(l, e, c, j, ps)
<1>1. /\ \A k \in DOMAIN d : k \in DOMAIN e /\ e[k] = d[k]
      /\ \A k \in DOMAIN e : IsTopology(e[k]) => k \in DOMAIN d /\ e[k] = d[k]
  BY DEF Extends
<1> QED  BY <1>1 DEF ToldOk

\* And the topology that is sent last is the one he has.
LEMMA ToldLast ==
  ASSUME NEW l, NEW d \in Seq(DownMessage), NEW c, NEW j, NEW m \in DownMessage, IsTopology(m)
  PROVE  ToldOk(l, Put(l, d, m), c, j, m.players)
<1> DEFINE e == Put(l, d, m)
           n == Len(d) + 1
<1> SUFFICES ASSUME l = "up"
             PROVE  \E k \in DOMAIN e : /\ IsTopology(e[k]) /\ e[k].players = m.players
                                        /\ \A i \in DOMAIN e : k < i => ~IsTopology(e[i])
  BY DEF ToldOk
<1>1. /\ n \in DOMAIN e /\ e[n] = m /\ \A k \in DOMAIN e : k \in DOMAIN d \/ k = n
      /\ \A k \in DOMAIN d : k < n
  BY PutIs DEF PutGives
<1>2. \A k \in DOMAIN d : k \in Nat  OBVIOUS
<1>3. n \in Nat  BY PutIs DEF PutGives
<1> HIDE DEF e, n
<1>4. \A i \in DOMAIN e : ~(n < i)  BY <1>1, <1>2, <1>3
<1> QED  BY <1>1, <1>4

\* Only an invitation tells an identifier.
LEMMA KnowsExtends ==
  ASSUME NEW d \in Seq(DownMessage), NEW u, NEW j, NEW e, NEW M, Extends(d, e, M),
         \A m \in M : m.type # "joinPlayer", NEW id, Knows(e, u, j, id)
  PROVE  Knows(d, u, j, id)
<1>1. \A k \in DOMAIN e : Invites(e[k], id) => k \in DOMAIN d /\ e[k] = d[k]
  BY DEF Extends, Invites
<1> QED  BY <1>1 DEF Knows

\* Whom a joiner knows of after one more message, and after those before it.
LEMMA KnownAppend ==
  ASSUME NEW chat, NEW d \in Seq(DownMessage), NEW m \in DownMessage, NEW t
  PROVE  /\ \A i \in 0 .. Len(d) : Known(chat, Append(d, m), i, t) <=> Known(chat, d, i, t)
         /\ Known(chat, Append(d, m), Len(d) + 1, t)
              <=> ~Removes(m, t) /\ (Known(chat, d, Len(d), t) \/ Adds(m, t))
<1> DEFINE e == Append(d, m)
           n == Len(d)
<1>1. /\ n \in Nat /\ e[n + 1] = m
      /\ \A k \in 1 .. n : e[k] = d[k]
  OBVIOUS
<1> HIDE DEF e, n
<1>2. ASSUME NEW i \in 0 .. n  PROVE Known(chat, e, i, t) <=> Known(chat, d, i, t)
  <2>1. \A k \in 1 .. i : e[k] = d[k]  BY <1>1
  <2>2. \A k \in 1 .. i : \A o \in (k + 1) .. i : o \in 1 .. i  OBVIOUS
  <2> QED  BY <2>1, <2>2 DEF Known
<1>3. Adds(m, t) => ~Removes(m, t)  BY DEF Adds, Removes
<1>4. \A k \in 1 .. (n + 1) : k = n + 1 \/ k \in 1 .. n  BY <1>1
<1>5. ASSUME Known(chat, e, n + 1, t)
      PROVE  ~Removes(m, t) /\ (Known(chat, e, n, t) \/ Adds(m, t))
  <2>0. n + 1 \in 1 .. (n + 1) /\ \A k \in 1 .. n : k \in 1 .. (n + 1)  BY <1>1
  <2>1. CASE t \in chat /\ \A k \in 1 .. (n + 1) : ~Removes(e[k], t)
    <3>1. ~Removes(m, t) /\ \A k \in 1 .. n : ~Removes(e[k], t)  BY <1>1, <2>0, <2>1
    <3> QED  BY <2>1, <3>1 DEF Known
  <2>2. ASSUME NEW k \in 1 .. (n + 1), Adds(e[k], t),
               \A o \in (k + 1) .. (n + 1) : ~Removes(e[o], t)
        PROVE  ~Removes(m, t) /\ (Known(chat, e, n, t) \/ Adds(m, t))
    <3>1. CASE k = n + 1  BY <1>1, <1>3, <2>2, <3>1
    <3>2. CASE k # n + 1
      <4>1. k \in 1 .. n /\ n + 1 \in (k + 1) .. (n + 1)  BY <1>1, <3>2
      <4>2. \A o \in (k + 1) .. n : o \in (k + 1) .. (n + 1)  BY <1>1
      <4>3. ~Removes(m, t) /\ \A o \in (k + 1) .. n : ~Removes(e[o], t)
        BY <1>1, <2>2, <4>1, <4>2
      <4> QED  BY <2>2, <4>1, <4>3 DEF Known
    <3> QED  BY <3>1, <3>2
  <2> QED  BY <1>5, <2>1, <2>2 DEF Known
<1>6. ASSUME ~Removes(m, t), Known(chat, e, n, t) \/ Adds(m, t)
      PROVE  Known(chat, e, n + 1, t)
  <2>1. CASE t \in chat /\ \A k \in 1 .. n : ~Removes(e[k], t)
    <3>1. \A k \in 1 .. (n + 1) : ~Removes(e[k], t)  BY <1>1, <1>4, <1>6, <2>1
    <3> QED  BY <2>1, <3>1 DEF Known
  <2>2. ASSUME NEW k \in 1 .. n, Adds(e[k], t), \A o \in (k + 1) .. n : ~Removes(e[o], t)
        PROVE  Known(chat, e, n + 1, t)
    <3>1. \A o \in (k + 1) .. (n + 1) : o = n + 1 \/ o \in (k + 1) .. n  BY <1>1
    <3>2. \A o \in (k + 1) .. (n + 1) : ~Removes(e[o], t)  BY <1>1, <1>6, <2>2, <3>1
    <3>3. k \in 1 .. (n + 1)  BY <1>1
    <3> QED  BY <2>2, <3>2, <3>3 DEF Known
  <2>3. CASE Adds(m, t)
    <3>1. n + 1 \in 1 .. (n + 1) /\ \A o \in (n + 1 + 1) .. (n + 1) : FALSE  BY <1>1
    <3> QED  BY <1>1, <2>3, <3>1 DEF Known
  <2> QED  BY <1>6, <2>1, <2>2, <2>3 DEF Known
<1>7. Known(chat, e, n, t) <=> Known(chat, d, n, t)
  <2>1. n \in 0 .. n  BY <1>1
  <2> QED  BY <1>2, <2>1
<1> QED  BY <1>2, <1>5, <1>6, <1>7 DEF e, n

\* One more message, by which info becomes infoNow.
LEMMA ChatPut ==
  ASSUME NEW l, NEW d \in Seq(DownMessage), NEW c, NEW j, NEW info, ChatOk(l, d, c, j, info),
         NEW m \in DownMessage, NEW infoNow,
         l = "up" => \A t \in Anybody : /\ Adds(m, t) => ~Known(j.chat, d, Len(d), t)
                                        /\ Updates(m, t) => Known(j.chat, d, Len(d), t),
         c \in {"connecting", "awaitingCapabilities"} => m.type # "clientInfo",
         l = "up" /\ CanPregameChat(c) =>
           \A t \in Anybody : t \in infoNow <=> ~Removes(m, t) /\ (t \in info \/ Adds(m, t))
  PROVE  ChatOk(l, Put(l, d, m), c, j, infoNow)
<1>1. CASE l # "up"  BY <1>1 DEF Put, ChatOk
<1>2. CASE l = "up"
  <2> DEFINE e == Append(d, m)
             n == Len(d)
  <2>1. /\ n \in Nat /\ Len(e) = n + 1 /\ DOMAIN e = 1 .. (n + 1) /\ DOMAIN d = 1 .. n
        /\ e[n + 1] = m /\ \A k \in 1 .. n : e[k] = d[k]
    OBVIOUS
  <2>2. \A t \in Anybody :
          /\ \A i \in 0 .. n : Known(j.chat, e, i, t) <=> Known(j.chat, d, i, t)
          /\ Known(j.chat, e, n + 1, t)
               <=> ~Removes(m, t) /\ (Known(j.chat, d, n, t) \/ Adds(m, t))
    BY KnownAppend
  <2>3. \A t \in Anybody : /\ Adds(m, t) => ~Known(j.chat, d, n, t)
                           /\ Updates(m, t) => Known(j.chat, d, n, t)
    BY <1>2
  <2> HIDE DEF e, n
  <2>4. ASSUME NEW k \in DOMAIN e, NEW t \in Anybody
        PROVE  /\ Adds(e[k], t) => ~Known(j.chat, e, k - 1, t)
               /\ Updates(e[k], t) => Known(j.chat, e, k - 1, t)
    <3>1. k - 1 \in 0 .. n  BY <2>1
    <3>2. Known(j.chat, e, k - 1, t) <=> Known(j.chat, d, k - 1, t)  BY <2>2, <3>1
    <3>3. CASE k \in 1 .. n
      <4>1. k \in DOMAIN d /\ e[k] = d[k]  BY <2>1, <3>3
      <4> QED  BY <3>2, <4>1 DEF ChatOk
    <3>4. CASE k = n + 1
      <4>1. e[k] = m /\ k - 1 = n  BY <2>1, <3>4
      <4> QED  BY <2>3, <3>2, <4>1
    <3> QED  BY <2>1, <3>3, <3>4
  <2>5. c \in {"connecting", "awaitingCapabilities"} =>
          /\ \A t \in Anybody : t \notin j.chat
          /\ \A k \in DOMAIN e : e[k].type # "clientInfo"
    <3>1. \A k \in DOMAIN e : e[k] = m \/ (k \in DOMAIN d /\ e[k] = d[k])  BY <2>1
    <3> QED  BY <3>1 DEF ChatOk
  <2>6. CanPregameChat(c) => \A t \in Anybody : t \in infoNow <=> Known(j.chat, e, Len(e), t)
    <3>1. CanPregameChat(c) => \A t \in Anybody : t \in info <=> Known(j.chat, d, n, t)
      BY <1>2 DEF ChatOk, n
    <3> QED  BY <1>2, <2>1, <2>2, <3>1
  <2>7. ChatOk(l, e, c, j, infoNow)  BY <1>2, <2>4, <2>5, <2>6 DEF ChatOk
  <2> QED  BY <1>2, <2>7 DEF Put, e
<1> QED  BY <1>1, <1>2

\* All that the invariant says of a stream, whoever the gatherer is.
Whole(s, l, listed, d, u, c, j, state, fate, ps, running, info) ==
  /\ Core(s, l, listed, d, u, c, j, state, fate, ps, running)
  /\ ToldOk(l, d, c, j, ps) /\ AnswerOk(l, d, u, c, j) /\ ChatOk(l, d, c, j, info)

\* All that the invariant says of one stream, taken out.
LEMMA OfWhole ==
  ASSUME IInv, NEW t \in Stream
  PROVE  Whole(t, link[t], t \in connected, Down(t), Up(t), client[t], joiner[t],
               netState, failed, players, Running, chatInfo)
<1>1. StreamOk(t, link[t], Down(t), Up(t), joiner[t])  BY OfStream
<1> QED  BY <1>1 DEF StreamOk, Whole, Core

\* And put back, after a step.
LEMMA ToStream ==
  ASSUME NEW t,
         Whole(t, link'[t], (t \in connected)', Down(t)', Up(t)', client'[t], joiner'[t],
               netState', failed', players', Running', chatInfo')
  PROVE  StreamOk(t, link[t], Down(t), Up(t), joiner[t])'
BY DEF StreamOk, Whole, Core

\* The gatherer has handled a message or remembers something else of a client
\* that is not in the topology.
LEMMA WholeMoves ==
  ASSUME NEW s, NEW l, NEW listed, NEW d, NEW u, NEW c, NEW j, NEW state, NEW fate, NEW ps,
         NEW running, NEW info, Whole(s, l, listed, d, u, c, j, state, fate, ps, running, info),
         NEW v \in Seq(UpMessage), NEW cNow, NEW infoNow, Within(v, u), Moves(c, cNow, v, j),
         ~listed => v = <<>>, listed => cNow # "none", l = "none" => cNow = "none",
         cNow \in In => cNow = c,
         cNow = "awaitingAcceptJoin" =>
           cNow = c /\ \A k \in DOMAIN u : Accepts(u[k]) => \E n \in DOMAIN v : Accepts(v[n]),
         CanPregameChat(cNow) => CanPregameChat(c),
         l = "up" /\ CanPregameChat(c) => infoNow = info,
         cNow \in {"connecting", "awaitingCapabilities"} =>
           c \in {"connecting", "awaitingCapabilities"}
  PROVE  Whole(s, l, listed, d, v, cNow, j, state, fate, ps, running, infoNow)
<1>1. Core(s, l, listed, d, u, c, j, state, fate, ps, running)  BY DEF Whole
<1>2. l = "up" => running  BY <1>1 DEF Core, LinkOk
<1>3. Steady(state, fate, ps, state, fate, ps)  BY DEF Steady
<1>4. Core(s, l, listed, d, v, cNow, j, state, fate, ps, running)
  BY <1>1, <1>2, <1>3, CoreMoves
<1>5. ToldOk(l, d, cNow, j, ps)  BY DEF Whole, ToldOk
<1>6. AnswerOk(l, d, v, cNow, j)
  BY DEF Whole, AnswerOk, In
<1>7. ChatOk(l, d, cNow, j, infoNow)  BY DEF Whole, ChatOk
<1> QED  BY <1>4, <1>5, <1>6, <1>7 DEF Whole

\* Less is left of what he has sent.
LEMMA KnowsWithin ==
  ASSUME NEW d, NEW u, NEW v, NEW j, NEW id, Within(v, u), Knows(d, v, j, id)
  PROVE  Knows(d, u, j, id)
<1>1. (\E k \in DOMAIN v : AcceptsAs(v[k], id)) => \E k \in DOMAIN u : AcceptsAs(u[k], id)
  BY DEF Within
<1> QED  BY <1>1 DEF Knows

\* An identifier that is known with the pipes e and v was known with d and u.
KnownBefore(e, v, d, u, j) == \A id : Knows(e, v, j, id) => Knows(d, u, j, id)

\* Those who may chat are told of x.
LEMMA WholeInfo ==
  ASSUME NEW s, NEW l, NEW listed, NEW d, NEW u, NEW c, NEW j, NEW state, NEW fate, NEW ps,
         NEW running, NEW info, Whole(s, l, listed, d, u, c, j, state, fate, ps, running, info),
         NEW action \in {"add", "update", "remove"}, NEW x \in Anybody, NEW infoNow,
         \A t \in Anybody : t \in infoNow <=> IF t = x THEN action # "remove" ELSE t \in info,
         action = "add" => x \notin info, action = "update" => x \in info,
         NEW e, e = IF CanPregameChat(c) THEN Put(l, d, ClientInfo(action, x)) ELSE d
  PROVE  /\ Whole(s, l, listed, e, u, c, j, state, fate, ps, running, infoNow)
         /\ KnownBefore(e, u, d, u, j)
<1> USE DEF KnownBefore
<1> DEFINE m == ClientInfo(action, x)
<1>1. /\ m \in DownMessage /\ m.type = "clientInfo" /\ ~IsAbout(m) /\ ~Ends(m) /\ ~IsTopology(m)
      /\ \A t : /\ Adds(m, t) <=> action = "add" /\ t = x
                /\ Updates(m, t) <=> action = "update" /\ t = x
                /\ Removes(m, t) <=> action = "remove" /\ t = x
  BY DEF ClientInfo, DownMessage, Anybody, IsAbout, Ends, IsTopology, Adds, Updates, Removes
<1>2. /\ Core(s, l, listed, d, u, c, j, state, fate, ps, running) /\ d \in Seq(DownMessage)
      /\ ToldOk(l, d, c, j, ps) /\ AnswerOk(l, d, u, c, j) /\ ChatOk(l, d, c, j, info)
  BY DEF Whole, Core
<1>3. e = IF CanPregameChat(c) THEN Put(l, d, m) ELSE d  OBVIOUS
<1> HIDE DEF m
<1>4. CASE ~CanPregameChat(c)
  <2>1. ChatOk(l, d, c, j, infoNow)  BY <1>2, <1>4 DEF ChatOk
  <2> QED  BY <1>2, <1>3, <1>4, <2>1 DEF Whole
<1>5. CASE CanPregameChat(c)
  <2>1. e = Put(l, d, m)  BY <1>3, <1>5
  <2>2. Extends(d, e, {m}) /\ (l = "up" \/ e = d)  BY <1>1, <1>2, <2>1, PutExtends DEF Put
  <2>3. \A o \in {m} : ~IsAbout(o) /\ ~Ends(o) /\ ~IsTopology(o) /\ o.type # "joinPlayer"
    BY <1>1
  <2>4. Core(s, l, listed, e, u, c, j, state, fate, ps, running)
    BY <1>2, <2>2, <2>3, CoreExtends
  <2>5. ToldOk(l, e, c, j, ps)  BY <1>2, <2>2, <2>3, ToldExtends
  <2>6. AnswerOk(l, e, u, c, j)  BY <1>2, <2>2, AnswerExtends
  <2>7. ChatOk(l, e, c, j, infoNow)
    <3>1. l = "up" => \A t \in Anybody : t \in info <=> Known(j.chat, d, Len(d), t)
      BY <1>2, <1>5 DEF ChatOk
    <3>2. c \notin {"connecting", "awaitingCapabilities"}  BY <1>5 DEF CanPregameChat
    <3>3. \A t \in Anybody : t \in infoNow <=> ~Removes(m, t) /\ (t \in info \/ Adds(m, t))
      BY <1>1
    <3>4. l = "up" => \A t \in Anybody : /\ Adds(m, t) => ~Known(j.chat, d, Len(d), t)
                                         /\ Updates(m, t) => Known(j.chat, d, Len(d), t)
      BY <1>1, <3>1
    <3> QED  BY <1>1, <1>2, <2>1, <3>2, <3>3, <3>4, ChatPut
  <2>8. \A id : Knows(e, u, j, id) => Knows(d, u, j, id)
    BY <1>2, <2>2, <2>3, KnowsExtends
  <2> QED  BY <2>4, <2>5, <2>6, <2>7, <2>8 DEF Whole
<1> QED  BY <1>4, <1>5

\* Something of the gatherer changes that is none of a stream's business.
LEMMA CoreSteady ==
  ASSUME NEW s, NEW l, NEW listed, NEW d, NEW u, NEW c, NEW j, NEW state, NEW fate, NEW ps,
         NEW running, Core(s, l, listed, d, u, c, j, state, fate, ps, running),
         NEW stateNow, NEW fateNow, NEW psNow, NEW runningNow,
         l = "up" => runningNow, Steady(state, fate, ps, stateNow, fateNow, psNow)
  PROVE  Core(s, l, listed, d, u, c, j, stateNow, fateNow, psNow, runningNow)
<1>1. u \in Seq(UpMessage) /\ LinkOk(l, listed, d, u, c, j, running)  BY DEF Core
<1>2. Within(u, u)
  <2>1. \A k \in DOMAIN u : k + 0 \in DOMAIN u /\ u[k] = u[k + 0]  BY <1>1
  <2> QED  BY <2>1 DEF Within
<1>3. Moves(c, c, u, j)  BY DEF Moves
<1>4. (~listed => u = <<>>) /\ (listed => c # "none") /\ (l = "none" => c = "none")
  BY <1>1 DEF LinkOk
<1> QED  BY <1>1, <1>2, <1>3, <1>4, CoreMoves

\* Who is in the topology while the gatherer still gathers waits for the game,
\* and has the session or will have it.
LEMMA WhoIsIn ==
  ASSUME NEW s, NEW l, NEW listed, NEW d, NEW u, NEW c, NEW j, NEW state, NEW fate, NEW ps,
         NEW running, NEW info, Whole(s, l, listed, d, u, c, j, state, fate, ps, running, info),
         l = "up", state # "active", c \in In
  PROVE  /\ j.net = "waiting" /\ \A k \in DOMAIN d : ~Starts(d[k])
         /\ j.session = TRUE \/ \E n \in DOMAIN d : IsSession(d[n])
<1>1. j.net \notin {"none", "joining"}  BY DEF Whole, Core, JoinedOk
<1>2. j.net \in Alive  BY DEF Whole, Core, LinkOk
<1>3. j.net \notin Playing /\ \A k \in DOMAIN d : ~Starts(d[k])
  BY DEF Whole, Core, SessionOk
<1>4. j.net = "waiting"  BY <1>1, <1>2, <1>3 DEF Alive, Playing
<1> QED  BY <1>3, <1>4 DEF Whole, AnswerOk

\* Those in the topology are told of its change.
LEMMA WholeTopology ==
  ASSUME NEW s, NEW l, NEW listed, NEW d, NEW u, NEW c, NEW j, NEW state, NEW fate, NEW ps,
         NEW running, NEW info, Whole(s, l, listed, d, u, c, j, state, fate, ps, running, info),
         state # "active", NEW tag \in {"newPlayer", "droppedPlayer", "changedPlayer"},
         NEW psNow \in Seq(Player),
         NEW e, e = IF c \in In THEN Put(l, d, Topology(tag, psNow)) ELSE d
  PROVE  /\ Whole(s, l, listed, e, u, c, j, state, fate, psNow, running, info)
         /\ \A id : Knows(e, u, j, id) => Knows(d, u, j, id)
<1> DEFINE m == Topology(tag, psNow)
<1>1. /\ m \in DownMessage /\ IsTopology(m) /\ ~IsSession(m) /\ ~Ends(m) /\ ~Starts(m)
      /\ m.players = psNow /\ m.type = "topology"
  BY DEF Topology, DownMessage, IsTopology, IsSession, Ends, Starts
<1>2. /\ Core(s, l, listed, d, u, c, j, state, fate, ps, running) /\ d \in Seq(DownMessage)
      /\ AnswerOk(l, d, u, c, j) /\ ChatOk(l, d, c, j, info)
  BY DEF Whole, Core
<1>3. e = IF c \in In THEN Put(l, d, m) ELSE d  OBVIOUS
<1>4. Core(s, l, listed, d, u, c, j, state, fate, psNow, running)
  <2>1. Steady(state, fate, ps, state, fate, psNow) /\ (l = "up" => running)
    BY <1>2 DEF Steady, Core, LinkOk
  <2> QED  BY <1>2, <2>1, CoreSteady
<1> HIDE DEF m
<1>5. CASE c \notin In
  <2>1. ToldOk(l, d, c, j, psNow)  BY <1>5 DEF ToldOk
  <2> QED  BY <1>2, <1>3, <1>4, <1>5, <2>1 DEF Whole
<1>6. CASE c \in In
  <2>1. e = Put(l, d, m)  BY <1>3, <1>6
  <2>2. l = "up" => Fits(s, m, d, c, j, state, fate, psNow)
    <3> SUFFICES ASSUME l = "up"  PROVE Fits(s, m, d, c, j, state, fate, psNow)  OBVIOUS
    <3>1. /\ j.net = "waiting" /\ \A k \in DOMAIN d : ~Starts(d[k])
          /\ j.session = TRUE \/ \E n \in DOMAIN d : IsSession(d[n])
      BY <1>6, WhoIsIn
    <3>2. c \notin Asked  BY <1>6 DEF In, Asked
    <3> QED  BY <1>1, <3>1, <3>2 DEF Fits
  <2>3. Core(s, l, listed, e, u, c, j, state, fate, psNow, running)
    BY <1>1, <1>4, <2>1, <2>2, CorePut
  <2>4. Extends(d, e, {m})  BY <1>1, <1>2, <2>1, PutExtends
  <2>5. ToldOk(l, e, c, j, psNow)  BY <1>1, <1>2, <2>1, ToldLast
  <2>6. AnswerOk(l, e, u, c, j)  BY <1>2, <2>4, AnswerExtends
  <2>7. ChatOk(l, e, c, j, info)
    <3>1. \A t : ~Adds(m, t) /\ ~Updates(m, t) /\ ~Removes(m, t)
      BY <1>1 DEF Adds, Updates, Removes
    <3>2. m.type # "clientInfo"  BY <1>1
    <3> QED  BY <1>1, <1>2, <2>1, <3>1, <3>2, ChatPut
  <2>8. \A id : Knows(e, u, j, id) => Knows(d, u, j, id)
    <3>1. \A o \in {m} : o.type # "joinPlayer"  BY <1>1
    <3> QED  BY <1>2, <2>4, <3>1, KnowsExtends
  <2> QED  BY <2>3, <2>5, <2>6, <2>7, <2>8 DEF Whole
<1> QED  BY <1>5, <1>6

\* Who accepts an invitation is in: he gets the session and the topology.
LEMMA WholeJoins ==
  ASSUME NEW s, NEW l, NEW listed, NEW d, NEW u, NEW j, NEW state, NEW fate, NEW ps,
         NEW running, NEW info,
         Whole(s, l, listed, d, u, "awaitingAcceptJoin", j, state, fate, ps, running, info),
         state # "active", listed, l # "none", u # <<>>, Accepts(Head(u)),
         NEW psNow \in Seq(Player),
         NEW e, e = Put(l, Put(l, d, GameSession), Topology("newPlayer", psNow))
  PROVE  /\ Whole(s, l, listed, e, Tail(u), "awaitingMap", j, state, fate, psNow, running, info)
         /\ KnownBefore(e, Tail(u), d, u, j)
<1> DEFINE m == Topology("newPlayer", psNow)
           g == GameSession
           d1 == Put(l, d, g)
           v == Tail(u)
           c == "awaitingAcceptJoin"
           cNow == "awaitingMap"
<1>1. /\ m \in DownMessage /\ IsTopology(m) /\ ~IsSession(m) /\ ~Ends(m) /\ ~Starts(m)
      /\ m.players = psNow /\ m.type = "topology"
  BY DEF Topology, DownMessage, IsTopology, IsSession, Ends, Starts
<1>2. /\ g \in DownMessage /\ IsSession(g) /\ ~IsTopology(g) /\ ~Ends(g) /\ ~Starts(g)
      /\ g.type = "gameSession"
  BY DEF GameSession, DownMessage, IsTopology, IsSession, Ends, Starts
<1>3. /\ Core(s, l, listed, d, u, c, j, state, fate, ps, running)
      /\ d \in Seq(DownMessage) /\ u \in Seq(UpMessage) /\ ChatOk(l, d, c, j, info)
      /\ LinkOk(l, listed, d, u, c, j, running) /\ SessionOk(s, d, c, j, state, fate, ps)
      /\ IntroducedOk(u, c, j) /\ JoinedOk(d, u, c, j)
  BY DEF Whole, Core
<1>4. /\ v \in Seq(UpMessage) /\ 1 \in DOMAIN u /\ Accepts(u[1])
      /\ \A k \in DOMAIN v : k + 1 \in DOMAIN u /\ v[k] = u[k + 1]
  BY <1>3
<1>5. e = Put(l, d1, m)  OBVIOUS
<1> HIDE DEF m, g, v
<1>6. Within(v, u)  BY <1>4 DEF Within
<1>7. j.net \notin {"none", "joining"}  BY <1>3, <1>4 DEF JoinedOk
<1>8. /\ \A k \in DOMAIN d : ~IsAbout(d[k]) /\ ~Ends(d[k])
      /\ j.session = FALSE /\ j.net \notin Playing
  BY <1>3 DEF SessionOk, Asked
<1>9. l = "up" => running /\ j.net = "waiting"
  BY <1>3, <1>7, <1>8 DEF LinkOk, Alive, Playing
<1>10. Core(s, l, listed, d, v, cNow, j, state, fate, psNow, running)
  <2>1. Moves(c, cNow, v, j)
    <3>1. j.handler # "awaitingHello" /\ \A k \in DOMAIN v : ~Introduces(v, k)
      BY <1>3, <1>4 DEF IntroducedOk, Introduces
    <3> QED  BY <1>7, <3>1 DEF Moves, In, Asked
  <2>2. Steady(state, fate, ps, state, fate, psNow)  BY DEF Steady
  <2>3. /\ (~listed => v = <<>>) /\ (listed => cNow # "none") /\ (l = "none" => cNow = "none")
        /\ (l = "up" => running)
    BY <1>9
  <2> HIDE DEF c, cNow
  <2> QED  BY <1>3, <1>4, <1>6, <2>1, <2>2, <2>3, CoreMoves
<1>11. /\ \A k \in DOMAIN d : ~IsTopology(d[k]) /\ ~Starts(d[k])
       /\ cNow \notin Asked
  BY <1>8 DEF IsTopology, Starts, IsAbout, Asked
<1>12. Core(s, l, listed, d1, v, cNow, j, state, fate, psNow, running) /\ d1 \in Seq(DownMessage)
  <2>1. l = "up" => Fits(s, g, d, cNow, j, state, fate, psNow)
    BY <1>2, <1>9, <1>11 DEF Fits
  <2> HIDE DEF cNow
  <2>2. Core(s, l, listed, d1, v, cNow, j, state, fate, psNow, running)
    BY <1>2, <1>10, <2>1, CorePut
  <2> QED  BY <2>2 DEF Core
<1>13. /\ \A k \in DOMAIN d : k \in DOMAIN d1 /\ d1[k] = d[k]
       /\ \A k \in DOMAIN d1 : k \in DOMAIN d \/ d1[k] = g
       /\ l = "up" => \E n \in DOMAIN d1 : d1[n] = g
  <2> HIDE DEF d1
  <2>1. PutGives(l, d, g)  BY <1>2, <1>3, PutIs
  <2> QED  BY <2>1 DEF PutGives, d1
<1> HIDE DEF d1
<1>14. Core(s, l, listed, e, v, cNow, j, state, fate, psNow, running)
  <2>1. l = "up" => Fits(s, m, d1, cNow, j, state, fate, psNow)
    <3>1. \A k \in DOMAIN d1 : ~Starts(d1[k])  BY <1>2, <1>11, <1>13
    <3>2. l = "up" => \E n \in DOMAIN d1 : IsSession(d1[n])  BY <1>2, <1>13
    <3> QED  BY <1>1, <1>9, <1>11, <3>1, <3>2 DEF Fits
  <2> HIDE DEF cNow
  <2> QED  BY <1>1, <1>5, <1>12, <2>1, CorePut
<1>15. ToldOk(l, e, cNow, j, psNow)  BY <1>1, <1>5, <1>12, ToldLast
<1>16. Extends(d, d1, {g}) /\ Extends(d1, e, {m})
  BY <1>1, <1>2, <1>3, <1>5, <1>12, PutExtends DEF d1
<1>17. AnswerOk(l, e, v, cNow, j)
  <2>1. l = "up" => \E n \in DOMAIN e : IsSession(e[n])
    <3>1. \A k \in DOMAIN d1 : k \in DOMAIN e /\ e[k] = d1[k]  BY <1>16 DEF Extends
    <3> QED  BY <1>2, <1>13, <3>1
  <2> QED  BY <2>1 DEF AnswerOk
<1>18. ChatOk(l, e, cNow, j, info)
  <2>1. ChatOk(l, d1, c, j, info)
    <3>1. \A t : ~Adds(g, t) /\ ~Updates(g, t) /\ ~Removes(g, t)
      BY <1>2 DEF Adds, Updates, Removes
    <3>2. g.type # "clientInfo"  BY <1>2
    <3> QED  BY <1>2, <1>3, <3>1, <3>2, ChatPut DEF d1
  <2>2. ChatOk(l, e, c, j, info)
    <3>1. \A t : ~Adds(m, t) /\ ~Updates(m, t) /\ ~Removes(m, t)
      BY <1>1 DEF Adds, Updates, Removes
    <3>2. m.type # "clientInfo"  BY <1>1
    <3> QED  BY <1>1, <1>5, <1>12, <2>1, <3>1, <3>2, ChatPut
  <2> QED  BY <2>2 DEF ChatOk, CanPregameChat
<1>19. ASSUME NEW id, Knows(e, v, j, id)  PROVE Knows(d, u, j, id)
  <2>1. \A o \in {m} : o.type # "joinPlayer"  BY <1>1
  <2>2. \A o \in {g} : o.type # "joinPlayer"  BY <1>2
  <2>3. Knows(d1, v, j, id)  BY <1>12, <1>16, <1>19, <2>1, KnowsExtends
  <2>4. Knows(d, v, j, id)  BY <1>3, <1>16, <2>2, <2>3, KnowsExtends
  <2> QED  BY <1>6, <2>4, KnowsWithin
<1> QED  BY <1>14, <1>15, <1>17, <1>18, <1>19 DEF Whole, KnownBefore, v

\* The game starts for those who are in: the final topology and the game data.
LEMMA WholeStarts ==
  ASSUME NEW s, NEW l, NEW listed, NEW d, NEW u, NEW j, NEW state, NEW fate,
         NEW ps \in Seq(Player), NEW running, NEW info,
         Whole(s, l, listed, d, u, "awaitingMap", j, state, fate, ps, running, info),
         state # "active", Plays(s, ps),
         NEW e, e = Put(l, Put(l, d, Topology("startGame", ps)), EndGameData)
  PROVE  /\ Whole(s, l, listed, e, u, "ingame", j, "active", fate, ps, running, info)
         /\ \A id : Knows(e, u, j, id) => Knows(d, u, j, id)
<1> DEFINE m == Topology("startGame", ps)
           g == EndGameData
           d1 == Put(l, d, m)
           c == "awaitingMap"
           cNow == "ingame"
           now == "active"
<1>1. /\ m \in DownMessage /\ IsTopology(m) /\ ~IsSession(m) /\ ~Ends(m) /\ Starts(m)
      /\ m.players = ps /\ m.type = "topology"
  BY DEF Topology, DownMessage, IsTopology, IsSession, Ends, Starts
<1>2. /\ g \in DownMessage /\ ~IsSession(g) /\ ~IsTopology(g) /\ ~IsAbout(g) /\ Ends(g)
      /\ ~Starts(g) /\ g.type = "endGameData"
  BY DEF EndGameData, DownMessage, IsTopology, IsSession, IsAbout, Ends, Starts
<1>3. /\ Core(s, l, listed, d, u, c, j, state, fate, ps, running)
      /\ d \in Seq(DownMessage) /\ u \in Seq(UpMessage) /\ ChatOk(l, d, c, j, info)
      /\ LinkOk(l, listed, d, u, c, j, running) /\ IntroducedOk(u, c, j)
      /\ AnswerOk(l, d, u, c, j)
  BY DEF Whole, Core
<1>4. e = Put(l, d1, g)  OBVIOUS
<1> HIDE DEF m, g
<1>5. Within(u, u)
  <2>1. \A k \in DOMAIN u : k + 0 \in DOMAIN u /\ u[k] = u[k + 0]  BY <1>3
  <2> QED  BY <2>1 DEF Within
<1>6. l = "up" => /\ running /\ j.net = "waiting" /\ \A k \in DOMAIN d : ~Starts(d[k])
                  /\ j.session = TRUE \/ \E n \in DOMAIN d : IsSession(d[n])
  <2>1. c \in In /\ (l = "up" => running)  BY <1>3 DEF In, LinkOk
  <2> HIDE DEF c
  <2>2. Whole(s, l, listed, d, u, c, j, state, fate, ps, running, info)  BY DEF c
  <2> QED  BY <2>1, <2>2, WhoIsIn
<1>7. Core(s, l, listed, d, u, cNow, j, now, fate, ps, running)
  <2>1. Moves(c, cNow, u, j)
    <3>1. j.handler # "awaitingHello" /\ \A k \in DOMAIN u : ~Introduces(u, k)
      BY <1>3 DEF IntroducedOk
    <3> QED  BY <3>1 DEF Moves, In, Asked
  <2>2. Steady(state, fate, ps, now, fate, ps)  BY DEF Steady
  <2>3. /\ (~listed => u = <<>>) /\ (listed => cNow # "none") /\ (l = "none" => cNow = "none")
        /\ (l = "up" => running)
    BY <1>3, <1>6 DEF LinkOk
  <2> HIDE DEF c, cNow, now
  <2> QED  BY <1>3, <1>5, <2>1, <2>2, <2>3, CoreMoves
<1>8. cNow \notin Asked  BY DEF Asked
<1>9. Core(s, l, listed, d1, u, cNow, j, now, fate, ps, running) /\ d1 \in Seq(DownMessage)
  <2>1. l = "up" => Fits(s, m, d, cNow, j, now, fate, ps)
    BY <1>1, <1>6, <1>8 DEF Fits
  <2> HIDE DEF cNow, now
  <2>2. Core(s, l, listed, d1, u, cNow, j, now, fate, ps, running)
    BY <1>1, <1>7, <2>1, CorePut
  <2> QED  BY <2>2 DEF Core
<1>10. Extends(d, d1, {m})  BY <1>1, <1>3, PutExtends
<1>11. l = "up" => Len(d) + 1 \in DOMAIN d1 /\ d1[Len(d) + 1] = m
  BY <1>1, <1>3, PutIs DEF PutGives
<1>12. ToldOk(l, d1, cNow, j, ps)  BY <1>1, <1>3, ToldLast
<1> HIDE DEF d1
<1>13. Core(s, l, listed, e, u, cNow, j, now, fate, ps, running) /\ e \in Seq(DownMessage)
  <2>1. l = "up" => Fits(s, g, d1, cNow, j, now, fate, ps)
    BY <1>2, <1>6, <1>8 DEF Fits
  <2> HIDE DEF cNow, now
  <2>2. Core(s, l, listed, e, u, cNow, j, now, fate, ps, running)
    BY <1>2, <1>4, <1>9, <2>1, CorePut
  <2> QED  BY <2>2 DEF Core
<1>14. Extends(d1, e, {g})  BY <1>2, <1>4, <1>9, PutExtends
<1>15. ToldOk(l, e, cNow, j, ps)
  <2>1. \A o \in {g} : ~IsTopology(o)  BY <1>2
  <2> QED  BY <1>9, <1>12, <1>14, <2>1, ToldExtends
<1>16. AnswerOk(l, e, u, cNow, j)
  <2>1. \A k \in DOMAIN d : k \in DOMAIN d1 /\ d1[k] = d[k]  BY <1>10 DEF Extends
  <2>2. \A k \in DOMAIN d1 : k \in DOMAIN e /\ e[k] = d1[k]  BY <1>14 DEF Extends
  <2>3. l = "up" => j.session = TRUE \/ \E n \in DOMAIN e : IsSession(e[n])
    BY <1>6, <2>1, <2>2
  <2>4. l = "up" => \E k, n \in DOMAIN e : k < n /\ Starts(e[k]) /\ Ends(e[n])
    <3> SUFFICES ASSUME l = "up"
                 PROVE  \E k, n \in DOMAIN e : k < n /\ Starts(e[k]) /\ Ends(e[n])
      OBVIOUS
    <3> DEFINE k == Len(d) + 1
               n == Len(d1) + 1
    <3>1. k \in DOMAIN d1 /\ d1[k] = m  BY <1>11
    <3>2. n \in DOMAIN e /\ e[n] = g /\ \A i \in DOMAIN d1 : i < n
      <4>1. PutGives(l, d1, g)  BY <1>2, <1>9, PutIs
      <4> QED  BY <1>4, <4>1 DEF PutGives
    <3> HIDE DEF k, n
    <3> QED  BY <1>1, <1>2, <2>2, <3>1, <3>2
  <2> QED  BY <2>3, <2>4 DEF AnswerOk
<1>17. ChatOk(l, e, cNow, j, info)
  <2>1. ChatOk(l, d1, c, j, info)
    <3>1. \A t : ~Adds(m, t) /\ ~Updates(m, t) /\ ~Removes(m, t)
      BY <1>1 DEF Adds, Updates, Removes
    <3>2. m.type # "clientInfo"  BY <1>1
    <3> QED  BY <1>1, <1>3, <3>1, <3>2, ChatPut DEF d1
  <2>2. ChatOk(l, e, c, j, info)
    <3>1. \A t : ~Adds(g, t) /\ ~Updates(g, t) /\ ~Removes(g, t)
      BY <1>2 DEF Adds, Updates, Removes
    <3>2. g.type # "clientInfo"  BY <1>2
    <3> QED  BY <1>2, <1>4, <1>9, <2>1, <3>1, <3>2, ChatPut
  <2> QED  BY <2>2 DEF ChatOk, CanPregameChat
<1>18. ASSUME NEW id, Knows(e, u, j, id)  PROVE Knows(d, u, j, id)
  <2>1. \A o \in {m} : o.type # "joinPlayer"  BY <1>1
  <2>2. \A o \in {g} : o.type # "joinPlayer"  BY <1>2
  <2>3. Knows(d1, u, j, id)  BY <1>9, <1>14, <1>18, <2>2, KnowsExtends
  <2> QED  BY <1>3, <1>10, <2>1, <2>3, KnowsExtends
<1> QED  BY <1>13, <1>15, <1>16, <1>17, <1>18 DEF Whole

\* Something about nobody: the gatherer's capabilities.
LEMMA WholeQuiet ==
  ASSUME NEW s, NEW l, NEW listed, NEW d, NEW u, NEW c, NEW j, NEW state, NEW fate, NEW ps,
         NEW running, NEW info, Whole(s, l, listed, d, u, c, j, state, fate, ps, running, info),
         NEW m \in DownMessage, m.type = "capabilities"
  PROVE  /\ Whole(s, l, listed, Put(l, d, m), u, c, j, state, fate, ps, running, info)
         /\ \A id : Knows(Put(l, d, m), u, j, id) => Knows(d, u, j, id)
<1> DEFINE e == Put(l, d, m)
<1>1. /\ Core(s, l, listed, d, u, c, j, state, fate, ps, running) /\ d \in Seq(DownMessage)
      /\ ToldOk(l, d, c, j, ps) /\ AnswerOk(l, d, u, c, j) /\ ChatOk(l, d, c, j, info)
  BY DEF Whole, Core
<1>2. \A o \in {m} : ~IsAbout(o) /\ ~Ends(o) /\ ~IsTopology(o) /\ o.type # "joinPlayer"
  BY DEF IsAbout, Ends, IsTopology
<1>3. Extends(d, e, {m}) /\ (l = "up" \/ e = d)  BY <1>1, PutExtends DEF Put
<1>4. ChatOk(l, e, c, j, info)
  <2>1. \A t : ~Adds(m, t) /\ ~Updates(m, t) /\ ~Removes(m, t)
    BY DEF Adds, Updates, Removes
  <2> QED  BY <1>1, <2>1, ChatPut
<1> HIDE DEF e
<1>5. Core(s, l, listed, e, u, c, j, state, fate, ps, running)
  BY <1>1, <1>2, <1>3, CoreExtends
<1>6. ToldOk(l, e, c, j, ps)  BY <1>1, <1>2, <1>3, ToldExtends
<1>7. AnswerOk(l, e, u, c, j)  BY <1>1, <1>3, AnswerExtends
<1>8. \A id : Knows(e, u, j, id) => Knows(d, u, j, id)
  BY <1>1, <1>2, <1>3, KnowsExtends
<1> QED  BY <1>4, <1>5, <1>6, <1>7, <1>8 DEF Whole, e

\* A list of the chat info of everybody in info, each once.
Listing(q, info) ==
  /\ q \in Seq(DownMessage)
  /\ \A i \in DOMAIN q : q[i].type = "clientInfo" /\ q[i].action = "add" /\ q[i].stream \in info
  /\ \A i, k \in DOMAIN q : q[i].stream = q[k].stream => i = k
  /\ \A t \in info : \E i \in DOMAIN q : q[i].stream = t

\* The messages with everybody's chat info tell of exactly those who have some.
LEMMA AllInfoLists ==
  ASSUME chatInfo \in SUBSET (Stream \cup {0})
  PROVE  Listing(AllInfo, chatInfo)
<1> DEFINE S == chatInfo
           n == Cardinality(S)
           ids == SetToSeq(S)
           q == AllInfo
<1>1. IsFiniteSet(S)
  <2>1. S \in SUBSET (0 .. MaxStreams) /\ MaxStreams \in Nat
    BY GatheringAssumption DEF Stream
  <2>2. IsFiniteSet(0 .. MaxStreams)  BY <2>1, FS_Interval
  <2> QED  BY <2>1, <2>2, FS_Subset
<1>2. n \in Nat /\ ExistsBijection(1 .. n, S)  BY <1>1, FS_CardinalityType
<1>3. \E f \in [1 .. n -> S] : IsInjective(f)
  BY <1>2 DEF ExistsBijection, Bijection, Injection
<1>4. ids \in [1 .. n -> S] /\ IsInjective(ids)
  BY <1>3, Zenon DEF SetToSeq
<1>5. S \in SUBSET Anybody  BY DEF Anybody
<1> HIDE DEF S
<1>6. q = [i \in DOMAIN ids |-> ClientInfo("add", ids[i])]  BY DEF AllInfo, S
<1> HIDE DEF ids, q
<1>7. ids \in Surjection(1 .. n, S)
  <2>1. ids \in Injection(1 .. n, S)  BY <1>4 DEF Injection
  <2>2. Cardinality(1 .. n) = n
    <3>1. n \in Nat => IF 1 > n THEN n = 0 ELSE n - 1 + 1 = n  OBVIOUS
    <3> QED  BY <1>2, <3>1, FS_Interval
  <2> QED  BY <1>1, <2>1, <2>2, FS_Injection
<1> HIDE DEF n
<1>8. /\ DOMAIN q = 1 .. n
      /\ \A i \in 1 .. n : q[i] = ClientInfo("add", ids[i]) /\ ids[i] \in S
  BY <1>4, <1>6
<1>9. \A i \in 1 .. n : /\ q[i] \in DownMessage /\ q[i].type = "clientInfo"
                        /\ q[i].action = "add" /\ q[i].stream = ids[i] /\ ids[i] \in S
  BY <1>5, <1>8 DEF ClientInfo, DownMessage, Anybody
<1>10. q \in Seq(DownMessage)
  <2>1. q = [i \in 1 .. n |-> q[i]]  BY <1>4, <1>6
  <2> QED  BY <1>2, <1>9, <2>1
<1>11. \A i, k \in DOMAIN q : q[i].stream = q[k].stream => i = k
  BY <1>4, <1>8, <1>9 DEF IsInjective
<1>12. \A t \in S : \E i \in DOMAIN q : q[i].stream = t
  BY <1>7, <1>8, <1>9 DEF Surjection
<1>13. Listing(q, S)  BY <1>8, <1>9, <1>10, <1>11, <1>12 DEF Listing
<1> QED  BY <1>13 DEF q, S

\* A joiner that has heard of nobody is told of everybody.
LEMMA ChatAll ==
  ASSUME NEW l, NEW d \in Seq(DownMessage), NEW j, NEW cNow, NEW info, NEW before,
         ChatOk(l, d, "awaitingCapabilities", j, before),
         cNow \notin {"connecting", "awaitingCapabilities"}, NEW q, Listing(q, info),
         info \in SUBSET Anybody
  PROVE  ChatOk(l, Pipe(l, d, q), cNow, j, info)
<1> DEFINE n == Len(d)
           e == d \o q
           c == "awaitingCapabilities"
<1>1. q \in Seq(DownMessage)  BY DEF Listing
<1>2. /\ \A t \in Anybody : t \notin j.chat
      /\ \A k \in DOMAIN d : d[k].type # "clientInfo"
      /\ "clientExists" \notin j.anomalies /\ "nullChatInfo" \notin j.anomalies
  BY DEF ChatOk
<1>3. CASE l # "up"
  <2>1. Pipe(l, d, q) = d  BY <1>3 DEF Pipe
  <2>2. \A k \in DOMAIN d : \A t : ~Adds(d[k], t) /\ ~Updates(d[k], t)
    BY <1>2 DEF Adds, Updates
  <2> QED  BY <1>2, <1>3, <2>1, <2>2 DEF ChatOk
<1>4. CASE l = "up"
  <2>1. /\ e \in Seq(DownMessage) /\ Len(e) = n + Len(q)
        /\ \A i \in 1 .. n + Len(q) : e[i] = IF i <= n THEN d[i] ELSE q[i - n]
    BY <1>1, ConcatProperties
  <2>2. n \in Nat /\ Len(q) \in Nat /\ DOMAIN d = 1 .. n /\ DOMAIN q = 1 .. Len(q)
    BY <1>1
  <2> HIDE DEF e, n
  <2>3. /\ DOMAIN e = 1 .. Len(e) /\ Len(e) \in Nat
        /\ \A k \in DOMAIN e : \/ (k \in DOMAIN d /\ e[k] = d[k])
                              \/ (k - n \in DOMAIN q /\ e[k] = q[k - n] /\ k \in Nat)
        /\ \A i \in DOMAIN q : i + n \in DOMAIN e /\ e[i + n] = q[i]
    <3>1. DOMAIN e = 1 .. Len(e) /\ Len(e) \in Nat /\ Len(e) = n + Len(q)  BY <2>1
    <3>2. ASSUME NEW k \in DOMAIN e
          PROVE  \/ (k \in DOMAIN d /\ e[k] = d[k])
                 \/ (k - n \in DOMAIN q /\ e[k] = q[k - n] /\ k \in Nat)
      <4>1. k \in 1 .. n + Len(q) /\ e[k] = IF k <= n THEN d[k] ELSE q[k - n]
        BY <2>1, <3>1
      <4>2. k <= n => k \in DOMAIN d  BY <2>2, <4>1
      <4>3. ~(k <= n) => k - n \in DOMAIN q  BY <2>2, <4>1
      <4> QED  BY <4>1, <4>2, <4>3
    <3>3. ASSUME NEW i \in DOMAIN q  PROVE i + n \in DOMAIN e /\ e[i + n] = q[i]
      <4> DEFINE k == i + n
      <4>1. k \in 1 .. n + Len(q) /\ ~(k <= n) /\ k - n = i  BY <2>2
      <4> HIDE DEF k
      <4>2. e[k] = IF k <= n THEN d[k] ELSE q[k - n]  BY <2>1, <4>1
      <4>3. k \in DOMAIN e /\ e[k] = q[i]  BY <3>1, <4>1, <4>2
      <4> QED  BY <4>3 DEF k
    <3> QED  BY <3>1, <3>2, <3>3
  <2>4. \A k \in DOMAIN e : \A t : ~Removes(e[k], t) /\ ~Updates(e[k], t)
    BY <1>2, <2>3 DEF Listing, Removes, Updates
  <2>5. \A k \in DOMAIN e : \A t :
          Adds(e[k], t) <=> k - n \in DOMAIN q /\ q[k - n].stream = t
    <3>1. \A k \in DOMAIN d : k - n \notin DOMAIN q  BY <2>2
    <3> QED  BY <1>2, <2>3, <3>1 DEF Listing, Adds
  <2>6. ASSUME NEW i \in 0 .. Len(e), NEW t \in Anybody
        PROVE  Known(j.chat, e, i, t) <=> \E k \in 1 .. i : Adds(e[k], t)
    <3>1. \A k \in 1 .. i : k \in DOMAIN e  BY <2>3
    <3>2. \A k \in 1 .. i : \A m \in (k + 1) .. i : m \in 1 .. i  OBVIOUS
    <3> QED  BY <1>2, <2>4, <3>1, <3>2 DEF Known
  <2>7. ASSUME NEW k \in DOMAIN e, NEW t \in Anybody, Adds(e[k], t)
        PROVE  ~Known(j.chat, e, k - 1, t)
    <3>1. k - 1 \in 0 .. Len(e) /\ \A i \in 1 .. (k - 1) : i \in DOMAIN e /\ i # k /\ i \in Nat
      BY <2>3
    <3>2. \A i \in 1 .. (k - 1) : ~Adds(e[i], t)
      <4> SUFFICES ASSUME NEW i \in 1 .. (k - 1), Adds(e[i], t)  PROVE FALSE  OBVIOUS
      <4>1. /\ k - n \in DOMAIN q /\ q[k - n].stream = t
            /\ i - n \in DOMAIN q /\ q[i - n].stream = t
        BY <2>5, <2>7, <3>1
      <4>2. k - n = i - n  BY <4>1 DEF Listing
      <4> QED  BY <2>2, <2>3, <3>1, <4>2
    <3> QED  BY <2>6, <3>1, <3>2
  <2>8. ASSUME NEW t \in Anybody  PROVE t \in info <=> Known(j.chat, e, Len(e), t)
    <3>1. Len(e) \in 0 .. Len(e)  BY <2>3
    <3>2. Known(j.chat, e, Len(e), t) <=> \E k \in DOMAIN e : Adds(e[k], t)
      BY <2>3, <2>6, <3>1
    <3>3. t \in info => \E k \in DOMAIN e : Adds(e[k], t)
      <4> SUFFICES ASSUME t \in info  PROVE \E k \in DOMAIN e : Adds(e[k], t)  OBVIOUS
      <4>1. PICK i \in DOMAIN q : q[i].stream = t  BY DEF Listing
      <4>2. i + n \in DOMAIN e /\ (i + n) - n = i  BY <2>2, <2>3
      <4> QED  BY <2>5, <4>1, <4>2
    <3>4. (\E k \in DOMAIN e : Adds(e[k], t)) => t \in info  BY <2>5 DEF Listing
    <3> QED  BY <3>2, <3>3, <3>4
  <2>9. ChatOk(l, e, cNow, j, info)  BY <1>2, <2>4, <2>7, <2>8 DEF ChatOk
  <2> QED  BY <1>4, <2>9 DEF Pipe, e
<1> QED  BY <1>3, <1>4

\* A client has said whether he can be gathered: he may chat.
LEMMA WholeListens ==
  ASSUME NEW s, NEW l, NEW listed, NEW d, NEW u, NEW j, NEW state, NEW fate, NEW ps,
         NEW running, NEW info, NEW before,
         Whole(s, l, listed, d, u, "awaitingCapabilities", j, state, fate, ps, running, before),
         listed, l # "none", NEW v \in Seq(UpMessage), Within(v, u),
         NEW cNow \in {"notYetShown", "ungatherable"},
         NEW q, Listing(q, info), info \in SUBSET Anybody
  PROVE  /\ Whole(s, l, listed, Pipe(l, d, q), v, cNow, j, state, fate, ps, running, info)
         /\ KnownBefore(Pipe(l, d, q), v, d, u, j)
<1> DEFINE c == "awaitingCapabilities"
           e == Pipe(l, d, q)
           M == {m \in DownMessage : m.type = "clientInfo"}
<1>1. /\ Core(s, l, listed, d, u, c, j, state, fate, ps, running) /\ d \in Seq(DownMessage)
      /\ ChatOk(l, d, c, j, before) /\ IntroducedOk(u, c, j)
      /\ LinkOk(l, listed, d, u, c, j, running)
  BY DEF Whole, Core
<1>2. /\ q \in Seq(DownMessage) /\ \A k \in DOMAIN q : q[k] \in M
      /\ \A m \in M : ~IsAbout(m) /\ ~Ends(m) /\ ~IsTopology(m) /\ m.type # "joinPlayer"
  BY DEF Listing, IsAbout, Ends, IsTopology
<1> HIDE DEF M
<1>3. Extends(d, e, M) /\ (l = "up" \/ e = d)  BY <1>1, <1>2, PipeExtends DEF Pipe
<1>4. ChatOk(l, e, cNow, j, info)
  <2>1. cNow \notin {"connecting", "awaitingCapabilities"}  OBVIOUS
  <2> QED  BY <1>1, <2>1, ChatAll
<1> HIDE DEF e
<1>5. Core(s, l, listed, d, v, cNow, j, state, fate, ps, running)
  <2>1. Moves(c, cNow, v, j)
    <3>1. j.handler # "awaitingHello" /\ \A k \in DOMAIN v : ~Introduces(v, k)
      BY <1>1 DEF IntroducedOk, Within, Introduces
    <3> QED  BY <3>1 DEF Moves, In, Asked
  <2>2. Steady(state, fate, ps, state, fate, ps) /\ (l = "up" => running)
    BY <1>1 DEF Steady, LinkOk
  <2>3. cNow # "none"  OBVIOUS
  <2> HIDE DEF c
  <2> QED  BY <1>1, <2>1, <2>2, <2>3, CoreMoves
<1>6. Core(s, l, listed, e, v, cNow, j, state, fate, ps, running)
  BY <1>2, <1>3, <1>5, CoreExtends
<1>7. ToldOk(l, e, cNow, j, ps) /\ AnswerOk(l, e, v, cNow, j)
  BY DEF ToldOk, AnswerOk, In
<1>8. \A id : Knows(e, v, j, id) => Knows(d, u, j, id)
  BY <1>1, <1>2, <1>3, KnowsExtends, KnowsWithin
<1> QED  BY <1>4, <1>6, <1>7, <1>8 DEF Whole, KnownBefore, e

\* A client that nobody has given an identifier is asked to join.
LEMMA WholeAsked ==
  ASSUME NEW s, NEW l, NEW listed, NEW d, NEW u, NEW j, NEW state, NEW fate, NEW ps,
         NEW running, NEW info,
         Whole(s, l, listed, d, u, "connected", j, state, fate, ps, running, info),
         \A id \in Nat : ~Knows(d, u, j, id), NEW id \in Nat,
         NEW e, e = Put(l, d, JoinPlayer(id))
  PROVE  /\ Whole(s, l, listed, e, u, "awaitingAcceptJoin", j, state, fate, ps, running, info)
         /\ \A jd : Knows(e, u, j, jd) => jd = id \/ Knows(d, u, j, jd)
<1> DEFINE c == "connected"
           cNow == "awaitingAcceptJoin"
           m == JoinPlayer(id)
<1>1. /\ Core(s, l, listed, d, u, c, j, state, fate, ps, running)
      /\ d \in Seq(DownMessage) /\ u \in Seq(UpMessage) /\ j \in Joiner
      /\ ChatOk(l, d, c, j, info) /\ IntroducedOk(u, c, j)
      /\ LinkOk(l, listed, d, u, c, j, running)
  BY DEF Whole, Core
<1>2. /\ m \in DownMessage /\ m.type = "joinPlayer" /\ m.id = id
      /\ ~IsAbout(m) /\ ~Ends(m) /\ ~IsTopology(m)
      /\ \A t : ~Adds(m, t) /\ ~Updates(m, t) /\ ~Removes(m, t)
  BY DEF JoinPlayer, DownMessage, IsAbout, Ends, IsTopology, Adds, Updates, Removes
<1>3. e = Put(l, d, m)  OBVIOUS
<1> HIDE DEF m
<1>4. Extends(d, e, {m}) /\ (l = "up" \/ e = d)  BY <1>1, <1>2, <1>3, PutExtends DEF Put
<1>5. j.handler = "joining"
  <2>1. j.id \in Nat /\ j.handler \in {"awaitingHello", "joining", "waiting", "startingUp"}
    BY <1>1 DEF Joiner
  <2>2. j.handler # "awaitingHello"  BY <1>1 DEF IntroducedOk
  <2>3. j.handler \notin {"awaitingHello", "joining"} => Knows(d, u, j, j.id)  BY DEF Knows
  <2> QED  BY <2>1, <2>2, <2>3
<1>6. Core(s, l, listed, d, u, cNow, j, state, fate, ps, running)
  <2>1. Moves(c, cNow, u, j)
    <3>1. \A k \in DOMAIN u : ~Introduces(u, k)  BY <1>1 DEF IntroducedOk
    <3> QED  BY <1>5, <3>1 DEF Moves, In, Asked
  <2>2. Steady(state, fate, ps, state, fate, ps) /\ (l = "up" => running)
    BY <1>1 DEF Steady, LinkOk
  <2>3. /\ cNow # "none" /\ (~listed => u = <<>>) /\ l # "none"
    BY <1>1 DEF LinkOk
  <2>4. Within(u, u)
    <3>1. \A k \in DOMAIN u : k + 0 \in DOMAIN u /\ u[k] = u[k + 0]  BY <1>1
    <3> QED  BY <3>1 DEF Within
  <2> HIDE DEF c, cNow
  <2> QED  BY <1>1, <2>1, <2>2, <2>3, <2>4, CoreMoves
<1>7. Core(s, l, listed, e, u, cNow, j, state, fate, ps, running)
  <2>1. \A o \in {m} : ~IsAbout(o) /\ ~Ends(o)  BY <1>2
  <2> HIDE DEF cNow
  <2> QED  BY <1>4, <1>6, <2>1, CoreExtends
<1>8. ToldOk(l, e, cNow, j, ps)  BY DEF ToldOk, In
<1>9. AnswerOk(l, e, u, cNow, j)
  <2>1. l = "up" => \E k \in DOMAIN e : e[k].type = "joinPlayer"
    <3>1. PutGives(l, d, m)  BY <1>1, <1>2, PutIs
    <3> HIDE DEF m
    <3>2. l = "up" => Len(d) + 1 \in DOMAIN e /\ e[Len(d) + 1] = m
      BY <1>3, <3>1 DEF PutGives
    <3> QED  BY <1>2, <3>2
  <2> QED  BY <1>5, <2>1 DEF AnswerOk, In
<1>10. ChatOk(l, e, cNow, j, info)
  <2>1. ChatOk(l, e, c, j, info)
    <3>1. m.type # "clientInfo"  BY <1>2
    <3> QED  BY <1>1, <1>2, <1>3, <3>1, ChatPut
  <2> QED  BY <2>1 DEF ChatOk, CanPregameChat
<1>11. ASSUME NEW jd, Knows(e, u, j, jd)  PROVE jd = id \/ Knows(d, u, j, jd)
  <2>1. \A k \in DOMAIN e : Invites(e[k], jd) => (k \in DOMAIN d /\ e[k] = d[k]) \/ jd = id
    BY <1>2, <1>4 DEF Extends, Invites
  <2> QED  BY <1>11, <2>1 DEF Knows
<1> QED  BY <1>7, <1>8, <1>9, <1>10, <1>11 DEF Whole

\* A connection is accepted.
LEMMA WholeConnects ==
  ASSUME NEW s, NEW state, NEW fate, NEW ps, NEW info,
         NEW e, e = <<Hello>>, NEW j \in Joiner, j = [NoJoiner EXCEPT !.net = "joining"]
  PROVE  /\ Whole(s, "up", TRUE, e, <<>>, "connecting", j, state, fate, ps, TRUE, info)
         /\ \A id : ~Knows(e, <<>>, j, id)
<1>1. /\ j.net = "joining" /\ j.handler = "awaitingHello" /\ j.session = FALSE
      /\ j.chat = {} /\ j.anomalies = {}
  BY DEF NoJoiner
<1>2. /\ Hello \in DownMessage /\ Hello.type = "hello"
      /\ \A t : ~Adds(Hello, t) /\ ~Updates(Hello, t)
      /\ ~IsAbout(Hello) /\ ~IsTopology(Hello) /\ ~IsSession(Hello) /\ ~Starts(Hello)
      /\ ~Ends(Hello)
  BY DEF Hello, DownMessage, Adds, Updates, IsAbout, IsTopology, IsSession, Starts, Ends
<1>3. e \in Seq(DownMessage) /\ \A k \in DOMAIN e : e[k] = Hello  BY <1>2
<1> HIDE DEF Hello
<1>4. Core(s, "up", TRUE, e, <<>>, "connecting", j, state, fate, ps, TRUE)
  <2>1. LinkOk("up", TRUE, e, <<>>, "connecting", j, TRUE)  BY <1>1 DEF LinkOk, Alive
  <2>2. HandlerOk(j) /\ IntroducedOk(<<>>, "connecting", j)
    BY <1>1 DEF HandlerOk, IntroducedOk
  <2>3. JoinedOk(e, <<>>, "connecting", j)  BY <1>2, <1>3 DEF JoinedOk, In
  <2>4. SessionOk(s, e, "connecting", j, state, fate, ps)
    BY <1>1, <1>2, <1>3 DEF SessionOk, Playing
  <2> DEFINE v == <<>>
             c == "connecting"
  <2>5. v \in Seq(UpMessage)  OBVIOUS
  <2>6. /\ LinkOk("up", TRUE, e, v, c, j, TRUE) /\ IntroducedOk(v, c, j)
        /\ JoinedOk(e, v, c, j) /\ SessionOk(s, e, c, j, state, fate, ps)
    BY <2>1, <2>2, <2>3, <2>4
  <2> HIDE DEF v, c
  <2>7. Core(s, "up", TRUE, e, v, c, j, state, fate, ps, TRUE)
    BY <1>3, <2>2, <2>5, <2>6 DEF Core
  <2> QED  BY <2>7 DEF v, c
<1>5. ToldOk("up", e, "connecting", j, ps) /\ AnswerOk("up", e, <<>>, "connecting", j)
  BY DEF ToldOk, AnswerOk, In
<1>6. ChatOk("up", e, "connecting", j, info)
  BY <1>1, <1>2, <1>3 DEF ChatOk, CanPregameChat
<1>7. \A id : ~Knows(e, <<>>, j, id)
  BY <1>1, <1>2, <1>3 DEF Knows, Invites
<1> QED  BY <1>4, <1>5, <1>6, <1>7 DEF Whole

----------------------------------------------------------------------------
(* What the gatherer enqueues, as the pipes see it.                         *)

Queues == [Stream -> Seq(DownMessage)]

\* What is enqueued comes behind, in the queues of those it is for.
LEMMA EnqueueIs ==
  ASSUME NEW queues \in Queues, NEW to, NEW ms \in Seq(DownMessage)
  PROVE  /\ Enqueue(queues, to, ms) \in Queues
         /\ \A t \in Stream : Enqueue(queues, to, ms)[t] =
              IF t \in to /\ t \in connected THEN queues[t] \o ms ELSE queues[t]
<1>1. \A t \in Stream : queues[t] \in Seq(DownMessage) /\ queues[t] \o ms \in Seq(DownMessage)
  BY ConcatProperties DEF Queues
<1> QED  BY <1>1 DEF Enqueue, Queues

\* The same for one queue.
LEMMA EnqueueAt ==
  ASSUME NEW queues \in Queues, NEW to, NEW ms \in Seq(DownMessage), NEW t \in Stream
  PROVE  /\ t \notin to => Enqueue(queues, to, ms)[t] = queues[t]
         /\ t \in to /\ t \in connected => Enqueue(queues, to, ms)[t] = queues[t] \o ms
BY EnqueueIs

\* A message that is enqueued is put in the pipes of those it is for.
LEMMA PipeSent ==
  ASSUME IInv, NEW t \in Stream, NEW queues \in Queues, NEW a \in Seq(DownMessage),
         NEW to, NEW m \in DownMessage
  PROVE  Pipe(link[t], a, Enqueue(queues, to, <<m>>)[t]) =
           IF t \in to THEN Put(link[t], Pipe(link[t], a, queues[t]), m)
           ELSE Pipe(link[t], a, queues[t])
<1> DEFINE l == link[t]
           q == queues[t]
           p == Enqueue(queues, to, <<m>>)[t]
<1>1. l = "up" => t \in connected
  <2>1. LinkOk(l, t \in connected, Down(t), Up(t), client[t], joiner[t], Running)
    BY DEF IInv, Links
  <2> QED  BY <2>1 DEF LinkOk
<1>2. q \in Seq(DownMessage) /\ <<m>> \in Seq(DownMessage)  BY DEF Queues
<1>3. p = IF t \in to /\ t \in connected THEN q \o <<m>> ELSE q
  BY <1>2, EnqueueIs
<1> HIDE DEF l, q, p
<1>4. Pipe(l, a, q \o <<m>>) = Pipe(l, Pipe(l, a, q), <<m>>)
  <2> DEFINE r == <<m>>
  <2>1. r \in Seq(DownMessage)  BY <1>2
  <2> HIDE DEF r
  <2>2. (a \o q) \o r = a \o (q \o r)  BY <1>2, <2>1, ConcatAssociative
  <2>3. Pipe(l, a, q \o r) = Pipe(l, Pipe(l, a, q), r)  BY <2>2 DEF Pipe
  <2> QED  BY <2>3 DEF r
<1>5. Pipe(l, a, q) \in Seq(DownMessage)  BY <1>2, PipeDown
<1>6. Pipe(l, Pipe(l, a, q), <<m>>) = Put(l, Pipe(l, a, q), m)  BY <1>5, PutIs DEF PutGives
<1>7. CASE l = "up"  BY <1>1, <1>3, <1>4, <1>6, <1>7 DEF l, q, p
<1>8. CASE l # "up"
  <2>1. Pipe(l, a, p) = a /\ Pipe(l, a, q) = a /\ Put(l, a, m) = a  BY <1>8 DEF Pipe, Put
  <2> QED  BY <2>1 DEF l, q, p
<1> QED  BY <1>7, <1>8

\* Who is in a topology that begins with the gatherer himself.
LEMMA InStreams ==
  ASSUME NEW ps \in Seq(Player), 1 <= Len(ps), ps[1].stream = 0, NEW t \in Stream
  PROVE  t \in Streams(ps) <=> Plays(t, ps)
<1>1. t # 0  BY GatheringAssumption DEF Stream
<1>2. DOMAIN ps = 1 .. Len(ps) /\ 1 \in DOMAIN ps  OBVIOUS
<1> QED  BY <1>1, <1>2 DEF Streams, Plays

\* Who the players are, while the gatherer runs.
LEMMA PlayersAre ==
  ASSUME IInv, Running
  PROVE  /\ players \in Seq(Player) /\ 1 <= Len(players) /\ Len(players) <= MaxPlayers
         /\ Len(players) \in Nat /\ DOMAIN players = 1 .. Len(players)
         /\ players[1].stream = 0 /\ 1 \in DOMAIN players
         /\ \A i, k \in DOMAIN players : players[i].stream = players[k].stream => i = k
         /\ \A t \in Stream : /\ t \in Streams(players) <=> client[t] \in In
                              /\ Plays(t, players) <=> client[t] \in In
         /\ MaxPlayers <= NumColors /\ MaxPlayers \in Nat /\ NumColors \in Nat
<1>1. /\ players \in Seq(Player) /\ 1 <= Len(players) /\ Len(players) <= MaxPlayers
      /\ players[1].stream = 0
      /\ \A i, k \in DOMAIN players : players[i].stream = players[k].stream => i = k
      /\ \A t \in Stream : Plays(t, players) <=> client[t] \in In
  BY DEF IInv, Types, Lists
<1>2. \A t \in Stream : t \in Streams(players) <=> Plays(t, players)
  BY <1>1, InStreams
<1>3. DOMAIN players = 1 .. Len(players) /\ 1 \in DOMAIN players /\ Len(players) \in Nat
  BY <1>1
<1> QED  BY <1>1, <1>2, <1>3, GatheringAssumption, ColorsAssumption

\* Players who are changed but stay who they are.
SamePlayers(ps, psNow) ==
  /\ psNow \in Seq(Player) /\ Len(psNow) = Len(ps)
  /\ \A i \in 1 .. Len(ps) : psNow[i].stream = ps[i].stream /\ psNow[i].id = ps[i].id

Differ(ps) == \A i, k \in DOMAIN ps : ps[i].color = ps[k].color => i = k

\* reassign_player_colors: the players stay who they are, in other colors.
LEMMA Recolored ==
  ASSUME NEW ps \in Seq(Player), Len(ps) <= NumColors
  PROVE  SamePlayers(ps, Reassigned(ps)) /\ Differ(Reassigned(ps))
<1>1. /\ Reassigned(ps) \in Seq(Player) /\ Len(Reassigned(ps)) = Len(ps)
      /\ \A i \in 1 .. Len(ps) : /\ Reassigned(ps)[i].stream = ps[i].stream
                                 /\ Reassigned(ps)[i].id = ps[i].id
      /\ \A i, j \in 1 .. Len(ps) :
           Reassigned(ps)[i].color = Reassigned(ps)[j].color => i = j
  BY ReassignedPlayers
<1> DEFINE r == Reassigned(ps)
<1> HIDE DEF r
<1>2. DOMAIN r = 1 .. Len(ps)  BY <1>1 DEF r
<1> QED  BY <1>1, <1>2 DEF SamePlayers, Differ, r

\* What somebody wants.
LEMMA Repainted ==
  ASSUME IInv, Running, NEW i \in DOMAIN players, NEW look \in Look
  PROVE  LET psNow == Reassigned(Wanting(i, look))
         IN SamePlayers(players, psNow) /\ Differ(psNow)
<1> DEFINE n == Len(players)
           w == Wanting(i, look)
           p == players[i]
           q == [p EXCEPT !.desired = look.color, !.team = look.team]
<1>1. /\ players \in Seq(Player) /\ n \in Nat /\ DOMAIN players = 1 .. n
      /\ n <= NumColors
  BY PlayersAre
<1>2. look.color \in Color /\ look.team \in Color  BY DEF Look
<1>3. q \in Player /\ q.stream = p.stream /\ q.id = p.id
  <2>1. p \in Player  BY <1>1
  <2> HIDE DEF p
  <2> QED  BY <1>2, <2>1 DEF Player
<1>4. w = [players EXCEPT ![i] = q]  BY DEF Wanting
<1> HIDE DEF w, q
<1>5. w \in Seq(Player) /\ Len(w) = n  BY <1>1, <1>3, <1>4
<1>6. \A k \in 1 .. n : w[k].stream = players[k].stream /\ w[k].id = players[k].id
  BY <1>1, <1>3, <1>4
<1>7. SamePlayers(w, Reassigned(w)) /\ Differ(Reassigned(w))
  BY <1>1, <1>5, Recolored
<1> DEFINE r == Reassigned(w)
<1> HIDE DEF r, n
<1>8. SamePlayers(players, r) /\ Differ(r)  BY <1>5, <1>6, <1>7 DEF SamePlayers, r, n
<1> QED  BY <1>8 DEF r, w

\* Who plays, and as whom, is the same for players who stay who they are.
LEMMA SameRoster ==
  ASSUME NEW ps \in Seq(Player), NEW psNow, SamePlayers(ps, psNow)
  PROVE  /\ DOMAIN psNow = DOMAIN ps
         /\ \A t : Plays(t, psNow) <=> Plays(t, ps)
         /\ \A t, id : PlaysAs(t, psNow, id) <=> PlaysAs(t, ps, id)
         /\ \A i \in DOMAIN psNow : psNow[i].stream = ps[i].stream /\ psNow[i].id = ps[i].id
<1>1. DOMAIN psNow = DOMAIN ps /\ DOMAIN ps = 1 .. Len(ps)  BY DEF SamePlayers
<1> QED  BY <1>1 DEF SamePlayers, Plays, PlaysAs

TailGives(l, a, q) ==
  /\ Pipe(l, Tail(a), q) = Tail(Pipe(l, a, q)) /\ Pipe(l, a, q) # <<>>
  /\ Head(Pipe(l, a, q)) = Head(a)

\* A pipe whose first message is taken.
LEMMA PipeTail ==
  ASSUME NEW S, NEW l, NEW a \in Seq(S), NEW q \in Seq(S), a # <<>>
  PROVE  TailGives(l, a, q)
<1> DEFINE p == Pipe(l, a, q)
<1>1. p \in Seq(S) /\ \A k \in 1 .. Len(a) : k \in DOMAIN p /\ p[k] = a[k]
  <2>1. PipeGives(S, l, a, q)  BY PipeIs
  <2> QED  BY <2>1 DEF PipeGives
<1>2. Len(a) \in Nat /\ 1 \in 1 .. Len(a) /\ 1 \in 0 .. Len(a)  OBVIOUS
<1>3. Pipe(l, Rest(a, 1), q) = Rest(p, 1)  BY <1>2, PipeRest
<1> HIDE DEF p
<1>4. p # <<>> /\ Head(p) = p[1] /\ Len(p) \in Nat /\ 1 \in 1 .. Len(p)  BY <1>1, <1>2
<1>5. Tail(p) = Rest(p, 1)
  <2>1. Rest(p, 0) = p /\ Tail(Rest(p, 1 - 1)) = Rest(p, 1)  BY <1>1, <1>4, RestStep
  <2>2. 1 - 1 = 0  OBVIOUS
  <2> QED  BY <2>1, <2>2
<1>6. Tail(a) = Rest(a, 1)
  <2>1. Rest(a, 0) = a /\ Tail(Rest(a, 1 - 1)) = Rest(a, 1)  BY <1>2, RestStep
  <2>2. 1 - 1 = 0  OBVIOUS
  <2> QED  BY <2>1, <2>2
<1>7. Head(p) = Head(a)  BY <1>1, <1>2, <1>4
<1> QED  BY <1>3, <1>4, <1>5, <1>6, <1>7 DEF p, TailGives

\* The gatherer's pump for the client s: what is queued leaves, a message is
\* taken, and the handler goes on with the queues.
Polls(s, queues) ==
  /\ Running /\ s \in connected /\ up[s] # <<>>
  /\ queues \in Queues /\ down' \in Queues
  /\ \A t \in Stream : Pipe(link[t], down'[t], queues[t]) = Down(t)
  /\ up' = [up EXCEPT ![s] = Tail(@)] /\ link' = link
  /\ UNCHANGED <<netState, nextIdentifier, ungathered, connected, joiner, changes, mishaps>>

\* A message of client s is taken from his pipe and from no other.
LEMMA PollIs ==
  ASSUME IInv, NEW s \in Stream, NEW queues, Polls(s, queues)
  PROVE  /\ up' \in [Stream -> Seq(UpMessage)]
         /\ Up(s) # <<>> /\ Head(Up(s)) = Head(up[s]) /\ Head(up[s]) \in UpMessage
         /\ Up(s)' = Tail(Up(s)) /\ \A t \in Stream : t # s => Up(t)' = Up(t)
         /\ \A t \in Stream : /\ Up(t) \in Seq(UpMessage) /\ Up(t)' \in Seq(UpMessage)
                              /\ Within(Up(t)', Up(t)) /\ Down(t) \in Seq(DownMessage)
                              /\ t \notin connected => Up(t)' = <<>>
                              /\ t \in connected => client[t] # "none"
                              /\ link[t] = "none" => client[t] = "none"
         /\ client[s] # "none" /\ link[s] # "none"
<1>1. /\ up \in [Stream -> Seq(UpMessage)] /\ up' = [up EXCEPT ![s] = Tail(@)]
      /\ up[s] # <<>> /\ s \in connected
      /\ connected' = connected /\ joiner' = joiner /\ link' = link
  BY DEF IInv, Types, Polls
<1>2. ASSUME NEW t \in Stream
      PROVE  /\ up[t] \in Seq(UpMessage) /\ joiner[t].out \in Seq(UpMessage)
             /\ Up(t) \in Seq(UpMessage) /\ Down(t) \in Seq(DownMessage)
             /\ t \notin connected => Up(t) = <<>>
             /\ t \in connected => client[t] # "none" /\ link[t] # "none"
             /\ link[t] = "none" => client[t] = "none"
  <2>1. /\ StreamOk(t, link[t], Down(t), Up(t), joiner[t])
        /\ up[t] \in Seq(UpMessage) /\ joiner[t].out \in Seq(UpMessage)
    BY OfStream
  <2> QED  BY <2>1 DEF StreamOk, LinkOk
<1>3. /\ Head(up[s]) \in UpMessage /\ Tail(up[s]) \in Seq(UpMessage)
      /\ up' \in [Stream -> Seq(UpMessage)]
      /\ up'[s] = Tail(up[s]) /\ \A t \in Stream : t # s => up'[t] = up[t]
  <2>1. up[s] \in Seq(UpMessage)  BY <1>1
  <2>2. Head(up[s]) \in UpMessage /\ Tail(up[s]) \in Seq(UpMessage)  BY <1>1, <2>1
  <2> QED  BY <1>1, <2>2
<1>4. /\ Pipe(link[s], Tail(up[s]), joiner[s].out) = Tail(Up(s)) /\ Up(s) # <<>>
      /\ Head(Up(s)) = Head(up[s])
  <2>1. TailGives(link[s], up[s], joiner[s].out)  BY <1>1, <1>2, PipeTail
  <2> QED  BY <2>1 DEF TailGives, Up
<1>5. Up(s)' = Tail(Up(s)) /\ \A t \in Stream : t # s => Up(t)' = Up(t)
  BY <1>1, <1>3, <1>4 DEF Up
<1> HIDE DEF IInv
<1>6. ASSUME NEW t \in Stream
      PROVE  /\ Up(t)' \in Seq(UpMessage) /\ Within(Up(t)', Up(t))
             /\ t \notin connected => Up(t)' = <<>>
  <2> DEFINE u == Up(t)
             v == Up(t)'
  <2>1. u \in Seq(UpMessage)  BY <1>2
  <2>2. CASE t = s
    <3>1. v = Tail(u) /\ u # <<>>  BY <1>4, <1>5, <2>2
    <3> HIDE DEF u, v
    <3>2. v \in Seq(UpMessage) /\ \A k \in DOMAIN v : k + 1 \in DOMAIN u /\ v[k] = u[k + 1]
      BY <2>1, <3>1
    <3>3. Within(v, u)  BY <3>2 DEF Within
    <3> QED  BY <1>1, <2>2, <3>2, <3>3 DEF u, v
  <2>3. CASE t # s
    <3>1. v = u  BY <1>5, <2>3
    <3>2. Within(u, u)
      <4> HIDE DEF u
      <4>1. \A k \in DOMAIN u : k + 0 \in DOMAIN u /\ u[k] = u[k + 0]  BY <2>1
      <4> QED  BY <4>1 DEF Within
    <3> QED  BY <1>2, <2>1, <3>1, <3>2
  <2> QED  BY <2>2, <2>3
<1> QED  BY <1>1, <1>2, <1>3, <1>4, <1>5, <1>6

\* The invariant after a step, put together from all streams.
LEMMA WholeTogether ==
  ASSUME Types', Lists', Identifiers', Dressed', Unheard',
         \A t \in Stream :
           Whole(t, link'[t], (t \in connected)', Down(t)', Up(t)', client'[t], joiner'[t],
                 netState', failed', players', Running', chatInfo')
  PROVE  IInv'
<1>1. \A t \in Stream : StreamOk(t, link[t], Down(t), Up(t), joiner[t])'  BY ToStream
<1> HIDE DEF IInv
<1> QED  BY <1>1, Together

\* A message that does not answer what the gatherer waits for is taken.
LEMMA PollWhole ==
  ASSUME IInv, NEW s \in Stream, NEW queues, Polls(s, queues), NEW t \in Stream,
         t = s /\ client[s] = "awaitingAcceptJoin" => ~Accepts(Head(up[s]))
  PROVE  Whole(t, link[t], t \in connected, Down(t), Up(t)', client[t], joiner[t],
               netState, failed, players, Running, chatInfo)
<1> DEFINE l == link[t]
           listed == t \in connected
           d == Down(t)
           u == Up(t)
           v == Up(t)'
           c == client[t]
           j == joiner[t]
           running == Running
<1>1. Whole(t, l, listed, d, u, c, j, netState, failed, players, running, chatInfo)
  BY OfWhole
<1>2. /\ Up(s) # <<>> /\ Head(Up(s)) = Head(up[s])
      /\ Up(s)' = Tail(Up(s)) /\ (t # s => v = u)
      /\ u \in Seq(UpMessage) /\ v \in Seq(UpMessage) /\ Within(v, u)
      /\ (~listed => v = <<>>) /\ (listed => c # "none") /\ (l = "none" => c = "none")
  BY PollIs
<1>3. c = "awaitingAcceptJoin" =>
        \A k \in DOMAIN u : Accepts(u[k]) => \E n \in DOMAIN v : Accepts(v[n])
  <2> SUFFICES ASSUME c = "awaitingAcceptJoin", NEW k \in DOMAIN u, Accepts(u[k])
               PROVE  \E n \in DOMAIN v : Accepts(v[n])
    OBVIOUS
  <2>1. CASE t # s  BY <1>2, <2>1
  <2>2. CASE t = s
    <3>1. ~Accepts(Head(u)) /\ u # <<>> /\ v = Tail(u)  BY <1>2, <2>2
    <3> HIDE DEF u, v
    <3>2. k = 1 \/ (k - 1 \in DOMAIN Tail(u) /\ Tail(u)[k - 1] = u[k])
      BY <1>2, <3>1, Behind
    <3>3. k # 1  BY <1>2, <3>1, Behind
    <3> QED  BY <3>1, <3>2, <3>3
  <2> QED  BY <2>1, <2>2
<1>4. Moves(c, c, v, j)  BY DEF Moves
<1> HIDE DEF l, listed, d, u, v, c, j, running, IInv
<1>5. Whole(t, l, listed, d, v, c, j, netState, failed, players, running, chatInfo)
  BY <1>1, <1>2, <1>3, <1>4, WholeMoves
<1> QED  BY <1>5 DEF l, listed, d, v, c, j, running

\* A message that is not for the state its client is in is ignored.
LEMMA IgnoreStep ==
  ASSUME IInv, NEW s \in Stream, NEW queues, Polls(s, queues), out' = queues,
         UNCHANGED <<players, chatInfo, client, failed>>,
         client[s] = "awaitingAcceptJoin" => ~Accepts(Head(up[s]))
  PROVE  IInv'
<1>1. /\ players' = players /\ chatInfo' = chatInfo /\ client' = client /\ failed' = failed
      /\ netState' = netState /\ nextIdentifier' = nextIdentifier /\ ungathered' = ungathered
      /\ connected' = connected /\ joiner' = joiner /\ changes' = changes
      /\ mishaps' = mishaps /\ link' = link
      /\ \A t \in Stream : Pipe(link[t], down'[t], queues[t]) = Down(t)
      /\ out' \in Queues /\ down' \in Queues
  BY DEF Polls
<1>2. up' \in [Stream -> Seq(UpMessage)]  BY PollIs
<1>3. Types'  BY <1>1, <1>2 DEF IInv, Types, Queues
<1>4. Lists' /\ Dressed' /\ Unheard'
  BY <1>1 DEF IInv, Lists, Dressed, Unheard, Running
<1>5. \A t \in Stream : Down(t)' = Down(t)  BY <1>1 DEF Down
<1>6. \A t \in Stream :
        Whole(t, link'[t], (t \in connected)', Down(t)', Up(t)', client'[t], joiner'[t],
              netState', failed', players', Running', chatInfo')
  <2>1. \A t \in Stream :
          Whole(t, link[t], t \in connected, Down(t), Up(t)', client[t], joiner[t],
                netState, failed, players, Running, chatInfo)
    BY PollWhole
  <2>2. Running' = Running /\ \A t \in Stream : (t \in connected)' = (t \in connected)
    BY <1>1 DEF Running
  <2> QED  BY <1>1, <1>5, <2>1, <2>2
<1>7. Identifiers'
  <2>1. \A t \in Stream : \A id : Knows(Down(t), Up(t), joiner[t], id)' => HasId(t, id)
    <3> TAKE t \in Stream
    <3> TAKE id
    <3>1. Within(Up(t)', Up(t))  BY PollIs
    <3>2. Knows(Down(t)', Up(t)', joiner'[t], id) => Knows(Down(t), Up(t)', joiner[t], id)
      BY <1>1, <1>5
    <3>3. Knows(Down(t), Up(t)', joiner[t], id) => Knows(Down(t), Up(t), joiner[t], id)
      BY <3>1, KnowsWithin
    <3> QED  BY <3>2, <3>3 DEF HasId
  <2>2. \A t \in Stream : \A id : PlaysAs(t, players', id) => HasId(t, id)
    BY <1>1 DEF HasId
  <2>3. \A i \in DOMAIN players' : players'[i].stream = 0 => players'[i].id = 0
    BY <1>1 DEF IInv, Identifiers
  <2>4. \A t \in Stream : \A id \in Nat : HasId(t, id)' => HasId(t, id)
    BY <2>1, <2>2, IdsFrom
  <2> HIDE DEF IInv
  <2> QED  BY <1>1, <2>3, <2>4, SameIds
<1> QED  BY <1>3, <1>4, <1>6, <1>7, WholeTogether

\* handleJoinerInfo.
LEMMA JoinerInfoStep ==
  ASSUME IInv, NEW s \in Stream, NEW queues, Polls(s, queues), netState = "gathering",
         Head(up[s]).type = "joinerInfo", HandleJoinerInfo(s, queues)
  PROVE  IInv'
<1> DEFINE add == ClientInfo("add", s)
           cap == Capabilities(TRUE)
           q1 == Enqueue(queues, Chatting(client), <<add>>)
           q2 == Enqueue(q1, {s}, <<cap>>)
<1>1. /\ players' = players /\ failed' = failed
      /\ netState' = netState /\ nextIdentifier' = nextIdentifier /\ ungathered' = ungathered
      /\ connected' = connected /\ joiner' = joiner /\ changes' = changes
      /\ mishaps' = mishaps /\ link' = link
      /\ chatInfo' = chatInfo \cup {s} /\ out' = q2
      /\ client' = [client EXCEPT ![s] = "awaitingCapabilities"]
      /\ queues \in Queues /\ down' \in Queues
  BY DEF Polls, HandleJoinerInfo
<1>2. /\ client \in [Stream -> ClientState] /\ Types /\ Lists /\ Dressed /\ Unheard
      /\ chatInfo \in SUBSET (Stream \cup {0}) /\ \A t \in Stream : down'[t] \in Seq(DownMessage)
  BY <1>1 DEF IInv, Types, Queues
<1>3. /\ add \in DownMessage /\ cap \in DownMessage /\ cap.type = "capabilities"
      /\ <<add>> \in Seq(DownMessage) /\ <<cap>> \in Seq(DownMessage)
  <2>1. add \in DownMessage /\ cap \in DownMessage /\ cap.type = "capabilities"
    BY DEF ClientInfo, Capabilities, DownMessage
  <2> HIDE DEF add, cap
  <2> QED  BY <2>1
<1>4. up' \in [Stream -> Seq(UpMessage)]  BY PollIs
<1> HIDE DEF add, cap
<1>5. q1 \in Queues /\ q2 \in Queues
  <2>1. q1 \in Queues  BY <1>1, <1>3, EnqueueIs
  <2> HIDE DEF q1
  <2> QED  BY <1>3, <2>1, EnqueueIs
<1>6. ASSUME NEW t \in Stream
      PROVE  Down(t)' = IF t = s THEN Put(link[t], Pipe(link[t], down'[t], q1[t]), cap)
                        ELSE Pipe(link[t], down'[t], q1[t])
  <2>1. Down(t)' = Pipe(link[t], down'[t], q2[t])  BY <1>1 DEF Down
  <2>2. Pipe(link[t], down'[t], q2[t])
          = IF t \in {s} THEN Put(link[t], Pipe(link[t], down'[t], q1[t]), cap)
            ELSE Pipe(link[t], down'[t], q1[t])
    <3> HIDE DEF q1
    <3> QED  BY <1>2, <1>3, <1>5, PipeSent
  <2> QED  BY <2>1, <2>2
<1>7. ASSUME NEW t \in Stream
      PROVE  Pipe(link[t], down'[t], q1[t])
               = IF CanPregameChat(client[t]) THEN Put(link[t], Down(t), add) ELSE Down(t)
  <2>1. t \in Chatting(client) <=> CanPregameChat(client[t])  BY DEF Chatting
  <2>2. Pipe(link[t], down'[t], queues[t]) = Down(t)  BY DEF Polls
  <2> QED  BY <1>1, <1>2, <1>3, <2>1, <2>2, PipeSent
<1> HIDE DEF q1, q2
<1>8. /\ client[s] = "connecting" /\ joiner[s].handler # "awaitingHello"
      /\ \A k \in DOMAIN Up(s)' : ~Introduces(Up(s)', k)
  <2> DEFINE u == Up(s)
             v == Up(s)'
  <2>1. IntroducedOk(u, client[s], joiner[s])  BY DEF IInv, Introduced
  <2>2. u # <<>> /\ u \in Seq(UpMessage) /\ v = Tail(u) /\ Head(u).type = "joinerInfo"
    BY PollIs
  <2> HIDE DEF u, v
  <2>3. /\ 1 \in DOMAIN u /\ Introduces(u, 1)
        /\ \A k \in DOMAIN v : k + 1 \in DOMAIN u /\ v[k] = u[k + 1] /\ k + 1 # 1
    BY <2>2, Behind DEF Introduces
  <2>4. \A k \in DOMAIN v : ~Introduces(v, k)
    BY <2>1, <2>3 DEF IntroducedOk, Introduces
  <2> QED  BY <2>1, <2>3, <2>4 DEF IntroducedOk, v
<1>9. /\ s \notin chatInfo /\ client'[s] = "awaitingCapabilities"
      /\ \A t \in Stream : t # s => client'[t] = client[t]
  BY <1>1, <1>2, <1>8 DEF Unheard
<1>10. client' \in [Stream -> ClientState]  BY <1>1, <1>2 DEF ClientState
<1>11. Types'
  <2>1. chatInfo' \in SUBSET (Stream \cup {0}) /\ out' \in [Stream -> Seq(DownMessage)]
        /\ down' \in [Stream -> Seq(DownMessage)]
    BY <1>1, <1>2, <1>5 DEF Queues
  <2> QED  BY <1>1, <1>2, <1>4, <1>10, <2>1 DEF Types
<1>12. Lists'
  <2>1. \A t \in Stream : /\ client'[t] = "connected" <=> client[t] = "connected"
                          /\ client'[t] = "none" <=> client[t] = "none"
                          /\ client'[t] = "awaitingMap" <=> client[t] = "awaitingMap"
                          /\ client'[t] = "ingame" <=> client[t] = "ingame"
                          /\ client'[t] \in In <=> client[t] \in In
    <3> TAKE t \in Stream
    <3>1. client[s] = "connecting" /\ client'[s] = "awaitingCapabilities"  BY <1>8, <1>9
    <3>2. CASE t = s  BY <3>1, <3>2 DEF In
    <3>3. CASE t # s
      <4>1. client'[t] = client[t]  BY <1>9, <3>3
      <4> QED  BY <4>1
    <3> QED  BY <3>2, <3>3
  <2> QED  BY <1>1, <1>2, <2>1 DEF Lists, Running
<1>13. Dressed'  BY <1>1, <1>2 DEF Dressed
<1>14. Unheard'
  <2>1. link[s] # "none"  BY PollIs
  <2> QED  BY <1>1, <1>2, <1>9, <2>1 DEF Unheard
<1>15. ASSUME NEW t \in Stream
       PROVE  /\ Whole(t, link[t], t \in connected, Down(t)', Up(t)', client'[t], joiner[t],
                       netState, failed, players, Running, chatInfo')
              /\ \A id : Knows(Down(t)', Up(t)', joiner[t], id) =>
                           Knows(Down(t), Up(t), joiner[t], id)
  <2> DEFINE l == link[t]
             listed == t \in connected
             d == Down(t)
             e == Down(t)'
             u == Up(t)
             v == Up(t)'
             c == client[t]
             cNow == client'[t]
             j == joiner[t]
             running == Running
             infoNow == chatInfo'
  <2>1. /\ v \in Seq(UpMessage) /\ Within(v, u) /\ (~listed => v = <<>>)
        /\ (l = "none" => c = "none")
    BY PollIs
  <2>2. CASE t = s
    <3>1. Whole(t, l, listed, d, u, c, j, netState, failed, players, running, chatInfo)
      BY OfWhole
    <3>2. cNow = "awaitingCapabilities" /\ c = "connecting"
      <4>1. client[s] = "connecting" /\ client'[s] = "awaitingCapabilities"  BY <1>8, <1>9
      <4> QED  BY <2>2, <4>1
    <3>3. Moves(c, cNow, v, j)  BY <1>8, <2>2, <3>2 DEF Moves, In, Asked
    <3>4. e = Put(l, d, cap)  BY <1>6, <1>7, <2>2, <3>2 DEF CanPregameChat
    <3>5. l # "none" /\ cNow # "none" /\ cNow \notin In /\ ~CanPregameChat(cNow)
          /\ ~CanPregameChat(c)
      BY <2>2, <3>2, PollIs DEF CanPregameChat, In
    <3> HIDE DEF l, listed, d, e, u, v, c, cNow, j, running, infoNow, IInv
    <3>6. Whole(t, l, listed, d, v, cNow, j, netState, failed, players, running, infoNow)
      BY <2>1, <3>1, <3>2, <3>3, <3>5, WholeMoves
    <3>7. /\ Whole(t, l, listed, e, v, cNow, j, netState, failed, players, running, infoNow)
          /\ \A id : Knows(e, v, j, id) => Knows(d, v, j, id)
      BY <1>3, <3>4, <3>6, WholeQuiet
    <3>8. \A id : Knows(e, v, j, id) => Knows(d, u, j, id)
      BY <2>1, <3>7, KnowsWithin
    <3> QED  BY <3>7, <3>8 DEF l, listed, d, e, u, v, c, cNow, j, running, infoNow
  <2>3. CASE t # s
    <3>1. Whole(t, l, listed, d, v, c, j, netState, failed, players, running, chatInfo)
      BY <2>3, PollWhole
    <3>2. cNow = c  BY <1>9, <2>3
    <3>3. e = IF CanPregameChat(c) THEN Put(l, d, ClientInfo("add", s)) ELSE d
      BY <1>6, <1>7, <2>3 DEF add
    <3>4. \A r \in Anybody : r \in infoNow <=> IF r = s THEN "add" # "remove" ELSE r \in chatInfo
      BY <1>1
    <3>5. s \in Anybody /\ s \notin chatInfo  BY <1>9 DEF Anybody
    <3> HIDE DEF l, listed, d, e, u, v, c, cNow, j, running, infoNow, IInv
    <3>6. /\ Whole(t, l, listed, e, v, c, j, netState, failed, players, running, infoNow)
          /\ \A id : Knows(e, v, j, id) => Knows(d, v, j, id)
      BY <3>1, <3>3, <3>4, <3>5, WholeInfo DEF KnownBefore
    <3>7. \A id : Knows(e, v, j, id) => Knows(d, u, j, id)
      BY <2>1, <3>6, KnowsWithin
    <3> QED  BY <3>2, <3>6, <3>7 DEF l, listed, d, e, u, v, c, cNow, j, running, infoNow
  <2> QED  BY <2>2, <2>3
<1>16. Running' = Running /\ \A t \in Stream : (t \in connected)' = (t \in connected)
  BY <1>1 DEF Running
<1>17. \A t \in Stream :
        Whole(t, link'[t], (t \in connected)', Down(t)', Up(t)', client'[t], joiner'[t],
              netState', failed', players', Running', chatInfo')
  BY <1>1, <1>15, <1>16
<1>18. Identifiers'
  <2>1. \A t \in Stream : \A id : Knows(Down(t), Up(t), joiner[t], id)' => HasId(t, id)
    BY <1>1, <1>15 DEF HasId
  <2>2. \A t \in Stream : \A id : PlaysAs(t, players', id) => HasId(t, id)
    BY <1>1 DEF HasId
  <2>3. \A i \in DOMAIN players' : players'[i].stream = 0 => players'[i].id = 0
    BY <1>1 DEF IInv, Identifiers
  <2>4. \A t \in Stream : \A id \in Nat : HasId(t, id)' => HasId(t, id)
    BY <2>1, <2>2, IdsFrom
  <2>5. \A t \in Stream : client[t] \in Invited => client'[t] \in Invited
    BY <1>8, <1>9 DEF Invited
  <2> HIDE DEF IInv
  <2> QED  BY <1>1, <2>3, <2>4, <2>5, SameIds
<1> QED  BY <1>11, <1>12, <1>13, <1>14, <1>17, <1>18, WholeTogether

\* No identifier is told, and who plays had his before.
LEMMA KeptIds ==
  ASSUME IInv, nextIdentifier' = nextIdentifier,
         \A t \in Stream : client[t] \in Invited => client'[t] \in Invited,
         \A t \in Stream : \A id : Knows(Down(t)', Up(t)', joiner'[t], id)
                                     => Knows(Down(t), Up(t), joiner[t], id),
         \A t \in Stream : \A id : PlaysAs(t, players', id) => HasId(t, id),
         \A i \in DOMAIN players' : players'[i].stream = 0 => players'[i].id = 0
  PROVE  Identifiers'
<1>1. \A t \in Stream : \A id : Knows(Down(t), Up(t), joiner[t], id)' => HasId(t, id)
  BY DEF HasId
<1>2. \A t \in Stream : \A id \in Nat : HasId(t, id)' => HasId(t, id)
  BY <1>1, IdsFrom
<1> HIDE DEF IInv
<1> QED  BY <1>2, SameIds

\* handleCapabilities, of a client that is expected to tell them.
LEMMA CapabilitiesStep ==
  ASSUME IInv, NEW s \in Stream, NEW queues, Polls(s, queues),
         client[s] = "awaitingCapabilities",
         NEW cNow \in {"notYetShown", "ungatherable"},
         client' = [client EXCEPT ![s] = cNow], out' = Enqueue(queues, {s}, AllInfo),
         UNCHANGED <<players, chatInfo, failed>>
  PROVE  IInv'
<1> DEFINE q == AllInfo
<1>1. /\ players' = players /\ failed' = failed /\ chatInfo' = chatInfo
      /\ netState' = netState /\ nextIdentifier' = nextIdentifier /\ ungathered' = ungathered
      /\ connected' = connected /\ joiner' = joiner /\ changes' = changes
      /\ mishaps' = mishaps /\ link' = link
      /\ out' = Enqueue(queues, {s}, q)
      /\ queues \in Queues /\ down' \in Queues
      /\ s \in connected
  BY DEF Polls
<1>2. /\ client \in [Stream -> ClientState] /\ Types /\ Lists /\ Dressed /\ Unheard
      /\ chatInfo \in SUBSET (Stream \cup {0})
      /\ \A t \in Stream : down'[t] \in Seq(DownMessage) /\ queues[t] \in Seq(DownMessage)
  BY <1>1 DEF IInv, Types, Queues
<1>3. Listing(q, chatInfo) /\ q \in Seq(DownMessage) /\ chatInfo \in SUBSET Anybody
  BY <1>2, AllInfoLists DEF Listing, Anybody
<1> HIDE DEF q
<1>4. up' \in [Stream -> Seq(UpMessage)]  BY PollIs
<1>5. out' \in Queues /\ \A t \in Stream : out'[t] = IF t = s THEN queues[t] \o q ELSE queues[t]
  <2>1. /\ Enqueue(queues, {s}, q) \in Queues
        /\ \A t \in Stream : Enqueue(queues, {s}, q)[t] =
             IF t \in {s} /\ t \in connected THEN queues[t] \o q ELSE queues[t]
    BY <1>1, <1>3, EnqueueIs
  <2> QED  BY <1>1, <2>1
<1>6. ASSUME NEW t \in Stream
      PROVE  Down(t)' = IF t = s THEN Pipe(link[t], Down(t), q) ELSE Down(t)
  <2>1. Down(t)' = Pipe(link[t], down'[t], out'[t])  BY <1>1 DEF Down
  <2>2. Pipe(link[t], down'[t], queues[t]) = Down(t)  BY DEF Polls
  <2>3. Pipe(link[t], down'[t], queues[t] \o q)
          = Pipe(link[t], Pipe(link[t], down'[t], queues[t]), q)
    BY <1>2, <1>3, PipeConcat
  <2> QED  BY <1>5, <2>1, <2>2, <2>3
<1>7. /\ \A t \in Stream : t # s => client'[t] = client[t]
      /\ client'[s] = cNow /\ client' \in [Stream -> ClientState]
  BY <1>2 DEF ClientState
<1>8. Types'
  <2>1. out' \in [Stream -> Seq(DownMessage)] /\ down' \in [Stream -> Seq(DownMessage)]
    BY <1>1, <1>5 DEF Queues
  <2> QED  BY <1>1, <1>2, <1>4, <1>7, <2>1 DEF Types
<1>9. Lists'
  <2>1. \A t \in Stream : /\ client'[t] = "connected" <=> client[t] = "connected"
                          /\ client'[t] = "none" <=> client[t] = "none"
                          /\ client'[t] = "awaitingMap" <=> client[t] = "awaitingMap"
                          /\ client'[t] = "ingame" <=> client[t] = "ingame"
                          /\ client'[t] \in In <=> client[t] \in In
    BY <1>7 DEF In
  <2> QED  BY <1>1, <1>2, <2>1 DEF Lists, Running
<1>10. Dressed' /\ Unheard'  BY <1>1, <1>2, <1>7 DEF Dressed, Unheard
<1>11. ASSUME NEW t \in Stream
       PROVE  /\ Whole(t, link[t], t \in connected, Down(t)', Up(t)', client'[t], joiner[t],
                       netState, failed, players, Running, chatInfo)
              /\ \A id : Knows(Down(t)', Up(t)', joiner[t], id) =>
                           Knows(Down(t), Up(t), joiner[t], id)
  <2> DEFINE l == link[t]
             listed == t \in connected
             d == Down(t)
             e == Down(t)'
             u == Up(t)
             v == Up(t)'
             j == joiner[t]
             running == Running
  <2>1. v \in Seq(UpMessage) /\ Within(v, u)  BY PollIs
  <2>2. CASE t = s
    <3>1. Whole(t, l, listed, d, u, "awaitingCapabilities", j, netState, failed, players,
                running, chatInfo)
      BY <2>2, OfWhole
    <3>2. e = Pipe(l, d, q) /\ listed /\ l # "none"  BY <1>1, <1>6, <2>2, PollIs
    <3> HIDE DEF l, listed, d, e, u, v, j, running, IInv
    <3>3. /\ Whole(t, l, listed, e, v, cNow, j, netState, failed, players, running, chatInfo)
          /\ \A id : Knows(e, v, j, id) => Knows(d, u, j, id)
      <4>1. /\ listed /\ l # "none" /\ v \in Seq(UpMessage) /\ Within(v, u) /\ e = Pipe(l, d, q)
            /\ Listing(q, chatInfo) /\ chatInfo \in SUBSET Anybody
        BY <1>3, <2>1, <3>2
      <4>2. Whole(t, l, listed, Pipe(l, d, q), v, cNow, j, netState, failed, players, running,
                  chatInfo)
        BY <3>1, <4>1, WholeListens
      <4>3. KnownBefore(Pipe(l, d, q), v, d, u, j)  BY <3>1, <4>1, WholeListens
      <4> QED  BY <4>1, <4>2, <4>3 DEF KnownBefore
    <3> QED  BY <1>7, <2>2, <3>3 DEF l, listed, d, e, u, v, j, running
  <2>3. CASE t # s
    <3>1. Whole(t, l, listed, d, v, client[t], j, netState, failed, players, running, chatInfo)
      BY <2>3, PollWhole
    <3>2. client'[t] = client[t] /\ e = d  BY <1>6, <1>7, <2>3
    <3>3. \A id : Knows(d, v, j, id) => Knows(d, u, j, id)  BY <2>1, KnowsWithin
    <3> QED  BY <3>1, <3>2, <3>3
  <2> QED  BY <2>2, <2>3
<1>12. Running' = Running /\ \A t \in Stream : (t \in connected)' = (t \in connected)
  BY <1>1 DEF Running
<1>13. \A t \in Stream :
        Whole(t, link'[t], (t \in connected)', Down(t)', Up(t)', client'[t], joiner'[t],
              netState', failed', players', Running', chatInfo')
  BY <1>1, <1>11, <1>12
<1>14. Identifiers'
  <2>1. \A t \in Stream : \A id : PlaysAs(t, players', id) => HasId(t, id)
    BY <1>1 DEF HasId
  <2>2. \A i \in DOMAIN players' : players'[i].stream = 0 => players'[i].id = 0
    BY <1>1 DEF IInv, Identifiers
  <2>3. \A t \in Stream : client[t] \in Invited => client'[t] \in Invited
    BY <1>7 DEF Invited
  <2>4. \A t \in Stream : \A id : Knows(Down(t)', Up(t)', joiner'[t], id)
                                    => Knows(Down(t), Up(t), joiner[t], id)
    BY <1>1, <1>11
  <2> HIDE DEF IInv
  <2> QED  BY <1>1, <2>1, <2>2, <2>3, <2>4, KeptIds
<1> QED  BY <1>8, <1>9, <1>10, <1>13, <1>14, WholeTogether

\* One more player, at the end.
LEMMA JoinedPlayers ==
  ASSUME NEW ps \in Seq(Player), 1 <= Len(ps), ps[1].stream = 0, NEW p \in Player,
         NEW psNow, SamePlayers(Append(ps, p), psNow),
         \A i, k \in DOMAIN ps : ps[i].stream = ps[k].stream => i = k, ~Plays(p.stream, ps)
  PROVE  /\ psNow \in Seq(Player) /\ Len(psNow) = Len(ps) + 1 /\ psNow[1].stream = 0
         /\ \A i, k \in DOMAIN psNow : psNow[i].stream = psNow[k].stream => i = k
         /\ \A t : Plays(t, psNow) <=> t = p.stream \/ Plays(t, ps)
         /\ \A t, id : PlaysAs(t, psNow, id) => PlaysAs(t, ps, id) \/ (t = p.stream /\ id = p.id)
         /\ \A i \in DOMAIN psNow : i \in DOMAIN ps \/ psNow[i].stream = p.stream
         /\ \A i \in DOMAIN ps : psNow[i].stream = ps[i].stream /\ psNow[i].id = ps[i].id
<1> DEFINE joined == Append(ps, p)
           n == Len(ps)
<1>1. /\ joined \in Seq(Player) /\ Len(joined) = n + 1 /\ joined[n + 1] = p
      /\ \A i \in 1 .. n : joined[i] = ps[i]
      /\ n \in Nat /\ DOMAIN ps = 1 .. n /\ 1 <= n
  OBVIOUS
<1>2. SamePlayers(joined, psNow)  OBVIOUS
<1> HIDE DEF joined, n
<1>3. /\ psNow \in Seq(Player) /\ Len(psNow) = n + 1 /\ DOMAIN psNow = 1 .. (n + 1)
      /\ \A i \in 1 .. n : psNow[i].stream = ps[i].stream /\ psNow[i].id = ps[i].id
      /\ psNow[n + 1].stream = p.stream /\ psNow[n + 1].id = p.id
  BY <1>1, <1>2 DEF SamePlayers
<1>4. \A i \in 1 .. (n + 1) : i \in 1 .. n \/ i = n + 1  BY <1>1
<1>5. \A i, k \in DOMAIN psNow : psNow[i].stream = psNow[k].stream => i = k
  BY <1>1, <1>3, <1>4 DEF Plays
<1>6. \A i \in 1 .. n : i \in 1 .. (n + 1)  BY <1>1
<1>7. n + 1 \in 1 .. (n + 1) /\ 1 \in 1 .. n  BY <1>1
<1>8. \A t : Plays(t, psNow) <=> t = p.stream \/ Plays(t, ps)
  BY <1>1, <1>3, <1>4, <1>6, <1>7 DEF Plays
<1>9. \A t, id : PlaysAs(t, psNow, id) => PlaysAs(t, ps, id) \/ (t = p.stream /\ id = p.id)
  BY <1>1, <1>3, <1>4 DEF PlaysAs
<1>10. psNow[1].stream = 0  BY <1>3, <1>7
<1> QED  BY <1>1, <1>3, <1>4, <1>5, <1>8, <1>9, <1>10 DEF n

\* handleAcceptJoinMessage, of a client that was asked, while there is room.
LEMMA AcceptJoinStep ==
  ASSUME IInv, NEW s \in Stream, NEW queues, Polls(s, queues),
         client[s] = "awaitingAcceptJoin", Head(up[s]).type = "acceptJoin",
         netState = "gathering", Len(players) < MaxPlayers,
         players' = Reassigned(Append(players, NetPlayer(s, Head(up[s]).id, Head(up[s]).look))),
         out' = Distribute(Enqueue(queues, {s}, <<GameSession>>), "newPlayer", players'),
         client' = [client EXCEPT ![s] = "awaitingMap"], UNCHANGED <<chatInfo, failed>>
  PROVE  IInv'
<1> DEFINE m == Head(up[s])
           p == NetPlayer(s, m.id, m.look)
           ps == players'
           g == GameSession
           o == Topology("newPlayer", ps)
           q1 == Enqueue(queues, {s}, <<g>>)
<1>1. /\ failed' = failed /\ chatInfo' = chatInfo
      /\ netState' = netState /\ nextIdentifier' = nextIdentifier /\ ungathered' = ungathered
      /\ connected' = connected /\ joiner' = joiner /\ changes' = changes
      /\ mishaps' = mishaps /\ link' = link /\ Running
      /\ out' = Enqueue(q1, Streams(ps), <<o>>)
      /\ queues \in Queues /\ down' \in Queues
  BY DEF Polls, Distribute
<1>2. /\ client \in [Stream -> ClientState] /\ Types /\ Lists /\ Dressed /\ Unheard
      /\ \A t \in Stream : down'[t] \in Seq(DownMessage)
  BY <1>1 DEF IInv, Types, Queues
<1>3. /\ players \in Seq(Player) /\ 1 <= Len(players) /\ Len(players) \in Nat
      /\ players[1].stream = 0
      /\ \A i, k \in DOMAIN players : players[i].stream = players[k].stream => i = k
      /\ \A t \in Stream : Plays(t, players) <=> client[t] \in In
      /\ MaxPlayers <= NumColors /\ MaxPlayers \in Nat /\ NumColors \in Nat
  BY <1>1, PlayersAre
<1>4. m \in UpMessage /\ m.type = "acceptJoin"  BY PollIs
<1> HIDE DEF m
<1>5. p \in Player /\ p.stream = s /\ p.id = m.id /\ m.id \in Nat
  <2>1. m.id \in Nat /\ m.look \in Look  BY <1>4 DEF UpMessage
  <2> QED  BY <2>1 DEF NetPlayer, Player, Look
<1>6. ps = Reassigned(Append(players, p))  BY DEF m
<1> HIDE DEF p, ps
<1>7. SamePlayers(Append(players, p), ps) /\ Differ(ps)
  <2>1. Append(players, p) \in Seq(Player) /\ Len(Append(players, p)) <= NumColors
    BY <1>3, <1>5
  <2> QED  BY <1>6, <2>1, Recolored
<1>8. ~Plays(s, players)  BY <1>3 DEF In
<1>9. /\ ps \in Seq(Player) /\ Len(ps) = Len(players) + 1 /\ ps[1].stream = 0
      /\ \A i, k \in DOMAIN ps : ps[i].stream = ps[k].stream => i = k
      /\ \A t : Plays(t, ps) <=> t = s \/ Plays(t, players)
      /\ \A t, id : PlaysAs(t, ps, id) => PlaysAs(t, players, id) \/ (t = s /\ id = m.id)
      /\ \A i \in DOMAIN ps : i \in DOMAIN players \/ ps[i].stream = s
      /\ \A i \in DOMAIN players : ps[i].stream = players[i].stream /\ ps[i].id = players[i].id
  BY <1>3, <1>5, <1>7, <1>8, JoinedPlayers
<1>10. \A t \in Stream : t \in Streams(ps) <=> t = s \/ client[t] \in In
  <2>1. 1 <= Len(ps)  BY <1>3, <1>9
  <2> QED  BY <1>3, <1>9, <2>1, InStreams
<1>11. /\ g \in DownMessage /\ o \in DownMessage
       /\ <<g>> \in Seq(DownMessage) /\ <<o>> \in Seq(DownMessage)
  <2>1. g \in DownMessage /\ o \in DownMessage
    BY <1>9 DEF GameSession, Topology, DownMessage
  <2> HIDE DEF g, o
  <2> QED  BY <2>1
<1>12. up' \in [Stream -> Seq(UpMessage)]  BY PollIs
<1> HIDE DEF g, o
<1>13. q1 \in Queues /\ out' \in Queues
  <2>1. q1 \in Queues  BY <1>1, <1>11, EnqueueIs
  <2> HIDE DEF q1
  <2>2. Enqueue(q1, Streams(ps), <<o>>) \in Queues  BY <1>11, <2>1, EnqueueIs
  <2> QED  BY <1>1, <2>1, <2>2
<1>14. ASSUME NEW t \in Stream
       PROVE  Down(t)' = IF t = s THEN Put(link[t], Put(link[t], Down(t), g), o)
                         ELSE IF client[t] \in In THEN Put(link[t], Down(t), o) ELSE Down(t)
  <2>1. Down(t)' = Pipe(link[t], down'[t], out'[t])  BY <1>1 DEF Down
  <2>2. Pipe(link[t], down'[t], q1[t])
          = IF t \in {s} THEN Put(link[t], Pipe(link[t], down'[t], queues[t]), g)
            ELSE Pipe(link[t], down'[t], queues[t])
    BY <1>1, <1>2, <1>11, PipeSent
  <2>3. Pipe(link[t], down'[t], queues[t]) = Down(t)  BY DEF Polls
  <2>4. Pipe(link[t], down'[t], out'[t])
          = IF t \in Streams(ps) THEN Put(link[t], Pipe(link[t], down'[t], q1[t]), o)
            ELSE Pipe(link[t], down'[t], q1[t])
    <3> HIDE DEF q1
    <3> QED  BY <1>1, <1>2, <1>11, <1>13, PipeSent
  <2> QED  BY <1>10, <2>1, <2>2, <2>3, <2>4
<1> HIDE DEF q1
<1>15. /\ \A t \in Stream : t # s => client'[t] = client[t]
       /\ client'[s] = "awaitingMap" /\ client' \in [Stream -> ClientState]
  BY <1>2 DEF ClientState
<1>16. Types'
  <2>1. out' \in [Stream -> Seq(DownMessage)] /\ down' \in [Stream -> Seq(DownMessage)]
        /\ players' \in Seq(Player)
    BY <1>1, <1>9, <1>13 DEF Queues, ps
  <2> QED  BY <1>1, <1>2, <1>12, <1>15, <2>1 DEF Types
<1>17. Lists'
  <2>1. \A t \in Stream : /\ client'[t] = "connected" <=> client[t] = "connected"
                          /\ client'[t] = "none" <=> client[t] = "none"
                          /\ client'[t] = "awaitingMap" <=> t = s \/ client[t] = "awaitingMap"
                          /\ client'[t] = "ingame" <=> client[t] = "ingame"
                          /\ client'[t] \in In <=> t = s \/ client[t] \in In
    BY <1>15 DEF In
  <2>2. 1 <= Len(ps) /\ Len(ps) <= MaxPlayers  BY <1>3, <1>9
  <2>3. \A t \in Stream : Plays(t, ps) <=> client'[t] \in In  BY <1>3, <1>9, <2>1
  <2>4. /\ 1 <= Len(players)' /\ Len(players)' <= MaxPlayers /\ players'[1].stream = 0
        /\ \A i, k \in DOMAIN players' : players'[i].stream = players'[k].stream => i = k
        /\ \A t \in Stream : Plays(t, players') <=> client'[t] \in In
    BY <1>9, <2>2, <2>3 DEF ps
  <2> QED  BY <1>1, <1>2, <2>1, <2>4 DEF Lists, Running
<1>18. Dressed'  BY <1>7 DEF Dressed, Differ, ps
<1>19. Unheard'  BY <1>1, <1>2, <1>15 DEF Unheard
<1>20. ASSUME NEW t \in Stream
       PROVE  /\ Whole(t, link[t], t \in connected, Down(t)', Up(t)', client'[t], joiner[t],
                       netState, failed, ps, Running, chatInfo)
              /\ \A id : Knows(Down(t)', Up(t)', joiner[t], id) =>
                           Knows(Down(t), Up(t), joiner[t], id)
  <2> DEFINE l == link[t]
             listed == t \in connected
             d == Down(t)
             e == Down(t)'
             u == Up(t)
             v == Up(t)'
             c == client[t]
             cNow == client'[t]
             j == joiner[t]
             running == Running
  <2>1. v \in Seq(UpMessage) /\ Within(v, u) /\ netState # "active"  BY PollIs
  <2>2. CASE t = s
    <3>1. Whole(t, l, listed, d, u, "awaitingAcceptJoin", j, netState, failed, players,
                running, chatInfo)
      BY <2>2, OfWhole
    <3>2. e = Put(l, Put(l, d, GameSession), Topology("newPlayer", ps))
      BY <1>14, <2>2 DEF g, o
    <3>3. listed /\ l # "none" /\ u # <<>> /\ Accepts(Head(u)) /\ v = Tail(u)
      BY <1>4, <2>2, PollIs DEF Polls, Accepts, m
    <3> HIDE DEF l, listed, d, e, u, v, c, cNow, j, running, IInv
    <3>4. /\ Whole(t, l, listed, e, Tail(u), "awaitingMap", j, netState, failed, ps, running,
                   chatInfo)
          /\ \A id : Knows(e, Tail(u), j, id) => Knows(d, u, j, id)
      <4>1. /\ listed /\ l # "none" /\ u # <<>> /\ Accepts(Head(u)) /\ netState # "active"
            /\ ps \in Seq(Player)
        BY <1>9, <2>1, <3>3
      <4>2. Whole(t, l, listed, e, Tail(u), "awaitingMap", j, netState, failed, ps, running,
                  chatInfo)
        BY <3>1, <3>2, <4>1, WholeJoins
      <4>3. KnownBefore(e, Tail(u), d, u, j)  BY <3>1, <3>2, <4>1, WholeJoins
      <4> QED  BY <4>2, <4>3 DEF KnownBefore
    <3>5. cNow = "awaitingMap"  BY <1>15, <2>2 DEF cNow
    <3>6. /\ Whole(t, l, listed, e, v, cNow, j, netState, failed, ps, running, chatInfo)
          /\ \A id : Knows(e, v, j, id) => Knows(d, u, j, id)
      BY <3>3, <3>4, <3>5
    <3> QED  BY <3>6 DEF l, listed, d, e, u, v, c, cNow, j, running
  <2>3. CASE t # s
    <3>1. Whole(t, l, listed, d, v, c, j, netState, failed, players, running, chatInfo)
      BY <2>3, PollWhole
    <3>2. cNow = c /\ e = IF c \in In THEN Put(l, d, Topology("newPlayer", ps)) ELSE d
      BY <1>14, <1>15, <2>3 DEF o
    <3>3. "newPlayer" \in {"newPlayer", "droppedPlayer", "changedPlayer"}  OBVIOUS
    <3> HIDE DEF l, listed, d, e, u, v, c, cNow, j, running, IInv
    <3>4. /\ Whole(t, l, listed, e, v, c, j, netState, failed, ps, running, chatInfo)
          /\ \A id : Knows(e, v, j, id) => Knows(d, v, j, id)
      BY <1>9, <2>1, <3>1, <3>2, <3>3, WholeTopology
    <3>5. \A id : Knows(e, v, j, id) => Knows(d, u, j, id)
      BY <2>1, <3>4, KnowsWithin
    <3> QED  BY <3>2, <3>4, <3>5 DEF l, listed, d, e, u, v, c, cNow, j, running
  <2> QED  BY <2>2, <2>3
<1>21. Running' = Running /\ \A t \in Stream : (t \in connected)' = (t \in connected)
  BY <1>1 DEF Running
<1>22. \A t \in Stream :
        Whole(t, link'[t], (t \in connected)', Down(t)', Up(t)', client'[t], joiner'[t],
              netState', failed', players', Running', chatInfo')
  BY <1>1, <1>20, <1>21 DEF ps
<1>23. Identifiers'
  <2>1. HasId(s, m.id)
    <3> DEFINE u == Up(s)
    <3>1. u # <<>> /\ Head(u) = m /\ u \in Seq(UpMessage)  BY PollIs DEF m
    <3> HIDE DEF u
    <3>2. 1 \in DOMAIN u /\ u[1] = m  BY <3>1, Behind
    <3>3. AcceptsAs(u[1], m.id)  BY <1>4, <3>2 DEF AcceptsAs
    <3> QED  BY <3>2, <3>3 DEF HasId, Knows, u
  <2>2. \A t \in Stream : \A id : PlaysAs(t, players', id) => HasId(t, id)
    BY <1>9, <2>1 DEF HasId, ps
  <2>3. \A i \in DOMAIN players' : players'[i].stream = 0 => players'[i].id = 0
    <3>1. s # 0  BY GatheringAssumption DEF Stream
    <3>2. \A i \in DOMAIN players : players[i].stream = 0 => players[i].id = 0
      BY DEF IInv, Identifiers
    <3> QED  BY <1>9, <3>1, <3>2 DEF ps
  <2>4. \A t \in Stream : client[t] \in Invited => client'[t] \in Invited
    BY <1>15 DEF Invited
  <2>5. \A t \in Stream : \A id : Knows(Down(t)', Up(t)', joiner'[t], id)
                                    => Knows(Down(t), Up(t), joiner[t], id)
    BY <1>1, <1>20
  <2> HIDE DEF IInv
  <2> QED  BY <1>1, <2>2, <2>3, <2>4, <2>5, KeptIds
<1> QED  BY <1>16, <1>17, <1>18, <1>19, <1>22, <1>23, WholeTogether

\* Nobody comes, goes or learns an identifier, and the players stay who they
\* are.
LEMMA SameClients ==
  ASSUME IInv, Running,
         UNCHANGED <<netState, nextIdentifier, ungathered, chatInfo, client, connected, failed,
                     link, joiner, mishaps>>,
         changes' \in Nat, out' \in Queues, down' \in Queues,
         up' \in [Stream -> Seq(UpMessage)],
         SamePlayers(players, players'), Differ(players'),
         \A t \in Stream :
           /\ Whole(t, link[t], t \in connected, Down(t)', Up(t)', client[t], joiner[t],
                    netState, failed, players', Running, chatInfo)
           /\ \A id : Knows(Down(t)', Up(t)', joiner[t], id) => Knows(Down(t), Up(t), joiner[t], id)
  PROVE  IInv'
<1>1. /\ netState' = netState /\ nextIdentifier' = nextIdentifier /\ ungathered' = ungathered
      /\ chatInfo' = chatInfo /\ client' = client /\ connected' = connected
      /\ failed' = failed /\ link' = link /\ joiner' = joiner /\ mishaps' = mishaps
      /\ Types /\ Lists /\ Unheard
  BY DEF IInv
<1> DEFINE ps == players'
<1>2. players \in Seq(Player) /\ SamePlayers(players, ps) /\ Differ(ps)
  BY <1>1 DEF Types
<1> HIDE DEF ps
<1>3. /\ DOMAIN ps = DOMAIN players /\ \A t : Plays(t, ps) <=> Plays(t, players)
      /\ \A t, id : PlaysAs(t, ps, id) <=> PlaysAs(t, players, id)
      /\ \A i \in DOMAIN ps : ps[i].stream = players[i].stream /\ ps[i].id = players[i].id
  BY <1>2, SameRoster
<1>4. ps \in Seq(Player) /\ Len(ps) = Len(players)  BY <1>2 DEF SamePlayers
<1>5. Types'  BY <1>1, <1>4 DEF Types, Queues, ps
<1>6. Lists'
  <2>1. /\ 1 <= Len(players) /\ Len(players) <= MaxPlayers /\ players[1].stream = 0
        /\ 1 \in DOMAIN players
        /\ \A i, k \in DOMAIN players : players[i].stream = players[k].stream => i = k
        /\ \A t \in Stream : Plays(t, players) <=> client[t] \in In
    BY PlayersAre
  <2>2. /\ 1 <= Len(players') /\ Len(players') <= MaxPlayers /\ players'[1].stream = 0
        /\ \A i, k \in DOMAIN players' : players'[i].stream = players'[k].stream => i = k
        /\ \A t \in Stream : Plays(t, players') <=> client[t] \in In
    BY <1>3, <1>4, <2>1 DEF ps
  <2>3. netState # "uninitialized"  BY DEF Running
  <2> QED  BY <1>1, <2>2, <2>3 DEF Lists, Running
<1>7. Dressed'  BY <1>2 DEF Dressed, Differ, ps
<1>8. Unheard'  BY <1>1 DEF Unheard
<1>9. Running' = Running /\ \A t \in Stream : (t \in connected)' = (t \in connected)
  BY <1>1 DEF Running
<1>10. \A t \in Stream :
        Whole(t, link'[t], (t \in connected)', Down(t)', Up(t)', client'[t], joiner'[t],
              netState', failed', players', Running', chatInfo')
  BY <1>1, <1>9
<1>11. Identifiers'
  <2>1. \A t \in Stream : \A id : PlaysAs(t, players', id) => HasId(t, id)
    BY <1>3 DEF HasId, ps
  <2>2. \A i \in DOMAIN players' : players'[i].stream = 0 => players'[i].id = 0
    BY <1>3 DEF IInv, Identifiers, ps
  <2>3. \A t \in Stream : client[t] \in Invited => client'[t] \in Invited
    BY <1>1
  <2>4. \A t \in Stream : \A id : Knows(Down(t)', Up(t)', joiner'[t], id)
                                    => Knows(Down(t), Up(t), joiner[t], id)
    BY <1>1
  <2> HIDE DEF IInv
  <2> QED  BY <1>1, <2>1, <2>2, <2>3, <2>4, KeptIds
<1> QED  BY <1>5, <1>6, <1>7, <1>8, <1>10, <1>11, WholeTogether

\* The place of a player in the topology.
LEMMA IndexIs ==
  ASSUME NEW t \in Streams(players)
  PROVE  IndexOf(t) \in DOMAIN players /\ players[IndexOf(t)].stream = t
<1>1. \E i \in DOMAIN players : players[i].stream = t  BY DEF Streams
<1> QED  BY <1>1, Zenon DEF IndexOf

\* handleChangeColorsMessage.
LEMMA ChangeColorsStep ==
  ASSUME IInv, NEW s \in Stream, NEW queues, Polls(s, queues), NEW m, m = Head(up[s]),
         m.type = "changeColors", HandleChangeColors(s, m, queues)
  PROVE  IInv'
<1> DEFINE upd == ClientInfo("update", s)
           tells == CanPregameChat(client[s]) /\ s \in chatInfo
           told == IF tells THEN Enqueue(queues, Chatting(client), <<upd>>) ELSE queues
           changed == Reassigned(Wanting(IndexOf(s), m.look))
           changes1 == client[s] = "awaitingMap" /\ s \in Streams(players)
                         /\ Wants(IndexOf(s), m.look)
<1>1. /\ chatInfo' = chatInfo /\ client' = client /\ failed' = failed
      /\ netState' = netState /\ nextIdentifier' = nextIdentifier /\ ungathered' = ungathered
      /\ connected' = connected /\ joiner' = joiner /\ changes' = changes
      /\ mishaps' = mishaps /\ link' = link /\ Running
      /\ IF changes1
         THEN players' = changed /\ out' = Distribute(told, "changedPlayer", changed)
         ELSE out' = told /\ players' = players
      /\ queues \in Queues /\ down' \in Queues
  BY DEF Polls, HandleChangeColors
<1>2. /\ Types /\ Lists /\ Dressed /\ \A t \in Stream : down'[t] \in Seq(DownMessage)
      /\ changes \in Nat
  BY <1>1 DEF IInv, Types, Queues
<1>3. upd \in DownMessage /\ <<upd>> \in Seq(DownMessage)
  <2>1. upd \in DownMessage  BY DEF ClientInfo, DownMessage
  <2> HIDE DEF upd
  <2> QED  BY <2>1
<1>4. up' \in [Stream -> Seq(UpMessage)] /\ m \in UpMessage  BY PollIs
<1>5. m.look \in Look  BY <1>4 DEF UpMessage
<1> HIDE DEF upd
<1>6. told \in Queues  BY <1>1, <1>3, EnqueueIs
<1>7. ASSUME NEW t \in Stream
      PROVE  Pipe(link[t], down'[t], told[t])
               = IF tells /\ CanPregameChat(client[t]) THEN Put(link[t], Down(t), upd) ELSE Down(t)
  <2>1. t \in Chatting(client) <=> CanPregameChat(client[t])  BY DEF Chatting
  <2>2. Pipe(link[t], down'[t], queues[t]) = Down(t)  BY DEF Polls
  <2>3. CASE tells  BY <1>1, <1>2, <1>3, <2>1, <2>2, <2>3, PipeSent
  <2>4. CASE ~tells
    <3>1. told[t] = queues[t]  BY <2>4
    <3> QED  BY <2>2, <2>4, <3>1
  <2> QED  BY <2>3, <2>4
<1> HIDE DEF told
<1>8. ASSUME NEW t \in Stream
      PROVE  /\ Whole(t, link[t], t \in connected, Pipe(link[t], down'[t], told[t]), Up(t)',
                      client[t], joiner[t], netState, failed, players, Running, chatInfo)
             /\ \A id : Knows(Pipe(link[t], down'[t], told[t]), Up(t)', joiner[t], id)
                          => Knows(Down(t), Up(t), joiner[t], id)
  <2> DEFINE l == link[t]
             listed == t \in connected
             d == Down(t)
             e == Pipe(link[t], down'[t], told[t])
             u == Up(t)
             v == Up(t)'
             c == client[t]
             j == joiner[t]
             running == Running
             info == chatInfo
  <2>1. v \in Seq(UpMessage) /\ Within(v, u)  BY PollIs
  <2>2. Whole(t, l, listed, d, v, c, j, netState, failed, players, running, info)
    <3>1. ~Accepts(Head(up[s]))  BY DEF Accepts
    <3> QED  BY <3>1, PollWhole
  <2>3. CASE tells
    <3>1. e = IF CanPregameChat(c) THEN Put(l, d, ClientInfo("update", s)) ELSE d
      BY <1>7, <2>3 DEF upd
    <3>2. s \in Anybody /\ s \in info  BY <2>3 DEF Anybody
    <3>3. \A r \in Anybody : r \in info <=> IF r = s THEN "update" # "remove" ELSE r \in info
      BY <3>2
    <3> HIDE DEF l, listed, d, e, u, v, c, j, running, info, IInv
    <3>4. /\ Whole(t, l, listed, e, v, c, j, netState, failed, players, running, info)
          /\ \A id : Knows(e, v, j, id) => Knows(d, v, j, id)
      BY <2>2, <3>1, <3>2, <3>3, WholeInfo DEF KnownBefore
    <3>5. \A id : Knows(e, v, j, id) => Knows(d, u, j, id)
      BY <2>1, <3>4, KnowsWithin
    <3> QED  BY <3>4, <3>5 DEF l, listed, d, e, u, v, c, j, running, info
  <2>4. CASE ~tells
    <3>1. e = d  BY <1>7, <2>4
    <3>2. \A id : Knows(d, v, j, id) => Knows(d, u, j, id)  BY <2>1, KnowsWithin
    <3> QED  BY <2>2, <3>1, <3>2
  <2> QED  BY <2>3, <2>4
<1>9. CASE ~changes1
  <2>1. out' = told /\ players' = players  BY <1>1, <1>9
  <2>2. \A t \in Stream : Down(t)' = Pipe(link[t], down'[t], told[t])
    BY <1>1, <2>1 DEF Down
  <2>3. SamePlayers(players, players) /\ Differ(players)
    BY <1>1, <1>2 DEF SamePlayers, Differ, Types, Dressed, Running
  <2> HIDE DEF IInv
  <2>4. \A t \in Stream :
          /\ Whole(t, link[t], t \in connected, Down(t)', Up(t)', client[t], joiner[t],
                   netState, failed, players', Running, chatInfo)
          /\ \A id : Knows(Down(t)', Up(t)', joiner[t], id) => Knows(Down(t), Up(t), joiner[t], id)
    BY <1>8, <2>1, <2>2
  <2> QED  BY <1>1, <1>2, <1>4, <1>6, <2>1, <2>3, <2>4, SameClients
<1>10. CASE changes1
  <2> DEFINE i == IndexOf(s)
             ps == changed
             o == Topology("changedPlayer", ps)
  <2>1. i \in DOMAIN players  BY <1>10, IndexIs
  <2>2. SamePlayers(players, ps) /\ Differ(ps)  BY <1>1, <1>5, <2>1, Repainted
  <2>3. players' = ps /\ out' = Enqueue(told, Streams(ps), <<o>>)
    BY <1>1, <1>10 DEF Distribute
  <2>4. netState = "gathering"  BY <1>2, <1>10 DEF Lists
  <2> HIDE DEF ps, i
  <2>5. ps \in Seq(Player) /\ Len(ps) = Len(players)  BY <2>2 DEF SamePlayers
  <2>6. o \in DownMessage /\ <<o>> \in Seq(DownMessage)
    <3>1. o \in DownMessage  BY <2>5 DEF Topology, DownMessage
    <3> HIDE DEF o
    <3> QED  BY <3>1
  <2>7. \A t \in Stream : t \in Streams(ps) <=> client[t] \in In
    <3>1. /\ players \in Seq(Player) /\ 1 <= Len(players) /\ players[1].stream = 0
          /\ 1 \in DOMAIN players
          /\ \A t \in Stream : Plays(t, players) <=> client[t] \in In
      BY <1>1, PlayersAre
    <3>2. /\ DOMAIN ps = DOMAIN players /\ \A t : Plays(t, ps) <=> Plays(t, players)
          /\ \A k \in DOMAIN ps : ps[k].stream = players[k].stream
      BY <2>2, <3>1, SameRoster
    <3>3. 1 <= Len(ps) /\ ps[1].stream = 0  BY <2>5, <3>1, <3>2
    <3> QED  BY <2>5, <3>1, <3>2, <3>3, InStreams
  <2> HIDE DEF o
  <2>8. out' \in Queues  BY <1>6, <2>3, <2>6, EnqueueIs
  <2>9. ASSUME NEW t \in Stream
        PROVE  Down(t)' = IF client[t] \in In
                          THEN Put(link[t], Pipe(link[t], down'[t], told[t]), o)
                          ELSE Pipe(link[t], down'[t], told[t])
    <3>1. Down(t)' = Pipe(link[t], down'[t], out'[t])  BY <1>1 DEF Down
    <3> QED  BY <1>2, <1>6, <2>3, <2>6, <2>7, <3>1, PipeSent
  <2>10. ASSUME NEW t \in Stream
         PROVE  /\ Whole(t, link[t], t \in connected, Down(t)', Up(t)', client[t], joiner[t],
                         netState, failed, ps, Running, chatInfo)
                /\ \A id : Knows(Down(t)', Up(t)', joiner[t], id)
                             => Knows(Down(t), Up(t), joiner[t], id)
    <3> DEFINE l == link[t]
               listed == t \in connected
               d == Pipe(link[t], down'[t], told[t])
               e == Down(t)'
               v == Up(t)'
               c == client[t]
               j == joiner[t]
               running == Running
               info == chatInfo
    <3>1. e = IF c \in In THEN Put(l, d, Topology("changedPlayer", ps)) ELSE d
      BY <2>9 DEF o
    <3>2. /\ Whole(t, l, listed, d, v, c, j, netState, failed, players, running, info)
          /\ netState # "active"
          /\ "changedPlayer" \in {"newPlayer", "droppedPlayer", "changedPlayer"}
      BY <1>8, <2>4
    <3> HIDE DEF l, listed, d, e, v, c, j, running, info, IInv
    <3>3. /\ Whole(t, l, listed, e, v, c, j, netState, failed, ps, running, info)
          /\ \A id : Knows(e, v, j, id) => Knows(d, v, j, id)
      BY <2>5, <3>1, <3>2, WholeTopology
    <3> QED  BY <1>8, <3>3 DEF l, listed, d, e, v, c, j, running, info
  <2> HIDE DEF IInv
  <2> QED  BY <1>1, <1>2, <1>4, <2>2, <2>3, <2>8, <2>10, SameClients
<1> QED  BY <1>9, <1>10

\* What is queued leaves, and the pipes are as they were.
LEMMA Pumping ==
  ASSUME IInv, NEW s \in Stream, NEW q, q = [out EXCEPT ![s] = <<>>],
         down' = [down EXCEPT ![s] = IF link[s] = "up" THEN @ \o out[s] ELSE @]
  PROVE  /\ q \in Queues /\ down' \in Queues
         /\ \A t \in Stream : /\ Pipe(link[t], down'[t], q[t]) = Down(t)
                              /\ Begins(down'[t], Down(t))
<1>1. out \in [Stream -> Seq(DownMessage)] /\ down \in [Stream -> Seq(DownMessage)]
  BY DEF IInv, Types
<1> DEFINE e == IF link[s] = "up" THEN down[s] \o out[s] ELSE down[s]
<1>2. e = Down(s) /\ e \in Seq(DownMessage)  BY <1>1 DEF Down, Pipe
<1>3. down' = [down EXCEPT ![s] = e]  OBVIOUS
<1> HIDE DEF e
<1>4. q \in Queues /\ down' \in Queues  BY <1>1, <1>2, <1>3 DEF Queues
<1>5. ASSUME NEW t \in Stream
      PROVE  Pipe(link[t], down'[t], q[t]) = Down(t) /\ Begins(down'[t], Down(t))
  <2>1. CASE t = s
    <3>1. down'[t] = Down(t) /\ q[t] = <<>> /\ Down(t) \in Seq(DownMessage)
      BY <1>1, <1>2, <1>3, <2>1
    <3> DEFINE d == Down(t)
    <3>2. d \o <<>> = d /\ Begins(d, d)
      <4> HIDE DEF d
      <4> QED  BY <3>1, ConcatEmptySeq DEF Begins
    <3> QED  BY <3>1, <3>2 DEF Pipe
  <2>2. CASE t # s
    <3>1. down'[t] = down[t] /\ q[t] = out[t]  BY <1>1, <1>3, <2>2
    <3> QED  BY <3>1, UnderWay DEF Down
  <2> QED  BY <2>1, <2>2
<1> QED  BY <1>4, <1>5

\* Only the pump.
LEMMA IdleStep ==
  ASSUME IInv, Running, NEW s \in Stream, out' = [out EXCEPT ![s] = <<>>],
         down' = [down EXCEPT ![s] = IF link[s] = "up" THEN @ \o out[s] ELSE @],
         UNCHANGED <<up, players, chatInfo, client, failed, link, netState, nextIdentifier,
                     ungathered, connected, joiner, changes, mishaps>>
  PROVE  IInv'
<1>1. out' \in Queues /\ down' \in Queues
      /\ \A t \in Stream : Pipe(link[t], down'[t], out'[t]) = Down(t)
  BY Pumping
<1>2. \A t \in Stream : Down(t)' = Down(t) /\ Up(t)' = Up(t)  BY <1>1 DEF Down, Up
<1>3. /\ players \in Seq(Player) /\ changes \in Nat /\ up \in [Stream -> Seq(UpMessage)]
      /\ Dressed
  BY DEF IInv, Types
<1>4. SamePlayers(players, players) /\ Differ(players)
  BY <1>3 DEF SamePlayers, Differ, Dressed, Running
<1>5. \A t \in Stream :
        /\ Whole(t, link[t], t \in connected, Down(t)', Up(t)', client[t], joiner[t],
                 netState, failed, players', Running, chatInfo)
        /\ \A id : Knows(Down(t)', Up(t)', joiner[t], id) => Knows(Down(t), Up(t), joiner[t], id)
  BY <1>2, OfWhole
<1> HIDE DEF IInv
<1> QED  BY <1>1, <1>3, <1>4, <1>5, SameClients

\* An acceptance that the program does not survive: there are too many
\* players, or the game has started.
LEMMA AcceptFailsStep ==
  ASSUME IInv, Running, NEW s \in Stream, s \in connected, up[s] # <<>>,
         down' = [down EXCEPT ![s] = IF link[s] = "up" THEN @ \o out[s] ELSE @],
         up' = [up EXCEPT ![s] = Tail(@)], out' = [out EXCEPT ![s] = <<>>],
         link' = AllEnded, NEW m, m = Head(up[s]), m.type = "acceptJoin",
         players' = Append(players, NetPlayer(s, m.id, m.look)),
         failed' \in {"num_players", "netState"},
         UNCHANGED <<netState, nextIdentifier, ungathered, chatInfo, client, connected,
                     joiner, changes, mishaps>>
  PROVE  IInv'
<1>1. /\ out' \in [Stream -> Seq(DownMessage)] /\ down' \in [Stream -> Seq(DownMessage)]
      /\ \A t \in Stream : Begins(down'[t], Down(t))
  BY Pumping DEF Queues
<1>2. /\ up \in [Stream -> Seq(UpMessage)] /\ players \in Seq(Player)
      /\ up[s] \in Seq(UpMessage) /\ joiner[s].out \in Seq(UpMessage)
  BY OfStream DEF IInv, Types
<1> DEFINE a == up[s]
<1>3. m \in UpMessage /\ Tail(a) \in Seq(UpMessage) /\ a[1] = m /\ 1 \in DOMAIN a
  <2>1. a \in Seq(UpMessage) /\ a # <<>> /\ m = Head(a)  BY <1>2
  <2> HIDE DEF a
  <2> QED  BY <2>1
<1>4. up' \in [Stream -> Seq(UpMessage)] /\ up'[s] = Tail(a)
      /\ \A t \in Stream : t # s => up'[t] = up[t]
  BY <1>2, <1>3
<1>5. ASSUME NEW t \in Stream
      PROVE  Within(up'[t], Up(t)) /\ (t \notin connected => up'[t] = <<>>)
  <2>1. Within(up[t], Up(t)) /\ (t \notin connected => up[t] = <<>>)  BY UnderWay
  <2>2. CASE t = s
    <3> DEFINE u == Up(t)
    <3>1. PICK o \in Nat : \A k \in DOMAIN a : k + o \in DOMAIN u /\ a[k] = u[k + o]
      BY <2>1, <2>2 DEF Within
    <3>2. \A k \in DOMAIN Tail(a) : k + 1 \in DOMAIN a /\ Tail(a)[k] = a[k + 1] /\ k \in Nat
      <4>1. a \in Seq(UpMessage) /\ a # <<>>  BY <1>2
      <4> HIDE DEF a
      <4> QED  BY <4>1
    <3> HIDE DEF u, a
    <3>3. \A k \in DOMAIN Tail(a) : (k + 1) + o = k + (1 + o)  BY <3>1, <3>2
    <3>4. 1 + o \in Nat
          /\ \A k \in DOMAIN Tail(a) : k + (1 + o) \in DOMAIN u /\ Tail(a)[k] = u[k + (1 + o)]
      BY <3>1, <3>2, <3>3
    <3>5. Within(Tail(a), u)  BY <3>4 DEF Within
    <3> QED  BY <1>4, <2>2, <3>5 DEF u
  <2>3. CASE t # s  BY <1>4, <2>1, <2>3
  <2> QED  BY <2>2, <2>3
<1> DEFINE p == NetPlayer(s, m.id, m.look)
           n == Len(players)
<1>6. p \in Player /\ p.stream = s /\ p.id = m.id /\ m.id \in Nat
  <2>1. m.id \in Nat /\ m.look \in Look  BY <1>3 DEF UpMessage
  <2> QED  BY <2>1 DEF NetPlayer, Player, Look
<1>7. players' = Append(players, p)  OBVIOUS
<1> HIDE DEF p, n
<1>8. /\ players' \in Seq(Player) /\ n \in Nat /\ DOMAIN players = 1 .. n
      /\ DOMAIN players' = 1 .. (n + 1) /\ players'[n + 1] = p
      /\ \A i \in 1 .. n : players'[i] = players[i]
  BY <1>2, <1>6, <1>7 DEF n
<1>9. \A i \in 1 .. (n + 1) : i \in 1 .. n \/ i = n + 1  BY <1>8
<1>10. HasId(s, m.id)
  <2>1. \A k \in 1 .. Len(a) : k \in DOMAIN Up(s) /\ Up(s)[k] = a[k]
    BY <1>2, PipeUp DEF Up
  <2>2. 1 \in 1 .. Len(a)  BY <1>2, <1>3
  <2>3. 1 \in DOMAIN Up(s) /\ Up(s)[1] = m  BY <1>3, <2>1, <2>2
  <2>4. AcceptsAs(Up(s)[1], m.id)  BY <2>3 DEF AcceptsAs
  <2> QED  BY <2>3, <2>4 DEF HasId, Knows
<1>11. \A i \in DOMAIN players' : players'[i].stream = 0 => players'[i].id = 0
  <2>1. \A i \in DOMAIN players : players[i].stream = 0 => players[i].id = 0
    BY DEF IInv, Identifiers
  <2>2. s # 0  BY GatheringAssumption DEF Stream
  <2> QED  BY <1>6, <1>8, <1>9, <2>1, <2>2
<1>12. \A t \in Stream : \A id : PlaysAs(t, players', id) => HasId(t, id)
  <2>1. \A t \in Stream : \A id : PlaysAs(t, players, id) => HasId(t, id)  BY DEF HasId
  <2>2. \A t \in Stream : \A id : PlaysAs(t, players', id) =>
          PlaysAs(t, players, id) \/ (t = s /\ id = m.id)
    BY <1>6, <1>8, <1>9 DEF PlaysAs
  <2> QED  BY <1>10, <2>1, <2>2
<1>13. failed' \in {"num_players", "netState", "peerAddress"}  OBVIOUS
<1> HIDE DEF IInv, HasId
<1> QED  BY <1>1, <1>4, <1>5, <1>8, <1>11, <1>12, <1>13, CrashStep

\* The gatherer pumps a channel and handles a message, if there is one.
LEMMA PollClientStep ==
  ASSUME IInv, NEW s \in Stream, PollClient(s)
  PROVE  IInv'
<1> DEFINE q == [out EXCEPT ![s] = <<>>]
           m == Head(up[s])
<1>1. /\ Running /\ s \in connected /\ failed = "none"
      /\ down' = [down EXCEPT ![s] = IF link[s] = "up" THEN @ \o out[s] ELSE @]
      /\ link' = (IF failed' = "none" THEN link ELSE AllEnded)
      /\ UNCHANGED <<netState, nextIdentifier, ungathered, connected, joiner, changes, mishaps>>
  BY DEF PollClient, Running
<1>2. CASE up[s] = <<>>
  <2>1. out' = q /\ UNCHANGED <<up, players, chatInfo, client, failed>>
    BY <1>2 DEF PollClient
  <2> HIDE DEF IInv
  <2> QED  BY <1>1, <2>1, IdleStep
<1>3. CASE up[s] # <<>>
  <2>1. up' = [up EXCEPT ![s] = Tail(@)] /\ Handle(s, m, q)  BY <1>3 DEF PollClient
  <2>2. m \in UpMessage
    <3>1. up[s] \in Seq(UpMessage)  BY OfStream
    <3> QED  BY <1>3, <3>1
  <2>3. q \in Queues /\ down' \in Queues
        /\ \A t \in Stream : Pipe(link[t], down'[t], q[t]) = Down(t)
    BY <1>1, Pumping
  <2>4. failed' = "none" => Polls(s, q)  BY <1>1, <1>3, <2>1, <2>3 DEF Polls
  <2> HIDE DEF q, m, IInv
  <2>5. CASE m.type = "joinerInfo"
    <3>1. HandleJoinerInfo(s, q)  BY <2>1, <2>5 DEF Handle
    <3>2. failed' = "none" /\ players' = players /\ failed' = failed
      BY <1>1, <3>1 DEF HandleJoinerInfo
    <3>3. CASE netState = "gathering"
      BY <2>4, <2>5, <3>1, <3>2, <3>3, JoinerInfoStep DEF m
    <3>4. CASE netState # "gathering"
      <4>1. out' = q /\ chatInfo' = chatInfo /\ client' = client
        BY <3>1, <3>4 DEF HandleJoinerInfo
      <4>2. ~Accepts(Head(up[s]))  BY <2>5 DEF Accepts, m
      <4> QED  BY <2>4, <3>2, <4>1, <4>2, IgnoreStep
    <3> QED  BY <3>3, <3>4
  <2>6. CASE m.type = "capabilities"
    <3>1. HandleCapabilities(s, m, q)  BY <2>1, <2>6 DEF Handle
    <3>2. /\ failed' = "none" /\ players' = players /\ failed' = failed
          /\ chatInfo' = chatInfo
      BY <1>1, <3>1 DEF HandleCapabilities
    <3>3. CASE client[s] = "awaitingCapabilities"
      <4> DEFINE cNow == IF m.gatherable THEN "notYetShown" ELSE "ungatherable"
      <4>1. client' = [client EXCEPT ![s] = cNow] /\ out' = Enqueue(q, {s}, AllInfo)
        BY <3>1, <3>3 DEF HandleCapabilities
      <4>2. cNow \in {"notYetShown", "ungatherable"}  OBVIOUS
      <4> HIDE DEF cNow
      <4> QED  BY <2>4, <3>2, <3>3, <4>1, <4>2, CapabilitiesStep
    <3>4. CASE client[s] # "awaitingCapabilities"
      <4>1. out' = q /\ client' = client
        BY <3>1, <3>4 DEF HandleCapabilities
      <4>2. ~Accepts(Head(up[s]))  BY <2>6 DEF Accepts, m
      <4> QED  BY <2>4, <3>2, <4>1, <4>2, IgnoreStep
    <3> QED  BY <3>3, <3>4
  <2>7. CASE m.type = "acceptJoin"
    <3> DEFINE joined == Append(players, NetPlayer(s, m.id, m.look))
    <3>1. HandleAcceptJoin(s, m, q)  BY <2>1, <2>7 DEF Handle
    <3>2. CASE client[s] # "awaitingAcceptJoin"
      <4>1. out' = q /\ UNCHANGED <<players, client, failed, chatInfo>>
        BY <3>1, <3>2 DEF HandleAcceptJoin
      <4> QED  BY <1>1, <2>4, <3>2, <4>1, IgnoreStep
    <3>3. CASE client[s] = "awaitingAcceptJoin" /\ FailedAssertion(joined) # "none"
      <4>1. /\ failed' = FailedAssertion(joined) /\ players' = joined /\ out' = q
            /\ client' = client /\ chatInfo' = chatInfo
        BY <3>1, <3>3 DEF HandleAcceptJoin
      <4>2. failed' \in {"num_players", "netState"} /\ failed' # "none"
        BY <3>3, <4>1 DEF FailedAssertion
      <4>3. link' = AllEnded  BY <1>1, <4>2
      <4> QED  BY <1>1, <1>3, <2>1, <2>7, <4>1, <4>2, <4>3, AcceptFailsStep DEF q, m
    <3>4. CASE client[s] = "awaitingAcceptJoin" /\ FailedAssertion(joined) = "none"
      <4> DEFINE ps == Reassigned(joined)
      <4>1. /\ players' = ps /\ failed' = failed /\ chatInfo' = chatInfo
            /\ out' = Distribute(Enqueue(q, {s}, <<GameSession>>), "newPlayer", ps)
            /\ client' = [client EXCEPT ![s] = "awaitingMap"]
        BY <3>1, <3>4 DEF HandleAcceptJoin
      <4>2. netState = "gathering" /\ Len(players) < MaxPlayers
        <5>1. Len(joined) <= MaxPlayers /\ netState = "gathering"
          <6>1. Len(players) \in Nat /\ MaxPlayers \in Nat /\ Len(joined) = Len(players) + 1
            BY <1>1, PlayersAre
          <6> QED  BY <3>4, <6>1 DEF FailedAssertion
        <5>2. Len(joined) = Len(players) + 1 /\ Len(players) \in Nat /\ MaxPlayers \in Nat
          BY <1>1, PlayersAre
        <5> QED  BY <5>1, <5>2
      <4>3. failed' = "none"  BY <1>1, <4>1
      <4> QED  BY <2>4, <2>7, <3>4, <4>1, <4>2, <4>3, AcceptJoinStep DEF m
    <3> QED  BY <3>2, <3>3, <3>4
  <2>8. CASE m.type = "changeColors"
    <3>1. HandleChangeColors(s, m, q)  BY <2>1, <2>8 DEF Handle
    <3>2. failed' = "none"  BY <1>1, <3>1 DEF HandleChangeColors
    <3> QED  BY <2>4, <2>8, <3>1, <3>2, ChangeColorsStep DEF m
  <2>9. m.type \in {"joinerInfo", "capabilities", "acceptJoin", "changeColors"}
    BY <2>2 DEF UpMessage
  <2> QED  BY <2>5, <2>6, <2>7, <2>8, <2>9
<1> QED  BY <1>2, <1>3

----------------------------------------------------------------------------
(* The dialog.                                                              *)

\* No identifier is given, and who has one is still invited.
LEMMA FewerIds ==
  ASSUME IInv, nextIdentifier' = nextIdentifier,
         \A t \in Stream : \A id \in Nat : HasId(t, id)' => HasId(t, id) /\ client'[t] \in Invited,
         \A i \in DOMAIN players' : players'[i].stream = 0 => players'[i].id = 0
  PROVE  Identifiers'
<1>1. Identifiers  BY DEF IInv
<1> HIDE DEF HasId
<1>2. \A t \in Stream, id \in Nat :
        HasId(t, id)' => id \in 1 .. (nextIdentifier' - 1) /\ client'[t] \in Invited
  BY <1>1 DEF Identifiers
<1>3. \A t, r \in Stream : \A id, jd \in Nat :
        HasId(t, id)' /\ HasId(r, jd)' => (t = r <=> id = jd)
  BY <1>1 DEF Identifiers
<1> QED  BY <1>2, <1>3 DEF Identifiers

\* A connection is accepted.
LEMMA AcceptConnectionStep ==
  ASSUME IInv, NEW s \in Stream, AcceptConnection(s)
  PROVE  IInv'
<1> DEFINE h == [NoJoiner EXCEPT !.net = "joining"]
           e == <<Hello>>
<1>1. /\ Running /\ netState = "gathering" /\ link[s] = "none"
      /\ client' = [client EXCEPT ![s] = "connecting"] /\ connected' = connected \cup {s}
      /\ out' = [out EXCEPT ![s] = e] /\ link' = [link EXCEPT ![s] = "up"]
      /\ joiner' = [joiner EXCEPT ![s].net = "joining"]
      /\ netState' = netState /\ players' = players /\ nextIdentifier' = nextIdentifier
      /\ ungathered' = ungathered /\ chatInfo' = chatInfo /\ failed' = failed /\ up' = up
      /\ down' = down /\ changes' = changes /\ mishaps' = mishaps
  BY DEF AcceptConnection
<1>2. /\ Types /\ Lists /\ Dressed /\ Unheard
      /\ client \in [Stream -> ClientState] /\ connected \in SUBSET Stream
      /\ out \in [Stream -> Seq(DownMessage)] /\ link \in [Stream -> {"none", "up", "down"}]
      /\ joiner \in [Stream -> Joiner] /\ down \in [Stream -> Seq(DownMessage)]
      /\ up \in [Stream -> Seq(UpMessage)]
  BY DEF IInv, Types
<1>3. /\ client[s] = "none" /\ joiner[s] = NoJoiner /\ down[s] = <<>> /\ s \notin connected
      /\ up[s] = <<>>
  <2>1. LinkOk(link[s], s \in connected, Down(s), Up(s), client[s], joiner[s], Running)
    BY DEF IInv, Links
  <2> QED  BY <1>1, <2>1 DEF LinkOk, Down, Up, Pipe
<1>4. h \in Joiner /\ h.out = <<>>
  <2> DEFINE j == joiner[s]
  <2>1. j \in Joiner  BY <1>2
  <2>2. h = [j EXCEPT !.net = "joining"]  BY <1>3
  <2>3. j.out = <<>>  BY <1>3 DEF NoJoiner
  <2> HIDE DEF j
  <2>4. "joining" \in JoinerState  BY DEF JoinerState
  <2> DEFINE net == "joining"
  <2> HIDE DEF h, net
  <2>5. [j EXCEPT !.net = net] \in Joiner /\ [j EXCEPT !.net = net].out = j.out
    BY <2>1, <2>4, NetChanged DEF net
  <2>6. h = [j EXCEPT !.net = net]  BY <2>2 DEF net
  <2> QED  BY <2>3, <2>5, <2>6
<1>5. joiner' = [joiner EXCEPT ![s] = h]  BY <1>1, <1>3
<1>6. e \in Seq(DownMessage)
  <2>1. Hello \in DownMessage  BY DEF Hello, DownMessage
  <2> QED  BY <2>1
<1> HIDE DEF e, h
<1>7. /\ client'[s] = "connecting" /\ link'[s] = "up" /\ joiner'[s] = h
      /\ Down(s)' = e /\ Up(s)' = <<>>
  <2>1. out'[s] = e /\ link'[s] = "up" /\ joiner'[s] = h /\ client'[s] = "connecting"
    BY <1>1, <1>2, <1>5
  <2>2. <<>> \o e = e  BY <1>6, ConcatEmptySeq
  <2>3. <<>> \o <<>> = <<>>  OBVIOUS
  <2> QED  BY <1>1, <1>3, <1>4, <2>1, <2>2, <2>3 DEF Down, Up, Pipe
<1>8. ASSUME NEW t \in Stream, t # s
      PROVE  /\ client'[t] = client[t] /\ link'[t] = link[t] /\ joiner'[t] = joiner[t]
             /\ Down(t)' = Down(t) /\ Up(t)' = Up(t)
  <2>1. /\ out'[t] = out[t] /\ link'[t] = link[t] /\ joiner'[t] = joiner[t]
        /\ client'[t] = client[t]
    BY <1>1, <1>2, <1>5, <1>8
  <2> QED  BY <1>1, <2>1 DEF Down, Up
<1>9. Types'
  <2>1. /\ client' \in [Stream -> ClientState] /\ connected' \in SUBSET Stream
        /\ out' \in [Stream -> Seq(DownMessage)] /\ link' \in [Stream -> {"none", "up", "down"}]
        /\ joiner' \in [Stream -> Joiner]
    BY <1>1, <1>2, <1>4, <1>5, <1>6 DEF ClientState
  <2> QED  BY <1>1, <1>2, <2>1 DEF Types
<1>10. Lists'
  <2>1. \A t \in Stream : /\ client'[t] = "connected" <=> client[t] = "connected"
                          /\ client'[t] = "awaitingMap" <=> client[t] = "awaitingMap"
                          /\ client'[t] = "ingame" <=> client[t] = "ingame"
                          /\ client'[t] \in In <=> client[t] \in In
    BY <1>3, <1>7, <1>8 DEF In
  <2> QED  BY <1>1, <1>2, <2>1 DEF Lists, Running
<1>11. Dressed' /\ Unheard'  BY <1>1, <1>2, <1>7, <1>8 DEF Dressed, Unheard
<1>12. Running' = Running  BY <1>1 DEF Running
<1>13. /\ Whole(s, "up", TRUE, e, <<>>, "connecting", h, netState, failed, players, TRUE, chatInfo)
       /\ \A id : ~Knows(e, <<>>, h, id)
  BY <1>4, WholeConnects DEF e, h
<1>14. ASSUME NEW t \in Stream
       PROVE  Whole(t, link'[t], (t \in connected)', Down(t)', Up(t)', client'[t], joiner'[t],
                    netState', failed', players', Running', chatInfo')
  <2>1. CASE t = s
    <3>1. (t \in connected)' = TRUE /\ Running' = TRUE  BY <1>1, <1>12, <2>1
    <3>2. Whole(s, "up", TRUE, e, <<>>, "connecting", h, netState', failed', players', TRUE,
                chatInfo')
      BY <1>1, <1>13
    <3> QED  BY <1>7, <2>1, <3>1, <3>2
  <2>2. CASE t # s
    <3>1. (t \in connected)' = (t \in connected)  BY <1>1, <2>2
    <3>2. Whole(t, link[t], t \in connected, Down(t), Up(t), client[t], joiner[t],
                netState, failed, players, Running, chatInfo)
      BY OfWhole
    <3> QED  BY <1>1, <1>8, <1>12, <2>2, <3>1, <3>2
  <2> QED  BY <2>1, <2>2
<1>15. Identifiers'
  <2>1. \A id : ~PlaysAs(s, players, id)
    <3>1. ~Plays(s, players)  BY <1>1, <1>3, PlayersAre DEF In
    <3> QED  BY <3>1 DEF Plays, PlaysAs
  <2>2. ASSUME NEW t \in Stream, NEW id \in Nat, HasId(t, id)'
        PROVE  HasId(t, id) /\ client'[t] \in Invited
    <3>1. t # s  BY <1>1, <1>7, <1>13, <2>1, <2>2 DEF HasId
    <3>2. HasId(t, id)  BY <1>1, <1>8, <2>2, <3>1 DEF HasId
    <3>3. client[t] \in Invited  BY <3>2 DEF IInv, Identifiers
    <3> QED  BY <1>8, <3>1, <3>2, <3>3
  <2>3. \A i \in DOMAIN players' : players'[i].stream = 0 => players'[i].id = 0
    BY <1>1 DEF IInv, Identifiers
  <2> HIDE DEF IInv, HasId
  <2> QED  BY <1>1, <2>2, <2>3, FewerIds
<1> QED  BY <1>9, <1>10, <1>11, <1>14, <1>15, WholeTogether

\* One player less, and those behind him move up.
RemovedFrom(ps, i, psNow) ==
  /\ psNow \in Seq(Player) /\ Len(psNow) = Len(ps) - 1 /\ Len(psNow) \in Nat
  /\ 1 <= Len(psNow) /\ psNow[1].stream = 0
  /\ \A k, n \in DOMAIN psNow : psNow[k].stream = psNow[n].stream => k = n
  /\ \A t : Plays(t, psNow) <=> Plays(t, ps) /\ t # ps[i].stream
  /\ \A t, id : PlaysAs(t, psNow, id) => PlaysAs(t, ps, id)
  /\ \A k \in DOMAIN psNow : \E n \in DOMAIN ps : psNow[k] = ps[n]
  /\ Differ(ps) => Differ(psNow)

\* The topology without a player: those behind him move up.
LEMMA RemovedPlayer ==
  ASSUME NEW ps \in Seq(Player), ps[1].stream = 0, NEW i \in DOMAIN ps, ps[i].stream # 0,
         \A k, n \in DOMAIN ps : ps[k].stream = ps[n].stream => k = n,
         NEW psNow,
         psNow = [k \in 1 .. (Len(ps) - 1) |-> IF k < i THEN ps[k] ELSE ps[k + 1]]
  PROVE  RemovedFrom(ps, i, psNow)
<1> DEFINE N == Len(ps)
           To(k) == IF k < i THEN k ELSE k + 1
<1>1. N \in Nat /\ DOMAIN ps = 1 .. N /\ i \in 1 .. N /\ \A k \in 1 .. N : ps[k] \in Player
  OBVIOUS
<1>2. i # 1  OBVIOUS
<1>3. N - 1 \in Nat /\ 1 <= N - 1  BY <1>1, <1>2
<1>4. psNow = [k \in 1 .. (N - 1) |-> IF k < i THEN ps[k] ELSE ps[k + 1]]  OBVIOUS
<1> HIDE DEF N
<1>5. /\ DOMAIN psNow = 1 .. (N - 1)
      /\ \A k \in 1 .. (N - 1) : To(k) \in 1 .. N /\ psNow[k] = ps[To(k)] /\ To(k) # i
  BY <1>1, <1>3, <1>4
<1>6. \A k, n \in 1 .. (N - 1) : To(k) = To(n) => k = n  BY <1>1, <1>3
<1>7. \A n \in 1 .. N : n # i => \E k \in 1 .. (N - 1) : To(k) = n
  <2> SUFFICES ASSUME NEW n \in 1 .. N, n # i  PROVE \E k \in 1 .. (N - 1) : To(k) = n
    OBVIOUS
  <2>1. CASE n < i
    <3>1. n \in 1 .. (N - 1) /\ To(n) = n  BY <1>1, <2>1
    <3> QED  BY <3>1
  <2>2. CASE n > i
    <3>1. n - 1 \in 1 .. (N - 1) /\ To(n - 1) = n  BY <1>1, <2>2
    <3> QED  BY <3>1
  <2> QED  BY <1>1, <2>1, <2>2
<1>8. 1 \in 1 .. (N - 1) /\ To(1) = 1  BY <1>1, <1>2, <1>3
<1> HIDE DEF To
<1>9. psNow \in Seq(Player) /\ Len(psNow) = N - 1
  <2>1. \A k \in 1 .. (N - 1) : psNow[k] \in Player  BY <1>1, <1>5
  <2> QED  BY <1>3, <1>4, <2>1
<1>10. \A k, n \in DOMAIN psNow : psNow[k].stream = psNow[n].stream => k = n
  BY <1>1, <1>5, <1>6
<1>11. ASSUME NEW t  PROVE Plays(t, psNow) <=> Plays(t, ps) /\ t # ps[i].stream
  <2>1. ASSUME NEW k \in DOMAIN psNow, psNow[k].stream = t
        PROVE  Plays(t, ps) /\ t # ps[i].stream
    <3>1. To(k) \in DOMAIN ps /\ ps[To(k)].stream = t /\ To(k) # i
      BY <1>1, <1>5, <2>1
    <3> QED  BY <3>1 DEF Plays
  <2>2. ASSUME NEW n \in DOMAIN ps, ps[n].stream = t, t # ps[i].stream
        PROVE  Plays(t, psNow)
    <3>1. PICK k \in 1 .. (N - 1) : To(k) = n  BY <1>1, <1>7, <2>2
    <3>2. k \in DOMAIN psNow /\ psNow[k].stream = t  BY <1>1, <1>5, <2>2, <3>1
    <3> QED  BY <3>2 DEF Plays
  <2> QED  BY <2>1, <2>2 DEF Plays
<1>12. \A t, id : PlaysAs(t, psNow, id) => PlaysAs(t, ps, id)
  BY <1>1, <1>5 DEF PlaysAs
<1>13. Differ(ps) => Differ(psNow)  BY <1>1, <1>5, <1>6 DEF Differ
<1>14. psNow[1].stream = 0  BY <1>5, <1>8
<1>15. \A k \in DOMAIN psNow : \E n \in DOMAIN ps : psNow[k] = ps[n]  BY <1>1, <1>5
<1> QED
  BY <1>3, <1>9, <1>10, <1>11, <1>12, <1>13, <1>14, <1>15 DEF N, RemovedFrom

\* The topology without the client that is dropped.
LEMMA RemainingAre ==
  ASSUME IInv, Running, netState = "gathering", NEW s \in Stream, NEW ps, ps = Remaining(s)
  PROVE  /\ ps \in Seq(Player) /\ 1 <= Len(ps) /\ Len(ps) <= MaxPlayers
         /\ ps[1].stream = 0
         /\ \A k, n \in DOMAIN ps : ps[k].stream = ps[n].stream => k = n
         /\ \A t \in Stream : /\ Plays(t, ps) <=> client[t] \in In /\ t # s
                              /\ t \in Streams(ps) <=> client[t] \in In /\ t # s
         /\ \A t, id : PlaysAs(t, ps, id) => PlaysAs(t, players, id)
         /\ \A k \in DOMAIN ps : ps[k].stream = 0 => ps[k].id = 0
         /\ Differ(ps)
<1>1. /\ players \in Seq(Player) /\ 1 <= Len(players) /\ Len(players) <= MaxPlayers
      /\ Len(players) \in Nat /\ players[1].stream = 0 /\ MaxPlayers \in Nat
      /\ \A i, k \in DOMAIN players : players[i].stream = players[k].stream => i = k
      /\ \A t \in Stream : /\ t \in Streams(players) <=> client[t] \in In
                           /\ Plays(t, players) <=> client[t] \in In
  BY PlayersAre
<1>2. Differ(players)  BY DEF IInv, Dressed, Running, Differ
<1>3. \A k \in DOMAIN players : players[k].stream = 0 => players[k].id = 0
  BY DEF IInv, Identifiers
<1>4. client[s] \in In => client[s] = "awaitingMap"
  BY DEF IInv, Lists, In
<1>5. /\ ps \in Seq(Player) /\ 1 <= Len(ps) /\ Len(ps) <= MaxPlayers
      /\ ps[1].stream = 0
      /\ \A k, n \in DOMAIN ps : ps[k].stream = ps[n].stream => k = n
      /\ \A t \in Stream : Plays(t, ps) <=> client[t] \in In /\ t # s
      /\ \A t, id : PlaysAs(t, ps, id) => PlaysAs(t, players, id)
      /\ \A k \in DOMAIN ps : ps[k].stream = 0 => ps[k].id = 0
      /\ Differ(ps)
  <2>1. CASE Leaves(s)
    <3> DEFINE i == IndexOf(s)
               all == players
    <3>1. i \in DOMAIN all /\ all[i].stream = s  BY <2>1, IndexIs DEF Leaves
    <3>2. ps = [k \in 1 .. (Len(all) - 1) |-> IF k < i THEN all[k] ELSE all[k + 1]]
      BY <2>1 DEF Remaining, Without
    <3>3. s # 0  BY GatheringAssumption DEF Stream
    <3>4. /\ all \in Seq(Player) /\ all[1].stream = 0
          /\ \A k, n \in DOMAIN all : all[k].stream = all[n].stream => k = n
      BY <1>1
    <3> HIDE DEF i, all
    <3>5. /\ ps \in Seq(Player) /\ Len(ps) = Len(all) - 1 /\ Len(ps) \in Nat
          /\ 1 <= Len(ps) /\ ps[1].stream = 0
          /\ \A k, n \in DOMAIN ps : ps[k].stream = ps[n].stream => k = n
          /\ \A t : Plays(t, ps) <=> Plays(t, all) /\ t # s
          /\ \A t, id : PlaysAs(t, ps, id) => PlaysAs(t, all, id)
          /\ \A k \in DOMAIN ps : \E n \in DOMAIN all : ps[k] = all[n]
          /\ Differ(all) => Differ(ps)
      <4>1. all[i].stream # 0  BY <3>1, <3>3
      <4>2. RemovedFrom(all, i, ps)  BY <3>1, <3>2, <3>4, <4>1, RemovedPlayer
      <4> QED  BY <3>1, <4>2 DEF RemovedFrom
    <3>6. Len(ps) <= MaxPlayers  BY <1>1, <3>5 DEF all
    <3>7. \A t \in Stream : Plays(t, ps) <=> client[t] \in In /\ t # s
      BY <1>1, <3>5 DEF all
    <3>8. \A k \in DOMAIN ps : ps[k].stream = 0 => ps[k].id = 0
      BY <1>3, <3>5 DEF all
    <3>9. Differ(ps)  BY <1>2, <3>5 DEF all
    <3> QED  BY <3>5, <3>6, <3>7, <3>8, <3>9 DEF all
  <2>2. CASE ~Leaves(s)
    <3>1. ps = players  BY <2>2 DEF Remaining
    <3>2. client[s] \notin In  BY <1>1, <1>4, <2>2 DEF Leaves
    <3> HIDE DEF IInv
    <3> QED  BY <1>1, <1>2, <1>3, <3>1, <3>2
  <2> QED  BY <2>1, <2>2
<1> HIDE DEF IInv
<1>6. \A t \in Stream : t \in Streams(ps) <=> client[t] \in In /\ t # s
  BY <1>5, InStreams
<1> QED  BY <1>5, <1>6

\* A client whose connection was lost is dropped.
LEMMA DropClientStep ==
  ASSUME IInv, NEW s \in Stream, DropClient(s)
  PROVE  IInv'
<1> DEFINE ps == Remaining(s)
           o == Topology("droppedPlayer", ps)
           rem == ClientInfo("remove", s)
           told == IF Leaves(s) THEN Enqueue(out, Streams(ps), <<o>>) ELSE out
<1>1. /\ Running /\ netState = "gathering" /\ s \notin connected /\ players' = ps
      /\ out' = IF s \in chatInfo THEN Enqueue(told, Chatting(client), <<rem>>) ELSE told
      /\ client' = [client EXCEPT ![s] = "none"]
      /\ ungathered' = IF client[s] = "connected" THEN ungathered \ {s} ELSE ungathered
      /\ chatInfo' = chatInfo \ {s}
      /\ netState' = netState /\ nextIdentifier' = nextIdentifier /\ connected' = connected
      /\ failed' = failed /\ link' = link /\ up' = up /\ down' = down /\ joiner' = joiner
      /\ changes' = changes /\ mishaps' = mishaps
  BY DEF DropClient, Distribute
<1>2. /\ Types /\ Lists /\ Unheard
      /\ client \in [Stream -> ClientState] /\ ungathered \in SUBSET Stream
      /\ chatInfo \in SUBSET (Stream \cup {0})
      /\ out \in Queues /\ \A t \in Stream : down[t] \in Seq(DownMessage)
  BY DEF IInv, Types, Queues
<1>3. /\ ps \in Seq(Player) /\ 1 <= Len(ps) /\ Len(ps) <= MaxPlayers
      /\ ps[1].stream = 0
      /\ \A k, n \in DOMAIN ps : ps[k].stream = ps[n].stream => k = n
      /\ \A t \in Stream : /\ Plays(t, ps) <=> client[t] \in In /\ t # s
                           /\ t \in Streams(ps) <=> client[t] \in In /\ t # s
      /\ \A t, id : PlaysAs(t, ps, id) => PlaysAs(t, players, id)
      /\ \A k \in DOMAIN ps : ps[k].stream = 0 => ps[k].id = 0
      /\ Differ(ps)
  BY <1>1, RemainingAre
<1>4. ~Leaves(s) => ps = players  BY DEF Remaining
<1> HIDE DEF ps
<1>5. /\ o \in DownMessage /\ rem \in DownMessage
      /\ <<o>> \in Seq(DownMessage) /\ <<rem>> \in Seq(DownMessage)
  <2>1. o \in DownMessage /\ rem \in DownMessage
    BY <1>3 DEF Topology, ClientInfo, DownMessage
  <2> HIDE DEF o, rem
  <2> QED  BY <2>1
<1> HIDE DEF o, rem
<1>6. told \in Queues  BY <1>2, <1>5, EnqueueIs
<1>7. out' \in Queues
  <2> HIDE DEF told
  <2> QED  BY <1>1, <1>5, <1>6, EnqueueIs
<1>8. ASSUME NEW t \in Stream, t # s
      PROVE  Pipe(link[t], down[t], told[t])
               = IF Leaves(s) /\ client[t] \in In THEN Put(link[t], Down(t), o) ELSE Down(t)
  <2>1. Down(t) = Pipe(link[t], down[t], out[t])  BY DEF Down
  <2>2. CASE Leaves(s)
    <3>1. told = Enqueue(out, Streams(ps), <<o>>)  BY <2>2
    <3> HIDE DEF told
    <3>2. Pipe(link[t], down[t], told[t])
            = IF t \in Streams(ps) THEN Put(link[t], Pipe(link[t], down[t], out[t]), o)
              ELSE Pipe(link[t], down[t], out[t])
      BY <1>2, <1>5, <3>1, PipeSent
    <3> QED  BY <1>3, <1>8, <2>1, <2>2, <3>2
  <2>3. CASE ~Leaves(s)
    <3>1. told[t] = out[t]  BY <2>3
    <3> QED  BY <2>1, <2>3, <3>1
  <2> QED  BY <2>2, <2>3
<1> HIDE DEF told
<1>9. ASSUME NEW t \in Stream, t # s
      PROVE  Down(t)' = IF s \in chatInfo /\ CanPregameChat(client[t])
                        THEN Put(link[t], Pipe(link[t], down[t], told[t]), rem)
                        ELSE Pipe(link[t], down[t], told[t])
  <2>1. Down(t)' = Pipe(link[t], down[t], out'[t])  BY <1>1 DEF Down
  <2>2. t \in Chatting(client) <=> CanPregameChat(client[t])  BY DEF Chatting
  <2>3. CASE s \in chatInfo  BY <1>1, <1>2, <1>5, <1>6, <2>1, <2>2, <2>3, PipeSent
  <2>4. CASE s \notin chatInfo  BY <1>1, <2>1, <2>4
  <2> QED  BY <2>3, <2>4
<1>10. /\ \A t \in Stream : t # s => client'[t] = client[t]
       /\ client'[s] = "none" /\ client' \in [Stream -> ClientState]
  BY <1>1, <1>2 DEF ClientState
<1>11. Types'
  <2>1. /\ out' \in [Stream -> Seq(DownMessage)] /\ ungathered' \in SUBSET Stream
        /\ chatInfo' \in SUBSET (Stream \cup {0}) /\ players' \in Seq(Player)
    BY <1>1, <1>2, <1>3, <1>7 DEF Queues
  <2> QED  BY <1>1, <1>2, <1>10, <2>1 DEF Types
<1>12. Lists'
  <2>1. /\ \A t \in Stream : t \in ungathered <=> client[t] = "connected"
        /\ \A t \in Stream : client[t] # "ingame"
    BY <1>1, <1>2 DEF Lists
  <2>2. \A t \in Stream : t \in ungathered' <=> client'[t] = "connected"
    BY <1>1, <1>10, <2>1
  <2>3. \A t \in Stream : client'[t] # "ingame"  BY <1>10, <2>1
  <2>4. \A t \in Stream : Plays(t, ps) <=> client'[t] \in In
    BY <1>3, <1>10 DEF In
  <2>5. /\ 1 <= Len(players') /\ Len(players') <= MaxPlayers /\ players'[1].stream = 0
        /\ \A i, k \in DOMAIN players' : players'[i].stream = players'[k].stream => i = k
        /\ \A t \in Stream : Plays(t, players') <=> client'[t] \in In
    BY <1>1, <1>3, <2>4
  <2>6. netState' = "gathering"  BY <1>1
  <2> QED  BY <2>2, <2>3, <2>5, <2>6 DEF Lists
<1>13. Dressed'  BY <1>1, <1>3 DEF Dressed, Differ
<1>14. Unheard'  BY <1>1, <1>2, <1>10 DEF Unheard
<1>15. Running' = Running /\ \A t \in Stream : (t \in connected)' = (t \in connected)
  BY <1>1 DEF Running
<1>16. ASSUME NEW t \in Stream
       PROVE  /\ StreamOk(t, link[t], Down(t), Up(t), joiner[t])'
              /\ \A id : Knows(Down(t)', Up(t)', joiner'[t], id)
                           => Knows(Down(t), Up(t), joiner[t], id)
  <2>1. CASE t = s
    <3>1. /\ link'[t] = link[t] /\ link[t] # "up" /\ joiner'[t] = joiner[t]
          /\ down'[t] = down[t] /\ up'[t] = up[t] /\ up[t] = <<>>
          /\ Begins(down[t], Down(t)) /\ Within(up[t], Up(t))
          /\ down[t] \in Seq(DownMessage) /\ up[t] \in Seq(UpMessage)
      BY <1>1, <2>1, UnderWay, OfStream
    <3>2. Forgotten(t \in connected, client[t], (t \in connected)', up'[t], client'[t])
      BY <1>1, <1>10, <2>1, <3>1 DEF Forgotten
    <3>3. Steady(netState, failed, players, netState', failed', players')
      BY <1>1 DEF Steady
    <3> HIDE DEF IInv
    <3>4. /\ StreamOk(t, link[t], Down(t), Up(t), joiner[t])'
          /\ \A id : Knows(Down(t), Up(t), joiner[t], id)'
                       => Knows(Down(t), Up(t), joiner[t], id)
      BY <3>1, <3>2, <3>3, GathererCuts
    <3> QED  BY <3>4
  <2>2. CASE t # s
    <3> DEFINE l == link[t]
               listed == t \in connected
               d == Down(t)
               d1 == Pipe(link[t], down[t], told[t])
               e == Down(t)'
               u == Up(t)
               c == client[t]
               j == joiner[t]
               running == Running
               info == chatInfo
               infoNow == chatInfo'
    <3>1. Whole(t, l, listed, d, u, c, j, netState, failed, players, running, info)
      BY OfWhole
    <3>2. /\ Whole(t, l, listed, d1, u, c, j, netState, failed, ps, running, info)
          /\ \A id : Knows(d1, u, j, id) => Knows(d, u, j, id)
      <4>1. CASE Leaves(s)
        <5>1. d1 = IF c \in In THEN Put(l, d, Topology("droppedPlayer", ps)) ELSE d
          BY <1>8, <2>2, <4>1 DEF o
        <5>2. netState # "active"
              /\ "droppedPlayer" \in {"newPlayer", "droppedPlayer", "changedPlayer"}
          BY <1>1
        <5> HIDE DEF l, listed, d, d1, u, c, j, running, info, IInv
        <5> QED  BY <1>3, <3>1, <5>1, <5>2, WholeTopology
      <4>2. CASE ~Leaves(s)
        <5>1. d1 = d /\ ps = players  BY <1>4, <1>8, <2>2, <4>2
        <5> HIDE DEF l, listed, d, d1, u, c, j, running, info, IInv
        <5> QED  BY <3>1, <5>1
      <4> QED  BY <4>1, <4>2
    <3>3. /\ Whole(t, l, listed, e, u, c, j, netState, failed, ps, running, infoNow)
          /\ \A id : Knows(e, u, j, id) => Knows(d1, u, j, id)
      <4>1. CASE s \in chatInfo
        <5>1. e = IF CanPregameChat(c) THEN Put(l, d1, ClientInfo("remove", s)) ELSE d1
          BY <1>9, <2>2, <4>1 DEF rem
        <5> DEFINE action == "remove"
        <5>2. \A r \in Anybody : r \in infoNow <=> IF r = s THEN action # "remove" ELSE r \in info
          BY <1>1
        <5>3. /\ s \in Anybody /\ action \in {"add", "update", "remove"}
              /\ action = "add" => s \notin info
              /\ action = "update" => s \in info
              /\ e = IF CanPregameChat(c) THEN Put(l, d1, ClientInfo(action, s)) ELSE d1
          BY <5>1 DEF Anybody
        <5> HIDE DEF l, listed, d, d1, e, u, c, j, running, info, infoNow, IInv, action
        <5>4. Whole(t, l, listed, d1, u, c, j, netState, failed, ps, running, info)  BY <3>2
        <5>5. Whole(t, l, listed, e, u, c, j, netState, failed, ps, running, infoNow)
          BY <5>2, <5>3, <5>4, WholeInfo
        <5>6. KnownBefore(e, u, d1, u, j)  BY <5>2, <5>3, <5>4, WholeInfo
        <5> QED  BY <5>5, <5>6 DEF KnownBefore
      <4>2. CASE s \notin chatInfo
        <5>1. e = d1  BY <1>9, <2>2, <4>2
        <5>2. infoNow = info  BY <1>1, <4>2
        <5> HIDE DEF l, listed, d, d1, e, u, c, j, running, info, infoNow, IInv
        <5> QED  BY <3>2, <5>1, <5>2
      <4> QED  BY <4>1, <4>2
    <3>4. Up(t)' = u /\ client'[t] = c  BY <1>1, <1>10, <2>2 DEF Up
    <3>5. \A id : Knows(e, u, j, id) => Knows(d, u, j, id)  BY <3>2, <3>3
    <3>6. Whole(t, link'[t], (t \in connected)', Down(t)', Up(t)', client'[t], joiner'[t],
                netState', failed', players', Running', chatInfo')
      BY <1>1, <1>15, <3>3, <3>4
    <3>7. StreamOk(t, link[t], Down(t), Up(t), joiner[t])'  BY <3>6, ToStream
    <3> QED  BY <1>1, <3>4, <3>5, <3>7
  <2> QED  BY <2>1, <2>2
<1>17. Identifiers'
  <2>1. \A t \in Stream : \A id : PlaysAs(t, players', id) => HasId(t, id)
    BY <1>1, <1>3 DEF HasId
  <2>2. \A i \in DOMAIN players' : players'[i].stream = 0 => players'[i].id = 0
    BY <1>1, <1>3
  <2>3. \A t \in Stream : client[t] \in Invited => client'[t] \in Invited
    BY <1>10 DEF Invited
  <2> HIDE DEF IInv
  <2> QED  BY <1>1, <1>16, <2>1, <2>2, <2>3, KeptIds
<1> QED  BY <1>11, <1>12, <1>13, <1>14, <1>16, <1>17, Together

\* The dialog lists a client.
LEMMA ShowClientStep ==
  ASSUME IInv, NEW s \in Stream, ShowClient(s)
  PROVE  IInv'
<1>1. /\ Running /\ netState = "gathering" /\ client[s] = "notYetShown"
      /\ client' = [client EXCEPT ![s] = "connected"] /\ ungathered' = ungathered \cup {s}
      /\ netState' = netState /\ players' = players /\ nextIdentifier' = nextIdentifier
      /\ chatInfo' = chatInfo /\ connected' = connected /\ out' = out /\ failed' = failed
      /\ link' = link /\ up' = up /\ down' = down /\ joiner' = joiner
      /\ changes' = changes /\ mishaps' = mishaps
  BY DEF ShowClient
<1>2. /\ Types /\ Lists /\ Dressed /\ Unheard
      /\ client \in [Stream -> ClientState] /\ ungathered \in SUBSET Stream
  BY DEF IInv, Types
<1>3. /\ \A t \in Stream : t # s => client'[t] = client[t]
      /\ client'[s] = "connected" /\ client' \in [Stream -> ClientState]
  BY <1>1, <1>2 DEF ClientState
<1>4. Types'
  <2>1. ungathered' \in SUBSET Stream  BY <1>1, <1>2
  <2> QED  BY <1>1, <1>2, <1>3, <2>1 DEF Types
<1>5. Lists'
  <2>1. \A t \in Stream : t \in ungathered' <=> client'[t] = "connected"
    BY <1>1, <1>2, <1>3 DEF Lists
  <2>2. \A t \in Stream : /\ client'[t] = "awaitingMap" <=> client[t] = "awaitingMap"
                          /\ client'[t] = "ingame" <=> client[t] = "ingame"
                          /\ client'[t] \in In <=> client[t] \in In
    BY <1>1, <1>3 DEF In
  <2> QED  BY <1>1, <1>2, <2>1, <2>2 DEF Lists, Running
<1>6. Dressed' /\ Unheard'  BY <1>1, <1>2, <1>3 DEF Dressed, Unheard
<1>7. Running' = Running /\ \A t \in Stream : (t \in connected)' = (t \in connected)
  BY <1>1 DEF Running
<1>8. \A t \in Stream : Down(t)' = Down(t) /\ Up(t)' = Up(t)  BY <1>1 DEF Down, Up
<1>9. ASSUME NEW t \in Stream
      PROVE  Whole(t, link[t], t \in connected, Down(t), Up(t), client'[t], joiner[t],
                   netState, failed, players, Running, chatInfo)
  <2>1. Whole(t, link[t], t \in connected, Down(t), Up(t), client[t], joiner[t],
              netState, failed, players, Running, chatInfo)
    BY OfWhole
  <2>2. CASE t # s  BY <1>3, <2>1, <2>2
  <2>3. CASE t = s
    <3> DEFINE l == link[t]
               listed == t \in connected
               d == Down(t)
               u == Up(t)
               c == client[t]
               cNow == client'[t]
               j == joiner[t]
               running == Running
               info == chatInfo
    <3>1. Whole(t, l, listed, d, u, c, j, netState, failed, players, running, info)
      BY <2>1
    <3>2. c = "notYetShown" /\ cNow = "connected"  BY <1>1, <1>3, <2>3
    <3> HIDE DEF l, listed, d, u, c, cNow, j, running, info, IInv
    <3>3. /\ u \in Seq(UpMessage) /\ IntroducedOk(u, c, j)
          /\ LinkOk(l, listed, d, u, c, j, running)
      BY <3>1 DEF Whole, Core
    <3>4. Within(u, u)
      <4>1. \A k \in DOMAIN u : k + 0 \in DOMAIN u /\ u[k] = u[k + 0]  BY <3>3
      <4> QED  BY <4>1 DEF Within
    <3>5. Moves(c, cNow, u, j)  BY <3>2, <3>3 DEF Moves, IntroducedOk, In, Asked
    <3>6. /\ ~listed => u = <<>>
          /\ l # "none" /\ cNow # "none" /\ cNow \notin In /\ CanPregameChat(c)
      BY <3>2, <3>3 DEF LinkOk, In, CanPregameChat
    <3>7. Whole(t, l, listed, d, u, cNow, j, netState, failed, players, running, info)
      BY <3>1, <3>2, <3>3, <3>4, <3>5, <3>6, WholeMoves
    <3> QED  BY <3>7 DEF l, listed, d, u, cNow, j, running, info
  <2> QED  BY <2>2, <2>3
<1>10. \A t \in Stream :
        Whole(t, link'[t], (t \in connected)', Down(t)', Up(t)', client'[t], joiner'[t],
              netState', failed', players', Running', chatInfo')
  BY <1>1, <1>7, <1>8, <1>9
<1>11. Identifiers'
  <2>1. ASSUME NEW t \in Stream, NEW id \in Nat, HasId(t, id)'
        PROVE  HasId(t, id) /\ client'[t] \in Invited
    <3>1. HasId(t, id)  BY <1>1, <1>8, <2>1 DEF HasId
    <3>2. client[t] \in Invited  BY <3>1 DEF IInv, Identifiers
    <3> QED  BY <1>1, <1>3, <3>1, <3>2 DEF Invited
  <2>2. \A i \in DOMAIN players' : players'[i].stream = 0 => players'[i].id = 0
    BY <1>1 DEF IInv, Identifiers
  <2> HIDE DEF IInv, HasId
  <2> QED  BY <1>1, <2>1, <2>2, FewerIds
<1> QED  BY <1>4, <1>5, <1>6, <1>10, <1>11, WholeTogether

\* A client is invited.
LEMMA GatherPlayerStep ==
  ASSUME IInv, NEW s \in Stream, GatherPlayer(s)
  PROVE  IInv'
<1> DEFINE id == nextIdentifier
           m == JoinPlayer(id)
<1>1. /\ Running /\ netState = "gathering" /\ s \in ungathered
      /\ out' = Enqueue(out, {s}, <<m>>) /\ nextIdentifier' = id + 1
      /\ client' = [client EXCEPT ![s] = "awaitingAcceptJoin"]
      /\ ungathered' = ungathered \ {s}
      /\ netState' = netState /\ players' = players /\ chatInfo' = chatInfo
      /\ connected' = connected /\ failed' = failed /\ link' = link /\ up' = up
      /\ down' = down /\ joiner' = joiner /\ changes' = changes /\ mishaps' = mishaps
  BY DEF GatherPlayer
<1>2. /\ Types /\ Lists /\ Dressed /\ Unheard /\ Identifiers
      /\ client \in [Stream -> ClientState] /\ ungathered \in SUBSET Stream
      /\ out \in Queues /\ \A t \in Stream : down[t] \in Seq(DownMessage)
      /\ id \in Nat \ {0}
  BY DEF IInv, Types, Queues
<1>3. client[s] = "connected"  BY <1>1, <1>2 DEF Lists
<1>4. \A jd \in Nat : ~HasId(s, jd)
  <2> HIDE DEF HasId
  <2> QED  BY <1>2, <1>3 DEF Identifiers, Invited
<1>5. m \in DownMessage /\ <<m>> \in Seq(DownMessage)
  <2>1. m \in DownMessage  BY <1>2 DEF JoinPlayer, DownMessage
  <2> HIDE DEF m
  <2> QED  BY <2>1
<1> HIDE DEF m
<1>6. out' \in Queues  BY <1>1, <1>2, <1>5, EnqueueIs
<1>7. ASSUME NEW t \in Stream
      PROVE  Down(t)' = (IF t = s THEN Put(link[t], Down(t), m) ELSE Down(t)) /\ Up(t)' = Up(t)
  <2>1. Down(t)' = Pipe(link[t], down[t], out'[t])  BY <1>1 DEF Down
  <2>2. Pipe(link[t], down[t], out'[t])
          = IF t \in {s} THEN Put(link[t], Pipe(link[t], down[t], out[t]), m)
            ELSE Pipe(link[t], down[t], out[t])
    BY <1>1, <1>2, <1>5, PipeSent
  <2>3. Up(t)' = Up(t)  BY <1>1 DEF Up
  <2> QED  BY <2>1, <2>2, <2>3 DEF Down
<1>8. /\ \A t \in Stream : t # s => client'[t] = client[t]
      /\ client'[s] = "awaitingAcceptJoin" /\ client' \in [Stream -> ClientState]
  BY <1>1, <1>2 DEF ClientState
<1>9. Types'
  <2>1. ungathered' \in SUBSET Stream /\ out' \in [Stream -> Seq(DownMessage)]
        /\ nextIdentifier' \in Nat \ {0}
    <3>1. ungathered' \in SUBSET Stream  BY <1>1, <1>2
    <3>2. nextIdentifier' \in Nat \ {0}  BY <1>1, <1>2
    <3> QED  BY <1>6, <3>1, <3>2 DEF Queues
  <2> QED  BY <1>1, <1>2, <1>8, <2>1 DEF Types
<1>10. Lists'
  <2>1. \A t \in Stream : t \in ungathered' <=> client'[t] = "connected"
    BY <1>1, <1>2, <1>8 DEF Lists
  <2>2. \A t \in Stream : /\ client'[t] = "awaitingMap" <=> client[t] = "awaitingMap"
                          /\ client'[t] = "ingame" <=> client[t] = "ingame"
                          /\ client'[t] \in In <=> client[t] \in In
    BY <1>3, <1>8 DEF In
  <2> QED  BY <1>1, <1>2, <2>1, <2>2 DEF Lists, Running
<1>11. Dressed' /\ Unheard'  BY <1>1, <1>2, <1>8 DEF Dressed, Unheard
<1>12. Running' = Running /\ \A t \in Stream : (t \in connected)' = (t \in connected)
  BY <1>1 DEF Running
<1>13. ASSUME NEW t \in Stream
       PROVE  /\ Whole(t, link[t], t \in connected, Down(t)', Up(t), client'[t], joiner[t],
                       netState, failed, players, Running, chatInfo)
              /\ \A jd : Knows(Down(t)', Up(t), joiner[t], jd) =>
                           Knows(Down(t), Up(t), joiner[t], jd) \/ (t = s /\ jd = id)
  <2>1. Whole(t, link[t], t \in connected, Down(t), Up(t), client[t], joiner[t],
              netState, failed, players, Running, chatInfo)
    BY OfWhole
  <2>2. CASE t # s  BY <1>7, <1>8, <2>1, <2>2
  <2>3. CASE t = s
    <3> DEFINE l == link[t]
               listed == t \in connected
               d == Down(t)
               e == Down(t)'
               u == Up(t)
               j == joiner[t]
               running == Running
               info == chatInfo
    <3>1. Whole(t, l, listed, d, u, "connected", j, netState, failed, players, running, info)
      BY <1>3, <2>1, <2>3
    <3>2. e = Put(l, d, JoinPlayer(id))  BY <1>7, <2>3 DEF m
    <3>3. \A jd \in Nat : ~Knows(d, u, j, jd)  BY <1>4, <2>3 DEF HasId
    <3> HIDE DEF l, listed, d, e, u, j, running, info, id, IInv
    <3>4. /\ Whole(t, l, listed, e, u, "awaitingAcceptJoin", j, netState, failed, players,
                   running, info)
          /\ \A jd : Knows(e, u, j, jd) => jd = id \/ Knows(d, u, j, jd)
      BY <1>2, <3>1, <3>2, <3>3, WholeAsked
    <3> QED  BY <1>8, <2>3, <3>4 DEF l, listed, d, e, u, j, running, info
  <2> QED  BY <2>2, <2>3
<1>14. \A t \in Stream :
        Whole(t, link'[t], (t \in connected)', Down(t)', Up(t)', client'[t], joiner'[t],
              netState', failed', players', Running', chatInfo')
  BY <1>1, <1>7, <1>12, <1>13
<1>15. Identifiers'
  <2>1. ASSUME NEW t \in Stream, NEW jd \in Nat, HasId(t, jd)'
        PROVE  HasId(t, jd) \/ (t = s /\ jd = id)
    <3>1. Knows(Down(t)', Up(t)', joiner'[t], jd) \/ PlaysAs(t, players', jd)
      BY <2>1 DEF HasId
    <3>2. Up(t)' = Up(t) /\ joiner'[t] = joiner[t] /\ players' = players  BY <1>1, <1>7
    <3> QED  BY <1>13, <3>1, <3>2 DEF HasId
  <2> HIDE DEF HasId, IInv, id
  <2>2. \A t \in Stream, jd \in Nat :
          HasId(t, jd) => jd \in 1 .. (id - 1) /\ client[t] \in Invited
    BY <1>2 DEF Identifiers, id
  <2>3. \A t \in Stream, jd \in Nat :
          HasId(t, jd)' => jd \in 1 .. ((id + 1) - 1) /\ client'[t] \in Invited
    <3>1. id \in 1 .. ((id + 1) - 1) /\ \A jd \in 1 .. (id - 1) : jd \in 1 .. ((id + 1) - 1)
      BY <1>2
    <3>2. client'[s] \in Invited  BY <1>8 DEF Invited
    <3> QED  BY <1>8, <2>1, <2>2, <3>1, <3>2
  <2>4. \A t \in Stream : \A jd \in Nat : HasId(t, jd) => jd # id
    BY <1>2, <2>2
  <2>5. \A t, r \in Stream : \A jd, kd \in Nat :
          HasId(t, jd) /\ HasId(r, kd) => (t = r <=> jd = kd)
    BY <1>2 DEF Identifiers
  <2>6. \A t, r \in Stream : \A jd, kd \in Nat :
          HasId(t, jd)' /\ HasId(r, kd)' => (t = r <=> jd = kd)
    BY <1>4, <2>1, <2>4, <2>5
  <2>7. \A i \in DOMAIN players' : players'[i].stream = 0 => players'[i].id = 0
    BY <1>1, <1>2 DEF Identifiers
  <2> QED  BY <1>1, <2>3, <2>6, <2>7 DEF Identifiers, id
<1> QED  BY <1>9, <1>10, <1>11, <1>14, <1>15, WholeTogether

\* The gatherer changes his own colors.
LEMMA ChangeOwnColorsStep ==
  ASSUME IInv, NEW look \in Looks, ChangeOwnColors(look)
  PROVE  IInv'
<1> DEFINE ps == Reassigned(Wanting(1, look))
           o == Topology("changedPlayer", ps)
<1>1. /\ Running /\ netState = "gathering" /\ changes' = changes + 1
      /\ players' = ps /\ out' = Enqueue(out, Streams(ps), <<o>>)
      /\ netState' = netState /\ nextIdentifier' = nextIdentifier /\ ungathered' = ungathered
      /\ chatInfo' = chatInfo /\ client' = client /\ connected' = connected
      /\ failed' = failed /\ link' = link /\ up' = up /\ down' = down /\ joiner' = joiner
      /\ mishaps' = mishaps
  BY DEF ChangeOwnColors, Distribute
<1>2. /\ changes' \in Nat /\ down' \in Queues /\ up' \in [Stream -> Seq(UpMessage)]
      /\ out \in Queues /\ \A t \in Stream : down[t] \in Seq(DownMessage)
  BY <1>1 DEF IInv, Types, Queues
<1>3. /\ players \in Seq(Player) /\ 1 <= Len(players) /\ players[1].stream = 0
      /\ 1 \in DOMAIN players
      /\ \A t \in Stream : Plays(t, players) <=> client[t] \in In
  BY <1>1, PlayersAre
<1>4. SamePlayers(players, ps) /\ Differ(ps)
  <2>1. look \in Look  BY GatheringAssumption
  <2> QED  BY <1>1, <1>3, <2>1, Repainted
<1> HIDE DEF ps
<1>5. ps \in Seq(Player) /\ Len(ps) = Len(players)  BY <1>4 DEF SamePlayers
<1>6. o \in DownMessage /\ <<o>> \in Seq(DownMessage)
  <2>1. o \in DownMessage  BY <1>5 DEF Topology, DownMessage
  <2> HIDE DEF o
  <2> QED  BY <2>1
<1>7. \A t \in Stream : t \in Streams(ps) <=> client[t] \in In
  <2>1. /\ DOMAIN ps = DOMAIN players /\ \A t : Plays(t, ps) <=> Plays(t, players)
        /\ \A k \in DOMAIN ps : ps[k].stream = players[k].stream
    BY <1>3, <1>4, SameRoster
  <2>2. 1 <= Len(ps) /\ ps[1].stream = 0  BY <1>3, <1>5, <2>1
  <2> QED  BY <1>3, <1>5, <2>1, <2>2, InStreams
<1> HIDE DEF o
<1>8. out' \in Queues  BY <1>1, <1>2, <1>6, EnqueueIs
<1>9. ASSUME NEW t \in Stream
      PROVE  /\ Down(t)' = IF client[t] \in In THEN Put(link[t], Down(t), o) ELSE Down(t)
             /\ Up(t)' = Up(t)
  <2>1. Down(t)' = Pipe(link[t], down[t], out'[t])  BY <1>1 DEF Down
  <2>2. Pipe(link[t], down[t], out'[t])
          = IF t \in Streams(ps) THEN Put(link[t], Pipe(link[t], down[t], out[t]), o)
            ELSE Pipe(link[t], down[t], out[t])
    BY <1>1, <1>2, <1>6, PipeSent
  <2>3. Up(t)' = Up(t)  BY <1>1 DEF Up
  <2> QED  BY <1>7, <2>1, <2>2, <2>3 DEF Down
<1>10. ASSUME NEW t \in Stream
       PROVE  /\ Whole(t, link[t], t \in connected, Down(t)', Up(t)', client[t], joiner[t],
                       netState, failed, ps, Running, chatInfo)
              /\ \A id : Knows(Down(t)', Up(t)', joiner[t], id)
                           => Knows(Down(t), Up(t), joiner[t], id)
  <2> DEFINE l == link[t]
             listed == t \in connected
             d == Down(t)
             e == Down(t)'
             u == Up(t)
             c == client[t]
             j == joiner[t]
             running == Running
             info == chatInfo
  <2>1. e = IF c \in In THEN Put(l, d, Topology("changedPlayer", ps)) ELSE d
    BY <1>9 DEF o
  <2>2. /\ Whole(t, l, listed, d, u, c, j, netState, failed, players, running, info)
        /\ netState # "active"
        /\ "changedPlayer" \in {"newPlayer", "droppedPlayer", "changedPlayer"}
    BY <1>1, OfWhole
  <2> HIDE DEF l, listed, d, e, u, c, j, running, info, IInv
  <2>3. /\ Whole(t, l, listed, e, u, c, j, netState, failed, ps, running, info)
        /\ \A id : Knows(e, u, j, id) => Knows(d, u, j, id)
    BY <1>5, <2>1, <2>2, WholeTopology
  <2> QED  BY <1>9, <2>3 DEF l, listed, d, e, u, c, j, running, info
<1> HIDE DEF IInv
<1> QED  BY <1>1, <1>2, <1>4, <1>8, <1>10, SameClients

\* A client that is not in the topology, and not listed, when the game starts.
LEMMA WholeStays ==
  ASSUME NEW s, NEW l, NEW listed, NEW d, NEW u, NEW c, NEW j, NEW state, NEW fate, NEW ps,
         NEW running, NEW info, Whole(s, l, listed, d, u, c, j, state, fate, ps, running, info),
         state # "active", NEW stateNow
  PROVE  Whole(s, l, listed, d, u, c, j, stateNow, fate, ps, running, info)
<1>1. Core(s, l, listed, d, u, c, j, state, fate, ps, running) /\ (l = "up" => running)
  BY DEF Whole, Core, LinkOk
<1>2. Steady(state, fate, ps, stateNow, fate, ps)  BY DEF Steady
<1>3. Core(s, l, listed, d, u, c, j, stateNow, fate, ps, running)
  BY <1>1, <1>2, CoreSteady
<1> QED  BY <1>3 DEF Whole

\* The game starts: those who are listed still are dropped, the others get the
\* final topology and the game data.
LEMMA StartGameStep ==
  ASSUME IInv, StartGame
  PROVE  IInv'
<1> DEFINE o == Topology("startGame", players)
           g == EndGameData
           S == Streams(players)
           q1 == Enqueue(out, S, <<o>>)
           q == Enqueue(q1, S, <<g>>)
<1>1. /\ Running /\ netState = "gathering" /\ netState' = "active"
      /\ down' = [s \in Stream |-> IF s \in S /\ link[s] = "up" THEN down[s] \o q[s] ELSE down[s]]
      /\ out' = [s \in Stream |-> IF s \in S \cup ungathered THEN <<>> ELSE q[s]]
      /\ client' = [s \in Stream |-> IF s \in S THEN "ingame"
                                     ELSE IF s \in ungathered THEN "none" ELSE client[s]]
      /\ connected' = connected \ ungathered
      /\ link' = [s \in Stream |-> IF s \in ungathered THEN "down" ELSE link[s]]
      /\ up' = [s \in Stream |-> IF s \in ungathered THEN <<>> ELSE up[s]]
      /\ ungathered' = {}
      /\ players' = players /\ nextIdentifier' = nextIdentifier /\ chatInfo' = chatInfo
      /\ failed' = failed /\ joiner' = joiner /\ changes' = changes /\ mishaps' = mishaps
  BY DEF StartGame, GameData, FinalTopology, Distribute, Flushed
<1>2. /\ Types /\ Lists /\ Dressed /\ Unheard
      /\ client \in [Stream -> ClientState] /\ ungathered \in SUBSET Stream
      /\ link \in [Stream -> {"none", "up", "down"}] /\ up \in [Stream -> Seq(UpMessage)]
      /\ out \in Queues /\ connected \in SUBSET Stream /\ players \in Seq(Player)
      /\ \A t \in Stream : down[t] \in Seq(DownMessage) /\ out[t] \in Seq(DownMessage)
  BY DEF IInv, Types, Queues
<1>3. \A t \in Stream : /\ t \in S <=> client[t] \in In
                        /\ Plays(t, players) <=> client[t] \in In
  BY <1>1, PlayersAre
<1>4. \A t \in Stream : /\ t \in ungathered <=> client[t] = "connected"
                        /\ client[t] \in In => client[t] = "awaitingMap"
                        /\ t \in ungathered => t \notin S
  BY <1>1, <1>2, <1>3 DEF Lists, In
<1>5. /\ o \in DownMessage /\ g \in DownMessage
      /\ <<o>> \in Seq(DownMessage) /\ <<g>> \in Seq(DownMessage)
  <2>1. o \in DownMessage /\ g \in DownMessage
    BY <1>2 DEF Topology, EndGameData, DownMessage
  <2> HIDE DEF o, g
  <2> QED  BY <2>1
<1> HIDE DEF o, g, S
<1>6. q1 \in Queues /\ q \in Queues
  <2>1. q1 \in Queues  BY <1>2, <1>5, EnqueueIs
  <2> HIDE DEF q1
  <2> QED  BY <1>5, <2>1, EnqueueIs
<1>7. ASSUME NEW t \in Stream
      PROVE  /\ Pipe(link[t], down[t], q[t])
                  = IF t \in S THEN Put(link[t], Put(link[t], Down(t), o), g) ELSE Down(t)
             /\ q[t] \in Seq(DownMessage)
             /\ t \notin S => q[t] = out[t]
  <2>1. Pipe(link[t], down[t], q1[t])
          = IF t \in S THEN Put(link[t], Pipe(link[t], down[t], out[t]), o)
            ELSE Pipe(link[t], down[t], out[t])
    BY <1>2, <1>5, PipeSent
  <2>2. t \notin S => q1[t] = out[t]
    <3>1. out \in Queues /\ <<o>> \in Seq(DownMessage)  BY <1>2, <1>5
    <3> QED  BY <3>1, EnqueueAt
  <2> HIDE DEF q1
  <2>3. Pipe(link[t], down[t], q[t])
          = IF t \in S THEN Put(link[t], Pipe(link[t], down[t], q1[t]), g)
            ELSE Pipe(link[t], down[t], q1[t])
    BY <1>2, <1>5, <1>6, PipeSent
  <2>4. t \notin S => q[t] = q1[t]  BY <1>5, <1>6, EnqueueAt
  <2>5. q[t] \in Seq(DownMessage)  BY <1>6 DEF Queues
  <2> QED  BY <2>1, <2>2, <2>3, <2>4, <2>5 DEF Down
<1> HIDE DEF q1, q
<1>8. ASSUME NEW t \in Stream
      PROVE  /\ down'[t] = IF t \in S /\ link[t] = "up" THEN down[t] \o q[t] ELSE down[t]
             /\ out'[t] = IF t \in S \/ t \in ungathered THEN <<>> ELSE q[t]
             /\ client'[t] = IF t \in S THEN "ingame"
                             ELSE IF t \in ungathered THEN "none" ELSE client[t]
             /\ link'[t] = IF t \in ungathered THEN "down" ELSE link[t]
             /\ up'[t] = IF t \in ungathered THEN <<>> ELSE up[t]
             /\ down'[t] \in Seq(DownMessage)
  <2>1. down[t] \o q[t] \in Seq(DownMessage)  BY <1>2, <1>7, ConcatProperties
  <2> QED  BY <1>1, <1>2, <2>1
<1>9. Types'
  <2>1. /\ down' \in [Stream -> Seq(DownMessage)] /\ out' \in [Stream -> Seq(DownMessage)]
        /\ client' \in [Stream -> ClientState] /\ up' \in [Stream -> Seq(UpMessage)]
        /\ link' \in [Stream -> {"none", "up", "down"}] /\ ungathered' \in SUBSET Stream
        /\ connected' \in SUBSET Stream
    <3>1. \A t \in Stream :
            /\ down'[t] \in Seq(DownMessage) /\ out'[t] \in Seq(DownMessage)
            /\ client'[t] \in ClientState /\ up'[t] \in Seq(UpMessage)
            /\ link'[t] \in {"none", "up", "down"}
      <4> TAKE t \in Stream
      <4>1. down'[t] \in Seq(DownMessage)  BY <1>8
      <4>2. out'[t] \in Seq(DownMessage)
        <5>1. q[t] \in Seq(DownMessage)  BY <1>7
        <5>2. out'[t] = IF t \in S \/ t \in ungathered THEN <<>> ELSE q[t]  BY <1>8
        <5> QED  BY <5>1, <5>2
      <4>3. client'[t] \in ClientState
        <5>1. client[t] \in ClientState  BY <1>2
        <5>2. client'[t] = IF t \in S THEN "ingame"
                           ELSE IF t \in ungathered THEN "none" ELSE client[t]
          BY <1>8
        <5> QED  BY <5>1, <5>2 DEF ClientState
      <4>4. up'[t] \in Seq(UpMessage)
        <5>1. up[t] \in Seq(UpMessage)  BY <1>2
        <5>2. up'[t] = IF t \in ungathered THEN <<>> ELSE up[t]  BY <1>8
        <5> QED  BY <5>1, <5>2
      <4>5. link'[t] \in {"none", "up", "down"}
        <5>1. link[t] \in {"none", "up", "down"}  BY <1>2
        <5>2. link'[t] = IF t \in ungathered THEN "down" ELSE link[t]  BY <1>8
        <5> QED  BY <5>1, <5>2
      <4> QED  BY <4>1, <4>2, <4>3, <4>4, <4>5
    <3> QED  BY <1>1, <1>2, <3>1
  <2> QED  BY <1>1, <1>2, <2>1 DEF Types
<1>10. \A t \in Stream : /\ client'[t] # "awaitingMap" /\ client'[t] # "connected"
                         /\ client'[t] \in In <=> client[t] \in In
                         /\ client[t] \in Invited => client'[t] \in Invited
  BY <1>3, <1>4, <1>8 DEF In, Invited
<1>11. Lists'
  <2>1. /\ 1 <= Len(players) /\ Len(players) <= MaxPlayers /\ players[1].stream = 0
        /\ \A i, k \in DOMAIN players : players[i].stream = players[k].stream => i = k
    BY <1>1, PlayersAre
  <2> QED  BY <1>1, <1>3, <1>10, <2>1 DEF Lists
<1>12. Dressed' /\ Unheard'
  BY <1>1, <1>2, <1>8 DEF Dressed, Unheard
<1>13. Running' = Running  BY <1>1 DEF Running
<1>14. ASSUME NEW t \in Stream
       PROVE  /\ StreamOk(t, link[t], Down(t), Up(t), joiner[t])'
              /\ \A id : Knows(Down(t)', Up(t)', joiner'[t], id)
                           => Knows(Down(t), Up(t), joiner[t], id)
  <2> DEFINE l == link[t]
             listed == t \in connected
             d == Down(t)
             e == Down(t)'
             u == Up(t)
             c == client[t]
             j == joiner[t]
             running == Running
             info == chatInfo
  <2>1. Whole(t, l, listed, d, u, c, j, netState, failed, players, running, info)
    BY OfWhole
  <2>2. CASE t \in ungathered
    <3>1. link[t] # "none"
      <4>1. c = "connected"  BY <1>4, <2>2
      <4>2. LinkOk(l, listed, d, u, c, j, running)  BY <2>1 DEF Whole, Core
      <4> QED  BY <4>1, <4>2 DEF LinkOk
    <3>2. /\ joiner'[t] = joiner[t] /\ link'[t] = "down" /\ down'[t] = down[t]
          /\ up'[t] = <<>> /\ client'[t] = "none" /\ t \notin connected'
          /\ down[t] \in Seq(DownMessage) /\ Begins(down[t], Down(t))
      BY <1>1, <1>2, <1>4, <1>8, <2>2, UnderWay
    <3>3. Within(<<>>, Up(t)) /\ <<>> \in Seq(UpMessage)  BY DEF Within
    <3>4. Forgotten(t \in connected, client[t], (t \in connected)', up'[t], client'[t])
      BY <3>2 DEF Forgotten
    <3>5. Steady(netState, failed, players, netState', failed', players')
      BY <1>1 DEF Steady
    <3>6. link'[t] # "up" /\ (link'[t] = "none" <=> link[t] = "none")  BY <3>1, <3>2
    <3> HIDE DEF IInv
    <3>7. /\ StreamOk(t, link[t], Down(t), Up(t), joiner[t])'
          /\ \A id : Knows(Down(t), Up(t), joiner[t], id)'
                       => Knows(Down(t), Up(t), joiner[t], id)
      BY <3>2, <3>3, <3>4, <3>5, <3>6, GathererCuts
    <3> QED  BY <3>7
  <2>3. CASE t \in S
    <3>1. t \notin ungathered /\ c = "awaitingMap" /\ Plays(t, players)
      BY <1>3, <1>4, <2>3
    <3>2. /\ down'[t] = IF l = "up" THEN down[t] \o q[t] ELSE down[t]
          /\ out'[t] = <<>> /\ client'[t] = "ingame" /\ link'[t] = l /\ up'[t] = up[t]
          /\ down'[t] \in Seq(DownMessage)
      BY <1>8, <2>3, <3>1
    <3>3. e = Put(l, Put(l, d, Topology("startGame", players)), EndGameData)
      <4>1. e = Pipe(l, down'[t], <<>>)  BY <3>2 DEF Down
      <4>2. Pipe(l, down'[t], <<>>) = down'[t]  BY <3>2, ConcatEmptySeq DEF Pipe
      <4>3. down'[t] = Pipe(l, down[t], q[t])  BY <3>2 DEF Pipe
      <4> QED  BY <1>7, <2>3, <4>1, <4>2, <4>3 DEF o, g
    <3>4. Up(t)' = u  BY <1>1, <3>2 DEF Up
    <3>5. (t \in connected)' = listed  BY <1>1, <3>1
    <3>6. /\ Whole(t, l, listed, d, u, "awaitingMap", j, netState, failed, players, running, info)
          /\ netState # "active" /\ players \in Seq(Player)
      BY <1>1, <1>2, <2>1, <3>1
    <3>7. /\ Whole(t, l, listed, e, u, "ingame", j, "active", failed, players, running, info)
          /\ \A id : Knows(e, u, j, id) => Knows(d, u, j, id)
      <4> HIDE DEF l, listed, d, e, u, c, j, running, info, IInv
      <4> QED  BY <3>1, <3>3, <3>6, WholeStarts
    <3>8. Whole(t, link'[t], (t \in connected)', Down(t)', Up(t)', client'[t], joiner'[t],
                netState', failed', players', Running', chatInfo')
      BY <1>1, <1>13, <3>2, <3>4, <3>5, <3>7
    <3>9. StreamOk(t, link[t], Down(t), Up(t), joiner[t])'  BY <3>8, ToStream
    <3> QED  BY <1>1, <3>4, <3>7, <3>9
  <2>4. CASE t \notin ungathered /\ t \notin S
    <3>1. /\ down'[t] = down[t] /\ out'[t] = out[t] /\ client'[t] = c /\ link'[t] = l
          /\ up'[t] = up[t]
      BY <1>7, <1>8, <2>4
    <3>2. e = d /\ Up(t)' = u /\ (t \in connected)' = listed
      BY <1>1, <2>4, <3>1 DEF Down, Up
    <3>3. Whole(t, l, listed, d, u, c, j, netState', failed, players, running, info)
      <4>1. netState # "active"  BY <1>1
      <4> HIDE DEF l, listed, d, e, u, c, j, running, info, IInv
      <4> QED  BY <2>1, <4>1, WholeStays
    <3>4. Whole(t, link'[t], (t \in connected)', Down(t)', Up(t)', client'[t], joiner'[t],
                netState', failed', players', Running', chatInfo')
      BY <1>1, <1>13, <3>1, <3>2, <3>3
    <3>5. StreamOk(t, link[t], Down(t), Up(t), joiner[t])'  BY <3>4, ToStream
    <3> QED  BY <1>1, <3>2, <3>5
  <2> QED  BY <2>2, <2>3, <2>4
<1>15. Identifiers'
  <2>1. \A t \in Stream : \A id : PlaysAs(t, players', id) => HasId(t, id)
    BY <1>1 DEF HasId
  <2>2. \A i \in DOMAIN players' : players'[i].stream = 0 => players'[i].id = 0
    BY <1>1 DEF IInv, Identifiers
  <2> HIDE DEF IInv
  <2> QED  BY <1>1, <1>10, <1>14, <2>1, <2>2, KeptIds
<1> QED  BY <1>9, <1>11, <1>12, <1>14, <1>15, Together

----------------------------------------------------------------------------
(* The invariant.                                                           *)

\* The invariant holds at first.
LEMMA InitHolds ==
  Init => IInv
<1> SUFFICES ASSUME Init  PROVE IInv  OBVIOUS
<1> DEFINE p == NetPlayer(0, 0, DefaultLook)
           ps == <<p>>
<1>1. p \in Player /\ p.stream = 0 /\ p.id = 0
  BY GatheringAssumption DEF NetPlayer, Player, Look
<1> HIDE DEF p
<1>2. ps \in Seq(Player) /\ Len(ps) = 1 /\ DOMAIN ps = {1} /\ ps[1] = p  BY <1>1
<1>3. Len(ps) <= NumColors /\ 1 <= MaxPlayers
  BY <1>2, GatheringAssumption, ColorsAssumption
<1>4. players = Reassigned(ps)  BY DEF Init, p
<1> HIDE DEF ps
<1>5. SamePlayers(ps, players) /\ Differ(players)  BY <1>2, <1>3, <1>4, Recolored
<1>6. /\ players \in Seq(Player) /\ Len(players) = 1 /\ DOMAIN players = {1}
      /\ players[1].stream = 0 /\ players[1].id = 0
  <2>1. players \in Seq(Player) /\ Len(players) = 1 /\ 1 \in 1 .. 1
    BY <1>2, <1>5 DEF SamePlayers
  <2>2. players[1].stream = 0 /\ players[1].id = 0  BY <1>1, <1>2, <1>5, <2>1 DEF SamePlayers
  <2>3. DOMAIN players = 1 .. 1 /\ 1 .. 1 = {1}  BY <2>1
  <2> QED  BY <2>1, <2>2, <2>3
<1>7. /\ netState = "gathering" /\ nextIdentifier = 1 /\ ungathered = {} /\ chatInfo = {0}
      /\ connected = {} /\ failed = "none" /\ changes = 0 /\ mishaps = 0
      /\ client = [s \in Stream |-> "none"] /\ out = [s \in Stream |-> <<>>]
      /\ link = [s \in Stream |-> "none"] /\ up = [s \in Stream |-> <<>>]
      /\ down = [s \in Stream |-> <<>>] /\ joiner = [s \in Stream |-> NoJoiner]
  BY DEF Init
<1>8. NoJoiner \in Joiner  BY DEF NoJoiner, Joiner, JoinerState
<1>9. Types  BY <1>6, <1>7, <1>8 DEF Types, ClientState
<1>10. ASSUME NEW s \in Stream
       PROVE  /\ link[s] = "none" /\ client[s] = "none" /\ joiner[s] = NoJoiner
              /\ Down(s) = <<>> /\ Up(s) = <<>> /\ s \notin connected /\ s # 0
  <2>1. s # 0  BY GatheringAssumption DEF Stream
  <2> QED  BY <1>7, <2>1 DEF Down, Up, Pipe
<1>11. /\ NoJoiner.net = "none" /\ NoJoiner.handler = "awaitingHello"
       /\ NoJoiner.session = FALSE /\ NoJoiner.chat = {} /\ NoJoiner.anomalies = {}
       /\ NoJoiner.out = <<>>
  BY DEF NoJoiner
<1>12. Links  BY <1>10, <1>11 DEF Links, LinkOk, Alive
<1>13. Handlers  BY <1>10, <1>11 DEF Handlers, HandlerOk
<1>14. Introduced  BY <1>10, <1>11 DEF Introduced, IntroducedOk
<1>15. Joined  BY <1>10, <1>11 DEF Joined, JoinedOk, In
<1>16. \A s \in Stream : \A id : ~Plays(s, players) /\ ~PlaysAs(s, players, id)
  BY <1>6, <1>10 DEF Plays, PlaysAs
<1>17. Lists  BY <1>3, <1>6, <1>7, <1>10, <1>16 DEF Lists, In
<1>18. \A s \in Stream : \A id : ~HasId(s, id)
  BY <1>10, <1>11, <1>16 DEF HasId, Knows
<1>19. Identifiers
  <2> HIDE DEF HasId
  <2> QED  BY <1>6, <1>18 DEF Identifiers
<1>20. Sessions  BY <1>10, <1>11 DEF Sessions, SessionOk, Asked, Playing
<1>21. Told  BY <1>10 DEF Told, ToldOk
<1>22. Answers  BY <1>10 DEF Answers, AnswerOk
<1>23. Dressed  BY <1>5 DEF Dressed, Differ
<1>24. Chats  BY <1>10, <1>11 DEF Chats, ChatOk, CanPregameChat
<1>25. Unheard  BY <1>7, <1>10 DEF Unheard
<1> QED
  BY <1>9, <1>12, <1>13, <1>14, <1>15, <1>17, <1>19, <1>20, <1>21, <1>22, <1>23, <1>24, <1>25
  DEF IInv

\* A step that changes nothing keeps it.
LEMMA StutterHolds ==
  ASSUME IInv, UNCHANGED vars
  PROVE  IInv'
<1>1. /\ netState' = netState /\ players' = players /\ nextIdentifier' = nextIdentifier
      /\ ungathered' = ungathered /\ chatInfo' = chatInfo /\ client' = client
      /\ connected' = connected /\ out' = out /\ failed' = failed /\ link' = link
      /\ up' = up /\ down' = down /\ joiner' = joiner /\ changes' = changes
      /\ mishaps' = mishaps
  BY DEF vars, gathererVars
<1>2. Running' = Running /\ \A t \in Stream : Down(t)' = Down(t) /\ Up(t)' = Up(t)
  BY <1>1 DEF Running, Down, Up
<1>3. Types' /\ Lists' /\ Dressed' /\ Unheard'
  BY <1>1, <1>2 DEF IInv, Types, Lists, Dressed, Unheard
<1>4. Identifiers'
  <2>1. \A t \in Stream, id \in Nat : HasId(t, id)' <=> HasId(t, id)
    BY <1>1, <1>2 DEF HasId
  <2>2. Identifiers  BY DEF IInv
  <2> HIDE DEF HasId
  <2> QED  BY <1>1, <2>1, <2>2 DEF Identifiers
<1>5. \A t \in Stream :
        Whole(t, link'[t], (t \in connected)', Down(t)', Up(t)', client'[t], joiner'[t],
              netState', failed', players', Running', chatInfo')
  BY <1>1, <1>2, OfWhole
<1> QED  BY <1>3, <1>4, <1>5, WholeTogether

\* Every step of the gatherer, of a joiner and of the network keeps it.
LEMMA StepHolds ==
  IInv /\ [Next]_vars => IInv'
<1> SUFFICES ASSUME IInv, [Next]_vars  PROVE IInv'  OBVIOUS
<1> HIDE DEF IInv
<1>1. ASSUME NEW s \in Stream, GathererPolls(s)  PROVE IInv'
  BY <1>1, PollClientStep, AcceptFromClosedStep, LoseClientStep, DropClientStep, ShowClientStep
  DEF GathererPolls
<1>2. ASSUME NEW s \in Stream, JoinerUpdates(s)  PROVE IInv'
  BY <1>2, UpdateJoiningStep, UpdateWaitingStep, TopologyFromClosedStep, ReceiveStartedStep,
     LoseServerStep
  DEF JoinerUpdates
<1>3. ASSUME NEW s \in Stream, AcceptConnection(s)  PROVE IInv'
  BY <1>3, AcceptConnectionStep
<1>4. ASSUME NEW s \in Stream, GatherPlayer(s)  PROVE IInv'
  BY <1>4, GatherPlayerStep
<1>5. ASSUME NEW s \in Stream, Leave(s)  PROVE IInv'
  BY <1>5, LeaveStep
<1>6. ASSUME NEW look \in Looks, ChangeOwnColors(look)  PROVE IInv'
  BY <1>6, ChangeOwnColorsStep
<1>7. ASSUME NEW look \in Looks, NEW s \in Stream, RequestColors(s, look)  PROVE IInv'
  BY <1>7, RequestColorsStep, GatheringAssumption
<1>8. CASE StartGame  BY <1>8, StartGameStep
<1>9. CASE CancelGather  BY <1>9, CancelGatherStep
<1>10. CASE UNCHANGED vars  BY <1>10, StutterHolds
<1> QED
  BY <1>1, <1>2, <1>3, <1>4, <1>5, <1>6, <1>7, <1>8, <1>9, <1>10 DEF Next

\* The invariant of gathering: what the gatherer, the connections and the
\* joiners know of each other fits together, whatever is under way.
THEOREM GatheringInvariant ==
  Spec => []IInv
<1> USE DEF Spec
<1> QED  BY InitHolds, StepHolds, PTL

----------------------------------------------------------------------------
(* What the invariant says for the properties of Gathering.                 *)

\* An identifier in the topology has been given, to whoever carries it.
LEMMA IdentifiersGiven ==
  ASSUME IInv, NEW i \in DOMAIN players
  PROVE  players[i].stream \in Stream \cup {0} /\ players[i].id \in 0 .. (nextIdentifier - 1)
<1>1. players[i] \in Player /\ nextIdentifier \in Nat \ {0}  BY DEF IInv, Types
<1>2. players[i].stream \in Stream \cup {0} /\ players[i].id \in Nat  BY <1>1 DEF Player
<1>3. CASE players[i].stream = 0
  <2>1. players[i].id = 0  BY <1>3 DEF IInv, Identifiers
  <2> QED  BY <1>1, <1>2, <2>1
<1>4. CASE players[i].stream \in Stream
  <2>1. PlaysAs(players[i].stream, players, players[i].id)  BY DEF PlaysAs
  <2>2. HasId(players[i].stream, players[i].id)  BY <2>1 DEF HasId
  <2>3. Identifiers  BY DEF IInv
  <2> HIDE DEF HasId, IInv
  <2>4. players[i].id \in 1 .. (nextIdentifier - 1)  BY <1>2, <1>4, <2>2, <2>3 DEF Identifiers
  <2> QED  BY <1>1, <1>2, <2>4
<1> QED  BY <1>2, <1>3, <1>4

\* Types: the variables of the gatherer and of the joiners are what they
\* should be, and identifiers are given before they are used.
THEOREM TypesOfGathering ==
  Spec => []TypeOK
<1>1. IInv => TypeOK
  <2> SUFFICES ASSUME IInv  PROVE TypeOK  OBVIOUS
  <2>1. \A i \in DOMAIN players : players[i].stream \in Stream \cup {0}
                                  /\ players[i].id \in 0 .. (nextIdentifier - 1)
    BY IdentifiersGiven
  <2>2. \A s \in Stream : joiner[s].net \in JoinerState  BY DEF IInv, Types, Joiner
  <2> QED  BY <2>1, <2>2 DEF IInv, Types, TypeOK
<1> QED  BY <1>1, GatheringInvariant, PTL

\* A list without repetition is as long as what it lists.
LEMMA AllCounted ==
  ASSUME NEW n \in Nat, NEW f, NEW T, f \in [2 .. n -> T], n >= 1,
         \A a, b \in 2 .. n : f[a] = f[b] => a = b, \A t \in T : \E a \in 2 .. n : f[a] = t
  PROVE  Cardinality(T) = n - 1
<1>1. f \in Injection(2 .. n, T)  BY DEF Injection, IsInjective
<1>2. f \in Surjection(2 .. n, T)  BY DEF Surjection
<1>3. ExistsBijection(2 .. n, T)  BY <1>1, <1>2 DEF ExistsBijection, Bijection
<1>4. IsFiniteSet(2 .. n) /\ Cardinality(2 .. n) = IF 2 > n THEN 0 ELSE n - 2 + 1
  BY FS_Interval
<1>5. Cardinality(T) = Cardinality(2 .. n)  BY <1>3, <1>4, FS_Bijection
<1> QED  BY <1>4, <1>5

\* The gatherer has one entry for each of the others in the topology.
LEMMA PlayersCounted ==
  ASSUME IInv, Running
  PROVE  Cardinality(Streams(players)) = Len(players) - 1
<1>1. /\ players \in Seq(Player) /\ Len(players) \in Nat /\ Len(players) >= 1
      /\ DOMAIN players = 1 .. Len(players)
      /\ \A i, k \in DOMAIN players : players[i].stream = players[k].stream => i = k
  BY PlayersAre
<1> DEFINE n == Len(players)
           f == [i \in 2 .. n |-> players[i].stream]
<1>2. DOMAIN players \ {1} = 2 .. n /\ \A i \in 2 .. n : i \in DOMAIN players  BY <1>1
<1>3. f \in [2 .. n -> Streams(players)]  BY <1>2 DEF Streams
<1>4. \A a, b \in 2 .. n : f[a] = f[b] => a = b  BY <1>1, <1>2
<1>5. \A t \in Streams(players) : \E a \in 2 .. n : f[a] = t  BY <1>2 DEF Streams
<1>6. n \in Nat /\ n >= 1  BY <1>1
<1> HIDE DEF f, n
<1>7. Cardinality(Streams(players)) = n - 1  BY <1>3, <1>4, <1>5, <1>6, AllCounted
<1> QED  BY <1>7 DEF n

\* The dialog's list and the topology have exactly the clients that they
\* should have, each once, as long as the gatherer runs.
THEOREM ListsOfGathering ==
  Spec => []ListsMatchClients
<1>1. IInv => ListsMatchClients
  <2> SUFFICES ASSUME IInv, Running
               PROVE  /\ netState = "gathering" =>
                            ungathered = {s \in Stream : client[s] = "connected"}
                      /\ Streams(players) = {s \in Stream : client[s] \in In}
                      /\ Cardinality(Streams(players)) = Len(players) - 1
    BY DEF ListsMatchClients, In
  <2>1. ASSUME netState = "gathering"
        PROVE  ungathered = {s \in Stream : client[s] = "connected"}
    <3>1. ungathered \in SUBSET Stream  BY DEF IInv, Types
    <3>2. \A s \in Stream : s \in ungathered <=> client[s] = "connected"
      BY <2>1 DEF IInv, Lists
    <3> QED  BY <3>1, <3>2
  <2>2. Streams(players) = {s \in Stream : client[s] \in In}
    <3>1. /\ players \in Seq(Player) /\ DOMAIN players = 1 .. Len(players)
          /\ players[1].stream = 0 /\ 1 \in DOMAIN players
          /\ \A i, k \in DOMAIN players : players[i].stream = players[k].stream => i = k
          /\ \A t \in Stream : t \in Streams(players) <=> client[t] \in In
      BY PlayersAre
    <3>2. ASSUME NEW t \in Streams(players)  PROVE t \in Stream
      <4>1. PICK i \in DOMAIN players : i # 1 /\ t = players[i].stream  BY DEF Streams
      <4>2. players[i].stream \in Stream \cup {0}  BY IdentifiersGiven
      <4>3. players[i].stream # 0  BY <3>1, <4>1
      <4> QED  BY <4>1, <4>2, <4>3
    <3> QED  BY <3>1, <3>2
  <2> QED  BY <2>1, <2>2, PlayersCounted
<1> QED  BY <1>1, GatheringInvariant, PTL

\* No two players wear the same color, as long as no assertion has failed.
THEOREM ColorsOfGathering ==
  Spec => []ColorsDistinct
<1>1. IInv => ColorsDistinct  BY DEF IInv, Dressed, ColorsDistinct
<1> QED  BY <1>1, GatheringInvariant, PTL

\* An identifier is one stream's.
LEMMA IdentifierIsOf ==
  ASSUME IInv, NEW s \in Stream, NEW t \in Stream, NEW id \in Nat, NEW jd \in Nat,
         HasId(s, id), HasId(t, jd)
  PROVE  id >= 1 /\ (s = t <=> id = jd)
<1>1. Identifiers  BY DEF IInv
<1> HIDE DEF HasId, IInv
<1>2. id \in 1 .. (nextIdentifier - 1)  BY <1>1 DEF Identifiers
<1>3. s = t <=> id = jd  BY <1>1 DEF Identifiers
<1> QED  BY <1>2, <1>3

\* Who plays finds himself in the topology, once.
LEMMA FoundOnce ==
  ASSUME IInv, Running, NEW s \in Stream, NEW id \in Nat, HasId(s, id), Plays(s, players)
  PROVE  Cardinality({i \in DOMAIN players : players[i].id = id}) = 1
<1>1. \A i, k \in DOMAIN players : players[i].stream = players[k].stream => i = k
  BY PlayersAre
<1>2. \A i \in DOMAIN players : players[i].stream \in Stream \cup {0} /\ players[i].id \in Nat
  <2>1. nextIdentifier \in Nat  BY DEF IInv, Types
  <2> QED  BY <2>1, IdentifiersGiven
<1>3. \A i \in DOMAIN players : players[i].stream = 0 => players[i].id = 0
  BY DEF IInv, Identifiers
<1>4. \A i \in DOMAIN players : HasId(players[i].stream, players[i].id)
  BY DEF HasId, PlaysAs
<1> HIDE DEF IInv, HasId
<1>5. PICK i \in DOMAIN players : players[i].stream = s  BY DEF Plays
<1>6. players[i].id = id  BY <1>2, <1>4, <1>5, IdentifierIsOf
<1>7. ASSUME NEW k \in DOMAIN players, players[k].id = id  PROVE k = i
  <2>1. id >= 1  BY IdentifierIsOf
  <2>2. players[k].stream # 0  BY <1>3, <1>7, <2>1
  <2>3. players[k].stream \in Stream  BY <1>2, <2>2
  <2>4. HasId(players[k].stream, id)  BY <1>4, <1>7
  <2>5. players[k].stream = s  BY <2>3, <2>4, IdentifierIsOf
  <2> QED  BY <1>1, <1>5, <2>5
<1>8. {k \in DOMAIN players : players[k].id = id} = {i}  BY <1>6, <1>7
<1> QED  BY <1>8, FS_Singleton

\* Whoever starts the game, starts it with the gatherer's topology, finds
\* himself in it once, and has the session.
THEOREM SameTopology ==
  Spec => []SameTopologyAtStart
<1>1. IInv => SameTopologyAtStart
  <2> SUFFICES ASSUME IInv, failed = "none", NEW s \in Stream, joiner[s].net \in Playing
               PROVE  /\ netState = "active" /\ joiner[s].players = players
                      /\ joiner[s].session
                      /\ Cardinality({i \in DOMAIN players : players[i].id = joiner[s].id}) = 1
    BY DEF SameTopologyAtStart, Playing
  <2>1. /\ netState = "active" /\ joiner[s].session = TRUE
        /\ joiner[s].players = players /\ Plays(s, players)
    BY DEF IInv, Sessions, SessionOk
  <2>2. joiner[s].handler = "startingUp"  BY DEF IInv, Handlers, HandlerOk, Playing
  <2>3. joiner[s].id \in Nat
    <3>1. joiner[s] \in Joiner  BY OfStream
    <3> QED  BY <3>1 DEF Joiner
  <2>4. HasId(s, joiner[s].id)  BY <2>2 DEF HasId, Knows
  <2>5. Running  BY <2>1 DEF Running
  <2>6. Cardinality({i \in DOMAIN players : players[i].id = joiner[s].id}) = 1
    BY <2>1, <2>3, <2>4, <2>5, FoundOnce
  <2> QED  BY <2>1, <2>6
<1> QED  BY <1>1, GatheringInvariant, PTL

\* The topology that arrives last.
LEMMA LastTopology ==
  ASSUME NEW d \in Seq(DownMessage), NEW k \in DOMAIN d, IsTopology(d[k]),
         \A n \in DOMAIN d : k < n => ~IsTopology(d[n])
  PROVE  Topologies(d) # {} /\ Max(Topologies(d)) = k
<1> DEFINE S == Topologies(d)
<1>1. DOMAIN d \subseteq Nat  OBVIOUS
<1>2. k \in S /\ \A n \in S : n \in DOMAIN d /\ IsTopology(d[n])  BY DEF Topologies, IsTopology
<1>3. \A n \in S : n \in Nat /\ k \in Nat /\ ~(k < n)  BY <1>1, <1>2
<1>4. \A n \in S : k >= n  BY <1>3
<1> HIDE DEF S
<1>5. \A m \in S : (\A n \in S : m >= n) => m = k  BY <1>2, <1>3, <1>4
<1>6. Max(S) = k  BY <1>2, <1>4, <1>5, Zenon DEF Max
<1> QED  BY <1>2, <1>6 DEF S

\* Everybody in the topology has it, once what is sent to him has arrived, and
\* no joiner meets a topology or a session that he does not expect.
THEOREM TopologyIsTold ==
  Spec => []TopologyConverges
<1>1. IInv => TopologyConverges
  <2> SUFFICES ASSUME IInv  PROVE TopologyConverges  OBVIOUS
  <2>1. ASSUME Running, NEW s \in Streams(players) \cap connected, link[s] = "up"
        PROVE  Eventually(s) = players
    <3>1. s \in Stream  BY DEF IInv, Types
    <3>2. client[s] \in In  BY <2>1, <3>1, PlayersAre
    <3>3. Pending(s) = Down(s)  BY <2>1 DEF Pending, Down, Pipe
    <3>4. Down(s) \in Seq(DownMessage)  BY <3>1, OfStream, PipeTyped DEF Down
    <3>5. ToldOk(link[s], Down(s), client[s], joiner[s], players)  BY <3>1 DEF IInv, Told
    <3> DEFINE d == Down(s)
    <3> HIDE DEF d, IInv
    <3>6. CASE joiner[s].players = players /\ \A k \in DOMAIN d : ~IsTopology(d[k])
      <4>1. Topologies(d) = {}  BY <3>6 DEF Topologies, IsTopology
      <4> QED  BY <3>3, <3>6, <4>1 DEF d, Eventually
    <3>7. CASE \E k \in DOMAIN d : /\ IsTopology(d[k]) /\ d[k].players = players
                                   /\ \A n \in DOMAIN d : k < n => ~IsTopology(d[n])
      <4>1. PICK k \in DOMAIN d : /\ IsTopology(d[k]) /\ d[k].players = players
                                  /\ \A n \in DOMAIN d : k < n => ~IsTopology(d[n])
        BY <3>7
      <4>2. d \in Seq(DownMessage)  BY <3>4 DEF d
      <4>3. Topologies(d) # {} /\ Max(Topologies(d)) = k  BY <4>1, <4>2, LastTopology
      <4>4. Pending(s) = d  BY <3>3 DEF d
      <4> QED  BY <4>1, <4>3, <4>4 DEF Eventually
    <3> QED  BY <2>1, <3>2, <3>5, <3>6, <3>7 DEF ToldOk, d
  <2>2. ASSUME NEW s \in Stream
        PROVE  joiner[s].anomalies \cap {"unexpectedTopology", "unexpectedSession"} = {}
    BY DEF IInv, Sessions, SessionOk
  <2> QED  BY <2>1, <2>2 DEF TopologyConverges
<1> QED  BY <1>1, GatheringInvariant, PTL

\* The messages about somebody's chat info.
LEMMA ClientInfoIs ==
  ASSUME NEW m \in DownMessage, NEW t
  PROVE  /\ m = ClientInfo("add", t) <=> Adds(m, t)
         /\ m = ClientInfo("remove", t) <=> Removes(m, t)
<1>1. CASE m.type = "clientInfo"
  <2>1. m \in [type : {"clientInfo"}, action : {"add", "update", "remove"},
               stream : Stream \cup {0}]
    BY <1>1 DEF DownMessage
  <2>2. m = [type |-> m.type, action |-> m.action, stream |-> m.stream]  BY <2>1
  <2> QED  BY <1>1, <2>2 DEF ClientInfo, Adds, Removes
<1>2. CASE m.type # "clientInfo"  BY <1>2 DEF ClientInfo, Adds, Removes
<1> QED  BY <1>1, <1>2

\* What a joiner will know of chat, in the property's words and in the
\* invariant's.
LEMMA KnowingIs ==
  ASSUME NEW chat, NEW d \in Seq(DownMessage), NEW t \in Anybody
  PROVE  t \in Knowing(chat, d) <=> Known(chat, d, Len(d), t)
<1> DEFINE n == Len(d)
           Kept(k) == \A l \in (k + 1) .. n : ~Removes(d[l], t)
           At(k) == IF k = 0 THEN t \in chat ELSE Adds(d[k], t)
<1>1. n \in Nat /\ \A k \in 1 .. n : d[k] \in DownMessage  OBVIOUS
<1>2. \A k \in 1 .. n : /\ d[k] = ClientInfo("add", t) <=> Adds(d[k], t)
                        /\ d[k] = ClientInfo("remove", t) <=> Removes(d[k], t)
  BY <1>1, ClientInfoIs
<1>3. \A k \in 0 .. n : \A l \in (k + 1) .. n : l \in 1 .. n  BY <1>1
<1>4. \A k \in 0 .. n : k # 0 => k \in 1 .. n  BY <1>1
<1>5. t \in Knowing(chat, d) <=>
        \E k \in 0 .. n : /\ IF k = 0 THEN t \in chat ELSE d[k] = ClientInfo("add", t)
                          /\ \A l \in (k + 1) .. n : d[l] # ClientInfo("remove", t)
  BY Zenon DEF Knowing, Anybody, n
<1> HIDE DEF n
<1>6. t \in Knowing(chat, d) <=> \E k \in 0 .. n : At(k) /\ Kept(k)
  <2>1. \A k \in 0 .. n : (\A l \in (k + 1) .. n : d[l] # ClientInfo("remove", t)) <=> Kept(k)
    BY <1>2, <1>3
  <2>2. \A k \in 0 .. n : (IF k = 0 THEN t \in chat ELSE d[k] = ClientInfo("add", t)) <=> At(k)
    BY <1>2, <1>4
  <2> QED  BY <1>5, <2>1, <2>2
<1>7. Known(chat, d, n, t) <=> (At(0) /\ Kept(0)) \/ \E k \in 1 .. n : At(k) /\ Kept(k)
  <2>1. \A k \in 1 .. n : At(k) <=> Adds(d[k], t)  BY <1>1
  <2>2. (At(0) <=> t \in chat) /\ (Kept(0) <=> \A k \in 1 .. n : ~Removes(d[k], t))  OBVIOUS
  <2> QED  BY <2>1, <2>2 DEF Known
<1> HIDE DEF At, Kept
<1>8. 0 \in 0 .. n /\ \A k : k \in 0 .. n <=> k = 0 \/ k \in 1 .. n  BY <1>1
<1>9. (\E k \in 0 .. n : At(k) /\ Kept(k))
        <=> (At(0) /\ Kept(0)) \/ \E k \in 1 .. n : At(k) /\ Kept(k)
  BY <1>8
<1> QED  BY <1>6, <1>7, <1>9 DEF n

\* Whoever may chat has, or will have, the chat info of exactly those the
\* gatherer has, and nobody is told of what he cannot take.
THEOREM ChatIsTold ==
  Spec => []ChatInfoConverges
<1>1. IInv => ChatInfoConverges
  <2> SUFFICES ASSUME IInv  PROVE ChatInfoConverges  OBVIOUS
  <2>1. ASSUME NEW s \in Chatting(client) \cap connected, link[s] = "up"
        PROVE  Knowing(joiner[s].chat, Pending(s)) = chatInfo
    <3>1. s \in Stream /\ CanPregameChat(client[s])  BY DEF Chatting
    <3>2. Pending(s) = Down(s)  BY <2>1 DEF Pending, Down, Pipe
    <3>3. Down(s) \in Seq(DownMessage)  BY <3>1, OfStream, PipeTyped DEF Down
    <3>4. \A t \in Anybody : t \in chatInfo <=> Known(joiner[s].chat, Down(s), Len(Down(s)), t)
      BY <2>1, <3>1 DEF IInv, Chats, ChatOk
    <3>5. chatInfo \in SUBSET Anybody  BY DEF IInv, Types, Anybody
    <3> DEFINE d == Down(s)
               chat == joiner[s].chat
    <3>6. d \in Seq(DownMessage) /\ Pending(s) = d
          /\ \A t \in Anybody : t \in chatInfo <=> Known(chat, d, Len(d), t)
      BY <3>2, <3>3, <3>4
    <3> HIDE DEF d, chat, IInv
    <3>7. \A t \in Anybody : t \in Knowing(chat, d) <=> t \in chatInfo
      BY <3>6, KnowingIs
    <3>8. Knowing(chat, d) \in SUBSET Anybody  BY Zenon DEF Knowing, Anybody
    <3>9. Knowing(chat, d) = chatInfo  BY <3>5, <3>7, <3>8
    <3> QED  BY <3>6, <3>9 DEF chat
  <2>2. ASSUME NEW s \in Stream
        PROVE  joiner[s].anomalies \cap {"clientExists", "nullChatInfo"} = {}
    BY DEF IInv, Chats, ChatOk
  <2> QED  BY <2>1, <2>2 DEF ChatInfoConverges
<1> QED  BY <1>1, GatheringInvariant, PTL

\* A joiner that has nothing to do and can still be reached has been told
\* everything, and has said everything.
LEMMA NothingUnderWay ==
  ASSUME IInv, NEW s \in Stream, ~Busy(s), Running \/ link[s] = "up", s \in connected,
         joiner[s].net \in {"joining", "waiting", "startingUp"}
  PROVE  link[s] = "up" /\ Down(s) = <<>> /\ (joiner[s].net # "startingUp" => Up(s) = <<>>)
<1>1. LinkOk(link[s], s \in connected, Down(s), Up(s), client[s], joiner[s], Running)
  BY DEF IInv, Links
<1>2. link[s] \in {"none", "up", "down"}  BY DEF IInv, Types
<1>3. link[s] = "up"  BY <1>1, <1>2 DEF LinkOk, Busy
<1>4. Running  BY <1>1, <1>3 DEF LinkOk
<1>5. out[s] = <<>> /\ up[s] = <<>> /\ down[s] = <<>>  BY <1>4 DEF Busy
<1>6. joiner[s].net # "startingUp" => joiner[s].out = <<>>  BY DEF Busy
<1>7. Down(s) = <<>> \o <<>>  BY <1>3, <1>5 DEF Down, Pipe
<1>8. joiner[s].net # "startingUp" => Up(s) = <<>> \o <<>>  BY <1>3, <1>5, <1>6 DEF Up, Pipe
<1> QED  BY <1>3, <1>7, <1>8

\* When nobody has anything left to do, nobody waits for an answer any more:
\* what he waited for was on its way, and has been done.
THEOREM NobodyWaits ==
  Spec => []NobodyWaitsInVain
<1>1. IInv => NobodyWaitsInVain
  <2> SUFFICES ASSUME IInv, NEW s \in Stream, ~Busy(s)
               PROVE  /\ client[s] = "awaitingAcceptJoin" =>
                           netState # "gathering" \/ failed # "none"
                      /\ netState = "active" /\ client[s] = "ingame" =>
                           joiner[s].net \in {"active", "joinError", "crashed", "left"}
                      /\ ~Running => joiner[s].net \notin {"joining", "waiting", "startingUp"}
    BY DEF NobodyWaitsInVain, Settled
  <2>1. /\ LinkOk(link[s], s \in connected, Down(s), Up(s), client[s], joiner[s], Running)
        /\ HandlerOk(joiner[s])
        /\ AnswerOk(link[s], Down(s), Up(s), client[s], joiner[s])
        /\ SessionOk(s, Down(s), client[s], joiner[s], netState, failed, players)
    BY DEF IInv, Links, Handlers, Answers, Sessions
  <2>2. link[s] \in {"none", "up", "down"}  BY DEF IInv, Types
  <2>3. joiner[s].net \in JoinerState
    <3>1. joiner[s] \in Joiner  BY OfStream
    <3> QED  BY <3>1 DEF Joiner
  <2>4. ASSUME client[s] = "awaitingAcceptJoin", netState = "gathering", failed = "none"
        PROVE  FALSE
    <3>1. Running  BY <2>4 DEF Running
    <3>2. s \in connected /\ link[s] = "up"  BY <2>1, <2>2, <2>4, <3>1 DEF Busy, LinkOk
    <3>3. joiner[s].net \in {"joining", "waiting"}
      BY <2>1, <2>4, <3>2 DEF LinkOk, SessionOk, Asked, Alive, Playing
    <3>4. Down(s) = <<>> /\ Up(s) = <<>>  BY <3>1, <3>2, <3>3, NothingUnderWay
    <3>5. DOMAIN Down(s) = {} /\ DOMAIN Up(s) = {}  BY <3>4
    <3> QED  BY <2>1, <2>4, <3>2, <3>5 DEF AnswerOk
  <2>5. ASSUME netState = "active", client[s] = "ingame",
               joiner[s].net \notin {"active", "joinError", "crashed", "left"}
        PROVE  FALSE
    <3>1. link[s] # "none" /\ joiner[s].net # "none"  BY <2>1, <2>5 DEF LinkOk
    <3>2. joiner[s].net \in {"joining", "waiting", "startingUp"}
      BY <2>1, <2>3, <2>5, <3>1 DEF HandlerOk, JoinerState
    <3>3. link[s] = "up"  BY <2>2, <3>1, <3>2 DEF Busy
    <3>4. s \in connected  BY <2>1, <3>3 DEF LinkOk
    <3>5. Down(s) = <<>>  BY <3>2, <3>3, <3>4, NothingUnderWay
    <3>6. DOMAIN Down(s) = {}  BY <3>5
    <3> QED  BY <2>1, <2>5, <3>3, <3>6 DEF AnswerOk
  <2>6. ASSUME ~Running, joiner[s].net \in {"joining", "waiting", "startingUp"}
        PROVE  FALSE
    <3>1. link[s] # "none"  BY <2>1, <2>6 DEF LinkOk
    <3>2. link[s] = "up"  BY <2>2, <2>6, <3>1 DEF Busy
    <3> QED  BY <2>1, <2>6, <3>2 DEF LinkOk
  <2> QED  BY <2>4, <2>5, <2>6
<1> QED  BY <1>1, GatheringInvariant, PTL

=============================================================================
