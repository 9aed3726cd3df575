---------------------------- MODULE LookupProofs -----------------------------
(***************************************************************************)
(* What a sibling computes (child.c, util.c), for memory, blocks, marks,   *)
(* ranges and lists of any size: find_roots reads the words outside all    *)
(* blocks, and lookup_lookaside_list marks the addresses on the list.      *)
(***************************************************************************)
EXTENDS Lookup, FiniteSetTheorems, NaturalsInduction, TLAPS

(***************************************************************************)
(* Numbers and recursive functions.                                        *)
(***************************************************************************)

\* A nonempty set of natural numbers has a least element,
LEMMA LeastNat ==
  ASSUME NEW T \in SUBSET Nat, T # {}
  PROVE  \E m \in T : \A k \in T : m <= k
<1> DEFINE R == OpToRel(<, Nat)
<1>1. IsWellFoundedOn(R, Nat)
  BY NatLessThanWellFounded, Zenon
<1> HIDE DEF R
<1>2. PICK x \in T : \A y \in T : ~ (<<y, x>> \in R)
  BY <1>1, WFMin
<1>3. \A a, b \in Nat : a < b => <<a, b>> \in R
  BY DEF R, OpToRel
<1>4. \A k \in T : x <= k
  <2> TAKE k \in T
  <2>1. ~(<<k, x>> \in R) /\ k \in Nat /\ x \in Nat
    BY <1>2
  <2> QED
    BY <2>1, <1>3
<1> QED
  BY <1>4

\* which Min returns.
LEMMA MinIsLeast ==
  ASSUME NEW T \in SUBSET Nat, T # {}
  PROVE  Min(T) \in T /\ \A k \in T : Min(T) <= k
BY LeastNat DEF Min

\* The smaller of two numbers.
LEMMA MinOfTwo ==
  ASSUME NEW x \in Nat, NEW y \in Nat
  PROVE  Min({x, y}) = IF x <= y THEN x ELSE y
<1>1. {x, y} \in SUBSET Nat /\ {x, y} # {}
  OBVIOUS
<1>2. Min({x, y}) \in {x, y} /\ \A k \in {x, y} : Min({x, y}) <= k
  BY <1>1, MinIsLeast
<1> QED
  BY <1>2

\* The larger of two numbers.
LEMMA MaxOfTwo ==
  ASSUME NEW x \in Nat, NEW y \in Nat
  PROVE  Max({x, y}) = IF x <= y THEN y ELSE x
<1>1. \E m \in {x, y} : \A k \in {x, y} : m >= k
  OBVIOUS
<1>2. Max({x, y}) \in {x, y} /\ \A k \in {x, y} : Max({x, y}) >= k
  BY <1>1 DEF Max
<1> QED
  BY <1>2

\* A recursion on D whose measure mu goes down with every call: G[x][f] is the value at
\* x in terms of the values f at smaller arguments.
Descends(D, V, mu, N, G) ==
  /\ V # {} /\ N \in Nat /\ mu \in [D -> Nat] /\ \A x \in D : mu[x] <= N
  /\ G \in [D -> [[D -> V] -> V]]
  /\ \A x \in D : \A f, g \in [D -> V] :
       (\A y \in D : mu[y] < mu[x] => f[y] = g[y]) => G[x][f] = G[x][g]

\* It defines a function.
LEMMA RecursionExists ==
  ASSUME NEW D, NEW V, NEW mu, NEW N, NEW G, Descends(D, V, mu, N, G)
  PROVE  \E f \in [D -> V] : \A x \in D : f[x] = G[x][f]
<1> USE DEF Descends
<1> DEFINE upto(d, f) == \A x \in D : mu[x] < d => f[x] = G[x][f]
           bad == {d \in Nat : ~\E f \in [D -> V] : upto(d, f)}
<1>1. bad = {}
  <2> SUFFICES ASSUME bad # {} PROVE FALSE
    OBVIOUS
  <2>1. PICK d \in bad : \A e \in bad : d <= e
    <3>1. bad \in SUBSET Nat
      OBVIOUS
    <3> HIDE DEF bad
    <3> QED
      BY <3>1, LeastNat
  <2>2. /\ d \in Nat /\ ~\E f \in [D -> V] : upto(d, f)
        /\ \A e \in Nat : ~(d <= e) => \E f \in [D -> V] : upto(e, f)
    <3> HIDE DEF upto
    <3> QED
      BY <2>1
  <2>3. d # 0
    <3>1. PICK v \in V : TRUE
      OBVIOUS
    <3>2. [x \in D |-> v] \in [D -> V]
      OBVIOUS
    <3>3. \A x \in D : ~(mu[x] < 0)
      OBVIOUS
    <3>4. upto(0, [x \in D |-> v])
      BY <3>3
    <3> HIDE DEF upto
    <3> QED
      BY <2>2, <3>2, <3>4
  <2>4. d - 1 \in Nat /\ ~(d <= d - 1)
    BY <2>2, <2>3
  <2>5. PICK f \in [D -> V] : upto(d - 1, f)
    <3> HIDE DEF upto
    <3> QED
      BY <2>2, <2>4
  <2> DEFINE g == [x \in D |-> G[x][f]]
  <2>6. g \in [D -> V] /\ \A x \in D : g[x] = G[x][f]
    OBVIOUS
  <2> HIDE DEF g
  <2>7. ASSUME NEW x \in D, mu[x] < d PROVE g[x] = G[x][g]
    <3>1. ASSUME NEW y \in D, mu[y] < mu[x] PROVE f[y] = g[y]
      <4>1. mu[y] \in Nat /\ mu[x] \in Nat
        OBVIOUS
      <4>2. mu[y] < d - 1
        BY <2>2, <2>7, <3>1, <4>1
      <4> QED
        BY <2>5, <2>6, <4>2
    <3>2. G[x][f] = G[x][g]
      BY <2>6, <3>1
    <3> QED
      BY <2>6, <3>2
  <2> QED
    BY <2>2, <2>6, <2>7
<1>2. N + 1 \in Nat /\ \A x \in D : mu[x] < N + 1
  <2>1. \A x \in D : mu[x] \in Nat /\ mu[x] <= N
    OBVIOUS
  <2> QED
    BY <2>1
<1>3. PICK f \in [D -> V] : upto(N + 1, f)
  <2> HIDE DEF upto
  <2> QED
    BY <1>1, <1>2
<1> QED
  BY <1>2, <1>3

\* A loop: v is the value before it, and S[i] what round i makes of the value of the round
\* before.
IsLoop(lo, hi, V, v, S) ==
  /\ lo \in Int /\ hi \in Int /\ lo <= hi
  /\ v \in V /\ S \in [lo .. hi -> [V -> V]]

\* f are its values.
Runs(lo, hi, v, S, f) == \A i \in lo .. hi : f[i] = IF i = lo THEN v ELSE S[i][f[i - 1]]

\* A loop of finitely many rounds has values.
LEMMA LoopExists ==
  ASSUME NEW lo, NEW hi, NEW V, NEW v, NEW S, IsLoop(lo, hi, V, v, S)
  PROVE  \E f \in [lo .. hi -> V] : Runs(lo, hi, v, S, f)
<1> DEFINE D == lo .. hi
           mu == [i \in D |-> i - lo]
           body(i, f) == IF i = lo THEN v ELSE S[i][f[i - 1]]
           G == [i \in D |-> [f \in [D -> V] |-> body(i, f)]]
<1>1. lo \in Int /\ hi \in Int /\ lo <= hi /\ v \in V
  BY DEF IsLoop
<1>2. \A i \in D : mu[i] = i - lo /\ mu[i] \in Nat /\ mu[i] <= hi - lo
  BY <1>1
<1>3. mu \in [D -> Nat] /\ hi - lo \in Nat /\ V # {}
  BY <1>1, <1>2
<1>4. \A i \in D : i # lo => i - 1 \in D /\ mu[i - 1] < mu[i]
  BY <1>1
<1> HIDE DEF mu
<1>5. \A i \in D : \A f \in [D -> V] : body(i, f) \in V
  <2> HIDE DEF D
  <2>1. S \in [D -> [V -> V]]
    BY DEF IsLoop, D
  <2> QED
    BY <1>1, <1>4, <2>1
<1>6. \A i \in D : \A f, g : (\A j \in D : mu[j] < mu[i] => f[j] = g[j]) => body(i, f) = body(i, g)
  <2> HIDE DEF D
  <2> QED
    BY <1>4
<1> HIDE DEF D, body
<1>7. G \in [D -> [[D -> V] -> V]] /\ \A i \in D : \A f \in [D -> V] : G[i][f] = body(i, f)
  BY <1>5
<1> HIDE DEF G
<1>8. Descends(D, V, mu, hi - lo, G)
  <2>1. \A i \in D : \A f, g \in [D -> V] :
           (\A j \in D : mu[j] < mu[i] => f[j] = g[j]) => G[i][f] = G[i][g]
    BY <1>6, <1>7
  <2> QED
    BY <1>2, <1>3, <1>7, <2>1 DEF Descends
<1>9. PICK f \in [D -> V] : \A i \in D : f[i] = G[i][f]
  BY <1>8, RecursionExists
<1>10. \A i \in D : f[i] = body(i, f)
  BY <1>7, <1>9
<1> QED
  BY <1>10 DEF D, body, Runs

(***************************************************************************)
(* Searching.                                                              *)
(***************************************************************************)

\* Strictly increasing, on 0 .. n - 1.
Increasing(a, n) == \A i, j \in 0 .. n - 1 : i < j => a[i] < a[j]

\* r is where val is in a[min .. max - 1], or the last place before that, or the first.
Finds(val, a, min, max, r) ==
  /\ r \in min .. max - 1
  /\ \A j \in min .. max - 1 : (j < r => a[j] < val) /\ (r < j => a[j] > val)
  /\ r = min \/ a[r] <= val

\* So does iterative_search,
LEMMA IterativeRight ==
  ASSUME NEW n \in Nat, NEW a \in [0 .. n - 1 -> Nat], Increasing(a, n), NEW val \in Nat,
         NEW min \in 0 .. n - 1, NEW max \in 0 .. n, min < max
  PROVE  Finds(val, a, min, max, IterativeSearch(val, a, min, max))
<1> DEFINE T == {i \in min .. max - 1 : a[i] >= val}
<1>1. PICK r : r = IterativeSearch(val, a, min, max)
  OBVIOUS
<1>2. r = IF a[min] > val \/ min = max THEN min
          ELSE IF T = {} THEN max - 1
          ELSE IF a[Min(T)] = val THEN Min(T) ELSE Min(T) - 1
  BY <1>1 DEF IterativeSearch
<1>3. /\ min \in Nat /\ max \in Nat /\ min # max /\ \A i \in min .. max - 1 : i \in 0 .. n - 1 /\ i \in Nat
      /\ \A i \in min .. max - 1 : a[i] \in Nat
      /\ T \in SUBSET Nat /\ \A i \in min .. max - 1 : i \in T <=> a[i] >= val
      /\ T \subseteq min .. max - 1
      /\ min \in min .. max - 1 /\ max - 1 \in min .. max - 1
  OBVIOUS
<1>4. \A i, j \in min .. max - 1 : i < j => a[i] < a[j]
  BY <1>3 DEF Increasing
<1> HIDE DEF T
<1>5. CASE a[min] > val
  <2>1. r = min
    BY <1>2, <1>5
  <2>2. ASSUME NEW j \in min .. max - 1 PROVE (j < min => a[j] < val) /\ (min < j => a[j] > val)
    BY <1>3, <1>4, <1>5
  <2> QED
    BY <1>1, <1>3, <2>1, <2>2 DEF Finds
<1>6. CASE ~(a[min] > val) /\ T = {}
  <2>1. r = max - 1
    BY <1>2, <1>3, <1>6
  <2>2. \A j \in min .. max - 1 : a[j] < val
    BY <1>3, <1>6
  <2>3. \A j \in min .. max - 1 : ~(max - 1 < j)
    BY <1>3
  <2>4. a[max - 1] <= val
    BY <1>3, <2>2
  <2> QED
    BY <1>1, <1>3, <2>1, <2>2, <2>3, <2>4 DEF Finds
<1>7. CASE ~(a[min] > val) /\ T # {}
  <2>1. PICK s : s = Min(T)
    OBVIOUS
  <2>2. s \in T /\ \A k \in T : s <= k
    BY <1>3, <1>7, <2>1, MinIsLeast
  <2>3. s \in min .. max - 1 /\ s \in Nat /\ a[s] \in Nat /\ a[s] >= val /\ a[min] \in Nat /\ a[min] <= val
    BY <1>3, <1>7, <2>2
  <2>4. r = IF a[s] = val THEN s ELSE s - 1
    BY <1>2, <1>3, <1>7, <2>1
  <2>5. ASSUME NEW j \in min .. max - 1, j < s PROVE a[j] < val
    <3>1. j \notin T
      BY <1>3, <2>2, <2>3, <2>5
    <3> QED
      BY <1>3, <3>1
  <2>6. \A j \in min .. max - 1 : s < j => a[j] > val
    BY <1>3, <1>4, <2>3
  <2>7. CASE a[s] = val
    BY <1>1, <1>3, <2>3, <2>4, <2>5, <2>6, <2>7 DEF Finds
  <2>8. CASE a[s] # val
    <3>1. a[s] > val /\ s # min
      BY <2>3, <2>8
    <3>2. r = s - 1 /\ r \in min .. max - 1 /\ r < s
      BY <1>3, <2>3, <2>4, <2>8, <3>1
    <3>3. \A j \in min .. max - 1 : (j < r => j < s) /\ (r < j => j = s \/ s < j)
      BY <1>3, <2>3, <3>2
    <3>4. a[r] < val /\ a[r] \in Nat
      BY <1>3, <2>5, <3>2
    <3>5. a[r] <= val
      BY <3>4
    <3> QED
      BY <1>1, <2>5, <2>6, <3>1, <3>2, <3>3, <3>5 DEF Finds
  <2> QED
    BY <2>7, <2>8
<1> QED
  BY <1>5, <1>6, <1>7

\* The loop of binary_search, on the part r[1] .. r[2] - 1.
Halves(val, a, min, max, f) ==
  f = [r \in (min .. max) \X (min .. max) |->
         LET mid == (r[2] + r[1]) \div 2
         IN  IF r[2] - r[1] < BinaryThreshold THEN IterativeSearch(val, a, r[1], r[2])
             ELSE IF a[mid] = val THEN mid
             ELSE IF a[mid] > val THEN f[<<r[1], mid>>]
             ELSE f[<<mid, r[2]>>]]

\* It ends, as the part becomes smaller, and leaves val in it.
LEMMA HalvesExists ==
  ASSUME NEW val, NEW a, NEW min \in Nat, NEW max \in Nat, min <= max
  PROVE  \E f : Halves(val, a, min, max, f)
<1> DEFINE D == (min .. max) \X (min .. max)
           V == {IterativeSearch(val, a, r[1], r[2]) : r \in D} \cup (min .. max)
           mu == [r \in D |-> IF r[2] > r[1] THEN r[2] - r[1] ELSE 0]
           mid(r) == (r[2] + r[1]) \div 2
           body(r, f) == IF r[2] - r[1] < BinaryThreshold THEN IterativeSearch(val, a, r[1], r[2])
                         ELSE IF a[mid(r)] = val THEN mid(r)
                         ELSE IF a[mid(r)] > val THEN f[<<r[1], mid(r)>>]
                         ELSE f[<<mid(r), r[2]>>]
           G == [r \in D |-> [f \in [D -> V] |-> body(r, f)]]
<1>1. BinaryThreshold \in Nat /\ BinaryThreshold >= 2
  BY LookupAssumption
<1>2. ASSUME NEW r \in D
      PROVE  /\ r[1] \in min .. max /\ r[2] \in min .. max
             /\ mu[r] \in Nat /\ mu[r] <= max - min
             /\ IterativeSearch(val, a, r[1], r[2]) \in V
             /\ ~(r[2] - r[1] < BinaryThreshold) =>
                  /\ mid(r) \in min .. max /\ mid(r) \in V
                  /\ <<r[1], mid(r)>> \in D /\ mu[<<r[1], mid(r)>>] < mu[r]
                  /\ <<mid(r), r[2]>> \in D /\ mu[<<mid(r), r[2]>>] < mu[r]
  <2>1. PICK l, h : l = r[1] /\ h = r[2]
    OBVIOUS
  <2>2. l \in min .. max /\ h \in min .. max /\ mu[r] = IF h > l THEN h - l ELSE 0
    BY <2>1
  <2>3. mu[r] \in Nat /\ mu[r] <= max - min
    BY <2>2
  <2>4. PICK m : m = (h + l) \div 2
    OBVIOUS
  <2>5. ASSUME ~(h - l < BinaryThreshold)
        PROVE  m \in min .. max /\ l < m /\ m < h
    <3>1. h - l >= 2 /\ l \in Nat /\ h \in Nat
      BY <1>1, <2>2, <2>5
    <3> QED
      BY <2>2, <2>4, <3>1
  <2>6. ASSUME ~(h - l < BinaryThreshold)
        PROVE  <<l, m>> \in D /\ mu[<<l, m>>] < mu[r] /\ <<m, h>> \in D /\ mu[<<m, h>>] < mu[r]
    <3>1. m \in min .. max /\ l < m /\ m < h
      BY <2>5, <2>6
    <3>2. mu[<<l, m>>] = m - l /\ mu[<<m, h>>] = h - m /\ mu[r] = h - l
      BY <2>2, <3>1
    <3> QED
      BY <2>2, <3>1, <3>2
  <2> HIDE DEF mu
  <2> QED
    BY <2>1, <2>2, <2>3, <2>4, <2>5, <2>6
<1>3. V # {} /\ max - min \in Nat
  OBVIOUS
<1> HIDE DEF mu
<1>4. mu \in [D -> Nat] /\ \A r \in D : mu[r] <= max - min
  <2>1. mu = [r \in D |-> mu[r]]
    BY DEF mu
  <2> HIDE DEF D
  <2> QED
    BY <1>2, <2>1
<1>5. ASSUME NEW r \in D, NEW f \in [D -> V] PROVE body(r, f) \in V
  <2> HIDE DEF D, V, mid
  <2> QED
    BY <1>2
<1>6. ASSUME NEW r \in D, NEW f, NEW g, \A y \in D : mu[y] < mu[r] => f[y] = g[y]
      PROVE  body(r, f) = body(r, g)
  <2> HIDE DEF D, V, mid
  <2> QED
    BY <1>2, <1>6
<1> HIDE DEF D, V, body
<1>7. G \in [D -> [[D -> V] -> V]] /\ \A r \in D : \A f \in [D -> V] : G[r][f] = body(r, f)
  BY <1>5
<1> HIDE DEF G
<1>8. PICK f \in [D -> V] : \A r \in D : f[r] = G[r][f]
  <2>1. \A r \in D : \A f, g \in [D -> V] :
           (\A y \in D : mu[y] < mu[r] => f[y] = g[y]) => G[r][f] = G[r][g]
    BY <1>6, <1>7
  <2>2. Descends(D, V, mu, max - min, G)
    BY <1>3, <1>4, <1>7, <2>1 DEF Descends
  <2> QED
    BY <2>2, RecursionExists
<1>9. f = [r \in D |-> body(r, f)]
  BY <1>7, <1>8
<1>10. Halves(val, a, min, max, f)
  BY <1>9 DEF Halves, body, D
<1> QED
  BY <1>10

\* binary_search finds the place too.
LEMMA BinaryRight ==
  ASSUME NEW n \in Nat, NEW a \in [0 .. n - 1 -> Nat], Increasing(a, n), NEW val \in Nat,
         NEW min \in 0 .. n - 1, NEW max \in 0 .. n, min < max
  PROVE  Finds(val, a, min, max, BinarySearch(val, a, min, max))
<1> DEFINE f == CHOOSE g : Halves(val, a, min, max, g)
<1>1. BinarySearch(val, a, min, max) = f[<<min, max>>]
  BY DEF BinarySearch, Halves
<1>2. Halves(val, a, min, max, f)
  <2>1. min \in Nat /\ max \in Nat /\ min <= max
    OBVIOUS
  <2> QED
    BY <2>1, HalvesExists
<1> HIDE DEF f
<1>3. BinaryThreshold \in Nat /\ BinaryThreshold >= 2
  BY LookupAssumption
<1> DEFINE good(l, h) == Finds(val, a, l, h, f[<<l, h>>])
           bad == {d \in 1 .. max - min : \E l, h \in min .. max : h - l = d /\ ~good(l, h)}
<1>4. ASSUME NEW l \in min .. max, NEW h \in min .. max, l < h,
             \A i, j \in min .. max : i < j /\ j - i < h - l => good(i, j)
      PROVE  good(l, h)
  <2>1. l \in 0 .. n - 1 /\ h \in 0 .. n /\ l \in Nat /\ h \in Nat
    BY <1>4
  <2>2. PICK m : m = (h + l) \div 2
    OBVIOUS
  <2>3. f[<<l, h>>] = IF h - l < BinaryThreshold THEN IterativeSearch(val, a, l, h)
                      ELSE IF a[m] = val THEN m
                      ELSE IF a[m] > val THEN f[<<l, m>>] ELSE f[<<m, h>>]
    <3>1. PICK r : r = <<l, h>>
      OBVIOUS
    <3>2. r \in (min .. max) \X (min .. max) /\ r[1] = l /\ r[2] = h
      BY <3>1
    <3>3. f[r] = IF h - l < BinaryThreshold THEN IterativeSearch(val, a, l, h)
                 ELSE IF a[m] = val THEN m
                 ELSE IF a[m] > val THEN f[<<l, m>>] ELSE f[<<m, h>>]
      BY ONLY <1>2, <2>2, <3>2 DEF Halves
    <3> QED
      BY ONLY <3>1, <3>3
  <2>4. CASE h - l < BinaryThreshold
    BY <1>4, <2>1, <2>3, <2>4, IterativeRight
  <2>5. CASE ~(h - l < BinaryThreshold)
    <3>1. m \in Nat /\ l < m /\ m < h /\ m \in min .. max /\ m \in 0 .. n - 1 /\ m \in l .. h - 1
          /\ m - l < h - l /\ h - m < h - l
      <4>1. h - l >= 2
        BY <1>3, <2>1, <2>5
      <4>2. m \in Nat /\ l < m /\ m < h
        BY <2>1, <2>2, <4>1
      <4> QED
        BY <2>1, <4>2
    <3>2. \A j \in l .. h - 1 : /\ j \in 0 .. n - 1 /\ j \in Nat /\ a[j] \in Nat
                                /\ (j < m => a[j] < a[m]) /\ (m < j => a[m] < a[j])
      BY <2>1, <3>1 DEF Increasing
    <3>3. a[m] \in Nat
      BY <3>1
    <3>4. CASE a[m] = val
      <4>1. f[<<l, h>>] = m
        BY <2>3, <2>5, <3>4
      <4>2. \A j \in l .. h - 1 : (j < m => a[j] < val) /\ (m < j => a[j] > val)
        BY <3>2, <3>3, <3>4
      <4>3. a[m] <= val
        BY <3>3, <3>4
      <4> QED
        BY <3>1, <4>1, <4>2, <4>3 DEF Finds
    <3>5. CASE a[m] > val
      <4>1. PICK r : r = f[<<l, m>>]
        OBVIOUS
      <4>2. f[<<l, h>>] = r
        BY <2>3, <2>5, <3>3, <3>5, <4>1
      <4>3. Finds(val, a, l, m, r)
        BY <1>4, <3>1, <4>1
      <4>4. r \in l .. m - 1 /\ (\A j \in l .. m - 1 : (j < r => a[j] < val) /\ (r < j => a[j] > val)) /\ (r = l \/ a[r] <= val)
        BY <4>3 DEF Finds
      <4>5. r \in l .. h - 1 /\ r < m
        BY <2>1, <3>1, <4>4
      <4>6. ASSUME NEW j \in l .. h - 1 PROVE (j < r => a[j] < val) /\ (r < j => a[j] > val)
        <5>1. CASE j < m
          <6>1. j \in l .. m - 1
            BY <2>1, <3>1, <5>1
          <6> QED
            BY <4>4, <6>1
        <5>2. CASE ~(j < m)
          <6>1. a[m] <= a[j] /\ ~(j < r) /\ a[j] \in Nat
            BY <3>1, <3>2, <3>3, <4>5, <5>2
          <6> QED
            BY <3>3, <3>5, <6>1
        <5> QED
          BY <5>1, <5>2
      <4> QED
        BY <4>2, <4>4, <4>5, <4>6 DEF Finds
    <3>6. CASE a[m] < val
      <4>1. PICK r : r = f[<<m, h>>]
        OBVIOUS
      <4>2. f[<<l, h>>] = r
        BY <2>3, <2>5, <3>3, <3>6, <4>1
      <4>3. Finds(val, a, m, h, r)
        BY <1>4, <3>1, <4>1
      <4>4. r \in m .. h - 1 /\ (\A j \in m .. h - 1 : (j < r => a[j] < val) /\ (r < j => a[j] > val)) /\ (r = m \/ a[r] <= val)
        BY <4>3 DEF Finds
      <4>5. r \in l .. h - 1 /\ m <= r
        BY <2>1, <3>1, <4>4
      <4>6. ASSUME NEW j \in l .. h - 1 PROVE (j < r => a[j] < val) /\ (r < j => a[j] > val)
        <5>1. CASE ~(j < m)
          <6>1. j \in m .. h - 1
            BY <2>1, <3>1, <5>1
          <6> QED
            BY <4>4, <6>1
        <5>2. CASE j < m
          <6>1. a[j] < a[m] /\ ~(r < j) /\ a[j] \in Nat
            BY <3>1, <3>2, <3>3, <4>5, <5>2
          <6> QED
            BY <3>3, <3>6, <6>1
        <5> QED
          BY <5>1, <5>2
      <4>7. a[r] <= val
        BY <3>3, <3>6, <4>4
      <4> QED
        BY <4>2, <4>5, <4>6, <4>7 DEF Finds
    <3> QED
      BY <3>3, <3>4, <3>5, <3>6
  <2> QED
    BY <2>4, <2>5
<1> HIDE DEF good
<1>5. bad = {}
  <2> SUFFICES ASSUME bad # {} PROVE FALSE
    OBVIOUS
  <2>1. PICK d \in bad : \A e \in bad : d <= e
    <3>1. bad \in SUBSET Nat
      OBVIOUS
    <3> HIDE DEF bad
    <3> QED
      BY <3>1, LeastNat
  <2>2. d \in 1 .. max - min
    BY <2>1
  <2>3. PICK l \in min .. max, h \in min .. max : h - l = d /\ ~good(l, h)
    BY <2>1
  <2>4. ASSUME NEW i \in min .. max, NEW j \in min .. max, i < j, j - i < h - l PROVE good(i, j)
    <3>1. j - i \in 1 .. max - min /\ ~(d <= j - i)
      BY <2>3, <2>4
    <3>2. j - i \notin bad
      BY <2>1, <3>1
    <3> QED
      BY <3>1, <3>2
  <2>5. l < h
    BY <2>2, <2>3
  <2> QED
    BY <1>4, <2>3, <2>4, <2>5
<1>6. good(min, max)
  <2>1. max - min \in 1 .. max - min /\ min \in min .. max /\ max \in min .. max
    OBVIOUS
  <2> QED
    BY <1>5, <2>1
<1> QED
  BY <1>1, <1>6 DEF good

(***************************************************************************)
(* Words with marks.                                                       *)
(***************************************************************************)

\* A mark changes how a word compares with an address only where they are the same.
LEMMA MaskFacts ==
  ASSUME NEW u \in Nat
  PROVE  /\ PTR_MASK(u) \in Nat /\ PTR_MASK(u) % 2 = 0 /\ PTR_MASK(u) <= u /\ u <= PTR_MASK(u) + 1
         /\ u % 2 = 0 => PTR_MASK(u) = u
         /\ \A v \in Nat : v % 2 = 0 => /\ u < v <=> PTR_MASK(u) < v
                                        /\ u > v => PTR_MASK(u) >= v
                                        /\ PTR_MASK(u) > v => u > v
<1>1. u % 2 \in 0 .. 1
  OBVIOUS
<1>2. \A k, v \in Nat : k % 2 = 0 /\ v % 2 = 0 /\ k < v => k + 1 < v
  OBVIOUS
<1>3. PTR_MASK(u) \in Nat /\ PTR_MASK(u) % 2 = 0 /\ PTR_MASK(u) <= u /\ u <= PTR_MASK(u) + 1
  BY <1>1 DEF PTR_MASK
<1>4. u % 2 = 0 => PTR_MASK(u) = u
  BY DEF PTR_MASK
<1> QED
  BY <1>2, <1>3, <1>4

\* The length of an array.
LEMMA LengthIs ==
  ASSUME NEW n \in Nat, NEW a, DOMAIN a = 0 .. n - 1
  PROVE  Length(a) = n
<1>1. Cardinality(0 .. n - 1) = IF 0 > n - 1 THEN 0 ELSE n - 1 - 0 + 1
  BY FS_Interval
<1> QED
  BY <1>1 DEF Length

\* A buffer of n addresses in increasing order, marked or not.
Buffer(a, n) ==
  /\ n \in Nat /\ a \in [0 .. n - 1 -> Nat]
  /\ \A i, j \in 0 .. n - 1 : i < j => PTR_MASK(a[i]) < PTR_MASK(a[j])

\* Its words increase too, whatever is marked.
LEMMA BufferIncreases ==
  ASSUME NEW a, NEW n, Buffer(a, n)
  PROVE  Increasing(a, n)
<1> SUFFICES ASSUME NEW i \in 0 .. n - 1, NEW j \in 0 .. n - 1, i < j PROVE a[i] < a[j]
  BY DEF Increasing
<1>1. a[i] \in Nat /\ a[j] \in Nat /\ PTR_MASK(a[i]) < PTR_MASK(a[j])
  BY DEF Buffer
<1>2. PTR_MASK(a[j]) \in Nat /\ PTR_MASK(a[j]) % 2 = 0 /\ PTR_MASK(a[j]) <= a[j]
  BY <1>1, MaskFacts
<1>3. a[i] < PTR_MASK(a[j])
  BY <1>1, <1>2, MaskFacts
<1> QED
  BY <1>1, <1>2, <1>3

\* loc is where val is in the buffer, marked or not, or next to where it would be.
Locates(val, a, n, loc) ==
  /\ loc \in 0 .. n - 1
  /\ \A j \in 0 .. n - 1 : (j < loc => a[j] < val) /\ (loc < j => a[j] > val)
  /\ loc = 0 \/ PTR_MASK(a[loc]) <= val

\* How the pages of size p cover n words.
LEMMA PagesCover ==
  ASSUME NEW n \in Nat \ {0}, NEW p \in Nat \ {0}, NEW m, m = (n + p - 1) \div p
  PROVE  /\ m \in Nat \ {0}
         /\ \A v \in 0 .. m - 1 : v * p \in 0 .. n - 1
         /\ \A v \in 0 .. m - 2 : (v + 1) * p \in 0 .. n - 1 /\ v * p < (v + 1) * p
         /\ \A v, w \in 0 .. m - 1 : v < w => v * p < w * p
<1>1. \A x \in Nat, y \in Nat \ {0} : x \div y \in Nat /\ y * (x \div y) <= x /\ x < y * (x \div y) + y
  OBVIOUS
<1>2. m \in Nat /\ p * m <= n + p - 1 /\ n + p - 1 < p * m + p
  BY <1>1
<1>3. m # 0
  BY <1>2
<1>4. \A x, y \in Nat : x <= y => x * p <= y * p
  OBVIOUS
<1>5. \A x \in Nat : (x + 1) * p = x * p + p /\ x * p \in Nat
  OBVIOUS
<1>6. (m - 1) * p <= n - 1
  <2>1. m - 1 \in Nat
    BY <1>2, <1>3
  <2>2. m * p = (m - 1) * p + p /\ (m - 1) * p \in Nat /\ p * m = m * p
    BY <2>1, <1>5, <1>2
  <2> QED
    BY <1>2, <2>2
<1>7. \A v \in 0 .. m - 1 : v * p \in 0 .. n - 1
  <2> TAKE v \in 0 .. m - 1
  <2>1. v \in Nat /\ m - 1 \in Nat /\ v <= m - 1
    BY <1>2, <1>3
  <2>2. v * p <= (m - 1) * p /\ v * p \in Nat /\ (m - 1) * p \in Nat
    BY <2>1, <1>4, <1>5
  <2> QED
    BY <1>6, <2>2
<1>8. \A v \in 0 .. m - 2 : (v + 1) * p \in 0 .. n - 1 /\ v * p < (v + 1) * p
  <2> TAKE v \in 0 .. m - 2
  <2>1. v \in Nat /\ v + 1 \in 0 .. m - 1
    BY <1>2, <1>3
  <2>2. (v + 1) * p = v * p + p /\ v * p \in Nat
    BY <2>1, <1>5
  <2> QED
    BY <1>7, <2>1, <2>2
<1>9. ASSUME NEW v \in 0 .. m - 1, NEW w \in 0 .. m - 1, v < w PROVE v * p < w * p
  <2>1. v \in Nat /\ w \in Nat /\ v + 1 \in Nat /\ v + 1 <= w
    BY <1>2, <1>9
  <2>2. (v + 1) * p <= w * p
    BY <2>1, <1>4
  <2>3. (v + 1) * p = v * p + p /\ v * p \in Nat /\ w * p \in Nat
    BY <2>1, <1>5
  <2> QED
    BY <2>2, <2>3
<1> QED
  BY <1>2, <1>3, <1>7, <1>8, <1>9

\* addr_find: the page, then the place on it.
LEMMA AddrFindRight ==
  ASSUME NEW a, NEW n \in Nat \ {0}, Buffer(a, n), NEW val \in Nat, val % 2 = 0
  PROVE  Locates(val, a, n, AddrFind(val, a))
<1> DEFINE at(j) == PTR_MASK(a[j])
<1>1. /\ a \in [0 .. n - 1 -> Nat]
      /\ \A i, j \in 0 .. n - 1 : i < j => at(i) < at(j)
  BY DEF Buffer
<1>2. \A j \in 0 .. n - 1 : /\ a[j] \in Nat /\ at(j) \in Nat /\ at(j) <= a[j]
                            /\ (a[j] < val <=> at(j) < val) /\ (at(j) > val => a[j] > val)
  BY <1>1, MaskFacts
<1>3. PICK p \in Nat \ {0} : p = PageWords
  BY LookupAssumption
<1>4. PICK m : m = (n + p - 1) \div p
  OBVIOUS
<1>5. /\ m \in Nat \ {0}
      /\ \A v \in 0 .. m - 1 : v * p \in 0 .. n - 1
      /\ \A v \in 0 .. m - 2 : (v + 1) * p \in 0 .. n - 1 /\ v * p < (v + 1) * p
      /\ \A v, w \in 0 .. m - 1 : v < w => v * p < w * p
  BY <1>4, PagesCover
<1>6. Length(a) = n
  BY <1>1, LengthIs
<1>7. PICK map : map = [v \in 0 .. m - 1 |-> PTR_MASK(a[v * p])]
  OBVIOUS
<1>8. Minimap(a) = map
  BY <1>3, <1>4, <1>6, <1>7 DEF Minimap
<1>9. /\ \A v \in 0 .. m - 1 : map[v] = at(v * p) /\ map[v] \in Nat
      /\ map \in [0 .. m - 1 -> Nat]
  BY <1>2, <1>5, <1>7
<1>10. Increasing(map, m) /\ Length(map) = m
  <2>1. Length(map) = m
    BY <1>5, <1>9, LengthIs
  <2>2. ASSUME NEW v \in 0 .. m - 1, NEW w \in 0 .. m - 1, v < w PROVE map[v] < map[w]
    <3>1. v * p \in 0 .. n - 1 /\ w * p \in 0 .. n - 1 /\ v * p < w * p
      BY <1>5, <2>2
    <3> QED
      BY <1>1, <1>9, <3>1
  <2> QED
    BY <2>1, <2>2 DEF Increasing
<1>11. PICK v : v = BinarySearch(val, map, 0, m)
  OBVIOUS
<1>12. Finds(val, map, 0, m, v)
  <2>1. m \in Nat /\ 0 \in 0 .. m - 1 /\ m \in 0 .. m /\ 0 < m
    BY <1>5
  <2> QED
    BY <1>9, <1>10, <1>11, <2>1, BinaryRight
<1>13. v \in 0 .. m - 1 /\ (v = 0 \/ map[v] <= val) /\ \A j \in 0 .. m - 1 : v < j => map[j] > val
  BY <1>12 DEF Finds
<1>14. PICK lo : lo = v * p
  OBVIOUS
<1>15. PICK hi : hi = IF v = m - 1 THEN n ELSE (v + 1) * p
  OBVIOUS
<1>16. lo \in 0 .. n - 1 /\ hi \in 0 .. n /\ lo < hi /\ (v = 0 => lo = 0)
  <2>1. lo \in 0 .. n - 1
    BY <1>5, <1>13, <1>14
  <2>2. v = 0 => lo = 0
    BY <1>3, <1>14
  <2>3. CASE v = m - 1
    BY <1>15, <2>1, <2>2, <2>3
  <2>4. CASE v # m - 1
    <3>1. v \in 0 .. m - 2
      BY <1>5, <1>13, <2>4
    <3>2. hi \in 0 .. n - 1 /\ lo < hi
      BY <1>5, <1>14, <1>15, <2>4, <3>1
    <3> QED
      BY <2>1, <2>2, <3>2
  <2> QED
    BY <2>3, <2>4
<1>17. PICK r : r = BinarySearch(val, a, lo, hi)
  OBVIOUS
<1>18. AddrFind(val, a) = r
  BY <1>3, <1>6, <1>8, <1>10, <1>11, <1>14, <1>15, <1>17 DEF AddrFind
<1>19. Finds(val, a, lo, hi, r)
  BY <1>1, <1>16, <1>17, BufferIncreases, BinaryRight
<1>20. /\ r \in lo .. hi - 1
       /\ \A j \in lo .. hi - 1 : (j < r => a[j] < val) /\ (r < j => a[j] > val)
       /\ r = lo \/ a[r] <= val
  BY <1>19 DEF Finds
<1>21. v # 0 => at(lo) <= val
  BY <1>9, <1>13, <1>14
<1>22. hi # n => hi \in 0 .. n - 1 /\ at(hi) > val
  <2> SUFFICES ASSUME hi # n PROVE hi \in 0 .. n - 1 /\ at(hi) > val
    OBVIOUS
  <2>1. v # m - 1 /\ hi = (v + 1) * p
    BY <1>15
  <2>2. v + 1 \in 0 .. m - 1 /\ v < v + 1
    BY <1>5, <1>13, <2>1
  <2>3. map[v + 1] > val
    BY <1>13, <2>2
  <2> QED
    BY <1>5, <1>9, <2>1, <2>2, <2>3
<1>23. ASSUME NEW j \in 0 .. n - 1 PROVE (j < r => a[j] < val) /\ (r < j => a[j] > val)
  <2>1. CASE j \in lo .. hi - 1
    BY <1>20, <2>1
  <2>2. CASE j < lo
    <3>1. v # 0 /\ at(j) < at(lo) /\ ~(r < j)
      BY <1>1, <1>16, <1>20, <2>2
    <3>2. at(j) < val
      BY <1>2, <1>16, <1>21, <3>1
    <3> QED
      BY <1>2, <3>1, <3>2
  <2>3. CASE ~(j < hi)
    <3>1. hi # n /\ ~(j < r)
      BY <1>16, <1>20, <2>3
    <3>2. at(hi) > val /\ hi \in 0 .. n - 1
      BY <1>22, <3>1
    <3>3. j = hi \/ at(hi) < at(j)
      BY <1>1, <2>3, <3>2
    <3>4. at(j) > val
      BY <1>2, <3>2, <3>3
    <3> QED
      BY <1>2, <3>1, <3>4
  <2> QED
    BY <1>16, <2>1, <2>2, <2>3
<1>24. r \in 0 .. n - 1
  BY <1>16, <1>20
<1>25. r = 0 \/ at(r) <= val
  <2>1. CASE r = lo
    BY <1>16, <1>21, <2>1
  <2>2. CASE a[r] <= val
    BY <1>2, <1>24, <2>2
  <2> QED
    BY <1>20, <2>1, <2>2
<1> QED
  BY <1>18, <1>23, <1>24, <1>25 DEF Locates

\* Sorted lists the elements of a finite set of numbers, from the least to the largest.
LEMMA SortedRight ==
  ASSUME NEW T \in SUBSET Nat, IsFiniteSet(T), NEW n, n = Cardinality(T)
  PROVE  /\ n \in Nat /\ Sorted(T) \in [0 .. n - 1 -> T]
         /\ \A i, j \in 0 .. n - 1 : i < j => Sorted(T)[i] < Sorted(T)[j]
         /\ \A x \in T : \E i \in 0 .. n - 1 : Sorted(T)[i] = x
<1> DEFINE below(x) == {y \in T : y < x}
           rank == [x \in T |-> Cardinality(below(x))]
<1>1. n \in Nat
  BY FS_CardinalityType
<1>2. \A x \in T : IsFiniteSet(below(x)) /\ Cardinality(below(x)) \in Nat
  <2> TAKE x \in T
  <2>1. below(x) \in SUBSET T
    OBVIOUS
  <2>2. IsFiniteSet(below(x))
    BY <2>1, FS_Subset
  <2> QED
    BY <2>2, FS_CardinalityType
<1>3. ASSUME NEW x \in T, NEW y \in T, x < y PROVE Cardinality(below(x)) < Cardinality(below(y))
  <2>0. x \in Nat /\ y \in Nat /\ \A z \in T : z \in Nat
    OBVIOUS
  <2>1. below(x) \in SUBSET below(y) /\ x \in below(y) /\ x \notin below(x)
    <3>1. \A z \in T : z < x => z < y
      BY <1>3, <2>0
    <3>2. ~(x < x)
      BY <2>0
    <3>3. \A u, z : z \in below(u) <=> z \in T /\ z < u
      OBVIOUS
    <3> HIDE DEF below
    <3> QED
      BY <1>3, <3>1, <3>2, <3>3
  <2>2. Cardinality(below(x)) <= Cardinality(below(y))
        /\ (Cardinality(below(y)) = Cardinality(below(x)) => below(y) = below(x))
    BY <1>2, <2>1, FS_Subset
  <2> QED
    BY <1>2, <2>1, <2>2
<1>4. ASSUME NEW x \in T PROVE Cardinality(below(x)) \in 0 .. n - 1
  <2>1. below(x) \in SUBSET T /\ x \notin below(x)
    OBVIOUS
  <2>2. Cardinality(below(x)) <= n /\ (n = Cardinality(below(x)) => T = below(x))
    BY <2>1, FS_Subset
  <2> QED
    BY <1>1, <1>2, <2>1, <2>2
<1>5. \A x \in T : rank[x] = Cardinality(below(x))
  OBVIOUS
<1>6. rank \in [T -> 0 .. n - 1]
  BY <1>4
<1> HIDE DEF rank
<1>7. \A x, y \in T : rank[x] = rank[y] => x = y
  <2> SUFFICES ASSUME NEW x \in T, NEW y \in T, rank[x] = rank[y] PROVE x = y
    OBVIOUS
  <2> HIDE DEF below
  <2>0. x \in Nat /\ y \in Nat /\ rank[x] = Cardinality(below(x)) /\ rank[y] = Cardinality(below(y))
    BY <1>5
  <2>3. PICK c \in Nat : c = Cardinality(below(x)) /\ c = Cardinality(below(y))
    BY <1>2, <2>0
  <2>1. ~(x < y)
    <3> SUFFICES ASSUME x < y PROVE FALSE
      OBVIOUS
    <3>1. c < c
      BY <1>3, <2>3
    <3> QED
      BY <3>1
  <2>2. ~(y < x)
    <3> SUFFICES ASSUME y < x PROVE FALSE
      OBVIOUS
    <3>1. c < c
      BY <1>3, <2>3
    <3> QED
      BY <3>1
  <2> QED
    BY <2>0, <2>1, <2>2
<1>8. \A i \in 0 .. n - 1 : \E x \in T : rank[x] = i
  <2>1. rank \in Injection(T, 0 .. n - 1)
    BY <1>6, <1>7 DEF Injection, IsInjective
  <2>2. IsFiniteSet(0 .. n - 1) /\ Cardinality(0 .. n - 1) = n
    <3>1. 0 \in Int /\ n - 1 \in Int
      BY <1>1
    <3>2. IsFiniteSet(0 .. n - 1) /\ Cardinality(0 .. n - 1) = IF 0 > n - 1 THEN 0 ELSE n - 1 - 0 + 1
      BY <3>1, FS_Interval
    <3> QED
      BY <1>1, <3>2
  <2>3. rank \in Surjection(T, 0 .. n - 1)
    BY <2>1, <2>2, FS_Injection
  <2> QED
    BY <2>3 DEF Surjection
<1>9. PICK s : s = Sorted(T)
  OBVIOUS
<1>99. s = [i \in 0 .. n - 1 |-> CHOOSE x \in T : Cardinality(below(x)) = i]
  BY <1>9 DEF Sorted
<1> HIDE DEF below
<1>10. /\ s = [i \in 0 .. n - 1 |-> s[i]]
       /\ \A i \in 0 .. n - 1 : s[i] = CHOOSE x \in T : Cardinality(below(x)) = i
  BY <1>99
<1>11. \A i \in 0 .. n - 1 : s[i] \in T /\ rank[s[i]] = i
  <2> TAKE i \in 0 .. n - 1
  <2>1. \E x \in T : Cardinality(below(x)) = i
    BY <1>5, <1>8
  <2>2. s[i] \in T /\ Cardinality(below(s[i])) = i
    BY <1>10, <2>1
  <2> QED
    BY <1>5, <2>2
<1>12. s \in [0 .. n - 1 -> T]
  BY <1>10, <1>11
<1>13. ASSUME NEW i \in 0 .. n - 1, NEW j \in 0 .. n - 1, i < j PROVE s[i] < s[j]
  <2>1. s[i] \in T /\ s[j] \in T /\ rank[s[i]] = i /\ rank[s[j]] = j
    BY <1>11
  <2>2. ~(rank[s[j]] < rank[s[i]]) /\ s[i] # s[j]
    BY <1>13, <2>1
  <2>3. ~(s[j] < s[i])
    BY <1>3, <1>5, <2>1, <2>2
  <2>4. s[i] \in Nat /\ s[j] \in Nat
    BY <2>1
  <2> QED
    BY <2>2, <2>3, <2>4
<1>14. ASSUME NEW x \in T PROVE \E i \in 0 .. n - 1 : s[i] = x
  <2>1. rank[x] \in 0 .. n - 1
    BY <1>6
  <2>2. s[rank[x]] = x
    BY <1>7, <1>11, <2>1
  <2> QED
    BY <2>1, <2>2
<1> QED
  BY <1>1, <1>9, <1>12, <1>13, <1>14

(***************************************************************************)
(* find_roots.                                                             *)
(***************************************************************************)

\* B are the blocks, np of them in the pool and nd dead, none within another.
BlocksApart(B, np, nd) ==
  /\ np \in Nat /\ nd \in Nat /\ Length(addrs) = np /\ Length(deadrefs) = nd
  /\ Infinity \in Nat /\ AddrAt(addrs, np) = Infinity /\ AddrAt(deadrefs, nd) = Infinity
  /\ \A b \in B : b \in Nat /\ b < Infinity /\ size[b] \in Nat \ {0}
  /\ \A b, c \in B : b < c => b + size[b] <= c
  /\ \A i \in 0 .. np - 1 : AddrAt(addrs, i) \in B
  /\ \A i \in 0 .. nd - 1 : AddrAt(deadrefs, i) \in B
  /\ \A i, j \in 0 .. np - 1 : i < j => AddrAt(addrs, i) < AddrAt(addrs, j)
  /\ \A i, j \in 0 .. nd - 1 : i < j => AddrAt(deadrefs, i) < AddrAt(deadrefs, j)
  /\ \A i \in 0 .. np - 1, j \in 0 .. nd - 1 : AddrAt(addrs, i) # AddrAt(deadrefs, j)
  /\ \A b \in B : \/ \E i \in 0 .. np - 1 : AddrAt(addrs, i) = b
                  \/ \E i \in 0 .. nd - 1 : AddrAt(deadrefs, i) = b

\* The blocks of buf before index p end at low or before, the others begin there or later.
Parted(buf, n, low, p) ==
  /\ p \in 0 .. n
  /\ \A i \in 0 .. n - 1 : /\ i < p => AddrAt(buf, i) + size[AddrAt(buf, i)] <= low
                           /\ p <= i => low <= AddrAt(buf, i)

\* The words of low .. high - 1 in none of the blocks.
Free(B, low, high) ==
  {w \in Memory : low <= w /\ w < high /\ ~\E b \in B : b <= w /\ w < b + size[b]}

\* A step of the scan over the next block.
LEMMA OverBlock ==
  ASSUME NEW B, NEW np, NEW nd, BlocksApart(B, np, nd), NEW low \in Nat, NEW p, NEW d,
         Parted(addrs, np, low, p), Parted(deadrefs, nd, low, d),
         NEW g, g = Min({AddrAt(addrs, p), AddrAt(deadrefs, d)})
  PROVE  /\ g \in Nat
         /\ AddrAt(addrs, p) \in Nat /\ AddrAt(deadrefs, d) \in Nat
         /\ \A b \in B : b + size[b] <= low \/ g <= b
         /\ g < Infinity =>
              /\ g \in B /\ low <= g
              /\ g = AddrAt(addrs, p) => /\ Parted(addrs, np, g + size[g], p + 1)
                                         /\ Parted(deadrefs, nd, g + size[g], d)
              /\ g # AddrAt(addrs, p) => /\ Parted(addrs, np, g + size[g], p)
                                         /\ Parted(deadrefs, nd, g + size[g], d + 1)
<1> DEFINE A(i) == AddrAt(addrs, i)
           C(i) == AddrAt(deadrefs, i)
<1>1. /\ np \in Nat /\ nd \in Nat
      /\ Infinity \in Nat /\ A(np) = Infinity /\ C(nd) = Infinity
      /\ \A b \in B : b \in Nat /\ b < Infinity /\ size[b] \in Nat \ {0}
      /\ \A b, c \in B : b < c => b + size[b] <= c
      /\ \A i \in 0 .. np - 1 : A(i) \in B
      /\ \A i \in 0 .. nd - 1 : C(i) \in B
      /\ \A i, j \in 0 .. np - 1 : i < j => A(i) < A(j)
      /\ \A i, j \in 0 .. nd - 1 : i < j => C(i) < C(j)
      /\ \A i \in 0 .. np - 1, j \in 0 .. nd - 1 : A(i) # C(j)
      /\ \A b \in B : \/ \E i \in 0 .. np - 1 : A(i) = b
                      \/ \E i \in 0 .. nd - 1 : C(i) = b
  BY DEF BlocksApart
<1>2. /\ p \in 0 .. np
      /\ \A i \in 0 .. np - 1 : /\ i < p => A(i) + size[A(i)] <= low
                                /\ p <= i => low <= A(i)
  BY DEF Parted
<1>3. /\ d \in 0 .. nd
      /\ \A i \in 0 .. nd - 1 : /\ i < d => C(i) + size[C(i)] <= low
                                /\ d <= i => low <= C(i)
  BY DEF Parted
<1> HIDE DEF A, C
<1>5. A(p) \in Nat /\ C(d) \in Nat /\ A(p) <= Infinity /\ C(d) <= Infinity
  <2>1. p = np \/ p \in 0 .. np - 1
    BY <1>1, <1>2
  <2>2. d = nd \/ d \in 0 .. nd - 1
    BY <1>1, <1>3
  <2>3. \A b \in B : b <= Infinity
    BY <1>1
  <2> QED
    BY <1>1, <2>1, <2>2, <2>3
<1>6. g = IF A(p) <= C(d) THEN A(p) ELSE C(d)
  BY <1>5, MinOfTwo DEF A, C
<1>7. g \in Nat /\ g <= A(p) /\ g <= C(d) /\ g <= Infinity
  BY <1>5, <1>6
<1>8. \A i \in 0 .. np - 1 : p <= i => g <= A(i)
  <2> SUFFICES ASSUME NEW i \in 0 .. np - 1, p <= i PROVE g <= A(i)
    OBVIOUS
  <2>1. p = i \/ (p \in 0 .. np - 1 /\ p < i)
    BY <1>1, <1>2
  <2>2. A(p) <= A(i) /\ A(i) \in Nat
    BY <1>1, <1>5, <2>1
  <2> QED
    BY <1>5, <1>7, <2>2
<1>9. \A i \in 0 .. nd - 1 : d <= i => g <= C(i)
  <2> SUFFICES ASSUME NEW i \in 0 .. nd - 1, d <= i PROVE g <= C(i)
    OBVIOUS
  <2>1. d = i \/ (d \in 0 .. nd - 1 /\ d < i)
    BY <1>1, <1>3
  <2>2. C(d) <= C(i) /\ C(i) \in Nat
    BY <1>1, <1>5, <2>1
  <2> QED
    BY <1>5, <1>7, <2>2
<1>10. ASSUME NEW b \in B PROVE b + size[b] <= low \/ g <= b
  <2>1. CASE \E i \in 0 .. np - 1 : A(i) = b
    <3>1. PICK i \in 0 .. np - 1 : A(i) = b
      BY <2>1
    <3>2. i < p \/ p <= i
      BY <1>1, <1>2
    <3> QED
      BY <1>2, <1>8, <3>1, <3>2
  <2>2. CASE \E i \in 0 .. nd - 1 : C(i) = b
    <3>1. PICK i \in 0 .. nd - 1 : C(i) = b
      BY <2>2
    <3>2. i < d \/ d <= i
      BY <1>1, <1>3
    <3> QED
      BY <1>3, <1>9, <3>1, <3>2
  <2> QED
    BY <1>1, <2>1, <2>2
<1>11. ASSUME g = A(p), g < Infinity
       PROVE  g \in B /\ p \in 0 .. np - 1 /\ low <= g
  <2>1. p # np
    BY <1>1, <1>11
  <2>2. p \in 0 .. np - 1
    BY <1>1, <1>2, <2>1
  <2>3. p <= p
    BY <1>2
  <2> QED
    BY <1>1, <1>2, <1>11, <2>2, <2>3
<1>12. ASSUME g # A(p), g < Infinity
       PROVE  g = C(d) /\ g \in B /\ d \in 0 .. nd - 1 /\ low <= g
  <2>0. g = C(d)
    BY <1>6, <1>12
  <2>1. d # nd
    BY <1>1, <1>12, <2>0
  <2>2. d \in 0 .. nd - 1
    BY <1>1, <1>3, <2>1
  <2>3. d <= d
    BY <1>3
  <2> QED
    BY <1>1, <1>3, <2>0, <2>2, <2>3
<1>13. ASSUME NEW b \in B, g \in B, g # b, g <= b PROVE g + size[g] <= b
  BY <1>1, <1>7, <1>13
<1>14. ASSUME NEW x \in Nat, low <= x, NEW i, A(i) + size[A(i)] <= low, A(i) \in B
       PROVE  A(i) + size[A(i)] <= x
  BY <1>1, <1>14
<1>15. ASSUME NEW x \in Nat, low <= x, NEW i, C(i) + size[C(i)] <= low, C(i) \in B
       PROVE  C(i) + size[C(i)] <= x
  BY <1>1, <1>15
<1>16. ASSUME g = A(p), g < Infinity
       PROVE  Parted(addrs, np, g + size[g], p + 1) /\ Parted(deadrefs, nd, g + size[g], d)
  <2>1. g \in B /\ p \in 0 .. np - 1 /\ low <= g /\ g + size[g] \in Nat /\ low <= g + size[g] /\ p + 1 \in 0 .. np
    <3>1. g \in B /\ p \in 0 .. np - 1 /\ low <= g
      BY <1>11, <1>16
    <3>2. g \in Nat /\ size[g] \in Nat
      BY <1>1, <3>1
    <3> QED
      BY <1>1, <3>1, <3>2
  <2>2. ASSUME NEW i \in 0 .. np - 1
        PROVE  /\ i < p + 1 => A(i) + size[A(i)] <= g + size[g]
               /\ p + 1 <= i => g + size[g] <= A(i)
    <3>1. CASE i < p
      <4>1. A(i) + size[A(i)] <= g + size[g]
        BY <1>1, <1>2, <1>14, <2>1, <3>1
      <4> QED
        BY <2>1, <3>1, <4>1
    <3>2. CASE i = p
      <4>1. A(i) + size[A(i)] <= g + size[g]
        BY <1>16, <2>1, <3>2
      <4> QED
        BY <2>1, <3>2, <4>1
    <3>3. CASE p < i
      <4>1. A(i) \in B /\ g < A(i) /\ ~(i < p + 1)
        BY <1>1, <1>16, <2>1, <3>3
      <4>2. g + size[g] <= A(i)
        BY <1>1, <2>1, <4>1
      <4> QED
        BY <4>1, <4>2
    <3> QED
      BY <2>1, <3>1, <3>2, <3>3
  <2>3. ASSUME NEW i \in 0 .. nd - 1
        PROVE  /\ i < d => C(i) + size[C(i)] <= g + size[g]
               /\ d <= i => g + size[g] <= C(i)
    <3>1. i < d => C(i) + size[C(i)] <= g + size[g]
      BY <1>1, <1>3, <1>15, <2>1
    <3>2. C(i) \in B /\ g # C(i)
      BY <1>1, <1>16, <2>1
    <3>3. d <= i => g + size[g] <= C(i)
      BY <1>9, <1>13, <2>1, <3>2
    <3> QED
      BY <3>1, <3>3
  <2> QED
    BY <1>3, <2>1, <2>2, <2>3 DEF Parted, A, C
<1>17. ASSUME g # A(p), g < Infinity
       PROVE  Parted(addrs, np, g + size[g], p) /\ Parted(deadrefs, nd, g + size[g], d + 1)
  <2>0. g = C(d)
    BY <1>12, <1>17
  <2>1. g \in B /\ d \in 0 .. nd - 1 /\ low <= g /\ g + size[g] \in Nat /\ low <= g + size[g] /\ d + 1 \in 0 .. nd
    <3>1. g \in B /\ d \in 0 .. nd - 1 /\ low <= g
      BY <1>12, <1>17
    <3>2. g \in Nat /\ size[g] \in Nat
      BY <1>1, <3>1
    <3> QED
      BY <1>1, <3>1, <3>2
  <2>2. ASSUME NEW i \in 0 .. nd - 1
        PROVE  /\ i < d + 1 => C(i) + size[C(i)] <= g + size[g]
               /\ d + 1 <= i => g + size[g] <= C(i)
    <3>1. CASE i < d
      <4>1. C(i) + size[C(i)] <= g + size[g]
        BY <1>1, <1>3, <1>15, <2>1, <3>1
      <4> QED
        BY <2>1, <3>1, <4>1
    <3>2. CASE i = d
      <4>1. C(i) + size[C(i)] <= g + size[g]
        BY <2>0, <2>1, <3>2
      <4> QED
        BY <2>1, <3>2, <4>1
    <3>3. CASE d < i
      <4>1. C(i) \in B /\ g < C(i) /\ ~(i < d + 1)
        BY <1>1, <2>0, <2>1, <3>3
      <4>2. g + size[g] <= C(i)
        BY <1>1, <2>1, <4>1
      <4> QED
        BY <4>1, <4>2
    <3> QED
      BY <2>1, <3>1, <3>2, <3>3
  <2>3. ASSUME NEW i \in 0 .. np - 1
        PROVE  /\ i < p => A(i) + size[A(i)] <= g + size[g]
               /\ p <= i => g + size[g] <= A(i)
    <3>1. i < p => A(i) + size[A(i)] <= g + size[g]
      BY <1>1, <1>2, <1>14, <2>1
    <3>2. A(i) \in B /\ g # A(i)
      BY <1>1, <2>0, <2>1
    <3>3. p <= i => g + size[g] <= A(i)
      BY <1>8, <1>13, <2>1, <3>2
    <3> QED
      BY <3>1, <3>3
  <2> QED
    BY <1>2, <2>1, <2>2, <2>3 DEF Parted, A, C
<1>18. g < Infinity => g \in B /\ low <= g
  BY <1>11, <1>12
<1> QED
  BY <1>5, <1>7, <1>10, <1>16, <1>17, <1>18 DEF A, C

\* The loop of find_roots.
ScanLoop(high, f) ==
  f = [s \in Nat \X (0 .. Length(addrs)) \X (0 .. Length(deadrefs)) |->
        LET pool_addr == AddrAt(addrs, s[2])
            dead_addr == AddrAt(deadrefs, s[3])
            guarded_addr == Min({pool_addr, dead_addr})
            stop == Min({guarded_addr, high})
        IN  IF s[1] >= high THEN {}
            ELSE {w \in Memory : s[1] <= w /\ w < stop} \cup
                 (IF stop < guarded_addr THEN {}
                  ELSE IF guarded_addr = pool_addr
                       THEN f[<<stop + size[guarded_addr], s[2] + 1, s[3]>>]
                  ELSE f[<<stop + size[guarded_addr], s[2], s[3] + 1>>])]

\* It ends, as every round skips a block.
LEMMA ScanExists ==
  ASSUME NEW B, NEW np, NEW nd, BlocksApart(B, np, nd), NEW high \in Nat, high < Infinity
  PROVE  \E f : ScanLoop(high, f)
<1> DEFINE D == Nat \X (0 .. np) \X (0 .. nd)
           V == SUBSET Memory
           mu == [s \in D |-> (np - s[2]) + (nd - s[3])]
           guard(s) == Min({AddrAt(addrs, s[2]), AddrAt(deadrefs, s[3])})
           stop(s) == Min({guard(s), high})
           nextp(s) == <<stop(s) + size[guard(s)], s[2] + 1, s[3]>>
           nextd(s) == <<stop(s) + size[guard(s)], s[2], s[3] + 1>>
           read(s) == {w \in Memory : s[1] <= w /\ w < stop(s)}
           body(s, f) == IF s[1] >= high THEN {}
                         ELSE read(s) \cup (IF stop(s) < guard(s) THEN {}
                                            ELSE IF guard(s) = AddrAt(addrs, s[2]) THEN f[nextp(s)]
                                            ELSE f[nextd(s)])
           G == [s \in D |-> [f \in [D -> V] |-> body(s, f)]]
<1>1. /\ np \in Nat /\ nd \in Nat /\ Length(addrs) = np /\ Length(deadrefs) = nd
      /\ Infinity \in Nat /\ AddrAt(addrs, np) = Infinity /\ AddrAt(deadrefs, nd) = Infinity
      /\ \A b \in B : b \in Nat /\ b < Infinity /\ size[b] \in Nat \ {0}
      /\ \A i \in 0 .. np - 1 : AddrAt(addrs, i) \in B
      /\ \A i \in 0 .. nd - 1 : AddrAt(deadrefs, i) \in B
  BY DEF BlocksApart
<1>2. ASSUME NEW s \in D
      PROVE  /\ mu[s] \in Nat /\ mu[s] <= np + nd
             /\ ~(stop(s) < guard(s)) =>
                  /\ guard(s) = AddrAt(addrs, s[2]) => nextp(s) \in D /\ mu[nextp(s)] < mu[s]
                  /\ guard(s) # AddrAt(addrs, s[2]) => nextd(s) \in D /\ mu[nextd(s)] < mu[s]
  <2>1. PICK l, p, d : l = s[1] /\ p = s[2] /\ d = s[3]
    OBVIOUS
  <2>2. l \in Nat /\ p \in 0 .. np /\ d \in 0 .. nd /\ mu[s] = (np - p) + (nd - d)
    BY <2>1
  <2>3. mu[s] \in Nat /\ mu[s] <= np + nd
    BY <1>1, <2>2
  <2>4. PICK g : g = guard(s)
    OBVIOUS
  <2>5. PICK x : x = stop(s)
    OBVIOUS
  <2>6. ASSUME ~(x < g)
        PROVE  /\ g = AddrAt(addrs, p) => x + size[g] \in Nat /\ p \in 0 .. np - 1
               /\ g # AddrAt(addrs, p) => x + size[g] \in Nat /\ d \in 0 .. nd - 1
    <3>1. AddrAt(addrs, p) \in Nat /\ AddrAt(deadrefs, d) \in Nat
      <4>1. p = np \/ p \in 0 .. np - 1
        BY <1>1, <2>2
      <4>2. d = nd \/ d \in 0 .. nd - 1
        BY <1>1, <2>2
      <4> QED
        BY <1>1, <4>1, <4>2
    <3>2. g = IF AddrAt(addrs, p) <= AddrAt(deadrefs, d) THEN AddrAt(addrs, p) ELSE AddrAt(deadrefs, d)
      BY <2>1, <2>4, <3>1, MinOfTwo
    <3>3. g \in Nat
      BY <3>1, <3>2
    <3>4. x = IF g <= high THEN g ELSE high
      BY <2>4, <2>5, <3>3, MinOfTwo
    <3>5. g < Infinity /\ x = g
      BY <1>1, <2>6, <3>3, <3>4
    <3>6. ASSUME g = AddrAt(addrs, p) PROVE x + size[g] \in Nat /\ p \in 0 .. np - 1
      <4>1. p # np
        BY <1>1, <3>5, <3>6
      <4>2. p \in 0 .. np - 1
        BY <1>1, <2>2, <4>1
      <4>3. size[g] \in Nat
        BY <1>1, <3>6, <4>2
      <4> QED
        BY <3>3, <3>5, <4>2, <4>3
    <3>7. ASSUME g # AddrAt(addrs, p) PROVE x + size[g] \in Nat /\ d \in 0 .. nd - 1
      <4>0. g = AddrAt(deadrefs, d)
        BY <3>2, <3>7
      <4>1. d # nd
        BY <1>1, <3>5, <4>0
      <4>2. d \in 0 .. nd - 1
        BY <1>1, <2>2, <4>1
      <4>3. size[g] \in Nat
        BY <1>1, <4>0, <4>2
      <4> QED
        BY <3>3, <3>5, <4>2, <4>3
    <3> QED
      BY <3>6, <3>7
  <2>7. ASSUME NEW y \in Nat, p \in 0 .. np - 1
        PROVE  <<y, p + 1, d>> \in D /\ mu[<<y, p + 1, d>>] < mu[s]
    <3>1. <<y, p + 1, d>> \in D
      BY <1>1, <2>2, <2>7
    <3>2. mu[<<y, p + 1, d>>] = (np - (p + 1)) + (nd - d)
      BY <3>1
    <3> QED
      BY <1>1, <2>2, <2>7, <3>1, <3>2
  <2>8. ASSUME NEW y \in Nat, d \in 0 .. nd - 1
        PROVE  <<y, p, d + 1>> \in D /\ mu[<<y, p, d + 1>>] < mu[s]
    <3>1. <<y, p, d + 1>> \in D
      BY <1>1, <2>2, <2>8
    <3>2. mu[<<y, p, d + 1>>] = (np - p) + (nd - (d + 1))
      BY <3>1
    <3> QED
      BY <1>1, <2>2, <2>8, <3>1, <3>2
  <2> HIDE DEF D, mu
  <2>9. ASSUME ~(x < g), g = AddrAt(addrs, p) PROVE nextp(s) \in D /\ mu[nextp(s)] < mu[s]
    <3>1. nextp(s) = <<x + size[g], p + 1, d>>
      BY <2>1, <2>4, <2>5
    <3> HIDE DEF nextp
    <3> QED
      BY <2>6, <2>7, <2>9, <3>1
  <2>10. ASSUME ~(x < g), g # AddrAt(addrs, p) PROVE nextd(s) \in D /\ mu[nextd(s)] < mu[s]
    <3>1. nextd(s) = <<x + size[g], p, d + 1>>
      BY <2>1, <2>4, <2>5
    <3> HIDE DEF nextd
    <3> QED
      BY <2>6, <2>8, <2>10, <3>1
  <2> HIDE DEF nextp, nextd, guard, stop
  <2> QED
    BY <2>1, <2>3, <2>4, <2>5, <2>9, <2>10
<1>3. V # {} /\ np + nd \in Nat /\ \A s \in D : read(s) \in V
  BY <1>1
<1> HIDE DEF mu
<1>4. mu \in [D -> Nat] /\ \A s \in D : mu[s] <= np + nd
  <2>1. mu = [s \in D |-> mu[s]]
    BY DEF mu
  <2> HIDE DEF D, nextp, nextd, guard, stop
  <2> QED
    BY <1>2, <2>1
<1>5. ASSUME NEW s \in D, NEW f \in [D -> V] PROVE body(s, f) \in V
  <2>1. {} \in V /\ \A x, y \in V : x \cup y \in V
    OBVIOUS
  <2> HIDE DEF D, V, nextp, nextd, guard, stop, read
  <2>2. (IF stop(s) < guard(s) THEN {}
         ELSE IF guard(s) = AddrAt(addrs, s[2]) THEN f[nextp(s)] ELSE f[nextd(s)]) \in V
    BY <1>2, <2>1
  <2> QED
    BY <1>3, <2>1, <2>2
<1>6. ASSUME NEW s \in D, NEW f, NEW h, \A y \in D : mu[y] < mu[s] => f[y] = h[y]
      PROVE  body(s, f) = body(s, h)
  <2> HIDE DEF D, V, nextp, nextd, guard, stop, read
  <2> QED
    BY <1>2, <1>6
<1> HIDE DEF D, V, body
<1>7. G \in [D -> [[D -> V] -> V]] /\ \A s \in D : \A f \in [D -> V] : G[s][f] = body(s, f)
  BY <1>5
<1> HIDE DEF G
<1>8. PICK f \in [D -> V] : \A s \in D : f[s] = G[s][f]
  <2>1. \A s \in D : \A f, g \in [D -> V] :
           (\A y \in D : mu[y] < mu[s] => f[y] = g[y]) => G[s][f] = G[s][g]
    BY <1>6, <1>7
  <2>2. Descends(D, V, mu, np + nd, G)
    BY <1>3, <1>4, <1>7, <2>1 DEF Descends
  <2> QED
    BY <2>2, RecursionExists
<1>9. f = [s \in D |-> body(s, f)]
  BY <1>7, <1>8
<1>10. ScanLoop(high, f)
  BY <1>1, <1>9 DEF ScanLoop, body, D
<1> QED
  BY <1>10

\* From a place between the blocks the scan reads the words outside all blocks.
LEMMA ScanRight ==
  ASSUME NEW B, NEW np, NEW nd, BlocksApart(B, np, nd), NEW high \in Nat, high < Infinity,
         NEW low \in Nat, NEW p, NEW d, Parted(addrs, np, low, p), Parted(deadrefs, nd, low, d)
  PROVE  ScanFrom(low, high, p, d) = Free(B, low, high)
<1> DEFINE f == CHOOSE g : ScanLoop(high, g)
<1>1. ScanFrom(low, high, p, d) = f[<<low, p, d>>]
  BY DEF ScanFrom, ScanLoop
<1>2. ScanLoop(high, f)
  BY ScanExists
<1> HIDE DEF f
<1>3. /\ np \in Nat /\ nd \in Nat /\ Length(addrs) = np /\ Length(deadrefs) = nd
      /\ Infinity \in Nat
      /\ \A b \in B : b \in Nat /\ b < Infinity /\ size[b] \in Nat \ {0}
      /\ \A b, c \in B : b < c => b + size[b] <= c
  BY DEF BlocksApart
<1> DEFINE round(l, i, j, g) ==
             IF l >= high THEN {}
             ELSE IF high < g THEN {w \in Memory : l <= w /\ w < high}
             ELSE {w \in Memory : l <= w /\ w < g} \cup
                  (IF g = AddrAt(addrs, i) THEN f[<<g + size[g], i + 1, j>>]
                   ELSE f[<<g + size[g], i, j + 1>>])
<1>4. ASSUME NEW l \in Nat, NEW i \in 0 .. np, NEW j \in 0 .. nd,
             NEW g, g = Min({AddrAt(addrs, i), AddrAt(deadrefs, j)}), g \in Nat
      PROVE  f[<<l, i, j>>] =
               round(l, i, j, g)
  <2>1. PICK s : s = <<l, i, j>>
    OBVIOUS
  <2>2. s \in Nat \X (0 .. Length(addrs)) \X (0 .. Length(deadrefs)) /\ s[1] = l /\ s[2] = i /\ s[3] = j
    BY <1>3, <2>1
  <2>3. PICK x : x = Min({g, high})
    OBVIOUS
  <2>4. f[s] = IF l >= high THEN {}
               ELSE {w \in Memory : l <= w /\ w < x} \cup
                    (IF x < g THEN {}
                     ELSE IF g = AddrAt(addrs, i) THEN f[<<x + size[g], i + 1, j>>]
                     ELSE f[<<x + size[g], i, j + 1>>])
    BY <1>2, <1>4, <2>2, <2>3 DEF ScanLoop
  <2>5. x = IF g <= high THEN g ELSE high
    BY <1>4, <2>3, MinOfTwo
  <2>6. CASE high < g
    <3>1. x = high /\ x < g
      BY <1>4, <2>5, <2>6
    <3> QED
      BY <2>1, <2>4, <2>6, <3>1
  <2>7. CASE ~(high < g)
    <3>1. x = g /\ ~(x < g)
      BY <1>4, <2>5, <2>7
    <3> QED
      BY <2>1, <2>4, <2>7, <3>1
  <2> QED
    BY <2>6, <2>7
<1> DEFINE at(l, i, j) == Parted(addrs, np, l, i) /\ Parted(deadrefs, nd, l, j)
           good(l, i, j) == f[<<l, i, j>>] = Free(B, l, high)
           bad == {m \in Nat : \E l \in Nat, i \in 0 .. np, j \in 0 .. nd :
                                 m = (np - i) + (nd - j) /\ at(l, i, j) /\ ~good(l, i, j)}
<1>5. ASSUME NEW l \in Nat, NEW i \in 0 .. np, NEW j \in 0 .. nd, at(l, i, j),
             \A l2 \in Nat, i2 \in 0 .. np, j2 \in 0 .. nd :
               at(l2, i2, j2) /\ (np - i2) + (nd - j2) < (np - i) + (nd - j) => good(l2, i2, j2)
      PROVE  good(l, i, j)
  <2>1. PICK g : g = Min({AddrAt(addrs, i), AddrAt(deadrefs, j)})
    OBVIOUS
  <2>2. /\ g \in Nat
        /\ \A b \in B : b + size[b] <= l \/ g <= b
        /\ g < Infinity =>
             /\ g \in B /\ l <= g
             /\ g = AddrAt(addrs, i) => at(g + size[g], i + 1, j)
             /\ g # AddrAt(addrs, i) => at(g + size[g], i, j + 1)
    BY <1>5, <2>1, OverBlock
  <2>3. f[<<l, i, j>>] =
          IF l >= high THEN {}
          ELSE IF high < g THEN {w \in Memory : l <= w /\ w < high}
          ELSE {w \in Memory : l <= w /\ w < g} \cup
               (IF g = AddrAt(addrs, i) THEN f[<<g + size[g], i + 1, j>>]
                ELSE f[<<g + size[g], i, j + 1>>])
    <3>1. g \in Nat
      BY <2>2
    <3>2. f[<<l, i, j>>] = round(l, i, j, g)
      <4> HIDE DEF round
      <4> QED
        BY <1>4, <2>1, <3>1
    <3> QED
      BY <3>2
  <2>4. Memory \subseteq Nat
    BY LookupAssumption DEF Memory
  <2>5. CASE l >= high
    <3>1. \A w \in Memory : ~(l <= w /\ w < high)
      BY <2>4, <2>5
    <3>2. Free(B, l, high) = {}
      BY <3>1 DEF Free
    <3> QED
      BY <2>3, <2>5, <3>2
  <2>6. CASE ~(l >= high) /\ high < g
    <3>1. ASSUME NEW w \in Memory, l <= w, w < high, NEW b \in B, b <= w, w < b + size[b] PROVE FALSE
      <4>1. b \in Nat /\ size[b] \in Nat /\ w \in Nat /\ (b + size[b] <= l \/ g <= b)
        BY <1>3, <2>2, <2>4
      <4> QED
        BY <2>2, <2>6, <3>1, <4>1
    <3>2. Free(B, l, high) = {w \in Memory : l <= w /\ w < high}
      BY <3>1 DEF Free
    <3> QED
      BY <2>3, <2>6, <3>2
  <2>7. CASE ~(l >= high) /\ ~(high < g)
    <3>1. g < Infinity /\ g \in B /\ l <= g /\ size[g] \in Nat \ {0} /\ g + size[g] \in Nat /\ g <= high
      <4>1. g < Infinity /\ g <= high
        BY <1>3, <2>2, <2>7
      <4>2. g \in B /\ l <= g /\ size[g] \in Nat \ {0}
        BY <1>3, <2>2, <4>1
      <4> QED
        BY <2>2, <4>1, <4>2
    <3>2. (IF g = AddrAt(addrs, i) THEN f[<<g + size[g], i + 1, j>>] ELSE f[<<g + size[g], i, j + 1>>])
            = Free(B, g + size[g], high)
      <4>1. CASE g = AddrAt(addrs, i)
        <5>1. at(g + size[g], i + 1, j)
          BY <2>2, <3>1, <4>1
        <5>2. i + 1 \in 0 .. np
          BY <5>1 DEF Parted
        <5>3. (np - (i + 1)) + (nd - j) < (np - i) + (nd - j)
          BY <1>3
        <5> HIDE DEF at
        <5>4. good(g + size[g], i + 1, j)
          BY <1>5, <3>1, <5>1, <5>2, <5>3
        <5> QED
          BY <4>1, <5>4
      <4>2. CASE g # AddrAt(addrs, i)
        <5>1. at(g + size[g], i, j + 1)
          BY <2>2, <3>1, <4>2
        <5>2. j + 1 \in 0 .. nd
          BY <5>1 DEF Parted
        <5>3. (np - i) + (nd - (j + 1)) < (np - i) + (nd - j)
          BY <1>3
        <5> HIDE DEF at
        <5>4. good(g + size[g], i, j + 1)
          BY <1>5, <3>1, <5>1, <5>2, <5>3
        <5> QED
          BY <4>2, <5>4
      <4> QED
        BY <4>1, <4>2
    <3>3. ASSUME NEW w \in Memory
          PROVE  w \in Free(B, l, high) <=> (l <= w /\ w < g) \/ w \in Free(B, g + size[g], high)
      <4>0. w \in Nat /\ g \in Nat
        BY <2>2, <2>4
      <4>1. ASSUME l <= w, w < g PROVE w \in Free(B, l, high)
        <5>1. ASSUME NEW b \in B, b <= w, w < b + size[b] PROVE FALSE
          <6>1. b \in Nat /\ size[b] \in Nat /\ (b + size[b] <= l \/ g <= b)
            BY <1>3, <2>2
          <6> QED
            BY <4>0, <4>1, <5>1, <6>1
        <5>2. w < high
          BY <3>1, <4>0, <4>1
        <5> QED
          BY <4>1, <5>1, <5>2 DEF Free
      <4>2. ASSUME w \in Free(B, g + size[g], high) PROVE w \in Free(B, l, high)
        <5>1. g + size[g] <= w
          BY <4>2 DEF Free
        <5>2. l <= w
          BY <3>1, <4>0, <5>1
        <5> QED
          BY <4>2, <5>2 DEF Free
      <4>3. ASSUME w \in Free(B, l, high), ~(l <= w /\ w < g) PROVE w \in Free(B, g + size[g], high)
        <5>1. l <= w /\ ~(w < g) /\ ~(g <= w /\ w < g + size[g])
          BY <3>1, <4>3 DEF Free
        <5>2. g + size[g] <= w
          BY <3>1, <4>0, <5>1
        <5> QED
          BY <4>3, <5>2 DEF Free
      <4> QED
        BY <4>1, <4>2, <4>3
    <3>4. f[<<l, i, j>>] = {w \in Memory : l <= w /\ w < g} \cup Free(B, g + size[g], high)
      BY <2>3, <2>7, <3>2
    <3>5. Free(B, l, high) \subseteq Memory /\ Free(B, g + size[g], high) \subseteq Memory
      BY DEF Free
    <3> QED
      BY <3>3, <3>4, <3>5
  <2> QED
    BY <2>5, <2>6, <2>7
<1> HIDE DEF good, at
<1>6. bad = {}
  <2> SUFFICES ASSUME bad # {} PROVE FALSE
    OBVIOUS
  <2>1. PICK m \in bad : \A e \in bad : m <= e
    <3>1. bad \in SUBSET Nat
      OBVIOUS
    <3> HIDE DEF bad
    <3> QED
      BY <3>1, LeastNat
  <2>2. PICK l \in Nat, i \in 0 .. np, j \in 0 .. nd :
          m = (np - i) + (nd - j) /\ at(l, i, j) /\ ~good(l, i, j)
    BY <2>1
  <2>3. ASSUME NEW l2 \in Nat, NEW i2 \in 0 .. np, NEW j2 \in 0 .. nd, at(l2, i2, j2),
               (np - i2) + (nd - j2) < (np - i) + (nd - j)
        PROVE  good(l2, i2, j2)
    <3>1. (np - i2) + (nd - j2) \in Nat /\ ~(m <= (np - i2) + (nd - j2))
      BY <1>3, <2>2, <2>3
    <3>2. (np - i2) + (nd - j2) \notin bad
      BY <2>1, <3>1
    <3> QED
      BY <2>3, <3>1, <3>2
  <2> HIDE DEF bad
  <2> QED
    BY <1>5, <2>2, <2>3
<1>7. good(low, p, d)
  <2>1. p \in 0 .. np /\ d \in 0 .. nd /\ at(low, p, d)
    BY DEF Parted, at
  <2>2. (np - p) + (nd - d) \in Nat
    BY <1>3, <2>1
  <2> QED
    BY <1>6, <2>1, <2>2
<1> QED
  BY <1>1, <1>7 DEF good

\* The blocks of one buffer of n addresses, all of them in B.
OneOf(B, buf, n) ==
  /\ n \in Nat \ {0}
  /\ \A b \in B : b \in Nat /\ size[b] \in Nat \ {0}
  /\ \A b, c \in B : b < c => b + size[b] <= c
  /\ \A i \in 0 .. n - 1 : AddrAt(buf, i) \in B
  /\ \A i, j \in 0 .. n - 1 : i < j => AddrAt(buf, i) < AddrAt(buf, j)

\* What a search for low finds among them.
Near(buf, n, low, loc) ==
  /\ loc \in 0 .. n - 1
  /\ \A j \in 0 .. n - 1 : (j < loc => AddrAt(buf, j) < low) /\ (loc < j => low <= AddrAt(buf, j))
  /\ loc = 0 \/ AddrAt(buf, loc) <= low

\* low, or the end of the block b that low is in.
Leaves(b, low, r) ==
  \/ r = low
  \/ b <= low /\ low < b + size[b] /\ r = b + size[b]

\* The search begins behind the block that low is in, if any.
LEMMA AdvanceRight ==
  ASSUME NEW B, NEW buf, NEW n, OneOf(B, buf, n), NEW low \in Nat, NEW loc, Near(buf, n, low, loc),
         NEW r, r = Advance(low, buf, loc)
  PROVE  /\ r.low \in Nat /\ Leaves(AddrAt(buf, loc), low, r.low)
         /\ Parted(buf, n, r.low, r.idx)
<1> DEFINE A(i) == AddrAt(buf, i)
<1>1. /\ n \in Nat \ {0}
      /\ \A b \in B : b \in Nat /\ size[b] \in Nat \ {0}
      /\ \A b, c \in B : b < c => b + size[b] <= c
      /\ \A i \in 0 .. n - 1 : A(i) \in B
      /\ \A i, j \in 0 .. n - 1 : i < j => A(i) < A(j)
  BY DEF OneOf
<1>2. /\ loc \in 0 .. n - 1
      /\ \A j \in 0 .. n - 1 : (j < loc => A(j) < low) /\ (loc < j => low <= A(j))
      /\ loc = 0 \/ A(loc) <= low
  BY DEF Near
<1>3. PICK a : a = A(loc)
  OBVIOUS
<1>4. PICK z : z = size[a]
  OBVIOUS
<1>5. a \in B /\ a \in Nat /\ z \in Nat \ {0}
  BY <1>1, <1>2, <1>3, <1>4
<1>6. r = IF a <= low THEN [low |-> Max({low, a + z}), idx |-> loc + 1] ELSE [low |-> low, idx |-> loc]
  BY <1>3, <1>4 DEF Advance
<1> HIDE DEF A
<1>7. CASE a <= low
  <2>1. PICK x : x = Max({low, a + z})
    OBVIOUS
  <2>2. x = IF low <= a + z THEN a + z ELSE low
    BY <1>5, <2>1, MaxOfTwo
  <2>3. x \in Nat /\ low <= x /\ a + z <= x /\ (x = low \/ (x = a + z /\ low < a + z))
    BY <1>5, <2>2
  <2>4. r.low = x /\ r.idx = loc + 1
    BY <1>6, <1>7, <2>1
  <2>5. ASSUME NEW i \in 0 .. n - 1
        PROVE  /\ i < loc + 1 => A(i) + size[A(i)] <= x
               /\ loc + 1 <= i => x <= A(i)
    <3>0. A(i) \in B /\ A(i) \in Nat /\ size[A(i)] \in Nat
      BY <1>1
    <3>1. CASE i < loc
      <4>1. A(i) < a
        BY <1>1, <1>2, <1>3, <3>1
      <4>2. A(i) + size[A(i)] <= a
        BY <1>1, <1>5, <3>0, <4>1
      <4> QED
        BY <1>1, <1>2, <1>5, <1>7, <2>3, <3>0, <3>1, <4>2
    <3>2. CASE i = loc
      <4>1. A(i) + size[A(i)] <= x
        BY <1>3, <1>4, <2>3, <3>2
      <4> QED
        BY <1>1, <1>2, <3>2, <4>1
    <3>3. CASE loc < i
      <4>1. a < A(i) /\ low <= A(i)
        BY <1>1, <1>2, <1>3, <3>3
      <4>2. a + z <= A(i)
        BY <1>1, <1>4, <1>5, <3>0, <4>1
      <4>3. x <= A(i)
        BY <2>3, <4>1, <4>2
      <4> QED
        BY <1>1, <1>2, <3>3, <4>3
    <3> QED
      BY <1>1, <1>2, <3>1, <3>2, <3>3
  <2>6. loc + 1 \in 0 .. n
    BY <1>1, <1>2
  <2>7. Parted(buf, n, x, loc + 1)
    BY <2>5, <2>6 DEF Parted, A
  <2>8. Leaves(a, low, x)
    BY <1>4, <1>7, <2>3 DEF Leaves
  <2> QED
    BY <1>3, <2>3, <2>4, <2>7, <2>8 DEF A
<1>8. CASE ~(a <= low)
  <2>1. r.low = low /\ r.idx = 0 /\ loc = 0 /\ 0 \in 0 .. n - 1 /\ 0 \in 0 .. n
    BY <1>1, <1>2, <1>3, <1>6, <1>8
  <2>2. ASSUME NEW i \in 0 .. n - 1 PROVE low <= A(i) /\ ~(i < 0)
    <3>1. i = 0 \/ 0 < i
      BY <1>1
    <3>2. low < a
      BY <1>5, <1>8
    <3> QED
      BY <1>1, <1>2, <1>3, <1>5, <2>1, <3>1, <3>2
  <2>3. Parted(buf, n, low, 0)
    BY <2>1, <2>2 DEF Parted, A
  <2> QED
    BY <2>1, <2>3 DEF Leaves
<1> QED
  BY <1>7, <1>8

\* No word is lost by that,
LEMMA FreeLeaves ==
  ASSUME NEW B, NEW b \in B, b \in Nat, size[b] \in Nat, NEW low \in Nat, NEW high \in Nat,
         NEW r \in Nat, Leaves(b, low, r)
  PROVE  Free(B, r, high) = Free(B, low, high)
<1>1. CASE r = low
  BY <1>1
<1>2. CASE b <= low /\ low < b + size[b] /\ r = b + size[b]
  <2>1. Memory \subseteq Nat
    BY LookupAssumption DEF Memory
  <2>2. ASSUME NEW w \in Memory, r <= w PROVE low <= w
    BY <1>2, <2>1, <2>2
  <2>3. ASSUME NEW w \in Memory, low <= w, ~(r <= w) PROVE b <= w /\ w < b + size[b]
    BY <1>2, <2>1, <2>3
  <2> QED
    BY <2>2, <2>3 DEF Free
<1> QED
  BY <1>1, <1>2 DEF Leaves

\* and the blocks of the other buffer stay on their sides of it.
LEMMA PartedLeaves ==
  ASSUME NEW B, NEW buf, NEW n, OneOf(B, buf, n), NEW low \in Nat, NEW p, Parted(buf, n, low, p),
         NEW b \in B, \A i \in 0 .. n - 1 : AddrAt(buf, i) # b, NEW r \in Nat, Leaves(b, low, r)
  PROVE  Parted(buf, n, r, p)
<1> DEFINE A(i) == AddrAt(buf, i)
<1>1. /\ n \in Nat \ {0}
      /\ \A c \in B : c \in Nat /\ size[c] \in Nat \ {0}
      /\ \A c, e \in B : c < e => c + size[c] <= e
      /\ \A i \in 0 .. n - 1 : A(i) \in B
  BY DEF OneOf
<1>2. /\ p \in 0 .. n
      /\ \A i \in 0 .. n - 1 : (i < p => A(i) + size[A(i)] <= low) /\ (p <= i => low <= A(i))
  BY DEF Parted
<1>3. \A i \in 0 .. n - 1 : A(i) # b
  OBVIOUS
<1> HIDE DEF A
<1>4. low <= r
  BY <1>1 DEF Leaves
<1>5. ASSUME NEW i \in 0 .. n - 1 PROVE (i < p => A(i) + size[A(i)] <= r) /\ (p <= i => r <= A(i))
  <2>1. A(i) \in B /\ A(i) \in Nat /\ size[A(i)] \in Nat /\ b \in Nat /\ size[b] \in Nat
    BY <1>1
  <2>2. i < p => A(i) + size[A(i)] <= r
    BY <1>2, <1>4, <2>1
  <2>3. ASSUME p <= i PROVE r <= A(i)
    <3>1. low <= A(i)
      BY <1>2, <2>3
    <3>2. CASE r = low
      BY <3>1, <3>2
    <3>3. CASE b <= low /\ r = b + size[b]
      <4>1. b < A(i)
        BY <1>3, <2>1, <3>1, <3>3
      <4> QED
        BY <1>1, <2>1, <3>3, <4>1
    <3> QED
      BY <3>2, <3>3 DEF Leaves
  <2> QED
    BY <2>2, <2>3
<1> QED
  BY <1>2, <1>5 DEF Parted, A

\* find_roots reads the words of its range outside all blocks.
LEMMA FindRootsRight ==
  ASSUME NEW B, NEW np, NEW nd, BlocksApart(B, np, nd), np # 0, Buffer(addrs, np), Buffer(deadrefs, nd),
         \A i \in 0 .. nd - 1 : deadrefs[i] % 2 = 0,
         NEW low \in Nat, low % 2 = 0, NEW high \in Nat, high < Infinity
  PROVE  FindRoots(low, high) = Free(B, low, high)
<1>1. /\ np \in Nat \ {0} /\ nd \in Nat /\ Length(addrs) = np /\ Length(deadrefs) = nd
      /\ B \subseteq Nat /\ \A b \in B : size[b] \in Nat
      /\ \A i \in 0 .. np - 1 : AddrAt(addrs, i) \in B
      /\ \A i \in 0 .. nd - 1 : AddrAt(deadrefs, i) \in B
      /\ \A i \in 0 .. np - 1, j \in 0 .. nd - 1 : AddrAt(addrs, i) # AddrAt(deadrefs, j)
  BY DEF BlocksApart
<1>2. OneOf(B, addrs, np)
  BY <1>1 DEF BlocksApart, OneOf
<1>3. nd # 0 => OneOf(B, deadrefs, nd)
  BY <1>1 DEF BlocksApart, OneOf
<1>4. PICK loc : loc = AddrFind(low, addrs)
  OBVIOUS
<1>5. Near(addrs, np, low, loc)
  <2>1. Locates(low, addrs, np, loc)
    BY <1>1, <1>4, AddrFindRight
  <2>2. /\ loc \in 0 .. np - 1
        /\ \A j \in 0 .. np - 1 : (j < loc => addrs[j] < low) /\ (loc < j => addrs[j] > low)
        /\ loc = 0 \/ PTR_MASK(addrs[loc]) <= low
    BY <2>1 DEF Locates
  <2>3. \A j \in 0 .. np - 1 : AddrAt(addrs, j) = PTR_MASK(addrs[j])
    BY <1>1 DEF AddrAt
  <2>4. \A j \in 0 .. np - 1 : (addrs[j] < low => PTR_MASK(addrs[j]) < low)
                               /\ (addrs[j] > low => low <= PTR_MASK(addrs[j]))
    <3> TAKE j \in 0 .. np - 1
    <3>1. addrs[j] \in Nat
      BY DEF Buffer
    <3>2. PTR_MASK(addrs[j]) \in Nat /\ (addrs[j] < low <=> PTR_MASK(addrs[j]) < low)
          /\ (addrs[j] > low => PTR_MASK(addrs[j]) >= low)
      BY <3>1, MaskFacts
    <3> QED
      BY <3>2
  <2> QED
    BY <2>2, <2>3, <2>4 DEF Near
<1>6. PICK p : p = Advance(low, addrs, loc)
  OBVIOUS
<1>7. p.low \in Nat /\ Leaves(AddrAt(addrs, loc), low, p.low) /\ Parted(addrs, np, p.low, p.idx)
  BY <1>2, <1>5, <1>6, AdvanceRight
<1>8. Free(B, p.low, high) = Free(B, low, high)
  <2>1. AddrAt(addrs, loc) \in B /\ size[AddrAt(addrs, loc)] \in Nat
    BY <1>1, <1>5 DEF Near
  <2>2. PICK b, x : b = AddrAt(addrs, loc) /\ x = p.low
    OBVIOUS
  <2>3. b \in B /\ b \in Nat /\ size[b] \in Nat /\ x \in Nat /\ Leaves(b, low, x)
    BY <1>1, <1>7, <2>1, <2>2
  <2>4. Free(B, x, high) = Free(B, low, high)
    BY <2>3, FreeLeaves
  <2> QED
    BY <2>2, <2>4
<1>9. CASE nd = 0
  <2>1. FindRoots(low, high) = ScanFrom(p.low, high, p.idx, 0)
    BY <1>1, <1>4, <1>6, <1>9 DEF FindRoots
  <2>2. Parted(deadrefs, nd, p.low, 0)
    BY <1>9 DEF Parted
  <2>3. ScanFrom(p.low, high, p.idx, 0) = Free(B, p.low, high)
    BY <1>7, <2>2, ScanRight
  <2> QED
    BY <1>8, <2>1, <2>3
<1>10. CASE nd # 0
  <2>1. PICK loc2 : loc2 = BinarySearch(p.low, deadrefs, 0, nd)
    OBVIOUS
  <2>2. Near(deadrefs, nd, p.low, loc2)
    <3>0. /\ 0 \in 0 .. nd - 1 /\ nd \in 0 .. nd /\ 0 < nd
          /\ deadrefs \in [0 .. nd - 1 -> Nat]
      BY <1>1, <1>10 DEF Buffer
    <3>1. Finds(p.low, deadrefs, 0, nd, loc2)
      BY <1>1, <1>7, <2>1, <3>0, BufferIncreases, BinaryRight
    <3>2. \A j \in 0 .. nd - 1 : AddrAt(deadrefs, j) = deadrefs[j] /\ deadrefs[j] \in Nat
      <4> TAKE j \in 0 .. nd - 1
      <4>1. AddrAt(deadrefs, j) = PTR_MASK(deadrefs[j]) /\ deadrefs[j] \in Nat
        BY <1>1, <3>0 DEF AddrAt
      <4>2. PTR_MASK(deadrefs[j]) = deadrefs[j]
        BY <4>1, MaskFacts
      <4> QED
        BY <4>1, <4>2
    <3>3. /\ loc2 \in 0 .. nd - 1
          /\ \A j \in 0 .. nd - 1 : (j < loc2 => deadrefs[j] < p.low) /\ (loc2 < j => deadrefs[j] > p.low)
          /\ loc2 = 0 \/ deadrefs[loc2] <= p.low
      BY <3>1 DEF Finds
    <3>4. \A j \in 0 .. nd - 1 : deadrefs[j] > p.low => p.low <= deadrefs[j]
      BY <1>7, <3>2
    <3> QED
      BY <3>2, <3>3, <3>4 DEF Near
  <2>3. PICK d : d = Advance(p.low, deadrefs, loc2)
    OBVIOUS
  <2>4. d.low \in Nat /\ Leaves(AddrAt(deadrefs, loc2), p.low, d.low) /\ Parted(deadrefs, nd, d.low, d.idx)
    BY <1>3, <1>7, <1>10, <2>2, <2>3, AdvanceRight
  <2>5. loc2 \in 0 .. nd - 1
    BY <2>2 DEF Near
  <2>6. AddrAt(deadrefs, loc2) \in B /\ size[AddrAt(deadrefs, loc2)] \in Nat
        /\ \A i \in 0 .. np - 1 : AddrAt(addrs, i) # AddrAt(deadrefs, loc2)
    BY <1>1, <2>5
  <2>7. Parted(addrs, np, d.low, p.idx)
    BY <1>2, <1>7, <2>4, <2>6, PartedLeaves
  <2>8. Free(B, d.low, high) = Free(B, p.low, high)
    <3>1. PICK b, x, y : b = AddrAt(deadrefs, loc2) /\ x = p.low /\ y = d.low
      OBVIOUS
    <3>2. b \in B /\ b \in Nat /\ size[b] \in Nat /\ x \in Nat /\ y \in Nat /\ Leaves(b, x, y)
      BY <1>1, <1>7, <2>4, <2>6, <3>1
    <3>3. Free(B, y, high) = Free(B, x, high)
      BY <3>2, FreeLeaves
    <3> QED
      BY <3>1, <3>3
  <2>9. FindRoots(low, high) = ScanFrom(d.low, high, p.idx, d.idx)
    BY <1>1, <1>4, <1>6, <1>10, <2>1, <2>3 DEF FindRoots
  <2>10. ScanFrom(d.low, high, p.idx, d.idx) = Free(B, d.low, high)
    BY <2>4, <2>7, ScanRight
  <2> QED
    BY <1>8, <2>8, <2>9, <2>10
<1> QED
  BY <1>9, <1>10

(***************************************************************************)
(* The inputs.                                                             *)
(***************************************************************************)

\* Addresses are even.
LEMMA MemoryFacts ==
  /\ NWords \in Nat /\ Infinity \in Nat /\ Infinity = 2 * NWords + 2
  /\ \A m \in Memory : m \in Nat /\ m % 2 = 0 /\ m + 2 <= 2 * NWords
  /\ \A m \in Nat : m % 2 = 0 /\ m < 2 * NWords => m \in Memory
<1>1. NWords \in Nat
  BY LookupAssumption
<1>2. ASSUME NEW m \in Memory PROVE m \in Nat /\ m % 2 = 0 /\ m + 2 <= 2 * NWords
  <2>1. PICK i \in 0 .. NWords - 1 : m = 2 * i
    BY DEF Memory
  <2> QED
    BY <1>1, <2>1
<1>3. ASSUME NEW m \in Nat, m % 2 = 0, m < 2 * NWords PROVE m \in Memory
  <2>1. m = 2 * (m \div 2) /\ m \div 2 \in 0 .. NWords - 1
    BY <1>1, <1>3
  <2> QED
    BY <2>1 DEF Memory
<1> QED
  BY <1>1, <1>2, <1>3 DEF Infinity

\* The addresses of the blocks of a layout k, in the order of memory, with their marks.
LEMMA PoolOfLayout ==
  ASSUME NEW k \in Layouts,
         NEW T, T = Blocks(k, {"pool"}) \cup {m + 1 : m \in Blocks(k, {"marked"})}
  PROVE  /\ T \in SUBSET Nat /\ IsFiniteSet(T) /\ T # {}
         /\ \A x \in T : PTR_MASK(x) \in Memory /\ k[PTR_MASK(x)] \in {"pool", "marked"}
         /\ \A x, y \in T : x < y => PTR_MASK(x) < PTR_MASK(y)
<1>1. /\ k \in [Memory -> {"out", "pool", "marked", "dead", "more"}]
      /\ \E m \in Memory : k[m] \in {"pool", "marked"}
  BY DEF Layouts
<1>2. \A m \in Memory : m \in Nat /\ m % 2 = 0 /\ m + 2 <= 2 * NWords
  BY MemoryFacts
<1>3. ASSUME NEW x \in T
      PROVE  \/ x \in Memory /\ k[x] = "pool"
             \/ \E m \in Memory : k[m] = "marked" /\ x = m + 1
  BY DEF Blocks
<1>4. ASSUME NEW x \in T
      PROVE  /\ x \in Nat /\ x <= 2 * NWords /\ PTR_MASK(x) \in Memory
             /\ \/ PTR_MASK(x) = x /\ k[PTR_MASK(x)] = "pool"
                \/ PTR_MASK(x) + 1 = x /\ k[PTR_MASK(x)] = "marked"
  <2>0. NWords \in Nat
    BY LookupAssumption
  <2>1. CASE x \in Memory /\ k[x] = "pool"
    <3>1. x \in Nat /\ x % 2 = 0 /\ x <= 2 * NWords
      BY <1>2, <2>0, <2>1
    <3>2. PTR_MASK(x) = x
      BY <3>1, MaskFacts
    <3> QED
      BY <2>1, <3>1, <3>2
  <2>2. CASE \E m \in Memory : k[m] = "marked" /\ x = m + 1
    <3>1. PICK m \in Memory : k[m] = "marked" /\ x = m + 1
      BY <2>2
    <3>2. m \in Nat /\ m % 2 = 0 /\ m + 2 <= 2 * NWords
      BY <1>2
    <3>3. PTR_MASK(x) = m /\ x \in Nat /\ x <= 2 * NWords
      BY <2>0, <3>1, <3>2 DEF PTR_MASK
    <3> QED
      BY <3>1, <3>3
  <2> QED
    BY <1>3, <2>1, <2>2
<1>5. T \in SUBSET Nat
  BY <1>4
<1>6. IsFiniteSet(T)
  <2>1. 2 * NWords \in Nat
    BY LookupAssumption
  <2> QED
    BY <1>4, <1>5, <2>1, FS_BoundedSetOfNaturals
<1>7. T # {}
  <2>1. PICK m \in Memory : k[m] \in {"pool", "marked"}
    BY <1>1
  <2>2. m \in T \/ m + 1 \in T
    BY <2>1 DEF Blocks
  <2> QED
    BY <2>2
<1>8. ASSUME NEW x \in T, NEW y \in T, x < y PROVE PTR_MASK(x) < PTR_MASK(y)
  <2>1. PICK a, b : a = PTR_MASK(x) /\ b = PTR_MASK(y)
    OBVIOUS
  <2>2. /\ x \in Nat /\ y \in Nat /\ a \in Memory /\ b \in Memory
        /\ (a = x /\ k[a] = "pool") \/ (a + 1 = x /\ k[a] = "marked")
        /\ (b = y /\ k[b] = "pool") \/ (b + 1 = y /\ k[b] = "marked")
    BY <1>4, <2>1
  <2>3. a \in Nat /\ b \in Nat /\ a % 2 = 0 /\ b % 2 = 0
    BY <1>2, <2>2
  <2>4. a # b
    <3> SUFFICES ASSUME a = b PROVE FALSE
      OBVIOUS
    <3>1. k[a] = "pool" /\ k[a] = "marked"
      BY <1>8, <2>2, <2>3
    <3> QED
      BY <3>1
  <2>5. ~(b < a)
    <3> SUFFICES ASSUME b < a PROVE FALSE
      OBVIOUS
    <3>1. b + 1 < a
      BY <2>3
    <3> QED
      BY <1>8, <2>2, <2>3, <3>1
  <2> QED
    BY <2>1, <2>3, <2>4, <2>5
<1> QED
  BY <1>4, <1>5, <1>6, <1>7, <1>8

\* A block ends where the next one begins, or before.
LEMMA SizeOfLayout ==
  ASSUME NEW k \in Layouts, NEW m \in Memory,
         NEW z, z = Min({e \in {2 * i : i \in 1 .. NWords} :
                           m + e = 2 * NWords \/ (m + e \in Memory /\ k[m + e] # "more")})
  PROVE  /\ z \in Nat \ {0}
         /\ \A c \in Memory : k[c] # "more" /\ m < c => m + z <= c
<1> DEFINE E == {e \in {2 * i : i \in 1 .. NWords} :
                   m + e = 2 * NWords \/ (m + e \in Memory /\ k[m + e] # "more")}
<1>1. NWords \in Nat /\ m \in Nat /\ m % 2 = 0 /\ m + 2 <= 2 * NWords
  BY MemoryFacts
<1>2. ASSUME NEW c \in Nat, c % 2 = 0, m < c, c <= 2 * NWords
      PROVE  c - m \in {2 * i : i \in 1 .. NWords} /\ m + (c - m) = c
  <2>1. c - m = 2 * ((c - m) \div 2) /\ (c - m) \div 2 \in 1 .. NWords
    BY <1>1, <1>2
  <2> QED
    BY <1>1, <1>2, <2>1
<1>3. E \in SUBSET Nat /\ \A e \in E : e \in Nat \ {0}
  BY <1>1
<1>4. 2 * NWords - m \in E
  <2>1. 2 * NWords \in Nat /\ (2 * NWords) % 2 = 0 /\ m < 2 * NWords /\ 2 * NWords <= 2 * NWords
    BY <1>1
  <2> QED
    BY <1>2, <2>1
<1>5. ASSUME NEW c \in Memory, k[c] # "more", m < c PROVE c - m \in E
  <2>1. c \in Nat /\ c % 2 = 0 /\ c <= 2 * NWords
    BY <1>1, <1>5, MemoryFacts
  <2> QED
    BY <1>2, <1>5, <2>1
<1> HIDE DEF E
<1>6. E # {}
  BY <1>4
<1>7. Min(E) \in E /\ \A e \in E : Min(E) <= e
  BY <1>3, <1>6, MinIsLeast
<1>8. z \in Nat \ {0} /\ \A e \in E : z <= e
  BY <1>3, <1>7 DEF E
<1>9. ASSUME NEW c \in Memory, k[c] # "more", m < c PROVE m + z <= c
  <2>1. c \in Nat /\ z <= c - m
    BY <1>5, <1>8, <1>9, MemoryFacts
  <2> QED
    BY <1>1, <1>8, <2>1
<1> QED
  BY <1>8, <1>9

\* What the inputs have in common: a pool and dead blocks, none within another.
LEMMA InputsRight ==
  ASSUME LookupInit
  PROVE  \E np, nd : /\ BlocksApart(InPool \cup Elements(deadrefs), np, nd) /\ np # 0
                     /\ Buffer(addrs, np) /\ Buffer(deadrefs, nd)
                     /\ \A i \in 0 .. nd - 1 : deadrefs[i] % 2 = 0
<1>1. PICK k \in Layouts :
        /\ addrs = Sorted(Blocks(k, {"pool"}) \cup {m + 1 : m \in Blocks(k, {"marked"})})
        /\ deadrefs = Sorted(Blocks(k, {"dead"}))
        /\ size = [m \in Memory |->
                     Min({e \in {2 * i : i \in 1 .. NWords} :
                            m + e = 2 * NWords \/ (m + e \in Memory /\ k[m + e] # "more")})]
  BY DEF LookupInit
<1>2. PICK T : T = Blocks(k, {"pool"}) \cup {m + 1 : m \in Blocks(k, {"marked"})}
  OBVIOUS
<1>3. /\ T \in SUBSET Nat /\ IsFiniteSet(T) /\ T # {}
      /\ \A x \in T : PTR_MASK(x) \in Memory /\ k[PTR_MASK(x)] \in {"pool", "marked"}
      /\ \A x, y \in T : x < y => PTR_MASK(x) < PTR_MASK(y)
  BY <1>2, PoolOfLayout
<1>4. PICK U : U = Blocks(k, {"dead"})
  OBVIOUS
<1>5. /\ U \in SUBSET Nat /\ IsFiniteSet(U)
      /\ \A x \in U : x \in Memory /\ x % 2 = 0 /\ k[x] = "dead" /\ PTR_MASK(x) = x
  <2>1. \A x \in U : x \in Memory /\ k[x] = "dead"
    BY <1>4 DEF Blocks
  <2>2. \A x \in Memory : x \in Nat /\ x % 2 = 0 /\ x <= 2 * NWords
    BY MemoryFacts
  <2>3. 2 * NWords \in Nat
    BY MemoryFacts
  <2>4. U \in SUBSET Nat /\ \A x \in U : x <= 2 * NWords
    BY <2>1, <2>2
  <2>5. IsFiniteSet(U)
    BY <2>3, <2>4, FS_BoundedSetOfNaturals
  <2>6. \A x \in U : PTR_MASK(x) = x
    BY <2>1, <2>2, MaskFacts
  <2> QED
    BY <2>1, <2>2, <2>4, <2>5, <2>6
<1>6. PICK np : np = Cardinality(T)
  OBVIOUS
<1>7. PICK nd : nd = Cardinality(U)
  OBVIOUS
<1>8. /\ np \in Nat /\ addrs \in [0 .. np - 1 -> T]
      /\ \A i, j \in 0 .. np - 1 : i < j => addrs[i] < addrs[j]
      /\ \A x \in T : \E i \in 0 .. np - 1 : addrs[i] = x
  BY <1>1, <1>2, <1>3, <1>6, SortedRight
<1>9. /\ nd \in Nat /\ deadrefs \in [0 .. nd - 1 -> U]
      /\ \A i, j \in 0 .. nd - 1 : i < j => deadrefs[i] < deadrefs[j]
      /\ \A x \in U : \E i \in 0 .. nd - 1 : deadrefs[i] = x
  BY <1>1, <1>4, <1>5, <1>7, SortedRight
<1>10. np # 0
  <2>1. PICK x \in T : TRUE
    BY <1>3
  <2>2. PICK i \in 0 .. np - 1 : TRUE
    BY <1>8, <2>1
  <2> QED
    BY <1>8, <2>2
<1>11. /\ Length(addrs) = np /\ Length(deadrefs) = nd
       /\ \A i \in 0 .. np - 1 : AddrAt(addrs, i) = PTR_MASK(addrs[i])
       /\ \A i \in 0 .. nd - 1 : AddrAt(deadrefs, i) = PTR_MASK(deadrefs[i])
       /\ AddrAt(addrs, np) = Infinity /\ AddrAt(deadrefs, nd) = Infinity
  <2>1. DOMAIN addrs = 0 .. np - 1 /\ DOMAIN deadrefs = 0 .. nd - 1
    BY <1>8, <1>9
  <2>2. Length(addrs) = np /\ Length(deadrefs) = nd
    BY <1>8, <1>9, <2>1, LengthIs
  <2>3. /\ \A i \in 0 .. np - 1 : i < np
        /\ \A i \in 0 .. nd - 1 : i < nd
        /\ ~(np < np) /\ ~(nd < nd)
    BY <1>8, <1>9
  <2> QED
    BY <2>2, <2>3 DEF AddrAt
<1>12. /\ \A i \in 0 .. np - 1 : AddrAt(addrs, i) \in Memory /\ k[AddrAt(addrs, i)] \in {"pool", "marked"}
       /\ \A i \in 0 .. nd - 1 : AddrAt(deadrefs, i) = deadrefs[i] /\ deadrefs[i] \in Memory
                                 /\ deadrefs[i] % 2 = 0 /\ k[deadrefs[i]] = "dead"
  <2>1. ASSUME NEW i \in 0 .. np - 1
        PROVE  AddrAt(addrs, i) \in Memory /\ k[AddrAt(addrs, i)] \in {"pool", "marked"}
    <3>1. addrs[i] \in T
      BY <1>8
    <3> QED
      BY <1>3, <1>11, <3>1
  <2>2. ASSUME NEW i \in 0 .. nd - 1
        PROVE  /\ AddrAt(deadrefs, i) = deadrefs[i] /\ deadrefs[i] \in Memory
               /\ deadrefs[i] % 2 = 0 /\ k[deadrefs[i]] = "dead"
    <3>1. deadrefs[i] \in U
      BY <1>9
    <3> QED
      BY <1>5, <1>11, <3>1
  <2> QED
    BY <2>1, <2>2
<1>13. Buffer(addrs, np)
  <2>1. addrs \in [0 .. np - 1 -> Nat]
    BY <1>3, <1>8
  <2>2. \A i, j \in 0 .. np - 1 : i < j => PTR_MASK(addrs[i]) < PTR_MASK(addrs[j])
    BY <1>3, <1>8
  <2> QED
    BY <1>8, <2>1, <2>2 DEF Buffer
<1>14. Buffer(deadrefs, nd)
  <2>1. deadrefs \in [0 .. nd - 1 -> Nat]
    BY <1>5, <1>9
  <2>2. \A i, j \in 0 .. nd - 1 : i < j => PTR_MASK(deadrefs[i]) < PTR_MASK(deadrefs[j])
    BY <1>5, <1>9
  <2> QED
    BY <1>9, <2>1, <2>2 DEF Buffer
<1>15. PICK B : B = InPool \cup Elements(deadrefs)
  OBVIOUS
<1>16. /\ \A i \in 0 .. np - 1 : AddrAt(addrs, i) \in B
       /\ \A i \in 0 .. nd - 1 : AddrAt(deadrefs, i) \in B
       /\ \A b \in B : \/ \E i \in 0 .. np - 1 : AddrAt(addrs, i) = b
                       \/ \E i \in 0 .. nd - 1 : AddrAt(deadrefs, i) = b
  <2>1. DOMAIN addrs = 0 .. np - 1 /\ DOMAIN deadrefs = 0 .. nd - 1
    BY <1>8, <1>9
  <2>2. \A b : b \in InPool <=> \E i \in 0 .. np - 1 : AddrAt(addrs, i) = b
    BY <1>11, <2>1 DEF InPool, Elements
  <2>3. \A b : b \in Elements(deadrefs) <=> \E i \in 0 .. nd - 1 : AddrAt(deadrefs, i) = b
    BY <1>12, <2>1 DEF Elements
  <2> QED
    BY <1>15, <2>2, <2>3
<1>17. \A b \in B : b \in Memory /\ k[b] # "more"
  BY <1>12, <1>16
<1>18. /\ \A b \in B : b \in Nat /\ b < Infinity /\ size[b] \in Nat \ {0}
       /\ \A b, c \in B : b < c => b + size[b] <= c
  <2>1. ASSUME NEW b \in B
        PROVE  /\ b \in Nat /\ b < Infinity /\ size[b] \in Nat \ {0}
               /\ \A c \in B : b < c => b + size[b] <= c
    <3>1. b \in Memory
      BY <1>17
    <3>2. b \in Nat /\ b < Infinity
      BY <3>1, MemoryFacts
    <3>3. PICK z : z = size[b]
      OBVIOUS
    <3>4. z = Min({e \in {2 * i : i \in 1 .. NWords} :
                     b + e = 2 * NWords \/ (b + e \in Memory /\ k[b + e] # "more")})
      BY <1>1, <3>1, <3>3
    <3>5. z \in Nat \ {0} /\ \A c \in Memory : k[c] # "more" /\ b < c => b + z <= c
      BY <3>1, <3>4, SizeOfLayout
    <3> QED
      BY <1>17, <3>2, <3>3, <3>5
  <2> QED
    BY <2>1
<1>19. /\ \A i, j \in 0 .. np - 1 : i < j => AddrAt(addrs, i) < AddrAt(addrs, j)
       /\ \A i, j \in 0 .. nd - 1 : i < j => AddrAt(deadrefs, i) < AddrAt(deadrefs, j)
       /\ \A i \in 0 .. np - 1, j \in 0 .. nd - 1 : AddrAt(addrs, i) # AddrAt(deadrefs, j)
  <2>1. \A i, j \in 0 .. np - 1 : i < j => AddrAt(addrs, i) < AddrAt(addrs, j)
    BY <1>11, <1>13 DEF Buffer
  <2>2. \A i, j \in 0 .. nd - 1 : i < j => AddrAt(deadrefs, i) < AddrAt(deadrefs, j)
    BY <1>11, <1>14 DEF Buffer
  <2>3. \A i \in 0 .. np - 1, j \in 0 .. nd - 1 : AddrAt(addrs, i) # AddrAt(deadrefs, j)
    BY <1>12
  <2> QED
    BY <2>1, <2>2, <2>3
<1>20. BlocksApart(B, np, nd)
  <2>1. Infinity \in Nat
    BY MemoryFacts
  <2> QED
    BY <1>8, <1>9, <1>11, <1>16, <1>18, <1>19, <2>1 DEF BlocksApart
<1>21. \A i \in 0 .. nd - 1 : deadrefs[i] % 2 = 0
  BY <1>12
<1> QED
  BY <1>10, <1>13, <1>14, <1>15, <1>20, <1>21

\* The ranges lie in memory.
LEMMA RangeRight ==
  ASSUME LookupInit, range[1] < range[2]
  PROVE  /\ range[1] \in Nat /\ range[1] % 2 = 0
         /\ range[2] \in Nat /\ range[2] < Infinity
<1>1. \/ range \in {r \in Memory \X {2 * i : i \in 1 .. NWords} : r[1] < r[2]}
      \/ range = <<0, 0>>
  BY DEF LookupInit
<1>2. CASE range \in {r \in Memory \X {2 * i : i \in 1 .. NWords} : r[1] < r[2]}
  <2>1. PICK l, h : l = range[1] /\ h = range[2]
    OBVIOUS
  <2>2. l \in Memory /\ \E i \in 1 .. NWords : h = 2 * i
    BY <1>2, <2>1
  <2>3. l \in Nat /\ l % 2 = 0
    BY <2>2, MemoryFacts
  <2>4. PICK i \in 1 .. NWords : h = 2 * i
    BY <2>2
  <2>5. h \in Nat /\ h < Infinity
    BY <2>4, MemoryFacts
  <2> QED
    BY <2>1, <2>3, <2>5
<1>3. CASE range = <<0, 0>>
  <2>1. range[1] = 0 /\ range[2] = 0
    BY <1>3
  <2> QED
    BY <2>1
<1> QED
  BY <1>1, <1>2, <1>3

\* find_roots (child.c) reads every word of its range that is in no block of the pool and in
\* no dead one, and no other: for memory, blocks and ranges of any size, and any marks.
THEOREM RootsOutsideBlocksHolds == LookupInit => RootsOutsideBlocks
<1> SUFFICES ASSUME LookupInit, range[1] < range[2]
             PROVE  FindRoots(range[1], range[2]) =
                      {w \in Memory : range[1] <= w /\ w < range[2] /\
                         ~\E b \in InPool \cup Elements(deadrefs) : b <= w /\ w < b + size[b]}
  BY DEF RootsOutsideBlocks
<1>1. PICK B, low, high : B = InPool \cup Elements(deadrefs) /\ low = range[1] /\ high = range[2]
  OBVIOUS
<1>2. PICK np, nd : /\ BlocksApart(B, np, nd) /\ np # 0
                    /\ Buffer(addrs, np) /\ Buffer(deadrefs, nd)
                    /\ \A i \in 0 .. nd - 1 : deadrefs[i] % 2 = 0
  BY <1>1, InputsRight
<1>3. low \in Nat /\ low % 2 = 0 /\ high \in Nat /\ high < Infinity
  BY <1>1, RangeRight
<1>4. FindRoots(low, high) = Free(B, low, high)
  BY <1>2, <1>3, FindRootsRight
<1> QED
  BY <1>1, <1>4 DEF Free

(***************************************************************************)
(* Sorting.                                                                *)
(***************************************************************************)

\* b has the elements of a: in lo .. hi the same set of them, elsewhere each where it was.
Rearranged(a, b, n, lo, hi) ==
  /\ \A k \in 0 .. n - 1 : ~(lo <= k /\ k <= hi) => b[k] = a[k]
  /\ \A k \in lo .. hi : \E l \in lo .. hi : b[k] = a[l]
  /\ \A k \in lo .. hi : \E l \in lo .. hi : a[k] = b[l]

\* A part of an array.
Part(n, lo, hi) == n \in Nat /\ lo \in 0 .. n /\ hi \in -1 .. n - 1

\* Rearranging a part twice rearranges it.
LEMMA RearrangedTwice ==
  ASSUME NEW n, NEW lo, NEW hi, NEW a, NEW b, NEW c,
         Rearranged(a, b, n, lo, hi), Rearranged(b, c, n, lo, hi)
  PROVE  Rearranged(a, c, n, lo, hi)
<1>1. \A k \in 0 .. n - 1 : ~(lo <= k /\ k <= hi) => c[k] = a[k]
  BY DEF Rearranged
<1>2. ASSUME NEW k \in lo .. hi PROVE \E l \in lo .. hi : c[k] = a[l]
  <2>1. PICK l \in lo .. hi : c[k] = b[l]
    BY DEF Rearranged
  <2>2. PICK m \in lo .. hi : b[l] = a[m]
    BY DEF Rearranged
  <2> QED
    BY <2>1, <2>2
<1>3. ASSUME NEW k \in lo .. hi PROVE \E l \in lo .. hi : a[k] = c[l]
  <2>1. PICK l \in lo .. hi : a[k] = b[l]
    BY DEF Rearranged
  <2>2. PICK m \in lo .. hi : b[l] = c[m]
    BY DEF Rearranged
  <2> QED
    BY <2>1, <2>2
<1> QED
  BY <1>1, <1>2, <1>3 DEF Rearranged

\* Rearranging a part of a part rearranges that.
LEMMA RearrangedWithin ==
  ASSUME NEW n, NEW lo, NEW hi, Part(n, lo, hi), NEW l2 \in Int, NEW h2 \in Int, lo <= l2, h2 <= hi,
         NEW a, NEW b, Rearranged(a, b, n, l2, h2)
  PROVE  Rearranged(a, b, n, lo, hi)
<1>1. n \in Nat /\ lo \in 0 .. n /\ hi \in -1 .. n - 1
  BY DEF Part
<1>2. /\ \A k \in 0 .. n - 1 : ~(lo <= k /\ k <= hi) => ~(l2 <= k /\ k <= h2)
      /\ \A k \in l2 .. h2 : k \in lo .. hi
      /\ \A k \in lo .. hi : k \in 0 .. n - 1
      /\ \A k \in lo .. hi : k \in l2 .. h2 \/ ~(l2 <= k /\ k <= h2)
  BY <1>1
<1>3. /\ \A k \in 0 .. n - 1 : ~(l2 <= k /\ k <= h2) => b[k] = a[k]
      /\ \A k \in l2 .. h2 : \E l \in l2 .. h2 : b[k] = a[l]
      /\ \A k \in l2 .. h2 : \E l \in l2 .. h2 : a[k] = b[l]
  BY DEF Rearranged
<1>4. \A k \in 0 .. n - 1 : ~(lo <= k /\ k <= hi) => b[k] = a[k]
  BY <1>2, <1>3
<1>5. ASSUME NEW k \in lo .. hi PROVE \E l \in lo .. hi : b[k] = a[l]
  BY <1>2, <1>3
<1>6. ASSUME NEW k \in lo .. hi PROVE \E l \in lo .. hi : a[k] = b[l]
  BY <1>2, <1>3
<1> QED
  BY <1>4, <1>5, <1>6 DEF Rearranged

\* Two elements change places.
Swapped(a, b, n, i, j) ==
  /\ b[i] = a[j] /\ b[j] = a[i]
  /\ \A k \in 0 .. n - 1 : k # i /\ k # j => b[k] = a[k]

\* Swap does that, which rearranges every part with both places.
LEMMA SwapRight ==
  ASSUME NEW n, NEW lo, NEW hi, Part(n, lo, hi), NEW E, NEW a \in [0 .. n - 1 -> E],
         NEW i \in lo .. hi, NEW j \in lo .. hi, NEW b, b = Swap(a, i, j)
  PROVE  b \in [0 .. n - 1 -> E] /\ Swapped(a, b, n, i, j) /\ Rearranged(a, b, n, lo, hi)
<1>1. n \in Nat /\ lo \in 0 .. n /\ hi \in -1 .. n - 1
  BY DEF Part
<1>2. i \in 0 .. n - 1 /\ j \in 0 .. n - 1 /\ \A k \in lo .. hi : k \in 0 .. n - 1
  BY <1>1
<1>3. /\ b \in [0 .. n - 1 -> E] /\ b[i] = a[j] /\ b[j] = a[i]
      /\ \A k \in 0 .. n - 1 : k # i /\ k # j => b[k] = a[k]
  BY <1>2 DEF Swap
<1>4. \A k \in 0 .. n - 1 : ~(lo <= k /\ k <= hi) => b[k] = a[k]
  BY <1>1, <1>3
<1>5. ASSUME NEW k \in lo .. hi PROVE \E l \in lo .. hi : b[k] = a[l]
  <2>1. CASE k = i
    BY <1>3, <2>1
  <2>2. CASE k = j
    BY <1>3, <2>2
  <2>3. CASE k # i /\ k # j
    BY <1>2, <1>3, <2>3
  <2> QED
    BY <2>1, <2>2, <2>3
<1>6. ASSUME NEW k \in lo .. hi PROVE \E l \in lo .. hi : a[k] = b[l]
  <2>1. CASE k = i
    BY <1>3, <2>1
  <2>2. CASE k = j
    BY <1>3, <2>2
  <2>3. CASE k # i /\ k # j
    BY <1>2, <1>3, <2>3
  <2> QED
    BY <2>1, <2>2, <2>3
<1> QED
  BY <1>3, <1>4, <1>5, <1>6 DEF Rearranged, Swapped

\* In increasing order from lo to hi.
InOrder(a, lo, hi) == \A k, l \in lo .. hi : k < l => a[k] <= a[l]

\* What is before lo is not larger than what is in lo .. hi.
LowBefore(a, lo, hi) == \A j \in Nat, k \in lo .. hi : j < lo => a[j] <= a[k]

\* Indices around p.
LEMMA IndicesAround ==
  ASSUME NEW n \in Nat, NEW i \in 0 .. n - 1, NEW p \in 0 .. i
  PROVE  /\ p \in 0 .. n - 1 /\ ~(p < p)
         /\ \A k \in 0 .. n - 1 : /\ p < k /\ k <= i => k - 1 \in 0 .. n - 1
                                  /\ p < k => k # p
                                  /\ k < p \/ i < k => k # p /\ ~(p < k /\ k <= i)
         /\ p # 0 => /\ p - 1 \in 0 .. i /\ ~(p <= p - 1)
                     /\ \A k \in p - 1 .. i - 1 : k = p - 1 \/ k \in p .. i - 1
OBVIOUS

\* a[i] goes down to p, the larger ones before it up by one.
Sunk(a, b, n, i, p) ==
  /\ \A k \in p .. i - 1 : a[k] > a[i]
  /\ p = 0 \/ ~(a[p - 1] > a[i])
  /\ b[p] = a[i]
  /\ \A k \in 0 .. n - 1 : (p < k /\ k <= i => b[k] = a[k - 1]) /\ (k < p \/ i < k => b[k] = a[k])

\* The inner loop of insertion_sort does that.
LEMMA SinkTypes ==
  ASSUME NEW n \in Nat, NEW E, NEW a \in [0 .. n - 1 -> E], NEW i \in 0 .. n - 1, NEW b, b = Sink(a, i)
  PROVE  b \in [0 .. n - 1 -> E] /\ \E p \in 0 .. i : Sunk(a, b, n, i, p)
<1>20. PICK p : p = Min({j \in 0 .. i : \A k \in j .. i - 1 : a[k] > a[i]})
  OBVIOUS
<1> DEFINE J == {j \in 0 .. i : \A k \in j .. i - 1 : a[k] > a[i]}
<1>1. J \in SUBSET Nat
  OBVIOUS
<1>2. i \in J
  <2>1. i \in 0 .. i /\ \A k \in i .. i - 1 : FALSE
    OBVIOUS
  <2> QED
    BY <2>1
<1>3. p \in J /\ \A j \in J : p <= j
  <2> HIDE DEF J
  <2>1. J # {}
    BY <1>2
  <2> QED
    BY <1>1, <1>20, <2>1, MinIsLeast DEF J
<1>4. p \in 0 .. i /\ \A k \in p .. i - 1 : a[k] > a[i]
  BY <1>3
<1>11. p \in 0 .. i
  BY <1>4
<1>5. p = 0 \/ ~(a[p - 1] > a[i])
  <2> SUFFICES ASSUME p # 0, a[p - 1] > a[i] PROVE FALSE
    OBVIOUS
  <2>1. p - 1 \in 0 .. i /\ ~(p <= p - 1) /\ \A k \in p - 1 .. i - 1 : k = p - 1 \/ k \in p .. i - 1
    BY <1>11, IndicesAround
  <2>2. \A k \in p - 1 .. i - 1 : a[k] > a[i]
    BY <1>4, <2>1
  <2>3. p - 1 \in J
    BY <2>1, <2>2
  <2> QED
    BY <1>3, <2>1, <2>3
<1>6. b = [k \in 0 .. n - 1 |-> IF k = p THEN a[i] ELSE IF p < k /\ k <= i THEN a[k - 1] ELSE a[k]]
  BY <1>20 DEF Sink
<1>7. /\ p \in 0 .. n - 1 /\ a[i] \in E
      /\ \A k \in 0 .. n - 1 : a[k] \in E /\ (p < k /\ k <= i => k - 1 \in 0 .. n - 1) /\ ~(p < p)
  <2>1. /\ p \in 0 .. n - 1
        /\ \A k \in 0 .. n - 1 : (p < k /\ k <= i => k - 1 \in 0 .. n - 1) /\ ~(p < p)
    BY <1>11, IndicesAround
  <2> QED
    BY <2>1
<1>8. b \in [0 .. n - 1 -> E]
  BY <1>6, <1>7
<1>9. b[p] = a[i]
  BY <1>6, <1>7
<1>10. ASSUME NEW k \in 0 .. n - 1
       PROVE  (p < k /\ k <= i => b[k] = a[k - 1]) /\ (k < p \/ i < k => b[k] = a[k])
  <2>1. p < k => k # p
    BY <1>4
  <2>2. k < p \/ i < k => k # p /\ ~(p < k /\ k <= i)
    BY <1>4
  <2> QED
    BY <1>6, <2>1, <2>2
<1> QED
  BY <1>4, <1>5, <1>8, <1>9, <1>10 DEF Sunk

\* Of a part in order before i it makes one in order up to i, and what is before the part stays.
LEMMA SinkRight ==
  ASSUME NEW n \in Nat, NEW E \in SUBSET Nat, NEW a \in [0 .. n - 1 -> E], NEW i \in 0 .. n - 1,
         NEW lo \in 0 .. i, InOrder(a, lo, i - 1), LowBefore(a, lo, i), NEW b, b = Sink(a, i)
  PROVE  Rearranged(a, b, n, lo, i) /\ InOrder(b, lo, i)
<1>2. b \in [0 .. n - 1 -> E] /\ \E q \in 0 .. i : Sunk(a, b, n, i, q)
  BY SinkTypes
<1>3. PICK q \in 0 .. i : Sunk(a, b, n, i, q)
  BY <1>2
<1>4. /\ \A k \in q .. i - 1 : a[k] > a[i]
      /\ q = 0 \/ ~(a[q - 1] > a[i])
      /\ b[q] = a[i]
      /\ \A k \in 0 .. n - 1 : (q < k /\ k <= i => b[k] = a[k - 1]) /\ (k < q \/ i < k => b[k] = a[k])
  BY <1>3 DEF Sunk
<1>5. \A k \in 0 .. n - 1 : a[k] \in Nat
  OBVIOUS
<1>6. lo <= q
  <2> SUFFICES ASSUME q < lo PROVE FALSE
    OBVIOUS
  <2>1. lo - 1 \in q .. i - 1 /\ lo - 1 \in Nat /\ lo - 1 < lo /\ i \in lo .. i /\ lo - 1 \in 0 .. n - 1
    OBVIOUS
  <2>2. a[lo - 1] <= a[i]
    BY <2>1 DEF LowBefore
  <2> QED
    BY <1>4, <1>5, <2>1, <2>2
<1>7. \A k, l \in lo .. i - 1 : k < l => a[k] <= a[l]
  BY DEF InOrder
<1>8. ASSUME NEW k \in lo .. i, NEW l \in lo .. i, k < l PROVE b[k] <= b[l]
  <2>0. k \in 0 .. n - 1 /\ l \in 0 .. n - 1 /\ a[i] \in Nat
    BY <1>5
  <2>1. CASE l < q
    <3>1. k < q /\ k \in lo .. i - 1 /\ l \in lo .. i - 1
      BY <1>8, <2>1
    <3> QED
      BY <1>4, <1>7, <1>8, <2>0, <2>1, <3>1
  <2>2. CASE l = q
    <3>1. k < q /\ q # 0 /\ q - 1 \in 0 .. n - 1 /\ k \in lo .. i - 1 /\ q - 1 \in lo .. i - 1 /\ (k = q - 1 \/ k < q - 1)
      BY <1>8, <2>2
    <3>2. a[q - 1] <= a[i] /\ a[k] \in Nat /\ a[q - 1] \in Nat
      BY <1>4, <1>5, <2>0, <3>1
    <3>3. a[k] <= a[q - 1]
      BY <1>7, <3>1, <3>2
    <3>4. a[k] <= a[i]
      BY <2>0, <3>2, <3>3
    <3> QED
      BY <1>4, <2>0, <2>2, <3>1, <3>4
  <2>3. CASE k < q /\ q < l
    <3>1. k \in lo .. i - 1 /\ l - 1 \in lo .. i - 1 /\ k < l - 1 /\ l <= i
      BY <2>3, <1>6
    <3> QED
      BY <1>4, <1>7, <2>0, <2>3, <3>1
  <2>4. CASE k = q
    <3>1. l - 1 \in q .. i - 1 /\ l - 1 \in 0 .. n - 1 /\ q < l /\ l <= i
      BY <1>6, <1>8, <2>4
    <3>2. a[l - 1] > a[i] /\ a[l - 1] \in Nat
      BY <1>4, <1>5, <3>1
    <3>3. a[i] <= a[l - 1]
      BY <2>0, <3>2
    <3> QED
      BY <1>4, <2>0, <2>4, <3>1, <3>3
  <2>5. CASE q < k
    <3>1. k - 1 \in lo .. i - 1 /\ l - 1 \in lo .. i - 1 /\ k - 1 < l - 1 /\ q < l /\ l <= i /\ k <= i
      BY <1>6, <1>8, <2>5
    <3> QED
      BY <1>4, <1>7, <2>0, <2>5, <3>1
  <2>6. l < q \/ l = q \/ (k < q /\ q < l) \/ k = q \/ q < k
    BY <2>0
  <2> QED
    BY <2>1, <2>2, <2>3, <2>4, <2>5, <2>6
<1>9. \A k \in 0 .. n - 1 : ~(lo <= k /\ k <= i) => b[k] = a[k]
  <2>1. \A k \in 0 .. n - 1 : ~(lo <= k /\ k <= i) => k < q \/ i < k
    BY <1>6
  <2> QED
    BY <1>4, <2>1
<1>10. ASSUME NEW k \in lo .. i PROVE \E l \in lo .. i : b[k] = a[l]
  <2>0. k \in 0 .. n - 1 /\ i \in lo .. i
    OBVIOUS
  <2>1. CASE k < q
    BY <1>4, <2>0, <2>1
  <2>2. CASE k = q
    BY <1>4, <2>0, <2>2
  <2>3. CASE q < k
    <3>1. k <= i /\ k - 1 \in lo .. i
      BY <1>6, <2>3
    <3> QED
      BY <1>4, <2>0, <2>3, <3>1
  <2> QED
    BY <2>0, <2>1, <2>2, <2>3
<1>11. ASSUME NEW k \in lo .. i PROVE \E l \in lo .. i : a[k] = b[l]
  <2>0. k \in 0 .. n - 1 /\ q \in lo .. i
    BY <1>6
  <2>1. CASE k < q
    BY <1>4, <2>0, <2>1
  <2>2. CASE k = i
    BY <1>4, <2>0, <2>2
  <2>3. CASE q <= k /\ k < i
    <3>1. k + 1 \in 0 .. n - 1 /\ k + 1 \in lo .. i /\ q < k + 1 /\ k + 1 <= i /\ (k + 1) - 1 = k
      BY <1>6, <2>3
    <3> QED
      BY <1>4, <3>1
  <2>4. k < q \/ k = i \/ (q <= k /\ k < i)
    BY <2>0
  <2> QED
    BY <2>1, <2>2, <2>3, <2>4
<1> QED
  BY <1>8, <1>9, <1>10, <1>11 DEF Rearranged, InOrder

\* The loop of insertion_sort.
Sinks(a, min, max, f) ==
  f = [i \in min .. max |-> IF i = min THEN a ELSE Sink(f[i - 1], i)]

\* The same, round by round: from a to b.
SinksTo(a, b, min, max, f) ==
  /\ f[min] = a /\ f[max] = b
  /\ \A i \in min + 1 .. max : f[i] = Sink(f[i - 1], i)

\* The loop has values, and insertion_sort returns the last of them.
LEMMA InsertionTypes ==
  ASSUME NEW n \in Nat, NEW E, NEW a \in [0 .. n - 1 -> E],
         NEW min \in 0 .. n - 1, NEW max \in 0 .. n - 1, min < max,
         NEW b, b = InsertionSort(a, min, max)
  PROVE  \E f \in [min .. max -> [0 .. n - 1 -> E]] : SinksTo(a, b, min, max, f)
<1> DEFINE V == [0 .. n - 1 -> E]
           T == [i \in min .. max |-> [v \in V |-> Sink(v, i)]]
           g == CHOOSE f : Sinks(a, min, max, f)
<1>1. b = g[max]
  BY DEF InsertionSort, Sinks
<1>2. \A i \in min .. max : \A v \in V : Sink(v, i) \in V
  <2> SUFFICES ASSUME NEW i \in min .. max, NEW v \in [0 .. n - 1 -> E] PROVE Sink(v, i) \in [0 .. n - 1 -> E]
    OBVIOUS
  <2>1. i \in 0 .. n - 1
    OBVIOUS
  <2> QED
    BY <2>1, SinkTypes
<1>3. IsLoop(min, max, V, a, T) /\ \A i \in min .. max : \A v \in V : T[i][v] = Sink(v, i)
  <2>1. a \in V /\ min \in Int /\ max \in Int /\ min <= max
    OBVIOUS
  <2> HIDE DEF V
  <2>2. T \in [min .. max -> [V -> V]]
    BY <1>2
  <2> QED
    BY <2>1, <2>2 DEF IsLoop
<1> HIDE DEF T, V
<1>4. PICK f \in [min .. max -> V] : Runs(min, max, a, T, f)
  BY <1>3, LoopExists
<1>5. \A i \in min .. max : i # min => i - 1 \in min .. max
  OBVIOUS
<1>6. \A i \in min .. max : f[i] = IF i = min THEN a ELSE Sink(f[i - 1], i)
  BY <1>3, <1>4, <1>5 DEF Runs
<1>7. f = [i \in min .. max |-> IF i = min THEN a ELSE Sink(f[i - 1], i)]
  BY <1>6
<1>8. Sinks(a, min, max, g)
  BY <1>7 DEF Sinks
<1> HIDE DEF g
<1>9. g = [i \in min .. max |-> IF i = min THEN a ELSE Sink(g[i - 1], i)]
  BY <1>8 DEF Sinks
<1>10. /\ min \in min .. max /\ max \in min .. max
       /\ \A i \in min + 1 .. max : i \in min .. max /\ i # min /\ i - 1 \in min .. max
  OBVIOUS
<1> DEFINE bad == {i \in min .. max : g[i] \notin V}
<1>11. bad = {}
  <2> SUFFICES ASSUME bad # {} PROVE FALSE
    OBVIOUS
  <2>1. PICK i \in bad : \A e \in bad : i <= e
    <3>1. bad \in SUBSET Nat
      OBVIOUS
    <3> HIDE DEF bad
    <3> QED
      BY <3>1, LeastNat
  <2>2. i \in min .. max /\ g[i] \notin V
    BY <2>1
  <2>3. i # min
    BY <1>9, <2>2 DEF V
  <2>4. i - 1 \in min .. max /\ ~(i <= i - 1)
    BY <2>2, <2>3
  <2>5. g[i - 1] \in V
    BY <2>1, <2>4
  <2>6. g[i] = Sink(g[i - 1], i)
    BY <1>9, <2>2, <2>3
  <2> QED
    BY <1>2, <2>2, <2>5, <2>6
<1>12. g \in [min .. max -> V]
  <2>1. \A i \in min .. max : g[i] \in V
    BY <1>11
  <2>2. g = [i \in min .. max |-> g[i]]
    BY <1>9
  <2> QED
    BY <2>1, <2>2
<1>13. /\ g[min] = a
       /\ \A i \in min + 1 .. max : g[i] = Sink(g[i - 1], i)
  BY <1>9, <1>10
<1> QED
  BY <1>1, <1>12, <1>13 DEF V, SinksTo

\* insertion_sort puts its part in order.
LEMMA InsertionRight ==
  ASSUME NEW n, NEW min, NEW max, Part(n, min, max), NEW E \in SUBSET Nat, NEW a \in [0 .. n - 1 -> E],
         NEW b, b = InsertionSort(a, min, max)
  PROVE  /\ b \in [0 .. n - 1 -> E]
         /\ LowBefore(a, min, max) => Rearranged(a, b, n, min, max) /\ InOrder(b, min, max)
<1>1. n \in Nat /\ min \in 0 .. n /\ max \in -1 .. n - 1
  BY DEF Part
<1>2. CASE ~(min < max)
  <2>1. b = a
    BY <1>2 DEF InsertionSort
  <2>2. Rearranged(a, a, n, min, max)
    BY DEF Rearranged
  <2>3. \A k, l \in min .. max : ~(k < l)
    BY <1>1, <1>2
  <2> QED
    BY <2>1, <2>2, <2>3 DEF InOrder
<1>3. CASE min < max
  <2>0. min \in 0 .. n - 1 /\ max \in 0 .. n - 1
    BY <1>1, <1>3
  <2>9. PICK f \in [min .. max -> [0 .. n - 1 -> E]] : SinksTo(a, b, min, max, f)
    BY <1>1, <1>3, <2>0, InsertionTypes
  <2>1. /\ f[min] = a /\ f[max] = b
        /\ \A i \in min + 1 .. max : f[i] = Sink(f[i - 1], i)
    BY <2>9 DEF SinksTo
  <2>2. b \in [0 .. n - 1 -> E]
    <3>1. max \in min .. max
      BY <1>1, <1>3
    <3> QED
      BY <2>1, <3>1
  <2>3. ASSUME LowBefore(a, min, max) PROVE Rearranged(a, b, n, min, max) /\ InOrder(b, min, max)
    <3> DEFINE good(i) == Rearranged(a, f[i], n, min, i) /\ InOrder(f[i], min, i)
               bad == {i \in min .. max : ~good(i)}
    <3>1. good(min)
      <4>1. \A k, l \in min .. min : ~(k < l)
        BY <1>1
      <4>2. Rearranged(a, a, n, min, min)
        BY DEF Rearranged
      <4> QED
        BY <2>1, <4>1, <4>2 DEF InOrder
    <3>2. ASSUME NEW i \in min + 1 .. max, good(i - 1) PROVE good(i)
      <4>0. /\ i \in 0 .. n - 1 /\ i - 1 \in min .. max /\ i \in min .. max /\ min \in 0 .. i /\ i \in Nat
            /\ \A k \in min .. i : k \in 0 .. n - 1 /\ k \in min .. max
            /\ \A j \in Nat : j < min => j \in 0 .. n - 1 /\ ~(min <= j /\ j <= i - 1)
            /\ \A k \in min .. i : k \in min .. i - 1 \/ (k = i /\ ~(min <= k /\ k <= i - 1))
            /\ \A k \in min .. i - 1 : k \in min .. max
        BY <1>1, <1>3, <2>0
      <4>1. PICK v \in [0 .. n - 1 -> E] : v = f[i - 1]
        BY <2>1, <4>0
      <4>2. f[i] = Sink(v, i)
        BY <2>1, <4>1
      <4>3. Rearranged(a, v, n, min, i - 1) /\ InOrder(v, min, i - 1)
        BY <3>2, <4>1
      <4>4. LowBefore(v, min, i)
        <5> SUFFICES ASSUME NEW j \in Nat, NEW k \in min .. i, j < min PROVE v[j] <= v[k]
          BY DEF LowBefore
        <5>1. v[j] = a[j]
          BY <4>0, <4>3 DEF Rearranged
        <5>2. \E l \in min .. max : v[k] = a[l]
          <6>1. CASE k \in min .. i - 1
            BY <4>0, <4>3, <6>1 DEF Rearranged
          <6>2. CASE k = i
            BY <4>0, <4>3, <6>2 DEF Rearranged
          <6> QED
            BY <4>0, <6>1, <6>2
        <5>3. \A l \in min .. max : a[j] <= a[l]
          BY <2>3 DEF LowBefore
        <5> QED
          BY <5>1, <5>2, <5>3
      <4>5. PICK w : w = Sink(v, i)
        OBVIOUS
      <4>6. Rearranged(v, w, n, min, i) /\ InOrder(w, min, i)
        BY <1>1, <4>0, <4>3, <4>4, <4>5, SinkRight
      <4>7. Rearranged(a, v, n, min, i)
        <5>1. Part(n, min, i) /\ i - 1 \in Int /\ min \in Int /\ min <= min /\ i - 1 <= i
          BY <1>1, <4>0 DEF Part
        <5> QED
          BY <4>3, <5>1, RearrangedWithin
      <4>8. Rearranged(a, w, n, min, i)
        BY <4>6, <4>7, RearrangedTwice
      <4> QED
        BY <4>2, <4>5, <4>6, <4>8
    <3> HIDE DEF good
    <3>3. bad = {}
      <4> SUFFICES ASSUME bad # {} PROVE FALSE
        OBVIOUS
      <4>1. PICK i \in bad : \A e \in bad : i <= e
        <5>1. bad \in SUBSET Nat
          BY <1>1
        <5> HIDE DEF bad
        <5> QED
          BY <5>1, LeastNat
      <4>2. i \in min .. max /\ ~good(i)
        BY <4>1
      <4>3. i # min
        BY <3>1, <4>2
      <4>4. i \in min + 1 .. max /\ i - 1 \in min .. max /\ ~(i <= i - 1)
        BY <1>1, <4>2, <4>3
      <4>5. good(i - 1)
        BY <4>1, <4>4
      <4> QED
        BY <3>2, <4>2, <4>4, <4>5
    <3>4. good(max)
      <4>1. max \in min .. max
        BY <1>1, <1>3
      <4> QED
        BY <3>3, <4>1
    <3> QED
      BY <2>1, <3>4 DEF good
  <2> QED
    BY <2>2, <2>3
<1> QED
  BY <1>2, <1>3

\* What holds at lo and goes from each round to the next holds up to hi.
LEMMA RoundByRound ==
  ASSUME NEW lo \in Int, NEW hi \in Int, NEW Q, lo \in Q, \A i \in lo + 1 .. hi : i - 1 \in Q => i \in Q
  PROVE  \A i \in lo .. hi : i \in Q
<1> DEFINE bad == {d \in Nat : lo + d <= hi /\ lo + d \notin Q}
<1>1. bad = {}
  <2> SUFFICES ASSUME bad # {} PROVE FALSE
    OBVIOUS
  <2>1. PICK d \in bad : \A e \in bad : d <= e
    <3>1. bad \in SUBSET Nat
      OBVIOUS
    <3> HIDE DEF bad
    <3> QED
      BY <3>1, LeastNat
  <2>2. d \in Nat /\ lo + d <= hi /\ lo + d \notin Q
    BY <2>1
  <2>3. d # 0
    BY <2>2
  <2>4. d - 1 \in Nat /\ ~(d <= d - 1) /\ lo + (d - 1) <= hi /\ (lo + d) - 1 = lo + (d - 1) /\ lo + d \in lo + 1 .. hi
    BY <2>2, <2>3
  <2>5. lo + (d - 1) \in Q
    BY <2>1, <2>4
  <2> QED
    BY <2>2, <2>4, <2>5
<1> SUFFICES ASSUME NEW i \in lo .. hi PROVE i \in Q
  OBVIOUS
<1>2. i - lo \in Nat /\ lo + (i - lo) = i /\ i <= hi
  OBVIOUS
<1>3. i - lo \notin bad
  BY <1>1
<1> QED
  BY <1>2, <1>3

\* The loop of partition: v is the pivot's value, now at max; what is before s.mid is not
\* larger, what is from there to i - 1 is.
Parts(a, n, E, min, max, v, i, s) ==
  /\ s \in [a : [0 .. n - 1 -> E], mid : Nat]
  /\ s.mid \in min .. i /\ s.a[max] = v
  /\ \A k \in min .. s.mid - 1 : s.a[k] <= v
  /\ \A k \in s.mid .. i - 1 : s.a[k] > v
  /\ Rearranged(a, s.a, n, min, max)

\* A round of it.
LEMMA PartsRound ==
  ASSUME NEW n, NEW min, NEW max, Part(n, min, max), NEW E \in SUBSET Nat, NEW a \in [0 .. n - 1 -> E],
         NEW v \in Nat, NEW i \in min + 1 .. max, NEW s, Parts(a, n, E, min, max, v, i - 1, s),
         NEW t, t = IF s.a[i - 1] <= v THEN [a |-> Swap(s.a, i - 1, s.mid), mid |-> s.mid + 1] ELSE s
  PROVE  Parts(a, n, E, min, max, v, i, t)
<1>1. n \in Nat /\ min \in 0 .. n /\ max \in -1 .. n - 1
  BY DEF Part
<1>2. PICK b, m : b = s.a /\ m = s.mid
  OBVIOUS
<1>3. /\ b \in [0 .. n - 1 -> E] /\ m \in Nat
      /\ m \in min .. i - 1 /\ b[max] = v
      /\ \A k \in min .. m - 1 : b[k] <= v
      /\ \A k \in m .. (i - 1) - 1 : b[k] > v
      /\ Rearranged(a, b, n, min, max)
  BY <1>2 DEF Parts
<1>4. /\ m \in min .. i /\ m + 1 \in min .. i /\ i - 1 \in min .. max /\ m \in min .. max
      /\ i - 1 \in 0 .. n - 1 /\ m \in 0 .. n - 1 /\ max \in 0 .. n - 1 /\ max # i - 1 /\ max # m
      /\ m \in Nat /\ m + 1 \in Nat
  BY <1>1, <1>3
<1>5. b[i - 1] \in Nat
  BY <1>3, <1>4
<1>6. CASE b[i - 1] <= v
  <2>1. PICK c : c = Swap(b, i - 1, m)
    OBVIOUS
  <2>2. t = [a |-> c, mid |-> m + 1]
    BY <1>2, <1>6, <2>1
  <2>3. /\ c \in [0 .. n - 1 -> E] /\ c[i - 1] = b[m] /\ c[m] = b[i - 1]
        /\ \A k \in 0 .. n - 1 : k # i - 1 /\ k # m => c[k] = b[k]
        /\ Rearranged(b, c, n, min, max)
    <3>1. PICK j : j = i - 1
      OBVIOUS
    <3>2. b \in [0 .. n - 1 -> E] /\ j \in min .. max /\ m \in min .. max /\ c = Swap(b, j, m)
      BY <1>3, <1>4, <2>1, <3>1
    <3>3. c \in [0 .. n - 1 -> E] /\ Swapped(b, c, n, j, m) /\ Rearranged(b, c, n, min, max)
      BY <3>2, SwapRight
    <3> QED
      BY <3>1, <3>3 DEF Swapped
  <2>4. c[max] = v
    BY <1>3, <1>4, <2>3
  <2>5. ASSUME NEW k \in min .. (m + 1) - 1 PROVE c[k] <= v
    <3>1. CASE k = m
      BY <1>6, <2>3, <3>1
    <3>2. CASE k # m
      <4>1. k \in min .. m - 1 /\ k \in 0 .. n - 1 /\ k # i - 1
        BY <1>1, <1>3, <3>2
      <4> QED
        BY <1>3, <2>3, <3>2, <4>1
    <3> QED
      BY <3>1, <3>2
  <2>6. ASSUME NEW k \in m + 1 .. i - 1 PROVE c[k] > v
    <3>1. CASE k = i - 1
      <4>1. m \in m .. (i - 1) - 1
        BY <1>4, <3>1
      <4> QED
        BY <1>3, <2>3, <3>1, <4>1
    <3>2. CASE k # i - 1
      <4>1. k \in m .. (i - 1) - 1 /\ k \in 0 .. n - 1 /\ k # m
        BY <1>1, <1>4, <3>2
      <4> QED
        BY <1>3, <2>3, <3>2, <4>1
    <3> QED
      BY <3>1, <3>2
  <2>7. Rearranged(a, c, n, min, max)
    BY <1>3, <2>3, RearrangedTwice
  <2>8. t \in [a : [0 .. n - 1 -> E], mid : Nat] /\ t.a = c /\ t.mid = m + 1
    BY <1>4, <2>2, <2>3
  <2> QED
    BY <1>4, <2>4, <2>5, <2>6, <2>7, <2>8 DEF Parts
<1>7. CASE ~(b[i - 1] <= v)
  <2>1. t = s /\ b[i - 1] > v
    BY <1>2, <1>5, <1>7
  <2>2. ASSUME NEW k \in m .. i - 1 PROVE b[k] > v
    <3>1. k = i - 1 \/ k \in m .. (i - 1) - 1
      BY <1>4
    <3> QED
      BY <1>3, <2>1, <3>1
  <2>3. s \in [a : [0 .. n - 1 -> E], mid : Nat]
    BY DEF Parts
  <2> QED
    BY <1>2, <1>3, <1>4, <2>1, <2>2, <2>3 DEF Parts
<1> QED
  BY <1>6, <1>7

\* The whole loop.
PartLoop(a, pivot, min, max, f) ==
  f = [i \in min .. max |->
        IF i = min THEN [a |-> Swap(a, pivot, max), mid |-> min]
        ELSE LET s == f[i - 1]
             IN  IF s.a[i - 1] <= a[pivot]
                 THEN [a |-> Swap(s.a, i - 1, s.mid), mid |-> s.mid + 1]
                 ELSE s]

\* It has values, which have the invariant.
LEMMA PartLoopRight ==
  ASSUME NEW n, NEW min, NEW max, Part(n, min, max), min < max,
         NEW E \in SUBSET Nat, NEW a \in [0 .. n - 1 -> E],
         NEW pivot \in min .. max
  PROVE  /\ a[pivot] \in Nat
         /\ \E f : PartLoop(a, pivot, min, max, f)
         /\ \A f : PartLoop(a, pivot, min, max, f) => Parts(a, n, E, min, max, a[pivot], max, f[max])
<1>1. n \in Nat /\ min \in 0 .. n - 1 /\ max \in 0 .. n - 1 /\ min \in min .. max /\ max \in min .. max
  BY DEF Part
<1>2. pivot \in 0 .. n - 1
  BY <1>1
<1>3. PICK v : v = a[pivot]
  OBVIOUS
<1>4. v \in Nat
  BY <1>2, <1>3
<1> DEFINE V == [a : [0 .. n - 1 -> E], mid : Nat]
           s0 == [a |-> Swap(a, pivot, max), mid |-> min]
           round(i, s) == IF s.a[i - 1] <= v THEN [a |-> Swap(s.a, i - 1, s.mid), mid |-> s.mid + 1] ELSE s
           ok(i, s) == Parts(a, n, E, min, max, v, i, s)
           T == [i \in min .. max |-> [s \in V |-> IF round(i, s) \in V THEN round(i, s) ELSE s]]
<1>5. ok(min, s0) /\ s0 \in V
  <2>1. PICK b : b = Swap(a, pivot, max)
    OBVIOUS
  <2>2. b \in [0 .. n - 1 -> E] /\ b[max] = v /\ Rearranged(a, b, n, min, max)
    <3>1. b \in [0 .. n - 1 -> E] /\ Swapped(a, b, n, pivot, max) /\ Rearranged(a, b, n, min, max)
      BY <1>1, <1>2, <2>1, SwapRight
    <3> QED
      BY <1>3, <3>1 DEF Swapped
  <2>3. s0 \in V /\ s0.a = b /\ s0.mid = min
    BY <1>1, <2>1, <2>2
  <2>4. min \in min .. min /\ (\A k \in min .. min - 1 : FALSE)
    BY <1>1
  <2> HIDE DEF s0
  <2> QED
    BY <2>2, <2>3, <2>4 DEF Parts
<1>6. ASSUME NEW i \in min + 1 .. max, NEW s, ok(i - 1, s) PROVE ok(i, round(i, s))
  <2>1. PICK t : t = round(i, s)
    OBVIOUS
  <2>2. Parts(a, n, E, min, max, v, i, t)
    BY <1>4, <1>6, <2>1, PartsRound
  <2> QED
    BY <2>1, <2>2
<1>7. ASSUME NEW i, NEW s, ok(i, s) PROVE s \in V
  BY <1>7 DEF Parts
<1> HIDE DEF V, s0, round, ok
<1>8. \A i \in min .. max : i # min => i - 1 \in min .. max /\ i \in min + 1 .. max
  BY <1>1
<1>9. PICK f \in [min .. max -> V] : Runs(min, max, s0, T, f)
  <2>1. T \in [min .. max -> [V -> V]]
    OBVIOUS
  <2> HIDE DEF T
  <2>2. IsLoop(min, max, V, s0, T)
    BY <1>1, <1>5, <2>1 DEF IsLoop
  <2> QED
    BY <2>2, LoopExists
<1>10. \A i \in min .. max : \A s \in V : round(i, s) \in V => T[i][s] = round(i, s)
  OBVIOUS
<1> HIDE DEF T
<1>11. \A i \in min .. max : ok(i, f[i])
  <2> DEFINE Q == {i \in min .. max : ok(i, f[i])}
  <2>1. min \in Q
    BY <1>1, <1>5, <1>9 DEF Runs
  <2>2. ASSUME NEW i \in min + 1 .. max, i - 1 \in Q PROVE i \in Q
    <3>1. i \in min .. max /\ i # min
      BY <1>1
    <3>2. ok(i - 1, f[i - 1]) /\ f[i - 1] \in V
      BY <1>7, <2>2
    <3>3. ok(i, round(i, f[i - 1])) /\ round(i, f[i - 1]) \in V
      BY <1>6, <1>7, <3>2
    <3>4. f[i] = round(i, f[i - 1])
      BY <1>9, <1>10, <3>1, <3>2, <3>3 DEF Runs
    <3> QED
      BY <3>1, <3>3, <3>4
  <2>3. min \in Int /\ max \in Int
    BY <1>1
  <2> HIDE DEF Q
  <2>4. \A i \in min .. max : i \in Q
    BY <2>1, <2>2, <2>3, RoundByRound
  <2> QED
    BY <2>4 DEF Q
<1>12. \A i \in min .. max : f[i] = IF i = min THEN s0 ELSE round(i, f[i - 1])
  <2> SUFFICES ASSUME NEW i \in min .. max PROVE f[i] = IF i = min THEN s0 ELSE round(i, f[i - 1])
    OBVIOUS
  <2>1. CASE i = min
    BY <1>9, <2>1 DEF Runs
  <2>2. CASE i # min
    <3>1. ok(i - 1, f[i - 1]) /\ f[i - 1] \in V
      BY <1>7, <1>8, <1>11, <2>2
    <3>2. round(i, f[i - 1]) \in V
      BY <1>6, <1>7, <1>8, <2>2, <3>1
    <3> QED
      BY <1>9, <1>10, <2>2, <3>1, <3>2 DEF Runs
  <2> QED
    BY <2>1, <2>2
<1>13. f = [i \in min .. max |-> IF i = min THEN s0 ELSE round(i, f[i - 1])]
  BY <1>12
<1>14. PartLoop(a, pivot, min, max, f)
  BY <1>3, <1>13 DEF PartLoop, s0, round
<1>15. ASSUME NEW g, PartLoop(a, pivot, min, max, g) PROVE ok(max, g[max])
  <2>0. g = [i \in min .. max |-> IF i = min THEN s0 ELSE round(i, g[i - 1])]
    BY <1>3, <1>15 DEF PartLoop, s0, round
  <2> DEFINE Q == {i \in min .. max : ok(i, g[i])}
  <2>1. min \in Q
    BY <1>1, <1>5, <2>0
  <2>2. ASSUME NEW i \in min + 1 .. max, i - 1 \in Q PROVE i \in Q
    <3>1. i \in min .. max /\ i # min
      BY <1>1
    <3>2. g[i] = round(i, g[i - 1])
      BY <2>0, <3>1
    <3>3. ok(i, g[i])
      BY <1>6, <2>2, <3>2
    <3> QED
      BY <3>1, <3>3
  <2>3. min \in Int /\ max \in Int
    BY <1>1
  <2> HIDE DEF Q
  <2>4. \A i \in min .. max : i \in Q
    BY <2>1, <2>2, <2>3, RoundByRound
  <2> QED
    BY <1>1, <2>4 DEF Q
<1> QED
  BY <1>3, <1>4, <1>14, <1>15 DEF ok

\* The pivot is at mid, with nothing larger before it and nothing smaller behind.
Splits(b, min, mid, max) ==
  /\ mid \in min .. max
  /\ \A k \in min .. mid - 1 : b[k] <= b[mid]
  /\ \A k \in mid + 1 .. max : b[mid] <= b[k]

\* partition rearranges its part so that the pivot splits it.
LEMMA PartitionRight ==
  ASSUME NEW n, NEW min, NEW max, Part(n, min, max), min < max,
         NEW E \in SUBSET Nat, NEW a \in [0 .. n - 1 -> E], NEW r, r = Partition(a, min, max)
  PROVE  /\ r.a \in [0 .. n - 1 -> E] /\ Rearranged(a, r.a, n, min, max)
         /\ Splits(r.a, min, r.mid, max)
<1>1. n \in Nat /\ min \in 0 .. n - 1 /\ max \in 0 .. n - 1 /\ min \in min .. max /\ max \in min .. max
  BY DEF Part
<1>2. PICK pivot \in min .. max : pivot = (max + min) \div 2
  <2>1. (max + min) \div 2 \in min .. max
    BY <1>1
  <2> QED
    BY <2>1
<1>3. PICK v : v = a[pivot]
  OBVIOUS
<1>4. PICK f : f = CHOOSE g : PartLoop(a, pivot, min, max, g)
  OBVIOUS
<1>5. v \in Nat /\ Parts(a, n, E, min, max, v, max, f[max])
  <2>1. /\ a[pivot] \in Nat
        /\ \E g : PartLoop(a, pivot, min, max, g)
        /\ \A g : PartLoop(a, pivot, min, max, g) => Parts(a, n, E, min, max, a[pivot], max, g[max])
    BY PartLoopRight
  <2>2. PartLoop(a, pivot, min, max, f)
    BY <1>4, <2>1
  <2> QED
    BY <1>3, <2>1, <2>2
<1>6. PICK s : s = f[max]
  OBVIOUS
<1>7. r = [s EXCEPT !.a = Swap(s.a, s.mid, max)]
  BY <1>2, <1>4, <1>6 DEF Partition, PartLoop
<1>8. PICK b, m : b = s.a /\ m = s.mid
  OBVIOUS
<1>9. /\ s \in [a : [0 .. n - 1 -> E], mid : Nat]
      /\ b \in [0 .. n - 1 -> E]
      /\ m \in min .. max /\ b[max] = v
      /\ \A k \in min .. m - 1 : b[k] <= v
      /\ \A k \in m .. max - 1 : b[k] > v
      /\ Rearranged(a, b, n, min, max)
  BY <1>5, <1>6, <1>8 DEF Parts
<1>10. PICK c : c = Swap(b, m, max)
  OBVIOUS
<1>11. r.a = c /\ r.mid = m
  BY <1>7, <1>8, <1>9, <1>10
<1>12. /\ c \in [0 .. n - 1 -> E] /\ c[m] = b[max] /\ c[max] = b[m]
       /\ \A k \in 0 .. n - 1 : k # m /\ k # max => c[k] = b[k]
       /\ Rearranged(b, c, n, min, max)
  <2>1. c \in [0 .. n - 1 -> E] /\ Swapped(b, c, n, m, max) /\ Rearranged(b, c, n, min, max)
    BY <1>1, <1>9, <1>10, SwapRight
  <2> QED
    BY <2>1 DEF Swapped
<1>13. Rearranged(a, c, n, min, max)
  BY <1>9, <1>12, RearrangedTwice
<1>14. ASSUME NEW k \in min .. m - 1 PROVE c[k] <= c[m]
  <2>1. k \in 0 .. n - 1 /\ k # m /\ k # max
    BY <1>1, <1>9
  <2> QED
    BY <1>9, <1>12, <2>1
<1>15. ASSUME NEW k \in m + 1 .. max PROVE c[m] <= c[k]
  <2>0. c[m] = v
    BY <1>9, <1>12
  <2>1. CASE k = max
    <3>1. m \in m .. max - 1 /\ m \in 0 .. n - 1
      BY <1>1, <1>9, <2>1
    <3>2. b[m] > v /\ b[m] \in Nat
      BY <1>9, <3>1
    <3>3. v <= b[m]
      BY <1>5, <3>2
    <3> QED
      BY <1>12, <2>0, <2>1, <3>3
  <2>2. CASE k # max
    <3>1. k \in m .. max - 1 /\ k \in 0 .. n - 1 /\ k # m
      BY <1>1, <1>9, <2>2
    <3>2. b[k] > v /\ b[k] \in Nat /\ c[k] = b[k]
      BY <1>9, <1>12, <2>2, <3>1
    <3>3. v <= b[k]
      BY <1>5, <3>2
    <3> QED
      BY <2>0, <3>2, <3>3
  <2> QED
    BY <2>1, <2>2
<1> QED
  BY <1>9, <1>11, <1>12, <1>13, <1>14, <1>15 DEF Splits

\* The elements before lo stay the smaller ones.
LEMMA LowStays ==
  ASSUME NEW n, NEW lo, NEW hi, Part(n, lo, hi), NEW a, NEW b, Rearranged(a, b, n, lo, hi), LowBefore(a, lo, hi)
  PROVE  LowBefore(b, lo, hi)
<1> SUFFICES ASSUME NEW j \in Nat, NEW k \in lo .. hi, j < lo PROVE b[j] <= b[k]
  BY DEF LowBefore
<1>1. j \in 0 .. n - 1 /\ ~(lo <= j /\ j <= hi)
  BY DEF Part
<1>2. b[j] = a[j]
  BY <1>1 DEF Rearranged
<1>3. PICK l \in lo .. hi : b[k] = a[l]
  BY DEF Rearranged
<1>4. a[j] <= a[l]
  BY DEF LowBefore
<1> QED
  BY <1>2, <1>3, <1>4

\* A round of quicksort: c partitioned is b, b with its left part sorted l, and l with its
\* right part sorted x.
LEMMA QuickRound ==
  ASSUME NEW n, NEW lo, NEW hi, Part(n, lo, hi), NEW E \in SUBSET Nat,
         NEW c \in [0 .. n - 1 -> E], NEW b \in [0 .. n - 1 -> E],
         NEW l \in [0 .. n - 1 -> E], NEW x \in [0 .. n - 1 -> E],
         LowBefore(c, lo, hi), Rearranged(c, b, n, lo, hi), NEW m, Splits(b, lo, m, hi),
         LowBefore(b, lo, m - 1) => Rearranged(b, l, n, lo, m - 1) /\ InOrder(l, lo, m - 1),
         LowBefore(l, m + 1, hi) => Rearranged(l, x, n, m + 1, hi) /\ InOrder(x, m + 1, hi)
  PROVE  Rearranged(c, x, n, lo, hi) /\ InOrder(x, lo, hi)
<1>1. n \in Nat /\ lo \in 0 .. n /\ hi \in -1 .. n - 1
  BY DEF Part
<1>2. /\ m \in lo .. hi
      /\ \A k \in lo .. m - 1 : b[k] <= b[m]
      /\ \A k \in m + 1 .. hi : b[m] <= b[k]
  BY DEF Splits
<1>3. /\ \A k \in lo .. m - 1 : k \in lo .. hi /\ k \in 0 .. n - 1
      /\ \A k \in m + 1 .. hi : k \in lo .. hi /\ k \in 0 .. n - 1 /\ ~(lo <= k /\ k <= m - 1)
      /\ m \in 0 .. n - 1 /\ ~(lo <= m /\ m <= m - 1) /\ ~(m + 1 <= m /\ m <= hi)
      /\ \A k \in lo .. m - 1 : ~(m + 1 <= k /\ k <= hi)
      /\ lo \in Int /\ hi \in Int /\ m - 1 \in Int /\ m + 1 \in Int
      /\ lo <= lo /\ hi <= hi /\ m - 1 <= hi /\ lo <= m + 1
  BY <1>1, <1>2
<1>4. \A k \in 0 .. n - 1 : b[k] \in Nat /\ l[k] \in Nat /\ x[k] \in Nat
  OBVIOUS
<1>5. LowBefore(b, lo, hi)
  BY LowStays
<1>6. LowBefore(b, lo, m - 1)
  BY <1>3, <1>5 DEF LowBefore
<1>7. Rearranged(b, l, n, lo, m - 1) /\ InOrder(l, lo, m - 1)
  BY <1>6
<1>8. l[m] = b[m] /\ \A k \in m + 1 .. hi : l[k] = b[k]
  BY <1>3, <1>7 DEF Rearranged
<1>9. ASSUME NEW k \in lo .. m - 1 PROVE l[k] <= l[m]
  <2>1. PICK i \in lo .. m - 1 : l[k] = b[i]
    BY <1>7 DEF Rearranged
  <2> QED
    BY <1>2, <1>8, <2>1
<1>10. LowBefore(l, m + 1, hi)
  <2> SUFFICES ASSUME NEW j \in Nat, NEW k \in m + 1 .. hi, j < m + 1 PROVE l[j] <= l[k]
    BY DEF LowBefore
  <2>1. j < lo \/ j \in lo .. m - 1 \/ j = m
    BY <1>1, <1>2
  <2>2. CASE j < lo
    <3>1. j \in 0 .. n - 1 /\ ~(lo <= j /\ j <= m - 1)
      BY <1>1, <2>2
    <3>2. l[j] = b[j]
      BY <1>7, <3>1 DEF Rearranged
    <3>3. b[j] <= b[k]
      BY <1>3, <1>5, <2>2 DEF LowBefore
    <3> QED
      BY <1>8, <3>2, <3>3
  <2>3. CASE j \in lo .. m - 1
    <3>1. l[j] <= l[m] /\ l[m] <= l[k]
      BY <1>2, <1>8, <1>9, <2>3
    <3>2. l[j] \in Nat /\ l[m] \in Nat /\ l[k] \in Nat
      BY <1>3, <1>4, <2>3
    <3> QED
      BY <3>1, <3>2
  <2>4. CASE j = m
    BY <1>2, <1>8, <2>4
  <2> QED
    BY <2>1, <2>2, <2>3, <2>4
<1>11. Rearranged(l, x, n, m + 1, hi) /\ InOrder(x, m + 1, hi)
  BY <1>10
<1>12. Rearranged(c, x, n, lo, hi)
  <2>1. Rearranged(b, l, n, lo, hi)
    BY <1>3, <1>7, RearrangedWithin
  <2>2. Rearranged(l, x, n, lo, hi)
    BY <1>3, <1>11, RearrangedWithin
  <2>3. Rearranged(c, l, n, lo, hi)
    BY <2>1, RearrangedTwice
  <2> QED
    BY <2>2, <2>3, RearrangedTwice
<1>13. x[m] = l[m] /\ \A k \in lo .. m - 1 : x[k] = l[k]
  BY <1>3, <1>11 DEF Rearranged
<1>14. ASSUME NEW i \in lo .. hi, NEW j \in lo .. hi, i < j PROVE x[i] <= x[j]
  <2>1. CASE j < m
    <3>1. i \in lo .. m - 1 /\ j \in lo .. m - 1
      BY <1>1, <1>2, <1>14, <2>1
    <3> QED
      BY <1>7, <1>13, <1>14, <3>1 DEF InOrder
  <2>2. CASE j = m
    <3>1. i \in lo .. m - 1
      BY <1>1, <1>2, <1>14, <2>2
    <3> QED
      BY <1>9, <1>13, <2>2, <3>1
  <2>3. CASE m < j /\ i <= m
    <3>1. j \in m + 1 .. hi /\ (i = m \/ i \in lo .. m - 1) /\ i \in Nat /\ i < m + 1
      BY <1>1, <1>2, <2>3
    <3>2. x[i] = l[i]
      BY <1>13, <3>1
    <3>3. PICK k \in m + 1 .. hi : x[j] = l[k]
      BY <1>11, <3>1 DEF Rearranged
    <3>4. l[i] <= l[k]
      BY <1>10, <3>1 DEF LowBefore
    <3> QED
      BY <3>2, <3>3, <3>4
  <2>4. CASE m < i
    <3>1. i \in m + 1 .. hi /\ j \in m + 1 .. hi
      BY <1>1, <1>2, <1>14, <2>4
    <3> QED
      BY <1>11, <1>14, <3>1 DEF InOrder
  <2>5. j < m \/ j = m \/ (m < j /\ i <= m) \/ m < i
    BY <1>1, <1>2
  <2> QED
    BY <2>1, <2>2, <2>3, <2>4, <2>5
<1> QED
  BY <1>12, <1>14 DEF InOrder

\* The recursion of quicksort.
QuickLoop(a, f) ==
  f = [s \in [DOMAIN a -> Elements(a)] \X (0 .. Length(a)) \X (-1 .. Length(a) - 1) |->
        IF s[3] - s[2] > SortThreshold
        THEN LET p == Partition(s[1], s[2], s[3])
             IN  f[<<f[<<p.a, s[2], p.mid - 1>>], p.mid + 1, s[3]>>]
        ELSE InsertionSort(s[1], s[2], s[3])]

\* The two parts it goes on with are smaller.
LEMMA QuickParts ==
  ASSUME NEW n \in Nat, NEW E \in SUBSET Nat, NEW c \in [0 .. n - 1 -> E],
         NEW lo \in 0 .. n, NEW hi \in -1 .. n - 1, hi - lo > SortThreshold,
         NEW r, r = Partition(c, lo, hi)
  PROVE  /\ r.a \in [0 .. n - 1 -> E] /\ Rearranged(c, r.a, n, lo, hi) /\ Splits(r.a, lo, r.mid, hi)
         /\ r.mid - 1 \in -1 .. n - 1 /\ r.mid + 1 \in 0 .. n /\ r.mid \in lo .. hi /\ lo < hi
<1>1. lo < hi
  BY LookupAssumption
<1>2. Part(n, lo, hi)
  BY DEF Part
<1>3. r.a \in [0 .. n - 1 -> E] /\ Rearranged(c, r.a, n, lo, hi) /\ Splits(r.a, lo, r.mid, hi)
  BY <1>1, <1>2, PartitionRight
<1>4. PICK m : m = r.mid
  OBVIOUS
<1>5. m \in lo .. hi
  BY <1>3, <1>4 DEF Splits
<1>6. m - 1 \in -1 .. n - 1 /\ m + 1 \in 0 .. n
  BY <1>5
<1> QED
  BY <1>1, <1>3, <1>4, <1>5, <1>6

\* So it ends.
LEMMA QuickExists ==
  ASSUME NEW n \in Nat, NEW a \in [0 .. n - 1 -> Nat]
  PROVE  \E f : QuickLoop(a, f)
<1>1. PICK E : E = Elements(a)
  OBVIOUS
<1>2. E \in SUBSET Nat /\ a \in [0 .. n - 1 -> E] /\ Length(a) = n /\ DOMAIN a = 0 .. n - 1
  <2>1. Length(a) = n
    BY LengthIs
  <2> QED
    BY <1>1, <2>1 DEF Elements
<1> DEFINE V == [0 .. n - 1 -> E]
           D == V \X (0 .. n) \X (-1 .. n - 1)
           mu == [s \in D |-> IF s[2] <= s[3] THEN s[3] - s[2] + 1 ELSE 0]
           big(s) == s[3] - s[2] > SortThreshold
           left(s) == <<Partition(s[1], s[2], s[3]).a, s[2], Partition(s[1], s[2], s[3]).mid - 1>>
           right(s, v) == <<v, Partition(s[1], s[2], s[3]).mid + 1, s[3]>>
           small(s) == InsertionSort(s[1], s[2], s[3])
           body(s, f) == IF big(s) THEN f[right(s, f[left(s)])] ELSE small(s)
           G == [s \in D |-> [f \in [D -> V] |-> body(s, f)]]
<1>3. ASSUME NEW s \in D
      PROVE  /\ mu[s] \in Nat /\ mu[s] <= n
             /\ small(s) \in V
             /\ big(s) => /\ left(s) \in D /\ mu[left(s)] < mu[s]
                          /\ \A v \in V : right(s, v) \in D /\ mu[right(s, v)] < mu[s]
  <2>1. PICK c, lo, hi : c = s[1] /\ lo = s[2] /\ hi = s[3]
    OBVIOUS
  <2>2. c \in V /\ lo \in 0 .. n /\ hi \in -1 .. n - 1
    BY <2>1
  <2>3. mu[s] = IF lo <= hi THEN hi - lo + 1 ELSE 0
    BY <2>1
  <2>4. mu[s] \in Nat /\ mu[s] <= n
    BY <2>2, <2>3
  <2>5. small(s) \in V
    <3>1. Part(n, lo, hi) /\ c \in [0 .. n - 1 -> E]
      BY <2>2 DEF Part
    <3>2. InsertionSort(c, lo, hi) \in [0 .. n - 1 -> E]
      BY <1>2, <3>1, InsertionRight
    <3> QED
      BY <2>1, <3>2
  <2>6. \A v, l, h : v \in V /\ l \in 0 .. n /\ h \in -1 .. n - 1 =>
          <<v, l, h>> \in D /\ mu[<<v, l, h>>] = IF l <= h THEN h - l + 1 ELSE 0
    OBVIOUS
  <2> HIDE DEF mu, D
  <2>7. ASSUME big(s)
        PROVE  /\ left(s) \in D /\ mu[left(s)] < mu[s]
               /\ \A v \in V : right(s, v) \in D /\ mu[right(s, v)] < mu[s]
    <3>0. PICK r : r = Partition(c, lo, hi)
      OBVIOUS
    <3>1. PICK b, m : b = r.a /\ m = r.mid
      OBVIOUS
    <3>2. b \in V /\ m - 1 \in -1 .. n - 1 /\ m + 1 \in 0 .. n /\ m \in lo .. hi /\ lo < hi
      <4>1. hi - lo > SortThreshold
        BY <2>1, <2>7
      <4>2. c \in [0 .. n - 1 -> E] /\ E \in SUBSET Nat
        BY <1>2, <2>2
      <4> HIDE DEF V, left, right, small, big
      <4>3. /\ r.a \in [0 .. n - 1 -> E]
            /\ r.mid - 1 \in -1 .. n - 1 /\ r.mid + 1 \in 0 .. n /\ r.mid \in lo .. hi /\ lo < hi
        BY <2>2, <3>0, <4>1, <4>2, QuickParts
      <4> QED
        BY <3>1, <4>3 DEF V
    <3>3. mu[s] = hi - lo + 1
      BY <2>2, <2>3, <3>2
    <3>4. left(s) = <<b, lo, m - 1>> /\ \A v : right(s, v) = <<v, m + 1, hi>>
      BY <2>1, <3>0, <3>1
    <3> HIDE DEF left, right, V
    <3>5. left(s) \in D /\ mu[left(s)] = IF lo <= m - 1 THEN (m - 1) - lo + 1 ELSE 0
      BY <2>2, <2>6, <3>2, <3>4
    <3>6. ASSUME NEW v \in V
          PROVE  right(s, v) \in D /\ mu[right(s, v)] = IF m + 1 <= hi THEN hi - (m + 1) + 1 ELSE 0
      <4>1. right(s, v) = <<v, m + 1, hi>>
        BY <3>4
      <4>2. <<v, m + 1, hi>> \in D /\ mu[<<v, m + 1, hi>>] = IF m + 1 <= hi THEN hi - (m + 1) + 1 ELSE 0
        BY <2>2, <2>6, <3>2
      <4> QED
        BY <4>1, <4>2
    <3>7. (IF lo <= m - 1 THEN (m - 1) - lo + 1 ELSE 0) < hi - lo + 1
      BY <2>2, <3>2
    <3>8. (IF m + 1 <= hi THEN hi - (m + 1) + 1 ELSE 0) < hi - lo + 1
      BY <2>2, <3>2
    <3>9. mu[left(s)] < mu[s]
      BY <3>3, <3>5, <3>7
    <3>10. \A v \in V : right(s, v) \in D /\ mu[right(s, v)] < mu[s]
      BY <3>3, <3>6, <3>8
    <3> QED
      BY <3>5, <3>9, <3>10
  <2> QED
    BY <2>4, <2>5, <2>7
<1>4. V # {}
  BY <1>2
<1> HIDE DEF mu
<1>5. mu \in [D -> Nat] /\ \A s \in D : mu[s] <= n
  <2>1. mu = [s \in D |-> mu[s]]
    BY DEF mu
  <2> HIDE DEF D, left, right, small, big, V
  <2> QED
    BY <1>3, <2>1
<1> HIDE DEF D, V, left, right, small, big
<1>6. ASSUME NEW s \in D, NEW f \in [D -> V] PROVE body(s, f) \in V
  <2>1. CASE big(s)
    <3>1. f[left(s)] \in V
      BY <1>3, <2>1
    <3>2. right(s, f[left(s)]) \in D
      BY <1>3, <2>1, <3>1
    <3> QED
      BY <2>1, <3>2
  <2>2. CASE ~big(s)
    BY <1>3, <2>2
  <2> QED
    BY <2>1, <2>2
<1>7. ASSUME NEW s \in D, NEW f \in [D -> V], NEW g \in [D -> V], \A y \in D : mu[y] < mu[s] => f[y] = g[y]
      PROVE  body(s, f) = body(s, g)
  <2>1. CASE big(s)
    <3>1. f[left(s)] \in V /\ f[left(s)] = g[left(s)]
      BY <1>3, <1>7, <2>1
    <3>2. f[right(s, f[left(s)])] = g[right(s, f[left(s)])]
      BY <1>3, <1>7, <2>1, <3>1
    <3> QED
      BY <2>1, <3>1, <3>2
  <2>2. CASE ~big(s)
    BY <2>2
  <2> QED
    BY <2>1, <2>2
<1> HIDE DEF body
<1>8. G \in [D -> [[D -> V] -> V]] /\ \A s \in D : \A f \in [D -> V] : G[s][f] = body(s, f)
  BY <1>6
<1> HIDE DEF G
<1>9. PICK f \in [D -> V] : \A s \in D : f[s] = G[s][f]
  <2>1. \A s \in D : \A f, g \in [D -> V] :
           (\A y \in D : mu[y] < mu[s] => f[y] = g[y]) => G[s][f] = G[s][g]
    <3> SUFFICES ASSUME NEW s \in D, NEW f \in [D -> V], NEW g \in [D -> V],
                        \A y \in D : mu[y] < mu[s] => f[y] = g[y]
                 PROVE  G[s][f] = G[s][g]
      OBVIOUS
    <3>1. body(s, f) = body(s, g)
      BY <1>7
    <3> QED
      BY <1>8, <3>1
  <2>2. Descends(D, V, mu, n, G)
    BY <1>4, <1>5, <1>8, <2>1 DEF Descends
  <2> QED
    BY <2>2, RecursionExists
<1>10. f = [s \in D |-> body(s, f)]
  BY <1>8, <1>9
<1>11. D = [DOMAIN a -> Elements(a)] \X (0 .. Length(a)) \X (-1 .. Length(a) - 1)
  BY <1>1, <1>2 DEF D, V
<1>12. QuickLoop(a, f)
  <2> HIDE DEF D
  <2>1. f = [s \in D |->
              IF s[3] - s[2] > SortThreshold
              THEN LET p == Partition(s[1], s[2], s[3])
                   IN  f[<<f[<<p.a, s[2], p.mid - 1>>], p.mid + 1, s[3]>>]
              ELSE InsertionSort(s[1], s[2], s[3])]
    BY <1>10 DEF body, big, small, left, right
  <2> QED
    BY <1>11, <2>1 DEF QuickLoop
<1> QED
  BY <1>12

\* x is c with the part lo .. hi in order.
Sorts(c, x, n, E, lo, hi) ==
  /\ x \in [0 .. n - 1 -> E]
  /\ LowBefore(c, lo, hi) => Rearranged(c, x, n, lo, hi) /\ InOrder(x, lo, hi)

\* quicksort puts its part in order.
LEMMA QuickRight ==
  ASSUME NEW n \in Nat, NEW a \in [0 .. n - 1 -> Nat], NEW E, E = Elements(a),
         NEW f, QuickLoop(a, f)
  PROVE  \A c \in [0 .. n - 1 -> E], lo \in 0 .. n, hi \in -1 .. n - 1 :
           Sorts(c, f[<<c, lo, hi>>], n, E, lo, hi)
<1>1. E \in SUBSET Nat /\ Length(a) = n /\ DOMAIN a = 0 .. n - 1
  <2>1. Length(a) = n
    BY LengthIs
  <2> QED
    BY <2>1 DEF Elements
<1> DEFINE V == [0 .. n - 1 -> E]
           sorts(c, x, lo, hi) == /\ x \in V
                                  /\ LowBefore(c, lo, hi) => Rearranged(c, x, n, lo, hi) /\ InOrder(x, lo, hi)
           good(c, lo, hi) == sorts(c, f[<<c, lo, hi>>], lo, hi)
           length(lo, hi) == IF lo <= hi THEN hi - lo + 1 ELSE 0
           bad == {d \in Nat : \E c \in V, lo \in 0 .. n, hi \in -1 .. n - 1 : d = length(lo, hi) /\ ~good(c, lo, hi)}
<1>2. ASSUME NEW c \in V, NEW lo \in 0 .. n, NEW hi \in -1 .. n - 1, NEW r, r = Partition(c, lo, hi)
      PROVE  f[<<c, lo, hi>>] = IF hi - lo > SortThreshold
                                THEN f[<<f[<<r.a, lo, r.mid - 1>>], r.mid + 1, hi>>]
                                ELSE InsertionSort(c, lo, hi)
  <2>1. PICK s : s = <<c, lo, hi>>
    OBVIOUS
  <2>2. s \in [DOMAIN a -> Elements(a)] \X (0 .. Length(a)) \X (-1 .. Length(a) - 1)
        /\ s[1] = c /\ s[2] = lo /\ s[3] = hi
    BY <1>1, <2>1
  <2>3. f[s] = IF hi - lo > SortThreshold
               THEN f[<<f[<<r.a, lo, r.mid - 1>>], r.mid + 1, hi>>]
               ELSE InsertionSort(c, lo, hi)
    BY <1>2, <2>2 DEF QuickLoop
  <2> QED
    BY <2>1, <2>3
<1>3. ASSUME NEW c \in V, NEW lo \in 0 .. n, NEW hi \in -1 .. n - 1,
             \A c2 \in V, l2 \in 0 .. n, h2 \in -1 .. n - 1 : length(l2, h2) < length(lo, hi) => good(c2, l2, h2)
      PROVE  good(c, lo, hi)
  <2>0. Part(n, lo, hi)
    BY DEF Part
  <2>1. PICK r : r = Partition(c, lo, hi)
    OBVIOUS
  <2>2. PICK x : x = f[<<c, lo, hi>>]
    OBVIOUS
  <2>3. CASE ~(hi - lo > SortThreshold)
    <3>1. x = InsertionSort(c, lo, hi)
      BY <1>2, <2>1, <2>2, <2>3
    <3>2. sorts(c, x, lo, hi)
      BY <1>1, <2>0, <3>1, InsertionRight
    <3> QED
      BY <2>2, <3>2
  <2>4. CASE hi - lo > SortThreshold
    <3>1. /\ r.a \in [0 .. n - 1 -> E] /\ Rearranged(c, r.a, n, lo, hi) /\ Splits(r.a, lo, r.mid, hi)
          /\ r.mid - 1 \in -1 .. n - 1 /\ r.mid + 1 \in 0 .. n /\ r.mid \in lo .. hi /\ lo < hi
      BY <1>1, <2>1, <2>4, QuickParts
    <3>2. PICK b, m : b = r.a /\ m = r.mid
      OBVIOUS
    <3>3. PICK l : l = f[<<b, lo, m - 1>>]
      OBVIOUS
    <3>4. x = f[<<l, m + 1, hi>>]
      BY <1>2, <2>1, <2>2, <2>4, <3>2, <3>3
    <3>5. /\ b \in V /\ Rearranged(c, b, n, lo, hi) /\ Splits(b, lo, m, hi)
          /\ m - 1 \in -1 .. n - 1 /\ m + 1 \in 0 .. n /\ m \in lo .. hi /\ lo < hi
      BY <3>1, <3>2
    <3>6. length(lo, m - 1) < length(lo, hi) /\ length(m + 1, hi) < length(lo, hi)
      BY <3>5
    <3> HIDE DEF V, length
    <3>7. good(b, lo, m - 1)
      <4> HIDE DEF good
      <4> QED
        BY <1>3, <3>5, <3>6
    <3>8. sorts(b, l, lo, m - 1)
      BY <3>3, <3>7
    <3>9. good(l, m + 1, hi)
      <4>1. l \in V
        BY <3>8
      <4> HIDE DEF good
      <4> QED
        BY <1>3, <3>5, <3>6, <4>1
    <3>10. sorts(l, x, m + 1, hi)
      BY <3>4, <3>9
    <3>11. /\ c \in [0 .. n - 1 -> E] /\ b \in [0 .. n - 1 -> E] /\ l \in [0 .. n - 1 -> E] /\ x \in [0 .. n - 1 -> E]
           /\ LowBefore(b, lo, m - 1) => Rearranged(b, l, n, lo, m - 1) /\ InOrder(l, lo, m - 1)
           /\ LowBefore(l, m + 1, hi) => Rearranged(l, x, n, m + 1, hi) /\ InOrder(x, m + 1, hi)
      BY <3>5, <3>8, <3>10 DEF V
    <3>12. LowBefore(c, lo, hi) => Rearranged(c, x, n, lo, hi) /\ InOrder(x, lo, hi)
      BY <1>1, <2>0, <3>5, <3>11, QuickRound
    <3>13. sorts(c, x, lo, hi)
      BY <3>11, <3>12 DEF V
    <3> QED
      BY <2>2, <3>13
  <2> QED
    BY <2>3, <2>4
<1>4. ASSUME NEW lo \in 0 .. n, NEW hi \in -1 .. n - 1 PROVE length(lo, hi) \in Nat
  OBVIOUS
<1> HIDE DEF good, length
<1>5. bad = {}
  <2> SUFFICES ASSUME bad # {} PROVE FALSE
    OBVIOUS
  <2>1. PICK d \in bad : \A e \in bad : d <= e
    <3>1. bad \in SUBSET Nat
      OBVIOUS
    <3> HIDE DEF bad
    <3> QED
      BY <3>1, LeastNat
  <2> HIDE DEF V
  <2>2. PICK c \in V, lo \in 0 .. n, hi \in -1 .. n - 1 : d = length(lo, hi) /\ ~good(c, lo, hi)
    BY <2>1
  <2>3. ASSUME NEW c2 \in V, NEW l2 \in 0 .. n, NEW h2 \in -1 .. n - 1, length(l2, h2) < length(lo, hi)
        PROVE  good(c2, l2, h2)
    <3>1. length(l2, h2) \in Nat /\ d \in Nat
      BY <1>4, <2>2
    <3>2. ~(d <= length(l2, h2))
      BY <2>2, <2>3, <3>1
    <3>3. length(l2, h2) \notin bad
      BY <2>1, <3>2
    <3> QED
      BY <3>1, <3>3
  <2> QED
    BY <1>3, <2>2, <2>3
<1>6. ASSUME NEW c \in V, NEW lo \in 0 .. n, NEW hi \in -1 .. n - 1 PROVE good(c, lo, hi)
  <2>1. length(lo, hi) \in Nat
    BY <1>4
  <2> HIDE DEF V
  <2> QED
    BY <1>5, <2>1
<1>7. ASSUME NEW c \in V, NEW lo \in 0 .. n, NEW hi \in -1 .. n - 1 PROVE Sorts(c, f[<<c, lo, hi>>], n, E, lo, hi)
  BY <1>6 DEF good, Sorts
<1> QED
  BY <1>7

\* forkscan_util_sort: the same elements, in order.
LEMMA SortRight ==
  ASSUME NEW n \in Nat \ {0}, NEW a \in [0 .. n - 1 -> Nat], NEW b, b = Sort(a)
  PROVE  b \in [0 .. n - 1 -> Nat] /\ Elements(b) = Elements(a) /\ InOrder(b, 0, n - 1)
<1>1. PICK E : E = Elements(a)
  OBVIOUS
<1>2. PICK f : f = CHOOSE g : QuickLoop(a, g)
  OBVIOUS
<1>3. Length(a) = n /\ DOMAIN a = 0 .. n - 1 /\ E \in SUBSET Nat /\ a \in [0 .. n - 1 -> E]
  <2>1. Length(a) = n
    BY LengthIs
  <2> QED
    BY <1>1, <2>1 DEF Elements
<1>4. QuickLoop(a, f)
  <2>1. n \in Nat
    OBVIOUS
  <2> QED
    BY <1>2, <2>1, QuickExists
<1>5. b = f[<<a, 0, n - 1>>]
  BY <1>2, <1>3 DEF Sort, Quicksort, QuickLoop
<1>6. LowBefore(a, 0, n - 1)
  <2>1. \A j \in Nat : ~(j < 0)
    OBVIOUS
  <2> QED
    BY <2>1 DEF LowBefore
<1>7. b \in [0 .. n - 1 -> E] /\ Rearranged(a, b, n, 0, n - 1) /\ InOrder(b, 0, n - 1)
  <2>1. n \in Nat /\ 0 \in 0 .. n /\ n - 1 \in -1 .. n - 1
    OBVIOUS
  <2>2. PICK h : h = n - 1
    OBVIOUS
  <2>3. /\ n \in Nat /\ 0 \in 0 .. n /\ h \in -1 .. n - 1 /\ b = f[<<a, 0, h>>] /\ E = Elements(a)
        /\ a \in [0 .. n - 1 -> E]
    BY <1>1, <1>3, <1>5, <2>1, <2>2
  <2>4. \A c \in [0 .. n - 1 -> E], lo \in 0 .. n, hi \in -1 .. n - 1 :
          Sorts(c, f[<<c, lo, hi>>], n, E, lo, hi)
    BY <1>1, <1>4, QuickRight
  <2>5. Sorts(a, b, n, E, 0, h)
    BY <2>3, <2>4
  <2> QED
    BY <1>6, <2>2, <2>5 DEF Sorts
<1>8. b \in [0 .. n - 1 -> Nat] /\ DOMAIN b = 0 .. n - 1
  BY <1>3, <1>7
<1>9. Elements(b) = Elements(a)
  <2>1. /\ \A k \in 0 .. n - 1 : \E l \in 0 .. n - 1 : b[k] = a[l]
        /\ \A k \in 0 .. n - 1 : \E l \in 0 .. n - 1 : a[k] = b[l]
    BY <1>7 DEF Rearranged
  <2>2. Elements(b) = {b[i] : i \in 0 .. n - 1} /\ Elements(a) = {a[i] : i \in 0 .. n - 1}
    BY <1>3, <1>8 DEF Elements
  <2>3. {b[i] : i \in 0 .. n - 1} = {a[i] : i \in 0 .. n - 1}
    <3>1. ASSUME NEW y \in {b[i] : i \in 0 .. n - 1} PROVE y \in {a[i] : i \in 0 .. n - 1}
      BY <2>1
    <3>2. ASSUME NEW y \in {a[i] : i \in 0 .. n - 1} PROVE y \in {b[i] : i \in 0 .. n - 1}
      <4>1. PICK k \in 0 .. n - 1 : y = a[k]
        OBVIOUS
      <4>2. PICK l \in 0 .. n - 1 : a[k] = b[l]
        BY <2>1
      <4> QED
        BY <4>1, <4>2
    <3> QED
      BY <3>1, <3>2
  <2> QED
    BY <2>2, <2>3
<1> QED
  BY <1>7, <1>8, <1>9

\* The loop of forkscan_util_compact.
CompactLoop(a, f) ==
  f = [search \in 1 .. Length(a) |->
        IF search = 1 THEN [a |-> a, write |-> 0]
        ELSE LET s == f[search - 1]
             IN  IF s.a[search - 1] = s.a[s.write] THEN s
                 ELSE [a |-> [s.a EXCEPT ![s.write + 1] = s.a[search - 1]],
                       write |-> s.write + 1]]

\* What is in 0 .. s.write is a[0 .. i - 1] with each element once; the rest is as it was.
Compacted(a, n, i, s) ==
  /\ s \in [a : [0 .. n - 1 -> Nat], write : Nat]
  /\ s.write \in 0 .. i - 1
  /\ \A k, l \in 0 .. s.write : k < l => s.a[k] < s.a[l]
  /\ \A k \in i .. n - 1 : s.a[k] = a[k]
  /\ s.a[s.write] = a[i - 1]
  /\ \A k \in 0 .. s.write : \E l \in 0 .. i - 1 : s.a[k] = a[l]
  /\ \A l \in 0 .. i - 1 : \E k \in 0 .. s.write : s.a[k] = a[l]

\* A round of it.
LEMMA CompactRound ==
  ASSUME NEW n \in Nat, NEW a \in [0 .. n - 1 -> Nat], InOrder(a, 0, n - 1),
         NEW i \in 2 .. n, NEW s, Compacted(a, n, i - 1, s),
         NEW t, t = IF s.a[i - 1] = s.a[s.write] THEN s
                    ELSE [a |-> [s.a EXCEPT ![s.write + 1] = s.a[i - 1]], write |-> s.write + 1]
  PROVE  Compacted(a, n, i, t)
<1>1. PICK b, w, j : b = s.a /\ w = s.write /\ j = i - 1
  OBVIOUS
<1>2. /\ b \in [0 .. n - 1 -> Nat] /\ w \in Nat
      /\ w \in 0 .. j - 1
      /\ \A k, l \in 0 .. w : k < l => b[k] < b[l]
      /\ \A k \in j .. n - 1 : b[k] = a[k]
      /\ b[w] = a[j - 1]
      /\ \A k \in 0 .. w : \E l \in 0 .. j - 1 : b[k] = a[l]
      /\ \A l \in 0 .. j - 1 : \E k \in 0 .. w : b[k] = a[l]
  BY <1>1 DEF Compacted
<1>3. /\ j \in 1 .. n - 1 /\ i - 1 = j /\ j \in 0 .. n - 1 /\ j - 1 \in 0 .. n - 1 /\ w \in 0 .. n - 1
      /\ w + 1 \in 0 .. n - 1 /\ w + 1 \in 0 .. i - 1 /\ w \in 0 .. i - 1 /\ j \in j .. n - 1 /\ w + 1 \in Nat
      /\ j \in 0 .. i - 1 /\ w \in 0 .. w /\ w + 1 \in 0 .. w + 1
      /\ \A k \in i .. n - 1 : k \in j .. n - 1 /\ k # w + 1 /\ k \in 0 .. n - 1
      /\ \A l \in 0 .. i - 1 : l = j \/ l \in 0 .. j - 1
      /\ \A l \in 0 .. j - 1 : l \in 0 .. i - 1
      /\ \A k \in 0 .. w + 1 : k = w + 1 \/ k \in 0 .. w
      /\ \A k \in 0 .. w : k \in 0 .. w + 1 /\ k # w + 1 /\ k \in 0 .. n - 1 /\ (k = w \/ k < w)
  <2>1. j \in Int /\ w \in Int /\ j = i - 1 /\ w \in 0 .. j - 1
    BY <1>1, <1>2
  <2> QED
    BY <2>1
<1>4. b[j] = a[j] /\ b[j] \in Nat /\ b[w] \in Nat /\ b[w] <= b[j]
  <2>1. b[j] = a[j] /\ b[j] \in Nat /\ b[w] \in Nat
    BY <1>2, <1>3
  <2>2. j - 1 < j
    BY <1>3
  <2>3. a[j - 1] <= a[j]
    BY <1>3, <2>2 DEF InOrder
  <2> QED
    BY <1>2, <2>1, <2>3
<1>5. CASE b[j] = b[w]
  <2>1. t = s
    BY <1>1, <1>5
  <2>2. ASSUME NEW k \in 0 .. w PROVE \E l \in 0 .. i - 1 : b[k] = a[l]
    BY <1>2, <1>3
  <2>3. ASSUME NEW l \in 0 .. i - 1 PROVE \E k \in 0 .. w : b[k] = a[l]
    <3>1. CASE l = j
      BY <1>3, <1>4, <1>5, <3>1
    <3>2. CASE l \in 0 .. j - 1
      BY <1>2, <3>2
    <3> QED
      BY <1>3, <3>1, <3>2
  <2>4. b[w] = a[i - 1] /\ \A k \in i .. n - 1 : b[k] = a[k]
    BY <1>2, <1>3, <1>4, <1>5
  <2>5. s \in [a : [0 .. n - 1 -> Nat], write : Nat]
    BY DEF Compacted
  <2>6. t.a = b /\ t.write = w /\ t \in [a : [0 .. n - 1 -> Nat], write : Nat]
    BY <1>1, <2>1, <2>5
  <2>7. w \in 0 .. i - 1 /\ \A k, l \in 0 .. w : k < l => b[k] < b[l]
    BY <1>2, <1>3
  <2> QED
    BY ONLY <2>2, <2>3, <2>4, <2>6, <2>7 DEF Compacted
<1>6. CASE b[j] # b[w]
  <2>1. PICK c : c = [b EXCEPT ![w + 1] = b[j]]
    OBVIOUS
  <2>2. t = [a |-> c, write |-> w + 1]
    BY <1>1, <1>6, <2>1
  <2>3. /\ c \in [0 .. n - 1 -> Nat] /\ c[w + 1] = b[j]
        /\ \A k \in 0 .. n - 1 : k # w + 1 => c[k] = b[k]
    BY <1>2, <1>3, <1>4, <2>1
  <2>4. b[w] < b[j]
    BY <1>4, <1>6
  <2>5. \A k \in 0 .. w : c[k] = b[k] /\ b[k] \in Nat
    BY <1>2, <1>3, <2>3
  <2>6. ASSUME NEW k \in 0 .. w + 1, NEW l \in 0 .. w + 1, k < l PROVE c[k] < c[l]
    <3>1. k \in 0 .. w
      BY <1>2, <2>6
    <3>2. CASE l = w + 1
      <4>1. b[k] <= b[w]
        <5>1. k = w \/ k < w
          BY <1>3, <3>1
        <5>2. b[k] = b[w] \/ b[k] < b[w]
          BY <1>2, <1>3, <3>1, <5>1
        <5>3. b[k] \in Nat /\ b[w] \in Nat
          BY <1>4, <2>5, <3>1
        <5> QED
          BY ONLY <5>2, <5>3
      <4>2. b[k] < b[j]
        BY <1>4, <2>4, <2>5, <3>1, <4>1
      <4> QED
        BY <2>3, <2>5, <3>1, <3>2, <4>2
    <3>3. CASE l \in 0 .. w
      BY <1>2, <2>5, <2>6, <3>1, <3>3
    <3> QED
      BY <1>3, <3>2, <3>3
  <2>7. \A k \in i .. n - 1 : c[k] = a[k]
    BY <1>2, <1>3, <2>3
  <2>8. c[w + 1] = a[i - 1]
    BY <1>3, <1>4, <2>3
  <2>9. ASSUME NEW k \in 0 .. w + 1 PROVE \E l \in 0 .. i - 1 : c[k] = a[l]
    <3>1. CASE k = w + 1
      BY <1>3, <1>4, <2>3, <3>1
    <3>2. CASE k \in 0 .. w
      BY <1>2, <1>3, <2>5, <3>2
    <3> QED
      BY <1>3, <3>1, <3>2
  <2>10. ASSUME NEW l \in 0 .. i - 1 PROVE \E k \in 0 .. w + 1 : c[k] = a[l]
    <3>1. CASE l = j
      BY <1>3, <1>4, <2>3, <3>1
    <3>2. CASE l \in 0 .. j - 1
      <4>1. PICK k \in 0 .. w : b[k] = a[l]
        BY <1>2, <3>2
      <4> QED
        BY <1>3, <2>5, <4>1
    <3> QED
      BY <1>3, <3>1, <3>2
  <2>11. t \in [a : [0 .. n - 1 -> Nat], write : Nat] /\ t.a = c /\ t.write = w + 1
    <3>1. w + 1 \in Nat
      BY <1>3
    <3> QED
      BY ONLY <2>2, <2>3, <3>1
  <2>12. w + 1 \in 0 .. i - 1
    BY <1>3
  <2> QED
    BY ONLY <2>6, <2>7, <2>8, <2>9, <2>10, <2>11, <2>12 DEF Compacted
<1> QED
  BY <1>5, <1>6

\* The loop has values, and compacts the whole array.
LEMMA CompactLoopRight ==
  ASSUME NEW n \in Nat \ {0}, NEW a \in [0 .. n - 1 -> Nat], InOrder(a, 0, n - 1)
  PROVE  /\ \E f : CompactLoop(a, f)
         /\ \A f : CompactLoop(a, f) => Compacted(a, n, n, f[n])
<1>1. Length(a) = n /\ 1 \in 1 .. n /\ n \in 1 .. n /\ 1 \in Int /\ n \in Int /\ n \in Nat
  BY LengthIs
<1> DEFINE V == [a : [0 .. n - 1 -> Nat], write : Nat]
           s0 == [a |-> a, write |-> 0]
           round(i, s) == IF s.a[i - 1] = s.a[s.write] THEN s
                          ELSE [a |-> [s.a EXCEPT ![s.write + 1] = s.a[i - 1]], write |-> s.write + 1]
           ok(i, s) == Compacted(a, n, i, s)
           T == [i \in 1 .. n |-> [s \in V |-> IF round(i, s) \in V THEN round(i, s) ELSE s]]
<1>2. ok(1, s0) /\ s0 \in V
  <2>1. s0 \in V /\ s0.a = a /\ s0.write = 0
    OBVIOUS
  <2>2. 0 \in 0 .. 1 - 1 /\ (\A k, l \in 0 .. 0 : ~(k < l)) /\ 1 - 1 = 0
    OBVIOUS
  <2> HIDE DEF s0
  <2> QED
    BY <2>1, <2>2 DEF Compacted
<1>3. ASSUME NEW i \in 1 + 1 .. n, NEW s, ok(i - 1, s) PROVE ok(i, round(i, s))
  <2>1. PICK t : t = round(i, s)
    OBVIOUS
  <2>2. n \in Nat /\ i \in 2 .. n
    OBVIOUS
  <2>3. Compacted(a, n, i, t)
    BY <1>3, <2>1, <2>2, CompactRound
  <2> QED
    BY <2>1, <2>3
<1>4. ASSUME NEW i, NEW s, ok(i, s) PROVE s \in V
  BY <1>4 DEF Compacted
<1> HIDE DEF V, s0, round, ok
<1>5. \A i \in 1 .. n : i # 1 => i - 1 \in 1 .. n /\ i \in 1 + 1 .. n
  OBVIOUS
<1>6. PICK f \in [1 .. n -> V] : Runs(1, n, s0, T, f)
  <2>1. T \in [1 .. n -> [V -> V]]
    OBVIOUS
  <2> HIDE DEF T
  <2>2. 1 <= n
    OBVIOUS
  <2>3. IsLoop(1, n, V, s0, T)
    BY <1>1, <1>2, <2>1, <2>2 DEF IsLoop
  <2> QED
    BY <2>3, LoopExists
<1>7. \A i \in 1 .. n : \A s \in V : round(i, s) \in V => T[i][s] = round(i, s)
  OBVIOUS
<1> HIDE DEF T
<1>8. \A i \in 1 .. n : ok(i, f[i])
  <2> DEFINE Q == {i \in 1 .. n : ok(i, f[i])}
  <2>1. 1 \in Q
    BY <1>1, <1>2, <1>6 DEF Runs
  <2>2. ASSUME NEW i \in 1 + 1 .. n, i - 1 \in Q PROVE i \in Q
    <3>1. i \in 1 .. n /\ i # 1
      OBVIOUS
    <3>2. ok(i - 1, f[i - 1]) /\ f[i - 1] \in V
      BY <1>4, <2>2
    <3>3. ok(i, round(i, f[i - 1])) /\ round(i, f[i - 1]) \in V
      BY <1>3, <1>4, <3>2
    <3>4. f[i] = round(i, f[i - 1])
      BY <1>6, <1>7, <3>1, <3>2, <3>3 DEF Runs
    <3> QED
      BY <3>1, <3>3, <3>4
  <2> HIDE DEF Q
  <2>3. \A i \in 1 .. n : i \in Q
    BY <1>1, <2>1, <2>2, RoundByRound
  <2> QED
    BY <2>3 DEF Q
<1>9. \A i \in 1 .. n : f[i] = IF i = 1 THEN s0 ELSE round(i, f[i - 1])
  <2> SUFFICES ASSUME NEW i \in 1 .. n PROVE f[i] = IF i = 1 THEN s0 ELSE round(i, f[i - 1])
    OBVIOUS
  <2>1. CASE i = 1
    BY <1>6, <2>1 DEF Runs
  <2>2. CASE i # 1
    <3>1. ok(i - 1, f[i - 1]) /\ f[i - 1] \in V
      BY <1>4, <1>5, <1>8, <2>2
    <3>2. round(i, f[i - 1]) \in V
      BY <1>3, <1>4, <1>5, <2>2, <3>1
    <3> QED
      BY <1>6, <1>7, <2>2, <3>1, <3>2 DEF Runs
  <2> QED
    BY <2>1, <2>2
<1>10. f = [i \in 1 .. n |-> IF i = 1 THEN s0 ELSE round(i, f[i - 1])]
  BY <1>9
<1>11. CompactLoop(a, f)
  BY <1>1, <1>10 DEF CompactLoop, s0, round
<1>12. ASSUME NEW g, CompactLoop(a, g) PROVE ok(n, g[n])
  <2>0. g = [i \in 1 .. n |-> IF i = 1 THEN s0 ELSE round(i, g[i - 1])]
    BY <1>1, <1>12 DEF CompactLoop, s0, round
  <2> DEFINE Q == {i \in 1 .. n : ok(i, g[i])}
  <2>1. 1 \in Q
    BY <1>1, <1>2, <2>0
  <2>2. ASSUME NEW i \in 1 + 1 .. n, i - 1 \in Q PROVE i \in Q
    <3>1. i \in 1 .. n /\ i # 1
      OBVIOUS
    <3>2. g[i] = round(i, g[i - 1])
      BY <2>0, <3>1
    <3>3. ok(i, g[i])
      BY <1>3, <2>2, <3>2
    <3> QED
      BY <3>1, <3>3
  <2> HIDE DEF Q
  <2>3. \A i \in 1 .. n : i \in Q
    BY <1>1, <2>1, <2>2, RoundByRound
  <2> QED
    BY <1>1, <2>3 DEF Q
<1> QED
  BY <1>11, <1>12 DEF ok

\* forkscan_util_compact: of a sorted array every element once, in order.
LEMMA CompactRight ==
  ASSUME NEW n \in Nat \ {0}, NEW a \in [0 .. n - 1 -> Nat], InOrder(a, 0, n - 1), NEW c, c = Compact(a)
  PROVE  \E m \in Nat \ {0} : /\ c \in [0 .. m - 1 -> Nat] /\ Increasing(c, m)
                              /\ Elements(c) = Elements(a)
<1>1. Length(a) = n /\ DOMAIN a = 0 .. n - 1 /\ n \in Nat
  BY LengthIs
<1>2. CASE n < 2
  <2>1. c = a /\ n = 1
    BY <1>1, <1>2 DEF Compact
  <2>2. \A i, j \in 0 .. n - 1 : ~(i < j)
    BY <2>1
  <2> QED
    BY <2>1, <2>2 DEF Increasing
<1>3. CASE ~(n < 2)
  <2>1. PICK f : f = CHOOSE g : CompactLoop(a, g)
    OBVIOUS
  <2>2. Compacted(a, n, n, f[n])
    <3>1. /\ \E g : CompactLoop(a, g)
          /\ \A g : CompactLoop(a, g) => Compacted(a, n, n, g[n])
      BY CompactLoopRight
    <3>2. CompactLoop(a, f)
      BY <2>1, <3>1
    <3> QED
      BY <3>1, <3>2
  <2>3. PICK s : s = f[n]
    OBVIOUS
  <2>4. c = [i \in 0 .. s.write |-> s.a[i]]
    <3> DEFINE end == (CHOOSE g : CompactLoop(a, g))[Length(a)]
    <3>1. ~(Length(a) < 2)
      BY <1>1, <1>3
    <3>2. Compact(a) = [i \in 0 .. end.write |-> end.a[i]]
      BY ONLY <3>1, Zenon DEF Compact, CompactLoop
    <3>3. s = end
      BY <1>1, <2>1, <2>3
    <3> HIDE DEF end
    <3> QED
      BY <3>2, <3>3
  <2>5. PICK b, w : b = s.a /\ w = s.write
    OBVIOUS
  <2>6. /\ b \in [0 .. n - 1 -> Nat] /\ w \in Nat
        /\ w \in 0 .. n - 1
        /\ \A k, l \in 0 .. w : k < l => b[k] < b[l]
        /\ \A k \in 0 .. w : \E l \in 0 .. n - 1 : b[k] = a[l]
        /\ \A l \in 0 .. n - 1 : \E k \in 0 .. w : b[k] = a[l]
    BY <2>2, <2>3, <2>5 DEF Compacted
  <2>7. w + 1 \in Nat \ {0} /\ (w + 1) - 1 = w /\ \A k \in 0 .. w : k \in 0 .. n - 1
    <3>1. w \in 0 .. n - 1
      BY <2>6
    <3> QED
      BY <3>1
  <2>8. c = [i \in 0 .. w |-> b[i]]
    BY <2>4, <2>5
  <2>9. c \in [0 .. w -> Nat] /\ DOMAIN c = 0 .. w /\ \A k \in 0 .. w : c[k] = b[k]
    BY <2>6, <2>7, <2>8
  <2>10. Elements(c) = Elements(a)
    <3>1. Elements(c) = {c[i] : i \in 0 .. w} /\ Elements(a) = {a[i] : i \in 0 .. n - 1}
      BY <1>1, <2>9 DEF Elements
    <3>2. ASSUME NEW y \in {c[i] : i \in 0 .. w} PROVE y \in {a[i] : i \in 0 .. n - 1}
      <4>1. PICK k \in 0 .. w : y = c[k]
        OBVIOUS
      <4>2. PICK l \in 0 .. n - 1 : b[k] = a[l]
        BY <2>6
      <4> QED
        BY <2>9, <4>1, <4>2
    <3>3. ASSUME NEW y \in {a[i] : i \in 0 .. n - 1} PROVE y \in {c[i] : i \in 0 .. w}
      <4>1. PICK l \in 0 .. n - 1 : y = a[l]
        OBVIOUS
      <4>2. PICK k \in 0 .. w : b[k] = a[l]
        BY <2>6
      <4> QED
        BY <2>9, <4>1, <4>2
    <3> QED
      BY <3>1, <3>2, <3>3
  <2>11. Increasing(c, w + 1)
    BY <2>6, <2>7, <2>9 DEF Increasing
  <2>12. c \in [0 .. (w + 1) - 1 -> Nat]
    BY <2>7, <2>9
  <2> QED
    BY <2>7, <2>10, <2>11, <2>12
<1> QED
  BY <1>2, <1>3

(***************************************************************************)
(* The lookaside list.                                                     *)
(***************************************************************************)

\* Nothing before loc is val or larger, and val is there, or marked already, or nowhere.
Reaches(val, a, n, loc) ==
  /\ loc \in 0 .. n - 1
  /\ \A j \in 0 .. n - 1 : j < loc => a[j] < val
  /\ \A j \in 0 .. n - 1 : PTR_MASK(a[j]) = val => j = loc \/ a[j] = val + 1

\* addr_find_hint finds an address that is not before the hint.
LEMMA HintRight ==
  ASSUME NEW a, NEW n \in Nat \ {0}, Buffer(a, n), NEW val \in Nat, val % 2 = 0,
         NEW hint \in 0 .. n - 1, \A j \in 0 .. n - 1 : j < hint => a[j] < val,
         NEW loc, loc = AddrFindHint(val, a, hint)
  PROVE  Reaches(val, a, n, loc)
<1>1. a \in [0 .. n - 1 -> Nat] /\ Length(a) = n
  <2>1. a \in [0 .. n - 1 -> Nat]
    BY DEF Buffer
  <2> QED
    BY <2>1, LengthIs
<1>2. \A j \in 0 .. n - 1 : /\ a[j] \in Nat /\ PTR_MASK(a[j]) \in Nat
                            /\ PTR_MASK(a[j]) <= a[j] /\ a[j] <= PTR_MASK(a[j]) + 1
                            /\ (a[j] < val <=> PTR_MASK(a[j]) < val)
  BY <1>1, MaskFacts
<1>3. \A i, j \in 0 .. n - 1 : i < j => PTR_MASK(a[i]) < PTR_MASK(a[j])
  BY DEF Buffer
<1>4. PICK last : last = hint + (LineWords - 1 - (hint % LineWords)) + HintExtra
  OBVIOUS
<1>5. PICK top : top = Min({last, Length(a) - 1})
  OBVIOUS
<1>6. top \in Nat /\ top <= n - 1
  <2>1. last \in Nat
    <3>1. LineWords \in Nat \ {0} /\ HintExtra \in Nat
      BY LookupAssumption
    <3>2. hint % LineWords \in 0 .. LineWords - 1
      BY <3>1
    <3> QED
      BY <1>4, <3>1, <3>2
  <2>2. n - 1 \in Nat
    OBVIOUS
  <2>3. Min({last, n - 1}) = IF last <= n - 1 THEN last ELSE n - 1
    BY <2>1, <2>2, MinOfTwo
  <2> QED
    BY <1>1, <1>5, <2>1, <2>2, <2>3
<1>7. PICK near : near = {i \in hint .. top : val <= a[i]}
  OBVIOUS
<1>8. loc = IF near # {} THEN Min(near) ELSE AddrFind(val, a)
  BY <1>4, <1>5, <1>7 DEF AddrFindHint
<1>9. \A i \in hint .. top : i \in Nat /\ i \in 0 .. n - 1
  BY <1>6
<1>10. CASE near # {}
  <2>1. near \in SUBSET Nat
    BY <1>7, <1>9
  <2>2. loc \in near /\ \A k \in near : loc <= k
    BY <1>8, <1>10, <2>1, MinIsLeast
  <2>3. loc \in hint .. top /\ val <= a[loc] /\ loc \in 0 .. n - 1
    BY <1>7, <1>9, <2>2
  <2>4. ASSUME NEW j \in 0 .. n - 1, j < loc PROVE a[j] < val
    <3>1. CASE j < hint
      BY <3>1
    <3>2. CASE ~(j < hint)
      <4>1. j \in hint .. top /\ ~(loc <= j)
        BY <1>6, <2>3, <2>4, <3>2
      <4>2. ~(val <= a[j])
        BY <1>7, <2>2, <4>1
      <4> QED
        BY <1>2, <4>2
    <3> QED
      BY <3>1, <3>2
  <2>5. ASSUME NEW j \in 0 .. n - 1, PTR_MASK(a[j]) = val PROVE j = loc
    <3>1. ~(a[j] < val)
      BY <1>2, <2>5
    <3>2. ~(j < loc)
      BY <2>4, <3>1
    <3>3. ~(loc < j)
      <4> SUFFICES ASSUME loc < j PROVE FALSE
        OBVIOUS
      <4>1. PTR_MASK(a[loc]) < val
        BY <1>3, <2>3, <2>5
      <4>2. a[loc] < val
        BY <1>2, <2>3, <4>1
      <4> QED
        BY <1>2, <2>3, <4>2
    <3> QED
      BY <2>3, <3>2, <3>3
  <2> QED
    BY <2>3, <2>4, <2>5 DEF Reaches
<1>11. CASE near = {}
  <2>1. Locates(val, a, n, loc)
    BY <1>8, <1>11, AddrFindRight
  <2>2. /\ loc \in 0 .. n - 1
        /\ \A j \in 0 .. n - 1 : (j < loc => a[j] < val) /\ (loc < j => a[j] > val)
    BY <2>1 DEF Locates
  <2>3. ASSUME NEW j \in 0 .. n - 1, PTR_MASK(a[j]) = val PROVE j = loc \/ a[j] = val + 1
    <3>1. ~(a[j] < val) /\ a[j] <= val + 1 /\ a[j] \in Nat
      BY <1>2, <2>3
    <3>2. ~(j < loc)
      BY <2>2, <3>1
    <3>3. loc < j => a[j] = val + 1
      BY <2>2, <3>1
    <3> QED
      BY <2>2, <3>2, <3>3
  <2> QED
    BY <2>2, <2>3 DEF Reaches
<1> QED
  BY <1>10, <1>11

\* A mark does not change the address.
LEMMA MarkedMask ==
  ASSUME NEW v \in Nat, v % 2 = 0
  PROVE  PTR_MASK(v + 1) = v /\ PTR_MASK(v) = v
BY DEF PTR_MASK

\* The loop of lookup_lookaside_list.
LookLoop(a, todo, f) ==
  f = [i \in 0 .. Length(todo) |->
        IF i = 0 THEN [a |-> a, loc |-> 0]
        ELSE LET s == f[i - 1]
                 loc == AddrFindHint(todo[i - 1], s.a, s.loc)
             IN  IF PTR_MASK(s.a[loc]) = todo[i - 1]
                 THEN [a |-> [s.a EXCEPT ![loc] = todo[i - 1] + 1], loc |-> loc]
                 ELSE [s EXCEPT !.loc = loc]]

\* The word at j when the first i addresses of todo have been looked up.
MarkedWord(a, todo, i, j) ==
  IF \E t \in 0 .. i - 1 : todo[t] = PTR_MASK(a[j]) THEN PTR_MASK(a[j]) + 1 ELSE a[j]

\* The first i of the m addresses of todo are marked, and the hint is not behind the next one.
Looked(a, n, todo, m, i, s) ==
  /\ s \in [a : [0 .. n - 1 -> Nat], loc : 0 .. n - 1]
  /\ i < m => \A j \in 0 .. n - 1 : j < s.loc => s.a[j] < todo[i]
  /\ \A j \in 0 .. n - 1 : s.a[j] = MarkedWord(a, todo, i, j)

\* A list that is worked off: m addresses, each once, in order.
IsTodo(todo, m) ==
  /\ m \in Nat \ {0} /\ todo \in [0 .. m - 1 -> Nat] /\ Increasing(todo, m)
  /\ \A t \in 0 .. m - 1 : todo[t] % 2 = 0

\* What a round does with the buffer b, the hint h and the address val.
Looks(val, b, h, t) ==
  LET loc == AddrFindHint(val, b, h)
  IN  t = IF PTR_MASK(b[loc]) = val THEN [a |-> [b EXCEPT ![loc] = val + 1], loc |-> loc]
          ELSE [a |-> b, loc |-> loc]

\* A buffer with marks is a buffer of the same addresses.
LEMMA MarkedBuffer ==
  ASSUME NEW a, NEW n \in Nat \ {0}, Buffer(a, n), NEW b \in [0 .. n - 1 -> Nat],
         NEW todo, NEW i, \A j \in 0 .. n - 1 : b[j] = MarkedWord(a, todo, i, j)
  PROVE  /\ \A j \in 0 .. n - 1 : PTR_MASK(b[j]) = PTR_MASK(a[j])
         /\ Buffer(b, n)
<1>1. ASSUME NEW j \in 0 .. n - 1 PROVE PTR_MASK(b[j]) = PTR_MASK(a[j])
  <2>1. a[j] \in Nat
    BY DEF Buffer
  <2>2. PICK v : v = PTR_MASK(a[j])
    OBVIOUS
  <2>3. v \in Nat /\ v % 2 = 0
    BY <2>1, <2>2, MaskFacts
  <2>4. b[j] = v + 1 \/ b[j] = a[j]
    BY <2>2 DEF MarkedWord
  <2>5. PTR_MASK(v + 1) = v
    BY <2>3, MarkedMask
  <2> QED
    BY <2>2, <2>4, <2>5
<1>2. \A k, j \in 0 .. n - 1 : k < j => PTR_MASK(b[k]) < PTR_MASK(b[j])
  BY <1>1 DEF Buffer
<1> QED
  BY <1>1, <1>2 DEF Buffer

\* A round marks its address if that is in the buffer.
LEMMA LookRound ==
  ASSUME NEW a, NEW n \in Nat \ {0}, Buffer(a, n), NEW todo, NEW m, IsTodo(todo, m),
         NEW i \in 1 .. m, NEW s, Looked(a, n, todo, m, i - 1, s),
         NEW t, Looks(todo[i - 1], s.a, s.loc, t)
  PROVE  Looked(a, n, todo, m, i, t)
<1>1. PICK b, h, k : b = s.a /\ h = s.loc /\ k = i - 1
  OBVIOUS
<1>2. m \in Nat /\ k \in 0 .. m - 1 /\ k < m /\ i - 1 = k /\ \A x : x \in 0 .. i - 1 <=> x = k \/ x \in 0 .. k - 1
  <2>1. m \in Nat
    BY DEF IsTodo
  <2> QED
    BY <1>1, <2>1
<1>3. PICK val : val = todo[k]
  OBVIOUS
<1>4. val \in Nat /\ val % 2 = 0
  BY <1>2, <1>3 DEF IsTodo
<1>5. /\ b \in [0 .. n - 1 -> Nat] /\ h \in 0 .. n - 1
      /\ \A j \in 0 .. n - 1 : j < h => b[j] < val
      /\ \A j \in 0 .. n - 1 : b[j] = MarkedWord(a, todo, k, j)
  BY <1>1, <1>2, <1>3 DEF Looked
<1>6. /\ \A j \in 0 .. n - 1 : PTR_MASK(b[j]) = PTR_MASK(a[j])
      /\ Buffer(b, n)
  BY <1>5, MarkedBuffer
<1>7. PICK loc : loc = AddrFindHint(val, b, h)
  OBVIOUS
<1>8. Reaches(val, b, n, loc)
  BY <1>4, <1>5, <1>6, <1>7, HintRight
<1>9. /\ loc \in 0 .. n - 1
      /\ \A j \in 0 .. n - 1 : j < loc => b[j] < val
      /\ \A j \in 0 .. n - 1 : PTR_MASK(b[j]) = val => j = loc \/ b[j] = val + 1
  BY <1>8 DEF Reaches
<1>10. t = IF PTR_MASK(b[loc]) = val THEN [a |-> [b EXCEPT ![loc] = val + 1], loc |-> loc]
           ELSE [a |-> b, loc |-> loc]
  <2>1. Looks(val, b, h, t)
    BY <1>1, <1>3
  <2> QED
    BY <1>7, <2>1 DEF Looks
<1>11. PICK c : c = IF PTR_MASK(b[loc]) = val THEN [b EXCEPT ![loc] = val + 1] ELSE b
  OBVIOUS
<1>12. t = [a |-> c, loc |-> loc]
  BY <1>10, <1>11
<1>13. /\ c \in [0 .. n - 1 -> Nat]
       /\ \A j \in 0 .. n - 1 : j # loc => c[j] = b[j]
       /\ c[loc] = IF PTR_MASK(b[loc]) = val THEN val + 1 ELSE b[loc]
  <2>1. val + 1 \in Nat
    BY <1>4
  <2> QED
    BY <1>5, <1>9, <1>11, <2>1
<1>14. t \in [a : [0 .. n - 1 -> Nat], loc : 0 .. n - 1] /\ t.a = c /\ t.loc = loc
  BY ONLY <1>9, <1>12, <1>13
<1>15. ASSUME i < m, NEW j \in 0 .. n - 1, j < loc PROVE c[j] < todo[i]
  <2>1. i \in 0 .. m - 1 /\ k < i /\ j # loc
    BY <1>1, <1>2, <1>9, <1>15
  <2>2. val < todo[i] /\ todo[i] \in Nat
    BY <1>2, <1>3, <2>1 DEF IsTodo, Increasing
  <2>3. c[j] = b[j] /\ b[j] < val /\ b[j] \in Nat
    BY <1>5, <1>9, <1>13, <1>15, <2>1
  <2> QED
    BY <1>4, <2>2, <2>3
<1>16. ASSUME NEW j \in 0 .. n - 1 PROVE c[j] = MarkedWord(a, todo, i, j)
  <2>1. PICK v : v = PTR_MASK(a[j])
    OBVIOUS
  <2>2. v = PTR_MASK(b[j])
    BY <1>6, <2>1
  <2>3. (\E x \in 0 .. i - 1 : todo[x] = v) <=> v = val \/ \E x \in 0 .. k - 1 : todo[x] = v
    BY <1>2, <1>3
  <2>4. b[j] = IF \E x \in 0 .. k - 1 : todo[x] = v THEN v + 1 ELSE a[j]
    BY <1>5, <2>1 DEF MarkedWord
  <2>5. CASE v = val
    <3>1. c[j] = v + 1
      BY <1>9, <1>13, <2>2, <2>5
    <3> QED
      BY <2>1, <2>3, <2>5, <3>1 DEF MarkedWord
  <2>6. CASE v # val
    <3>1. c[j] = b[j]
      BY <1>13, <2>2, <2>6
    <3> QED
      BY <2>1, <2>3, <2>4, <2>6, <3>1 DEF MarkedWord
  <2> QED
    BY <2>5, <2>6
<1> QED
  BY ONLY <1>14, <1>15, <1>16 DEF Looked

\* lookup_lookaside_list's loop has a value, and at its end all addresses are looked up.
LEMMA LookLoopRight ==
  ASSUME NEW a, NEW n \in Nat \ {0}, Buffer(a, n), NEW todo, NEW m, IsTodo(todo, m)
  PROVE  /\ \E f : LookLoop(a, todo, f)
         /\ \A f : LookLoop(a, todo, f) => Looked(a, n, todo, m, m, f[m])
<1>0. m \in Nat \ {0} /\ todo \in [0 .. m - 1 -> Nat] /\ a \in [0 .. n - 1 -> Nat]
  BY DEF IsTodo, Buffer
<1>1. Length(todo) = m /\ 0 \in 0 .. m /\ m \in 0 .. m /\ 0 \in Int /\ m \in Int /\ 0 <= m
  <2>1. Length(todo) = m
    BY <1>0, LengthIs
  <2> QED
    BY <1>0, <2>1
<1> DEFINE V == [a : [0 .. n - 1 -> Nat], loc : 0 .. n - 1]
           s0 == [a |-> a, loc |-> 0]
           find(i, s) == AddrFindHint(todo[i - 1], s.a, s.loc)
           round(i, s) == IF PTR_MASK(s.a[find(i, s)]) = todo[i - 1]
                          THEN [a |-> [s.a EXCEPT ![find(i, s)] = todo[i - 1] + 1], loc |-> find(i, s)]
                          ELSE [s EXCEPT !.loc = find(i, s)]
           ok(i, s) == Looked(a, n, todo, m, i, s)
           T == [i \in 0 .. m |-> [s \in V |-> IF round(i, s) \in V THEN round(i, s) ELSE s]]
<1>2. ok(0, s0) /\ s0 \in V
  <2>1. s0.a = a /\ s0.loc = 0 /\ s0 \in V
    <3>1. 0 \in 0 .. n - 1
      OBVIOUS
    <3> QED
      BY ONLY <1>0, <3>1
  <2>2. (\A j \in 0 .. n - 1 : ~(j < 0)) /\ (\A x : ~(x \in 0 .. 0 - 1))
    OBVIOUS
  <2>3. \A j \in 0 .. n - 1 : a[j] = MarkedWord(a, todo, 0, j)
    BY <2>2 DEF MarkedWord
  <2> HIDE DEF s0
  <2> QED
    BY <2>1, <2>2, <2>3 DEF Looked
<1>3. ASSUME NEW i \in 0 + 1 .. m, NEW s, ok(i - 1, s) PROVE ok(i, round(i, s))
  <2>1. PICK t : t = round(i, s)
    OBVIOUS
  <2>2. i \in 1 .. m
    OBVIOUS
  <2>3. PICK loc : loc = find(i, s)
    OBVIOUS
  <2>4. s \in V
    BY <1>3 DEF Looked
  <2>5. [s EXCEPT !.loc = loc] = [a |-> s.a, loc |-> loc]
    BY <2>4
  <2>6. Looks(todo[i - 1], s.a, s.loc, t)
    BY <2>1, <2>3, <2>5 DEF Looks
  <2>7. Looked(a, n, todo, m, i, t)
    BY <1>3, <2>2, <2>6, LookRound
  <2> QED
    BY <2>1, <2>7
<1>4. ASSUME NEW i, NEW s, ok(i, s) PROVE s \in V
  BY <1>4 DEF Looked
<1> HIDE DEF V, s0, round, ok
<1>5. \A i \in 0 .. m : i # 0 => i - 1 \in 0 .. m /\ i \in 0 + 1 .. m
  BY <1>0
<1>6. PICK f \in [0 .. m -> V] : Runs(0, m, s0, T, f)
  <2>1. T \in [0 .. m -> [V -> V]]
    OBVIOUS
  <2> HIDE DEF T
  <2>2. IsLoop(0, m, V, s0, T)
    BY <1>1, <1>2, <2>1 DEF IsLoop
  <2> QED
    BY <2>2, LoopExists
<1>7. \A i \in 0 .. m : \A s \in V : round(i, s) \in V => T[i][s] = round(i, s)
  OBVIOUS
<1> HIDE DEF T
<1>8. \A i \in 0 .. m : ok(i, f[i])
  <2> DEFINE Q == {i \in 0 .. m : ok(i, f[i])}
  <2>1. 0 \in Q
    BY <1>1, <1>2, <1>6 DEF Runs
  <2>2. ASSUME NEW i \in 0 + 1 .. m, i - 1 \in Q PROVE i \in Q
    <3>1. i \in 0 .. m /\ i # 0
      BY <1>0
    <3>2. ok(i - 1, f[i - 1]) /\ f[i - 1] \in V
      BY <1>4, <2>2
    <3>3. ok(i, round(i, f[i - 1])) /\ round(i, f[i - 1]) \in V
      BY <1>3, <1>4, <3>2
    <3>4. f[i] = round(i, f[i - 1])
      BY <1>6, <1>7, <3>1, <3>2, <3>3 DEF Runs
    <3> QED
      BY <3>1, <3>3, <3>4
  <2> HIDE DEF Q
  <2>3. \A i \in 0 .. m : i \in Q
    BY <1>1, <2>1, <2>2, RoundByRound
  <2> QED
    BY <2>3 DEF Q
<1>9. \A i \in 0 .. m : f[i] = IF i = 0 THEN s0 ELSE round(i, f[i - 1])
  <2> SUFFICES ASSUME NEW i \in 0 .. m PROVE f[i] = IF i = 0 THEN s0 ELSE round(i, f[i - 1])
    OBVIOUS
  <2>1. CASE i = 0
    BY <1>6, <2>1 DEF Runs
  <2>2. CASE i # 0
    <3>1. ok(i - 1, f[i - 1]) /\ f[i - 1] \in V
      BY <1>4, <1>5, <1>8, <2>2
    <3>2. round(i, f[i - 1]) \in V
      BY <1>3, <1>4, <1>5, <2>2, <3>1
    <3> QED
      BY <1>6, <1>7, <2>2, <3>1, <3>2 DEF Runs
  <2> QED
    BY <2>1, <2>2
<1>10. f = [i \in 0 .. m |-> IF i = 0 THEN s0 ELSE round(i, f[i - 1])]
  BY <1>9
<1>11. LookLoop(a, todo, f)
  BY <1>1, <1>10 DEF LookLoop, s0, round
<1>12. ASSUME NEW g, LookLoop(a, todo, g) PROVE ok(m, g[m])
  <2>0. g = [i \in 0 .. m |-> IF i = 0 THEN s0 ELSE round(i, g[i - 1])]
    BY <1>1, <1>12 DEF LookLoop, s0, round
  <2> DEFINE Q == {i \in 0 .. m : ok(i, g[i])}
  <2>1. 0 \in Q
    BY <1>1, <1>2, <2>0
  <2>2. ASSUME NEW i \in 0 + 1 .. m, i - 1 \in Q PROVE i \in Q
    <3>1. i \in 0 .. m /\ i # 0
      BY <1>0
    <3>2. g[i] = round(i, g[i - 1])
      BY <2>0, <3>1
    <3>3. ok(i, g[i])
      BY <1>3, <2>2, <3>2
    <3> QED
      BY <3>1, <3>3
  <2> HIDE DEF Q
  <2>3. \A i \in 0 .. m : i \in Q
    BY <1>1, <2>1, <2>2, RoundByRound
  <2> QED
    BY <1>1, <2>3 DEF Q
<1> QED
  BY <1>11, <1>12 DEF ok

\* What a list of even addresses is worked off as.
LEMMA TodoRight ==
  ASSUME NEW q \in Nat \ {0}, NEW l \in [0 .. q - 1 -> Nat], \A i \in 0 .. q - 1 : l[i] % 2 = 0,
         NEW todo, todo = Compact(Sort(l))
  PROVE  \E m : IsTodo(todo, m) /\ Elements(todo) = Elements(l)
<1>1. PICK b : b = Sort(l)
  OBVIOUS
<1>2. b \in [0 .. q - 1 -> Nat] /\ Elements(b) = Elements(l) /\ InOrder(b, 0, q - 1)
  BY <1>1, SortRight
<1>3. PICK m \in Nat \ {0} : /\ todo \in [0 .. m - 1 -> Nat] /\ Increasing(todo, m)
                             /\ Elements(todo) = Elements(b)
  BY <1>1, <1>2, CompactRight
<1>4. ASSUME NEW t \in 0 .. m - 1 PROVE todo[t] % 2 = 0
  <2>1. DOMAIN todo = 0 .. m - 1 /\ DOMAIN l = 0 .. q - 1
    BY <1>3
  <2>2. todo[t] \in Elements(todo)
    BY <2>1 DEF Elements
  <2>3. todo[t] \in Elements(l)
    BY <1>2, <1>3, <2>2
  <2>4. PICK i \in 0 .. q - 1 : todo[t] = l[i]
    BY <2>1, <2>3 DEF Elements
  <2> QED
    BY <2>4
<1> QED
  BY <1>2, <1>3, <1>4 DEF IsTodo

\* lookup_lookaside_list marks the words of the buffer that are on the list.
LEMMA LookRight ==
  ASSUME NEW a, NEW n \in Nat \ {0}, Buffer(a, n),
         NEW q \in Nat \ {0}, NEW l \in [0 .. q - 1 -> Nat], \A i \in 0 .. q - 1 : l[i] % 2 = 0
  PROVE  LookupLookasideList(a, l) =
           [j \in 0 .. n - 1 |->
              IF PTR_MASK(a[j]) \in Elements(l) THEN PTR_MASK(a[j]) + 1 ELSE a[j]]
<1>1. PICK todo : todo = Compact(Sort(l))
  OBVIOUS
<1>2. PICK m : IsTodo(todo, m) /\ Elements(todo) = Elements(l)
  BY <1>1, TodoRight
<1>3. m \in Nat \ {0} /\ DOMAIN todo = 0 .. m - 1 /\ Length(todo) = m
  <2>1. m \in Nat \ {0} /\ todo \in [0 .. m - 1 -> Nat]
    BY <1>2 DEF IsTodo
  <2> QED
    BY <2>1, LengthIs
<1>4. PICK f : f = CHOOSE g : LookLoop(a, todo, g)
  OBVIOUS
<1>5. Looked(a, n, todo, m, m, f[m])
  <2>1. /\ \E g : LookLoop(a, todo, g)
        /\ \A g : LookLoop(a, todo, g) => Looked(a, n, todo, m, m, g[m])
    BY <1>2, LookLoopRight
  <2>2. LookLoop(a, todo, f)
    BY <1>4, <2>1
  <2> QED
    BY <2>1, <2>2
<1>6. LookupLookasideList(a, l) = f[m].a
  <2> DEFINE end(x) == (CHOOSE g : LookLoop(a, x, g))[Length(x)].a
  <2>1. LookupLookasideList(a, l) = end(Compact(Sort(l)))
    BY ONLY Zenon DEF LookupLookasideList, LookLoop
  <2>2. end(todo) = f[m].a
    BY <1>3, <1>4
  <2> HIDE DEF end
  <2> QED
    BY <1>1, <2>1, <2>2
<1>7. PICK b : b = f[m].a
  OBVIOUS
<1>8. b \in [0 .. n - 1 -> Nat] /\ \A j \in 0 .. n - 1 : b[j] = MarkedWord(a, todo, m, j)
  BY <1>5, <1>7 DEF Looked
<1>9. \A v : (\E t \in 0 .. m - 1 : todo[t] = v) <=> v \in Elements(l)
  <2>1. \A v : (\E t \in 0 .. m - 1 : todo[t] = v) <=> v \in Elements(todo)
    BY <1>3 DEF Elements
  <2> QED
    BY <1>2, <2>1
<1>10. \A j \in 0 .. n - 1 :
         b[j] = IF PTR_MASK(a[j]) \in Elements(l) THEN PTR_MASK(a[j]) + 1 ELSE a[j]
  BY <1>8, <1>9 DEF MarkedWord
<1> QED
  BY <1>6, <1>7, <1>8, <1>10

\* The addresses on the list are addresses of memory.
LEMMA ListRight ==
  ASSUME LookupInit, Length(list) > 0
  PROVE  \E q \in Nat \ {0} : list \in [0 .. q - 1 -> Nat] /\ \A i \in 0 .. q - 1 : list[i] % 2 = 0
<1>1. \/ list = <<>>
      \/ \E q \in 1 .. MaxList : list \in [0 .. q - 1 -> {m \in Memory : Min(InPool) <= m /\ m <= Max(InPool)}]
  BY DEF LookupInit
<1>2. list # <<>>
  <2> SUFFICES ASSUME list = <<>> PROVE FALSE
    OBVIOUS
  <2>1. DOMAIN list = {}
    OBVIOUS
  <2>2. Length(list) = 0
    BY <2>1, FS_EmptySet DEF Length
  <2> QED
    BY <2>2
<1>3. PICK q \in 1 .. MaxList : list \in [0 .. q - 1 -> {m \in Memory : Min(InPool) <= m /\ m <= Max(InPool)}]
  BY <1>1, <1>2
<1>4. \A i \in 0 .. q - 1 : list[i] \in Memory
  BY <1>3
<1>5. \A i \in 0 .. q - 1 : list[i] \in Nat /\ list[i] % 2 = 0
  BY <1>4, MemoryFacts
<1>6. q \in Nat \ {0}
  <2>1. MaxList \in Nat
    BY LookupAssumption
  <2> QED
    BY <2>1
<1>7. DOMAIN list = 0 .. q - 1 /\ list = [i \in 0 .. q - 1 |-> list[i]]
  BY <1>3
<1>8. list \in [0 .. q - 1 -> Nat]
  BY <1>5, <1>7
<1> QED
  BY <1>5, <1>6, <1>8

\* lookup_lookaside_list (child.c), with forkscan_util_sort and forkscan_util_compact
\* (util.c), marks the addresses of the pool that are on the list, each in its own place, and
\* nothing else: for pools, marks and lists of any size, whatever the thresholds and hints.
THEOREM LookupExactHolds == LookupInit => LookupExact
<1> SUFFICES ASSUME LookupInit, Length(list) > 0
             PROVE  LookupLookasideList(addrs, list) =
                      [i \in DOMAIN addrs |->
                         IF PTR_MASK(addrs[i]) \in Elements(list) THEN PTR_MASK(addrs[i]) + 1 ELSE addrs[i]]
  BY DEF LookupExact
<1>1. PICK n, nd : Buffer(addrs, n) /\ n # 0 /\ BlocksApart(InPool \cup Elements(deadrefs), n, nd)
  BY InputsRight
<1>2. n \in Nat \ {0} /\ DOMAIN addrs = 0 .. n - 1
  BY <1>1 DEF Buffer
<1>3. PICK q \in Nat \ {0} : list \in [0 .. q - 1 -> Nat] /\ \A i \in 0 .. q - 1 : list[i] % 2 = 0
  BY ListRight
<1> QED
  BY <1>1, <1>2, <1>3, LookRight
=============================================================================
