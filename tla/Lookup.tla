------------------------------- MODULE Lookup -------------------------------
(***************************************************************************)
(* What a sibling computes without looking at anybody else: which words of *)
(* a range it reads (find_roots in child.c), and which addresses it finds  *)
(* in the pool, with the sort of util.c and the two-level search of        *)
(* child.c.  Scan uses these as "the words outside the pool" and "the      *)
(* address is in the pool"; here they are algorithms on arrays, compared   *)
(* with those meanings.                                                    *)
(*                                                                         *)
(* A word has two bytes here, addresses are even, and the low bit of a     *)
(* word is the mark.  Other siblings may set marks during a search, but a  *)
(* comparison of val with a word comes out differently only if that word   *)
(* is val itself, and then somebody else has just marked it.               *)
(*                                                                         *)
(* The variables are inputs: they are chosen once and never change.        *)
(***************************************************************************)
EXTENDS Integers, FiniteSets, FiniteSetsExt

CONSTANTS SortThreshold,    \* SORT_THRESHOLD
          BinaryThreshold,  \* BINARY_THRESHOLD
          PageWords,        \* PAGESIZE / sizeof(size_t)
          LineWords,        \* CACHELINESIZE / sizeof(size_t)
          HintExtra,        \* what addr_find_hint adds to the rest of the line
          NWords,           \* bound: words in memory
          MaxList           \* bound: addresses on the lookaside list

VARIABLES addrs,     \* the pool, sorted, with marks
          deadrefs,  \* the dead references, sorted
          size,      \* MALLOC_USABLE_SIZE of every block
          list,      \* g_lookaside_list
          range      \* the range to scan

inputs == <<addrs, deadrefs, size, list, range>>

ASSUME LookupAssumption ==
  /\ {SortThreshold, BinaryThreshold, HintExtra, NWords, MaxList} \subseteq Nat
  /\ {PageWords, LineWords} \subseteq Nat \ {0}
  /\ BinaryThreshold >= 2

PTR_MASK(w) == w - (w % 2)

\* (size_t)-1
Infinity == 2 * NWords + 2

Memory == {2 * i : i \in 0 .. NWords - 1}

(***************************************************************************)
(* Arrays are functions on 0 .. n-1.                                       *)
(***************************************************************************)

Length(a) == Cardinality(DOMAIN a)
Elements(a) == {a[i] : i \in DOMAIN a}

\* The elements of a finite set of naturals in increasing order.
Sorted(S) ==
  [i \in 0 .. Cardinality(S) - 1 |->
     CHOOSE x \in S : Cardinality({y \in S : y < x}) = i]

Swap(a, n, m) == [a EXCEPT ![n] = a[m], ![m] = a[n]]

\* partition: the array and the place the pivot has come to.
Partition(a, min, max) ==
  LET pivot == (max + min) \div 2
      at[i \in min .. max] ==
        IF i = min THEN [a |-> Swap(a, pivot, max), mid |-> min]
        ELSE LET s == at[i - 1]
             IN  IF s.a[i - 1] <= a[pivot]
                 THEN [a |-> Swap(s.a, i - 1, s.mid), mid |-> s.mid + 1]
                 ELSE s
  IN  [at[max] EXCEPT !.a = Swap(at[max].a, at[max].mid, max)]

\* The inner loop of insertion_sort: a[i] goes down past the larger ones before it,
\* possibly below its part of the array.
Sink(a, i) ==
  LET p == Min({j \in 0 .. i : \A k \in j .. i - 1 : a[k] > a[i]})
  IN  [k \in DOMAIN a |-> IF k = p THEN a[i]
                         ELSE IF p < k /\ k <= i THEN a[k - 1] ELSE a[k]]

\* Seeded fault: the last element stays where it is.
InsertionSortButLast(a, min, max) ==
  LET upto[i \in min .. max] == IF i = min THEN a ELSE Sink(upto[i - 1], i)
  IN  IF min < max THEN upto[max - 1] ELSE a

InsertionSort(a, min, max) ==
  LET upto[i \in min .. max] == IF i = min THEN a ELSE Sink(upto[i - 1], i)
  IN  IF min < max THEN upto[max] ELSE a

Quicksort(a, min, max) ==
  LET of[s \in [DOMAIN a -> Elements(a)] \X (0 .. Length(a)) \X (-1 .. Length(a) - 1)] ==
        IF s[3] - s[2] > SortThreshold
        THEN LET p == Partition(s[1], s[2], s[3])
             IN  of[<<of[<<p.a, s[2], p.mid - 1>>], p.mid + 1, s[3]>>]
        ELSE InsertionSort(s[1], s[2], s[3])
  IN  of[<<a, min, max>>]

\* forkscan_util_sort
Sort(a) == Quicksort(a, 0, Length(a) - 1)

\* forkscan_util_compact, and the shortening of the list by its result.
Compact(a) ==
  LET at[search \in 1 .. Length(a)] ==
        IF search = 1 THEN [a |-> a, write |-> 0]
        ELSE LET s == at[search - 1]
             IN  IF s.a[search - 1] = s.a[s.write] THEN s
                 ELSE [a |-> [s.a EXCEPT ![s.write + 1] = s.a[search - 1]],
                       write |-> s.write + 1]
      end == at[Length(a)]
  IN  IF Length(a) < 2 THEN a ELSE [i \in 0 .. end.write |-> end.a[i]]

(***************************************************************************)
(* Searching.                                                              *)
(***************************************************************************)

\* iterative_search
IterativeSearch(val, a, min, max) ==
  LET stops == {i \in min .. max - 1 : a[i] >= val}
  IN  IF a[min] > val \/ min = max THEN min
      ELSE IF stops = {} THEN max - 1
      ELSE IF a[Min(stops)] = val THEN Min(stops) ELSE Min(stops) - 1

\* binary_search
BinarySearch(val, a, min, max) ==
  LET in[r \in (min .. max) \X (min .. max)] ==
        LET mid == (r[2] + r[1]) \div 2
        IN  IF r[2] - r[1] < BinaryThreshold THEN IterativeSearch(val, a, r[1], r[2])
            ELSE IF a[mid] = val THEN mid
            ELSE IF a[mid] > val THEN in[<<r[1], mid>>]
            ELSE in[<<mid, r[2]>>]
  IN  in[<<min, max>>]

\* generate_minimap, from the sorted buffer before anything is marked.
Minimap(a) ==
  [v \in 0 .. (Length(a) + PageWords - 1) \div PageWords - 1 |-> PTR_MASK(a[v * PageWords])]

\* addr_find: the page first, then the address on it.
AddrFind(val, a) ==
  LET map == Minimap(a)
      v == BinarySearch(val, map, 0, Length(map))
  IN  BinarySearch(val, a, v * PageWords,
                   IF v = Length(map) - 1 THEN Length(a) ELSE (v + 1) * PageWords)

\* addr_find_hint: the rest of the cache line, and some more, before that.  (The code
\* stops at n_addrs, one too far; it never gets there, as val is not beyond the last
\* address: what is on the list is between the first and the last.)
AddrFindHint(val, a, hint) ==
  LET last == hint + (LineWords - 1 - (hint % LineWords)) + HintExtra
      near == {i \in hint .. Min({last, Length(a) - 1}) : val <= a[i]}
  IN  IF near # {} THEN Min(near) ELSE AddrFind(val, a)

\* lookup_lookaside_list: the buffer after the list has been worked off.  (The
\* marks that recursive_mark adds are the business of Scan.)
LookupLookasideList(a, l) ==
  LET todo == Compact(Sort(l))
      at[i \in 0 .. Length(todo)] ==
        IF i = 0 THEN [a |-> a, loc |-> 0]
        ELSE LET s == at[i - 1]
                 loc == AddrFindHint(todo[i - 1], s.a, s.loc)
             IN  IF PTR_MASK(s.a[loc]) = todo[i - 1]
                 THEN [a |-> [s.a EXCEPT ![loc] = todo[i - 1] + 1], loc |-> loc]
                 ELSE [s EXCEPT !.loc = loc]
  IN  at[Length(todo)].a

(***************************************************************************)
(* find_roots.                                                             *)
(***************************************************************************)

\* update_addr_loc
AddrAt(buf, idx) == IF idx < Length(buf) THEN PTR_MASK(buf[idx]) ELSE Infinity

\* Where the search begins with respect to one of the buffers: behind the block
\* that low is in, and at the index of the next block.
Advance(low, buf, idx) ==
  LET a == AddrAt(buf, idx)
  IN  IF a <= low THEN [low |-> Max({low, a + size[a]}), idx |-> idx + 1]
      ELSE [low |-> low, idx |-> idx]

\* Seeded fault: the scan goes on where the next guarded block begins.
ScanFromGuard(low, high, pool_idx, dead_idx) ==
  LET from[s \in Nat \X (0 .. Length(addrs)) \X (0 .. Length(deadrefs))] ==
        LET pool_addr == AddrAt(addrs, s[2])
            dead_addr == AddrAt(deadrefs, s[3])
            guarded_addr == Min({pool_addr, dead_addr})
            stop == Min({guarded_addr, high})
        IN  IF s[1] >= high THEN {}
            ELSE {w \in Memory : s[1] <= w /\ w < stop} \cup
                 (IF stop < guarded_addr THEN {}
                  ELSE IF guarded_addr = pool_addr THEN from[<<stop, s[2] + 1, s[3]>>]
                  ELSE from[<<stop + size[guarded_addr], s[2], s[3] + 1>>])
  IN  from[<<low, pool_idx, dead_idx>>]

\* The loop: the words up to the next block of either kind, which is skipped.
ScanFrom(low, high, pool_idx, dead_idx) ==
  LET from[s \in Nat \X (0 .. Length(addrs)) \X (0 .. Length(deadrefs))] ==
        LET pool_addr == AddrAt(addrs, s[2])
            dead_addr == AddrAt(deadrefs, s[3])
            guarded_addr == Min({pool_addr, dead_addr})
            stop == Min({guarded_addr, high})
        IN  IF s[1] >= high THEN {}
            ELSE {w \in Memory : s[1] <= w /\ w < stop} \cup
                 (IF stop < guarded_addr THEN {}
                  ELSE IF guarded_addr = pool_addr
                       THEN from[<<stop + size[guarded_addr], s[2] + 1, s[3]>>]
                  ELSE from[<<stop + size[guarded_addr], s[2], s[3] + 1>>])
  IN  from[<<low, pool_idx, dead_idx>>]

\* The places from which find_roots reads a word.
FindRoots(low, high) ==
  LET p == Advance(low, addrs, AddrFind(low, addrs))
      d == IF Length(deadrefs) = 0 THEN [low |-> p.low, idx |-> 0]
           ELSE Advance(p.low, deadrefs, BinarySearch(p.low, deadrefs, 0, Length(deadrefs)))
  IN  ScanFrom(d.low, high, p.idx, d.idx)

(***************************************************************************)
(* The inputs.                                                             *)
(***************************************************************************)

\* What a word of memory is: outside any block, the first word of a block of
\* the pool, of a dead one, or a further word of the block before it.
Layouts ==
  {k \in [Memory -> {"out", "pool", "marked", "dead", "more"}] :
     /\ \E m \in Memory : k[m] \in {"pool", "marked"}
     /\ k[0] # "more"
     /\ \A m \in Memory \ {0} : k[m] = "more" => k[m - 2] # "out"}

Blocks(k, kinds) == {m \in Memory : k[m] \in kinds}

InPool == {PTR_MASK(w) : w \in Elements(addrs)}

\* Any layout and any range of it; or blocks of one word, any marks and any list.
LookupInit ==
  \E k \in Layouts :
    /\ addrs = Sorted(Blocks(k, {"pool"}) \cup {m + 1 : m \in Blocks(k, {"marked"})})
    /\ deadrefs = Sorted(Blocks(k, {"dead"}))
    /\ size = [m \in Memory |->
                 Min({e \in {2 * i : i \in 1 .. NWords} :
                        m + e = 2 * NWords \/ (m + e \in Memory /\ k[m + e] # "more")})]
    /\ \/ /\ list = <<>>
          /\ range \in {r \in Memory \X {2 * i : i \in 1 .. NWords} : r[1] < r[2]}
       \/ /\ Blocks(k, {"dead", "more"}) = {}
          /\ range = <<0, 0>>
          /\ \E n \in 1 .. MaxList :
               list \in [0 .. n - 1 -> {m \in Memory : Min(InPool) <= m /\ m <= Max(InPool)}]

(***************************************************************************)
(* Properties.                                                             *)
(***************************************************************************)

\* Working off the lookaside list, with its sort, its hints and its search of
\* an array whose words are marked or not, marks the addresses of the pool that
\* are on the list, each in its own place, and nothing else.
LookupExact ==
  Length(list) > 0 =>
    LookupLookasideList(addrs, list) =
      [i \in DOMAIN addrs |->
         IF PTR_MASK(addrs[i]) \in Elements(list) THEN PTR_MASK(addrs[i]) + 1 ELSE addrs[i]]

\* find_roots reads every word of its range that is in no block of the pool and
\* in no dead one, and no other: wherever blocks begin and end with respect to
\* the range and to each other, and whichever addresses are marked by then.
RootsOutsideBlocks ==
  range[1] < range[2] =>
    FindRoots(range[1], range[2]) =
      {w \in Memory : range[1] <= w /\ w < range[2] /\
         ~\E b \in InPool \cup Elements(deadrefs) : b <= w /\ w < b + size[b]}
=============================================================================
