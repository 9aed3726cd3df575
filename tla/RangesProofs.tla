---------------------------- MODULE RangesProofs -----------------------------
(***************************************************************************)
(* The list of Forkscan's own mappings (alloc.c), for an address space of  *)
(* any size and any number of allocating threads: a child that is forked   *)
(* anywhere in an insertion finds a ring through alloc_list with every     *)
(* mapping on it, the ring is in the order of the addresses, and so the    *)
(* ranges the child collects are the program's memory, each page once.     *)
(***************************************************************************)
EXTENDS Ranges, FiniteSetTheorems, NaturalsInduction, TLAPS

(***************************************************************************)
(* The inductive invariant.                                                *)
(***************************************************************************)

\* Following nxt does not lead out of C.
Closed(nxt, C) == \A x \in C : nxt[x] \in C

\* nxt leads through all of L and back: no part of L is closed.
IsRing(nxt, L) ==
  /\ L \subseteq Node
  /\ Closed(nxt, L)
  /\ \A C \in SUBSET L : C # {} /\ Closed(nxt, C) => C = L

\* The places in metadata_do_insert, with the lock; those after its first store
\* to the list; and all places with a node that is not on the list yet.
Inserting == {"link", "back", "head"}
Linked    == {"back", "head"}
Carrying  == {"map", "insert"} \cup Inserting

\* The nodes on the ring: the last one may not be listed yet.
Ring == {n \in Node : n \in listed \/ \E a \in Allocator : pc[a] \in Linked /\ meta[a] = n}

\* The nodes whose mapping exists, and all that are in use or free.
Mapped ==
  {n \in Node : n \in listed \/ \E a \in Allocator : pc[a] \in {"insert"} \cup Inserting /\ meta[a] = n}
Used ==
  {n \in Node : \/ n \in listed \/ n \in ToSet(free_list)
                \/ \E a \in Allocator : pc[a] # "idle" /\ meta[a] = n}

\* list_lock is held during an insertion, and by who adds a metadata page from
\* the mapping of the page on.
LockInv ==
  \A a \in Allocator :
    /\ pc[a] \in Inserting \cup {"refill"} => list_lock = a
    /\ pc[a] = "insert" /\ meta[a][2] = 0 => list_lock = a

\* The node a thread has.  A page of which no node was handed out yet has only
\* its own node in use.
NodeOf(a) ==
  /\ pc[a] # "idle" => meta[a] \in Node
  /\ pc[a] \in Carrying => meta[a] \notin listed /\ meta[a] \notin ToSet(free_list)
  /\ pc[a] = "map" => meta[a][2] # 0
  /\ pc[a] = "refill" => meta[a] \in listed /\ meta[a][2] = 0
  /\ pc[a] \notin {"idle", "map"} /\ meta[a][2] = 0 =>
       \A n \in Used : n[1] = meta[a][1] => n[2] = 0

\* A node is free, or carried by one thread, or listed; and it is on a metadata
\* page that is not unmapped.
NodeInv ==
  /\ IsInjective(free_list)
  /\ \A n \in ToSet(free_list) : n \notin listed /\ n[2] # 0
  /\ \A a \in Allocator : NodeOf(a)
  /\ \A a, b \in Allocator :
       pc[a] \in Carrying /\ pc[b] \in Carrying /\ meta[a] = meta[b] => a = b
  /\ \A n \in Used : page[n[1]] = <<n[1], 0>>

\* The pages of a mapping are its own, and a page is in no other mapping.
HasPages(m) ==
  /\ addr[m] \in Page /\ length[m] >= 1 /\ addr[m] + length[m] <= NPages
  /\ \A q \in Page : (addr[m] <= q /\ q < addr[m] + length[m]) <=> page[q] = m

MapInv ==
  /\ \A m \in Mapped : HasPages(m)
  /\ \A q \in Page : page[q] \in Node => page[q] \in Mapped

\* The list is a ring whichever way one goes, but for the one link back that an
\* insertion has still to store.
RingInv ==
  /\ IsRing(next, Ring)
  /\ alloc_list \in listed
  /\ \E m \in listed : m[2] = 0
  /\ \A x \in Ring : prev[next[x]] = x \/ \E a \in Allocator : pc[a] = "back" /\ meta[a] = x
  /\ \A a \in Allocator :
       /\ pc[a] \in Inserting => curr[a] \in listed /\ next[meta[a]] = curr[a]
       /\ pc[a] = "link" => prev[meta[a]] = prev[curr[a]]
       /\ pc[a] = "back" => prev[curr[a]] \in Node /\ next[prev[curr[a]]] = meta[a]

\* The node of a goes before the first one, not behind the last.
GoesFirst(a) == curr[a] = alloc_list /\ LOW_ADDR(meta[a]) < LOW_ADDR(alloc_list)

\* The list is in the order of the addresses, from alloc_list on, and so it will
\* be after the insertion.
SortInv ==
  /\ \A x \in Ring :
       \/ next[x] = alloc_list
       \/ HIGH_ADDR(x) <= LOW_ADDR(next[x])
       \/ \E a \in Allocator : pc[a] \in Linked /\ next[x] = meta[a] /\ GoesFirst(a)
  /\ \A a \in Allocator : pc[a] \in Inserting =>
       /\ curr[a] # alloc_list \/ GoesFirst(a) => HIGH_ADDR(meta[a]) <= LOW_ADDR(curr[a])
       /\ pc[a] = "link" /\ ~GoesFirst(a) => HIGH_ADDR(prev[curr[a]]) <= LOW_ADDR(meta[a])

IndInv == TypeOK /\ LockInv /\ NodeInv /\ MapInv /\ RingInv /\ SortInv

\* "The list is sorted" (alloc.c, metadata_insert): while nobody has list_lock, every
\* node ends before the next one begins, up to the end of the list.
ListSorted ==
  list_lock = NULL =>
    \A x \in listed : next[x] = alloc_list \/ HIGH_ADDR(x) <= LOW_ADDR(next[x])

(***************************************************************************)
(* Rings.                                                                  *)
(***************************************************************************)

\* A metadata page is a page, and there are finitely many nodes.
LEMMA NodeFacts ==
  /\ Page \subseteq Nat
  /\ IsFiniteSet(Node) /\ Cardinality(Node) \in Nat
  /\ \A n \in Node : n = <<n[1], n[2]>> /\ n[1] \in Page /\ n[2] \in 0 .. NodesPerPage
  /\ \A p \in Page, i \in 0 .. NodesPerPage : <<p, i>> \in Node /\ <<p, i>>[1] = p /\ <<p, i>>[2] = i
<1>1. NPages \in Nat /\ NodesPerPage \in Nat
  BY RangesAssumption
<1>2. IsFiniteSet(Page) /\ IsFiniteSet(0 .. NodesPerPage)
  BY <1>1, FS_Interval DEF Page
<1>3. IsFiniteSet(Node)
  BY <1>2, FS_Product DEF Node
<1>4. Page \subseteq Nat
  BY <1>1 DEF Page
<1> QED
  BY <1>3, <1>4, FS_CardinalityType DEF Node

\* Every node of a ring has one before it.
LEMMA RingPred ==
  ASSUME NEW nxt, NEW L, IsRing(nxt, L), NEW c \in L
  PROVE  \E x \in L : nxt[x] = c
<1> SUFFICES ASSUME \A x \in L : nxt[x] # c PROVE FALSE
  OBVIOUS
<1>1. Closed(nxt, L \ {c})
  BY DEF Closed, IsRing
<1>2. L \ {c} = {}
  BY <1>1 DEF IsRing
<1> QED
  BY <1>2 DEF Closed, IsRing

\* A ring depends on the links of its own nodes only.
LEMMA RingAgree ==
  ASSUME NEW nxt, NEW nxt2, NEW L, IsRing(nxt, L), \A x \in L : nxt2[x] = nxt[x]
  PROVE  IsRing(nxt2, L)
<1>1. \A C \in SUBSET L : Closed(nxt2, C) <=> Closed(nxt, C)
  BY DEF Closed
<1> QED
  BY <1>1 DEF IsRing

\* Two stores put m between p and the node c behind it.
LEMMA RingInsert ==
  ASSUME NEW nxt, NEW L, IsRing(nxt, L), NEW m \in Node \ L, NEW p \in L, NEW c \in L, nxt[p] = c,
         NEW nxt2, nxt2[m] = c, nxt2[p] = m, \A x \in L : x # p => nxt2[x] = nxt[x]
  PROVE  IsRing(nxt2, L \cup {m})
<1>1. L \cup {m} \subseteq Node
  BY DEF IsRing
<1>2. Closed(nxt2, L \cup {m})
  BY DEF IsRing, Closed
<1>3. ASSUME NEW C \in SUBSET (L \cup {m}), C # {}, Closed(nxt2, C) PROVE C = L \cup {m}
  <2>1. Closed(nxt, C \ {m})
    <3> SUFFICES ASSUME NEW x \in C \ {m} PROVE nxt[x] \in C \ {m}
      BY DEF Closed
    <3>1. nxt[x] \in L /\ nxt[x] # m
      BY DEF IsRing, Closed
    <3>2. CASE x = p
      BY <1>3, <3>1, <3>2 DEF Closed
    <3>3. CASE x # p
      BY <1>3, <3>1, <3>3 DEF Closed
    <3> QED
      BY <3>2, <3>3
  <2>2. C \ {m} # {}
    BY <1>3 DEF Closed
  <2>3. C \ {m} = L
    BY <2>1, <2>2 DEF IsRing
  <2> QED
    BY <1>3, <2>3 DEF Closed
<1> QED
  BY <1>1, <1>2, <1>3 DEF IsRing

\* One store takes m out from behind p.
LEMMA RingRemove ==
  ASSUME NEW nxt, NEW L, IsRing(nxt, L), NEW m \in L, NEW p \in L, p # m, nxt[p] = m,
         \A x \in L : nxt[x] = m => x = p,
         NEW nxt2, nxt2[p] = nxt[m], \A x \in L : x # p /\ x # m => nxt2[x] = nxt[x]
  PROVE  IsRing(nxt2, L \ {m})
<1>1. nxt[m] \in L \ {m}
  BY DEF IsRing, Closed
<1>2. Closed(nxt2, L \ {m})
  BY <1>1 DEF IsRing, Closed
<1>3. ASSUME NEW C \in SUBSET (L \ {m}), C # {}, Closed(nxt2, C) PROVE C = L \ {m}
  <2>1. CASE p \in C
    <3>1. Closed(nxt, C \cup {m})
      <4> SUFFICES ASSUME NEW x \in C \cup {m} PROVE nxt[x] \in C \cup {m}
        BY DEF Closed
      <4>1. CASE x = m
        BY <1>3, <2>1, <4>1 DEF Closed
      <4>2. CASE x # m
        BY <1>3, <2>1, <4>2 DEF Closed
      <4> QED
        BY <4>1, <4>2
    <3>2. C \cup {m} = L
      BY <3>1 DEF IsRing
    <3> QED
      BY <3>2
  <2>2. CASE p \notin C
    <3>1. Closed(nxt, C)
      BY <1>3, <2>2 DEF Closed
    <3>2. C = L
      BY <1>3, <3>1 DEF IsRing
    <3> QED
      BY <2>2, <3>2
  <2> QED
    BY <2>1, <2>2
<1> QED
  BY <1>1, <1>2, <1>3 DEF IsRing

\* A nonempty set of natural numbers has a least element.
LEMMA LeastNat ==
  ASSUME NEW T \in SUBSET Nat, T # {}
  PROVE  \E m \in T : \A k \in T : m <= k
<1> DEFINE R == OpToRel(<, Nat)
<1>1. IsWellFoundedOn(R, Nat)
  BY NatLessThanWellFounded, Zenon
<1> HIDE DEF R
<1>2. PICK x \in T : \A y \in T : ~ (<<y, x>> \in R)
  BY <1>1, WFMin
<1>3. \A a, b \in Nat : a < b => <<a, b>> \in R
  BY DEF R, OpToRel
<1>4. \A k \in T : x <= k
  <2> TAKE k \in T
  <2>1. ~(<<k, x>> \in R) /\ k \in Nat /\ x \in Nat
    BY <1>2
  <2> QED
    BY <2>1, <1>3
<1> QED
  BY <1>4

\* A way from x along nxt that stops where h would come next.
IsTour(nxt, L, x, h, M) ==
  /\ M \in Seq(L) /\ Len(M) >= 1
  /\ M[1] = x /\ nxt[M[Len(M)]] = h
  /\ \A i \in 1 .. Len(M) - 1 : M[i + 1] = nxt[M[i]] /\ nxt[M[i]] # h

\* On a ring there is one from every node.
LEMMA TourExists ==
  ASSUME NEW nxt, NEW L, IsRing(nxt, L), NEW h \in L, NEW d \in L
  PROVE  \E M : IsTour(nxt, L, d, h, M)
<1> DEFINE B == {x \in L : ~\E M : IsTour(nxt, L, x, h, M)}
<1>1. ASSUME NEW x \in L, nxt[x] = h PROVE IsTour(nxt, L, x, h, <<x>>)
  <2>1. <<x>> \in Seq(L) /\ Len(<<x>>) = 1 /\ <<x>>[1] = x
    OBVIOUS
  <2>2. 1 .. Len(<<x>>) - 1 = {}
    BY <2>1
  <2> QED
    BY <1>1, <2>1, <2>2 DEF IsTour
<1>2. ASSUME NEW x \in L, nxt[x] # h, NEW M, IsTour(nxt, L, nxt[x], h, M)
      PROVE  IsTour(nxt, L, x, h, <<x>> \o M)
  <2> DEFINE N == <<x>> \o M
  <2>1. /\ M \in Seq(L) /\ Len(M) \in Nat /\ Len(M) >= 1 /\ M[1] = nxt[x] /\ nxt[M[Len(M)]] = h
        /\ \A i \in 1 .. Len(M) - 1 : M[i + 1] = nxt[M[i]] /\ nxt[M[i]] # h
    BY <1>2 DEF IsTour
  <2>2. <<x>> \in Seq(L) /\ Len(<<x>>) = 1 /\ <<x>>[1] = x
    OBVIOUS
  <2>3. /\ N \in Seq(L) /\ Len(N) = Len(M) + 1 /\ N[1] = x
        /\ \A i \in 1 .. Len(M) : N[i + 1] = M[i]
    BY <2>1, <2>2
  <2> HIDE DEF N
  <2>4. N[Len(N)] = M[Len(M)]
    <3>1. Len(M) \in 1 .. Len(M)
      BY <2>1
    <3> QED
      BY <2>3, <3>1
  <2>5. ASSUME NEW i \in 1 .. Len(N) - 1 PROVE N[i + 1] = nxt[N[i]] /\ nxt[N[i]] # h
    <3>1. i \in 1 .. Len(M)
      BY <2>1, <2>3
    <3>2. CASE i = 1
      BY <1>2, <2>1, <2>3, <3>1, <3>2
    <3>3. CASE i # 1
      <4>1. i - 1 \in 1 .. Len(M) - 1 /\ i - 1 \in 1 .. Len(M) /\ (i - 1) + 1 = i
        BY <2>1, <3>1, <3>3
      <4>2. N[(i - 1) + 1] = M[i - 1] /\ N[i + 1] = M[i] /\ M[(i - 1) + 1] = nxt[M[i - 1]] /\ nxt[M[i - 1]] # h
        BY <2>1, <2>3, <3>1, <4>1
      <4> QED
        BY <4>1, <4>2
    <3> QED
      BY <3>2, <3>3
  <2>6. Len(N) >= 1
    BY <2>1, <2>3
  <2>7. IsTour(nxt, L, x, h, N)
    BY <2>1, <2>3, <2>4, <2>5, <2>6 DEF IsTour
  <2> QED
    BY <2>7 DEF N
<1>3. Closed(nxt, B)
  <2> SUFFICES ASSUME NEW x \in L, nxt[x] \notin B PROVE \E M : IsTour(nxt, L, x, h, M)
    BY DEF Closed
  <2>1. CASE nxt[x] = h
    BY <1>1, <2>1
  <2>2. CASE nxt[x] # h
    <3>1. nxt[x] \in L
      BY DEF IsRing, Closed
    <3>2. \E M : IsTour(nxt, L, nxt[x], h, M)
      BY <3>1
    <3> QED
      BY <1>2, <2>2, <3>2
  <2> QED
    BY <2>1, <2>2
<1>4. PICK x \in L : nxt[x] = h
  BY RingPred
<1>5. x \notin B
  BY <1>1, <1>4
<1>6. B = {}
  <2>1. B \in SUBSET L
    OBVIOUS
  <2> HIDE DEF B
  <2> QED
    BY <1>3, <1>4, <1>5, <2>1 DEF IsRing
<1> QED
  BY <1>6

\* The tour from h meets every node of the ring, and each once.
LEMMA TourIsRing ==
  ASSUME NEW nxt, NEW L, IsRing(nxt, L), NEW h \in L, NEW M, IsTour(nxt, L, h, h, M)
  PROVE  /\ ToSet(M) = L
         /\ \A i, j \in 1 .. Len(M) : M[i] = M[j] => i = j
         /\ Len(M) \in Nat /\ Len(M) <= Cardinality(Node)
<1>1. /\ M \in Seq(L) /\ Len(M) \in Nat /\ Len(M) >= 1 /\ M[1] = h /\ nxt[M[Len(M)]] = h
      /\ \A i \in 1 .. Len(M) - 1 : M[i + 1] = nxt[M[i]] /\ nxt[M[i]] # h
      /\ DOMAIN M = 1 .. Len(M) /\ \A i \in 1 .. Len(M) : M[i] \in L
  BY DEF IsTour
<1>2. ToSet(M) = L
  <2>1. ToSet(M) \in SUBSET L
    BY <1>1 DEF ToSet
  <2>2. ASSUME NEW i \in 1 .. Len(M) PROVE nxt[M[i]] \in ToSet(M)
    <3>1. CASE i = Len(M)
      <4>1. 1 \in 1 .. Len(M)
        BY <1>1
      <4> QED
        BY <1>1, <3>1, <4>1 DEF ToSet
    <3>2. CASE i # Len(M)
      <4>1. i \in 1 .. Len(M) - 1 /\ i + 1 \in 1 .. Len(M)
        <5>1. Len(M) \in Nat
          BY <1>1
        <5> QED
          BY <3>2, <5>1
      <4> QED
        BY <1>1, <4>1 DEF ToSet
    <3> QED
      BY <3>1, <3>2
  <2>3. Closed(nxt, ToSet(M))
    BY <1>1, <2>2 DEF Closed, ToSet
  <2>4. ToSet(M) # {}
    <3>1. 1 \in 1 .. Len(M)
      BY <1>1
    <3> QED
      BY <1>1, <3>1 DEF ToSet
  <2> QED
    BY <2>1, <2>3, <2>4 DEF IsRing
<1>3. ASSUME NEW i \in 1 .. Len(M), NEW j \in 1 .. Len(M), i < j, M[i] = M[j] PROVE FALSE
  <2> DEFINE Y == {M[k] : k \in i .. j - 1}
  <2>1. /\ i \in Nat /\ j \in Nat /\ i \in i .. j - 1 /\ j - 1 \in Nat
        /\ \A k \in i .. j - 1 : k \in 1 .. Len(M) - 1 /\ k \in 1 .. Len(M) /\ (k # j - 1 => k + 1 \in i .. j - 1)
        /\ (j - 1) + 1 = j
    BY <1>1, <1>3
  <2>2. \A k \in i .. j - 1 : nxt[M[k]] \in Y /\ nxt[M[k]] # h
    <3> SUFFICES ASSUME NEW k \in i .. j - 1 PROVE nxt[M[k]] \in Y /\ nxt[M[k]] # h
      OBVIOUS
    <3>1. M[k + 1] = nxt[M[k]] /\ nxt[M[k]] # h
      BY <1>1, <2>1
    <3>2. CASE k = j - 1
      BY <1>3, <2>1, <3>1, <3>2
    <3>3. CASE k # j - 1
      BY <2>1, <3>1, <3>3
    <3> QED
      BY <3>2, <3>3
  <2>3. Y \in SUBSET L /\ Y # {} /\ Closed(nxt, Y) /\ \A y \in Y : nxt[y] # h
    <3>1. \A y \in Y : \E k \in i .. j - 1 : y = M[k]
      OBVIOUS
    <3>2. M[i] \in Y
      BY <2>1
    <3>3. \A k \in i .. j - 1 : M[k] \in L
      BY <1>1, <2>1
    <3> HIDE DEF Y
    <3>4. Y \in SUBSET L
      BY <3>1, <3>3, Zenon
    <3>5. \A y \in Y : nxt[y] \in Y /\ nxt[y] # h
      BY <3>1, <2>2, Zenon
    <3> QED
      BY <3>2, <3>4, <3>5 DEF Closed
  <2> HIDE DEF Y
  <2>4. Y = L
    BY <2>3 DEF IsRing
  <2> QED
    BY <2>3, <2>4, RingPred
<1>4. \A i, j \in 1 .. Len(M) : M[i] = M[j] => i = j
  <2> SUFFICES ASSUME NEW i \in 1 .. Len(M), NEW j \in 1 .. Len(M), M[i] = M[j], i # j PROVE FALSE
    OBVIOUS
  <2>1. i < j \/ j < i
    BY <1>1
  <2> QED
    BY <1>3, <2>1
<1>5. Len(M) <= Cardinality(Node)
  <2> DEFINE S == 1 .. Len(M)
             f == [i \in S |-> M[i]]
  <2>1. f \in Injection(S, Node)
    BY <1>1, <1>4 DEF Injection, IsInjective, IsRing
  <2>2. Cardinality(S) <= Cardinality(Node)
    <3> HIDE DEF f, S
    <3> QED
      BY <2>1, NodeFacts, FS_Injection
  <2>3. Cardinality(S) = Len(M)
    <3>1. Cardinality(1 .. Len(M)) = IF 1 > Len(M) THEN 0 ELSE Len(M) - 1 + 1
      BY <1>1, FS_Interval
    <3> QED
      BY <1>1, <3>1
  <2> HIDE DEF S
  <2> QED
    BY <2>2, <2>3
<1> QED
  BY <1>1, <1>2, <1>4, <1>5


(***************************************************************************)
(* The walk of the child is a tour.                                        *)
(***************************************************************************)

\* The walk from h, as a function of the number of steps.
Walks(nxt, h, f) ==
  f = [k \in 0 .. Cardinality(Node) |->
         IF k = 0 THEN <<h>>
         ELSE IF nxt[Last(f[k - 1])] = h THEN f[k - 1]
              ELSE Append(f[k - 1], nxt[Last(f[k - 1])])]

\* After k steps it has the first k + 1 nodes of the tour.
Beginnings(M) ==
  [k \in 0 .. Cardinality(Node) |-> IF k < Len(M) THEN SubSeq(M, 1, k + 1) ELSE M]

\* One step adds the next node of the tour, or nothing at its end.
LEMMA BeginningStep ==
  ASSUME NEW nxt, NEW L, NEW h, NEW M, IsTour(nxt, L, h, h, M), NEW k \in 1 .. Cardinality(Node)
  PROVE  /\ k \in 0 .. Cardinality(Node) /\ k - 1 \in 0 .. Cardinality(Node)
         /\ Beginnings(M)[k] =
              IF nxt[Last(Beginnings(M)[k - 1])] = h THEN Beginnings(M)[k - 1]
              ELSE Append(Beginnings(M)[k - 1], nxt[Last(Beginnings(M)[k - 1])])
<1>1. /\ M \in Seq(L) /\ Len(M) \in Nat /\ Len(M) >= 1
      /\ nxt[M[Len(M)]] = h
      /\ \A i \in 1 .. Len(M) - 1 : M[i + 1] = nxt[M[i]] /\ nxt[M[i]] # h
  BY DEF IsTour
<1>2. Cardinality(Node) \in Nat
  BY NodeFacts
<1>3. k \in 0 .. Cardinality(Node) /\ k - 1 \in 0 .. Cardinality(Node) /\ k \in Nat /\ k >= 1
  BY <1>2
<1>4. Beginnings(M)[k] = IF k < Len(M) THEN SubSeq(M, 1, k + 1) ELSE M
  BY <1>3 DEF Beginnings
<1>5. Beginnings(M)[k - 1] = IF k - 1 < Len(M) THEN SubSeq(M, 1, k) ELSE M
  BY <1>3 DEF Beginnings
<1>6. CASE k < Len(M)
  <2>1. Beginnings(M)[k] = SubSeq(M, 1, k + 1) /\ Beginnings(M)[k - 1] = SubSeq(M, 1, k)
    BY <1>1, <1>3, <1>4, <1>5, <1>6
  <2>2. Len(SubSeq(M, 1, k)) = k /\ SubSeq(M, 1, k)[k] = M[k]
    BY <1>1, <1>3, <1>6
  <2>3. k \in 1 .. Len(M) - 1
    BY <1>1, <1>3, <1>6
  <2>4. M[k + 1] = nxt[M[k]] /\ nxt[M[k]] # h
    BY <1>1, <2>3
  <2>5. SubSeq(M, 1, k + 1) = Append(SubSeq(M, 1, k), M[k + 1])
    BY <1>1, <1>3, <1>6
  <2> QED
    BY <1>3, <2>1, <2>2, <2>4, <2>5 DEF Last
<1>7. CASE k = Len(M)
  <2>1. Beginnings(M)[k] = M /\ Beginnings(M)[k - 1] = SubSeq(M, 1, k)
    BY <1>1, <1>3, <1>4, <1>5, <1>7
  <2>2. SubSeq(M, 1, k) = M
    BY <1>1, <1>7
  <2> QED
    BY <1>1, <1>3, <2>1, <2>2 DEF Last
<1>8. CASE k > Len(M)
  <2>1. Beginnings(M)[k] = M /\ Beginnings(M)[k - 1] = M
    BY <1>1, <1>3, <1>4, <1>5, <1>8
  <2> QED
    BY <1>1, <1>3, <2>1 DEF Last
<1> QED
  BY <1>1, <1>3, <1>6, <1>7, <1>8

\* Walk comes back to alloc_list, and returns the tour.
LEMMA WalkIsTour ==
  ASSUME NEW L, IsRing(next, L), alloc_list \in L, NEW M, IsTour(next, L, alloc_list, alloc_list, M)
  PROVE  Walk = M
<1> DEFINE N == Cardinality(Node)
           d == alloc_list
<1>1. /\ M \in Seq(L) /\ Len(M) \in Nat /\ Len(M) >= 1 /\ M[1] = d
  BY DEF IsTour
<1>2. N \in Nat /\ Len(M) <= N /\ 0 \in 0 .. N /\ N \in 0 .. N
  <2>1. N \in Nat /\ Len(M) <= N
    BY TourIsRing, NodeFacts
  <2> HIDE DEF N
  <2> QED
    BY <2>1
<1>3. Beginnings(M)[0] = <<d>>
  <2>1. Beginnings(M)[0] = SubSeq(M, 1, 1)
    BY <1>1, <1>2 DEF Beginnings
  <2>2. SubSeq(M, 1, 1) = <<M[1]>>
    <3>1. /\ SubSeq(M, 1, 1) \in Seq(L) /\ Len(SubSeq(M, 1, 1)) = 1
          /\ SubSeq(M, 1, 1)[1] = M[1]
      BY <1>1
    <3>2. \A s \in Seq(L) : Len(s) = 1 => s = <<s[1]>>
      OBVIOUS
    <3> QED
      BY <3>1, <3>2
  <2> QED
    BY <1>1, <2>1, <2>2
<1>4. Walks(next, d, Beginnings(M))
  <2> DEFINE g == Beginnings(M)
             h == [k \in 0 .. N |->
                     IF k = 0 THEN <<d>>
                     ELSE IF next[Last(g[k - 1])] = d THEN g[k - 1]
                          ELSE Append(g[k - 1], next[Last(g[k - 1])])]
  <2>1. \A k \in 0 .. N : g[k] = h[k]
    <3> SUFFICES ASSUME NEW k \in 0 .. N PROVE g[k] = h[k]
      OBVIOUS
    <3>1. CASE k = 0
      BY <1>3, <3>1
    <3>2. CASE k # 0
      <4>1. k \in 1 .. N
        BY <1>2, <3>2
      <4> QED
        BY <3>2, <4>1, BeginningStep
    <3> QED
      BY <3>1, <3>2
  <2>2. g = [k \in 0 .. N |-> g[k]]
    BY DEF Beginnings
  <2>3. g = h
    <3> HIDE DEF g, h
    <3>1. h = [k \in 0 .. N |-> h[k]]
      BY DEF h
    <3> QED
      BY <2>1, <2>2, <3>1
  <2> QED
    BY <2>3 DEF Walks
<1>5. ASSUME NEW f, Walks(next, d, f) PROVE f[N] = Beginnings(M)[N]
  <2>1. /\ f[0] = <<d>>
        /\ \A k \in 1 .. N : f[k] = IF next[Last(f[k - 1])] = d THEN f[k - 1]
                                    ELSE Append(f[k - 1], next[Last(f[k - 1])])
    <3>1. \A k \in 1 .. N : k \in 0 .. N /\ k # 0
      BY <1>2
    <3>2. \A k \in 0 .. N : f[k] = IF k = 0 THEN <<d>>
                                   ELSE IF next[Last(f[k - 1])] = d THEN f[k - 1]
                                        ELSE Append(f[k - 1], next[Last(f[k - 1])])
      BY <1>5 DEF Walks
    <3> QED
      BY <1>2, <3>1, <3>2
  <2> DEFINE bad == {k \in 0 .. N : f[k] # Beginnings(M)[k]}
  <2>2. bad = {}
    <3> SUFFICES ASSUME bad # {} PROVE FALSE
      OBVIOUS
    <3>1. PICK k \in bad : \A j \in bad : k <= j
      <4>1. bad \in SUBSET Nat
        BY <1>2
      <4> HIDE DEF bad
      <4> QED
        BY <4>1, LeastNat
    <3>2. k \in 0 .. N /\ k # 0 /\ f[k] # Beginnings(M)[k]
      BY <1>3, <2>1, <3>1
    <3>3. k \in 1 .. N /\ k - 1 \in 0 .. N /\ ~(k <= k - 1)
      BY <1>2, <3>2
    <3>4. f[k - 1] = Beginnings(M)[k - 1]
      BY <3>1, <3>3
    <3> QED
      BY <2>1, <3>2, <3>3, <3>4, BeginningStep
  <2> QED
    BY <1>2, <2>2
<1>6. Walk = (CHOOSE f : Walks(next, d, f))[N]
  BY DEF Walk, Walks
<1>7. Walks(next, d, CHOOSE f : Walks(next, d, f))
  BY <1>4
<1>8. Beginnings(M)[N] = M
  <2>1. Beginnings(M)[N] = IF N < Len(M) THEN SubSeq(M, 1, N + 1) ELSE M
    BY <1>2 DEF Beginnings
  <2> HIDE DEF N
  <2> QED
    BY <1>1, <1>2, <2>1
<1> QED
  BY <1>5, <1>6, <1>7, <1>8

\* What the walks of the code meet: the whole ring, in its order.
LEMMA WalkIsRing ==
  ASSUME NEW L, IsRing(next, L), alloc_list \in L
  PROVE  /\ Walk \in Seq(L) /\ ToSet(Walk) = L
         /\ Len(Walk) \in Nat /\ Len(Walk) >= 1 /\ Len(Walk) <= Cardinality(Node)
         /\ Walk[1] = alloc_list
         /\ \A i \in 1 .. Len(Walk) - 1 : Walk[i + 1] = next[Walk[i]] /\ next[Walk[i]] # alloc_list
<1>1. PICK M : IsTour(next, L, alloc_list, alloc_list, M)
  BY TourExists
<1>2. Walk = M
  BY <1>1, WalkIsTour
<1>3. ToSet(M) = L /\ Len(M) \in Nat /\ Len(M) <= Cardinality(Node)
  BY <1>1, TourIsRing
<1> QED
  BY <1>1, <1>2, <1>3 DEF IsTour

(***************************************************************************)
(* What the invariant says of a state.                                     *)
(***************************************************************************)

\* Who is inserting is alone, and the ring has the listed nodes and his.
LEMMA RingFacts ==
  ASSUME IndInv
  PROVE  /\ listed \subseteq Node /\ listed \subseteq Ring /\ Ring \subseteq Mapped /\ Mapped \subseteq Used
         /\ (\A b \in Allocator : pc[b] \notin Linked) => Ring = listed
         /\ \A a \in Allocator : pc[a] \in Linked => Ring = listed \cup {meta[a]}
         /\ \A a, b \in Allocator : pc[a] \in Inserting /\ pc[b] \in Inserting => a = b
         /\ list_lock = NULL => \A b \in Allocator : pc[b] \notin Inserting
<1>1. listed \subseteq Node
  BY DEF IndInv, TypeOK
<1>2. \A a, b \in Allocator : pc[a] \in Inserting /\ pc[b] \in Inserting => a = b
  BY DEF IndInv, LockInv
<1>3. list_lock = NULL => \A b \in Allocator : pc[b] \notin Inserting
  BY NamesAssumption DEF IndInv, LockInv
<1>4. \A a \in Allocator : pc[a] \in Linked => meta[a] \in Node /\ pc[a] \in Inserting
  BY DEF IndInv, NodeInv, NodeOf, Linked, Inserting
<1>5. listed \subseteq Ring /\ Ring \subseteq Mapped /\ Mapped \subseteq Used
  <2>1. Ring \subseteq Mapped
    BY DEF Ring, Mapped, Linked, Inserting
  <2>2. Mapped \subseteq Used
    BY DEF Used, Mapped, Inserting
  <2> QED
    BY <1>1, <2>1, <2>2 DEF Ring
<1>6. (\A b \in Allocator : pc[b] \notin Linked) => Ring = listed
  BY <1>1 DEF Ring
<1>7. \A a \in Allocator : pc[a] \in Linked => Ring = listed \cup {meta[a]}
  BY <1>1, <1>2, <1>4 DEF Ring
<1> QED
  BY <1>1, <1>2, <1>3, <1>5, <1>6, <1>7

\* A mapping has a place in the address space,
LEMMA Bounds ==
  ASSUME IndInv, NEW m \in Mapped
  PROVE  /\ addr[m] \in Nat /\ length[m] \in Nat /\ HIGH_ADDR(m) \in Nat
         /\ addr[m] \in Page /\ length[m] >= 1 /\ HIGH_ADDR(m) <= NPages /\ LOW_ADDR(m) < HIGH_ADDR(m)
         /\ \A q \in Page : (addr[m] <= q /\ q < HIGH_ADDR(m)) <=> page[q] = m
<1>1. MaxSize \in Nat /\ NPages \in Nat
  BY RangesAssumption
<1>2. m \in Node /\ length[m] \in Nat
  BY <1>1 DEF IndInv, TypeOK, Mapped
<1>3. addr[m] \in Page /\ length[m] >= 1 /\ addr[m] + length[m] <= NPages
  BY DEF IndInv, MapInv, HasPages
<1>4. addr[m] \in Nat
  BY <1>3, NodeFacts
<1>5. \A q \in Page : (addr[m] <= q /\ q < addr[m] + length[m]) <=> page[q] = m
  BY DEF IndInv, MapInv, HasPages
<1> QED
  BY <1>2, <1>3, <1>4, <1>5 DEF HIGH_ADDR, LOW_ADDR

\* and two mappings have two: one of them ends before the other begins.
LEMMA Disjoint ==
  ASSUME IndInv, NEW m \in Mapped, NEW n \in Mapped, m # n
  PROVE  HIGH_ADDR(m) <= LOW_ADDR(n) \/ HIGH_ADDR(n) <= LOW_ADDR(m)
<1>1. /\ addr[m] \in Nat /\ addr[n] \in Nat /\ HIGH_ADDR(m) \in Nat /\ HIGH_ADDR(n) \in Nat
      /\ addr[m] < HIGH_ADDR(m) /\ addr[n] < HIGH_ADDR(n)
      /\ addr[m] \in Page /\ addr[n] \in Page
  BY Bounds DEF LOW_ADDR
<1>2. CASE addr[m] <= addr[n]
  <2>1. ~(addr[n] < HIGH_ADDR(m))
    <3> SUFFICES ASSUME addr[n] < HIGH_ADDR(m) PROVE FALSE
      OBVIOUS
    <3>1. page[addr[n]] = m
      BY <1>1, <1>2, Bounds
    <3>2. page[addr[n]] = n
      <4>1. addr[n] <= addr[n]
        BY <1>1
      <4> QED
        BY <1>1, <4>1, Bounds
    <3> QED
      BY <3>1, <3>2
  <2> QED
    BY <1>1, <2>1 DEF LOW_ADDR
<1>3. CASE addr[n] <= addr[m]
  <2>1. ~(addr[m] < HIGH_ADDR(n))
    <3> SUFFICES ASSUME addr[m] < HIGH_ADDR(n) PROVE FALSE
      OBVIOUS
    <3>1. page[addr[m]] = n
      BY <1>1, <1>3, Bounds
    <3>2. page[addr[m]] = m
      <4>1. addr[m] <= addr[m]
        BY <1>1
      <4> QED
        BY <1>1, <4>1, Bounds
    <3> QED
      BY <3>1, <3>2
  <2> QED
    BY <1>1, <2>1 DEF LOW_ADDR
<1> QED
  BY <1>1, <1>2, <1>3

\* While no node is half inserted, the list can be followed back,
LEMMA BackLinks ==
  ASSUME IndInv, \A b \in Allocator : pc[b] \notin Linked
  PROVE  /\ Ring = listed /\ IsRing(next, listed)
         /\ \A x \in listed : next[x] \in listed /\ prev[next[x]] = x
         /\ \A c \in listed : prev[c] \in listed /\ next[prev[c]] = c
         /\ \A x, c \in listed : next[x] = c => x = prev[c]
         /\ \A x \in listed : next[x] = alloc_list \/ HIGH_ADDR(x) <= LOW_ADDR(next[x])
<1>1. Ring = listed
  BY RingFacts
<1>2. IsRing(next, listed)
  BY <1>1 DEF IndInv, RingInv
<1>3. \A x \in listed : next[x] \in listed /\ prev[next[x]] = x
  BY <1>1, <1>2 DEF IndInv, RingInv, IsRing, Closed, Linked
<1>4. \A c \in listed : prev[c] \in listed /\ next[prev[c]] = c
  <2> TAKE c \in listed
  <2>1. PICK x \in listed : next[x] = c
    BY <1>2, RingPred
  <2> QED
    BY <1>3, <2>1
<1>5. \A x \in listed : next[x] = alloc_list \/ HIGH_ADDR(x) <= LOW_ADDR(next[x])
  BY <1>1 DEF IndInv, SortInv
<1> QED
  BY <1>1, <1>2, <1>3, <1>4, <1>5

\* and alloc_list is its lowest node.
LEMMA HeadLowest ==
  ASSUME IndInv, \A b \in Allocator : pc[b] \notin Linked
  PROVE  /\ prev[alloc_list] \in listed
         /\ \A x \in listed : LOW_ADDR(alloc_list) <= LOW_ADDR(x)
<1> DEFINE C == {x \in listed : LOW_ADDR(alloc_list) <= LOW_ADDR(x)}
<1>1. alloc_list \in listed
  BY DEF IndInv, RingInv
<1>2. \A x \in listed : LOW_ADDR(x) \in Nat /\ HIGH_ADDR(x) \in Nat /\ LOW_ADDR(x) < HIGH_ADDR(x)
  BY RingFacts, Bounds DEF LOW_ADDR
<1>3. alloc_list \in C
  BY <1>1, <1>2
<1>4. \A x \in C : next[x] \in C
  <2> SUFFICES ASSUME NEW x \in C PROVE next[x] \in C
    OBVIOUS
  <2>1. next[x] \in listed /\ (next[x] = alloc_list \/ HIGH_ADDR(x) <= LOW_ADDR(next[x]))
    BY BackLinks
  <2>2. CASE next[x] = alloc_list
    BY <1>3, <2>2
  <2>3. CASE HIGH_ADDR(x) <= LOW_ADDR(next[x])
    BY <1>1, <1>2, <2>1, <2>3
  <2> QED
    BY <2>1, <2>2, <2>3
<1>5. C \in SUBSET listed
  OBVIOUS
<1> HIDE DEF C
<1>6. C = listed
  BY <1>3, <1>4, <1>5, BackLinks DEF IsRing, Closed
<1> QED
  BY <1>1, <1>6, BackLinks DEF C

\* The least of a set of natural numbers is what Min returns.
LEMMA MinIsLeast ==
  ASSUME NEW T \in SUBSET Nat, T # {}
  PROVE  Min(T) \in T /\ \A k \in T : Min(T) <= k
BY LeastNat DEF Min

\* metadata_do_insert finds the place: what is before it ends below the new mapping,
\* and what is behind it begins above, but at the two ends of the list.
LEMMA PlaceIsRight ==
  ASSUME IndInv, \A b \in Allocator : pc[b] \notin Linked, NEW m \in Mapped \ listed
  PROVE  LET c == PlaceFor(m)
             first == c = alloc_list /\ LOW_ADDR(m) < LOW_ADDR(alloc_list)
         IN  /\ c \in listed
             /\ c # alloc_list \/ first => HIGH_ADDR(m) <= LOW_ADDR(c)
             /\ ~first => HIGH_ADDR(prev[c]) <= LOW_ADDR(m)
<1> DEFINE c == PlaceFor(m)
           t == prev[alloc_list]
           T == {i \in DOMAIN Walk : LOW_ADDR(Walk[i]) >= HIGH_ADDR(m)}
<1>1. alloc_list \in listed /\ t \in listed
  BY HeadLowest DEF IndInv, RingInv
<1>2. \A x \in Mapped : LOW_ADDR(x) \in Nat /\ HIGH_ADDR(x) \in Nat /\ LOW_ADDR(x) < HIGH_ADDR(x)
  BY Bounds DEF LOW_ADDR
<1>3. \A x \in listed : x \in Mapped /\ x # m
  BY RingFacts
<1>4. \A x \in listed : HIGH_ADDR(m) <= LOW_ADDR(x) \/ HIGH_ADDR(x) <= LOW_ADDR(m)
  BY <1>3, Disjoint
<1>5. \A x \in listed : LOW_ADDR(alloc_list) <= LOW_ADDR(x)
  BY HeadLowest
<1>6. CASE HIGH_ADDR(t) <= LOW_ADDR(m)
  <2>1. c = alloc_list
    BY <1>6 DEF PlaceFor
  <2>2. ~(LOW_ADDR(m) < LOW_ADDR(alloc_list))
    <3>1. LOW_ADDR(alloc_list) <= LOW_ADDR(t) /\ LOW_ADDR(t) < HIGH_ADDR(t)
      BY <1>1, <1>2, <1>3, <1>5
    <3>2. LOW_ADDR(alloc_list) \in Nat /\ LOW_ADDR(t) \in Nat /\ HIGH_ADDR(t) \in Nat /\ LOW_ADDR(m) \in Nat
      BY <1>1, <1>2, <1>3
    <3> QED
      BY <1>6, <3>1, <3>2
  <2> QED
    BY <1>1, <1>6, <2>1, <2>2
<1>7. CASE ~(HIGH_ADDR(t) <= LOW_ADDR(m))
  <2>1. c = Walk[Min(T)]
    BY <1>7 DEF PlaceFor
  <2>2. /\ Walk \in Seq(listed) /\ ToSet(Walk) = listed /\ Len(Walk) \in Nat /\ Len(Walk) >= 1
        /\ Walk[1] = alloc_list
        /\ \A i \in 1 .. Len(Walk) - 1 : Walk[i + 1] = next[Walk[i]] /\ next[Walk[i]] # alloc_list
    BY <1>1, BackLinks, WalkIsRing
  <2>3. DOMAIN Walk = 1 .. Len(Walk) /\ \A i \in 1 .. Len(Walk) : Walk[i] \in listed
    BY <2>2
  <2>4. T \in SUBSET Nat /\ T # {}
    <3>1. LOW_ADDR(t) >= HIGH_ADDR(m)
      BY <1>1, <1>2, <1>4, <1>7, <1>3
    <3>2. PICK i \in DOMAIN Walk : Walk[i] = t
      BY <1>1, <2>2 DEF ToSet
    <3>3. i \in T
      BY <3>1, <3>2
    <3>4. \A j \in T : j \in Nat
      BY <2>3
    <3> QED
      BY <3>3, <3>4
  <2>5. PICK k : k = Min(T)
    OBVIOUS
  <2>6. k \in 1 .. Len(Walk) /\ LOW_ADDR(Walk[k]) >= HIGH_ADDR(m) /\ \A j \in T : k <= j
    <3>1. Min(T) \in T /\ \A j \in T : Min(T) <= j
      <4> HIDE DEF T
      <4> QED
        BY <2>4, MinIsLeast
    <3>2. k \in T /\ \A j \in T : k <= j
      BY <2>5, <3>1
    <3> QED
      BY <2>3, <3>2
  <2>7. c = Walk[k] /\ c \in listed /\ HIGH_ADDR(m) <= LOW_ADDR(c)
    <3>1. c = Walk[k] /\ Walk[k] \in listed
      BY <2>1, <2>3, <2>5, <2>6
    <3>2. LOW_ADDR(Walk[k]) \in Nat /\ HIGH_ADDR(m) \in Nat
      BY <1>2, <1>3, <3>1
    <3>3. HIGH_ADDR(m) <= LOW_ADDR(Walk[k])
      BY <2>6, <3>2
    <3> QED
      BY <3>1, <3>3
  <2>8. CASE k = 1
    <3>1. c = alloc_list
      BY <2>2, <2>7, <2>8
    <3>2. LOW_ADDR(m) < LOW_ADDR(alloc_list)
      <4>1. LOW_ADDR(m) < HIGH_ADDR(m) /\ HIGH_ADDR(m) <= LOW_ADDR(alloc_list)
        BY <1>2, <2>7, <3>1
      <4>2. LOW_ADDR(m) \in Nat /\ HIGH_ADDR(m) \in Nat /\ LOW_ADDR(alloc_list) \in Nat
        BY <1>1, <1>2, <1>3
      <4> QED
        BY <4>1, <4>2
    <3> QED
      BY <2>7, <3>1, <3>2
  <2>9. CASE k # 1
    <3>1. k - 1 \in 1 .. Len(Walk) - 1 /\ k - 1 \in 1 .. Len(Walk) /\ (k - 1) + 1 = k /\ ~(k <= k - 1)
      <4>1. k \in 1 .. Len(Walk) /\ Len(Walk) \in Nat
        BY <2>2, <2>6
      <4> QED
        BY <2>9, <4>1
    <3>2. PICK p : p = Walk[k - 1]
      OBVIOUS
    <3>3. p \in listed /\ next[p] = c /\ c # alloc_list
      <4>1. Walk[(k - 1) + 1] = next[Walk[k - 1]] /\ next[Walk[k - 1]] # alloc_list
        BY <2>2, <3>1
      <4>2. Walk[k] = next[p] /\ next[p] # alloc_list
        BY <3>1, <3>2, <4>1
      <4>3. p \in listed
        BY <2>3, <3>1, <3>2
      <4> QED
        BY <2>7, <4>2, <4>3
    <3>4. p = prev[c]
      BY <2>7, <3>3, BackLinks
    <3>5. ~(LOW_ADDR(p) >= HIGH_ADDR(m))
      <4>1. k - 1 \notin T
        BY <2>6, <3>1
      <4> QED
        BY <2>3, <3>1, <3>2, <4>1
    <3>6. HIGH_ADDR(p) <= LOW_ADDR(m)
      <4>1. LOW_ADDR(p) \in Nat /\ HIGH_ADDR(m) \in Nat
        BY <1>2, <1>3, <3>3
      <4> QED
        BY <1>4, <3>3, <3>5, <4>1
    <3> QED
      BY <2>7, <3>3, <3>4, <3>6
  <2> QED
    BY <2>8, <2>9
<1> QED
  BY <1>6, <1>7

(***************************************************************************)
(* What the steps leave alone.                                             *)
(***************************************************************************)

\* A step outside of metadata_do_insert that does not touch the list, and no field of a
\* node whose mapping exists.
LEMMA ListFrame ==
  ASSUME IndInv, next' = next, prev' = prev, alloc_list' = alloc_list, listed' = listed,
         \A n \in Mapped : addr'[n] = addr[n] /\ length'[n] = length[n],
         \A b \in Allocator : pc'[b] \in Inserting <=> pc[b] \in Inserting,
         \A b \in Allocator : pc[b] \in Inserting =>
           pc'[b] = pc[b] /\ meta'[b] = meta[b] /\ curr'[b] = curr[b]
  PROVE  Ring' = Ring /\ RingInv' /\ SortInv'
<1>1. \A b \in Allocator : pc[b] \in Linked \/ pc'[b] \in Linked => pc[b] \in Inserting /\ pc'[b] \in Inserting
  BY DEF Linked, Inserting
<1>2. Ring' = Ring
  BY <1>1 DEF Ring
<1>3. \A b \in Allocator : pc'[b] \in Linked <=> pc[b] \in Linked
  BY <1>1
<1>4. "back" \in Inserting /\ "link" \in Inserting /\ "back" \in Linked
  BY DEF Inserting, Linked
<1>5. RingInv'
  <2>1. IsRing(next', Ring')
    BY <1>2 DEF IndInv, RingInv
  <2>2. alloc_list' \in listed' /\ \E m \in listed' : m[2] = 0
    BY DEF IndInv, RingInv
  <2>3. \A x \in Ring' : prev'[next'[x]] = x \/ \E a \in Allocator : pc'[a] = "back" /\ meta'[a] = x
    BY <1>2, <1>4 DEF IndInv, RingInv
  <2>4. \A a \in Allocator :
          /\ pc'[a] \in Inserting => curr'[a] \in listed' /\ next'[meta'[a]] = curr'[a]
          /\ pc'[a] = "link" => prev'[meta'[a]] = prev'[curr'[a]]
          /\ pc'[a] = "back" => prev'[curr'[a]] \in Node /\ next'[prev'[curr'[a]]] = meta'[a]
    BY <1>4 DEF IndInv, RingInv
  <2> QED
    BY <2>1, <2>2, <2>3, <2>4 DEF RingInv
<1>6. \A n \in Mapped : addr'[n] + length'[n] = addr[n] + length[n]
  OBVIOUS
<1>7. \A x \in Ring : x \in Mapped /\ next[x] \in Mapped
  BY RingFacts DEF IndInv, RingInv, IsRing, Closed
<1>8. alloc_list \in Mapped /\ \A a \in Allocator : pc[a] \in Inserting => meta[a] \in Mapped /\ curr[a] \in Mapped
  <2>1. alloc_list \in Mapped /\ \A a \in Allocator : pc[a] \in Inserting => curr[a] \in Mapped
    BY RingFacts DEF IndInv, RingInv
  <2>2. \A a \in Allocator : pc[a] \in Inserting => meta[a] \in Mapped
    BY DEF IndInv, NodeInv, NodeOf, Mapped, Inserting
  <2> QED
    BY <2>1, <2>2
<1>9. \A a \in Allocator : pc[a] = "link" => prev[curr[a]] \in Mapped
  <2> SUFFICES ASSUME NEW a \in Allocator, pc[a] = "link" PROVE prev[curr[a]] \in Mapped
    OBVIOUS
  <2>1. \A b \in Allocator : pc[b] \notin Linked
    BY RingFacts DEF Inserting, Linked
  <2>2. curr[a] \in listed
    BY <1>4 DEF IndInv, RingInv
  <2> QED
    BY <2>1, <2>2, BackLinks, RingFacts
<1>10. \A a \in Allocator : pc[a] \in Inserting => (GoesFirst(a)' <=> GoesFirst(a))
  BY <1>8 DEF GoesFirst, LOW_ADDR
<1>11. SortInv'
  <2>1. ASSUME NEW x \in Ring
        PROVE  \/ next'[x] = alloc_list'
               \/ HIGH_ADDR(x)' <= LOW_ADDR(next[x])'
               \/ \E a \in Allocator : pc'[a] \in Linked /\ next'[x] = meta'[a] /\ GoesFirst(a)'
    <3>1. CASE next[x] = alloc_list
      BY <3>1
    <3>2. CASE HIGH_ADDR(x) <= LOW_ADDR(next[x])
      BY <1>6, <1>7, <3>2 DEF HIGH_ADDR, LOW_ADDR
    <3>3. CASE \E a \in Allocator : pc[a] \in Linked /\ next[x] = meta[a] /\ GoesFirst(a)
      <4>1. PICK a \in Allocator : pc[a] \in Linked /\ next[x] = meta[a] /\ GoesFirst(a)
        BY <3>3
      <4> QED
        BY <1>1, <1>10, <4>1
    <3> QED
      BY <3>1, <3>2, <3>3 DEF IndInv, SortInv
  <2>2. ASSUME NEW a \in Allocator, pc'[a] \in Inserting
        PROVE  /\ curr'[a] # alloc_list' \/ GoesFirst(a)' => HIGH_ADDR(meta[a])' <= LOW_ADDR(curr[a])'
               /\ pc'[a] = "link" /\ ~GoesFirst(a)' => HIGH_ADDR(prev[curr[a]])' <= LOW_ADDR(meta[a])'
    <3>1. /\ pc[a] \in Inserting /\ pc'[a] = pc[a] /\ meta'[a] = meta[a] /\ curr'[a] = curr[a]
          /\ GoesFirst(a)' <=> GoesFirst(a)
      BY <2>2, <1>10
    <3>2. /\ curr[a] # alloc_list \/ GoesFirst(a) => HIGH_ADDR(meta[a]) <= LOW_ADDR(curr[a])
          /\ pc[a] = "link" /\ ~GoesFirst(a) => HIGH_ADDR(prev[curr[a]]) <= LOW_ADDR(meta[a])
      BY <3>1 DEF IndInv, SortInv
    <3>3. ASSUME curr'[a] # alloc_list' \/ GoesFirst(a)' PROVE HIGH_ADDR(meta[a])' <= LOW_ADDR(curr[a])'
      <4>1. HIGH_ADDR(meta[a]) <= LOW_ADDR(curr[a])
        BY <3>1, <3>2, <3>3
      <4> QED
        BY <1>6, <1>8, <3>1, <4>1 DEF HIGH_ADDR, LOW_ADDR
    <3>4. ASSUME pc'[a] = "link", ~GoesFirst(a)' PROVE HIGH_ADDR(prev[curr[a]])' <= LOW_ADDR(meta[a])'
      <4>1. HIGH_ADDR(prev[curr[a]]) <= LOW_ADDR(meta[a])
        BY <3>1, <3>2, <3>4
      <4> QED
        BY <1>6, <1>8, <1>9, <3>1, <3>4, <4>1 DEF HIGH_ADDR, LOW_ADDR
    <3> QED
      BY <3>3, <3>4
  <2> QED
    BY <1>2, <2>1, <2>2 DEF SortInv
<1> QED
  BY <1>2, <1>5, <1>11

\* A mapping that is not touched keeps its pages.
LEMMA KeepsPages ==
  ASSUME IndInv, NEW n \in Mapped, addr'[n] = addr[n], length'[n] = length[n],
         \A q \in Page : page[q] = n <=> page'[q] = n
  PROVE  HasPages(n)'
<1>1. HasPages(n)
  BY DEF IndInv, MapInv
<1> QED
  BY <1>1 DEF HasPages

\* Nor does anything change when the same mappings exist.
LEMMA MapFrame ==
  ASSUME IndInv, UNCHANGED <<page, addr, length>>, Mapped' = Mapped
  PROVE  MapInv'
<1>1. \A n \in Mapped : HasPages(n)'
  BY KeepsPages
<1>2. \A q \in Page : page'[q] \in Node => page'[q] \in Mapped'
  BY DEF IndInv, MapInv
<1> QED
  BY <1>1, <1>2 DEF MapInv

(***************************************************************************)
(* One lemma for each action.                                              *)
(***************************************************************************)

\* The first metadata page alone.
LEMMA InitInv == Init => IndInv
<1> SUFFICES ASSUME Init PROVE IndInv
  OBVIOUS
<1>1. PICK p \in Page :
        /\ page = [q \in Page |-> IF q = p THEN <<p, 0>> ELSE Nobody]
        /\ shared = {}
        /\ addr = [m \in Node |-> IF m = <<p, 0>> THEN p ELSE NULL]
        /\ length = [m \in Node |-> IF m = <<p, 0>> THEN 1 ELSE 0]
        /\ next = [m \in Node |-> IF m = <<p, 0>> THEN m ELSE NULL]
        /\ prev = [m \in Node |-> IF m = <<p, 0>> THEN m ELSE NULL]
        /\ alloc_list = <<p, 0>>
        /\ free_list = [i \in 1 .. NodesPerPage |-> <<p, NodesPerPage + 1 - i>>]
        /\ list_lock = NULL
        /\ pc = [a \in Allocator |-> "idle"]
        /\ meta = [a \in Allocator |-> NULL]
        /\ curr = [a \in Allocator |-> NULL]
        /\ listed = {<<p, 0>>}
  BY DEF Init
<1>2. NodesPerPage \in Nat \ {0} /\ MaxSize \in Nat \ {0} /\ NPages \in Nat \ {0} /\ p \in Nat /\ p + 1 <= NPages
  BY RangesAssumption DEF Page
<1>3. PICK m : m = <<p, 0>>
  OBVIOUS
<1>4. m \in Node /\ m[1] = p /\ m[2] = 0
  BY <1>2, <1>3, NodeFacts
<1>5. \A i \in 1 .. NodesPerPage :
        /\ <<p, NodesPerPage + 1 - i>> \in Node
        /\ <<p, NodesPerPage + 1 - i>>[1] = p
        /\ <<p, NodesPerPage + 1 - i>>[2] = NodesPerPage + 1 - i
  <2>1. \A i \in 1 .. NodesPerPage : NodesPerPage + 1 - i \in 0 .. NodesPerPage
    BY <1>2
  <2> QED
    BY <2>1, NodeFacts
<1>6. /\ free_list \in Seq(Node) /\ DOMAIN free_list = 1 .. NodesPerPage
      /\ \A i \in 1 .. NodesPerPage : free_list[i][1] = p /\ free_list[i][2] = NodesPerPage + 1 - i
  <2>1. free_list \in [1 .. NodesPerPage -> Node]
    BY <1>1, <1>5
  <2>2. \A i \in 1 .. NodesPerPage : free_list[i][1] = p /\ free_list[i][2] = NodesPerPage + 1 - i
    BY <1>1, <1>5
  <2> QED
    BY <1>2, <2>1, <2>2
<1>7. \A n \in ToSet(free_list) : n[1] = p /\ n[2] # 0
  <2>1. \A i \in 1 .. NodesPerPage : NodesPerPage + 1 - i # 0
    BY <1>2
  <2> QED
    BY <1>6, <2>1 DEF ToSet
<1>8. IsInjective(free_list)
  <2>1. \A i, j \in 1 .. NodesPerPage : NodesPerPage + 1 - i = NodesPerPage + 1 - j => i = j
    BY <1>2
  <2> QED
    BY <1>6, <2>1 DEF IsInjective
<1>9. TypeOK
  <2>1. page \in [Page -> {Nobody, User} \cup Node] /\ shared \subseteq Node /\ alloc_list \in Node /\ listed \subseteq Node
    BY <1>1, <1>3, <1>4
  <2>2. addr \in [Node -> Page \cup {NULL}] /\ next \in [Node -> Node \cup {NULL}] /\ prev \in [Node -> Node \cup {NULL}]
    BY <1>1, <1>4
  <2>3. length \in [Node -> 0 .. MaxSize]
    <3>1. 0 \in 0 .. MaxSize /\ 1 \in 0 .. MaxSize
      BY <1>2
    <3> QED
      BY <1>1, <3>1
  <2>4. pc \in [Allocator -> {"idle", "refill", "map", "insert", "link", "back", "head"}]
    BY <1>1
  <2> QED
    BY <1>1, <1>6, <2>1, <2>2, <2>3, <2>4 DEF TypeOK
<1>10. Ring = {m} /\ Mapped = {m} /\ \A n \in Used : n[1] = p
  <2>1. \A a \in Allocator : pc[a] = "idle"
    BY <1>1
  <2>2. Ring = {m} /\ Mapped = {m}
    BY <1>1, <1>3, <1>4, <2>1 DEF Ring, Mapped, Linked, Inserting
  <2>3. \A n \in Used : n[1] = p
    BY <1>1, <1>3, <1>4, <1>7, <2>1 DEF Used
  <2> QED
    BY <2>2, <2>3
<1>11. LockInv
  BY <1>1 DEF LockInv, Inserting
<1>12. NodeInv
  <2>1. \A n \in ToSet(free_list) : n \notin listed /\ n[2] # 0
    BY <1>1, <1>3, <1>4, <1>7
  <2>2. \A n \in Used : page[n[1]] = <<n[1], 0>>
    BY <1>1, <1>10
  <2>3. \A a \in Allocator : pc[a] = "idle" /\ pc[a] \notin Carrying
    BY <1>1 DEF Carrying, Inserting
  <2> QED
    BY <1>8, <2>1, <2>2, <2>3 DEF NodeInv, NodeOf
<1>13. MapInv
  <2>1. addr[m] = p /\ length[m] = 1 /\ page[p] = m
    BY <1>1, <1>3, <1>4
  <2>2. \A q \in Page : (p <= q /\ q < p + 1) <=> q = p
    BY <1>2, NodeFacts
  <2>3. \A q \in Page : page[q] = IF q = p THEN m ELSE Nobody
    BY <1>1, <1>3, <1>4
  <2>4. m \in Node /\ Nobody \notin Node
    BY <1>4, NamesAssumption
  <2>5. \A q \in Page : page[q] = m <=> q = p
    BY <2>3, <2>4
  <2>6. HasPages(m)
    BY <1>2, <2>1, <2>2, <2>5 DEF HasPages
  <2>7. \A q \in Page : page[q] \in Node => page[q] = m
    BY <2>3, <2>4
  <2> QED
    BY <1>10, <2>6, <2>7 DEF MapInv
<1>14. RingInv
  <2>1. next[m] = m /\ prev[m] = m /\ listed = {m} /\ alloc_list = m
    BY <1>1, <1>3, <1>4
  <2>2. IsRing(next, {m})
    BY <1>4, <2>1 DEF IsRing, Closed
  <2> QED
    BY <1>1, <1>4, <1>10, <2>1, <2>2 DEF RingInv, Inserting
<1>15. SortInv
  BY <1>1, <1>3, <1>4, <1>10 DEF SortInv, Inserting
<1> QED
  BY <1>9, <1>11, <1>12, <1>13, <1>14, <1>15 DEF IndInv

\* metadata_new takes the first free node.
LEMMA TakeNodeInv ==
  ASSUME IndInv, NEW a \in Allocator, TakeNode(a)
  PROVE  IndInv'
<1>1. /\ pc[a] = "idle" /\ list_lock = NULL /\ free_list # <<>>
      /\ meta' = [meta EXCEPT ![a] = Head(free_list)]
      /\ free_list' = Tail(free_list)
      /\ pc' = [pc EXCEPT ![a] = "map"]
      /\ UNCHANGED <<page, shared, addr, length, next, prev, alloc_list, list_lock, curr, listed>>
  BY DEF TakeNode, Goto, fields
<1>2. TypeOK
  BY DEF IndInv
<1>3. PICK h : h = Head(free_list)
  OBVIOUS
<1>4. /\ h \in Node /\ h \in ToSet(free_list) /\ free_list' \in Seq(Node)
      /\ \A n \in ToSet(free_list') : n \in ToSet(free_list) /\ n # h
      /\ IsInjective(free_list')
  <2>1. free_list \in Seq(Node) /\ Len(free_list) \in Nat /\ Len(free_list) >= 1 /\ IsInjective(free_list)
    BY <1>1, <1>2 DEF TypeOK, IndInv, NodeInv
  <2>2. h = free_list[1] /\ h \in Node /\ 1 \in DOMAIN free_list /\ DOMAIN free_list = 1 .. Len(free_list)
    BY <1>3, <2>1
  <2>3. /\ free_list' \in Seq(Node) /\ DOMAIN free_list' = 1 .. Len(free_list) - 1
        /\ \A i \in 1 .. Len(free_list) - 1 : free_list'[i] = free_list[i + 1]
    BY <1>1, <2>1
  <2>4. \A i \in 1 .. Len(free_list) - 1 : i + 1 \in 1 .. Len(free_list) /\ i + 1 # 1
    BY <2>1
  <2>5. \A i, j \in 1 .. Len(free_list) - 1 : i + 1 = j + 1 => i = j
    BY <2>1
  <2>6. IsInjective(free_list')
    <3> SUFFICES ASSUME NEW i \in 1 .. Len(free_list) - 1, NEW j \in 1 .. Len(free_list) - 1,
                        free_list'[i] = free_list'[j]
                 PROVE  i = j
      BY <2>3 DEF IsInjective
    <3>1. i + 1 \in DOMAIN free_list /\ j + 1 \in DOMAIN free_list /\ free_list[i + 1] = free_list[j + 1]
      BY <2>2, <2>3, <2>4
    <3>2. i + 1 = j + 1
      BY <2>1, <3>1, Zenon DEF IsInjective
    <3> QED
      BY <2>5, <3>2
  <2>7. \A n \in ToSet(free_list') : n \in ToSet(free_list) /\ n # h
    <3> SUFFICES ASSUME NEW n \in ToSet(free_list') PROVE n \in ToSet(free_list) /\ n # h
      OBVIOUS
    <3>1. PICK i \in 1 .. Len(free_list) - 1 : n = free_list'[i]
      BY <2>3 DEF ToSet
    <3>2. n = free_list[i + 1] /\ i + 1 \in DOMAIN free_list /\ i + 1 # 1
      BY <2>2, <2>3, <2>4, <3>1
    <3>3. free_list[i + 1] # free_list[1]
      BY <2>1, <2>2, <3>2, Zenon DEF IsInjective
    <3> QED
      BY <2>2, <3>2, <3>3 DEF ToSet
  <2>8. h \in ToSet(free_list)
    BY <2>2 DEF ToSet
  <2> QED
    BY <2>2, <2>3, <2>6, <2>7, <2>8
<1>5. /\ pc'[a] = "map" /\ meta'[a] = h
      /\ \A b \in Allocator : b # a => pc'[b] = pc[b] /\ meta'[b] = meta[b]
  BY <1>1, <1>2, <1>3 DEF TypeOK
<1>6. h \notin listed /\ h[2] # 0
  BY <1>4 DEF IndInv, NodeInv, NodeOf
<1>7. TypeOK'
  <2>1. pc' \in [Allocator -> {"idle", "refill", "map", "insert", "link", "back", "head"}]
    BY <1>1, <1>2 DEF TypeOK
  <2>2. meta' \in [Allocator -> Node \cup {NULL}]
    BY <1>1, <1>2, <1>3, <1>4 DEF TypeOK
  <2> QED
    BY <1>1, <1>2, <1>4, <2>1, <2>2 DEF TypeOK
<1>8. RingInv' /\ SortInv'
  <2>1. \A b \in Allocator : pc'[b] \in Inserting <=> pc[b] \in Inserting
    BY <1>1, <1>5 DEF Inserting
  <2>2. \A b \in Allocator : pc[b] \in Inserting =>
          pc'[b] = pc[b] /\ meta'[b] = meta[b] /\ curr'[b] = curr[b]
    BY <1>1, <1>5 DEF Inserting
  <2> QED
    BY <1>1, <2>1, <2>2, ListFrame
<1>9. Mapped' = Mapped /\ Used' \subseteq Used
  <2>1. Mapped' = Mapped
    BY <1>1, <1>5 DEF Mapped, Inserting
  <2>2. Used' \subseteq Used
    BY <1>1, <1>4, <1>5 DEF Used
  <2> QED
    BY <2>1, <2>2
<1>10. MapInv'
  BY <1>1, <1>9, MapFrame
<1>11. LockInv'
  BY <1>1, <1>5, NamesAssumption DEF IndInv, LockInv, Inserting
<1>12. NodeInv'
  <2>1. \A n \in ToSet(free_list') : n \notin listed' /\ n[2] # 0
    BY <1>1, <1>4 DEF IndInv, NodeInv, NodeOf
  <2>2. ASSUME NEW b \in Allocator
        PROVE  NodeOf(b)'
    <3>1. CASE b = a
      BY <1>1, <1>4, <1>5, <1>6, <3>1 DEF NodeOf
    <3>2. CASE b # a
      BY <1>1, <1>4, <1>5, <1>9, <3>2 DEF IndInv, NodeInv, NodeOf
    <3> QED
      BY <3>1, <3>2
  <2>3. \A b, c \in Allocator :
          pc'[b] \in Carrying /\ pc'[c] \in Carrying /\ meta'[b] = meta'[c] => b = c
    <3>1. \A b \in Allocator : b # a /\ pc'[b] \in Carrying => meta'[b] # h
      BY <1>4, <1>5 DEF IndInv, NodeInv, NodeOf
    <3>2. \A b, c \in Allocator :
            b # a /\ c # a /\ pc'[b] \in Carrying /\ pc'[c] \in Carrying /\ meta'[b] = meta'[c] => b = c
      BY <1>5 DEF IndInv, NodeInv, NodeOf
    <3> QED
      BY <1>5, <3>1, <3>2
  <2>4. \A n \in Used' : page'[n[1]] = <<n[1], 0>>
    BY <1>1, <1>9 DEF IndInv, NodeInv, NodeOf
  <2> QED
    BY <1>4, <2>1, <2>2, <2>3, <2>4 DEF NodeInv
<1> QED
  BY <1>7, <1>8, <1>10, <1>11, <1>12 DEF IndInv

\* metadata_new maps a page, of which nothing was in use.
LEMMA MapNodesInv ==
  ASSUME IndInv, NEW a \in Allocator, MapNodes(a)
  PROVE  IndInv'
<1>1. /\ pc[a] = "idle" /\ list_lock = NULL /\ list_lock' = a
      /\ pc' = [pc EXCEPT ![a] = "insert"]
      /\ UNCHANGED <<shared, next, prev, alloc_list, free_list, curr, listed>>
  BY DEF MapNodes, Goto, lists
<1>2. PICK p \in FreeAt(1) :
        /\ page' = [q \in Page |-> IF q \in Pages(p, p + 1) THEN <<p, 0>> ELSE page[q]]
        /\ addr' = [addr EXCEPT ![<<p, 0>>] = p]
        /\ length' = [length EXCEPT ![<<p, 0>>] = 1]
        /\ meta' = [meta EXCEPT ![a] = <<p, 0>>]
  BY DEF MapNodes, MapPages
<1>3. TypeOK
  BY DEF IndInv
<1>4. p \in Page /\ p \in Nat /\ p + 1 <= NPages /\ \A q \in Nat : q \in Pages(p, p + 1) <=> q = p
  <2>1. p \in Page /\ p + 1 <= NPages
    BY DEF FreeAt
  <2>2. p \in Nat
    BY <2>1, NodeFacts
  <2> QED
    BY <2>1, <2>2 DEF Pages
<1>5. page[p] = Nobody /\ \A q \in Page : page'[q] = IF q = p THEN <<p, 0>> ELSE page[q]
  <2>1. p \in Pages(p, p + 1)
    BY <1>4
  <2>2. page[p] = Nobody
    BY <2>1 DEF FreeAt
  <2> QED
    BY <1>2, <1>4, <2>2, NodeFacts
<1>6. PICK m : m = <<p, 0>>
  OBVIOUS
<1>7. m \in Node /\ m[1] = p /\ m[2] = 0
  <2>1. 0 \in 0 .. NodesPerPage
    BY RangesAssumption
  <2> QED
    BY <1>4, <1>6, <2>1, NodeFacts
<1>8. \A n \in Used : n[1] # p /\ n # m /\ n[1] \in Page /\ page[n[1]] = <<n[1], 0>>
  <2> SUFFICES ASSUME NEW n \in Used PROVE n[1] # p /\ n # m /\ n[1] \in Page /\ page[n[1]] = <<n[1], 0>>
    OBVIOUS
  <2>1. page[n[1]] = <<n[1], 0>> /\ n \in Node
    BY DEF IndInv, NodeInv, Used
  <2>2. n[1] \in Page /\ <<n[1], 0>> \in Node
    <3>1. 0 \in 0 .. NodesPerPage
      BY RangesAssumption
    <3> QED
      BY <2>1, <3>1, NodeFacts
  <2> QED
    BY <1>5, <1>7, <2>1, <2>2, NamesAssumption
<1>9. /\ pc'[a] = "insert" /\ meta'[a] = m
      /\ \A b \in Allocator : b # a => pc'[b] = pc[b] /\ meta'[b] = meta[b]
      /\ addr'[m] = p /\ length'[m] = 1
      /\ \A n \in Node : n # m => addr'[n] = addr[n] /\ length'[n] = length[n]
  BY <1>1, <1>2, <1>3, <1>6, <1>7 DEF TypeOK
<1>10. TypeOK'
  <2>1. pc' \in [Allocator -> {"idle", "refill", "map", "insert", "link", "back", "head"}]
    BY <1>1, <1>3 DEF TypeOK
  <2>2. meta' \in [Allocator -> Node \cup {NULL}]
    BY <1>2, <1>3, <1>6, <1>7 DEF TypeOK
  <2>3. addr' \in [Node -> Page \cup {NULL}]
    BY <1>2, <1>3, <1>4 DEF TypeOK
  <2>4. length' \in [Node -> 0 .. MaxSize]
    <3>1. 1 \in 0 .. MaxSize
      BY RangesAssumption
    <3> QED
      BY <1>2, <1>3, <3>1 DEF TypeOK
  <2>5. page' \in [Page -> {Nobody, User} \cup Node]
    BY <1>2, <1>3, <1>6, <1>7 DEF TypeOK
  <2> QED
    BY <1>1, <1>3, <2>1, <2>2, <2>3, <2>4, <2>5 DEF TypeOK
<1>11. Mapped' = Mapped \cup {m} /\ Used' = Used \cup {m}
  <2>1. Mapped' = Mapped \cup {m}
    BY <1>1, <1>7, <1>9 DEF Mapped, Inserting
  <2>2. Used' = Used \cup {m}
    BY <1>1, <1>7, <1>9 DEF Used
  <2> QED
    BY <2>1, <2>2
<1>12. \A n \in Mapped : n \in Node /\ n \in Used /\ n # m /\ addr'[n] = addr[n] /\ length'[n] = length[n]
  BY <1>8, <1>9, RingFacts DEF Used
<1>13. RingInv' /\ SortInv'
  <2>1. \A b \in Allocator : pc'[b] \in Inserting <=> pc[b] \in Inserting
    BY <1>1, <1>9 DEF Inserting
  <2>2. \A b \in Allocator : pc[b] \in Inserting =>
          pc'[b] = pc[b] /\ meta'[b] = meta[b] /\ curr'[b] = curr[b]
    BY <1>1, <1>9 DEF Inserting
  <2> QED
    BY <1>1, <1>12, <2>1, <2>2, ListFrame
<1>14. MapInv'
  <2>1. \A n \in Mapped : HasPages(n)'
    <3> TAKE n \in Mapped
    <3>1. n \in Node /\ addr'[n] = addr[n] /\ length'[n] = length[n]
      BY <1>12
    <3>2. \A q \in Page : page[q] = n <=> page'[q] = n
      BY <1>5, <1>6, <1>12, NamesAssumption
    <3> QED
      BY <3>1, <3>2, KeepsPages
  <2>2. HasPages(m)'
    <3>1. \A q \in Page : (p <= q /\ q < p + 1) <=> q = p
      BY <1>4, NodeFacts
    <3>2. \A q \in Page : page[q] # m
      <4>1. m \notin Mapped
        BY <1>12
      <4> QED
        BY <1>7, <4>1 DEF IndInv, MapInv
    <3>3. \A q \in Page : page'[q] = m <=> q = p
      BY <1>5, <1>6, <3>2
    <3> QED
      BY <1>4, <1>9, <3>1, <3>3 DEF HasPages
  <2>3. \A q \in Page : page'[q] \in Node => page'[q] \in Mapped'
    BY <1>5, <1>6, <1>11 DEF IndInv, MapInv
  <2> QED
    BY <1>11, <2>1, <2>2, <2>3 DEF MapInv
<1>15. LockInv'
  BY <1>1, <1>9, NamesAssumption DEF IndInv, LockInv
<1>16. NodeInv'
  <2>1. m \notin listed' /\ m \notin ToSet(free_list')
    BY <1>1, <1>7, <1>8 DEF Used
  <2>2. ASSUME NEW b \in Allocator PROVE NodeOf(b)'
    <3>1. CASE b = a
      <4>1. \A n \in Used' : n[1] = p => n[2] = 0
        BY <1>7, <1>8, <1>11
      <4> QED
        BY <1>7, <1>9, <2>1, <3>1, <4>1 DEF NodeOf
    <3>2. CASE b # a
      <4>1. pc[b] # "idle" => meta[b] \in Used
        BY DEF IndInv, NodeInv, NodeOf, Used
      <4>2. NodeOf(b)
        BY DEF IndInv, NodeInv
      <4>3. pc[b] # "idle" => meta[b][1] # p
        BY <1>8, <4>1
      <4> QED
        BY <1>1, <1>7, <1>9, <1>11, <3>2, <4>2, <4>3 DEF NodeOf
    <3> QED
      BY <3>1, <3>2
  <2>3. \A b, c \in Allocator :
          pc'[b] \in Carrying /\ pc'[c] \in Carrying /\ meta'[b] = meta'[c] => b = c
    <3>1. \A b \in Allocator : b # a /\ pc'[b] \in Carrying => meta'[b] # m
      BY <1>8, <1>9 DEF IndInv, NodeInv, NodeOf, Used, Carrying, Inserting
    <3>2. \A b, c \in Allocator :
            b # a /\ c # a /\ pc'[b] \in Carrying /\ pc'[c] \in Carrying /\ meta'[b] = meta'[c] => b = c
      BY <1>9 DEF IndInv, NodeInv
    <3> QED
      BY <1>9, <3>1, <3>2
  <2>4. \A n \in Used' : page'[n[1]] = <<n[1], 0>>
    BY <1>4, <1>5, <1>7, <1>8, <1>11
  <2> QED
    BY <1>1, <2>2, <2>3, <2>4 DEF NodeInv, IndInv
<1> QED
  BY <1>10, <1>13, <1>14, <1>15, <1>16 DEF IndInv

\* The nodes of the new page become free, but for the one that is taken.
LEMMA RefillInv ==
  ASSUME IndInv, NEW a \in Allocator, Refill(a)
  PROVE  IndInv'
<1>1. PICK p : p = meta[a][1]
  OBVIOUS
<1>2. /\ pc[a] = "refill" /\ list_lock' = NULL
      /\ meta' = [meta EXCEPT ![a] = <<p, NodesPerPage>>]
      /\ free_list' = [i \in 1 .. NodesPerPage - 1 |-> <<p, NodesPerPage - i>>]
      /\ pc' = [pc EXCEPT ![a] = "map"]
      /\ UNCHANGED <<page, shared, addr, length, next, prev, alloc_list, curr, listed>>
  BY <1>1 DEF Refill, Goto, fields
<1>3. TypeOK
  BY DEF IndInv
<1>4. NodesPerPage \in Nat \ {0}
  BY RangesAssumption
<1>5. /\ meta[a] \in Node /\ meta[a] \in listed /\ meta[a][2] = 0 /\ list_lock = a
      /\ \A n \in Used : n[1] = p => n[2] = 0
  BY <1>1, <1>2 DEF IndInv, NodeInv, NodeOf, LockInv
<1>6. p \in Page /\ page[p] = <<p, 0>>
  BY <1>1, <1>5, NodeFacts DEF IndInv, NodeInv, Used
<1>7. PICK t : t = <<p, NodesPerPage>>
  OBVIOUS
<1>8. t \in Node /\ t[1] = p /\ t[2] = NodesPerPage /\ t[2] # 0
  <2>1. NodesPerPage \in 0 .. NodesPerPage
    BY <1>4
  <2> QED
    BY <1>4, <1>6, <1>7, <2>1, NodeFacts
<1>9. /\ free_list' \in Seq(Node) /\ DOMAIN free_list' = 1 .. NodesPerPage - 1
      /\ \A i \in 1 .. NodesPerPage - 1 :
           free_list'[i] \in Node /\ free_list'[i][1] = p /\ free_list'[i][2] = NodesPerPage - i
  <2>1. \A i \in 1 .. NodesPerPage - 1 :
          /\ <<p, NodesPerPage - i>> \in Node
          /\ <<p, NodesPerPage - i>>[1] = p
          /\ <<p, NodesPerPage - i>>[2] = NodesPerPage - i
    <3>1. \A i \in 1 .. NodesPerPage - 1 : NodesPerPage - i \in 0 .. NodesPerPage
      BY <1>4
    <3> QED
      BY <1>6, <3>1, NodeFacts
  <2>2. free_list' \in [1 .. NodesPerPage - 1 -> Node]
    BY <1>2, <2>1
  <2>3. \A i \in 1 .. NodesPerPage - 1 :
          free_list'[i] \in Node /\ free_list'[i][1] = p /\ free_list'[i][2] = NodesPerPage - i
    BY <1>2, <2>1
  <2>4. NodesPerPage - 1 \in Nat
    BY <1>4
  <2> QED
    BY <2>2, <2>3, <2>4
<1>10. \A n \in ToSet(free_list') : n \in Node /\ n[1] = p /\ n[2] # 0 /\ n # t
  <2>1. \A i \in 1 .. NodesPerPage - 1 : NodesPerPage - i # 0 /\ NodesPerPage - i # NodesPerPage
    BY <1>4
  <2> QED
    BY <1>8, <1>9, <2>1 DEF ToSet
<1>11. IsInjective(free_list')
  <2>1. \A i, j \in 1 .. NodesPerPage - 1 : NodesPerPage - i = NodesPerPage - j => i = j
    BY <1>4
  <2> QED
    BY <1>9, <2>1 DEF IsInjective
<1>12. /\ pc'[a] = "map" /\ meta'[a] = t
       /\ \A b \in Allocator : b # a => pc'[b] = pc[b] /\ meta'[b] = meta[b]
  BY <1>2, <1>3, <1>7 DEF TypeOK
<1>13. TypeOK'
  <2>1. pc' \in [Allocator -> {"idle", "refill", "map", "insert", "link", "back", "head"}]
    BY <1>2, <1>3 DEF TypeOK
  <2>2. meta' \in [Allocator -> Node \cup {NULL}]
    BY <1>2, <1>3, <1>7, <1>8 DEF TypeOK
  <2> QED
    BY <1>2, <1>3, <1>9, <2>1, <2>2 DEF TypeOK
<1>14. RingInv' /\ SortInv'
  <2>1. \A b \in Allocator : pc'[b] \in Inserting <=> pc[b] \in Inserting
    BY <1>2, <1>12 DEF Inserting
  <2>2. \A b \in Allocator : pc[b] \in Inserting =>
          pc'[b] = pc[b] /\ meta'[b] = meta[b] /\ curr'[b] = curr[b]
    BY <1>2, <1>12 DEF Inserting
  <2> QED
    BY <1>2, <2>1, <2>2, ListFrame
<1>15. Mapped' = Mapped /\ \A n \in Used' : n \in Used \/ n[1] = p
  <2>1. Mapped' = Mapped
    BY <1>2, <1>12 DEF Mapped, Inserting
  <2>2. \A n \in Used' : n \in Used \/ n[1] = p
    BY <1>2, <1>8, <1>10, <1>12 DEF Used
  <2> QED
    BY <2>1, <2>2
<1>16. MapInv'
  BY <1>2, <1>15, MapFrame
<1>17. \A b \in Allocator : b # a =>
         /\ pc[b] \notin Inserting \cup {"refill"}
         /\ ~(pc[b] = "insert" /\ meta[b][2] = 0)
  BY <1>5 DEF IndInv, LockInv
<1>18. LockInv'
  BY <1>12, <1>17 DEF LockInv, Inserting
<1>19. NodeInv'
  <2>1. \A n \in Used : n \notin ToSet(free_list') /\ n # t
    BY <1>5, <1>8, <1>10
  <2>2. \A n \in listed : n \in Used
    BY RingFacts
  <2>3. \A n \in ToSet(free_list') : n \notin listed' /\ n[2] # 0
    BY <1>2, <1>10, <2>1, <2>2
  <2>4. ASSUME NEW b \in Allocator PROVE NodeOf(b)'
    <3>1. CASE b = a
      BY <1>2, <1>8, <1>10, <1>12, <2>1, <2>2, <3>1 DEF NodeOf
    <3>2. CASE b # a
      <4>1. pc[b] # "idle" => meta[b] \in Used
        BY DEF IndInv, NodeInv, NodeOf, Used
      <4>2. NodeOf(b)
        BY DEF IndInv, NodeInv
      <4>3. pc[b] \in {"idle", "refill", "map", "insert", "link", "back", "head"}
        BY <1>3 DEF TypeOK
      <4>4. pc[b] # "idle" => meta[b] \notin ToSet(free_list')
        BY <2>1, <4>1
      <4>5. pc[b] \in Carrying => pc[b] # "idle"
        BY DEF Carrying, Inserting
      <4>6. ~(pc[b] \notin {"idle", "map"} /\ meta[b][2] = 0)
        BY <1>17, <3>2, <4>3 DEF Inserting
      <4> QED
        BY <1>2, <1>12, <3>2, <4>2, <4>4, <4>5, <4>6 DEF NodeOf
    <3> QED
      BY <3>1, <3>2
  <2>5. \A b, c \in Allocator :
          pc'[b] \in Carrying /\ pc'[c] \in Carrying /\ meta'[b] = meta'[c] => b = c
    <3>1. \A b \in Allocator : b # a /\ pc'[b] \in Carrying => meta'[b] # t
      BY <1>12, <2>1 DEF IndInv, NodeInv, NodeOf, Used, Carrying, Inserting
    <3>2. \A b, c \in Allocator :
            b # a /\ c # a /\ pc'[b] \in Carrying /\ pc'[c] \in Carrying /\ meta'[b] = meta'[c] => b = c
      BY <1>12 DEF IndInv, NodeInv
    <3> QED
      BY <1>12, <3>1, <3>2
  <2>6. \A n \in Used' : page'[n[1]] = <<n[1], 0>>
    BY <1>2, <1>6, <1>15 DEF IndInv, NodeInv
  <2> QED
    BY <1>11, <2>3, <2>4, <2>5, <2>6 DEF NodeInv
<1> QED
  BY <1>13, <1>14, <1>16, <1>18, <1>19 DEF IndInv

\* The nodes stay with whom they are while a thread goes on in alloc_mmap.
LEMMA NodeFrame ==
  ASSUME IndInv, meta' = meta, free_list' = free_list, listed' = listed,
         \A b \in Allocator : \/ pc'[b] = pc[b]
                              \/ pc[b] \in Carrying /\ pc'[b] \in Carrying \ {"map"},
         \A q \in Page : page[q] \in Node => page'[q] = page[q]
  PROVE  NodeInv' /\ Used' = Used
<1>1. \A b \in Allocator : (pc'[b] = "idle" <=> pc[b] = "idle") /\ (pc'[b] = "refill" <=> pc[b] = "refill")
  BY DEF Carrying, Inserting
<1>2. \A b \in Allocator : pc'[b] \in Carrying <=> pc[b] \in Carrying
  OBVIOUS
<1>3. Used' = Used
  BY <1>1 DEF Used
<1>4. ASSUME NEW b \in Allocator PROVE NodeOf(b)'
  <2>1. NodeOf(b)
    BY DEF IndInv, NodeInv
  <2>2. pc'[b] = "map" => pc[b] = "map"
    OBVIOUS
  <2> QED
    BY <1>1, <1>2, <1>3, <2>1, <2>2 DEF NodeOf
<1>5. \A b, c \in Allocator :
        pc'[b] \in Carrying /\ pc'[c] \in Carrying /\ meta'[b] = meta'[c] => b = c
  BY <1>2 DEF IndInv, NodeInv
<1>6. \A n \in Used' : page'[n[1]] = <<n[1], 0>>
  <2> SUFFICES ASSUME NEW n \in Used PROVE page'[n[1]] = <<n[1], 0>>
    BY <1>3
  <2>1. page[n[1]] = <<n[1], 0>> /\ n \in Node
    BY DEF IndInv, NodeInv, Used
  <2>2. n[1] \in Page /\ <<n[1], 0>> \in Node
    <3>1. 0 \in 0 .. NodesPerPage
      BY RangesAssumption
    <3> QED
      BY <2>1, <3>1, NodeFacts
  <2> QED
    BY <2>1, <2>2
<1> QED
  BY <1>3, <1>4, <1>5, <1>6 DEF NodeInv, IndInv

\* mmap gives pages that were nobody's.
LEMMA MapStepInv ==
  ASSUME IndInv, NEW a \in Allocator, Map(a)
  PROVE  IndInv'
<1>1. PICK m : m = meta[a]
  OBVIOUS
<1>0. PICK size \in 1 .. MaxSize : \E p \in FreeAt(size) :
        /\ page' = [q \in Page |-> IF q \in Pages(p, p + size) THEN m ELSE page[q]]
        /\ addr' = [addr EXCEPT ![m] = p]
        /\ length' = [length EXCEPT ![m] = size]
  BY <1>1 DEF Map, MapPages
<1>2. PICK p \in FreeAt(size) :
        /\ page' = [q \in Page |-> IF q \in Pages(p, p + size) THEN m ELSE page[q]]
        /\ addr' = [addr EXCEPT ![m] = p]
        /\ length' = [length EXCEPT ![m] = size]
  BY <1>0
<1>3. /\ pc[a] = "map" /\ pc' = [pc EXCEPT ![a] = "insert"]
      /\ shared' \in {shared, shared \cup {m}}
      /\ UNCHANGED <<next, prev, alloc_list, free_list, list_lock, meta, curr, listed>>
  BY <1>1 DEF Map, Goto, lists
<1>4. TypeOK
  BY DEF IndInv
<1>5. m \in Node /\ m \notin listed /\ m[2] # 0
  BY <1>1, <1>3 DEF IndInv, NodeInv, NodeOf, Carrying
<1>6. /\ MaxSize \in Nat /\ size \in Nat /\ size >= 1 /\ p \in Page /\ p \in Nat /\ p + size <= NPages
      /\ \A q \in Page : q \in Pages(p, p + size) => page[q] = Nobody
      /\ \A q \in Page : q \in Pages(p, p + size) <=> p <= q /\ q < p + size
  <2>1. MaxSize \in Nat
    BY RangesAssumption
  <2>2. p \in Page /\ p + size <= NPages /\ \A q \in Pages(p, p + size) : page[q] = Nobody
    BY DEF FreeAt
  <2>3. size \in Nat /\ size >= 1 /\ p \in Nat
    BY <2>1, <2>2, NodeFacts
  <2>4. \A q \in Page : q \in Pages(p, p + size) <=> p <= q /\ q < p + size
    BY <2>3, NodeFacts DEF Pages
  <2> QED
    BY <2>1, <2>2, <2>3, <2>4
<1>7. /\ pc'[a] = "insert" /\ \A b \in Allocator : b # a => pc'[b] = pc[b]
      /\ addr'[m] = p /\ length'[m] = size
      /\ \A n \in Node : n # m => addr'[n] = addr[n] /\ length'[n] = length[n]
  BY <1>2, <1>3, <1>4, <1>5 DEF TypeOK
<1>8. TypeOK'
  <2>1. pc' \in [Allocator -> {"idle", "refill", "map", "insert", "link", "back", "head"}]
    BY <1>3, <1>4 DEF TypeOK
  <2>2. shared' \subseteq Node
    BY <1>3, <1>4, <1>5 DEF TypeOK
  <2>3. addr' \in [Node -> Page \cup {NULL}]
    BY <1>2, <1>4, <1>6 DEF TypeOK
  <2>4. length' \in [Node -> 0 .. MaxSize]
    <3>1. size \in 0 .. MaxSize
      BY <1>6
    <3> QED
      BY <1>2, <1>4, <3>1 DEF TypeOK
  <2>5. page' \in [Page -> {Nobody, User} \cup Node]
    BY <1>2, <1>4, <1>5 DEF TypeOK
  <2> QED
    BY <1>3, <1>4, <2>1, <2>2, <2>3, <2>4, <2>5 DEF TypeOK
<1>9. m \notin Mapped
  <2>1. "insert" \in Carrying /\ Inserting \subseteq Carrying /\ "map" \in Carrying /\ "map" \notin {"insert"} \cup Inserting
    BY DEF Carrying, Inserting
  <2>2. \A b \in Allocator : pc[b] \in {"insert"} \cup Inserting => meta[b] # m
    BY <1>1, <1>3, <2>1 DEF IndInv, NodeInv
  <2> QED
    BY <1>5, <2>2 DEF Mapped
<1>10. Mapped' = Mapped \cup {m}
  BY <1>1, <1>3, <1>5, <1>7 DEF Mapped, Inserting
<1>11. \A n \in Mapped : n \in Node /\ n # m /\ addr'[n] = addr[n] /\ length'[n] = length[n]
  BY <1>7, <1>9 DEF Mapped
<1>12. \A q \in Page : page[q] \in Node => page'[q] = page[q]
  BY <1>2, <1>6, NamesAssumption
<1>13. RingInv' /\ SortInv'
  <2>1. \A b \in Allocator : pc'[b] \in Inserting <=> pc[b] \in Inserting
    BY <1>3, <1>7 DEF Inserting
  <2>2. \A b \in Allocator : pc[b] \in Inserting =>
          pc'[b] = pc[b] /\ meta'[b] = meta[b] /\ curr'[b] = curr[b]
    BY <1>3, <1>7 DEF Inserting
  <2> QED
    BY <1>3, <1>11, <2>1, <2>2, ListFrame
<1>14. MapInv'
  <2>0. /\ \A q \in Page : page'[q] = IF p <= q /\ q < p + size THEN m ELSE page[q]
        /\ \A q \in Page : p <= q /\ q < p + size => page[q] = Nobody
        /\ \A q \in Page : page[q] # m
    <3>1. \A q \in Page : page[q] # m
      BY <1>5, <1>9 DEF IndInv, MapInv
    <3> QED
      BY <1>2, <1>6, <3>1
  <2>1. \A n \in Mapped : HasPages(n)'
    <3> TAKE n \in Mapped
    <3>1. \A q \in Page : page[q] = n <=> page'[q] = n
      BY <1>11, <2>0, NamesAssumption
    <3> QED
      BY <1>11, <3>1, KeepsPages
  <2>2. HasPages(m)'
    <3>1. \A q \in Page : (p <= q /\ q < p + size) <=> page'[q] = m
      BY <2>0
    <3> QED
      BY <1>6, <1>7, <3>1 DEF HasPages
  <2>3. \A q \in Page : page'[q] \in Node => page'[q] \in Mapped'
    BY <1>10, <2>0 DEF IndInv, MapInv
  <2> QED
    BY <1>10, <2>1, <2>2, <2>3 DEF MapInv
<1>15. LockInv'
  BY <1>1, <1>3, <1>5, <1>7 DEF IndInv, LockInv, Inserting
<1>16. NodeInv'
  <2>1. \A b \in Allocator : \/ pc'[b] = pc[b]
                             \/ pc[b] \in Carrying /\ pc'[b] \in Carrying \ {"map"}
    BY <1>3, <1>7 DEF Carrying
  <2> QED
    BY <1>3, <1>12, <2>1, NodeFrame
<1> QED
  BY <1>8, <1>13, <1>14, <1>15, <1>16 DEF IndInv

\* What the program maps and unmaps is its own.
LEMMA UserInv ==
  ASSUME IndInv, NEW p \in Page, UserMap(p) \/ UserUnmap(p)
  PROVE  IndInv'
<1>1. /\ page[p] \in {Nobody, User}
      /\ page' = [page EXCEPT ![p] = User] \/ page' = [page EXCEPT ![p] = Nobody]
      /\ UNCHANGED <<shared, addr, length, next, prev, alloc_list, free_list, list_lock, pc, meta, curr, listed>>
  BY DEF UserMap, UserUnmap, fields, lists
<1>2. TypeOK
  BY DEF IndInv
<1>3. TypeOK'
  <2>1. page' \in [Page -> {Nobody, User} \cup Node]
    BY <1>1, <1>2 DEF TypeOK
  <2> QED
    BY <1>1, <1>2, <2>1 DEF TypeOK
<1>4. \A q \in Page : page[q] \in Node \/ page'[q] \in Node => page'[q] = page[q]
  BY <1>1, <1>2, NamesAssumption DEF TypeOK
<1>5. RingInv' /\ SortInv'
  BY <1>1, ListFrame
<1>6. NodeInv'
  BY <1>1, <1>4, NodeFrame
<1>7. MapInv'
  <2>1. Mapped' = Mapped /\ \A n \in Mapped : n \in Node
    BY <1>1 DEF Mapped
  <2>2. \A n \in Mapped : HasPages(n)'
    BY <1>1, <1>4, <2>1, KeepsPages
  <2>3. \A q \in Page : page'[q] \in Node => page'[q] \in Mapped'
    BY <1>4, <2>1 DEF IndInv, MapInv
  <2> QED
    BY <2>1, <2>2, <2>3 DEF MapInv
<1>8. LockInv'
  BY <1>1 DEF IndInv, LockInv
<1> QED
  BY <1>3, <1>5, <1>6, <1>7, <1>8 DEF IndInv

\* The new node gets its links, which nobody follows yet.
LEMMA BeginInsertInv ==
  ASSUME IndInv, NEW a \in Allocator, BeginInsert(a)
  PROVE  IndInv'
<1>1. PICK m : m = meta[a]
  OBVIOUS
<1>2. PICK c : c = PlaceFor(m)
  OBVIOUS
<1>3. /\ pc[a] = "insert" /\ list_lock \in {NULL, a} /\ list_lock' = a
      /\ curr' = [curr EXCEPT ![a] = c]
      /\ next' = [next EXCEPT ![m] = c]
      /\ prev' = [prev EXCEPT ![m] = prev[c]]
      /\ pc' = [pc EXCEPT ![a] = "link"]
      /\ UNCHANGED <<page, shared, addr, length, alloc_list, free_list, meta, listed>>
  BY <1>1, <1>2 DEF BeginInsert, Goto, lists
<1>4. TypeOK
  BY DEF IndInv
<1>5. m \in Node /\ m \notin listed /\ m \in Mapped
  BY <1>1, <1>3 DEF IndInv, NodeInv, NodeOf, Carrying, Mapped
<1>6. \A b \in Allocator :
        /\ pc[b] \notin Inserting /\ pc[b] \notin Linked
        /\ b # a => pc[b] # "refill" /\ ~(pc[b] = "insert" /\ meta[b][2] = 0)
  <2>1. \A b \in Allocator : b # a =>
          pc[b] \notin Inserting /\ pc[b] # "refill" /\ ~(pc[b] = "insert" /\ meta[b][2] = 0)
    BY <1>3, NamesAssumption DEF IndInv, LockInv
  <2>2. pc[a] \notin Inserting
    BY <1>3 DEF Inserting
  <2>3. Linked \subseteq Inserting
    BY DEF Linked, Inserting
  <2> QED
    BY <2>1, <2>2, <2>3
<1>7. /\ c \in listed
      /\ c # alloc_list \/ (c = alloc_list /\ LOW_ADDR(m) < LOW_ADDR(alloc_list)) => HIGH_ADDR(m) <= LOW_ADDR(c)
      /\ ~(c = alloc_list /\ LOW_ADDR(m) < LOW_ADDR(alloc_list)) => HIGH_ADDR(prev[c]) <= LOW_ADDR(m)
  BY <1>2, <1>5, <1>6, PlaceIsRight
<1>8. /\ Ring = listed /\ IsRing(next, listed) /\ listed \subseteq Node
      /\ prev[c] \in listed /\ prev[c] # m /\ c # m
      /\ \A x \in listed : next[x] \in listed /\ prev[next[x]] = x
      /\ \A x \in listed : next[x] = alloc_list \/ HIGH_ADDR(x) <= LOW_ADDR(next[x])
  BY <1>4, <1>5, <1>6, <1>7, BackLinks DEF TypeOK
<1>9. /\ pc'[a] = "link" /\ curr'[a] = c /\ next'[m] = c /\ prev'[m] = prev[c] /\ prev'[c] = prev[c]
      /\ \A b \in Allocator : b # a => pc'[b] = pc[b]
      /\ \A x \in listed : next'[x] = next[x] /\ prev'[x] = prev[x]
  BY <1>3, <1>4, <1>5, <1>7, <1>8 DEF TypeOK
<1>10. TypeOK'
  <2>1. pc' \in [Allocator -> {"idle", "refill", "map", "insert", "link", "back", "head"}]
    BY <1>3, <1>4 DEF TypeOK
  <2>2. c \in Node /\ prev[c] \in Node
    BY <1>7, <1>8
  <2>3. curr' \in [Allocator -> Node \cup {NULL}]
    BY <1>3, <1>4, <2>2 DEF TypeOK
  <2>4. next' \in [Node -> Node \cup {NULL}] /\ prev' \in [Node -> Node \cup {NULL}]
    BY <1>3, <1>4, <2>2 DEF TypeOK
  <2> QED
    BY <1>3, <1>4, <2>1, <2>3, <2>4 DEF TypeOK
<1>11. \A b \in Allocator : pc'[b] \notin Linked /\ (b # a => pc'[b] \notin Inserting)
  BY <1>6, <1>9 DEF Linked
<1>12. Ring' = listed /\ Mapped' = Mapped
  <2>1. Ring' = listed
    BY <1>3, <1>8, <1>11 DEF Ring
  <2>2. Mapped' = Mapped
    BY <1>3, <1>9 DEF Mapped, Inserting
  <2> QED
    BY <2>1, <2>2
<1>13. RingInv'
  <2>1. IsRing(next', Ring')
    BY <1>8, <1>9, <1>12, RingAgree
  <2>2. alloc_list' \in listed' /\ \E n \in listed' : n[2] = 0
    BY <1>3 DEF IndInv, RingInv
  <2>3. \A x \in Ring' : prev'[next'[x]] = x
    BY <1>8, <1>9, <1>12
  <2>4. ASSUME NEW b \in Allocator
        PROVE  /\ pc'[b] \in Inserting => curr'[b] \in listed' /\ next'[meta'[b]] = curr'[b]
               /\ pc'[b] = "link" => prev'[meta'[b]] = prev'[curr'[b]]
               /\ pc'[b] # "back"
    <3>1. CASE b = a
      BY <1>1, <1>3, <1>7, <1>9, <3>1
    <3>2. CASE b # a
      BY <1>11, <3>2 DEF Inserting
    <3> QED
      BY <3>1, <3>2
  <2> QED
    BY <2>1, <2>2, <2>3, <2>4 DEF RingInv
<1>14. SortInv'
  <2>1. \A x \in Ring' : next'[x] = alloc_list' \/ HIGH_ADDR(x)' <= LOW_ADDR(next[x])'
    BY <1>3, <1>8, <1>9, <1>12 DEF HIGH_ADDR, LOW_ADDR
  <2>2. ASSUME NEW b \in Allocator, pc'[b] \in Inserting
        PROVE  /\ curr'[b] # alloc_list' \/ GoesFirst(b)' => HIGH_ADDR(meta[b])' <= LOW_ADDR(curr[b])'
               /\ pc'[b] = "link" /\ ~GoesFirst(b)' => HIGH_ADDR(prev[curr[b]])' <= LOW_ADDR(meta[b])'
    <3>1. b = a
      BY <1>11, <2>2
    <3>2. GoesFirst(a)' <=> c = alloc_list /\ LOW_ADDR(m) < LOW_ADDR(alloc_list)
      BY <1>1, <1>3, <1>9 DEF GoesFirst, LOW_ADDR
    <3> QED
      BY <1>1, <1>3, <1>7, <1>9, <3>1, <3>2 DEF HIGH_ADDR, LOW_ADDR
  <2> QED
    BY <2>1, <2>2 DEF SortInv
<1>15. MapInv'
  BY <1>3, <1>12, MapFrame
<1>16. LockInv'
  BY <1>3, <1>6, <1>9 DEF LockInv, Inserting
<1>17. NodeInv'
  <2>1. \A b \in Allocator : \/ pc'[b] = pc[b]
                             \/ pc[b] \in Carrying /\ pc'[b] \in Carrying \ {"map"}
    BY <1>3, <1>9 DEF Carrying, Inserting
  <2> QED
    BY <1>3, <2>1, NodeFrame
<1> QED
  BY <1>10, <1>13, <1>14, <1>15, <1>16, <1>17 DEF IndInv

\* The store that puts the node on the ring.
LEMMA LinkInv ==
  ASSUME IndInv, NEW a \in Allocator, Link(a)
  PROVE  IndInv'
<1>1. PICK m, c, p : m = meta[a] /\ c = curr[a] /\ p = prev[c]
  OBVIOUS
<1>2. /\ pc[a] = "link" /\ next' = [next EXCEPT ![p] = m]
      /\ pc' = [pc EXCEPT ![a] = "back"]
      /\ UNCHANGED <<page, shared, addr, length, prev, alloc_list, free_list, list_lock, meta, curr, listed>>
  BY <1>1 DEF Link, Goto, lists
<1>3. TypeOK
  BY DEF IndInv
<1>4. m \in Node /\ m \notin listed
  BY <1>1, <1>2 DEF IndInv, NodeInv, NodeOf, Carrying, Inserting
<1>5. \A b \in Allocator : pc[b] \notin Linked /\ (b # a => pc[b] \notin Inserting)
  <2>1. pc[a] \in Inserting /\ pc[a] \notin Linked /\ Linked \subseteq Inserting
    BY <1>2 DEF Inserting, Linked
  <2> QED
    BY <2>1, RingFacts
<1>6. c \in listed /\ next[m] = c /\ prev[m] = p
  BY <1>1, <1>2 DEF IndInv, RingInv, Inserting
<1>7. /\ Ring = listed /\ IsRing(next, listed) /\ listed \subseteq Node
      /\ p \in listed /\ next[p] = c /\ p # m /\ c # m
      /\ \A x \in listed : next[x] \in listed /\ prev[next[x]] = x
      /\ \A x \in listed : next[x] = alloc_list \/ HIGH_ADDR(x) <= LOW_ADDR(next[x])
  BY <1>1, <1>3, <1>4, <1>5, <1>6, BackLinks DEF TypeOK
<1>8. /\ c # alloc_list \/ GoesFirst(a) => HIGH_ADDR(m) <= LOW_ADDR(c)
      /\ ~GoesFirst(a) => HIGH_ADDR(p) <= LOW_ADDR(m)
  BY <1>1, <1>2 DEF IndInv, SortInv, Inserting
<1>9. /\ pc'[a] = "back" /\ next'[m] = c /\ next'[p] = m
      /\ \A b \in Allocator : b # a => pc'[b] = pc[b]
      /\ \A x \in listed : x # p => next'[x] = next[x]
  BY <1>2, <1>3, <1>4, <1>6, <1>7 DEF TypeOK
<1>10. TypeOK'
  <2>1. pc' \in [Allocator -> {"idle", "refill", "map", "insert", "link", "back", "head"}]
    BY <1>2, <1>3 DEF TypeOK
  <2>2. next' \in [Node -> Node \cup {NULL}]
    BY <1>2, <1>3, <1>4 DEF TypeOK
  <2> QED
    BY <1>2, <1>3, <2>1, <2>2 DEF TypeOK
<1>11. Ring' = listed \cup {m} /\ Mapped' = Mapped
  <2>1. Ring' = listed \cup {m}
    BY <1>1, <1>2, <1>4, <1>5, <1>7, <1>9 DEF Ring, Linked
  <2>2. Mapped' = Mapped
    BY <1>2, <1>9 DEF Mapped, Inserting
  <2> QED
    BY <2>1, <2>2
<1>12. RingInv'
  <2>1. IsRing(next', Ring')
    BY <1>4, <1>6, <1>7, <1>9, <1>11, RingInsert
  <2>2. alloc_list' \in listed' /\ \E n \in listed' : n[2] = 0
    BY <1>2 DEF IndInv, RingInv
  <2>3. \A x \in Ring' : prev'[next'[x]] = x \/ \E b \in Allocator : pc'[b] = "back" /\ meta'[b] = x
    <3> SUFFICES ASSUME NEW x \in listed \cup {m}, x # m PROVE prev'[next'[x]] = x
      BY <1>1, <1>2, <1>9, <1>11
    <3>1. CASE x = p
      BY <1>2, <1>6, <1>9, <3>1
    <3>2. CASE x # p
      BY <1>2, <1>7, <1>9, <3>2
    <3> QED
      BY <3>1, <3>2
  <2>4. ASSUME NEW b \in Allocator
        PROVE  /\ pc'[b] \in Inserting => curr'[b] \in listed' /\ next'[meta'[b]] = curr'[b]
               /\ pc'[b] = "link" => prev'[meta'[b]] = prev'[curr'[b]]
               /\ pc'[b] = "back" => prev'[curr'[b]] \in Node /\ next'[prev'[curr'[b]]] = meta'[b]
    <3>1. CASE b = a
      BY <1>1, <1>2, <1>6, <1>7, <1>9, <3>1
    <3>2. CASE b # a
      BY <1>5, <1>9, <3>2 DEF Inserting
    <3> QED
      BY <3>1, <3>2
  <2> QED
    BY <2>1, <2>2, <2>3, <2>4 DEF RingInv
<1>13. GoesFirst(a)' <=> GoesFirst(a)
  BY <1>2 DEF GoesFirst, LOW_ADDR
<1>14. SortInv'
  <2>1. ASSUME NEW x \in listed \cup {m}
        PROVE  \/ next'[x] = alloc_list' \/ HIGH_ADDR(x)' <= LOW_ADDR(next[x])'
               \/ \E b \in Allocator : pc'[b] \in Linked /\ next'[x] = meta'[b] /\ GoesFirst(b)'
    <3>1. CASE x = m
      BY <1>2, <1>8, <1>9, <3>1 DEF HIGH_ADDR, LOW_ADDR
    <3>2. CASE x = p
      <4>1. CASE GoesFirst(a)
        BY <1>1, <1>2, <1>9, <1>13, <3>2, <4>1 DEF Linked
      <4>2. CASE ~GoesFirst(a)
        BY <1>2, <1>8, <1>9, <3>2, <4>2 DEF HIGH_ADDR, LOW_ADDR
      <4> QED
        BY <4>1, <4>2
    <3>3. CASE x # m /\ x # p
      BY <1>2, <1>7, <1>9, <3>3 DEF HIGH_ADDR, LOW_ADDR
    <3> QED
      BY <3>1, <3>2, <3>3
  <2>2. ASSUME NEW b \in Allocator, pc'[b] \in Inserting
        PROVE  /\ curr'[b] # alloc_list' \/ GoesFirst(b)' => HIGH_ADDR(meta[b])' <= LOW_ADDR(curr[b])'
               /\ pc'[b] # "link"
    <3>1. b = a
      BY <1>5, <1>9, <2>2
    <3> QED
      BY <1>1, <1>2, <1>8, <1>9, <1>13, <3>1 DEF HIGH_ADDR, LOW_ADDR
  <2> QED
    BY <1>11, <2>1, <2>2 DEF SortInv
<1>15. MapInv'
  BY <1>2, <1>11, MapFrame
<1>16. LockInv'
  BY <1>2, <1>9 DEF IndInv, LockInv, Inserting
<1>17. NodeInv'
  <2>1. \A b \in Allocator : \/ pc'[b] = pc[b]
                             \/ pc[b] \in Carrying /\ pc'[b] \in Carrying \ {"map"}
    BY <1>2, <1>9 DEF Carrying, Inserting
  <2> QED
    BY <1>2, <2>1, NodeFrame
<1> QED
  BY <1>10, <1>12, <1>14, <1>15, <1>16, <1>17 DEF IndInv

\* What is known of the one thread that has put its node on the ring.
LEMMA LinkedFacts ==
  ASSUME IndInv, NEW a \in Allocator, pc[a] \in Linked
  PROVE  /\ meta[a] \in Node /\ meta[a] \notin listed /\ Ring = listed \cup {meta[a]}
         /\ curr[a] \in listed /\ next[meta[a]] = curr[a] /\ IsRing(next, Ring)
         /\ \A b \in Allocator : b # a => pc[b] \notin Inserting
         /\ \A x \in Ring : next[x] \in Ring
         /\ \A x \in Ring : prev[next[x]] = x \/ (pc[a] = "back" /\ x = meta[a])
         /\ \A x \in Ring : \/ next[x] = alloc_list \/ HIGH_ADDR(x) <= LOW_ADDR(next[x])
                            \/ next[x] = meta[a] /\ GoesFirst(a)
         /\ curr[a] # alloc_list \/ GoesFirst(a) => HIGH_ADDR(meta[a]) <= LOW_ADDR(curr[a])
<1>1. pc[a] \in Inserting /\ pc[a] \in Carrying /\ pc[a] # "idle"
  BY DEF Linked, Inserting, Carrying
<1>2. meta[a] \in Node /\ meta[a] \notin listed
  BY <1>1 DEF IndInv, NodeInv, NodeOf
<1>3. \A b \in Allocator : b # a => pc[b] \notin Inserting
  BY <1>1, RingFacts
<1>4. \A b \in Allocator : b # a => pc[b] \notin Linked /\ pc[b] # "back"
  BY <1>3 DEF Inserting, Linked
<1>5. curr[a] \in listed /\ next[meta[a]] = curr[a] /\ IsRing(next, Ring)
  BY <1>1 DEF IndInv, RingInv
<1>6. \A x \in Ring : next[x] \in Ring
  BY <1>5 DEF IsRing, Closed
<1>7. \A x \in Ring : prev[next[x]] = x \/ (pc[a] = "back" /\ x = meta[a])
  BY <1>4 DEF IndInv, RingInv
<1>8. \A x \in Ring : \/ next[x] = alloc_list \/ HIGH_ADDR(x) <= LOW_ADDR(next[x])
                      \/ next[x] = meta[a] /\ GoesFirst(a)
  BY <1>4 DEF IndInv, SortInv
<1>9. curr[a] # alloc_list \/ GoesFirst(a) => HIGH_ADDR(meta[a]) <= LOW_ADDR(curr[a])
  BY <1>1 DEF IndInv, SortInv
<1> QED
  BY <1>2, <1>3, <1>5, <1>6, <1>7, <1>8, <1>9, RingFacts

\* The link back to the node.
LEMMA LinkBackInv ==
  ASSUME IndInv, NEW a \in Allocator, LinkBack(a)
  PROVE  IndInv'
<1>1. PICK m, c : m = meta[a] /\ c = curr[a]
  OBVIOUS
<1>2. /\ pc[a] = "back" /\ prev' = [prev EXCEPT ![c] = m]
      /\ pc' = [pc EXCEPT ![a] = "head"]
      /\ UNCHANGED <<page, shared, addr, length, next, alloc_list, free_list, list_lock, meta, curr, listed>>
  BY <1>1 DEF LinkBack, Goto, lists
<1>3. TypeOK
  BY DEF IndInv
<1>4. pc[a] \in Linked
  BY <1>2 DEF Linked
<1>5. /\ m \in Node /\ m \notin listed /\ Ring = listed \cup {m} /\ IsRing(next, Ring)
      /\ c \in listed /\ next[m] = c /\ listed \subseteq Node
      /\ \A b \in Allocator : b # a => pc[b] \notin Inserting
      /\ \A x \in Ring : next[x] \in Ring
      /\ \A x \in Ring : prev[next[x]] = x \/ x = m
      /\ \A x \in Ring : \/ next[x] = alloc_list \/ HIGH_ADDR(x) <= LOW_ADDR(next[x])
                         \/ next[x] = m /\ GoesFirst(a)
      /\ c # alloc_list \/ GoesFirst(a) => HIGH_ADDR(m) <= LOW_ADDR(c)
  BY <1>1, <1>3, <1>4, LinkedFacts DEF TypeOK
<1>6. prev[c] \in Node /\ next[prev[c]] = m
  BY <1>1, <1>2 DEF IndInv, RingInv
<1>7. /\ pc'[a] = "head" /\ prev'[c] = m
      /\ \A b \in Allocator : b # a => pc'[b] = pc[b]
      /\ \A x \in Node : x # c => prev'[x] = prev[x]
  BY <1>2, <1>3, <1>5 DEF TypeOK
<1>8. TypeOK'
  <2>1. pc' \in [Allocator -> {"idle", "refill", "map", "insert", "link", "back", "head"}]
    BY <1>2, <1>3 DEF TypeOK
  <2>2. prev' \in [Node -> Node \cup {NULL}]
    BY <1>2, <1>3, <1>5 DEF TypeOK
  <2> QED
    BY <1>2, <1>3, <2>1, <2>2 DEF TypeOK
<1>9. Ring' = Ring /\ Mapped' = Mapped
  <2>1. Ring' = Ring
    BY <1>2, <1>7 DEF Ring, Linked
  <2>2. Mapped' = Mapped
    BY <1>2, <1>7 DEF Mapped, Inserting
  <2> QED
    BY <2>1, <2>2
<1>10. RingInv'
  <2>1. IsRing(next', Ring')
    BY <1>2, <1>5, <1>9
  <2>2. alloc_list' \in listed' /\ \E n \in listed' : n[2] = 0
    BY <1>2 DEF IndInv, RingInv
  <2>3. \A x \in Ring : prev'[next[x]] = x
    <3> SUFFICES ASSUME NEW x \in Ring PROVE prev'[next[x]] = x
      OBVIOUS
    <3>1. CASE x = m
      BY <1>5, <1>7, <3>1
    <3>2. CASE x # m
      <4>1. prev[next[x]] = x /\ next[x] \in Node
        BY <1>5, <3>2
      <4>2. next[x] # c
        BY <1>5, <1>6, <4>1
      <4> QED
        BY <1>7, <4>1, <4>2
    <3> QED
      BY <3>1, <3>2
  <2>4. ASSUME NEW b \in Allocator
        PROVE  /\ pc'[b] \in Inserting => curr'[b] \in listed' /\ next'[meta'[b]] = curr'[b]
               /\ pc'[b] # "link" /\ pc'[b] # "back"
    <3>1. CASE b = a
      BY <1>1, <1>2, <1>5, <1>7, <3>1
    <3>2. CASE b # a
      BY <1>5, <1>7, <3>2 DEF Inserting
    <3> QED
      BY <3>1, <3>2
  <2> QED
    BY <1>2, <1>9, <2>1, <2>2, <2>3, <2>4 DEF RingInv
<1>11. GoesFirst(a)' <=> GoesFirst(a)
  BY <1>2 DEF GoesFirst, LOW_ADDR
<1>12. SortInv'
  <2>1. ASSUME NEW x \in Ring
        PROVE  \/ next'[x] = alloc_list' \/ HIGH_ADDR(x)' <= LOW_ADDR(next[x])'
               \/ \E b \in Allocator : pc'[b] \in Linked /\ next'[x] = meta'[b] /\ GoesFirst(b)'
    <3>1. CASE next[x] = alloc_list
      BY <1>2, <3>1
    <3>2. CASE HIGH_ADDR(x) <= LOW_ADDR(next[x])
      BY <1>2, <3>2 DEF HIGH_ADDR, LOW_ADDR
    <3>3. CASE next[x] = m /\ GoesFirst(a)
      BY <1>1, <1>2, <1>7, <1>11, <3>3 DEF Linked
    <3> QED
      BY <1>5, <3>1, <3>2, <3>3
  <2>2. ASSUME NEW b \in Allocator, pc'[b] \in Inserting
        PROVE  /\ curr'[b] # alloc_list' \/ GoesFirst(b)' => HIGH_ADDR(meta[b])' <= LOW_ADDR(curr[b])'
               /\ pc'[b] # "link"
    <3>1. b = a
      BY <1>5, <1>7, <2>2
    <3> QED
      BY <1>1, <1>2, <1>5, <1>7, <1>11, <3>1 DEF HIGH_ADDR, LOW_ADDR
  <2> QED
    BY <1>9, <2>1, <2>2 DEF SortInv
<1>13. MapInv'
  BY <1>2, <1>9, MapFrame
<1>14. LockInv'
  BY <1>2, <1>7 DEF IndInv, LockInv, Inserting
<1>15. NodeInv'
  <2>1. \A b \in Allocator : \/ pc'[b] = pc[b]
                             \/ pc[b] \in Carrying /\ pc'[b] \in Carrying \ {"map"}
    BY <1>2, <1>7 DEF Carrying, Inserting
  <2> QED
    BY <1>2, <2>1, NodeFrame
<1> QED
  BY <1>8, <1>10, <1>12, <1>13, <1>14, <1>15 DEF IndInv

\* The node is listed, and is the new head if it is the lowest.
LEMMA EndInsertInv ==
  ASSUME IndInv, NEW a \in Allocator, EndInsert(a)
  PROVE  IndInv'
<1>1. PICK m, c : m = meta[a] /\ c = curr[a]
  OBVIOUS
<1>2. /\ pc[a] = "head" /\ listed' = listed \cup {m}
      /\ alloc_list' = IF GoesFirst(a) THEN m ELSE alloc_list
      /\ curr' = [curr EXCEPT ![a] = NULL]
      /\ UNCHANGED <<page, shared, addr, length, next, prev, free_list>>
  BY <1>1 DEF EndInsert, NewHead, GoesFirst, fields
<1>3. \/ m[2] = 0 /\ pc' = [pc EXCEPT ![a] = "refill"] /\ list_lock' = list_lock /\ meta' = meta
      \/ m[2] # 0 /\ pc' = [pc EXCEPT ![a] = "idle"] /\ list_lock' = NULL /\ meta' = [meta EXCEPT ![a] = NULL]
  BY <1>1 DEF EndInsert, Goto
<1>4. TypeOK
  BY DEF IndInv
<1>5. pc[a] \in Linked
  BY <1>2 DEF Linked
<1>6. /\ m \in Node /\ m \notin listed /\ Ring = listed \cup {m} /\ IsRing(next, Ring)
      /\ c \in listed /\ next[m] = c /\ listed \subseteq Node
      /\ \A b \in Allocator : b # a => pc[b] \notin Inserting
      /\ \A x \in Ring : next[x] \in Ring /\ prev[next[x]] = x
      /\ \A x \in Ring : \/ next[x] = alloc_list \/ HIGH_ADDR(x) <= LOW_ADDR(next[x])
                         \/ next[x] = m /\ GoesFirst(a)
      /\ c # alloc_list \/ GoesFirst(a) => HIGH_ADDR(m) <= LOW_ADDR(c)
  BY <1>1, <1>2, <1>4, <1>5, LinkedFacts DEF TypeOK
<1>7. /\ pc'[a] \in {"idle", "refill"} /\ (pc'[a] = "refill" <=> m[2] = 0)
      /\ pc'[a] = "refill" => list_lock' = list_lock /\ meta'[a] = m
      /\ \A b \in Allocator : b # a => pc'[b] = pc[b] /\ meta'[b] = meta[b]
  BY <1>1, <1>3, <1>4 DEF TypeOK
<1>8. TypeOK'
  <2>1. pc' \in [Allocator -> {"idle", "refill", "map", "insert", "link", "back", "head"}]
    BY <1>3, <1>4 DEF TypeOK
  <2>2. meta' \in [Allocator -> Node \cup {NULL}]
    BY <1>3, <1>4 DEF TypeOK
  <2>3. curr' \in [Allocator -> Node \cup {NULL}]
    BY <1>2, <1>4 DEF TypeOK
  <2>4. list_lock' \in Allocator \cup {NULL}
    BY <1>3, <1>4 DEF TypeOK
  <2>5. alloc_list' \in Node /\ listed' \subseteq Node
    BY <1>2, <1>4, <1>6 DEF TypeOK
  <2> QED
    BY <1>2, <1>4, <2>1, <2>2, <2>3, <2>4, <2>5 DEF TypeOK
<1>9. \A b \in Allocator : pc'[b] \notin Inserting /\ pc'[b] \notin Linked /\ (b # a => pc[b] \notin Linked)
  BY <1>6, <1>7 DEF Inserting, Linked
<1>10. Ring' = Ring /\ Mapped' = Mapped /\ Used' \subseteq Used
  <2>1. Ring' = Ring
    BY <1>2, <1>6, <1>9 DEF Ring
  <2>2. Mapped' = Mapped
    <3>1. \A n \in Mapped' : n \in Mapped
      BY <1>1, <1>2, <1>7 DEF Mapped, Inserting
    <3>2. \A n \in Mapped : n \in Mapped'
      BY <1>1, <1>2, <1>7 DEF Mapped, Inserting
    <3> QED
      BY <3>1, <3>2
  <2>3. Used' \subseteq Used
    BY <1>1, <1>2, <1>7 DEF Used
  <2> QED
    BY <2>1, <2>2, <2>3
<1>11. RingInv'
  <2>1. IsRing(next', Ring')
    BY <1>2, <1>6, <1>10
  <2>2. alloc_list' \in listed' /\ \E n \in listed' : n[2] = 0
    BY <1>2 DEF IndInv, RingInv
  <2> QED
    BY <1>2, <1>6, <1>9, <1>10, <2>1, <2>2 DEF RingInv, Inserting
<1>12. SortInv'
  <2>1. ASSUME NEW x \in Ring PROVE next'[x] = alloc_list' \/ HIGH_ADDR(x)' <= LOW_ADDR(next[x])'
    <3>1. CASE GoesFirst(a)
      <4>1. alloc_list' = m /\ c = alloc_list /\ HIGH_ADDR(m) <= LOW_ADDR(c)
        BY <1>1, <1>2, <1>6, <3>1 DEF GoesFirst
      <4>2. next[x] = alloc_list => x = m
        BY <1>6, <4>1
      <4> QED
        BY <1>2, <1>6, <4>1, <4>2 DEF HIGH_ADDR, LOW_ADDR
    <3>2. CASE ~GoesFirst(a)
      BY <1>2, <1>6, <3>2 DEF HIGH_ADDR, LOW_ADDR
    <3> QED
      BY <3>1, <3>2
  <2> QED
    BY <1>9, <1>10, <2>1 DEF SortInv
<1>13. MapInv'
  BY <1>2, <1>10, MapFrame
<1>14. \A b \in Allocator : b # a => pc[b] # "refill" /\ ~(pc[b] = "insert" /\ meta[b][2] = 0)
  BY <1>2, NamesAssumption DEF IndInv, LockInv, Inserting
<1>15. LockInv'
  <2>1. list_lock = a
    BY <1>2 DEF IndInv, LockInv, Inserting
  <2> QED
    BY <1>7, <1>9, <1>14, <2>1 DEF LockInv
<1>16. NodeInv'
  <2>1. m \notin ToSet(free_list)
    BY <1>1, <1>2 DEF IndInv, NodeInv, NodeOf, Carrying, Inserting
  <2>2. \A n \in ToSet(free_list') : n \notin listed' /\ n[2] # 0
    BY <1>2, <2>1 DEF IndInv, NodeInv
  <2>3. pc[a] \in Carrying /\ \A b \in Allocator : b # a /\ pc[b] \in Carrying => meta[b] # m
    BY <1>1, <1>2 DEF IndInv, NodeInv, Carrying, Inserting
  <2>4. ASSUME NEW b \in Allocator PROVE NodeOf(b)'
    <3>1. CASE b = a
      <4>1. m[2] = 0 => \A n \in Used : n[1] = m[1] => n[2] = 0
        BY <1>1, <1>2 DEF IndInv, NodeInv, NodeOf
      <4>2. pc'[a] \notin Carrying
        BY <1>7 DEF Carrying, Inserting
      <4> QED
        BY <1>2, <1>6, <1>7, <1>10, <3>1, <4>1, <4>2 DEF NodeOf
    <3>2. CASE b # a
      <4>1. NodeOf(b)
        BY DEF IndInv, NodeInv
      <4> QED
        BY <1>2, <1>7, <1>10, <2>3, <3>2, <4>1 DEF NodeOf
    <3> QED
      BY <3>1, <3>2
  <2>5. \A b, d \in Allocator :
          pc'[b] \in Carrying /\ pc'[d] \in Carrying /\ meta'[b] = meta'[d] => b = d
    BY <1>7 DEF IndInv, NodeInv, Carrying, Inserting
  <2>6. \A n \in Used' : page'[n[1]] = <<n[1], 0>>
    BY <1>2, <1>10 DEF IndInv, NodeInv
  <2> QED
    BY <1>2, <2>2, <2>4, <2>5, <2>6 DEF NodeInv, IndInv
<1> QED
  BY <1>8, <1>11, <1>12, <1>13, <1>15, <1>16 DEF IndInv

\* A mapping goes, and its node is free.
LEMMA MunmapInv ==
  ASSUME IndInv, NEW m \in Node, Munmap(m)
  PROVE  IndInv'
<1>1. /\ list_lock = NULL /\ m \in listed /\ m[2] # 0
      /\ next' = [next EXCEPT ![prev[m]] = next[m], ![m] = NULL]
      /\ prev' = [prev EXCEPT ![next[m]] = prev[m], ![m] = NULL]
      /\ alloc_list' = IF m = alloc_list THEN next[m] ELSE alloc_list
      /\ page' = [q \in Page |-> IF page[q] = m THEN Nobody ELSE page[q]]
      /\ free_list' = <<m>> \o free_list
      /\ listed' = listed \ {m}
      /\ addr' = [addr EXCEPT ![m] = NULL]
      /\ length' = [length EXCEPT ![m] = 0]
      /\ shared' = shared \ {m}
      /\ UNCHANGED <<list_lock, pc, meta, curr>>
  BY DEF Munmap
<1>2. TypeOK
  BY DEF IndInv
<1>3. \A b \in Allocator :
        /\ pc[b] \notin Inserting /\ pc[b] \notin Linked /\ pc[b] # "refill"
        /\ ~(pc[b] = "insert" /\ meta[b][2] = 0)
  <2>1. \A b \in Allocator : pc[b] \notin Inserting /\ pc[b] # "refill" /\ ~(pc[b] = "insert" /\ meta[b][2] = 0)
    BY <1>1, NamesAssumption DEF IndInv, LockInv
  <2> QED
    BY <2>1 DEF Linked, Inserting
<1>4. PICK p, n : p = prev[m] /\ n = next[m]
  OBVIOUS
<1>5. /\ Ring = listed /\ IsRing(next, listed) /\ listed \subseteq Node
      /\ p \in listed /\ n \in listed /\ next[p] = m /\ prev[n] = m
      /\ \A x \in listed : next[x] \in listed /\ prev[next[x]] = x
      /\ \A x \in listed : next[x] = m => x = p
      /\ \A x \in listed : next[x] = n => x = m
      /\ \A x \in listed : next[x] = alloc_list \/ HIGH_ADDR(x) <= LOW_ADDR(next[x])
      /\ alloc_list \in listed
  BY <1>1, <1>2, <1>3, <1>4, BackLinks DEF TypeOK, IndInv, RingInv
<1>6. PICK z \in listed : z[2] = 0
  BY DEF IndInv, RingInv
<1>7. p # m /\ n # m
  <2>1. ASSUME next[m] = m PROVE FALSE
    <3>1. {m} = listed
      BY <1>1, <1>5, <2>1 DEF IsRing, Closed
    <3> QED
      BY <1>1, <1>6, <3>1
  <2> QED
    BY <1>4, <1>5, <2>1
<1>8. /\ next'[p] = n /\ prev'[n] = p
      /\ \A x \in Node : x # p /\ x # m => next'[x] = next[x]
      /\ \A x \in Node : x # n /\ x # m => prev'[x] = prev[x]
      /\ \A x \in Node : x # m => addr'[x] = addr[x] /\ length'[x] = length[x]
  BY <1>1, <1>2, <1>4, <1>5, <1>7 DEF TypeOK
<1>9. /\ free_list' \in Seq(Node) /\ IsInjective(free_list')
      /\ \A x : x \in ToSet(free_list') <=> x = m \/ x \in ToSet(free_list)
  <2>1. free_list \in Seq(Node) /\ Len(free_list) \in Nat /\ IsInjective(free_list) /\ m \notin ToSet(free_list)
    BY <1>1, <1>2 DEF TypeOK, IndInv, NodeInv
  <2>2. <<m>> \in Seq(Node) /\ Len(<<m>>) = 1 /\ <<m>>[1] = m
    OBVIOUS
  <2>3. /\ free_list' \in Seq(Node) /\ Len(free_list') = Len(free_list) + 1 /\ free_list'[1] = m
        /\ \A i \in 1 .. Len(free_list) : free_list'[i + 1] = free_list[i]
    BY <1>1, <2>1, <2>2
  <2>4. DOMAIN free_list = 1 .. Len(free_list) /\ DOMAIN free_list' = 1 .. Len(free_list) + 1
    BY <2>1, <2>3
  <2>5. /\ \A i \in 1 .. Len(free_list) + 1 : i = 1 \/ i - 1 \in 1 .. Len(free_list)
        /\ \A i \in 1 .. Len(free_list) : i + 1 \in 1 .. Len(free_list) + 1
        /\ 1 \in 1 .. Len(free_list) + 1
    BY <2>1
  <2>6. \A i \in 1 .. Len(free_list) + 1 : i = 1 \/ (i - 1 \in 1 .. Len(free_list) /\ free_list'[i] = free_list[i - 1])
    <3> SUFFICES ASSUME NEW i \in 1 .. Len(free_list) + 1, i # 1
                 PROVE  i - 1 \in 1 .. Len(free_list) /\ free_list'[i] = free_list[i - 1]
      OBVIOUS
    <3>1. i - 1 \in 1 .. Len(free_list) /\ (i - 1) + 1 = i
      BY <2>5
    <3>2. free_list'[(i - 1) + 1] = free_list[i - 1]
      BY <2>3, <3>1
    <3> QED
      BY <3>1, <3>2
  <2>7. \A x : x \in ToSet(free_list') <=> x = m \/ x \in ToSet(free_list)
    <3>1. \A x : x \in ToSet(free_list') <=> \E i \in 1 .. Len(free_list) + 1 : x = free_list'[i]
      BY <2>4 DEF ToSet
    <3>2. \A x : x \in ToSet(free_list) <=> \E i \in 1 .. Len(free_list) : x = free_list[i]
      BY <2>4 DEF ToSet
    <3>3. ASSUME NEW x, x \in ToSet(free_list') PROVE x = m \/ x \in ToSet(free_list)
      <4>1. PICK i \in 1 .. Len(free_list) + 1 : x = free_list'[i]
        BY <3>1, <3>3
      <4> QED
        BY <2>3, <2>6, <3>2, <4>1, Zenon
    <3>4. m \in ToSet(free_list')
      BY <2>3, <2>5, <3>1, Zenon
    <3>5. ASSUME NEW x, x \in ToSet(free_list) PROVE x \in ToSet(free_list')
      <4>1. PICK i \in 1 .. Len(free_list) : x = free_list[i]
        BY <3>2, <3>5
      <4> QED
        BY <2>3, <2>5, <3>1, <4>1, Zenon
    <3> QED
      BY <3>3, <3>4, <3>5
  <2>8. IsInjective(free_list')
    <3> SUFFICES ASSUME NEW i \in 1 .. Len(free_list) + 1, NEW j \in 1 .. Len(free_list) + 1,
                        free_list'[i] = free_list'[j]
                 PROVE  i = j
      BY <2>4 DEF IsInjective
    <3>1. \A k \in 1 .. Len(free_list) : free_list[k] # m
      BY <2>1, <2>4 DEF ToSet
    <3>2. CASE i = 1
      BY <2>3, <2>6, <3>1, <3>2
    <3>3. CASE i # 1 /\ j = 1
      BY <2>3, <2>6, <3>1, <3>3
    <3>4. CASE i # 1 /\ j # 1
      <4>1. /\ i - 1 \in 1 .. Len(free_list) /\ j - 1 \in 1 .. Len(free_list)
            /\ free_list[i - 1] = free_list[j - 1]
        BY <2>6, <3>4
      <4>2. i - 1 = j - 1
        BY <2>1, <2>4, <4>1 DEF IsInjective
      <4>3. i \in Int /\ j \in Int
        OBVIOUS
      <4> QED
        BY <4>2, <4>3
    <3> QED
      BY <3>2, <3>3, <3>4
  <2> QED
    BY <2>3, <2>7, <2>8
<1>10. TypeOK'
  <2>1. page' \in [Page -> {Nobody, User} \cup Node]
    BY <1>1, <1>2 DEF TypeOK
  <2>2. next' \in [Node -> Node \cup {NULL}] /\ prev' \in [Node -> Node \cup {NULL}]
    BY <1>1, <1>2, <1>4, <1>5 DEF TypeOK
  <2>3. addr' \in [Node -> Page \cup {NULL}]
    BY <1>1, <1>2 DEF TypeOK
  <2>4. length' \in [Node -> 0 .. MaxSize]
    <3>1. 0 \in 0 .. MaxSize
      BY RangesAssumption
    <3> QED
      BY <1>1, <1>2, <3>1 DEF TypeOK
  <2>5. shared' \subseteq Node /\ listed' \subseteq Node /\ alloc_list' \in Node
    BY <1>1, <1>2, <1>4, <1>5 DEF TypeOK
  <2> QED
    BY <1>1, <1>2, <1>9, <2>1, <2>2, <2>3, <2>4, <2>5 DEF TypeOK
<1>11. Ring' = listed \ {m} /\ Used' \subseteq Used
  <2>1. Ring' = listed \ {m}
    BY <1>1, <1>3, <1>5 DEF Ring
  <2>2. Used' \subseteq Used
    BY <1>1, <1>9 DEF Used
  <2> QED
    BY <2>1, <2>2
<1>12. /\ \A x \in Mapped' : x \in Node /\ x \in Mapped /\ x # m
       /\ \A x \in Mapped : x # m => x \in Mapped'
  <2>1. \A b \in Allocator : pc[b] \in {"insert"} \cup Inserting => meta[b] # m
    BY <1>1 DEF IndInv, NodeInv, NodeOf, Carrying
  <2> QED
    BY <1>1, <2>1 DEF Mapped
<1>13. RingInv'
  <2>1. IsRing(next', listed \ {m})
    <3>1. \A x \in listed : x # p /\ x # m => next'[x] = next[x]
      BY <1>5, <1>8
    <3>2. next'[p] = next[m]
      BY <1>4, <1>8
    <3>3. /\ IsRing(next, listed) /\ m \in listed /\ p \in listed /\ p # m /\ next[p] = m
          /\ \A x \in listed : next[x] = m => x = p
      BY <1>1, <1>5, <1>7
    <3> QED
      BY <3>1, <3>2, <3>3, RingRemove
  <2>2. alloc_list' \in listed' /\ \E x \in listed' : x[2] = 0
    BY <1>1, <1>4, <1>5, <1>6, <1>7
  <2>3. \A x \in listed \ {m} : prev'[next'[x]] = x
    <3> SUFFICES ASSUME NEW x \in listed \ {m} PROVE prev'[next'[x]] = x
      OBVIOUS
    <3>1. CASE x = p
      BY <1>8, <3>1
    <3>2. CASE x # p
      <4>1. next'[x] = next[x] /\ next[x] \in Node /\ next[x] # m /\ next[x] # n /\ prev[next[x]] = x
        BY <1>5, <1>8, <3>2
      <4> QED
        BY <1>8, <4>1
    <3> QED
      BY <3>1, <3>2
  <2> QED
    BY <1>1, <1>3, <1>11, <2>1, <2>2, <2>3 DEF RingInv, Inserting
<1>14. SortInv'
  <2>1. ASSUME NEW x \in listed \ {m} PROVE next'[x] = alloc_list' \/ HIGH_ADDR(x)' <= LOW_ADDR(next[x])'
    <3>1. CASE x = p
      <4>1. CASE m = alloc_list \/ n = alloc_list
        BY <1>1, <1>4, <1>7, <1>8, <3>1, <4>1
      <4>2. CASE m # alloc_list /\ n # alloc_list
        <5>1. HIGH_ADDR(p) <= LOW_ADDR(m) /\ HIGH_ADDR(m) <= LOW_ADDR(n)
          BY <1>1, <1>4, <1>5, <4>2
        <5>2. \A y \in listed : LOW_ADDR(y) \in Nat /\ HIGH_ADDR(y) \in Nat /\ LOW_ADDR(y) < HIGH_ADDR(y)
          BY RingFacts, Bounds DEF LOW_ADDR
        <5>3. HIGH_ADDR(p) \in Nat /\ LOW_ADDR(m) \in Nat /\ HIGH_ADDR(m) \in Nat /\ LOW_ADDR(n) \in Nat /\ LOW_ADDR(m) < HIGH_ADDR(m)
          BY <1>1, <1>5, <5>2
        <5>4. HIGH_ADDR(p) <= LOW_ADDR(n)
          BY <5>1, <5>3
        <5>5. addr'[p] = addr[p] /\ length'[p] = length[p] /\ addr'[n] = addr[n] /\ next'[p] = n
          BY <1>5, <1>7, <1>8
        <5> QED
          BY <3>1, <5>4, <5>5 DEF HIGH_ADDR, LOW_ADDR
      <4> QED
        BY <4>1, <4>2
    <3>2. CASE x # p
      <4>1. next'[x] = next[x] /\ next[x] \in Node /\ next[x] # m /\ next[x] # n /\ x \in Node /\ x # m
        BY <1>5, <1>8, <3>2
      <4>2. addr'[x] = addr[x] /\ length'[x] = length[x] /\ addr'[next[x]] = addr[next[x]]
        BY <1>8, <4>1
      <4>3. CASE next[x] = alloc_list
        BY <1>1, <4>1, <4>3
      <4>4. CASE HIGH_ADDR(x) <= LOW_ADDR(next[x])
        BY <4>1, <4>2, <4>4 DEF HIGH_ADDR, LOW_ADDR
      <4> QED
        BY <1>5, <4>3, <4>4
    <3> QED
      BY <3>1, <3>2
  <2> QED
    BY <1>1, <1>3, <1>11, <2>1 DEF SortInv
<1>15. MapInv'
  <2>1. ASSUME NEW x \in Mapped' PROVE HasPages(x)'
    <3>1. x \in Node /\ x \in Mapped /\ x # m
      BY <1>12
    <3>2. \A q \in Page : page[q] = x <=> page'[q] = x
      BY <1>1, <3>1, NamesAssumption
    <3> QED
      BY <1>8, <3>1, <3>2, KeepsPages
  <2>2. ASSUME NEW q \in Page, page'[q] \in Node PROVE page'[q] \in Mapped'
    <3>1. page[q] # m /\ page'[q] = page[q]
      BY <1>1, <2>2, NamesAssumption
    <3>2. page[q] \in Mapped
      BY <2>2, <3>1 DEF IndInv, MapInv
    <3> QED
      BY <1>12, <3>1, <3>2
  <2> QED
    BY <2>1, <2>2 DEF MapInv
<1>16. LockInv'
  BY <1>1, <1>3 DEF LockInv
<1>17. NodeInv'
  <2>1. \A x \in ToSet(free_list') : x \notin listed' /\ x[2] # 0
    BY <1>1, <1>9 DEF IndInv, NodeInv
  <2>2. ASSUME NEW b \in Allocator PROVE NodeOf(b)'
    <3>1. NodeOf(b)
      BY DEF IndInv, NodeInv
    <3> QED
      BY <1>1, <1>3, <1>9, <1>11, <3>1 DEF NodeOf
  <2>3. \A b, d \in Allocator :
          pc'[b] \in Carrying /\ pc'[d] \in Carrying /\ meta'[b] = meta'[d] => b = d
    BY <1>1 DEF IndInv, NodeInv
  <2>4. \A x \in Used' : page'[x[1]] = <<x[1], 0>>
    <3> SUFFICES ASSUME NEW x \in Used PROVE page'[x[1]] = <<x[1], 0>>
      BY <1>11
    <3>1. page[x[1]] = <<x[1], 0>> /\ x \in Node
      BY DEF IndInv, NodeInv, Used
    <3>2. x[1] \in Page /\ <<x[1], 0>>[2] = 0
      BY <3>1, NodeFacts
    <3>3. page[x[1]] # m
      BY <1>1, <3>1, <3>2
    <3> QED
      BY <1>1, <3>1, <3>2, <3>3
  <2> QED
    BY <1>9, <2>1, <2>2, <2>3, <2>4 DEF NodeInv
<1> QED
  BY <1>10, <1>13, <1>14, <1>15, <1>16, <1>17 DEF IndInv

(***************************************************************************)
(* What the child collects (child.c).                                      *)
(***************************************************************************)

\* What the child needs of the nodes it meets: they say where their mappings are, every
\* listed one is among them, and whatever comes before a listed one ends below it.
InOrder(w) ==
  /\ w \in Seq(Node) /\ Len(w) \in Nat /\ Len(w) >= 1
  /\ \A k \in 1 .. Len(w) :
       /\ w[k] \in Node
       /\ LOW_ADDR(w[k]) \in Nat /\ HIGH_ADDR(w[k]) \in Nat /\ LOW_ADDR(w[k]) < HIGH_ADDR(w[k])
       /\ \A q \in Page : (LOW_ADDR(w[k]) <= q /\ q < HIGH_ADDR(w[k])) <=> page[q] = w[k]
  /\ \A x \in listed : \E k \in 1 .. Len(w) : w[k] = x
  /\ \A j, k \in 1 .. Len(w) : j < k /\ w[k] \in listed => HIGH_ADDR(w[j]) <= LOW_ADDR(w[k])

\* The walk is so in every state: only a node that is being inserted before the first one
\* can be out of order, and then it is met last.
LEMMA WalkInOrder ==
  ASSUME IndInv
  PROVE  InOrder(Walk)
<1> DEFINE w == Walk
           n == Len(Walk)
           last(k) == w[k] \notin listed /\ next[w[k]] = alloc_list
<1>1. IsRing(next, Ring) /\ alloc_list \in Ring /\ listed \subseteq Ring /\ Ring \subseteq Mapped /\ Mapped \subseteq Node
  BY RingFacts DEF IndInv, RingInv, Mapped
<1>2. /\ w \in Seq(Ring) /\ ToSet(w) = Ring /\ n \in Nat /\ n >= 1
      /\ \A i \in 1 .. n - 1 : w[i + 1] = next[w[i]] /\ next[w[i]] # alloc_list
  BY <1>1, WalkIsRing
<1> HIDE DEF w, n
<1>3. \A k \in 1 .. n : w[k] \in Ring /\ w[k] \in Mapped /\ w[k] \in Node
  <2>1. DOMAIN w = 1 .. n
    BY <1>2 DEF w, n
  <2> QED
    BY <1>1, <1>2, <2>1 DEF ToSet
<1>4. \A k \in 1 .. n :
        /\ LOW_ADDR(w[k]) \in Nat /\ HIGH_ADDR(w[k]) \in Nat /\ LOW_ADDR(w[k]) < HIGH_ADDR(w[k])
        /\ \A q \in Page : (LOW_ADDR(w[k]) <= q /\ q < HIGH_ADDR(w[k])) <=> page[q] = w[k]
  BY <1>3, Bounds DEF LOW_ADDR
<1>5. \A x \in listed : \E k \in 1 .. n : w[k] = x
  <2>1. DOMAIN w = 1 .. n
    BY <1>2 DEF w, n
  <2> QED
    BY <1>1, <1>2, <2>1 DEF ToSet
<1>6. ASSUME NEW k \in 1 .. n - 1 PROVE HIGH_ADDR(w[k]) <= LOW_ADDR(w[k + 1]) \/ last(k + 1)
  <2>1. k \in 1 .. n /\ w[k + 1] = next[w[k]] /\ next[w[k]] # alloc_list
    BY <1>2
  <2>2. w[k] \in Ring
    BY <1>3, <2>1
  <2>3. ASSUME NEW a \in Allocator, pc[a] \in Linked, next[w[k]] = meta[a], GoesFirst(a)
        PROVE  last(k + 1)
    <3>1. pc[a] \in Carrying /\ pc[a] \in Inserting
      BY <2>3 DEF Linked, Carrying, Inserting
    <3>2. meta[a] \notin listed
      BY <3>1 DEF IndInv, NodeInv, NodeOf
    <3>3. next[meta[a]] = curr[a]
      BY <3>1 DEF IndInv, RingInv
    <3> QED
      BY <2>1, <2>3, <3>2, <3>3 DEF GoesFirst
  <2> QED
    BY <2>1, <2>2, <2>3 DEF IndInv, SortInv
<1> DEFINE good(j, k) == HIGH_ADDR(w[j]) <= LOW_ADDR(w[k]) \/ last(k)
           bad == {k \in 1 .. n : \E j \in 1 .. k - 1 : ~good(j, k)}
<1>7. bad = {}
  <2> SUFFICES ASSUME bad # {} PROVE FALSE
    OBVIOUS
  <2>1. PICK k \in bad : \A x \in bad : k <= x
    <3>1. bad \in SUBSET Nat
      BY <1>2
    <3> HIDE DEF bad
    <3> QED
      BY <3>1, LeastNat
  <2>2. k \in 1 .. n
    BY <2>1
  <2>3. PICK j \in 1 .. k - 1 : ~good(j, k)
    BY <2>1
  <2>4. /\ k - 1 \in 1 .. n /\ k - 1 \in 1 .. n - 1 /\ (k - 1) + 1 = k /\ ~(k <= k - 1)
        /\ j \in 1 .. n /\ (j = k - 1 \/ j \in 1 .. (k - 1) - 1)
    BY <1>2, <2>2, <2>3
  <2>5. good(k - 1, k)
    BY <1>6, <2>4
  <2>6. j # k - 1
    BY <2>3, <2>5
  <2>7. good(j, k - 1)
    BY <2>1, <2>4, <2>6
  <2>8. ~last(k - 1)
    BY <1>2, <2>4
  <2>9. /\ LOW_ADDR(w[k]) \in Nat /\ HIGH_ADDR(w[j]) \in Nat /\ LOW_ADDR(w[k - 1]) \in Nat
        /\ HIGH_ADDR(w[k - 1]) \in Nat /\ LOW_ADDR(w[k - 1]) < HIGH_ADDR(w[k - 1])
    BY <1>4, <2>2, <2>4
  <2> QED
    BY <2>3, <2>5, <2>7, <2>8, <2>9
<1>8. ASSUME NEW j \in 1 .. n, NEW k \in 1 .. n, j < k, w[k] \in listed
      PROVE  HIGH_ADDR(w[j]) <= LOW_ADDR(w[k])
  <2>1. j \in 1 .. k - 1
    BY <1>2, <1>8
  <2> QED
    BY <1>7, <1>8, <2>1
<1>9. w \in Seq(Node)
  BY <1>1, <1>2
<1> QED
  BY <1>2, <1>3, <1>4, <1>5, <1>8, <1>9 DEF InOrder, w, n

\* The smaller of two numbers.
LEMMA MinOfTwo ==
  ASSUME NEW x \in Nat, NEW y \in Nat
  PROVE  Min({x, y}) = IF x <= y THEN x ELSE y
<1>1. {x, y} \in SUBSET Nat /\ {x, y} # {}
  OBVIOUS
<1>2. Min({x, y}) \in {x, y} /\ \A k \in {x, y} : Min({x, y}) <= k
  BY <1>1, MinIsLeast
<1> QED
  BY <1>2

\* The loop of metadata_break_range from node i on: where the range begins at each node.
Advances(i, low, high, w, f) ==
  f = [k \in i .. Len(w) + 1 |->
         IF k = i THEN low
         ELSE LET h == HIGH_ADDR(w[k - 1])
              IN  IF h >= f[k - 1] THEN Min({h, high}) ELSE f[k - 1]]

\* The same, as a recursion of a number of steps.
AdvancesTo(m, i, low, high, w, f) ==
  /\ f[i] = low
  /\ \A k \in i + 1 .. m :
       f[k] = IF HIGH_ADDR(w[k - 1]) >= f[k - 1] THEN Min({HIGH_ADDR(w[k - 1]), high}) ELSE f[k - 1]

\* There is such a function: it can be continued by one node at a time.
LEMMA AdvanceExists ==
  ASSUME NEW w, Len(w) \in Nat, NEW i \in 1 .. Len(w), NEW low, NEW high
  PROVE  \E f : Advances(i, low, high, w, f)
<1>0. PICK n : n = Len(w) + 1
  OBVIOUS
<1>1. n \in Nat /\ i \in Nat /\ i <= n /\ i .. n \subseteq Nat
  BY <1>0
<1> DEFINE val(k, x) == IF HIGH_ADDR(w[k - 1]) >= x THEN Min({HIGH_ADDR(w[k - 1]), high}) ELSE x
           bad == {m \in i .. n : ~\E f : AdvancesTo(m, i, low, high, w, f)}
<1>2. bad = {}
  <2> SUFFICES ASSUME bad # {} PROVE FALSE
    OBVIOUS
  <2>1. PICK m \in bad : \A x \in bad : m <= x
    <3>1. bad \in SUBSET Nat
      BY <1>1
    <3> HIDE DEF bad
    <3> QED
      BY <3>1, LeastNat
  <2>2. m \in i .. n /\ ~\E f : AdvancesTo(m, i, low, high, w, f)
    BY <2>1
  <2>3. m # i
    <3> SUFFICES AdvancesTo(i, i, low, high, w, [k \in {i} |-> low])
      BY <2>2
    <3>1. i + 1 .. i = {}
      BY <1>1
    <3> QED
      BY <3>1 DEF AdvancesTo
  <2>4. m - 1 \in i .. n /\ ~(m <= m - 1) /\ m \in Nat /\ i <= m - 1
    BY <1>1, <2>2, <2>3
  <2>5. PICK f : AdvancesTo(m - 1, i, low, high, w, f)
    BY <2>1, <2>4
  <2> DEFINE g == [k \in i .. m |-> IF k = m THEN val(m, f[m - 1]) ELSE f[k]]
  <2>6. /\ g[m] = val(m, f[m - 1])
        /\ \A k \in i .. m - 1 : g[k] = f[k]
    BY <1>1, <2>4
  <2>7. i \in i .. m - 1 /\ m - 1 \in i .. m - 1
    BY <1>1, <2>4
  <2> HIDE DEF g
  <2>8. ASSUME NEW k \in i + 1 .. m PROVE g[k] = val(k, g[k - 1])
    <3>1. k = m \/ k \in i + 1 .. m - 1
      BY <1>1, <2>4
    <3>2. CASE k = m
      BY <2>6, <2>7, <3>2
    <3>3. CASE k \in i + 1 .. m - 1
      <4>1. k \in i .. m - 1 /\ k - 1 \in i .. m - 1
        BY <1>1, <2>4, <3>3
      <4>2. g[k] = f[k] /\ g[k - 1] = f[k - 1]
        BY <2>6, <4>1
      <4> QED
        BY <2>5, <3>3, <4>2 DEF AdvancesTo
    <3> QED
      BY <3>1, <3>2, <3>3
  <2>9. g[i] = low
    BY <2>5, <2>6, <2>7 DEF AdvancesTo
  <2> QED
    BY <2>2, <2>8, <2>9 DEF AdvancesTo
<1>3. n \in i .. n
  BY <1>1
<1>4. PICK f : AdvancesTo(n, i, low, high, w, f)
  BY <1>2, <1>3
<1> DEFINE g == [k \in i .. n |-> f[k]]
           h == [k \in i .. n |-> IF k = i THEN low ELSE val(k, g[k - 1])]
<1>5. \A k \in i .. n : g[k] = h[k]
  <2> SUFFICES ASSUME NEW k \in i .. n PROVE g[k] = h[k]
    OBVIOUS
  <2>1. CASE k = i
    BY <1>4, <2>1 DEF AdvancesTo
  <2>2. CASE k # i
    <3>1. k \in i + 1 .. n /\ k - 1 \in i .. n
      BY <1>1, <2>2
    <3>2. g[k] = f[k] /\ g[k - 1] = f[k - 1]
      BY <3>1
    <3>3. h[k] = val(k, f[k - 1])
      BY <2>2, <3>2
    <3> QED
      BY <1>4, <3>1, <3>2, <3>3 DEF AdvancesTo
  <2> QED
    BY <2>1, <2>2
<1>6. g = h
  <2>1. g = [k \in i .. n |-> g[k]] /\ h = [k \in i .. n |-> h[k]]
    OBVIOUS
  <2> HIDE DEF g, h
  <2> QED
    BY <1>5, <2>1
<1>7. Advances(i, low, high, w, g)
  BY <1>0, <1>6 DEF Advances
<1> QED
  BY <1>7

\* Up to where the loop stops, it has gone over memory of ours only, and it has left behind
\* every node it looked at.
LEMMA LoopRight ==
  ASSUME NEW w, InOrder(w), NEW i \in 1 .. Len(w),
         NEW low \in Nat, NEW high \in Nat, low < high,
         NEW f, Advances(i, low, high, w, f), NEW stop \in i .. Len(w) + 1,
         \A k \in i .. Len(w) : k < stop => ~(LOW_ADDR(w[k]) > f[k])
  PROVE  /\ f[stop] \in Nat /\ low <= f[stop] /\ f[stop] <= high
         /\ \A j \in i .. stop - 1 : HIGH_ADDR(w[j]) <= f[stop] \/ f[stop] = high
         /\ \A q \in Page : low <= q /\ q < f[stop] => page[q] # User
<1>0. PICK n : n = Len(w)
  OBVIOUS
<1>1. n \in Nat /\ i \in Nat /\ 1 <= i /\ i <= n /\ stop \in Nat /\ i <= stop /\ stop <= n + 1
  BY <1>0 DEF InOrder
<1>2. /\ f[i] = low
      /\ \A k \in i + 1 .. n + 1 :
           f[k] = IF HIGH_ADDR(w[k - 1]) >= f[k - 1] THEN Min({HIGH_ADDR(w[k - 1]), high}) ELSE f[k - 1]
  <2>1. \A k \in i .. n + 1 :
          f[k] = IF k = i THEN low
                 ELSE IF HIGH_ADDR(w[k - 1]) >= f[k - 1] THEN Min({HIGH_ADDR(w[k - 1]), high}) ELSE f[k - 1]
    BY <1>0 DEF Advances
  <2>2. i \in i .. n + 1 /\ \A k \in i + 1 .. n + 1 : k \in i .. n + 1 /\ k # i
    BY <1>1
  <2> QED
    BY <2>1, <2>2
<1>3. \A q \in Page : q \in Nat
  BY NodeFacts
<1> DEFINE good(k) ==
             /\ f[k] \in Nat /\ low <= f[k] /\ f[k] <= high
             /\ \A j \in i .. k - 1 : HIGH_ADDR(w[j]) <= f[k] \/ f[k] = high
             /\ \A q \in Page : low <= q /\ q < f[k] => page[q] # User
           bad == {k \in i .. stop : ~good(k)}
<1>4. good(i)
  <2>1. i .. i - 1 = {}
    BY <1>1
  <2>2. \A q \in Page : ~(low <= q /\ q < f[i])
    BY <1>2, <1>3
  <2> QED
    BY <1>2, <2>1, <2>2
<1>5. ASSUME NEW k \in i .. stop, k # i, good(k - 1) PROVE good(k)
  <2>1. k \in i + 1 .. n + 1 /\ k - 1 \in i .. n /\ k - 1 < stop /\ k - 1 \in 1 .. n /\ k \in Nat
    BY <1>1, <1>5
  <2>2. PICK h, l : h = HIGH_ADDR(w[k - 1]) /\ l = LOW_ADDR(w[k - 1])
    OBVIOUS
  <2>3. PICK a, b : a = f[k - 1] /\ b = f[k]
    OBVIOUS
  <2>4. /\ h \in Nat /\ l \in Nat /\ ~(l > a)
        /\ \A q \in Page : (l <= q /\ q < h) => page[q] = w[k - 1] /\ w[k - 1] \in Node
    BY <1>0, <2>1, <2>2, <2>3 DEF InOrder
  <2>5. a \in Nat /\ low <= a /\ a <= high
    BY <1>5, <2>3
  <2>6. b = IF h >= a THEN (IF h <= high THEN h ELSE high) ELSE a
    BY <1>2, <2>1, <2>2, <2>3, <2>4, MinOfTwo
  <2>7. b \in Nat /\ a <= b /\ b <= high /\ (h <= b \/ b = high)
    BY <2>4, <2>5, <2>6
  <2>8. ASSUME NEW j \in i .. k - 1 PROVE HIGH_ADDR(w[j]) <= b \/ b = high
    <3>1. CASE j = k - 1
      BY <2>2, <2>7, <3>1
    <3>2. CASE j # k - 1
      <4>1. j \in i .. (k - 1) - 1 /\ j \in 1 .. n
        BY <1>1, <2>1, <3>2
      <4>2. HIGH_ADDR(w[j]) <= a \/ a = high
        BY <1>5, <2>3, <4>1
      <4>3. HIGH_ADDR(w[j]) \in Nat
        BY <1>0, <4>1 DEF InOrder
      <4> QED
        BY <2>5, <2>7, <4>2, <4>3
    <3> QED
      BY <3>1, <3>2
  <2>9. ASSUME NEW q \in Page, low <= q, q < b PROVE page[q] # User
    <3>1. CASE q < a
      BY <1>5, <2>3, <2>9, <3>1
    <3>2. CASE ~(q < a)
      <4>1. l <= q /\ q < h
        BY <1>3, <2>4, <2>5, <2>6, <2>7, <2>9, <3>2
      <4> QED
        BY <2>4, <4>1, NamesAssumption
    <3> QED
      BY <3>1, <3>2
  <2> QED
    BY <2>3, <2>5, <2>7, <2>8, <2>9
<1>6. bad = {}
  <2> SUFFICES ASSUME bad # {} PROVE FALSE
    OBVIOUS
  <2>1. PICK k \in bad : \A x \in bad : k <= x
    <3>1. bad \in SUBSET Nat
      BY <1>1
    <3> HIDE DEF bad
    <3> QED
      BY <3>1, LeastNat
  <2>2. k \in i .. stop /\ ~good(k) /\ (\A x \in i .. stop : ~(k <= x) => good(x))
    BY <2>1
  <2> HIDE DEF good
  <2>3. k # i
    BY <1>4, <2>2
  <2>4. k - 1 \in i .. stop /\ ~(k <= k - 1)
    BY <1>1, <2>2, <2>3
  <2> QED
    BY <1>5, <2>2, <2>3, <2>4
<1>7. stop \in i .. stop
  BY <1>1
<1> QED
  BY <1>6, <1>7

\* What a call of metadata_break_range says of l .. h: the part r is not ours, and there is
\* nothing of the program before it.
Cuts(l, h, r) ==
  /\ r = [low |-> r.low, high |-> r.high] /\ r.low \in Nat /\ r.high \in Nat
  /\ l <= r.low /\ r.low <= r.high /\ l < r.high /\ r.high <= h
  /\ \A q \in Page : l <= q /\ q < r.low => page[q] # User
  /\ \A q \in Page : r.low <= q /\ q < r.high => page[q] \notin listed

\* The node where the search begins: those before it end below the range.
LEMMA FirstRight ==
  ASSUME NEW w, InOrder(w), NEW low \in Nat
  PROVE  /\ FirstEndingBehind(low, w) \in 1 .. Len(w)
         /\ \A j \in 1 .. Len(w) :
              j < FirstEndingBehind(low, w) \/ HIGH_ADDR(w[FirstEndingBehind(low, w)]) <= low
                => HIGH_ADDR(w[j]) <= low
<1> DEFINE T == {k \in DOMAIN w : HIGH_ADDR(w[k]) > low}
<1>1. DOMAIN w = 1 .. Len(w) /\ Len(w) \in Nat /\ Len(w) >= 1 /\ \A k \in 1 .. Len(w) : HIGH_ADDR(w[k]) \in Nat
  BY DEF InOrder
<1>2. PICK n : n = Len(w)
  OBVIOUS
<1>3. /\ \A k \in 1 .. n : k \in T <=> HIGH_ADDR(w[k]) > low
      /\ T \subseteq 1 .. n /\ T \subseteq Nat
  BY <1>1, <1>2
<1>4. FirstEndingBehind(low, w) = IF T = {} THEN 1 ELSE Min(T)
  BY DEF FirstEndingBehind
<1> HIDE DEF T
<1>5. CASE T = {}
  <2>1. FirstEndingBehind(low, w) = 1 /\ 1 \in 1 .. n
    BY <1>1, <1>2, <1>4, <1>5
  <2>2. \A j \in 1 .. n : HIGH_ADDR(w[j]) <= low
    BY <1>1, <1>2, <1>3, <1>5
  <2> QED
    BY <1>2, <2>1, <2>2
<1>6. CASE T # {}
  <2>1. Min(T) \in T /\ \A k \in T : Min(T) <= k
    BY <1>3, <1>6, MinIsLeast
  <2>2. PICK i : i = FirstEndingBehind(low, w)
    OBVIOUS
  <2>3. i \in T /\ \A k \in T : i <= k
    BY <1>4, <1>6, <2>1, <2>2
  <2>4. i \in 1 .. n /\ HIGH_ADDR(w[i]) \in Nat /\ ~(HIGH_ADDR(w[i]) <= low)
    BY <1>1, <1>2, <1>3, <2>3
  <2>5. ASSUME NEW j \in 1 .. n, j < i PROVE HIGH_ADDR(w[j]) <= low
    <3>1. HIGH_ADDR(w[j]) \in Nat
      BY <1>1, <1>2
    <3>2. j \notin T
      BY <1>1, <1>2, <2>3, <2>4, <2>5
    <3> QED
      BY <1>3, <3>1, <3>2
  <2> QED
    BY <1>2, <2>2, <2>4, <2>5
<1> QED
  BY <1>5, <1>6

\* metadata_break_range returns the first part of a range that is not ours, whatever
\* insertion the walk of the list has met.
LEMMA BreakRangeRight ==
  ASSUME NEW w, InOrder(w), NEW low \in Nat, NEW high \in Nat, low < high
  PROVE  Cuts(low, high, BreakRange(low, high, w))
<1> DEFINE i == FirstEndingBehind(low, w)
           at == CHOOSE f : Advances(i, low, high, w, f)
           T == {k \in i .. Len(w) : LOW_ADDR(w[k]) > at[k]} \cup {Len(w) + 1}
           stop == Min(T)
           c == IF stop > Len(w) THEN w[1] ELSE w[stop]
<1>1. BreakRange(low, high, w) =
        IF HIGH_ADDR(w[i]) > low /\ LOW_ADDR(w[i]) < high
        THEN [low |-> at[stop],
              high |-> IF LOW_ADDR(c) > at[stop] THEN Min({LOW_ADDR(c), high}) ELSE high]
        ELSE [low |-> low, high |-> high]
  BY DEF BreakRange, Advances
<1>2. PICK n : n = Len(w)
  OBVIOUS
<1>3. n \in Nat /\ n >= 1 /\ i \in 1 .. n
  BY <1>2, FirstRight DEF InOrder
<1>4. \A j \in 1 .. n : j < i \/ HIGH_ADDR(w[i]) <= low => HIGH_ADDR(w[j]) <= low
  BY <1>2, FirstRight
<1>5. Advances(i, low, high, w, at)
  <2>1. \E f : Advances(i, low, high, w, f)
    BY <1>2, <1>3, AdvanceExists
  <2> HIDE DEF i
  <2> QED
    BY <2>1
<1> HIDE DEF i, at
<1>6. /\ stop \in i .. n + 1
      /\ \A k \in i .. n : k < stop => ~(LOW_ADDR(w[k]) > at[k])
      /\ stop <= n => LOW_ADDR(w[stop]) > at[stop]
  <2>1. T \in SUBSET Nat /\ n + 1 \in T /\ T \subseteq i .. n + 1
    BY <1>2, <1>3
  <2>2. \A k \in i .. n : LOW_ADDR(w[k]) > at[k] <=> k \in T
    BY <1>2, <1>3
  <2>3. \A k \in T : k <= n => LOW_ADDR(w[k]) > at[k]
    BY <1>2, <1>3
  <2> HIDE DEF T
  <2>4. stop \in T /\ \A k \in T : stop <= k
    BY <2>1, MinIsLeast
  <2>5. PICK s : s = stop
    OBVIOUS
  <2>6. s \in T /\ s \in i .. n + 1 /\ \A k \in T : s <= k
    BY <2>1, <2>4, <2>5
  <2>7. \A k \in i .. n : k < s => ~(s <= k)
    BY <1>3, <2>6
  <2> QED
    BY <2>2, <2>3, <2>5, <2>6, <2>7
<1> HIDE DEF T, stop
<1>7. \A k \in 1 .. n :
        /\ w[k] \in Node /\ LOW_ADDR(w[k]) \in Nat /\ HIGH_ADDR(w[k]) \in Nat /\ LOW_ADDR(w[k]) < HIGH_ADDR(w[k])
        /\ \A q \in Page : page[q] = w[k] => LOW_ADDR(w[k]) <= q /\ q < HIGH_ADDR(w[k])
  BY <1>2 DEF InOrder
<1>8. \A j, k \in 1 .. n : j < k /\ w[k] \in listed => HIGH_ADDR(w[j]) <= LOW_ADDR(w[k])
  BY <1>2 DEF InOrder
<1>9. ASSUME NEW q \in Page, page[q] \in listed
      PROVE  \E k \in 1 .. n : w[k] \in listed /\ LOW_ADDR(w[k]) <= q /\ q < HIGH_ADDR(w[k])
  <2>1. PICK k \in 1 .. n : w[k] = page[q]
    BY <1>2, <1>9 DEF InOrder
  <2> QED
    BY <1>7, <1>9, <2>1
<1>10. \A q \in Page : q \in Nat
  BY NodeFacts
<1>11. CASE ~(HIGH_ADDR(w[i]) > low /\ LOW_ADDR(w[i]) < high)
  <2>1. BreakRange(low, high, w) = [low |-> low, high |-> high]
    BY <1>1, <1>11
  <2>2. ASSUME NEW q \in Page, low <= q, q < high, page[q] \in listed PROVE FALSE
    <3>1. PICK k \in 1 .. n : w[k] \in listed /\ LOW_ADDR(w[k]) <= q /\ q < HIGH_ADDR(w[k])
      BY <1>9, <2>2
    <3>2. LOW_ADDR(w[k]) \in Nat /\ HIGH_ADDR(w[k]) \in Nat /\ LOW_ADDR(w[i]) \in Nat /\ HIGH_ADDR(w[i]) \in Nat
          /\ LOW_ADDR(w[i]) < HIGH_ADDR(w[i])
      BY <1>3, <1>7
    <3>3. ~(k < i) /\ ~(HIGH_ADDR(w[i]) <= low)
      BY <1>4, <1>10, <2>2, <3>1, <3>2
    <3>4. LOW_ADDR(w[i]) >= high
      BY <1>11, <3>2, <3>3
    <3>5. k = i \/ i < k
      BY <1>3, <3>3
    <3>6. k = i \/ HIGH_ADDR(w[i]) <= LOW_ADDR(w[k])
      BY <1>3, <1>8, <3>1, <3>5
    <3> QED
      BY <1>10, <2>2, <3>1, <3>2, <3>4, <3>6
  <2>3. \A q \in Page : ~(low <= q /\ q < low)
    BY <1>10
  <2>4. PICK r : r = [low |-> low, high |-> high]
    OBVIOUS
  <2>5. r.low = low /\ r.high = high /\ r = [low |-> r.low, high |-> r.high]
    BY <2>4
  <2>6. Cuts(low, high, r)
    BY <2>2, <2>3, <2>5 DEF Cuts
  <2> QED
    BY <2>1, <2>4, <2>6
<1>12. CASE HIGH_ADDR(w[i]) > low /\ LOW_ADDR(w[i]) < high
  <2>1. PICK a, u : a = at[stop] /\ u = LOW_ADDR(c)
    OBVIOUS
  <2>2. /\ a \in Nat /\ low <= a /\ a <= high
        /\ \A j \in i .. stop - 1 : HIGH_ADDR(w[j]) <= a \/ a = high
        /\ \A q \in Page : low <= q /\ q < a => page[q] # User
    BY <1>2, <1>3, <1>5, <1>6, <2>1, LoopRight
  <2>3. PICK s : s = stop
    OBVIOUS
  <2>4. /\ s \in i .. n + 1 /\ s \in Nat /\ u \in Nat
        /\ s <= n => s \in 1 .. n /\ u = LOW_ADDR(w[s]) /\ u > a
    <3>1. s \in i .. n + 1 /\ s \in Nat /\ (s <= n => s \in 1 .. n) /\ 1 \in 1 .. n
      BY <1>3, <1>6, <2>3
    <3>2. CASE s <= n
      <4>1. c = w[s] /\ u = LOW_ADDR(w[s]) /\ u > a
        BY <1>2, <1>3, <1>6, <2>1, <2>3, <3>1, <3>2
      <4> QED
        BY <1>7, <3>1, <3>2, <4>1
    <3>3. CASE ~(s <= n)
      <4>1. c = w[1]
        BY <1>2, <1>3, <2>3, <3>1, <3>3
      <4> QED
        BY <1>7, <2>1, <3>1, <3>3, <4>1
    <3> QED
      BY <3>2, <3>3
  <2>5. PICK v : v = IF u > a THEN (IF u <= high THEN u ELSE high) ELSE high
    OBVIOUS
  <2>6. v \in Nat /\ a <= v /\ v <= high /\ low < v /\ (u > a => v <= u) /\ (a = high => v = high)
    BY <2>2, <2>4, <2>5
  <2>7. BreakRange(low, high, w) = [low |-> a, high |-> v]
    BY <1>1, <1>12, <2>1, <2>4, <2>5, MinOfTwo
  <2>8. ASSUME NEW q \in Page, a <= q, q < v, page[q] \in listed PROVE FALSE
    <3>1. PICK k \in 1 .. n : w[k] \in listed /\ LOW_ADDR(w[k]) <= q /\ q < HIGH_ADDR(w[k])
      BY <1>9, <2>8
    <3>2. LOW_ADDR(w[k]) \in Nat /\ HIGH_ADDR(w[k]) \in Nat /\ k \in Nat /\ q \in Nat
      BY <1>7, <1>10
    <3>3. ~(k < i)
      <4>1. ~(HIGH_ADDR(w[k]) <= low)
        BY <2>2, <2>8, <3>1, <3>2
      <4> QED
        BY <1>4, <4>1
    <3>4. ~(k < s)
      <4> SUFFICES ASSUME k < s PROVE FALSE
        OBVIOUS
      <4>1. k \in i .. s - 1
        BY <1>3, <2>4, <3>2, <3>3
      <4>2. HIGH_ADDR(w[k]) <= a \/ a = high
        BY <2>2, <2>3, <4>1
      <4> QED
        BY <2>2, <2>6, <2>8, <3>1, <3>2, <4>2
    <3>5. s <= n /\ (k = s \/ s < k)
      BY <1>3, <2>4, <3>2, <3>4
    <3>6. s \in 1 .. n /\ u = LOW_ADDR(w[s]) /\ u > a
      BY <2>4, <3>5
    <3>7. LOW_ADDR(w[s]) \in Nat /\ HIGH_ADDR(w[s]) \in Nat /\ LOW_ADDR(w[s]) < HIGH_ADDR(w[s])
      BY <1>7, <3>6
    <3>8. k = s \/ HIGH_ADDR(w[s]) <= LOW_ADDR(w[k])
      BY <1>8, <3>1, <3>5, <3>6
    <3> QED
      BY <2>6, <2>8, <3>1, <3>2, <3>6, <3>7, <3>8
  <2>9. PICK r : r = [low |-> a, high |-> v]
    OBVIOUS
  <2>10. r.low = a /\ r.high = v /\ r = [low |-> r.low, high |-> r.high]
    BY <2>9
  <2>11. Cuts(low, high, r)
    BY <2>2, <2>6, <2>8, <2>10 DEF Cuts
  <2> QED
    BY <2>7, <2>9, <2>11
<1> QED
  BY <1>11, <1>12

\* The loop of collect_ranges over l .. high, from every l.
CutsFrom(low, high, w, f) ==
  f = [l \in low .. high |->
         IF l = high THEN {}
         ELSE LET r == BreakRange(l, high, w)
              IN  (IF r.low # r.high THEN {r} ELSE {}) \cup f[r.high]]

\* It ends, since every call of metadata_break_range takes something off.
LEMMA CutsFromExists ==
  ASSUME NEW w, InOrder(w), NEW low \in Nat, NEW high \in Nat, low <= high
  PROVE  \E f : CutsFrom(low, high, w, f)
<1> DEFINE br(l) == BreakRange(l, high, w)
           val(l, x) == (IF br(l).low # br(l).high THEN {br(l)} ELSE {}) \cup x
           to(m, f) == /\ f[high] = {}
                       /\ \A l \in m .. high - 1 : f[l] = val(l, f[br(l).high])
<1>1. \A l \in low .. high - 1 : br(l).high \in Nat /\ l < br(l).high /\ br(l).high <= high
  <2> TAKE l \in low .. high - 1
  <2>1. l \in Nat /\ l < high
    OBVIOUS
  <2> QED
    BY <2>1, BreakRangeRight DEF Cuts
<1> DEFINE bad == {d \in 0 .. high - low : ~\E f : to(high - d, f)}
<1> HIDE DEF br
<1>2. bad = {}
  <2> SUFFICES ASSUME bad # {} PROVE FALSE
    OBVIOUS
  <2>1. PICK d \in bad : \A x \in bad : d <= x
    <3>1. bad \in SUBSET Nat
      OBVIOUS
    <3> HIDE DEF bad
    <3> QED
      BY <3>1, LeastNat
  <2>2. /\ d \in 0 .. high - low /\ ~\E f : to(high - d, f)
        /\ \A x \in 0 .. high - low : ~(d <= x) => \E f : to(high - x, f)
    <3> HIDE DEF to
    <3> QED
      BY <2>1
  <2>3. d # 0
    <3> SUFFICES ASSUME d = 0 PROVE FALSE
      OBVIOUS
    <3>1. to(high - d, [l \in {high} |-> {}])
      <4>1. high - d .. high - 1 = {}
        OBVIOUS
      <4> QED
        BY <4>1
    <3> QED
      BY <2>2, <3>1
  <2>4. PICK m : m = high - d
    OBVIOUS
  <2>5. /\ d - 1 \in 0 .. high - low /\ ~(d <= d - 1) /\ m + 1 = high - (d - 1)
        /\ m \in low .. high - 1 /\ m \in Nat
    BY <2>2, <2>3, <2>4
  <2>6. PICK f : to(m + 1, f)
    <3> HIDE DEF to
    <3> QED
      BY <2>2, <2>5
  <2> DEFINE g == [l \in m .. high |-> IF l = m THEN val(m, f[br(m).high]) ELSE f[l]]
  <2>7. g[m] = val(m, f[br(m).high]) /\ \A l \in m + 1 .. high : g[l] = f[l]
    BY <2>5
  <2>8. high \in m + 1 .. high /\ \A l \in m .. high - 1 : br(l).high \in m + 1 .. high
    BY <1>1, <2>5
  <2> HIDE DEF g
  <2>9. ASSUME NEW l \in m .. high - 1 PROVE g[l] = val(l, g[br(l).high])
    <3>1. g[br(l).high] = f[br(l).high]
      BY <2>7, <2>8
    <3>2. CASE l = m
      BY <2>7, <3>1, <3>2
    <3>3. CASE l # m
      <4>1. l \in m + 1 .. high - 1 /\ l \in m + 1 .. high
        BY <2>5, <3>3
      <4>2. g[l] = f[l] /\ f[l] = val(l, f[br(l).high])
        BY <2>6, <2>7, <4>1
      <4> QED
        BY <3>1, <4>2
    <3> QED
      BY <3>2, <3>3
  <2>10. g[high] = {}
    BY <2>6, <2>7, <2>8
  <2>11. to(m, g)
    BY <2>9, <2>10
  <2> HIDE DEF to
  <2> QED
    BY <2>2, <2>4, <2>11
<1>3. high - low \in 0 .. high - low /\ high - (high - low) = low
  OBVIOUS
<1>4. PICK f : to(low, f)
  <2> HIDE DEF to
  <2>1. \E f : to(high - (high - low), f)
    BY <1>2, <1>3
  <2> QED
    BY <1>3, <2>1
<1> DEFINE g == [l \in low .. high |-> f[l]]
           h == [l \in low .. high |-> IF l = high THEN {} ELSE val(l, g[br(l).high])]
<1>5. \A l \in low .. high : g[l] = h[l]
  <2> SUFFICES ASSUME NEW l \in low .. high PROVE g[l] = h[l]
    OBVIOUS
  <2>1. CASE l = high
    BY <1>4, <2>1
  <2>2. CASE l # high
    <3>1. l \in low .. high - 1
      BY <2>2
    <3>2. br(l).high \in low .. high
      BY <1>1, <3>1
    <3>3. g[l] = f[l] /\ g[br(l).high] = f[br(l).high]
      BY <3>2
    <3>4. h[l] = val(l, f[br(l).high])
      BY <2>2, <3>3
    <3> QED
      BY <1>4, <3>1, <3>3, <3>4
  <2> QED
    BY <2>1, <2>2
<1>6. g = h
  <2>1. g = [l \in low .. high |-> g[l]] /\ h = [l \in low .. high |-> h[l]]
    OBVIOUS
  <2> HIDE DEF g, h
  <2> QED
    BY <1>5, <2>1
<1>7. CutsFrom(low, high, w, g)
  BY <1>6 DEF CutsFrom, br
<1> QED
  BY <1>7

\* The ranges that hold page q.
Holds(r, q) == r.low <= q /\ q < r.high

\* The loop cuts a line into parts that are not ours, and every page of the program is in
\* one of them, and in no other.
LEMMA SubRangesRight ==
  ASSUME NEW w, InOrder(w), NEW low \in Nat, NEW high \in Nat, low <= high
  PROVE  /\ \A r \in SubRanges(low, high, w) :
              /\ r.low \in Nat /\ r.high \in Nat /\ low <= r.low /\ r.low < r.high /\ r.high <= high
              /\ \A q \in Page : Holds(r, q) => page[q] \notin listed
         /\ \A q \in Page : low <= q /\ q < high /\ page[q] = User =>
              \E r \in SubRanges(low, high, w) :
                Holds(r, q) /\ \A s \in SubRanges(low, high, w) : Holds(s, q) => s = r
<1> DEFINE f == CHOOSE g : CutsFrom(low, high, w, g)
<1>1. SubRanges(low, high, w) = f[low]
  BY DEF SubRanges, CutsFrom
<1>2. CutsFrom(low, high, w, f)
  BY CutsFromExists
<1> HIDE DEF f
<1>3. /\ f[high] = {}
      /\ \A l \in low .. high - 1 :
           LET r == BreakRange(l, high, w)
           IN  f[l] = (IF r.low # r.high THEN {r} ELSE {}) \cup f[r.high]
  <2>1. \A l \in low .. high :
          f[l] = IF l = high THEN {}
                 ELSE LET r == BreakRange(l, high, w)
                      IN  (IF r.low # r.high THEN {r} ELSE {}) \cup f[r.high]
    BY <1>2 DEF CutsFrom
  <2>2. high \in low .. high /\ \A l \in low .. high - 1 : l \in low .. high /\ l # high
    OBVIOUS
  <2> QED
    BY <2>1, <2>2
<1>4. \A q \in Page : q \in Nat
  BY NodeFacts
<1> DEFINE parts(l) ==
             \A r \in f[l] :
               /\ r.low \in Nat /\ r.high \in Nat /\ l <= r.low /\ r.low < r.high /\ r.high <= high
               /\ \A q \in Page : Holds(r, q) => page[q] \notin listed
           one(l) ==
             \A q \in Page : l <= q /\ q < high /\ page[q] = User =>
               \E r \in f[l] : Holds(r, q) /\ \A s \in f[l] : Holds(s, q) => s = r
           bad == {d \in 0 .. high - low : ~(parts(high - d) /\ one(high - d))}
<1>5. parts(high) /\ one(high)
  <2>1. \A q \in Page : ~(high <= q /\ q < high)
    BY <1>4
  <2> QED
    BY <1>3, <2>1
<1>6. ASSUME NEW l \in low .. high - 1, NEW t, t = BreakRange(l, high, w).high,
             t \in low .. high => parts(t) /\ one(t)
      PROVE  parts(l) /\ one(l)
  <2>1. PICK c : c = BreakRange(l, high, w)
    OBVIOUS
  <2>2. l \in Nat /\ l < high /\ low <= l
    OBVIOUS
  <2>3. Cuts(l, high, c)
    BY <2>1, <2>2, BreakRangeRight
  <2>4. /\ c.low \in Nat /\ t \in Nat /\ c.high = t /\ l <= c.low /\ c.low <= t /\ l < t /\ t <= high
        /\ \A q \in Page : l <= q /\ q < c.low => page[q] # User
        /\ \A q \in Page : Holds(c, q) => page[q] \notin listed
    BY <1>6, <2>1, <2>3 DEF Cuts, Holds
  <2>5. t \in low .. high
    BY <2>2, <2>4
  <2>6. parts(t) /\ one(t)
    BY <1>6, <2>5
  <2>7. /\ \A r \in f[l] : r \in f[t] \/ (r = c /\ c.low # t)
        /\ \A r \in f[t] : r \in f[l]
        /\ c.low # t => c \in f[l]
    BY <1>3, <2>1, <2>4
  <2>8. parts(l)
    <3> SUFFICES ASSUME NEW r \in f[l]
                 PROVE  /\ r.low \in Nat /\ r.high \in Nat /\ l <= r.low /\ r.low < r.high /\ r.high <= high
                        /\ \A q \in Page : Holds(r, q) => page[q] \notin listed
      OBVIOUS
    <3>1. CASE r \in f[t]
      <4>1. /\ r.low \in Nat /\ r.high \in Nat /\ t <= r.low /\ r.low < r.high /\ r.high <= high
            /\ \A q \in Page : Holds(r, q) => page[q] \notin listed
        BY <2>6, <3>1
      <4> QED
        BY <2>2, <2>4, <4>1
    <3>2. CASE r = c /\ c.low # t
      BY <2>2, <2>4, <3>2
    <3> QED
      BY <2>7, <3>1, <3>2
  <2>9. one(l)
    <3> SUFFICES ASSUME NEW q \in Page, l <= q, q < high, page[q] = User
                 PROVE  \E r \in f[l] : Holds(r, q) /\ \A s \in f[l] : Holds(s, q) => s = r
      OBVIOUS
    <3>1. q \in Nat /\ c.low <= q
      BY <1>4, <2>4
    <3>2. CASE q < t
      <4>1. Holds(c, q) /\ c.low # t
        BY <2>4, <3>1, <3>2 DEF Holds
      <4>2. ASSUME NEW s \in f[t] PROVE ~Holds(s, q)
        <5>1. s.low \in Nat /\ t <= s.low
          BY <2>6
        <5> QED
          BY <2>4, <3>1, <3>2, <5>1 DEF Holds
      <4> QED
        BY <2>7, <4>1, <4>2
    <3>3. CASE ~(q < t)
      <4>1. t <= q /\ ~Holds(c, q)
        BY <2>4, <3>1, <3>3 DEF Holds
      <4>2. PICK r \in f[t] : Holds(r, q) /\ \A s \in f[t] : Holds(s, q) => s = r
        BY <2>6, <4>1
      <4> QED
        BY <2>7, <4>1, <4>2
    <3> QED
      BY <3>2, <3>3
  <2> QED
    BY <2>8, <2>9
<1>7. bad = {}
  <2> SUFFICES ASSUME bad # {} PROVE FALSE
    OBVIOUS
  <2>1. PICK d \in bad : \A x \in bad : d <= x
    <3>1. bad \in SUBSET Nat
      OBVIOUS
    <3> HIDE DEF bad
    <3> QED
      BY <3>1, LeastNat
  <2>2. /\ d \in 0 .. high - low /\ ~(parts(high - d) /\ one(high - d))
        /\ \A x \in 0 .. high - low : ~(d <= x) => parts(high - x) /\ one(high - x)
    BY <2>1
  <2> HIDE DEF parts, one
  <2>3. d # 0
    <3>1. high - 0 = high
      OBVIOUS
    <3> QED
      BY <1>5, <2>2, <3>1
  <2>4. PICK l, t : l = high - d /\ t = BreakRange(l, high, w).high
    OBVIOUS
  <2>5. l \in low .. high - 1 /\ l \in Nat /\ l < high
    BY <2>2, <2>3, <2>4
  <2>6. t \in Nat /\ l < t /\ t <= high
    BY <2>4, <2>5, BreakRangeRight DEF Cuts
  <2>7. high - t \in 0 .. high - low /\ ~(d <= high - t) /\ high - (high - t) = t
    BY <2>2, <2>4, <2>5, <2>6
  <2>8. parts(t) /\ one(t)
    BY <2>2, <2>7
  <2>9. parts(l) /\ one(l)
    BY <1>6, <2>4, <2>5, <2>8
  <2> QED
    BY <2>2, <2>4, <2>9
<1>8. parts(low) /\ one(low)
  <2>1. high - low \in 0 .. high - low /\ high - (high - low) = low
    OBVIOUS
  <2>2. parts(high - (high - low)) /\ one(high - (high - low))
    BY <1>7, <2>1
  <2> HIDE DEF parts, one
  <2> QED
    BY <2>1, <2>2
<1> QED
  BY <1>1, <1>8

\* Division with a remainder,
LEMMA Remainder ==
  ASSUME NEW x \in Nat, NEW M \in Nat, M > 0
  PROVE  x % M \in Nat /\ x % M < M /\ \E k \in Nat : x = M * k + (x % M)
<1>1. x \div M \in Nat /\ x = M * (x \div M) + (x % M)
  OBVIOUS
<1>2. x % M \in Nat /\ x % M < M
  OBVIOUS
<1>3. PICK k \in Nat : k = x \div M
  BY <1>1
<1>4. x = M * k + (x % M)
  BY <1>1, <1>3
<1> QED
  BY <1>2, <1>4

\* of which there is one.
LEMMA OneRemainder ==
  ASSUME NEW x \in Nat, NEW M \in Nat, M > 0, NEW k \in Nat, NEW y \in Nat, y < M, x = M * k + y
  PROVE  x % M = y
OBVIOUS

\* A part is cut into pieces of it, and every page of it is in one piece, and in no other.
LEMMA ChunksRight ==
  ASSUME NEW r, r.low \in Nat, r.high \in Nat, r.low < r.high
  PROVE  /\ \A c \in Chunks(r) : c.low \in Nat /\ c.high \in Nat /\ r.low <= c.low /\ c.high <= r.high
         /\ \A q \in Nat : Holds(r, q) =>
              \E c \in Chunks(r) : Holds(c, q) /\ \A d \in Chunks(r) : Holds(d, q) => d = c
<1>1. PICK M, a, b : M = MaxRangeSize /\ a = r.low /\ b = r.high
  OBVIOUS
<1>2. M \in Nat /\ M > 0 /\ a \in Nat /\ b \in Nat /\ a < b
  BY <1>1, RangesAssumption
<1> DEFINE piece(l) == [low |-> l, high |-> IF l + M <= b THEN l + M ELSE b]
           begins == {x \in a .. b - 1 : (x - a) % M = 0}
<1>3. Chunks(r) = {piece(l) : l \in begins}
  <2>1. \A l \in begins : Min({l + MaxRangeSize, r.high}) = IF l + M <= b THEN l + M ELSE b
    BY <1>1, <1>2, MinOfTwo
  <2>2. begins = {x \in Pages(r.low, r.high) : (x - r.low) % MaxRangeSize = 0}
    BY <1>1 DEF Pages
  <2> HIDE DEF begins
  <2> QED
    BY <2>1, <2>2 DEF Chunks
<1>4. \A l : piece(l).low = l /\ piece(l).high = IF l + M <= b THEN l + M ELSE b
  OBVIOUS
<1>5. /\ \A l \in begins : piece(l) \in Chunks(r)
      /\ \A c \in Chunks(r) : \E l \in begins : c = piece(l)
      /\ \A l \in begins : l \in a .. b - 1 /\ (l - a) % M = 0
      /\ \A l \in a .. b - 1 : (l - a) % M = 0 => l \in begins
  BY <1>3
<1> HIDE DEF piece, begins
<1>6. ASSUME NEW c \in Chunks(r) PROVE c.low \in Nat /\ c.high \in Nat /\ r.low <= c.low /\ c.high <= r.high
  <2>1. PICK l \in begins : c = piece(l)
    BY <1>5
  <2>2. l \in a .. b - 1 /\ c.low = l /\ c.high = IF l + M <= b THEN l + M ELSE b
    BY <1>4, <1>5, <2>1
  <2> QED
    BY <1>1, <1>2, <2>2
<1>7. ASSUME NEW q \in Nat, Holds(r, q)
      PROVE  \E c \in Chunks(r) : Holds(c, q) /\ \A d \in Chunks(r) : Holds(d, q) => d = c
  <2>1. a <= q /\ q < b
    BY <1>1, <1>7 DEF Holds
  <2>2. PICK z, y : z = q - a /\ y = z % M
    OBVIOUS
  <2>3. z \in Nat
    BY <1>2, <2>1, <2>2
  <2>4. PICK k \in Nat : y \in Nat /\ y < M /\ z = M * k + y
    BY <1>2, <2>2, <2>3, Remainder
  <2>5. PICK u \in Nat : u = M * k
    BY <1>2
  <2>6. PICK l : l = q - y
    OBVIOUS
  <2>7. l \in a .. b - 1 /\ l <= q /\ q < l + M /\ l - a = u
    BY <1>2, <2>1, <2>2, <2>4, <2>5, <2>6
  <2>8. (l - a) % M = 0
    <3>1. u = M * k + 0
      BY <2>5
    <3>2. u % M = 0
      BY <1>2, <3>1, OneRemainder
    <3> QED
      BY <2>7, <3>2
  <2>9. piece(l) \in Chunks(r) /\ Holds(piece(l), q)
    <3>1. piece(l).low = l /\ piece(l).high = IF l + M <= b THEN l + M ELSE b
      BY <1>4
    <3>2. piece(l) \in Chunks(r)
      BY <1>5, <2>7, <2>8
    <3> QED
      BY <1>2, <2>1, <2>7, <3>1, <3>2 DEF Holds
  <2>10. ASSUME NEW d \in Chunks(r), Holds(d, q) PROVE d = piece(l)
    <3>1. PICK j \in begins : d = piece(j)
      BY <1>5
    <3>2. j \in a .. b - 1 /\ (j - a) % M = 0
      BY <1>5
    <3>3. d.low = j /\ d.high = IF j + M <= b THEN j + M ELSE b
      BY <1>4, <3>1
    <3>4. j <= q /\ q < j + M
      BY <1>2, <2>1, <2>10, <3>2, <3>3 DEF Holds
    <3>5. PICK v, e : v = j - a /\ e = q - j
      OBVIOUS
    <3>6. v \in Nat /\ e \in Nat /\ e < M /\ z = v + e /\ v % M = 0
      BY <1>2, <2>2, <3>2, <3>4, <3>5
    <3>7. PICK i \in Nat : v = M * i + (v % M)
      BY <1>2, <3>6, Remainder
    <3>8. z = M * i + e
      <4>1. PICK t \in Nat : t = M * i
        BY <1>2
      <4>2. v = t + 0
        BY <3>6, <3>7, <4>1
      <4>3. z = t + e
        BY <3>6, <4>1, <4>2
      <4> QED
        BY <4>1, <4>3
    <3>9. y = e
      BY <1>2, <2>2, <2>3, <3>6, <3>8, OneRemainder
    <3>10. j = l
      BY <2>6, <3>2, <3>5, <3>9
    <3> QED
      BY <3>1, <3>10
  <2> QED
    BY <2>9, <2>10
<1> QED
  BY <1>6, <1>7

\* A page of the program is in one line of the maps file, and in no other.
LEMMA LinesRight ==
  ASSUME NEW p \in Page, page[p] = User
  PROVE  /\ \E r \in Lines : p \in Pages(r[1], r[2])
         /\ \A r, s \in Lines : p \in Pages(r[1], r[2]) /\ p \in Pages(s[1], s[2]) => r = s
<1>1. NPages \in Nat /\ p \in Nat /\ p < NPages /\ Wanted(p)
  BY RangesAssumption DEF Page, Wanted
<1>2. \A x, y \in Nat : \A q \in Nat : q \in Pages(x, y) <=> x <= q /\ q < y
  BY DEF Pages
<1> DEFINE starts(x) == x = 0 \/ x \in Apart \/ ~Wanted(x - 1)
           ends(x) == x = NPages \/ ~Wanted(x) \/ x \in Apart
<1>3. \A x, y \in 0 .. NPages :
        <<x, y>> \in Lines <=> /\ x < y
                               /\ \A q \in Nat : x <= q /\ q < y => Wanted(q)
                               /\ starts(x) /\ ends(y)
                               /\ \A q \in Nat : x + 1 <= q /\ q < y => q \notin Apart
  <2> TAKE x, y \in 0 .. NPages
  <2>1. x \in Nat /\ y \in Nat /\ x + 1 \in Nat
    BY <1>1
  <2>2. Pages(x, y) \subseteq Nat /\ Pages(x + 1, y) \subseteq Nat
    BY <2>1 DEF Pages
  <2>3. PICK r : r = <<x, y>>
    OBVIOUS
  <2>4. r \in (0 .. NPages) \X (0 .. NPages) /\ r[1] = x /\ r[2] = y
    BY <2>3
  <2>5. r \in Lines <=> /\ x < y
                        /\ \A q \in Pages(x, y) : Wanted(q)
                        /\ starts(x) /\ ends(y)
                        /\ \A q \in Pages(x + 1, y) : q \notin Apart
    BY <2>4 DEF Lines
  <2> HIDE DEF starts, ends
  <2>6. (\A q \in Pages(x, y) : Wanted(q)) <=> (\A q \in Nat : x <= q /\ q < y => Wanted(q))
    BY <1>2, <2>1, <2>2
  <2>7. (\A q \in Pages(x + 1, y) : q \notin Apart) <=> (\A q \in Nat : x + 1 <= q /\ q < y => q \notin Apart)
    BY <1>2, <2>1, <2>2
  <2> QED
    BY <2>3, <2>5, <2>6, <2>7
<1>4. \A r \in Lines : r = <<r[1], r[2]>> /\ r[1] \in 0 .. NPages /\ r[2] \in 0 .. NPages
  BY DEF Lines
<1> HIDE DEF Wanted
\* The line begins at the least page from which there is no border up to p,
<1>5. PICK x \in 0 .. p :
        /\ \A q \in Nat : x <= q /\ q <= p => Wanted(q)
        /\ \A q \in Nat : x + 1 <= q /\ q <= p => q \notin Apart
        /\ starts(x)
  <2> DEFINE T == {x \in 0 .. p : /\ \A q \in Nat : x <= q /\ q <= p => Wanted(q)
                                  /\ \A q \in Nat : x + 1 <= q /\ q <= p => q \notin Apart}
  <2>1. p \in T
    <3>1. \A q \in Nat : (p <= q /\ q <= p => q = p) /\ ~(p + 1 <= q /\ q <= p)
      BY <1>1
    <3>2. p \in 0 .. p
      BY <1>1
    <3> QED
      BY <1>1, <3>1, <3>2
  <2>2. PICK x \in T : \A y \in T : x <= y
    <3>1. T \in SUBSET Nat
      BY <1>1
    <3> HIDE DEF T
    <3> QED
      BY <2>1, <3>1, LeastNat
  <2>3. /\ x \in 0 .. p
        /\ \A q \in Nat : x <= q /\ q <= p => Wanted(q)
        /\ \A q \in Nat : x + 1 <= q /\ q <= p => q \notin Apart
    BY <2>2
  <2>4. starts(x)
    <3> SUFFICES ASSUME x # 0, x \notin Apart, Wanted(x - 1) PROVE FALSE
      OBVIOUS
    <3>1. x - 1 \in 0 .. p /\ ~(x <= x - 1)
      BY <1>1, <2>3
    <3>2. \A q \in Nat : x - 1 <= q /\ q <= p => Wanted(q)
      <4>1. \A q \in Nat : x - 1 <= q => q = x - 1 \/ x <= q
        BY <1>1, <2>3
      <4> QED
        BY <2>3, <4>1
    <3>3. \A q \in Nat : (x - 1) + 1 <= q /\ q <= p => q \notin Apart
      <4>1. \A q \in Nat : (x - 1) + 1 <= q => q = x \/ x + 1 <= q
        BY <1>1, <2>3
      <4> QED
        BY <2>3, <4>1
    <3>4. x - 1 \in T
      BY <3>1, <3>2, <3>3
    <3> HIDE DEF T
    <3> QED
      BY <2>2, <3>1, <3>4
  <2> QED
    BY <2>3, <2>4
\* and ends at the first one behind p.
<1>6. PICK y \in p + 1 .. NPages : ends(y) /\ \A q \in Nat : p < q /\ q < y => Wanted(q) /\ q \notin Apart
  <2> DEFINE T == {y \in p + 1 .. NPages : ends(y)}
  <2>1. T \in SUBSET Nat /\ NPages \in T
    BY <1>1
  <2>2. PICK y \in T : \A z \in T : y <= z
    <3> HIDE DEF T
    <3> QED
      BY <2>1, LeastNat
  <2>3. y \in p + 1 .. NPages /\ ends(y)
    BY <2>2
  <2>4. ASSUME NEW q \in Nat, p < q, q < y PROVE Wanted(q) /\ q \notin Apart
    <3>1. q \in p + 1 .. NPages /\ ~(y <= q)
      BY <1>1, <2>3, <2>4
    <3>2. q \notin T
      <4> HIDE DEF T
      <4> QED
        BY <2>2, <3>1
    <3> QED
      BY <3>1, <3>2
  <2> QED
    BY <2>3, <2>4
<1>7. <<x, y>> \in Lines /\ p \in Pages(x, y)
  <2>1. x \in 0 .. NPages /\ y \in 0 .. NPages /\ x < y /\ x <= p /\ p < y
    BY <1>1, <1>5, <1>6
  <2>2. \A q \in Nat : q <= p \/ p < q
    BY <1>1
  <2>3. p \in Pages(x, y)
    BY <1>1, <1>2, <2>1
  <2> HIDE DEF starts, ends
  <2> QED
    BY <1>3, <1>5, <1>6, <2>1, <2>2, <2>3
<1>8. ASSUME NEW a \in 0 .. NPages, NEW b \in 0 .. NPages, <<a, b>> \in Lines, a <= p, p < b,
             NEW c \in 0 .. NPages, NEW d \in 0 .. NPages, <<c, d>> \in Lines, c <= p, p < d
      PROVE  ~(a < c) /\ ~(b < d)
  <2>1. ASSUME a < c PROVE FALSE
    <3>1. c # 0 /\ c - 1 \in Nat /\ c \in Nat /\ a <= c - 1 /\ c - 1 < b /\ a + 1 <= c /\ c < b
      BY <1>1, <1>8, <2>1
    <3>2. Wanted(c - 1) /\ c \notin Apart
      BY <1>3, <1>8, <3>1
    <3>3. starts(c)
      BY <1>3, <1>8
    <3> QED
      BY <3>1, <3>2, <3>3
  <2>2. ASSUME b < d PROVE FALSE
    <3>1. b # NPages /\ b \in Nat /\ c <= b /\ c + 1 <= b
      BY <1>1, <1>8, <2>2
    <3>2. Wanted(b) /\ b \notin Apart
      BY <1>3, <1>8, <2>2, <3>1
    <3>3. ends(b)
      BY <1>3, <1>8
    <3> QED
      BY <3>1, <3>2, <3>3
  <2> QED
    BY <2>1, <2>2
<1>9. ASSUME NEW r \in Lines, NEW s \in Lines, p \in Pages(r[1], r[2]), p \in Pages(s[1], s[2])
      PROVE  r = s
  <2>1. PICK a \in 0 .. NPages, b \in 0 .. NPages : r = <<a, b>> /\ r[1] = a /\ r[2] = b
    BY <1>4
  <2>2. PICK c \in 0 .. NPages, d \in 0 .. NPages : s = <<c, d>> /\ s[1] = c /\ s[2] = d
    BY <1>4
  <2>3. a <= p /\ p < b /\ c <= p /\ p < d
    BY <1>1, <1>2, <1>9, <2>1, <2>2
  <2>4. ~(a < c) /\ ~(b < d) /\ ~(c < a) /\ ~(d < b)
    BY <1>8, <1>9, <2>1, <2>2, <2>3
  <2>5. a = c /\ b = d
    BY <1>1, <2>4
  <2> QED
    BY <2>1, <2>2, <2>5
<1>10. PICK l : l = <<x, y>>
  OBVIOUS
<1>11. l \in Lines /\ p \in Pages(l[1], l[2])
  <2>1. l[1] = x /\ l[2] = y
    BY <1>10
  <2> QED
    BY <1>7, <1>10, <2>1
<1> QED
  BY <1>9, <1>11

\* The ranges of a child are exact whenever the invariant holds.
LEMMA ExactOfInv ==
  ASSUME IndInv
  PROVE  RangesExact
<1>1. PICK w : w = Walk
  OBVIOUS
<1>2. InOrder(w)
  BY <1>1, WalkInOrder
<1>3. ASSUME NEW line \in Lines
      PROVE  line[1] \in Nat /\ line[2] \in Nat /\ line[1] <= line[2]
  BY RangesAssumption DEF Lines
<1>4. \A p \in Page : p \in Nat
  BY NodeFacts
<1>5. \A r : r.low \in Nat /\ r.high \in Nat => \A q \in Nat : q \in Pages(r.low, r.high) <=> Holds(r, q)
  BY DEF Pages, Holds
<1>6. /\ \A c \in Ranges : \E line \in Lines : \E r \in SubRanges(line[1], line[2], w) : c \in Chunks(r)
      /\ \A line \in Lines : \A r \in SubRanges(line[1], line[2], w) : \A c \in Chunks(r) : c \in Ranges
  BY <1>1 DEF Ranges
\* What contains a page of a piece.
<1>7. ASSUME NEW line \in Lines, NEW r \in SubRanges(line[1], line[2], w), NEW c \in Chunks(r),
             NEW p \in Page, p \in Pages(c.low, c.high)
      PROVE  p \in Pages(line[1], line[2]) /\ Holds(r, p) /\ Holds(c, p) /\ page[p] \notin listed
  <2>1. /\ r.low \in Nat /\ r.high \in Nat /\ line[1] <= r.low /\ r.low < r.high /\ r.high <= line[2]
        /\ \A q \in Page : Holds(r, q) => page[q] \notin listed
    BY <1>2, <1>3, SubRangesRight
  <2>2. c.low \in Nat /\ c.high \in Nat /\ r.low <= c.low /\ c.high <= r.high
    BY <2>1, ChunksRight
  <2>3. Holds(c, p)
    BY <1>4, <1>5, <1>7, <2>2
  <2>4. Holds(r, p) /\ line[1] <= p /\ p < line[2]
    BY <1>3, <1>4, <2>1, <2>2, <2>3 DEF Holds
  <2>5. p \in Pages(line[1], line[2])
    BY <1>3, <1>4, <2>4 DEF Pages
  <2> QED
    BY <2>1, <2>3, <2>4, <2>5
<1>8. ASSUME NEW p \in Page, page[p] = User
      PROVE  Cardinality({r \in Ranges : p \in Pages(r.low, r.high)}) = 1
  <2>1. PICK line \in Lines : p \in Pages(line[1], line[2])
    BY <1>8, LinesRight
  <2>2. line[1] <= p /\ p < line[2]
    BY <1>3, <1>4, <2>1 DEF Pages
  <2>3. PICK r \in SubRanges(line[1], line[2], w) :
          Holds(r, p) /\ \A s \in SubRanges(line[1], line[2], w) : Holds(s, p) => s = r
    BY <1>2, <1>3, <1>8, <2>2, SubRangesRight
  <2>4. r.low \in Nat /\ r.high \in Nat /\ r.low < r.high
    BY <1>2, <1>3, SubRangesRight
  <2>5. PICK c \in Chunks(r) : Holds(c, p) /\ \A d \in Chunks(r) : Holds(d, p) => d = c
    BY <1>4, <2>3, <2>4, ChunksRight
  <2>6. c \in Ranges /\ p \in Pages(c.low, c.high)
    <3>1. c.low \in Nat /\ c.high \in Nat
      BY <2>4, ChunksRight
    <3> QED
      BY <1>4, <1>5, <1>6, <2>5, <3>1
  <2>7. ASSUME NEW d \in Ranges, p \in Pages(d.low, d.high) PROVE d = c
    <3>1. PICK li \in Lines : \E s \in SubRanges(li[1], li[2], w) : d \in Chunks(s)
      BY <1>6
    <3>2. PICK s \in SubRanges(li[1], li[2], w) : d \in Chunks(s)
      BY <3>1
    <3>3. p \in Pages(li[1], li[2]) /\ Holds(s, p) /\ Holds(d, p)
      BY <1>7, <2>7, <3>2
    <3>4. li = line
      BY <1>8, <2>1, <3>3, LinesRight
    <3>5. s = r
      BY <2>3, <3>2, <3>3, <3>4
    <3> QED
      BY <2>5, <3>2, <3>3, <3>5
  <2>8. {d \in Ranges : p \in Pages(d.low, d.high)} = {c}
    BY <2>6, <2>7
  <2> QED
    BY <2>8, FS_Singleton
<1>9. ASSUME NEW c \in Ranges, NEW p \in Pages(c.low, c.high) PROVE page[p] \notin listed
  <2>1. PICK line \in Lines : \E r \in SubRanges(line[1], line[2], w) : c \in Chunks(r)
    BY <1>6
  <2>2. PICK r \in SubRanges(line[1], line[2], w) : c \in Chunks(r)
    BY <2>1
  <2>3. r.low \in Nat /\ r.high \in Nat /\ r.low < r.high /\ r.high <= line[2]
    BY <1>2, <1>3, SubRangesRight
  <2>4. c.low \in Nat /\ c.high \in Nat /\ c.high <= r.high
    BY <2>2, <2>3, ChunksRight
  <2>5. line[2] <= NPages /\ NPages \in Nat /\ line[2] \in Nat
    BY RangesAssumption DEF Lines
  <2>6. p \in Page
    BY <2>3, <2>4, <2>5 DEF Pages, Page
  <2> QED
    BY <1>7, <1>9, <2>2, <2>6
<1> QED
  BY <1>8, <1>9 DEF RangesExact

(***************************************************************************)
(* The theorems.                                                           *)
(***************************************************************************)

\* The inductive invariant is one: whatever thread is stopped wherever in alloc_mmap,
\* the list is a ring in the order of the addresses, and nodes and pages have one owner.
THEOREM Inductive == Spec => []IndInv
<1>1. Init => IndInv
  BY InitInv
<1>2. IndInv /\ [Next]_vars => IndInv'
  <2> SUFFICES ASSUME IndInv, [Next]_vars PROVE IndInv'
    OBVIOUS
  <2>1. ASSUME NEW a \in Allocator, AllocStep(a) PROVE IndInv'
    BY <2>1, TakeNodeInv, MapNodesInv, RefillInv, MapStepInv, BeginInsertInv, LinkInv,
       LinkBackInv, EndInsertInv DEF AllocStep
  <2>2. ASSUME NEW m \in Node, Munmap(m) PROVE IndInv'
    BY <2>2, MunmapInv
  <2>3. ASSUME NEW p \in Page, UserMap(p) \/ UserUnmap(p) PROVE IndInv'
    BY <2>3, UserInv
  <2>4. CASE UNCHANGED vars
    <3>1. UNCHANGED <<page, shared, addr, length, next, prev, alloc_list, free_list, list_lock, pc, meta, curr, listed>>
      BY <2>4 DEF vars, fields, lists
    <3>2. TypeOK' /\ LockInv'
      BY <3>1 DEF IndInv, TypeOK, LockInv
    <3>3. NodeInv'
      BY <3>1, NodeFrame
    <3>4. MapInv'
      <4>1. Mapped' = Mapped
        BY <3>1 DEF Mapped
      <4> QED
        BY <3>1, <4>1, MapFrame
    <3>5. RingInv' /\ SortInv'
      BY <3>1, ListFrame
    <3> QED
      BY <3>2, <3>3, <3>4, <3>5 DEF IndInv
  <2> QED
    BY <2>1, <2>2, <2>3, <2>4 DEF Next
<1> QED
  BY <1>1, <1>2, PTL DEF Spec

\* The nodes, fields and pages of alloc.c keep their types: no step of an insertion or a
\* removal stores a node that is not one, or a NULL at the head of the list.
THEOREM TypeCorrect == Spec => []TypeOK
<1>1. IndInv => TypeOK
  BY DEF IndInv
<1> QED
  BY <1>1, Inductive, PTL

\* A child that is forked in any state of alloc_mmap comes back to alloc_list, and has met
\* every mapping whose insertion is complete (the loops over alloc_list in alloc.c).
THEOREM WalkReturnsHolds == Spec => []WalkReturns
<1>1. IndInv => WalkReturns
  <2> SUFFICES ASSUME IndInv PROVE WalkReturns
    OBVIOUS
  <2>1. IsRing(next, Ring) /\ alloc_list \in Ring /\ listed \subseteq Ring
    BY RingFacts DEF IndInv, RingInv
  <2>2. ToSet(Walk) = Ring /\ Len(Walk) <= Cardinality(Node)
    BY <2>1, WalkIsRing
  <2> QED
    BY <2>1, <2>2 DEF WalkReturns
<1> QED
  BY <1>1, Inductive, PTL

\* "The list is sorted" whenever list_lock is free, for any number of threads and mappings:
\* the search of metadata_do_insert and the merge of metadata_break_range rely on it.
THEOREM ListSortedHolds == Spec => []ListSorted
<1>1. IndInv => ListSorted
  <2> SUFFICES ASSUME IndInv, list_lock = NULL
               PROVE  \A x \in listed : next[x] = alloc_list \/ HIGH_ADDR(x) <= LOW_ADDR(next[x])
    BY DEF ListSorted
  <2>1. \A b \in Allocator : pc[b] \notin Linked
    BY RingFacts DEF Linked, Inserting
  <2> QED
    BY <2>1, BackLinks
<1> QED
  BY <1>1, Inductive, PTL

\* Every page of the program is in exactly one of the ranges a child collects, and no range
\* has a page of a listed mapping, in whatever state of alloc_mmap the process is forked
\* (metadata_break_range, collect_ranges): for any address space, any maps file, any number
\* of mappings and threads, and any MAX_RANGE_SIZE.
THEOREM RangesExactHolds == Spec => []RangesExact
<1>1. IndInv => RangesExact
  BY ExactOfInv
<1> QED
  BY <1>1, Inductive, PTL
=============================================================================
