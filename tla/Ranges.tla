------------------------------- MODULE Ranges -------------------------------
(***************************************************************************)
(* Which memory the child scans.  Forkscan gets its own memory from mmap   *)
(* and keeps a sorted circular list of it (alloc.c); the child cuts that   *)
(* memory out of the lines of /proc/self/maps (collect_ranges in child.c)  *)
(* so that the pointers Forkscan stores are not taken for references.      *)
(*                                                                         *)
(* The process can be forked in any state of this module: the threads are  *)
(* stopped wherever a signal finds them, in the middle of an insertion     *)
(* too, and the child walks the list without the lock.  The properties are *)
(* therefore about the ranges a child would collect, in every state.       *)
(*                                                                         *)
(* Addresses are counted in pages.  Removal from the list is one step: it  *)
(* is called by the collector alone, which is the thread that forks.       *)
(***************************************************************************)
EXTENDS Integers, Sequences, FiniteSets, FiniteSetsExt, SequencesExt

CONSTANTS NPages,        \* the size of the address space
          MaxSize,       \* bound: pages in one mapping
          NodesPerPage,  \* list nodes a metadata page holds, besides its own
          MaxRangeSize,  \* MAX_RANGE_SIZE
          Apart,         \* pages at which the kernel starts another line
          Allocator,     \* the threads that map memory for Forkscan
          Nobody, User,  \* who a page can belong to, besides a mapping of ours
          NULL

ASSUME RangesAssumption ==
  /\ NPages \in Nat \ {0}
  /\ MaxSize \in Nat \ {0}
  /\ NodesPerPage \in Nat \ {0}
  /\ MaxRangeSize \in Nat \ {0}

Page == 0 .. NPages - 1

\* A list node is named by where it is: node 0 of a metadata page describes
\* the page itself, the others are handed out.
Node == Page \X (0 .. NodesPerPage)

ASSUME NamesAssumption ==
  /\ Nobody \notin Node /\ User \notin Node /\ NULL \notin Node
  /\ NULL \notin Allocator

VARIABLES
  page,        \* who a page belongs to: Nobody, User, or a node's mapping
  shared,      \* the nodes of MAP_SHARED mappings
  addr, length, next, prev,   \* fields of memory_metadata_t
  alloc_list,  \* the node with the lowest address
  free_list,
  list_lock,
  pc,          \* where a thread is in alloc_mmap
  meta,        \* its meta, or the node of the metadata page it adds,
  curr,        \* and the local of metadata_do_insert
  listed       \* history: nodes whose insertion is complete

fields == <<addr, length, next, prev>>
lists  == <<alloc_list, free_list>>
vars == <<page, shared, fields, lists, list_lock, pc, meta, curr, listed>>

LOW_ADDR(m) == addr[m]
HIGH_ADDR(m) == addr[m] + length[m]

Pages(low, high) == low .. high - 1

TypeOK ==
  /\ page \in [Page -> {Nobody, User} \cup Node]
  /\ shared \subseteq Node
  /\ addr \in [Node -> Page \cup {NULL}]
  /\ length \in [Node -> 0 .. MaxSize]
  /\ next \in [Node -> Node \cup {NULL}]
  /\ prev \in [Node -> Node \cup {NULL}]
  /\ alloc_list \in Node
  /\ free_list \in Seq(Node)
  /\ list_lock \in Allocator \cup {NULL}
  /\ pc \in [Allocator -> {"idle", "refill", "map", "insert", "link", "back", "head"}]
  /\ meta \in [Allocator -> Node \cup {NULL}]
  /\ curr \in [Allocator -> Node \cup {NULL}]
  /\ listed \subseteq Node

\* Before there are threads, the first allocation has mapped a metadata page
\* somewhere and made the list out of it.
Init ==
  \E p \in Page :
    /\ page = [q \in Page |-> IF q = p THEN <<p, 0>> ELSE Nobody]
    /\ shared = {}
    /\ addr = [m \in Node |-> IF m = <<p, 0>> THEN p ELSE NULL]
    /\ length = [m \in Node |-> IF m = <<p, 0>> THEN 1 ELSE 0]
    /\ next = [m \in Node |-> IF m = <<p, 0>> THEN m ELSE NULL]
    /\ prev = [m \in Node |-> IF m = <<p, 0>> THEN m ELSE NULL]
    /\ alloc_list = <<p, 0>>
    /\ free_list = [i \in 1 .. NodesPerPage |-> <<p, NodesPerPage + 1 - i>>]
    /\ list_lock = NULL
    /\ pc = [a \in Allocator |-> "idle"]
    /\ meta = [a \in Allocator |-> NULL]
    /\ curr = [a \in Allocator |-> NULL]
    /\ listed = {<<p, 0>>}

\* Where the kernel may put a mapping of the given size.
FreeAt(size) ==
  {p \in Page : p + size <= NPages /\ \A q \in Pages(p, p + size) : page[q] = Nobody}

MapPages(m, p, size) ==
  page' = [q \in Page |-> IF q \in Pages(p, p + size) THEN m ELSE page[q]]

Goto(a, place) == pc' = [pc EXCEPT ![a] = place]

(***************************************************************************)
(* alloc_mmap.                                                             *)
(***************************************************************************)

\* metadata_new: take a free node,
TakeNode(a) ==
  /\ pc[a] = "idle"
  /\ list_lock = NULL
  /\ free_list # <<>>
  /\ meta' = [meta EXCEPT ![a] = Head(free_list)]
  /\ free_list' = Tail(free_list)
  /\ Goto(a, "map")
  /\ UNCHANGED <<page, shared, fields, alloc_list, list_lock, curr, listed>>

\* or map a page of them, whose own node goes into the list first.
MapNodes(a) ==
  /\ pc[a] = "idle"
  /\ list_lock = NULL
  /\ free_list = <<>>
  /\ \E p \in FreeAt(1) :
       /\ MapPages(<<p, 0>>, p, 1)
       /\ addr' = [addr EXCEPT ![<<p, 0>>] = p]
       /\ length' = [length EXCEPT ![<<p, 0>>] = 1]
       /\ meta' = [meta EXCEPT ![a] = <<p, 0>>]
  /\ list_lock' = a
  /\ Goto(a, "insert")
  /\ UNCHANGED <<shared, next, prev, lists, curr, listed>>

\* Seeded fault: the last node of a page reaches over its end.
RefillPastEnd(a) ==
  /\ pc[a] = "refill"
  /\ LET p == meta[a][1]
     IN  /\ meta' = [meta EXCEPT ![a] = <<p, NodesPerPage + 1>>]
         /\ free_list' = [i \in 1 .. NodesPerPage |-> <<p, NodesPerPage + 1 - i>>]
  /\ list_lock' = NULL
  /\ Goto(a, "map")
  /\ UNCHANGED <<page, shared, fields, alloc_list, curr, listed>>

\* The other nodes of the page become the free list, and one of them is taken.
Refill(a) ==
  /\ pc[a] = "refill"
  /\ LET p == meta[a][1]
     IN  /\ meta' = [meta EXCEPT ![a] = <<p, NodesPerPage>>]
         /\ free_list' = [i \in 1 .. NodesPerPage - 1 |-> <<p, NodesPerPage - i>>]
  /\ list_lock' = NULL
  /\ Goto(a, "map")
  /\ UNCHANGED <<page, shared, fields, alloc_list, curr, listed>>

\* mmap_wrap, outside the lock.
Map(a) ==
  /\ pc[a] = "map"
  /\ \E size \in 1 .. MaxSize : \E p \in FreeAt(size) :
       /\ MapPages(meta[a], p, size)
       /\ addr' = [addr EXCEPT ![meta[a]] = p]
       /\ length' = [length EXCEPT ![meta[a]] = size]
  /\ shared' \in {shared, shared \cup {meta[a]}}
  /\ Goto(a, "insert")
  /\ UNCHANGED <<next, prev, lists, list_lock, meta, curr, listed>>

\* The nodes from alloc_list along next, until alloc_list comes again (or for
\* ever: then the sequence is longer than there are nodes).
Walk ==
  LET order[k \in 0 .. Cardinality(Node)] ==
        IF k = 0 THEN <<alloc_list>>
        ELSE LET w == order[k - 1]
             IN  IF next[Last(w)] = alloc_list THEN w ELSE Append(w, next[Last(w)])
  IN  order[Cardinality(Node)]

\* metadata_do_insert: the node before which m goes.  At the end that is the
\* first node again.
PlaceFor(m) ==
  IF HIGH_ADDR(prev[alloc_list]) <= LOW_ADDR(m) THEN alloc_list
  ELSE Walk[Min({i \in DOMAIN Walk : LOW_ADDR(Walk[i]) >= HIGH_ADDR(m)})]

\* The lock is taken, unless metadata_new holds it already; the new node gets
\* its links,
BeginInsert(a) ==
  /\ pc[a] = "insert"
  /\ list_lock \in {NULL, a}
  /\ list_lock' = a
  /\ LET c == PlaceFor(meta[a])
     IN  /\ curr' = [curr EXCEPT ![a] = c]
         /\ next' = [next EXCEPT ![meta[a]] = c]
         /\ prev' = [prev EXCEPT ![meta[a]] = prev[c]]
  /\ Goto(a, "link")
  /\ UNCHANGED <<page, shared, addr, length, lists, meta, listed>>

\* Seeded fault: the links back to the node come first.
LinkBackFirst(a) ==
  /\ pc[a] = "link"
  /\ prev' = [prev EXCEPT ![curr[a]] = meta[a]]
  /\ next' = [next EXCEPT ![prev'[curr[a]]] = meta[a]]
  /\ Goto(a, "back")
  /\ UNCHANGED <<page, shared, addr, length, lists, list_lock, meta, curr, listed>>

\* curr->prev->next = meta;
Link(a) ==
  /\ pc[a] = "link"
  /\ next' = [next EXCEPT ![prev[curr[a]]] = meta[a]]
  /\ Goto(a, "back")
  /\ UNCHANGED <<page, shared, addr, length, prev, lists, list_lock, meta, curr, listed>>

\* curr->prev = meta;
LinkBack(a) ==
  /\ pc[a] = "back"
  /\ prev' = [prev EXCEPT ![curr[a]] = meta[a]]
  /\ Goto(a, "head")
  /\ UNCHANGED <<page, shared, addr, length, next, lists, list_lock, meta, curr, listed>>

\* Seeded fault: the list keeps its beginning.
KeepHead(a) == alloc_list

\* if (curr == alloc_list) alloc_list = meta, unless it was inserted at the end.
NewHead(a) ==
  IF curr[a] = alloc_list /\ LOW_ADDR(meta[a]) < LOW_ADDR(alloc_list)
  THEN meta[a] ELSE alloc_list

\* The end of the insertion: into metadata_new again, or out of alloc_mmap,
\* whose locals are gone.
EndInsert(a) ==
  /\ pc[a] = "head"
  /\ alloc_list' = NewHead(a)
  /\ listed' = listed \cup {meta[a]}
  /\ IF meta[a][2] = 0
       THEN Goto(a, "refill") /\ UNCHANGED list_lock
       ELSE Goto(a, "idle") /\ list_lock' = NULL
  /\ curr' = [curr EXCEPT ![a] = NULL]
  /\ meta' = IF meta[a][2] = 0 THEN meta ELSE [meta EXCEPT ![a] = NULL]
  /\ UNCHANGED <<page, shared, fields, free_list>>

(***************************************************************************)
(* The others.                                                             *)
(***************************************************************************)

\* forkscan_alloc_munmap: metadata_remove, munmap and metadata_free, for the
\* collector, which drops a buffer that has become too small.  (What the freed
\* node still says is not read before it is overwritten.)
Munmap(m) ==
  /\ list_lock = NULL
  /\ m \in listed /\ m[2] # 0
  /\ next' = [next EXCEPT ![prev[m]] = next[m], ![m] = NULL]
  /\ prev' = [prev EXCEPT ![next[m]] = prev[m], ![m] = NULL]
  /\ alloc_list' = IF m = alloc_list THEN next[m] ELSE alloc_list
  /\ page' = [q \in Page |-> IF page[q] = m THEN Nobody ELSE page[q]]
  /\ free_list' = <<m>> \o free_list
  /\ listed' = listed \ {m}
  /\ addr' = [addr EXCEPT ![m] = NULL]
  /\ length' = [length EXCEPT ![m] = 0]
  /\ shared' = shared \ {m}
  /\ UNCHANGED <<list_lock, pc, meta, curr>>

\* The program maps and unmaps writable private memory of its own.
UserMap(p) ==
  /\ page[p] = Nobody
  /\ page' = [page EXCEPT ![p] = User]
  /\ UNCHANGED <<shared, fields, lists, list_lock, pc, meta, curr, listed>>

UserUnmap(p) ==
  /\ page[p] = User
  /\ page' = [page EXCEPT ![p] = Nobody]
  /\ UNCHANGED <<shared, fields, lists, list_lock, pc, meta, curr, listed>>

AllocStep(a) ==
  \/ TakeNode(a) \/ MapNodes(a) \/ Refill(a) \/ Map(a)
  \/ BeginInsert(a) \/ Link(a) \/ LinkBack(a) \/ EndInsert(a)

Next ==
  \/ \E a \in Allocator : AllocStep(a)
  \/ \E m \in Node : Munmap(m)
  \/ \E p \in Page : UserMap(p) \/ UserUnmap(p)

Spec == Init /\ [][Next]_vars

(***************************************************************************)
(* What a child forked now would collect.                                  *)
(***************************************************************************)

\* Lines of the maps file that collect_ranges does not skip: writable, private.
Wanted(p) == page[p] = User \/ (page[p] \in Node /\ page[p] \notin shared)

Lines ==
  {r \in (0 .. NPages) \X (0 .. NPages) :
     LET starts(p) == p = 0 \/ p \in Apart \/ ~Wanted(p - 1)
     IN  /\ r[1] < r[2]
         /\ \A p \in Pages(r[1], r[2]) : Wanted(p)
         /\ starts(r[1])
         /\ r[2] = NPages \/ ~Wanted(r[2]) \/ r[2] \in Apart
         /\ \A p \in Pages(r[1] + 1, r[2]) : p \notin Apart}

\* "Advance to where big_range begins": the first node that ends behind low,
\* or the first of the list.
FirstEndingBehind(low, w) ==
  LET later == {i \in DOMAIN w : HIGH_ADDR(w[i]) > low}
  IN  IF later = {} THEN 1 ELSE Min(later)

\* metadata_break_range: the first part of low .. high that is not ours.
BreakRange(low, high, w) ==
  LET i == FirstEndingBehind(low, w)
      \* The beginning of the range when the loop looks at node k.
      at[k \in i .. Len(w) + 1] ==
        IF k = i THEN low
        ELSE LET h == HIGH_ADDR(w[k - 1])
             IN  IF h >= at[k - 1] THEN Min({h, high}) ELSE at[k - 1]
      \* Where it stops: behind the last node it is at the first one again.
      stop == Min({k \in i .. Len(w) : LOW_ADDR(w[k]) > at[k]} \cup {Len(w) + 1})
      c == IF stop > Len(w) THEN w[1] ELSE w[stop]
  IN  IF HIGH_ADDR(w[i]) > low /\ LOW_ADDR(w[i]) < high
      THEN [low |-> at[stop],
            high |-> IF LOW_ADDR(c) > at[stop] THEN Min({LOW_ADDR(c), high}) ELSE high]
      ELSE [low |-> low, high |-> high]

\* The parts of a line that are not ours (the loop of collect_ranges).
SubRanges(low, high, w) ==
  LET from[l \in low .. high] ==
        IF l = high THEN {}
        ELSE LET r == BreakRange(l, high, w)
             IN  (IF r.low # r.high THEN {r} ELSE {}) \cup from[r.high]
  IN  from[low]

\* The pieces of at most MAX_RANGE_SIZE a part is cut into.
Chunks(r) ==
  {[low |-> l, high |-> Min({l + MaxRangeSize, r.high})] :
     l \in {x \in Pages(r.low, r.high) : (x - r.low) % MaxRangeSize = 0}}

Ranges ==
  UNION {UNION {Chunks(r) : r \in SubRanges(line[1], line[2], Walk)} : line \in Lines}

(***************************************************************************)
(* Properties.                                                             *)
(***************************************************************************)

\* The child, which walks the list without the lock, comes back to its first
\* node, and has met every mapping whose insertion is complete.
WalkReturns == Len(Walk) <= Cardinality(Node) /\ listed \subseteq ToSet(Walk)

\* Every page of the program's own memory is in exactly one range, and so is
\* scanned for references, by one sibling; and no range includes "memory owned
\* by Forkscan" (alloc.c), except for a mapping that is just being inserted:
\* whatever the list is going through while the process is forked, and however
\* lines and mappings border on each other.
RangesExact ==
  /\ \A p \in Page : page[p] = User =>
       Cardinality({r \in Ranges : p \in Pages(r.low, r.high)}) = 1
  /\ \A r \in Ranges : \A p \in Pages(r.low, r.high) : page[p] \notin listed
=============================================================================
