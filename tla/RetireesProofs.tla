--------------------------- MODULE RetireesProofs ---------------------------
(***************************************************************************)
(* The types and the safety properties of Retirees, for any number of      *)
(* nodes, buffers and threads: as long as no thread overruns a buffer,     *)
(* every reachable state satisfies Safe, and Safe implies what the run of  *)
(* Retirees checks.                                                        *)
(***************************************************************************)
EXTENDS Retirees, FiniteSetTheorems, TLAPS

(***************************************************************************)
(* Types.                                                                  *)
(***************************************************************************)

\* A thread past "head" has a buffer, and the collector has working_data
\* until it is done with it; without this the types are not preserved.
PlacesOK ==
  /\ gc # "idle" => working # NULL
  /\ \A t \in Thread :
       pc[t] \in {"load", "cas", "slot", "pop", "unref"} => retiree_buffer[t] # NULL

TypeInv == TypeOK /\ PlacesOK

\* A list of buffers without its i-th element is a list of buffers.
LEMMA RemoveAtType ==
  ASSUME NEW S, NEW s \in Seq(S), NEW i \in 1 .. Len(s)
  PROVE  RemoveAt(s, i) \in Seq(S)
BY DEF RemoveAt

\* What FillWith writes has the types of the buffer fields.
LEMMA FillWithType ==
  ASSUME TypeOK, NEW b \in Buffer, NEW n \in 0 .. Capacity,
         NEW S \in SUBSET Word, NEW s \in [0 .. n - 1 -> S], FillWith(b, s, n)
  PROVE  /\ addrs' \in [Buffer -> [Slots -> Word]]
         /\ marks' \in [Buffer -> SUBSET Slots]
         /\ n_addrs' \in [Buffer -> 0 .. Capacity]
<1> USE ConstantsAssumption DEF TypeOK
<1>1. [i \in Slots |-> IF i < n THEN s[i] ELSE addrs[b][i]] \in [Slots -> Word]
  BY DEF Slots
<1> QED
  BY <1>1 DEF FillWith

\* The list after push_back is a list of buffers.
LEMMA LinkedType ==
  ASSUME retirees \in Seq(Buffer), NEW ab \in Buffer
  PROVE  Linked(ab) \in Seq(Buffer)
<1>1. CASE \E i \in DOMAIN retirees : retirees[i] = g_last
  <2> DEFINE k == CHOOSE i \in DOMAIN retirees : retirees[i] = g_last
  <2>1. k \in 1 .. Len(retirees)
    BY <1>1
  <2> HIDE DEF k
  <2>2. SubSeq(retirees, 1, k) \in Seq(Buffer)
    BY <2>1
  <2>3. Linked(ab) = Append(SubSeq(retirees, 1, k), ab)
    BY <1>1 DEF Linked, k
  <2> QED
    BY <2>2, <2>3
<1>2. CASE ~\E i \in DOMAIN retirees : retirees[i] = g_last
  BY <1>2 DEF Linked
<1> QED
  BY <1>1, <1>2

LEMMA TypeInvInit == Init => TypeInv
BY ConstantsAssumption DEF Init, TypeInv, TypeOK, PlacesOK, Slots, Word

\* Every action of Retirees keeps the types.
LEMMA TypeInvStep == TypeInv /\ [Next]_vars => TypeInv'
<1> SUFFICES ASSUME TypeInv, [Next]_vars PROVE TypeInv'
  OBVIOUS
<1> USE ConstantsAssumption
<1>1. CASE UNCHANGED vars
  BY <1>1 DEF vars, TypeInv, TypeOK, PlacesOK, userVars, gcVars, poolVars, listVars, bufVars, threadVars
<1>2. ASSUME NEW n \in Node, Malloc(n) \/ Retire(n) \/ Drop(n) PROVE TypeInv'
  BY <1>2 DEF Malloc, Retire, Drop, TypeInv, TypeOK, PlacesOK, gcVars, poolVars, listVars, bufVars, threadVars
<1>3. CASE Aggregate
  <2>1. PICK batch \in SUBSET pending, b \in Buffer, n \in 1 .. Capacity - 1 :
          LET old == IF uncollected = NULL THEN {} ELSE Addresses(uncollected)
          IN /\ pending' = pending \ batch
             /\ IF uncollected # NULL
                  THEN b = uncollected /\ UNCHANGED poolVars
                  ELSE MakeAggregateBuffer(b)
             /\ working' = b
             /\ \E s \in [0 .. n - 1 -> batch \cup old] : FillWith(b, s, n)
    BY <1>3 DEF Aggregate
  <2>2. /\ batch \cup (IF uncollected = NULL THEN {} ELSE Addresses(uncollected)) \in SUBSET Word
        /\ n \in 0 .. Capacity
    <3>1. pending \subseteq Node /\ Addresses(uncollected) \subseteq Node
      BY DEF Addresses, TypeInv, TypeOK
    <3>2. Node \subseteq Word
      BY DEF Word
    <3>3. n \in 0 .. Capacity
      OBVIOUS
    <3> QED
      BY <3>1, <3>2, <3>3
  <2>3. /\ addrs' \in [Buffer -> [Slots -> Word]]
        /\ marks' \in [Buffer -> SUBSET Slots]
        /\ n_addrs' \in [Buffer -> 0 .. Capacity]
    BY <2>1, <2>2, FillWithType DEF TypeInv
  <2>4. mapped' \in SUBSET Buffer /\ available' \in SUBSET Buffer
    BY <2>1 DEF MakeAggregateBuffer, poolVars, TypeInv, TypeOK
  <2> QED
    BY <1>3, <2>1, <2>3, <2>4 DEF Aggregate, TypeInv, TypeOK, PlacesOK, listVars, threadVars
<1>4. CASE Fork
  BY <1>4 DEF Fork, Addresses, TypeInv, TypeOK, PlacesOK, userVars, poolVars, listVars, bufVars, threadVars
<1>5. CASE Scan
  BY <1>5 DEF Scan, Filled, Slots, TypeInv, TypeOK, PlacesOK, userVars, poolVars, listVars, threadVars
<1>6. CASE PushBack
  <2>1. working \in Buffer
    BY <1>6 DEF PushBack, TypeInv, TypeOK, PlacesOK
  <2>2. retirees' \in Seq(Buffer)
    BY <1>6, <2>1, LinkedType DEF PushBack, TypeInv, TypeOK
  <2>3. /\ ref_count' \in [Buffer -> Int]
        /\ free_idx' \in [Buffer -> 0 .. Capacity]
    BY <1>6, <2>1 DEF PushBack, TypeInv, TypeOK
  <2> QED
    BY <1>6, <2>1, <2>2, <2>3 DEF PushBack, TypeInv, TypeOK, PlacesOK, userVars, poolVars, threadVars
<1>7. CASE Uncollect
  <2>1. PICK b \in Buffer, n \in 0 .. Capacity :
          /\ MakeAggregateBuffer(b)
          /\ uncollected' = b
          /\ \E s \in [0 .. n - 1 -> MarkedAddresses(working)] : FillWith(b, s, n)
    BY <1>7 DEF Uncollect
  <2>2. MarkedAddresses(working) \in SUBSET Word
    BY <1>7 DEF Uncollect, MarkedAddresses, TypeInv, TypeOK, PlacesOK
  <2>3. /\ addrs' \in [Buffer -> [Slots -> Word]]
        /\ marks' \in [Buffer -> SUBSET Slots]
        /\ n_addrs' \in [Buffer -> 0 .. Capacity]
    BY <2>1, <2>2, FillWithType DEF TypeInv
  <2> QED
    BY <1>7, <2>1, <2>3 DEF Uncollect, MakeAggregateBuffer, TypeInv, TypeOK, PlacesOK, userVars, listVars, threadVars
<1>8. CASE UnrefWorking
  BY <1>8 DEF UnrefWorking, UnrefBuffer, TypeInv, TypeOK, PlacesOK, userVars, listVars, threadVars
<1>9. ASSUME NEW t \in Thread, FreePtrs(t) \/ Exit(t) PROVE TypeInv'
  <2>1. CASE GetRetireeBuffer(t)
    <3>1. Head(retirees) \in Buffer
      BY <2>1 DEF GetRetireeBuffer, TypeInv, TypeOK
    <3>2. /\ retiree_buffer' \in [Thread -> Buffer \cup {NULL}]
          /\ ref_count' \in [Buffer -> Int]
          /\ begin_idx' \in [Thread -> 0 .. Capacity]
          /\ end_idx' \in [Thread -> 0 .. Capacity]
      BY <2>1, <3>1 DEF GetRetireeBuffer, TypeInv, TypeOK
    <3>3. PlacesOK'
      BY <2>1, <3>1 DEF GetRetireeBuffer, TypeInv, TypeOK, PlacesOK, gcVars
    <3> QED
      BY <2>1, <3>2, <3>3 DEF GetRetireeBuffer, TypeInv, TypeOK, userVars, gcVars, poolVars, listVars
  <2>2. CASE CheckDone(t)
    BY <2>2 DEF CheckDone, NeedsRange, TypeInv, TypeOK, PlacesOK, userVars, gcVars, poolVars, listVars, bufVars
  <2>3. CASE LoadIdx(t)
    BY <2>3 DEF LoadIdx, TypeInv, TypeOK, PlacesOK, userVars, gcVars, poolVars, listVars, bufVars
  <2>4. CASE ClaimRange(t)
    <3>1. retiree_buffer[t] \in Buffer
      BY <2>4 DEF ClaimRange, TypeInv, TypeOK, PlacesOK
    <3>2. EndOfRange(t) \in 0 .. Capacity
      <4>1. /\ n_addrs[retiree_buffer[t]] \in 0 .. Capacity
            /\ idx[t] \in 0 .. Capacity
        BY <3>1 DEF TypeInv, TypeOK
      <4>2. RangeSz \in Nat \ {0} /\ Capacity \in Nat
        OBVIOUS
      <4> HIDE ConstantsAssumption
      <4> QED
        BY <4>1, <4>2 DEF EndOfRange
    <3>3. /\ free_idx \in [Buffer -> 0 .. Capacity]
          /\ begin_idx \in [Thread -> 0 .. Capacity]
          /\ end_idx \in [Thread -> 0 .. Capacity]
          /\ idx \in [Thread -> 0 .. Capacity]
          /\ pc \in [Thread -> {"head", "load", "cas", "slot", "free", "pop", "unref", "gone"}]
      BY DEF TypeInv, TypeOK
    <3>4. /\ free_idx' \in [Buffer -> 0 .. Capacity]
          /\ begin_idx' \in [Thread -> 0 .. Capacity]
          /\ end_idx' \in [Thread -> 0 .. Capacity]
          /\ idx' \in [Thread -> 0 .. Capacity]
          /\ pc' \in [Thread -> {"head", "load", "cas", "slot", "free", "pop", "unref", "gone"}]
      <4>1. CASE free_idx[retiree_buffer[t]] = idx[t]
        BY <2>4, <3>1, <3>2, <3>3, <4>1 DEF ClaimRange
      <4>2. CASE free_idx[retiree_buffer[t]] # idx[t]
        BY <2>4, <3>3, <4>2 DEF ClaimRange
      <4> QED
        BY <4>1, <4>2
    <3>5. PlacesOK'
      BY <2>4 DEF ClaimRange, TypeInv, TypeOK, PlacesOK, gcVars
    <3> QED
      BY <2>4, <3>4, <3>5 DEF ClaimRange, TypeInv, TypeOK, userVars, gcVars, poolVars, listVars
  <2>5. CASE TakeSlot(t)
    <3>1. retiree_buffer[t] \in Buffer /\ begin_idx[t] \in Slots
      BY <2>5 DEF TakeSlot, Slots, TypeInv, TypeOK, PlacesOK
    <3>2. addrs[retiree_buffer[t]][begin_idx[t]] \in Word
      BY <3>1 DEF TypeInv, TypeOK
    <3>3. addrs' \in [Buffer -> [Slots -> Word]]
      <4>1. Removed \in Word
        BY DEF Word
      <4>2. [addrs[retiree_buffer[t]] EXCEPT ![begin_idx[t]] = Removed] \in [Slots -> Word]
        BY <3>1, <4>1 DEF TypeInv, TypeOK
      <4> QED
        <5>1. addrs \in [Buffer -> [Slots -> Word]]
          BY DEF TypeInv, TypeOK
        <5>2. addrs' \in {addrs, [addrs EXCEPT ![retiree_buffer[t]] =
                                   [addrs[retiree_buffer[t]] EXCEPT ![begin_idx[t]] = Removed]]}
          BY <2>5 DEF TakeSlot
        <5> QED
          BY <3>1, <4>2, <5>1, <5>2
    <3>4. ptr' \in [Thread -> Word]
      BY <2>5, <3>2 DEF TakeSlot, TypeInv, TypeOK
    <3>5. begin_idx' \in [Thread -> 0 .. Capacity]
      <4>1. begin_idx[t] + 1 \in 0 .. Capacity
        BY <3>1 DEF Slots
      <4> QED
        BY <2>5, <4>1 DEF TakeSlot, TypeInv, TypeOK
    <3>6. /\ pc' \in [Thread -> {"head", "load", "cas", "slot", "free", "pop", "unref", "gone"}]
          /\ PlacesOK'
      BY <2>5 DEF TakeSlot, TypeInv, TypeOK, PlacesOK, gcVars
    <3> QED
      BY <2>5, <3>3, <3>4, <3>5, <3>6 DEF TakeSlot, TypeInv, TypeOK, userVars, gcVars, poolVars, listVars
  <2>6. CASE Free(t)
    BY <2>6 DEF Free, Word, TypeInv, TypeOK, PlacesOK, gcVars, poolVars, listVars, bufVars
  <2>7. CASE PopRetireeBuffer(t)
    <3>1. retirees' \in Seq(Buffer) /\ g_last' \in Buffer \cup {NULL}
      <4>1. CASE \E i \in DOMAIN retirees : retirees[i] = retiree_buffer[t]
        <5> DEFINE k == CHOOSE i \in DOMAIN retirees : retirees[i] = retiree_buffer[t]
        <5>1. k \in 1 .. Len(retirees)
          <6>1. k \in DOMAIN retirees
            BY <4>1
          <6> HIDE DEF k
          <6>2. retirees \in Seq(Buffer)
            BY DEF TypeInv, TypeOK
          <6> QED
            BY <6>1, <6>2
        <5>2. retirees' = RemoveAt(retirees, k) /\ g_last' \in {NULL, g_last}
          BY <2>7, <4>1 DEF PopRetireeBuffer
        <5> HIDE DEF k
        <5> QED
          BY <5>1, <5>2, RemoveAtType DEF TypeInv, TypeOK
      <4>2. CASE ~\E i \in DOMAIN retirees : retirees[i] = retiree_buffer[t]
        BY <2>7, <4>2 DEF PopRetireeBuffer, listVars, TypeInv, TypeOK
      <4> QED
        BY <4>1, <4>2
    <3> QED
      BY <2>7, <3>1 DEF PopRetireeBuffer, TypeInv, TypeOK, PlacesOK, userVars, gcVars, poolVars, bufVars
  <2>8. CASE DropBuffer(t)
    <3>1. retiree_buffer[t] \in Buffer
      BY <2>8 DEF DropBuffer, TypeInv, TypeOK, PlacesOK
    <3>2. ref_count' \in [Buffer -> Int] /\ available' \in SUBSET Buffer
      BY <2>8, <3>1 DEF DropBuffer, UnrefBuffer, TypeInv, TypeOK
    <3>3. /\ pc' \in [Thread -> {"head", "load", "cas", "slot", "free", "pop", "unref", "gone"}]
          /\ retiree_buffer' \in [Thread -> Buffer \cup {NULL}]
          /\ PlacesOK'
      BY <2>8 DEF DropBuffer, TypeInv, TypeOK, PlacesOK, gcVars
    <3> QED
      BY <2>8, <3>2, <3>3 DEF DropBuffer, TypeInv, TypeOK, userVars, gcVars, listVars
  <2>9. CASE Exit(t)
    BY <2>9 DEF Exit, TypeInv, TypeOK, PlacesOK, userVars, gcVars, poolVars, listVars, bufVars
  <2> QED
    BY <1>9, <2>1, <2>2, <2>3, <2>4, <2>5, <2>6, <2>7, <2>8, <2>9 DEF FreePtrs
<1> QED
  BY <1>1, <1>2, <1>3, <1>4, <1>5, <1>6, <1>7, <1>8, <1>9 DEF Next, Collector

\* The variables of Retirees keep their types, for any constants.
THEOREM TypeCorrect == Spec => []TypeOK
<1>1. TypeInv => TypeOK
  BY DEF TypeInv
<1> QED
  BY <1>1, TypeInvInit, TypeInvStep, PTL DEF Spec

(***************************************************************************)
(* The inductive invariant.                                                *)
(***************************************************************************)

\* The collector owns working_data alone: it is not published yet.
Filling == gc \in {"fork", "scan", "push"}

\* The collector still has the reference push_back gave it.
CollectorRefs(b) == gc \in {"uncollect", "unref"} /\ b = working

Listed(b) == \E i \in DOMAIN retirees : retirees[i] = b
Holders(b) == {t \in Thread : retiree_buffer[t] = b}

\* Threads may find slots of b to free.
Published(b) == Listed(b) \/ Holders(b) # {}

\* The list has no duplicates and g_last_retiree_buffer is its end; of the
\* buffers on it only the one at its head is in use.
ListOK ==
  /\ \A i, j \in DOMAIN retirees : retirees[i] = retirees[j] => i = j
  /\ g_last = IF retirees = <<>> THEN NULL ELSE retirees[Len(retirees)]
  /\ \A i \in DOMAIN retirees : Holders(retirees[i]) # {} => i = 1

\* Where the collector is, and which buffers it has.
PhaseOK ==
  /\ gc = "idle" <=> working = NULL
  /\ uncollected # NULL => gc \in {"idle", "unref"}

\* Every mapped buffer has one role.
RolesOK ==
  \A b \in Buffer :
    /\ b \in mapped <=> Published(b) \/ b \in available \/ b = working \/ b = uncollected
    /\ b \in available => ~Published(b) /\ b # working /\ b # uncollected
    /\ b = uncollected => ~Published(b) /\ b # working
    /\ Filling /\ b = working => ~Published(b)

\* Reference counts are exact.
RefCountOK ==
  \A b \in Buffer :
    ref_count[b] = Cardinality(Holders(b)) + IF CollectorRefs(b) THEN 1 ELSE 0

\* Until every range of a buffer is claimed it stays listed with something to
\* claim; after that some thread that has not popped it yet keeps it.
ClaimsOK ==
  /\ Filling => n_addrs[working] > 0
  /\ \A b \in Buffer : Published(b) => free_idx[b] <= n_addrs[b]
  /\ \A b \in Buffer : Listed(b) /\ free_idx[b] >= n_addrs[b] =>
       \E t \in Holders(b) : pc[t] # "unref"
  /\ \A b \in Buffer : (Holders(b) # {} \/ CollectorRefs(b)) /\ free_idx[b] < n_addrs[b] =>
       Listed(b)

\* The range of a thread, at each place of forkscan_util_free_ptrs.
ThreadsOK ==
  \A t \in Thread :
    /\ pc[t] \in {"load", "cas", "pop", "unref"} => begin_idx[t] = end_idx[t]
    /\ pc[t] = "slot" => begin_idx[t] < end_idx[t]
    /\ begin_idx[t] <= end_idx[t]
    /\ pc[t] = "unref" => ~Listed(retiree_buffer[t])
    /\ pc[t] \in {"pop", "unref"} =>
         free_idx[retiree_buffer[t]] >= n_addrs[retiree_buffer[t]]
    /\ retiree_buffer[t] # NULL => end_idx[t] <= free_idx[retiree_buffer[t]]

\* Slot i of the thread's buffer is in the range the thread still has to do.
InRange(t, i) == begin_idx[t] <= i /\ i < end_idx[t]

\* Threads that free from the same buffer have disjoint ranges.
RangesDisjoint ==
  \A t, u \in Thread : \A i \in Slots :
    /\ t # u /\ retiree_buffer[t] # NULL /\ retiree_buffer[t] = retiree_buffer[u]
    /\ InRange(t, i)
    => ~InRange(u, i)

\* An unmarked slot that is unclaimed or in a range has not been freed yet.
UnfreedOK ==
  \A b \in Buffer : \A i \in Slots :
    /\ Published(b) /\ i \in Filled(b) /\ i \notin marks[b]
    /\ i >= free_idx[b] \/ \E t \in Holders(b) : InRange(t, i)
    => addrs[b][i] \in Node

\* Slot i of b carries a node that is still to be scanned, copied or freed.
Tracks(b, i) ==
  /\ i \in Filled(b)
  /\ addrs[b][i] \in Node
  /\ \/ Filling /\ b = working
     \/ b = uncollected
     \/ gc = "uncollect" /\ b = working /\ i \in marks[b]
     \/ Published(b) /\ i \notin marks[b]

\* A retired node is in one slot at most ...
SlotsUnique ==
  \A b, c \in Buffer : \A i, j \in Slots :
    Tracks(b, i) /\ Tracks(c, j) /\ addrs[b][i] = addrs[c][j] => b = c /\ i = j

\* ... and then neither pending nor free, ...
SlotsRetired ==
  /\ \A n \in pending : heap[n] = "retired"
  /\ \A b \in Buffer : \A i \in Slots : Tracks(b, i) =>
       heap[addrs[b][i]] = "retired" /\ addrs[b][i] \notin pending

\* ... or in the hands of the one thread that is about to free it.
FreeingOK ==
  \A t \in Thread : pc[t] = "free" =>
    /\ ptr[t] \in Node
    /\ ptr[t] \notin held
    /\ heap[ptr[t]] = "retired"
    /\ ptr[t] \notin pending
    /\ \A b \in Buffer : \A i \in Slots : Tracks(b, i) => addrs[b][i] # ptr[t]
    /\ \A u \in Thread : u # t /\ pc[u] = "free" => ptr[u] # ptr[t]

\* The buffers the collector works on are filled with nodes.
CollectorOK ==
  /\ Filling => \A i \in Filled(working) : addrs[working][i] \in Node
  /\ gc = "uncollect" => \A i \in Filled(working) \cap marks[working] :
                            addrs[working][i] \in Node
  /\ uncollected # NULL => \A i \in Filled(uncollected) : addrs[uncollected][i] \in Node

\* What is on its way to being freed is unreferenced.
DeadOK ==
  /\ \A b \in Buffer : \A i \in Slots :
       Published(b) /\ i \in DeadSlots(b) => addrs[b][i] \notin held
  /\ gc = "scan" => \A i \in Filled(working) :
                        addrs[working][i] \in held => addrs[working][i] \in snapshot
  /\ gc = "push" => \A i \in DeadSlots(working) : addrs[working][i] \notin held

\* Everything above, which holds until a thread overruns its buffer.
Safe ==
  /\ ListOK /\ PhaseOK /\ RolesOK /\ RefCountOK /\ ClaimsOK /\ ThreadsOK
  /\ RangesDisjoint /\ UnfreedOK /\ SlotsUnique /\ SlotsRetired /\ FreeingOK
  /\ CollectorOK /\ DeadOK

\* A thread that has overrun its buffer keeps it, so that Overrun is stable.
StuckOK ==
  \A t \in Thread :
    begin_idx[t] > end_idx[t] \/ (pc[t] = "slot" /\ begin_idx[t] = end_idx[t]) =>
      retiree_buffer[t] # NULL /\ pc[t] \in {"head", "slot", "free", "gone"}

\* The inductive invariant.
IndInv == TypeInv /\ StuckOK /\ (Overrun \/ Safe)

(***************************************************************************)
(* Parts of Safe that a step leaves alone.                                 *)
(***************************************************************************)

\* Who has which buffer does not change.
LEMMA SharingFrame ==
  ASSUME UNCHANGED <<retirees, retiree_buffer>>, NEW b
  PROVE  /\ Listed(b)' <=> Listed(b)
         /\ Holders(b)' = Holders(b)
         /\ Published(b)' <=> Published(b)
BY DEF Listed, Holders, Published

\* The list and who holds its buffers do not change.
LEMMA ListFrame ==
  ASSUME ListOK, UNCHANGED <<listVars, retiree_buffer>>
  PROVE  ListOK'
BY DEF ListOK, Holders, listVars

\* The collector's buffers, the pool and the published buffers do not change.
LEMMA RolesFrame ==
  ASSUME PhaseOK, RolesOK, UNCHANGED <<gc, working, uncollected, poolVars, retirees, retiree_buffer>>
  PROVE  PhaseOK' /\ RolesOK'
BY DEF PhaseOK, RolesOK, Filling, Published, Listed, Holders, poolVars

\* The counts and the references they count do not change.
LEMMA RefCountFrame ==
  ASSUME RefCountOK, UNCHANGED <<gc, working, ref_count, retiree_buffer>>
  PROVE  RefCountOK'
BY DEF RefCountOK, Holders, CollectorRefs

\* The claims and the program counters do not change.
LEMMA ClaimsFrame ==
  ASSUME ClaimsOK, ThreadsOK,
         UNCHANGED <<gc, working, n_addrs, free_idx, retirees, retiree_buffer, pc, begin_idx, end_idx>>
  PROVE  ClaimsOK' /\ ThreadsOK'
BY DEF ClaimsOK, ThreadsOK, Filling, CollectorRefs, Published, Listed, Holders

\* The threads' ranges do not change.
LEMMA RangesFrame ==
  ASSUME RangesDisjoint, UNCHANGED <<retiree_buffer, begin_idx, end_idx>>
  PROVE  RangesDisjoint'
BY DEF RangesDisjoint, InRange

\* No range, mark, or tracked slot changes.
LEMMA UnfreedFrame ==
  ASSUME UnfreedOK,
         UNCHANGED <<addrs, marks, n_addrs, free_idx, retirees, retiree_buffer, begin_idx, end_idx>>
  PROVE  UnfreedOK'
BY DEF UnfreedOK, Filled, Published, Listed, Holders, InRange

\* Which slots track a node does not change.
LEMMA TracksFrame ==
  ASSUME UNCHANGED <<gc, working, uncollected, addrs, marks, n_addrs, retirees, retiree_buffer>>,
         NEW b, NEW i
  PROVE  Tracks(b, i)' <=> Tracks(b, i)
BY DEF Tracks, Filling, Filled, Published, Listed, Holders

\* The collector's buffers keep their contents.
LEMMA CollectorFrame ==
  ASSUME CollectorOK, UNCHANGED <<gc, working, uncollected, addrs, marks, n_addrs>>
  PROVE  CollectorOK'
BY DEF CollectorOK, Filling, Filled

\* The dead slots and what the program holds do not change.
LEMMA DeadFrame ==
  ASSUME DeadOK,
         UNCHANGED <<gc, working, snapshot, held, addrs, marks, n_addrs, retirees, retiree_buffer>>
  PROVE  DeadOK'
BY DEF DeadOK, DeadSlots, Filled, Published, Listed, Holders

\* Filled slots exist, and the collector's buffer does while it collects.
LEMMA FilledSlots ==
  ASSUME TypeInv
  PROVE  /\ \A b \in Buffer : Filled(b) \subseteq Slots
         /\ gc # "idle" => working \in Buffer
<1>1. Capacity \in Nat
  BY ConstantsAssumption
<1>2. n_addrs \in [Buffer -> 0 .. Capacity] /\ working \in Buffer \cup {NULL}
  BY DEF TypeInv, TypeOK
<1> QED
  BY <1>1, <1>2 DEF Filled, Slots, TypeInv, PlacesOK

(***************************************************************************)
(* The program.                                                            *)
(***************************************************************************)

\* The program's steps change no buffer.
LEMMA ProgramFrame ==
  ASSUME Safe, UNCHANGED <<gcVars, poolVars, listVars, bufVars, threadVars>>
  PROVE  /\ ListOK' /\ PhaseOK' /\ RolesOK' /\ RefCountOK' /\ ClaimsOK' /\ ThreadsOK'
         /\ RangesDisjoint' /\ UnfreedOK' /\ SlotsUnique' /\ CollectorOK'
         /\ \A b \in Buffer, i \in Slots : Tracks(b, i)' <=> Tracks(b, i)
<1>1. /\ UNCHANGED <<gc, working, uncollected, snapshot, poolVars, listVars, retirees>>
      /\ UNCHANGED <<addrs, marks, n_addrs, free_idx, ref_count>>
      /\ UNCHANGED <<pc, retiree_buffer, begin_idx, end_idx>>
  BY DEF gcVars, listVars, bufVars, threadVars
<1>2. ListOK' /\ PhaseOK' /\ RolesOK' /\ RefCountOK'
  BY <1>1, ListFrame, RolesFrame, RefCountFrame DEF Safe
<1>3. ClaimsOK' /\ ThreadsOK' /\ RangesDisjoint' /\ UnfreedOK' /\ CollectorOK'
  BY <1>1, ClaimsFrame, RangesFrame, UnfreedFrame, CollectorFrame DEF Safe
<1>4. \A b \in Buffer, i \in Slots : Tracks(b, i)' <=> Tracks(b, i)
  BY <1>1, TracksFrame
<1>5. SlotsUnique'
  BY <1>1, <1>4 DEF SlotsUnique, Safe
<1> QED
  BY <1>2, <1>3, <1>4, <1>5

\* A new node is in no buffer.
LEMMA MallocSafe ==
  ASSUME TypeInv, Safe, NEW n \in Node, Malloc(n)
  PROVE  Safe'
<1>1. /\ UNCHANGED <<pending, gcVars, poolVars, listVars, bufVars, threadVars>>
      /\ heap[n] = "free"
      /\ heap' = [heap EXCEPT ![n] = "live"]
      /\ held' = held \cup {n}
  BY DEF Malloc
<1>2. /\ UNCHANGED <<gc, working, snapshot, addrs, marks, n_addrs, pc, ptr>>
      /\ \A b \in Buffer : Published(b)' <=> Published(b)
      /\ \A b \in Buffer, i \in Slots : Tracks(b, i)' <=> Tracks(b, i)
  BY <1>1, ProgramFrame, SharingFrame DEF gcVars, bufVars, listVars, threadVars
<1>3. SlotsRetired'
  BY <1>1, <1>2 DEF SlotsRetired, Safe, TypeInv, TypeOK
<1>4. FreeingOK'
  BY <1>1, <1>2 DEF FreeingOK, Safe, TypeInv, TypeOK
<1>5. DeadOK'
  <2>1. \A b \in Buffer : \A i \in Slots : Tracks(b, i) => addrs[b][i] # n
    BY <1>1 DEF Safe, SlotsRetired
  <2>2. \A b \in Buffer : \A i \in Slots :
          Published(b) /\ i \in DeadSlots(b) => Tracks(b, i)
    BY DEF DeadSlots, Tracks
  <2>3. Filling => \A i \in Filled(working) : addrs[working][i] # n
    BY <2>1, FilledSlots DEF Filling, Tracks, Safe, CollectorOK
  <2> QED
    BY <1>1, <1>2, <2>1, <2>2, <2>3 DEF DeadOK, DeadSlots, Filled, Filling, Safe
<1> QED
  BY <1>1, <1>3, <1>4, <1>5, ProgramFrame DEF Safe

\* A node that is retired for the first time is in no buffer.
LEMMA RetireSafe ==
  ASSUME TypeInv, Safe, NEW n \in Node, Retire(n)
  PROVE  Safe'
<1>1. /\ UNCHANGED <<held, gcVars, poolVars, listVars, bufVars, threadVars>>
      /\ heap[n] = "live"
      /\ heap' = [heap EXCEPT ![n] = "retired"]
      /\ pending' = pending \cup {n}
  BY DEF Retire
<1>2. /\ UNCHANGED <<gc, working, snapshot, addrs, marks, n_addrs, retirees, retiree_buffer, pc, ptr>>
      /\ \A b \in Buffer, i \in Slots : Tracks(b, i)' <=> Tracks(b, i)
  BY <1>1, ProgramFrame DEF gcVars, bufVars, listVars, threadVars
<1>3. SlotsRetired'
  BY <1>1, <1>2 DEF SlotsRetired, Safe, TypeInv, TypeOK
<1>4. FreeingOK'
  BY <1>1, <1>2 DEF FreeingOK, Safe, TypeInv, TypeOK
<1>5. DeadOK'
  BY <1>1, <1>2, DeadFrame DEF Safe
<1> QED
  BY <1>1, <1>3, <1>4, <1>5, ProgramFrame DEF Safe

\* Nothing depends on a reference that is gone.
LEMMA DropSafe ==
  ASSUME TypeInv, Safe, NEW n \in Node, Drop(n)
  PROVE  Safe'
<1>1. /\ UNCHANGED <<heap, pending, gcVars, poolVars, listVars, bufVars, threadVars>>
      /\ held' = held \ {n}
  BY DEF Drop
<1>2. /\ UNCHANGED <<gc, working, snapshot, addrs, marks, n_addrs, pc, ptr>>
      /\ \A b \in Buffer : Published(b)' <=> Published(b)
      /\ \A b \in Buffer, i \in Slots : Tracks(b, i)' <=> Tracks(b, i)
  BY <1>1, ProgramFrame, SharingFrame DEF gcVars, bufVars, listVars, threadVars
<1>3. SlotsRetired'
  BY <1>1, <1>2 DEF SlotsRetired, Safe
<1>4. FreeingOK'
  BY <1>1, <1>2 DEF FreeingOK, Safe
<1>5. DeadOK'
  BY <1>1, <1>2 DEF DeadOK, DeadSlots, Filled, Safe
<1> QED
  BY <1>1, <1>3, <1>4, <1>5, ProgramFrame DEF Safe

(***************************************************************************)
(* The collector.                                                          *)
(***************************************************************************)

\* FillWith changes one buffer.
LEMMA FillWithOne ==
  ASSUME TypeInv, NEW b \in Buffer, NEW s, NEW n \in 0 .. Capacity, FillWith(b, s, n)
  PROVE  /\ \A c \in Buffer : c # b => addrs'[c] = addrs[c] /\ marks'[c] = marks[c]
                                       /\ n_addrs'[c] = n_addrs[c] /\ Filled(c)' = Filled(c)
         /\ Filled(b)' = 0 .. n - 1
         /\ \A i \in Filled(b)' : i \in Slots /\ addrs'[b][i] = s[i]
<1> USE ConstantsAssumption DEF FillWith, TypeInv, TypeOK
<1>1. \A c \in Buffer : c # b => addrs'[c] = addrs[c] /\ marks'[c] = marks[c]
                                 /\ n_addrs'[c] = n_addrs[c]
  OBVIOUS
<1>2. n_addrs'[b] = n
  OBVIOUS
<1>3. \A i \in Slots : addrs'[b][i] = IF i < n THEN s[i] ELSE addrs[b][i]
  OBVIOUS
<1>4. \A i \in 0 .. n - 1 : i \in Slots /\ addrs'[b][i] = s[i]
  BY <1>3 DEF Slots
<1> QED
  BY <1>1, <1>2, <1>4 DEF Filled

\* An increasing list has no duplicates.
LEMMA ListsInjective ==
  ASSUME NEW S \in SUBSET Node, NEW n \in Nat, NEW s \in [0 .. n - 1 -> S], Lists(s, n, S),
         NEW i \in 0 .. n - 1, NEW j \in 0 .. n - 1, s[i] = s[j]
  PROVE  i = j
<1>1. s[i] \in Nat /\ s[j] \in Nat
  BY ConstantsAssumption
<1> QED
  BY <1>1 DEF Lists

\* Nodes that are in no other place are put into an unpublished buffer.
LEMMA RefillSafe ==
  ASSUME TypeInv, Safe, NEW b \in Buffer, ~Published(b),
         NEW n \in 0 .. Capacity, NEW S \in SUBSET Node, NEW s \in [0 .. n - 1 -> S],
         Lists(s, n, S), FillWith(b, s, n),
         UNCHANGED <<heap, held, retirees, g_last, free_idx, threadVars>>,
         pending' \subseteq pending,
         \A x \in S : heap[x] = "retired" /\ x \notin pending'
                      /\ \A t \in Thread : pc[t] = "free" => ptr[t] # x,
         \A c \in Buffer, i \in Slots : c # b /\ Tracks(c, i)' =>
           Tracks(c, i) /\ addrs[c][i] \notin S
  PROVE  /\ ListOK' /\ ThreadsOK' /\ RangesDisjoint' /\ UnfreedOK' /\ SlotsUnique'
         /\ SlotsRetired' /\ FreeingOK'
         /\ \A i \in Filled(b)' : addrs'[b][i] \in Node
         /\ \A c \in Buffer : c # b => Filled(c)' = Filled(c) /\ addrs'[c] = addrs[c]
                                       /\ marks'[c] = marks[c] /\ n_addrs'[c] = n_addrs[c]
         /\ \A c \in Buffer : Published(c)' <=> Published(c)
         /\ \A c \in Buffer : Published(c)' => c # b
<1>1. /\ \A c \in Buffer : c # b => addrs'[c] = addrs[c] /\ marks'[c] = marks[c]
                                    /\ n_addrs'[c] = n_addrs[c] /\ Filled(c)' = Filled(c)
      /\ Filled(b)' = 0 .. n - 1
      /\ \A i \in Filled(b)' : i \in Slots /\ addrs'[b][i] = s[i] /\ s[i] \in S
  BY FillWithOne
<1>2. UNCHANGED <<listVars, retirees, free_idx, retiree_buffer, pc, begin_idx, end_idx, ptr>>
  BY DEF threadVars, listVars
<1>3. \A c \in Buffer : /\ Published(c)' <=> Published(c)
                        /\ Holders(c)' = Holders(c)
                        /\ Listed(c)' <=> Listed(c)
  BY <1>2, SharingFrame
<1>4. \A t \in Thread : retiree_buffer[t] # b
  BY DEF Published, Holders
<1>5. ListOK' /\ RangesDisjoint'
  BY <1>2, ListFrame, RangesFrame DEF Safe
<1>6. ThreadsOK'
  <2>1. \A t \in Thread : retiree_buffer[t] # NULL =>
          retiree_buffer[t] \in Buffer \ {b}
    BY <1>4 DEF TypeInv, TypeOK
  <2>2. \A t \in Thread : pc[t] \in {"pop", "unref"} => retiree_buffer[t] # NULL
    BY DEF TypeInv, PlacesOK
  <2> QED
    BY <1>1, <1>2, <1>3, <2>1, <2>2 DEF ThreadsOK, Safe
<1>7. UnfreedOK'
  BY <1>1, <1>2, <1>3 DEF UnfreedOK, InRange, Safe
<1>8. SlotsUnique'
  <2> SUFFICES ASSUME NEW c \in Buffer, NEW d \in Buffer, NEW i \in Slots, NEW j \in Slots,
                      Tracks(c, i)', Tracks(d, j)', addrs'[c][i] = addrs'[d][j]
               PROVE  c = d /\ i = j
    BY DEF SlotsUnique
  <2>1. i \in Filled(c)' /\ j \in Filled(d)'
    BY DEF Tracks
  <2>2. CASE c = b /\ d = b
    BY <1>1, <2>1, <2>2, ListsInjective
  <2>3. CASE c = b /\ d # b
    BY <1>1, <2>1, <2>3
  <2>4. CASE c # b /\ d = b
    BY <1>1, <2>1, <2>4
  <2>5. CASE c # b /\ d # b
    BY <1>1, <2>5 DEF Safe, SlotsUnique
  <2> QED
    BY <2>2, <2>3, <2>4, <2>5
<1>9. SlotsRetired'
  <2> SUFFICES ASSUME NEW c \in Buffer, NEW i \in Slots, Tracks(c, i)'
               PROVE  heap[addrs'[c][i]] = "retired" /\ addrs'[c][i] \notin pending'
    BY DEF Safe, SlotsRetired
  <2>1. i \in Filled(c)'
    BY DEF Tracks
  <2> QED
    BY <1>1, <2>1 DEF Safe, SlotsRetired
<1>10. FreeingOK'
  <2>1. ASSUME NEW t \in Thread, pc[t] = "free", NEW c \in Buffer, NEW i \in Slots, Tracks(c, i)'
        PROVE  addrs'[c][i] # ptr[t]
    <3>1. i \in Filled(c)'
      BY <2>1 DEF Tracks
    <3> QED
      BY <1>1, <2>1, <3>1 DEF Safe, FreeingOK
  <2> QED
    BY <1>2, <2>1 DEF Safe, FreeingOK
<1> QED
  BY <1>1, <1>3, <1>5, <1>6, <1>7, <1>8, <1>9, <1>10

\* The buffer MakeAggregateBuffer returns has no role yet.
LEMMA MakeAggregateBufferFresh ==
  ASSUME TypeInv, Safe, NEW b \in Buffer, MakeAggregateBuffer(b)
  PROVE  /\ ~Published(b) /\ b # working /\ b # uncollected
         /\ \A c \in Buffer : c # b => /\ c \in mapped' <=> c \in mapped
                                       /\ c \in available' <=> c \in available
         /\ b \in mapped' /\ b \notin available'
BY DEF MakeAggregateBuffer, RolesOK, Safe

\* A collection starts with what is pending and the leftovers of the last one.
LEMMA AggregateSafe ==
  ASSUME TypeInv, Safe, Aggregate
  PROVE  Safe'
<1> DEFINE old == IF uncollected = NULL THEN {} ELSE Addresses(uncollected)
<1>1. /\ gc = "idle" /\ gc' = "fork" /\ uncollected' = NULL
      /\ UNCHANGED <<heap, held, snapshot, retirees, g_last, listVars, free_idx, ref_count, threadVars>>
      /\ UNCHANGED <<pc, ptr, retiree_buffer>>
  BY DEF Aggregate, listVars, threadVars
<1>2. PICK batch \in SUBSET pending, b \in Buffer, n \in 1 .. Capacity - 1 :
        /\ pending' = pending \ batch
        /\ IF uncollected # NULL
             THEN b = uncollected /\ UNCHANGED poolVars
             ELSE MakeAggregateBuffer(b)
        /\ working' = b
        /\ \E s \in [0 .. n - 1 -> batch \cup old] :
             Lists(s, n, batch \cup old) /\ FillWith(b, s, n)
  BY DEF Aggregate
<1>3. PICK s \in [0 .. n - 1 -> batch \cup old] :
        Lists(s, n, batch \cup old) /\ FillWith(b, s, n)
  BY <1>2
<1>4. n \in 0 .. Capacity /\ n > 0
  BY ConstantsAssumption
<1>5. batch \cup old \in SUBSET Node
  BY DEF Addresses, TypeInv, TypeOK
<1>6. working = NULL /\ b # NULL /\ ~Published(b)
  BY <1>1, <1>2, MakeAggregateBufferFresh, ConstantsAssumption DEF Safe, PhaseOK, RolesOK
<1>7. \A x \in old : \E i \in Slots : uncollected = b /\ Tracks(b, i) /\ addrs[b][i] = x
  <2> SUFFICES ASSUME NEW x \in old
               PROVE  \E i \in Slots : uncollected = b /\ Tracks(b, i) /\ addrs[b][i] = x
    OBVIOUS
  <2>1. uncollected = b /\ uncollected \in Buffer
    BY <1>2
  <2>2. PICK i \in Filled(b) : addrs[b][i] = x /\ x \in Node
    BY <2>1, <1>6 DEF Addresses
  <2>3. i \in Slots
    BY FilledSlots
  <2> QED
    BY <2>1, <2>2, <2>3 DEF Tracks
<1>8. \A x \in batch \cup old : /\ heap[x] = "retired" /\ x \notin pending'
                               /\ \A t \in Thread : pc[t] = "free" => ptr[t] # x
  <2> SUFFICES ASSUME NEW x \in batch \cup old
               PROVE  /\ heap[x] = "retired" /\ x \notin pending'
                      /\ \A t \in Thread : pc[t] = "free" => ptr[t] # x
    OBVIOUS
  <2>1. CASE x \in batch
    BY <1>2, <2>1 DEF Safe, SlotsRetired, FreeingOK
  <2>2. CASE x \in old
    BY <1>2, <1>7, <2>2 DEF Safe, SlotsRetired, FreeingOK
  <2> QED
    BY <2>1, <2>2
<1>9. \A c \in Buffer, i \in Slots : c # b /\ Tracks(c, i)' =>
        Tracks(c, i) /\ addrs[c][i] \notin batch \cup old
  <2> SUFFICES ASSUME NEW c \in Buffer, NEW i \in Slots, c # b, Tracks(c, i)'
               PROVE  Tracks(c, i) /\ addrs[c][i] \notin batch \cup old
    OBVIOUS
  <2>1. addrs'[c] = addrs[c] /\ marks'[c] = marks[c] /\ Filled(c)' = Filled(c)
    BY <1>3, <1>4, FillWithOne
  <2>2. Published(c)' <=> Published(c)
    BY <1>1, SharingFrame
  <2>3. c # uncollected'
    BY <1>1, ConstantsAssumption
  <2>4. Tracks(c, i)
    BY <1>1, <1>2, <2>1, <2>2, <2>3 DEF Tracks
  <2>5. addrs[c][i] \notin batch
    BY <2>4 DEF Safe, SlotsRetired
  <2>6. addrs[c][i] \notin old
    BY <1>7, <2>4 DEF Safe, SlotsUnique
  <2> QED
    BY <2>4, <2>5, <2>6
<1>10. pending' \subseteq pending
  BY <1>2
<1> HIDE DEF old
<1>11. /\ ListOK' /\ ThreadsOK' /\ RangesDisjoint' /\ UnfreedOK' /\ SlotsUnique'
       /\ SlotsRetired' /\ FreeingOK'
       /\ \A i \in Filled(b)' : addrs'[b][i] \in Node
       /\ \A c \in Buffer : c # b => Filled(c)' = Filled(c) /\ addrs'[c] = addrs[c]
                                     /\ marks'[c] = marks[c] /\ n_addrs'[c] = n_addrs[c]
       /\ \A c \in Buffer : Published(c)' <=> Published(c)
       /\ \A c \in Buffer : Published(c)' => c # b
  BY <1>1, <1>3, <1>4, <1>5, <1>6, <1>8, <1>9, <1>10, RefillSafe
<1>12. PhaseOK' /\ RolesOK'
  <2>1. PhaseOK'
    BY <1>1, <1>2, <1>6 DEF PhaseOK
  <2>2. /\ \A c \in Buffer : c # b => /\ c \in mapped' <=> c \in mapped
                                      /\ c \in available' <=> c \in available
        /\ b \in mapped' /\ b \notin available'
    <3>1. CASE uncollected # NULL
      BY <1>2, <3>1 DEF RolesOK, poolVars, Safe
    <3>2. CASE uncollected = NULL
      BY <1>2, <3>2, MakeAggregateBufferFresh
    <3> QED
      BY <3>1, <3>2
  <2>3. \A c \in Buffer : c # uncollected' /\ c # working /\ (c = uncollected => c = b)
    BY <1>1, <1>2, <1>6, ConstantsAssumption
  <2>4. working' = b
    BY <1>2
  <2>5. RolesOK'
    BY <1>11, <2>2, <2>3, <2>4 DEF RolesOK, Safe
  <2> QED
    BY <2>1, <2>5
<1>13. RefCountOK'
  <2>1. \A c \in Buffer : Holders(c)' = Holders(c) /\ ~CollectorRefs(c) /\ ~CollectorRefs(c)'
    BY <1>1 DEF Holders, CollectorRefs
  <2> QED
    BY <1>1, <2>1 DEF RefCountOK, Safe
<1>14. ClaimsOK'
  <2>1. n_addrs'[b] = n
    BY <1>3 DEF FillWith, TypeInv, TypeOK
  <2>2. \A c \in Buffer : /\ Holders(c)' = Holders(c) /\ (Listed(c)' <=> Listed(c))
                          /\ ~CollectorRefs(c)'
    BY <1>1, SharingFrame DEF CollectorRefs
  <2>3. \A c \in Buffer : Listed(c) \/ Holders(c) # {} => c # b
    BY <1>6 DEF Published
  <2> QED
    BY <1>1, <1>2, <1>4, <1>11, <2>1, <2>2, <2>3 DEF ClaimsOK, Safe
<1>15. CollectorOK'
  BY <1>1, <1>2, <1>11 DEF CollectorOK
<1>16. DeadOK'
  BY <1>1, <1>11 DEF DeadOK, DeadSlots, Safe
<1> QED
  BY <1>11, <1>12, <1>13, <1>14, <1>15, <1>16 DEF Safe

\* The child is forked.
LEMMA ForkSafe ==
  ASSUME TypeInv, Safe, Fork
  PROVE  Safe'
<1>1. /\ gc = "fork" /\ gc' = "scan"
      /\ snapshot' = held \cap Addresses(working)
      /\ UNCHANGED <<heap, held, pending, working, uncollected, poolVars, listVars, retirees>>
      /\ UNCHANGED <<addrs, marks, n_addrs, free_idx, ref_count>>
      /\ UNCHANGED <<pc, retiree_buffer, begin_idx, end_idx, ptr>>
  BY DEF Fork, userVars, listVars, bufVars, threadVars
<1>2. \A b : /\ Published(b)' <=> Published(b)
             /\ Holders(b)' = Holders(b)
             /\ Listed(b)' <=> Listed(b)
             /\ CollectorRefs(b)' <=> CollectorRefs(b)
  BY <1>1, SharingFrame DEF CollectorRefs
<1>3. ListOK' /\ RangesDisjoint' /\ UnfreedOK'
  BY <1>1, ListFrame, RangesFrame, UnfreedFrame DEF Safe
<1>4. PhaseOK' /\ RolesOK'
  BY <1>1, <1>2 DEF PhaseOK, RolesOK, Filling, poolVars, Safe
<1>5. RefCountOK' /\ ClaimsOK' /\ ThreadsOK'
  BY <1>1, <1>2 DEF RefCountOK, ClaimsOK, ThreadsOK, Filling, Safe
<1>6. \A b \in Buffer, i \in Slots : Tracks(b, i)' <=> Tracks(b, i)
  BY <1>1, <1>2 DEF Tracks, Filling, Filled
<1>7. SlotsUnique' /\ SlotsRetired' /\ FreeingOK'
  BY <1>1, <1>6 DEF SlotsUnique, SlotsRetired, FreeingOK, Safe
<1>8. CollectorOK'
  BY <1>1 DEF CollectorOK, Filling, Filled, Safe
<1>9. DeadOK'
  <2>1. \A i \in Filled(working) : addrs[working][i] \in held => addrs[working][i] \in snapshot'
    BY <1>1 DEF Addresses, TypeInv, TypeOK
  <2> QED
    BY <1>1, <1>2, <2>1 DEF DeadOK, DeadSlots, Filled, Safe
<1> QED
  BY <1>3, <1>4, <1>5, <1>7, <1>8, <1>9 DEF Safe

\* The scan marks what is referenced; nobody else looks at the buffer yet.
LEMMA ScanSafe ==
  ASSUME TypeInv, Safe, Scan
  PROVE  Safe'
<1>1. /\ gc = "scan" /\ gc' = "push"
      /\ UNCHANGED <<heap, held, pending, working, uncollected, poolVars, listVars, retirees>>
      /\ UNCHANGED <<addrs, n_addrs, free_idx, ref_count>>
      /\ UNCHANGED <<pc, retiree_buffer, begin_idx, end_idx, ptr>>
  BY DEF Scan, userVars, listVars, threadVars
<1>2. working \in Buffer /\ ~Published(working)
  BY <1>1, FilledSlots DEF Safe, RolesOK, Filling
<1>3. /\ \A b \in Buffer : b # working => marks'[b] = marks[b]
      /\ \A i \in Filled(working) : addrs[working][i] \in snapshot => i \in marks'[working]
  <2>1. PICK found \in SUBSET Addresses(working) :
          /\ snapshot \subseteq found
          /\ marks' = [marks EXCEPT ![working] =
                         @ \cup {i \in Filled(working) : addrs[working][i] \in found}]
    BY DEF Scan
  <2> QED
    BY <1>2, <2>1 DEF TypeInv, TypeOK
<1>4. \A b : /\ Published(b)' <=> Published(b)
             /\ Holders(b)' = Holders(b)
             /\ Listed(b)' <=> Listed(b)
             /\ CollectorRefs(b)' <=> CollectorRefs(b)
             /\ Filled(b)' = Filled(b)
  BY <1>1, SharingFrame DEF CollectorRefs, Filled
<1>5. ListOK' /\ RangesDisjoint'
  BY <1>1, ListFrame, RangesFrame DEF Safe
<1>6. PhaseOK' /\ RolesOK'
  BY <1>1, <1>4 DEF PhaseOK, RolesOK, Filling, poolVars, Safe
<1>7. RefCountOK' /\ ClaimsOK' /\ ThreadsOK'
  BY <1>1, <1>4 DEF RefCountOK, ClaimsOK, ThreadsOK, Filling, Safe
<1>8. UnfreedOK'
  BY <1>1, <1>2, <1>3, <1>4 DEF UnfreedOK, InRange, Safe
<1>9. \A b \in Buffer, i \in Slots : Tracks(b, i)' <=> Tracks(b, i)
  BY <1>1, <1>2, <1>3, <1>4 DEF Tracks, Filling
<1>10. SlotsUnique' /\ SlotsRetired' /\ FreeingOK'
  BY <1>1, <1>9 DEF SlotsUnique, SlotsRetired, FreeingOK, Safe
<1>11. CollectorOK'
  BY <1>1, <1>4 DEF CollectorOK, Filling, PhaseOK, Safe
<1>12. DeadOK'
  BY <1>1, <1>2, <1>3, <1>4 DEF DeadOK, DeadSlots, Safe
<1> QED
  BY <1>5, <1>6, <1>7, <1>8, <1>10, <1>11, <1>12 DEF Safe

\* The last pointer is right, so push_back appends.
LEMMA PushBackAppends ==
  ASSUME TypeInv, Safe, PushBack
  PROVE  retirees' = Append(retirees, working)
<1>1. retirees \in Seq(Buffer) /\ working \in Buffer
  BY FilledSlots DEF PushBack, TypeInv, TypeOK
<1>2. CASE retirees = <<>>
  <2>1. g_last = NULL
    BY <1>2 DEF Safe, ListOK
  <2> QED
    BY <1>1, <1>2, <2>1 DEF PushBack
<1>3. CASE retirees # <<>>
  <2>1. Len(retirees) \in DOMAIN retirees /\ g_last = retirees[Len(retirees)]
    BY <1>1, <1>3 DEF Safe, ListOK
  <2>2. g_last # NULL
    BY <1>1, <2>1, ConstantsAssumption
  <2> DEFINE k == CHOOSE i \in DOMAIN retirees : retirees[i] = g_last
  <2>3. k = Len(retirees)
    <3>1. k \in DOMAIN retirees /\ retirees[k] = g_last
      BY <2>1
    <3> HIDE DEF k
    <3> QED
      BY <2>1, <3>1 DEF Safe, ListOK
  <2>4. retirees' = Append(SubSeq(retirees, 1, k), working)
    BY <2>1, <2>2 DEF PushBack, Linked
  <2> HIDE DEF k
  <2>5. SubSeq(retirees, 1, k) = retirees
    BY <1>1, <2>3
  <2> QED
    BY <2>4, <2>5
<1> QED
  BY <1>2, <1>3

\* The scanned buffer is published.
LEMMA PushBackSafe ==
  ASSUME TypeInv, Safe, PushBack
  PROVE  Safe'
<1>1. /\ gc = "push" /\ gc' = "uncollect" /\ g_last' = working
      /\ UNCHANGED <<heap, held, pending, working, uncollected, mapped, available>>
      /\ UNCHANGED <<addrs, marks, n_addrs, pc, retiree_buffer, begin_idx, end_idx, ptr>>
  BY DEF PushBack, userVars, poolVars, threadVars
<1>2. /\ working \in Buffer /\ ~Published(working) /\ Holders(working) = {} /\ ~Listed(working)
      /\ uncollected = NULL /\ working # NULL
  BY <1>1, FilledSlots, ConstantsAssumption DEF Safe, RolesOK, PhaseOK, Filling, Published
<1>3. /\ \A b \in Buffer : b # working => free_idx'[b] = free_idx[b] /\ ref_count'[b] = ref_count[b]
      /\ free_idx'[working] = 0 /\ ref_count'[working] = 1
  BY <1>2 DEF PushBack, TypeInv, TypeOK
<1>4. /\ retirees \in Seq(Buffer)
      /\ retirees' = Append(retirees, working)
      /\ DOMAIN retirees = 1 .. Len(retirees) /\ Len(retirees) \in Nat
      /\ DOMAIN retirees' = 1 .. Len(retirees) + 1
      /\ Len(retirees') = Len(retirees) + 1
      /\ retirees'[Len(retirees) + 1] = working
      /\ \A i \in 1 .. Len(retirees) : retirees'[i] = retirees[i]
  <2>1. retirees \in Seq(Buffer) /\ retirees' = Append(retirees, working)
    BY PushBackAppends DEF TypeInv, TypeOK
  <2>2. DOMAIN retirees = 1 .. Len(retirees) /\ Len(retirees) \in Nat
    BY <2>1
  <2>3. Len(retirees') = Len(retirees) + 1 /\ retirees' \in Seq(Buffer)
    BY <1>2, <2>1
  <2>4. \A i \in 1 .. Len(retirees) + 1 :
          retirees'[i] = IF i <= Len(retirees) THEN retirees[i] ELSE working
    BY <1>2, <2>1
  <2> QED
    BY <2>1, <2>2, <2>3, <2>4
<1>5. \A b : /\ Holders(b)' = Holders(b)
             /\ Listed(b)' <=> Listed(b) \/ b = working
             /\ Published(b)' <=> Published(b) \/ b = working
             /\ Filled(b)' = Filled(b)
  <2>1. \A b : Holders(b)' = Holders(b) /\ Filled(b)' = Filled(b)
    BY <1>1 DEF Holders, Filled
  <2>2. ASSUME NEW b PROVE Listed(b)' <=> Listed(b) \/ b = working
    BY <1>4 DEF Listed
  <2> QED
    BY <2>1, <2>2 DEF Published
<1>6. ListOK'
  <2>1. \A i \in DOMAIN retirees : retirees[i] # working
    BY <1>2 DEF Listed
  <2>2. retirees' # <<>>
    BY <1>4
  <2>3. \A i, j \in DOMAIN retirees' : retirees'[i] = retirees'[j] => i = j
    BY <1>4, <2>1 DEF Safe, ListOK
  <2>4. (\A i \in DOMAIN retirees : Holders(retirees[i]) # {} => i = 1)'
    BY <1>1, <1>2, <1>4 DEF Safe, ListOK, Holders
  <2> QED
    BY <1>1, <1>4, <2>2, <2>3, <2>4 DEF ListOK
<1>7. PhaseOK' /\ RolesOK'
  BY <1>1, <1>2, <1>5, ConstantsAssumption DEF PhaseOK, RolesOK, Filling, Safe
<1>8. RefCountOK'
  <2>1. Cardinality(Holders(working)) = 0
    BY <1>2, FS_EmptySet
  <2> QED
    BY <1>1, <1>3, <1>5, <2>1 DEF RefCountOK, CollectorRefs, Safe
<1>9. ClaimsOK'
  <2>1. n_addrs[working] > 0 /\ n_addrs[working] \in Int
    <3>1. n_addrs[working] > 0
      BY <1>1 DEF Safe, ClaimsOK, Filling
    <3>2. n_addrs[working] \in 0 .. Capacity
      BY <1>2 DEF TypeInv, TypeOK
    <3> QED
      BY <3>1, <3>2, ConstantsAssumption
  <2>2. \A b \in Buffer : Published(b)' => free_idx'[b] <= n_addrs'[b]
    BY <1>1, <1>2, <1>3, <1>5, <2>1 DEF Safe, ClaimsOK
  <2>3. \A b \in Buffer : Listed(b)' /\ free_idx'[b] >= n_addrs'[b] =>
          \E t \in Holders(b)' : pc'[t] # "unref"
    BY <1>1, <1>2, <1>3, <1>5, <2>1 DEF Safe, ClaimsOK
  <2>4. \A b \in Buffer : (Holders(b)' # {} \/ CollectorRefs(b)') /\ free_idx'[b] < n_addrs'[b] =>
          Listed(b)'
    BY <1>1, <1>3, <1>5 DEF Safe, ClaimsOK, CollectorRefs
  <2> QED
    BY <1>1, <2>2, <2>3, <2>4 DEF ClaimsOK, Filling
<1>10. ThreadsOK'
  <2>1. \A t \in Thread : retiree_buffer[t] # working
    BY <1>2 DEF Holders
  <2>2. \A t \in Thread : retiree_buffer[t] # NULL => retiree_buffer[t] \in Buffer
    BY DEF TypeInv, TypeOK
  <2>3. \A t \in Thread : pc[t] \in {"pop", "unref"} => retiree_buffer[t] # NULL
    BY DEF TypeInv, PlacesOK
  <2> QED
    BY <1>1, <1>3, <1>5, <2>1, <2>2, <2>3 DEF ThreadsOK, Safe
<1>11. RangesDisjoint'
  BY <1>1, RangesFrame DEF Safe
<1>12. UnfreedOK'
  BY <1>1, <1>3, <1>5 DEF UnfreedOK, InRange, CollectorOK, Filling, Safe
<1>13. \A b \in Buffer, i \in Slots : Tracks(b, i)' => Tracks(b, i)
  BY <1>1, <1>5 DEF Tracks, Filling
<1>14. SlotsUnique' /\ SlotsRetired' /\ FreeingOK'
  BY <1>1, <1>13 DEF SlotsUnique, SlotsRetired, FreeingOK, Safe
<1>15. CollectorOK'
  BY <1>1, <1>2, <1>5 DEF CollectorOK, Filling, Safe
<1>16. DeadOK'
  BY <1>1, <1>5 DEF DeadOK, DeadSlots, Safe
<1> QED
  BY <1>6, <1>7, <1>8, <1>9, <1>10, <1>11, <1>12, <1>14, <1>15, <1>16 DEF Safe

\* The marked addresses move on to the next collection.
LEMMA UncollectSafe ==
  ASSUME TypeInv, Safe, Uncollect
  PROVE  Safe'
<1>1. /\ gc = "uncollect" /\ gc' = "unref" /\ UNCHANGED working
      /\ UNCHANGED <<heap, held, pending, retirees, g_last, free_idx, ref_count, threadVars>>
      /\ UNCHANGED <<pc, ptr, retiree_buffer>>
  BY DEF Uncollect, userVars, listVars, threadVars
<1> DEFINE S == MarkedAddresses(working)
<1>2. PICK b \in Buffer, n \in 0 .. Capacity :
        /\ MakeAggregateBuffer(b)
        /\ uncollected' = b
        /\ \E s \in [0 .. n - 1 -> S] : Lists(s, n, S) /\ FillWith(b, s, n)
  BY DEF Uncollect
<1>3. PICK s \in [0 .. n - 1 -> S] : Lists(s, n, S) /\ FillWith(b, s, n)
  BY <1>2
<1>4. /\ working \in Buffer /\ ~Published(b) /\ b # working /\ uncollected = NULL /\ b # NULL
  BY <1>1, <1>2, FilledSlots, MakeAggregateBufferFresh, ConstantsAssumption DEF Safe, PhaseOK
<1>5. S \in SUBSET Node
  BY <1>1 DEF MarkedAddresses, Safe, CollectorOK
<1>6. \A x \in S : \E i \in Slots : Tracks(working, i) /\ addrs[working][i] = x /\ i \in marks[working]
  <2> SUFFICES ASSUME NEW x \in S
               PROVE  \E i \in Slots : Tracks(working, i) /\ addrs[working][i] = x /\ i \in marks[working]
    OBVIOUS
  <2>1. PICK i \in Filled(working) \cap marks[working] : addrs[working][i] = x
    BY DEF MarkedAddresses
  <2>2. i \in Slots
    BY <1>4, FilledSlots
  <2> QED
    BY <1>1, <1>5, <2>1, <2>2 DEF Tracks
<1>7. \A x \in S : /\ heap[x] = "retired" /\ x \notin pending'
                   /\ \A t \in Thread : pc[t] = "free" => ptr[t] # x
  BY <1>1, <1>4, <1>6 DEF Safe, SlotsRetired, FreeingOK
<1>8. \A c \in Buffer, i \in Slots : c # b /\ Tracks(c, i)' =>
        Tracks(c, i) /\ addrs[c][i] \notin S
  <2> SUFFICES ASSUME NEW c \in Buffer, NEW i \in Slots, c # b, Tracks(c, i)'
               PROVE  Tracks(c, i) /\ addrs[c][i] \notin S
    OBVIOUS
  <2>1. addrs'[c] = addrs[c] /\ marks'[c] = marks[c] /\ Filled(c)' = Filled(c)
    BY <1>3, FillWithOne
  <2>2. Published(c)' <=> Published(c)
    BY <1>1, SharingFrame
  <2>3. Tracks(c, i) /\ i \notin marks[c]
    BY <1>1, <1>2, <2>1, <2>2 DEF Tracks, Filling
  <2> QED
    BY <1>4, <1>6, <2>3 DEF Safe, SlotsUnique
<1> HIDE DEF S
<1>9. /\ ListOK' /\ ThreadsOK' /\ RangesDisjoint' /\ UnfreedOK' /\ SlotsUnique'
      /\ SlotsRetired' /\ FreeingOK'
      /\ \A i \in Filled(b)' : addrs'[b][i] \in Node
      /\ \A c \in Buffer : c # b => Filled(c)' = Filled(c) /\ addrs'[c] = addrs[c]
                                    /\ marks'[c] = marks[c] /\ n_addrs'[c] = n_addrs[c]
      /\ \A c \in Buffer : Published(c)' <=> Published(c)
      /\ \A c \in Buffer : Published(c)' => c # b
  BY <1>1, <1>3, <1>4, <1>5, <1>7, <1>8, RefillSafe
<1>10. PhaseOK' /\ RolesOK'
  <2>1. PhaseOK'
    BY <1>1, <1>4, ConstantsAssumption DEF PhaseOK
  <2>2. RolesOK'
    BY <1>1, <1>2, <1>4, <1>9, MakeAggregateBufferFresh, ConstantsAssumption DEF RolesOK, Filling, Safe
  <2> QED
    BY <2>1, <2>2
<1>11. \A c \in Buffer : /\ Holders(c)' = Holders(c) /\ (Listed(c)' <=> Listed(c))
                         /\ (CollectorRefs(c)' <=> CollectorRefs(c))
  BY <1>1, SharingFrame DEF CollectorRefs
<1>12. RefCountOK'
  BY <1>1, <1>11 DEF RefCountOK, Safe
<1>13. ClaimsOK'
  <2>1. \A c \in Buffer : Listed(c) \/ Holders(c) # {} \/ CollectorRefs(c) => c # b
    BY <1>4 DEF Published, CollectorRefs
  <2> QED
    BY <1>1, <1>9, <1>11, <2>1 DEF ClaimsOK, Filling, Safe
<1>14. CollectorOK'
  BY <1>1, <1>2, <1>9 DEF CollectorOK, Filling
<1>15. DeadOK'
  BY <1>1, <1>9 DEF DeadOK, DeadSlots, Safe
<1> QED
  BY <1>9, <1>10, <1>12, <1>13, <1>14, <1>15 DEF Safe

\* The sets of holders are finite, so that counting them makes sense.
LEMMA HoldersFinite ==
  ASSUME NEW b
  PROVE  IsFiniteSet(Holders(b)) /\ Cardinality(Holders(b)) \in Nat
<1>1. Holders(b) \subseteq Thread /\ IsFiniteSet(Thread)
  BY ConstantsAssumption DEF Holders
<1> QED
  BY <1>1, FS_Subset, FS_CardinalityType

\* A buffer nobody refers to any more has been popped.
LEMMA UnusedBuffer ==
  ASSUME Safe, NEW b \in Buffer, Holders(b) = {}, free_idx[b] >= n_addrs[b]
  PROVE  ~Published(b)
BY DEF Safe, ClaimsOK, Published

\* The collector is done with the buffer; if the threads are, too, it is recycled.
LEMMA UnrefWorkingSafe ==
  ASSUME TypeInv, Safe, UnrefWorking
  PROVE  Safe'
<1>1. /\ gc = "unref" /\ gc' = "idle" /\ working' = NULL
      /\ UnrefBuffer(working)
      /\ UNCHANGED <<heap, held, pending, uncollected, mapped, listVars, retirees>>
      /\ UNCHANGED <<addrs, marks, n_addrs, free_idx, pc, retiree_buffer, begin_idx, end_idx, ptr>>
  BY DEF UnrefWorking, userVars, listVars, threadVars
<1>2. working \in Buffer /\ working # uncollected
  BY <1>1, FilledSlots DEF Safe, RolesOK
<1>3. \A b : /\ Published(b)' <=> Published(b)
             /\ Holders(b)' = Holders(b)
             /\ Listed(b)' <=> Listed(b)
             /\ Filled(b)' = Filled(b)
  BY <1>1, SharingFrame DEF Filled
<1>4. ref_count[working] = Cardinality(Holders(working)) + 1
  BY <1>1, <1>2 DEF Safe, RefCountOK, CollectorRefs
<1>5. ListOK' /\ RangesDisjoint' /\ UnfreedOK'
  BY <1>1, ListFrame, RangesFrame, UnfreedFrame DEF Safe
<1>6. PhaseOK' /\ RolesOK'
  <2>1. PhaseOK'
    BY <1>1 DEF PhaseOK
  <2>2. CASE ref_count[working] = 1 /\ free_idx[working] >= n_addrs[working]
    <3>1. Holders(working) = {}
      BY <1>4, <2>2, HoldersFinite, FS_EmptySet
    <3>2. ~Published(working)
      BY <1>2, <2>2, <3>1, UnusedBuffer
    <3>3. available' = available \cup {working}
      BY <1>1, <2>2 DEF UnrefBuffer
    <3>4. RolesOK'
      BY <1>1, <1>2, <1>3, <3>2, <3>3, ConstantsAssumption DEF RolesOK, Filling, Safe
    <3> QED
      BY <2>1, <3>4
  <2>3. CASE ~(ref_count[working] = 1 /\ free_idx[working] >= n_addrs[working])
    <3>1. available' = available
      BY <1>1, <2>3 DEF UnrefBuffer
    <3>2. Published(working)
      <4>1. CASE free_idx[working] < n_addrs[working]
        BY <1>1, <1>2, <4>1 DEF Safe, ClaimsOK, CollectorRefs, Published
      <4>2. CASE ref_count[working] # 1
        BY <1>4, <4>2, FS_EmptySet DEF Published
      <4> QED
        BY <1>2, <2>3, <4>1, <4>2 DEF TypeInv, TypeOK
    <3>3. RolesOK'
      BY <1>1, <1>2, <1>3, <3>1, <3>2, ConstantsAssumption DEF RolesOK, Filling, Safe
    <3> QED
      BY <2>1, <3>3
  <2> QED
    BY <2>2, <2>3
<1>7. RefCountOK'
  <2>1. /\ ref_count'[working] = ref_count[working] - 1
        /\ \A b \in Buffer : b # working => ref_count'[b] = ref_count[b]
    BY <1>1, <1>2 DEF UnrefBuffer, TypeInv, TypeOK
  <2>2. Cardinality(Holders(working)) \in Nat
    BY HoldersFinite
  <2> QED
    BY <1>1, <1>2, <1>3, <1>4, <2>1, <2>2 DEF RefCountOK, CollectorRefs, Safe
<1>8. ClaimsOK' /\ ThreadsOK'
  BY <1>1, <1>3 DEF ClaimsOK, ThreadsOK, CollectorRefs, Filling, Safe
<1>9. \A b \in Buffer, i \in Slots : Tracks(b, i)' => Tracks(b, i)
  BY <1>1, <1>3 DEF Tracks, Filling
<1>10. SlotsUnique' /\ SlotsRetired' /\ FreeingOK'
  BY <1>1, <1>9 DEF SlotsUnique, SlotsRetired, FreeingOK, Safe
<1>11. CollectorOK'
  BY <1>1, <1>3 DEF CollectorOK, Filling, Safe
<1>12. DeadOK'
  BY <1>1, <1>3 DEF DeadOK, DeadSlots, Safe
<1> QED
  BY <1>5, <1>6, <1>7, <1>8, <1>10, <1>11, <1>12 DEF Safe

(***************************************************************************)
(* The threads.                                                            *)
(***************************************************************************)

\* A step of a thread that changes neither lists nor buffers.
LEMMA ThreadFrame ==
  ASSUME Safe,
         UNCHANGED <<userVars, gcVars, poolVars, listVars, bufVars, retiree_buffer, begin_idx, end_idx>>
  PROVE  /\ ListOK' /\ PhaseOK' /\ RolesOK' /\ RefCountOK' /\ RangesDisjoint' /\ UnfreedOK'
         /\ SlotsUnique' /\ SlotsRetired' /\ CollectorOK' /\ DeadOK'
         /\ \A b \in Buffer, i \in Slots : Tracks(b, i)' <=> Tracks(b, i)
         /\ \A b : /\ Published(b)' <=> Published(b)
                   /\ Holders(b)' = Holders(b)
                   /\ Listed(b)' <=> Listed(b)
                   /\ CollectorRefs(b)' <=> CollectorRefs(b)
         /\ UNCHANGED <<heap, held, pending, gc, working, n_addrs, free_idx>>
<1>1. /\ UNCHANGED <<heap, held, pending, gc, working, uncollected, snapshot, poolVars, listVars, retirees>>
      /\ UNCHANGED <<addrs, marks, n_addrs, free_idx, ref_count, retiree_buffer, begin_idx, end_idx>>
  BY DEF userVars, gcVars, listVars, bufVars
<1>2. ListOK' /\ PhaseOK' /\ RolesOK' /\ RefCountOK'
  BY <1>1, ListFrame, RolesFrame, RefCountFrame DEF Safe
<1>3. RangesDisjoint' /\ UnfreedOK' /\ CollectorOK' /\ DeadOK'
  BY <1>1, RangesFrame, UnfreedFrame, CollectorFrame, DeadFrame DEF Safe
<1>4. \A b \in Buffer, i \in Slots : Tracks(b, i)' <=> Tracks(b, i)
  BY <1>1, TracksFrame
<1>5. SlotsUnique' /\ SlotsRetired'
  BY <1>1, <1>4 DEF SlotsUnique, SlotsRetired, Safe
<1>6. \A b : /\ Published(b)' <=> Published(b)
             /\ Holders(b)' = Holders(b)
             /\ Listed(b)' <=> Listed(b)
             /\ CollectorRefs(b)' <=> CollectorRefs(b)
  BY <1>1, SharingFrame DEF CollectorRefs
<1> QED
  BY <1>1, <1>2, <1>3, <1>4, <1>5, <1>6

\* CheckDone, LoadIdx and Exit move a thread that is not about to free.
LEMMA MoveSafe ==
  ASSUME TypeInv, Safe, NEW t \in Thread, CheckDone(t) \/ LoadIdx(t) \/ Exit(t)
  PROVE  Safe'
<1>1. /\ UNCHANGED <<userVars, gcVars, poolVars, listVars, bufVars, retiree_buffer, begin_idx, end_idx, ptr>>
      /\ pc[t] \in {"head", "load"}
      /\ pc'[t] \in {"pop", "load", "cas", "gone"}
      /\ \A u \in Thread : u # t => pc'[u] = pc[u]
      /\ pc'[t] \in {"pop", "load", "cas"} => begin_idx[t] = end_idx[t]
      /\ pc'[t] = "pop" => free_idx[retiree_buffer[t]] >= n_addrs[retiree_buffer[t]]
  <2>1. CASE CheckDone(t)
    BY <2>1 DEF CheckDone, NeedsRange, TypeInv, TypeOK
  <2>2. CASE LoadIdx(t)
    BY <2>2 DEF LoadIdx, TypeInv, TypeOK, Safe, ThreadsOK
  <2>3. CASE Exit(t)
    BY <2>3 DEF Exit, TypeInv, TypeOK
  <2> QED
    BY <2>1, <2>2, <2>3
<1>2. /\ \A b \in Buffer, i \in Slots : Tracks(b, i)' <=> Tracks(b, i)
      /\ \A b : /\ Published(b)' <=> Published(b)
                /\ Holders(b)' = Holders(b)
                /\ Listed(b)' <=> Listed(b)
                /\ CollectorRefs(b)' <=> CollectorRefs(b)
      /\ UNCHANGED <<heap, held, pending, gc, working, n_addrs, free_idx, addrs>>
      /\ UNCHANGED <<retiree_buffer, begin_idx, end_idx, ptr>>
  BY <1>1, ThreadFrame DEF bufVars
<1>3. ClaimsOK'
  <2>1. \A b \in Buffer : Listed(b)' /\ free_idx'[b] >= n_addrs'[b] =>
          \E u \in Holders(b)' : pc'[u] # "unref"
    <3> SUFFICES ASSUME NEW b \in Buffer, Listed(b), free_idx[b] >= n_addrs[b]
                 PROVE  \E u \in Holders(b) : pc'[u] # "unref"
      BY <1>2
    <3>1. PICK u \in Holders(b) : pc[u] # "unref"
      BY DEF Safe, ClaimsOK
    <3>2. u \in Thread
      BY DEF Holders
    <3> QED
      BY <1>1, <3>1, <3>2
  <2> QED
    BY <1>2, <2>1 DEF ClaimsOK, Filling, Safe
<1>4. ThreadsOK'
  BY <1>1, <1>2 DEF ThreadsOK, Safe
<1>5. FreeingOK'
  BY <1>1, <1>2 DEF FreeingOK, Safe
<1> QED
  BY <1>1, <1>3, <1>4, <1>5, ThreadFrame DEF Safe

\* A thread takes the buffer at the head of the list.
LEMMA GetRetireeBufferSafe ==
  ASSUME TypeInv, Safe, NEW t \in Thread, GetRetireeBuffer(t)
  PROVE  Safe'
<1>0. PICK ab : ab = retirees[1]
  OBVIOUS
<1>1. /\ pc[t] = "head" /\ retiree_buffer[t] = NULL /\ retirees # <<>>
      /\ UNCHANGED <<heap, held, pending, gc, working, uncollected, snapshot, poolVars, listVars, retirees>>
      /\ UNCHANGED <<addrs, marks, n_addrs, free_idx, pc, ptr>>
  BY DEF GetRetireeBuffer, userVars, gcVars, listVars
<1>2. ab \in Buffer /\ ab # NULL /\ Listed(ab) /\ 1 \in DOMAIN retirees
  <2>1. retirees \in Seq(Buffer)
    BY DEF TypeInv, TypeOK
  <2>2. 1 \in DOMAIN retirees
    BY <1>1, <2>1
  <2> QED
    BY <1>0, <2>1, <2>2, ConstantsAssumption DEF Listed
<1>3. /\ retiree_buffer'[t] = ab
      /\ \A u \in Thread : u # t => /\ retiree_buffer'[u] = retiree_buffer[u]
                                    /\ begin_idx'[u] = begin_idx[u] /\ end_idx'[u] = end_idx[u]
      /\ begin_idx'[t] = 0 /\ end_idx'[t] = 0
      /\ ref_count'[ab] = ref_count[ab] + 1
      /\ \A b \in Buffer : b # ab => ref_count'[b] = ref_count[b]
  BY <1>0, <1>2 DEF GetRetireeBuffer, TypeInv, TypeOK
<1>4. /\ Holders(ab)' = Holders(ab) \cup {t} /\ t \notin Holders(ab)
      /\ \A b \in Buffer : b # ab => Holders(b)' = Holders(b)
      /\ \A b : Listed(b)' <=> Listed(b)
      /\ \A b : CollectorRefs(b)' <=> CollectorRefs(b)
      /\ \A b : Filled(b)' = Filled(b)
  <2>1. Holders(ab)' = Holders(ab) \cup {t} /\ t \notin Holders(ab)
    BY <1>1, <1>2, <1>3 DEF Holders
  <2>2. \A b \in Buffer : b # ab => Holders(b)' = Holders(b)
    <3> SUFFICES ASSUME NEW b \in Buffer, b # ab PROVE Holders(b)' = Holders(b)
      OBVIOUS
    <3>1. b # NULL
      BY ConstantsAssumption
    <3> QED
      BY <1>1, <1>3, <3>1 DEF Holders
  <2> QED
    BY <1>1, <2>1, <2>2 DEF Listed, CollectorRefs, Filled
<1>5. \A b \in Buffer : Published(b)' <=> Published(b)
  BY <1>2, <1>4 DEF Published
<1>6. ListOK'
  <2>1. (\A i \in DOMAIN retirees : Holders(retirees[i]) # {} => i = 1)'
    <3> SUFFICES ASSUME NEW i \in DOMAIN retirees, NEW u \in Thread, retiree_buffer'[u] = retirees[i]
                 PROVE  i = 1
      BY <1>1 DEF Holders
    <3>1. CASE u = t
      BY <1>0, <1>2, <1>3, <3>1 DEF Safe, ListOK
    <3>2. CASE u # t
      BY <1>3, <3>2 DEF Safe, ListOK, Holders
    <3> QED
      BY <3>1, <3>2
  <2> QED
    BY <1>1, <2>1 DEF ListOK, Safe, listVars
<1>7. PhaseOK' /\ RolesOK'
  BY <1>1, <1>5 DEF PhaseOK, RolesOK, Filling, poolVars, Safe
<1>8. RefCountOK'
  <2>1. Cardinality(Holders(ab)') = Cardinality(Holders(ab)) + 1 /\ Cardinality(Holders(ab)) \in Nat
    BY <1>4, HoldersFinite, FS_AddElement
  <2>2. ref_count[ab] = Cardinality(Holders(ab)) + IF CollectorRefs(ab) THEN 1 ELSE 0
    BY <1>2 DEF RefCountOK, Safe
  <2>3. ref_count'[ab] = Cardinality(Holders(ab)') + IF CollectorRefs(ab)' THEN 1 ELSE 0
    BY <1>3, <1>4, <2>1, <2>2
  <2>4. \A b \in Buffer : b # ab =>
          ref_count'[b] = Cardinality(Holders(b)') + IF CollectorRefs(b)' THEN 1 ELSE 0
    BY <1>3, <1>4 DEF RefCountOK, Safe
  <2> QED
    BY <2>3, <2>4 DEF RefCountOK
<1>9. ClaimsOK'
  <2>1. \A b \in Buffer : Holders(b) \subseteq Holders(b)' /\ (Holders(b)' # {} => Holders(b) # {} \/ b = ab)
    BY <1>4
  <2>2. \A b \in Buffer : Listed(b)' /\ free_idx'[b] >= n_addrs'[b] =>
          \E u \in Holders(b)' : pc'[u] # "unref"
    BY <1>1, <1>4, <2>1 DEF ClaimsOK, Safe
  <2>3. \A b \in Buffer : (Holders(b)' # {} \/ CollectorRefs(b)') /\ free_idx'[b] < n_addrs'[b] =>
          Listed(b)'
    BY <1>1, <1>2, <1>4, <2>1 DEF ClaimsOK, Safe
  <2> QED
    BY <1>1, <1>5, <2>2, <2>3 DEF ClaimsOK, Filling, Safe
<1>10. ThreadsOK'
  <2>1. free_idx[ab] >= 0
    BY <1>2, ConstantsAssumption DEF TypeInv, TypeOK
  <2> QED
    BY <1>1, <1>3, <1>4, <2>1 DEF ThreadsOK, Safe
<1>11. RangesDisjoint'
  BY <1>3, ConstantsAssumption DEF RangesDisjoint, InRange, Slots, Safe
<1>12. UnfreedOK'
  <2>1. \A b \in Buffer, i \in Slots :
          (\E u \in Holders(b)' : InRange(u, i)') => \E u \in Holders(b) : InRange(u, i)
    BY <1>3, <1>4, ConstantsAssumption DEF InRange, Slots, Holders
  <2> QED
    BY <1>1, <1>4, <1>5, <2>1 DEF UnfreedOK, Safe
<1>13. \A b \in Buffer, i \in Slots : Tracks(b, i)' <=> Tracks(b, i)
  BY <1>1, <1>4, <1>5 DEF Tracks, Filling
<1>14. SlotsUnique' /\ SlotsRetired' /\ FreeingOK'
  BY <1>1, <1>13 DEF SlotsUnique, SlotsRetired, FreeingOK, Safe
<1>15. CollectorOK'
  BY <1>1, CollectorFrame DEF Safe
<1>16. DeadOK'
  BY <1>1, <1>4, <1>5 DEF DeadOK, DeadSlots, Safe
<1> QED
  BY <1>6, <1>7, <1>8, <1>9, <1>10, <1>11, <1>12, <1>14, <1>15, <1>16 DEF Safe

\* A claim that is not an overrun takes a range nobody else has.
LEMMA ClaimRangeSafe ==
  ASSUME TypeInv, Safe, NEW t \in Thread, ClaimRange(t), ~Overrun'
  PROVE  Safe'
<1>1. PICK ab : ab = retiree_buffer[t]
  OBVIOUS
<1>2. /\ pc[t] = "cas" /\ begin_idx[t] = end_idx[t]
      /\ UNCHANGED <<heap, held, pending, gc, working, uncollected, snapshot, poolVars, listVars, retirees>>
      /\ UNCHANGED <<addrs, marks, n_addrs, ref_count, retiree_buffer, ptr>>
  BY DEF ClaimRange, userVars, gcVars, listVars, Safe, ThreadsOK
<1>3. ab \in Buffer /\ t \in Holders(ab) /\ Published(ab)
  BY <1>1, <1>2 DEF TypeInv, TypeOK, PlacesOK, Holders, Published
<1>4. \A b : /\ Published(b)' <=> Published(b)
             /\ Holders(b)' = Holders(b)
             /\ Listed(b)' <=> Listed(b)
             /\ CollectorRefs(b)' <=> CollectorRefs(b)
             /\ Filled(b)' = Filled(b)
  BY <1>2, SharingFrame DEF CollectorRefs, Filled
<1>5. ListOK' /\ PhaseOK' /\ RolesOK' /\ RefCountOK' /\ CollectorOK' /\ DeadOK'
  BY <1>2, ListFrame, RolesFrame, RefCountFrame, CollectorFrame, DeadFrame DEF Safe
<1>6. \A b \in Buffer, i \in Slots : Tracks(b, i)' <=> Tracks(b, i)
  BY <1>2, TracksFrame
<1>7. /\ \A u \in Thread : u # t => /\ pc'[u] = pc[u]
                                    /\ begin_idx'[u] = begin_idx[u] /\ end_idx'[u] = end_idx[u]
      /\ pc'[t] \in {"slot", "head"}
      /\ \A b \in Buffer : b # ab => free_idx'[b] = free_idx[b]
  BY <1>1, <1>3 DEF ClaimRange, TypeInv, TypeOK
<1>8. SlotsUnique' /\ SlotsRetired' /\ FreeingOK'
  BY <1>2, <1>6, <1>7 DEF SlotsUnique, SlotsRetired, FreeingOK, Safe
<1>9. /\ n_addrs[ab] \in Nat /\ free_idx[ab] \in Nat /\ free_idx'[ab] \in Nat
      /\ begin_idx'[t] \in Nat /\ end_idx'[t] \in Nat
      /\ free_idx[ab] <= free_idx'[ab] /\ free_idx'[ab] <= n_addrs[ab]
      /\ \/ begin_idx'[t] = end_idx'[t] /\ end_idx'[t] <= free_idx'[ab] /\ pc'[t] = "head"
            /\ free_idx'[ab] = free_idx[ab]
         \/ begin_idx'[t] = free_idx[ab] /\ end_idx'[t] = free_idx'[ab]
            /\ free_idx[ab] < free_idx'[ab] /\ pc'[t] = "slot"
  <2>1. /\ n_addrs[ab] \in Nat /\ free_idx[ab] \in Nat /\ idx[t] \in Nat
        /\ begin_idx[t] \in Nat /\ end_idx[t] \in Nat /\ RangeSz \in Nat \ {0}
    BY <1>3, ConstantsAssumption DEF TypeInv, TypeOK
  <2>2. end_idx[t] <= free_idx[ab] /\ free_idx[ab] <= n_addrs[ab]
    <3>1. ab # NULL
      BY <1>3, ConstantsAssumption
    <3> QED
      BY <1>1, <1>3, <3>1 DEF Safe, ThreadsOK, ClaimsOK
  <2>3. CASE free_idx[ab] # idx[t]
    <3>1. /\ begin_idx'[t] = begin_idx[t] /\ end_idx'[t] = end_idx[t] /\ free_idx'[ab] = free_idx[ab]
          /\ pc'[t] = "head"
      BY <1>1, <2>3 DEF ClaimRange, TypeInv, TypeOK
    <3> QED
      BY <1>2, <2>1, <2>2, <3>1
  <2>4. CASE free_idx[ab] = idx[t]
    <3>1. /\ begin_idx'[t] = free_idx[ab]
          /\ end_idx'[t] = EndOfRange(t) /\ free_idx'[ab] = EndOfRange(t)
          /\ pc'[t] = "slot"
      BY <1>1, <1>3, <2>4 DEF ClaimRange, TypeInv, TypeOK
    <3>2. begin_idx'[t] # end_idx'[t]
      BY <3>1 DEF Overrun
    <3>3. EndOfRange(t) \in Nat /\ free_idx[ab] <= EndOfRange(t) /\ EndOfRange(t) <= n_addrs[ab]
      BY <1>1, <2>1, <2>2, <2>4 DEF EndOfRange
    <3> QED
      BY <2>1, <2>2, <3>1, <3>2, <3>3
  <2> QED
    BY <2>3, <2>4
<1>10. ClaimsOK'
  <2>1. \A b \in Buffer : Published(b)' => free_idx'[b] <= n_addrs'[b]
    BY <1>2, <1>4, <1>7, <1>9 DEF Safe, ClaimsOK
  <2>2. \A b \in Buffer : Listed(b)' /\ free_idx'[b] >= n_addrs'[b] =>
          \E u \in Holders(b)' : pc'[u] # "unref"
    <3> SUFFICES ASSUME NEW b \in Buffer, Listed(b), free_idx'[b] >= n_addrs[b]
                 PROVE  \E u \in Holders(b) : pc'[u] # "unref"
      BY <1>2, <1>4
    <3>1. CASE b = ab
      BY <1>3, <1>7, <3>1
    <3>2. CASE b # ab
      <4>1. PICK u \in Holders(b) : pc[u] # "unref"
        BY <1>7, <3>2 DEF Safe, ClaimsOK
      <4>2. u \in Thread
        BY DEF Holders
      <4> QED
        BY <1>7, <4>1, <4>2
    <3> QED
      BY <3>1, <3>2
  <2>3. \A b \in Buffer : (Holders(b)' # {} \/ CollectorRefs(b)') /\ free_idx'[b] < n_addrs'[b] =>
          Listed(b)'
    <3>1. free_idx'[ab] < n_addrs[ab] => free_idx[ab] < n_addrs[ab]
      BY <1>9
    <3> QED
      BY <1>2, <1>4, <1>7, <3>1 DEF Safe, ClaimsOK
  <2> QED
    BY <1>2, <2>1, <2>2, <2>3 DEF ClaimsOK, Filling, Safe
<1>11. ThreadsOK'
  <2>1. \A u \in Thread : retiree_buffer[u] # NULL =>
          /\ retiree_buffer[u] \in Buffer
          /\ free_idx[retiree_buffer[u]] <= free_idx'[retiree_buffer[u]]
          /\ free_idx[retiree_buffer[u]] \in Nat /\ free_idx'[retiree_buffer[u]] \in Nat
          /\ n_addrs[retiree_buffer[u]] \in Nat /\ end_idx[u] \in Nat
    <3>1. \A b \in Buffer : free_idx[b] \in Nat /\ n_addrs[b] \in Nat
      BY ConstantsAssumption DEF TypeInv, TypeOK
    <3>2. \A u \in Thread : end_idx[u] \in Nat
      BY ConstantsAssumption DEF TypeInv, TypeOK
    <3>3. \A b \in Buffer : free_idx'[b] \in Nat /\ free_idx[b] <= free_idx'[b]
      BY <1>7, <1>9, <3>1
    <3>4. \A u \in Thread : retiree_buffer[u] # NULL => retiree_buffer[u] \in Buffer
      BY DEF TypeInv, TypeOK
    <3> QED
      BY <3>1, <3>2, <3>3, <3>4
  <2>2. \A u \in Thread : pc[u] \in {"pop", "unref"} => retiree_buffer[u] # NULL
    BY DEF TypeInv, PlacesOK
  <2>3. ASSUME NEW u \in Thread, u # t
        PROVE  /\ pc[u] \in {"pop", "unref"} =>
                    free_idx'[retiree_buffer[u]] >= n_addrs[retiree_buffer[u]]
               /\ retiree_buffer[u] # NULL => end_idx[u] <= free_idx'[retiree_buffer[u]]
    BY <2>1, <2>2 DEF Safe, ThreadsOK
  <2> QED
    BY <1>1, <1>2, <1>4, <1>7, <1>9, <2>3 DEF ThreadsOK, Safe
<1>12. RangesDisjoint'
  <2> SUFFICES ASSUME NEW u \in Thread, NEW v \in Thread, NEW i \in Slots, u # v,
                      retiree_buffer[u] # NULL, retiree_buffer[u] = retiree_buffer[v],
                      InRange(u, i)', InRange(v, i)'
               PROVE  FALSE
    BY <1>2 DEF RangesDisjoint
  <2>1. i \in Int
    BY ConstantsAssumption DEF Slots
  <2>2. \A w \in Thread : w # t => begin_idx[w] \in Nat /\ end_idx[w] \in Nat
    BY ConstantsAssumption DEF TypeInv, TypeOK
  <2>3. CASE u # t /\ v # t
    BY <1>7, <2>3 DEF Safe, RangesDisjoint, InRange
  <2>4. CASE u = t
    BY <1>1, <1>7, <1>9, <2>1, <2>2, <2>4 DEF Safe, ThreadsOK, InRange
  <2>5. CASE v = t
    BY <1>1, <1>7, <1>9, <2>1, <2>2, <2>5 DEF Safe, ThreadsOK, InRange
  <2> QED
    BY <2>3, <2>4, <2>5
<1>13. UnfreedOK'
  <2> SUFFICES ASSUME NEW b \in Buffer, NEW i \in Slots,
                      Published(b), i \in Filled(b), i \notin marks[b],
                      i >= free_idx'[b] \/ \E u \in Holders(b) : InRange(u, i)'
               PROVE  addrs[b][i] \in Node
    BY <1>2, <1>4 DEF UnfreedOK
  <2>1. i \in Int
    BY ConstantsAssumption DEF Slots
  <2>2. i >= free_idx[b] \/ \E u \in Holders(b) : InRange(u, i)
    <3>1. CASE i >= free_idx'[b]
      BY <1>7, <1>9, <2>1, <3>1
    <3>2. CASE \E u \in Holders(b) : InRange(u, i)'
      <4>1. PICK u \in Holders(b) : InRange(u, i)'
        BY <3>2
      <4>2. u \in Thread /\ retiree_buffer[u] = b
        BY DEF Holders
      <4>3. CASE u # t
        BY <1>7, <4>1, <4>2, <4>3 DEF InRange
      <4>4. CASE u = t
        BY <1>1, <1>9, <2>1, <4>1, <4>2, <4>4 DEF InRange
      <4> QED
        BY <4>3, <4>4
    <3> QED
      BY <3>1, <3>2
  <2> QED
    BY <2>2 DEF Safe, UnfreedOK
<1> QED
  BY <1>5, <1>8, <1>10, <1>11, <1>12, <1>13 DEF Safe

\* A thread takes the next slot of its range out of the buffer.
LEMMA TakeSlotSafe ==
  ASSUME TypeInv, Safe, NEW t \in Thread, TakeSlot(t)
  PROVE  Safe'
<1>1. PICK ab, k : ab = retiree_buffer[t] /\ k = begin_idx[t]
  OBVIOUS
<1>2. /\ UNCHANGED <<heap, held, pending, gc, working, uncollected, snapshot, poolVars, listVars, retirees>>
      /\ UNCHANGED <<marks, n_addrs, free_idx, ref_count, retiree_buffer, end_idx>>
  BY DEF TakeSlot, userVars, gcVars, listVars
<1>3. ab \in Buffer /\ ab # NULL /\ t \in Holders(ab) /\ Published(ab)
  BY <1>1, ConstantsAssumption DEF TakeSlot, TypeInv, TypeOK, PlacesOK, Holders, Published
<1>4. /\ k \in Slots /\ k \in Filled(ab) /\ k < end_idx[t] /\ k < free_idx[ab]
      /\ end_idx[t] \in Nat /\ k \in Nat /\ free_idx[ab] \in Nat
  <2>1. begin_idx[t] \in Nat /\ end_idx[t] \in Nat /\ free_idx[ab] \in Nat /\ n_addrs[ab] \in Nat
    BY <1>3, ConstantsAssumption DEF TypeInv, TypeOK
  <2>2. begin_idx[t] < end_idx[t]
    BY <2>1 DEF TakeSlot, Safe, ThreadsOK
  <2>3. end_idx[t] <= free_idx[ab] /\ free_idx[ab] <= n_addrs[ab]
    BY <1>1, <1>3 DEF Safe, ThreadsOK, ClaimsOK
  <2>4. k < Capacity
    BY <1>1 DEF TakeSlot
  <2> QED
    BY <1>1, <2>1, <2>2, <2>3, <2>4, ConstantsAssumption DEF Slots, Filled
<1>5. /\ begin_idx'[t] = k + 1
      /\ \A u \in Thread : u # t => begin_idx'[u] = begin_idx[u] /\ pc'[u] = pc[u] /\ ptr'[u] = ptr[u]
  BY <1>1 DEF TakeSlot, TypeInv, TypeOK
<1>6. \/ k \in marks[ab] /\ pc'[t] = "head" /\ UNCHANGED addrs
      \/ /\ k \notin marks[ab] /\ pc'[t] = "free" /\ ptr'[t] = addrs[ab][k]
         /\ addrs'[ab][k] = Removed
         /\ \A b \in Buffer, i \in Slots : b # ab \/ i # k => addrs'[b][i] = addrs[b][i]
  <2>1. CASE k \in marks[ab]
    BY <1>1, <2>1 DEF TakeSlot, TypeInv, TypeOK
  <2>2. CASE k \notin marks[ab]
    <3>1. /\ addrs' = [addrs EXCEPT ![ab] = [addrs[ab] EXCEPT ![k] = Removed]]
          /\ ptr' = [ptr EXCEPT ![t] = addrs[ab][k]]
          /\ pc' = [pc EXCEPT ![t] = "free"]
      BY <1>1, <2>2 DEF TakeSlot
    <3>2. addrs \in [Buffer -> [Slots -> Word]] /\ ptr \in [Thread -> Word]
          /\ pc \in [Thread -> {"head", "load", "cas", "slot", "free", "pop", "unref", "gone"}]
      BY DEF TypeInv, TypeOK
    <3> QED
      BY <1>3, <1>4, <2>2, <3>1, <3>2
  <2> QED
    BY <2>1, <2>2
<1>7. \A b : /\ Published(b)' <=> Published(b)
             /\ Holders(b)' = Holders(b)
             /\ Listed(b)' <=> Listed(b)
             /\ CollectorRefs(b)' <=> CollectorRefs(b)
             /\ Filled(b)' = Filled(b)
  BY <1>2, SharingFrame DEF CollectorRefs, Filled
<1>8. k \notin marks[ab] => Tracks(ab, k) /\ addrs[ab][k] \in Node /\ addrs[ab][k] \notin held
  <2> SUFFICES ASSUME k \notin marks[ab]
               PROVE  Tracks(ab, k) /\ addrs[ab][k] \in Node /\ addrs[ab][k] \notin held
    OBVIOUS
  <2>1. InRange(t, k)
    BY <1>1, <1>4 DEF InRange
  <2>2. addrs[ab][k] \in Node
    BY <1>3, <1>4, <2>1 DEF Safe, UnfreedOK
  <2> QED
    BY <1>3, <1>4, <2>2 DEF Tracks, DeadSlots, Safe, DeadOK
<1>9. ListOK' /\ PhaseOK' /\ RolesOK' /\ RefCountOK'
  BY <1>2, ListFrame, RolesFrame, RefCountFrame DEF Safe
<1>10. ClaimsOK'
  <2>1. \A b \in Buffer : Listed(b)' /\ free_idx'[b] >= n_addrs'[b] =>
          \E u \in Holders(b)' : pc'[u] # "unref"
    <3> SUFFICES ASSUME NEW b \in Buffer, Listed(b), free_idx[b] >= n_addrs[b]
                 PROVE  \E u \in Holders(b) : pc'[u] # "unref"
      BY <1>2, <1>7
    <3>1. PICK u \in Holders(b) : pc[u] # "unref"
      BY DEF Safe, ClaimsOK
    <3>2. u \in Thread
      BY DEF Holders
    <3> QED
      BY <1>5, <1>6, <3>1, <3>2
  <2> QED
    BY <1>2, <1>7, <2>1 DEF ClaimsOK, Filling, Safe
<1>11. ThreadsOK'
  <2>1. begin_idx'[t] <= end_idx[t]
    BY <1>4, <1>5
  <2> QED
    BY <1>2, <1>5, <1>6, <1>7, <2>1 DEF ThreadsOK, Safe
<1>12. \A u \in Thread, i \in Slots : InRange(u, i)' => InRange(u, i) /\ (u = t => i # k)
  <2>1. \A i \in Slots : i \in Nat
    BY ConstantsAssumption DEF Slots
  <2>2. \A i \in Slots : InRange(t, i)' => InRange(t, i) /\ i # k
    <3> HIDE ConstantsAssumption
    <3> SUFFICES ASSUME NEW i \in Nat, InRange(t, i)' PROVE InRange(t, i) /\ i # k
      BY <2>1
    <3>1. k + 1 <= i /\ i < end_idx[t]
      BY <1>2, <1>5 DEF InRange
    <3> QED
      BY <1>1, <1>4, <3>1 DEF InRange
  <2>3. \A u \in Thread, i \in Slots : u # t /\ InRange(u, i)' => InRange(u, i)
    BY <1>2, <1>5 DEF InRange
  <2> QED
    BY <2>2, <2>3
<1>13. RangesDisjoint'
  BY <1>2, <1>12 DEF RangesDisjoint, Safe
<1>14. UnfreedOK'
  <2> SUFFICES ASSUME NEW b \in Buffer, NEW i \in Slots,
                      Published(b), i \in Filled(b), i \notin marks[b],
                      i >= free_idx[b] \/ \E u \in Holders(b) : InRange(u, i)'
               PROVE  addrs'[b][i] \in Node
    BY <1>2, <1>7 DEF UnfreedOK
  <2>1. i >= free_idx[b] \/ \E u \in Holders(b) : InRange(u, i)
    BY <1>12 DEF Holders
  <2>2. addrs[b][i] \in Node
    BY <2>1 DEF Safe, UnfreedOK
  <2>3. b # ab \/ i # k
    <3> SUFFICES ASSUME b = ab, i = k PROVE FALSE
      OBVIOUS
    <3>1. PICK u \in Thread : retiree_buffer[u] = ab /\ InRange(u, k)'
      BY <1>4 DEF Holders
    <3>2. u # t /\ InRange(u, k) /\ InRange(t, k)
      BY <1>1, <1>4, <1>12, <3>1 DEF InRange
    <3> QED
      BY <1>1, <1>3, <1>4, <3>1, <3>2 DEF Safe, RangesDisjoint
  <2> QED
    BY <1>6, <2>2, <2>3
<1>15. \A b \in Buffer, i \in Slots : Tracks(b, i)' =>
         Tracks(b, i) /\ addrs'[b][i] = addrs[b][i] /\ (k \notin marks[ab] => b # ab \/ i # k)
  <2> SUFFICES ASSUME NEW b \in Buffer, NEW i \in Slots, Tracks(b, i)'
               PROVE  /\ Tracks(b, i) /\ addrs'[b][i] = addrs[b][i]
                      /\ k \notin marks[ab] => b # ab \/ i # k
    OBVIOUS
  <2>1. addrs'[b][i] \in Node
    BY DEF Tracks
  <2>2. addrs'[b][i] = addrs[b][i] /\ (k \notin marks[ab] => b # ab \/ i # k)
    BY <1>6, <2>1, ConstantsAssumption
  <2> QED
    BY <1>2, <1>7, <2>2 DEF Tracks, Filling
<1>16. SlotsUnique' /\ SlotsRetired'
  BY <1>2, <1>15 DEF SlotsUnique, SlotsRetired, Safe
<1>17. FreeingOK'
  <2>1. CASE k \in marks[ab]
    BY <1>2, <1>5, <1>6, <1>15, <2>1 DEF FreeingOK, Safe
  <2>2. CASE k \notin marks[ab]
    <3>1. ptr'[t] = addrs[ab][k] /\ ptr'[t] \in Node /\ ptr'[t] \notin held
      BY <1>6, <1>8, <2>2
    <3>2. heap[ptr'[t]] = "retired" /\ ptr'[t] \notin pending
      BY <1>3, <1>4, <1>8, <2>2, <3>1 DEF Safe, SlotsRetired
    <3>3. \A b \in Buffer : \A i \in Slots : Tracks(b, i)' => addrs'[b][i] # ptr'[t]
      BY <1>3, <1>4, <1>8, <1>15, <2>2, <3>1 DEF Safe, SlotsUnique
    <3>4. \A u \in Thread : u # t /\ pc'[u] = "free" => ptr'[u] # ptr'[t]
      BY <1>3, <1>4, <1>5, <1>8, <2>2, <3>1 DEF Safe, FreeingOK
    <3>5. ASSUME NEW u \in Thread, u # t, pc'[u] = "free"
          PROVE  /\ ptr'[u] \in Node /\ ptr'[u] \notin held /\ heap[ptr'[u]] = "retired"
                 /\ ptr'[u] \notin pending
                 /\ \A b \in Buffer : \A i \in Slots : Tracks(b, i)' => addrs'[b][i] # ptr'[u]
                 /\ \A v \in Thread : v # u /\ v # t /\ pc'[v] = "free" => ptr'[v] # ptr'[u]
      BY <1>5, <1>15, <3>5 DEF Safe, FreeingOK
    <3> QED
      BY <1>2, <3>1, <3>2, <3>3, <3>4, <3>5 DEF FreeingOK
  <2> QED
    BY <2>1, <2>2
<1>18. CollectorOK'
  <2>1. /\ Filling => working # ab
        /\ uncollected # NULL => uncollected # ab
    BY <1>3 DEF Safe, RolesOK
  <2>2. gc # "idle" => working \in Buffer /\ Filled(working) \subseteq Slots
    BY FilledSlots
  <2>3. uncollected # NULL => uncollected \in Buffer /\ Filled(uncollected) \subseteq Slots
    BY FilledSlots DEF TypeInv, TypeOK
  <2> QED
    BY <1>2, <1>6, <1>7, <2>1, <2>2, <2>3 DEF CollectorOK, Filling, Safe
<1>19. DeadOK'
  <2>1. \A b \in Buffer : \A i \in Slots : Published(b) /\ i \in DeadSlots(b)' =>
          i \in DeadSlots(b) /\ addrs'[b][i] = addrs[b][i]
    BY <1>2, <1>6, <1>7, ConstantsAssumption DEF DeadSlots
  <2>2. gc \in {"scan", "push"} => /\ working \in Buffer /\ Filled(working) \subseteq Slots
                                   /\ working # ab
    BY <1>3, FilledSlots DEF Safe, RolesOK, Filling
  <2>3. gc \in {"scan", "push"} => \A i \in Filled(working) : addrs'[working][i] = addrs[working][i]
    BY <1>6, <2>2
  <2> QED
    BY <1>2, <1>7, <2>1, <2>3 DEF DeadOK, DeadSlots, Safe
<1> QED
  BY <1>9, <1>10, <1>11, <1>13, <1>14, <1>16, <1>17, <1>18, <1>19 DEF Safe

\* The node is freed; it was in nobody else's hands.
LEMMA FreeSafe ==
  ASSUME TypeInv, Safe, NEW t \in Thread, Free(t)
  PROVE  Safe'
<1>1. /\ pc[t] = "free"
      /\ UNCHANGED <<held, pending, gc, working, uncollected, snapshot, poolVars, listVars, retirees>>
      /\ UNCHANGED <<addrs, marks, n_addrs, free_idx, ref_count, retiree_buffer, begin_idx, end_idx>>
      /\ pc'[t] = "head"
      /\ \A u \in Thread : u # t => pc'[u] = pc[u] /\ ptr'[u] = ptr[u]
      /\ \A n \in Node : n # ptr[t] => heap'[n] = heap[n]
  BY DEF Free, gcVars, listVars, bufVars, TypeInv, TypeOK
<1>2. \A b : /\ Published(b)' <=> Published(b)
             /\ Holders(b)' = Holders(b)
             /\ Listed(b)' <=> Listed(b)
             /\ CollectorRefs(b)' <=> CollectorRefs(b)
  BY <1>1, SharingFrame DEF CollectorRefs
<1>3. ListOK' /\ PhaseOK' /\ RolesOK' /\ RefCountOK' /\ RangesDisjoint' /\ UnfreedOK'
  BY <1>1, ListFrame, RolesFrame, RefCountFrame, RangesFrame, UnfreedFrame DEF Safe
<1>4. CollectorOK' /\ DeadOK'
  BY <1>1, CollectorFrame, DeadFrame DEF Safe
<1>5. \A b \in Buffer, i \in Slots : Tracks(b, i)' <=> Tracks(b, i)
  BY <1>1, TracksFrame
<1>6. ClaimsOK'
  <2>1. \A b \in Buffer : Listed(b)' /\ free_idx'[b] >= n_addrs'[b] =>
          \E u \in Holders(b)' : pc'[u] # "unref"
    <3> SUFFICES ASSUME NEW b \in Buffer, Listed(b), free_idx[b] >= n_addrs[b]
                 PROVE  \E u \in Holders(b) : pc'[u] # "unref"
      BY <1>1, <1>2
    <3>1. PICK u \in Holders(b) : pc[u] # "unref"
      BY DEF Safe, ClaimsOK
    <3>2. u \in Thread
      BY DEF Holders
    <3> QED
      BY <1>1, <3>1, <3>2
  <2> QED
    BY <1>1, <1>2, <2>1 DEF ClaimsOK, Filling, Safe
<1>7. ThreadsOK'
  BY <1>1, <1>2 DEF ThreadsOK, Safe
<1>8. SlotsUnique'
  BY <1>1, <1>5 DEF SlotsUnique, Safe
<1>9. SlotsRetired'
  <2>1. pending \subseteq Node
    BY DEF TypeInv, TypeOK
  <2>2. ptr[t] \notin pending
    BY <1>1 DEF Safe, FreeingOK
  <2>3. \A b \in Buffer : \A i \in Slots : Tracks(b, i) =>
          addrs[b][i] # ptr[t] /\ addrs[b][i] \in Node
    BY <1>1 DEF Safe, FreeingOK, Tracks
  <2> QED
    BY <1>1, <1>5, <2>1, <2>2, <2>3 DEF SlotsRetired, Safe
<1>10. FreeingOK'
  BY <1>1, <1>5 DEF FreeingOK, Safe
<1> QED
  BY <1>3, <1>4, <1>6, <1>7, <1>8, <1>9, <1>10 DEF Safe

\* The first to see that a buffer is done takes it off the list, of which it
\* is the head.
LEMMA PopIsTail ==
  ASSUME TypeInv, Safe, NEW t \in Thread, PopRetireeBuffer(t), Listed(retiree_buffer[t])
  PROVE  /\ retirees # <<>> /\ retirees[1] = retiree_buffer[t]
         /\ retirees' = Tail(retirees)
         /\ g_last' = IF retirees' = <<>> THEN NULL ELSE g_last
<1> DEFINE k == CHOOSE i \in DOMAIN retirees : retirees[i] = retiree_buffer[t]
<1>1. k \in DOMAIN retirees /\ retirees[k] = retiree_buffer[t]
  BY DEF Listed
<1>2. /\ retirees' = RemoveAt(retirees, k)
      /\ g_last' = IF retirees' = <<>> THEN NULL ELSE g_last
  BY DEF PopRetireeBuffer, Listed
<1> HIDE DEF k
<1>3. k = 1
  <2>1. Holders(retirees[k]) # {}
    BY <1>1 DEF Holders
  <2> QED
    BY <1>1, <2>1 DEF Safe, ListOK
<1>4. retirees \in Seq(Buffer) /\ retirees # <<>> /\ Len(retirees) >= 1
  BY <1>1, <1>3 DEF TypeInv, TypeOK
<1>5. RemoveAt(retirees, 1) = Tail(retirees)
  <2>1. SubSeq(retirees, 1, 0) = <<>>
    BY <1>4
  <2>2. SubSeq(retirees, 2, Len(retirees)) = Tail(retirees)
    BY <1>4
  <2> QED
    BY <1>4, <2>1, <2>2 DEF RemoveAt
<1> QED
  BY <1>1, <1>2, <1>3, <1>4, <1>5

\* A buffer that is done leaves the list while its threads still hold it.
LEMMA PopRetireeBufferSafe ==
  ASSUME TypeInv, Safe, NEW t \in Thread, PopRetireeBuffer(t)
  PROVE  Safe'
<1>1. PICK ab : ab = retiree_buffer[t]
  OBVIOUS
<1>2. /\ pc[t] = "pop" /\ pc'[t] = "unref"
      /\ \A u \in Thread : u # t => pc'[u] = pc[u]
      /\ UNCHANGED <<heap, held, pending, gc, working, uncollected, snapshot, poolVars>>
      /\ UNCHANGED <<addrs, marks, n_addrs, free_idx, ref_count>>
      /\ UNCHANGED <<retiree_buffer, begin_idx, end_idx, ptr>>
  BY DEF PopRetireeBuffer, userVars, gcVars, bufVars, TypeInv, TypeOK
<1>3. /\ ab \in Buffer /\ ab # NULL /\ t \in Holders(ab) /\ Published(ab)
      /\ free_idx[ab] >= n_addrs[ab]
  BY <1>1, <1>2, ConstantsAssumption
    DEF TypeInv, TypeOK, PlacesOK, Holders, Published, Safe, ThreadsOK
<1>4. ListOK' /\ (\A b : Listed(b)' <=> Listed(b) /\ b # ab)
  <2>1. CASE Listed(ab)
    <3>1. /\ retirees # <<>> /\ retirees[1] = ab /\ retirees' = Tail(retirees)
          /\ g_last' = IF retirees' = <<>> THEN NULL ELSE g_last
      BY <1>1, <2>1, PopIsTail
    <3>2. retirees \in Seq(Buffer)
      BY DEF TypeInv, TypeOK
    <3>3. /\ Len(retirees) \in Nat \ {0} /\ DOMAIN retirees = 1 .. Len(retirees)
          /\ DOMAIN retirees' = 1 .. Len(retirees) - 1
          /\ Len(retirees') = Len(retirees) - 1
          /\ \A i \in DOMAIN retirees' : retirees'[i] = retirees[i + 1]
      BY <3>1, <3>2
    <3>4. \A i, j \in DOMAIN retirees : retirees[i] = retirees[j] => i = j
      BY DEF Safe, ListOK
    <3>5. \A i \in DOMAIN retirees' : i + 1 \in DOMAIN retirees /\ i + 1 # 1
      BY <3>3
    <3>6. \A b : Listed(b)' <=> Listed(b) /\ b # ab
      <4>1. ASSUME NEW b, Listed(b)' PROVE Listed(b) /\ b # ab
        BY <3>1, <3>3, <3>4, <3>5, <4>1 DEF Listed
      <4>2. ASSUME NEW b, Listed(b), b # ab PROVE Listed(b)'
        <5>1. PICK i \in DOMAIN retirees : retirees[i] = b
          BY <4>2 DEF Listed
        <5>2. i - 1 \in DOMAIN retirees' /\ (i - 1) + 1 = i
          BY <3>1, <3>3, <4>2, <5>1
        <5>3. retirees'[i - 1] = b
          BY <3>3, <5>1, <5>2
        <5> QED
          BY <5>2, <5>3 DEF Listed
      <4> QED
        BY <4>1, <4>2
    <3>7. \A i, j \in DOMAIN retirees' : retirees'[i] = retirees'[j] => i = j
      BY <3>3, <3>4, <3>5
    <3>8. (\A i \in DOMAIN retirees : Holders(retirees[i]) # {} => i = 1)'
      <4> SUFFICES ASSUME NEW i \in DOMAIN retirees', NEW u \in Thread, retiree_buffer[u] = retirees'[i]
                   PROVE  FALSE
        BY <1>2 DEF Holders
      <4>1. u \in Holders(retirees[i + 1])
        BY <3>3 DEF Holders
      <4> QED
        BY <3>5, <4>1 DEF Safe, ListOK
    <3>9. g_last' = IF retirees' = <<>> THEN NULL ELSE retirees'[Len(retirees')]
      <4>1. CASE retirees' = <<>>
        BY <3>1, <4>1
      <4>2. CASE retirees' # <<>>
        <5>1. Len(retirees') \in DOMAIN retirees'
          BY <3>1, <3>2, <3>3, <4>2
        <5>2. g_last' = retirees[Len(retirees)]
          BY <3>1, <4>2 DEF Safe, ListOK
        <5> QED
          BY <3>3, <4>2, <5>1, <5>2
      <4> QED
        BY <4>1, <4>2
    <3> QED
      BY <3>6, <3>7, <3>8, <3>9 DEF ListOK
  <2>2. CASE ~Listed(ab)
    <3>1. UNCHANGED <<listVars, retirees>>
      BY <1>1, <2>2 DEF PopRetireeBuffer, listVars, Listed
    <3>2. \A b : Listed(b)' <=> Listed(b)
      BY <3>1 DEF Listed
    <3> QED
      BY <1>2, <2>2, <3>1, <3>2, ListFrame DEF Safe
  <2> QED
    BY <2>1, <2>2
<1>5. \A b : /\ Published(b)' <=> Published(b)
             /\ Holders(b)' = Holders(b)
             /\ CollectorRefs(b)' <=> CollectorRefs(b)
             /\ Filled(b)' = Filled(b)
  <2>1. \A b : Holders(b)' = Holders(b)
    BY <1>2 DEF Holders
  <2> QED
    BY <1>2, <1>3, <1>4, <2>1 DEF Published, CollectorRefs, Filled
<1>6. PhaseOK' /\ RolesOK'
  BY <1>2, <1>5 DEF PhaseOK, RolesOK, Filling, poolVars, Safe
<1>7. RefCountOK' /\ RangesDisjoint' /\ CollectorOK'
  BY <1>2, RefCountFrame, RangesFrame, CollectorFrame DEF Safe
<1>8. ClaimsOK'
  <2>1. \A b \in Buffer : Listed(b)' /\ free_idx'[b] >= n_addrs'[b] =>
          \E u \in Holders(b)' : pc'[u] # "unref"
    <3> SUFFICES ASSUME NEW b \in Buffer, Listed(b), b # ab, free_idx[b] >= n_addrs[b]
                 PROVE  \E u \in Holders(b) : pc'[u] # "unref"
      BY <1>2, <1>4, <1>5
    <3>1. PICK u \in Holders(b) : pc[u] # "unref"
      BY DEF Safe, ClaimsOK
    <3>2. u \in Thread /\ u # t
      BY <1>1 DEF Holders
    <3> QED
      BY <1>2, <3>1, <3>2
  <2>2. \A b \in Buffer : (Holders(b)' # {} \/ CollectorRefs(b)') /\ free_idx'[b] < n_addrs'[b] =>
          Listed(b)'
    <3>1. ~(free_idx[ab] < n_addrs[ab])
      BY <1>3, ConstantsAssumption DEF TypeInv, TypeOK
    <3> QED
      BY <1>2, <1>4, <1>5, <3>1 DEF Safe, ClaimsOK
  <2> QED
    BY <1>2, <1>5, <2>1, <2>2 DEF ClaimsOK, Filling, Safe
<1>9. ThreadsOK'
  BY <1>1, <1>2, <1>4 DEF ThreadsOK, Safe
<1>10. UnfreedOK'
  BY <1>2, <1>5 DEF UnfreedOK, InRange, Safe
<1>11. \A b \in Buffer, i \in Slots : Tracks(b, i)' <=> Tracks(b, i)
  BY <1>2, <1>5 DEF Tracks, Filling
<1>12. SlotsUnique' /\ SlotsRetired' /\ FreeingOK'
  BY <1>2, <1>11 DEF SlotsUnique, SlotsRetired, FreeingOK, Safe
<1>13. DeadOK'
  BY <1>2, <1>5 DEF DeadOK, DeadSlots, Safe
<1> QED
  BY <1>4, <1>6, <1>7, <1>8, <1>9, <1>10, <1>12, <1>13 DEF Safe

\* A thread lets go of a popped buffer; the last one recycles it.
LEMMA DropBufferSafe ==
  ASSUME TypeInv, Safe, NEW t \in Thread, DropBuffer(t)
  PROVE  Safe'
<1>1. PICK ab : ab = retiree_buffer[t]
  OBVIOUS
<1>2. /\ pc[t] = "unref" /\ pc'[t] = "head" /\ retiree_buffer'[t] = NULL
      /\ \A u \in Thread : u # t => pc'[u] = pc[u] /\ retiree_buffer'[u] = retiree_buffer[u]
      /\ UnrefBuffer(ab)
      /\ UNCHANGED <<heap, held, pending, gc, working, uncollected, snapshot, mapped, listVars, retirees, g_last>>
      /\ UNCHANGED <<addrs, marks, n_addrs, free_idx, begin_idx, end_idx, ptr>>
  BY <1>1 DEF DropBuffer, userVars, gcVars, listVars, TypeInv, TypeOK
<1>3. /\ ab \in Buffer /\ ab # NULL /\ t \in Holders(ab) /\ Published(ab)
      /\ free_idx[ab] >= n_addrs[ab] /\ ~Listed(ab) /\ begin_idx[t] = end_idx[t]
  BY <1>1, <1>2, ConstantsAssumption
    DEF TypeInv, TypeOK, PlacesOK, Holders, Published, Safe, ThreadsOK
<1>4. /\ Holders(ab)' = Holders(ab) \ {t}
      /\ \A b \in Buffer : b # ab => Holders(b)' = Holders(b)
      /\ \A b : Listed(b)' <=> Listed(b)
      /\ \A b : CollectorRefs(b)' <=> CollectorRefs(b)
      /\ \A b : Filled(b)' = Filled(b)
  <2>1. Holders(ab)' = Holders(ab) \ {t}
    BY <1>2, <1>3 DEF Holders
  <2>2. \A b \in Buffer : b # ab => Holders(b)' = Holders(b)
    <3> SUFFICES ASSUME NEW b \in Buffer, b # ab PROVE Holders(b)' = Holders(b)
      OBVIOUS
    <3>1. b # NULL
      BY ConstantsAssumption
    <3> QED
      BY <1>1, <1>2, <3>1 DEF Holders
  <2> QED
    BY <1>2, <2>1, <2>2 DEF Listed, CollectorRefs, Filled
<1>5. /\ \A b \in Buffer : b # ab => (Published(b)' <=> Published(b))
      /\ \A b \in Buffer : Published(b)' => Published(b)
      /\ Published(ab)' <=> Holders(ab) \ {t} # {}
  BY <1>3, <1>4 DEF Published
<1>6. /\ Cardinality(Holders(ab)) \in Nat
      /\ Cardinality(Holders(ab)') = Cardinality(Holders(ab)) - 1
      /\ IsFiniteSet(Holders(ab)')
  BY <1>3, <1>4, HoldersFinite, FS_RemoveElement
<1>7. /\ ref_count'[ab] = ref_count[ab] - 1
      /\ \A b \in Buffer : b # ab => ref_count'[b] = ref_count[b]
      /\ ref_count[ab] = Cardinality(Holders(ab)) + IF CollectorRefs(ab) THEN 1 ELSE 0
  BY <1>2, <1>3 DEF UnrefBuffer, TypeInv, TypeOK, Safe, RefCountOK
<1>8. ListOK'
  <2>1. (\A i \in DOMAIN retirees : Holders(retirees[i]) # {} => i = 1)'
    <3> SUFFICES ASSUME NEW i \in DOMAIN retirees, NEW u \in Thread, retiree_buffer'[u] = retirees[i]
                 PROVE  i = 1
      BY <1>2 DEF Holders
    <3>1. retirees[i] # NULL
      BY ConstantsAssumption DEF TypeInv, TypeOK
    <3>2. retiree_buffer[u] = retirees[i]
      BY <1>2, <3>1
    <3> QED
      BY <3>2 DEF Safe, ListOK, Holders
  <2> QED
    BY <1>2, <2>1 DEF ListOK, Safe
<1>9. PhaseOK'
  BY <1>2 DEF PhaseOK, Safe
<1>10. RolesOK'
  <2>1. ab # uncollected /\ (ab = working => CollectorRefs(ab)) /\ ab \notin available /\ ab \in mapped
    <3>1. ab # uncollected /\ ~(Filling /\ ab = working) /\ ab \notin available /\ ab \in mapped
      BY <1>3 DEF Safe, RolesOK
    <3>2. gc = "idle" => ab # working
      BY <1>3 DEF Safe, PhaseOK
    <3>3. gc \in {"idle", "fork", "scan", "push", "uncollect", "unref"}
      BY DEF TypeInv, TypeOK
    <3> QED
      BY <3>1, <3>2, <3>3 DEF CollectorRefs, Filling
  <2>2. CASE ref_count[ab] = 1
    <3>1. ~CollectorRefs(ab) /\ Cardinality(Holders(ab)') = 0
      <4>1. Cardinality(Holders(ab)) # 0
        BY <1>3, HoldersFinite, FS_EmptySet
      <4> QED
        BY <1>6, <1>7, <2>2, <4>1
    <3>2. Holders(ab)' = {}
      BY <1>6, <3>1, FS_EmptySet
    <3>3. ~Published(ab)' /\ ab # working
      BY <1>4, <1>5, <2>1, <3>1, <3>2
    <3>4. available' = available \cup {ab}
      BY <1>2, <1>3, <2>2 DEF UnrefBuffer
    <3> QED
      BY <1>2, <1>5, <2>1, <3>3, <3>4 DEF RolesOK, Filling, Safe
  <2>3. CASE ref_count[ab] # 1
    <3>1. available' = available
      BY <1>2, <2>3 DEF UnrefBuffer
    <3>2. Published(ab)' \/ ab = working
      <4>1. CASE CollectorRefs(ab)
        BY <4>1 DEF CollectorRefs
      <4>2. CASE ~CollectorRefs(ab)
        <5>1. Cardinality(Holders(ab)') # 0
          BY <1>6, <1>7, <2>3, <4>2
        <5> QED
          BY <1>4, <1>5, <5>1, FS_EmptySet
      <4> QED
        BY <4>1, <4>2
    <3> QED
      BY <1>2, <1>3, <1>5, <2>1, <3>1, <3>2 DEF RolesOK, Filling, Safe
  <2> QED
    BY <2>2, <2>3
<1>11. RefCountOK'
  <2>1. ref_count'[ab] = Cardinality(Holders(ab)') + IF CollectorRefs(ab)' THEN 1 ELSE 0
    BY <1>4, <1>6, <1>7
  <2>2. \A b \in Buffer : b # ab =>
          ref_count'[b] = Cardinality(Holders(b)') + IF CollectorRefs(b)' THEN 1 ELSE 0
    BY <1>4, <1>7 DEF RefCountOK, Safe
  <2> QED
    BY <2>1, <2>2 DEF RefCountOK
<1>12. ClaimsOK'
  <2>1. \A b \in Buffer : Published(b)' => free_idx'[b] <= n_addrs'[b]
    BY <1>2, <1>5 DEF Safe, ClaimsOK
  <2>2. \A b \in Buffer : Listed(b)' /\ free_idx'[b] >= n_addrs'[b] =>
          \E u \in Holders(b)' : pc'[u] # "unref"
    <3> SUFFICES ASSUME NEW b \in Buffer, Listed(b), b # ab, free_idx[b] >= n_addrs[b]
                 PROVE  \E u \in Holders(b) : pc'[u] # "unref"
      BY <1>2, <1>3, <1>4
    <3>1. PICK u \in Holders(b) : pc[u] # "unref"
      BY DEF Safe, ClaimsOK
    <3>2. u \in Thread /\ u # t
      BY <1>1 DEF Holders
    <3> QED
      BY <1>2, <3>1, <3>2
  <2>3. \A b \in Buffer : (Holders(b)' # {} \/ CollectorRefs(b)') /\ free_idx'[b] < n_addrs'[b] =>
          Listed(b)'
    <3>1. \A b \in Buffer : Holders(b)' # {} => Holders(b) # {}
      BY <1>4
    <3> QED
      BY <1>2, <1>4, <3>1 DEF Safe, ClaimsOK
  <2> QED
    BY <1>2, <2>1, <2>2, <2>3 DEF ClaimsOK, Filling, Safe
<1>13. ThreadsOK'
  BY <1>2, <1>3, <1>4 DEF ThreadsOK, Safe
<1>14. RangesDisjoint'
  BY <1>2 DEF RangesDisjoint, InRange, Safe
<1>15. UnfreedOK'
  <2>1. \A b \in Buffer : Holders(b)' \subseteq Holders(b)
    BY <1>4
  <2> QED
    BY <1>2, <1>4, <1>5, <2>1 DEF UnfreedOK, InRange, Safe
<1>16. \A b \in Buffer, i \in Slots : Tracks(b, i)' => Tracks(b, i)
  BY <1>2, <1>4, <1>5 DEF Tracks, Filling
<1>17. SlotsUnique' /\ SlotsRetired' /\ FreeingOK'
  BY <1>2, <1>16 DEF SlotsUnique, SlotsRetired, FreeingOK, Safe
<1>18. CollectorOK'
  BY <1>2, CollectorFrame DEF Safe
<1>19. DeadOK'
  BY <1>2, <1>4, <1>5 DEF DeadOK, DeadSlots, Safe
<1> QED
  BY <1>8, <1>9, <1>10, <1>11, <1>12, <1>13, <1>14, <1>15, <1>17, <1>18, <1>19 DEF Safe

(***************************************************************************)
(* The invariant.                                                          *)
(***************************************************************************)

\* Initially nothing is mapped and nobody has anything.
LEMMA SafeInit == Init => Safe /\ StuckOK
<1> SUFFICES ASSUME Init PROVE Safe /\ StuckOK
  OBVIOUS
<1>1. /\ retirees = <<>> /\ g_last = NULL /\ gc = "idle" /\ working = NULL /\ uncollected = NULL
      /\ mapped = {} /\ available = {} /\ pending = {}
      /\ \A t \in Thread : pc[t] = "head" /\ retiree_buffer[t] = NULL /\ begin_idx[t] = 0 /\ end_idx[t] = 0
      /\ \A b \in Buffer : ref_count[b] = 0 /\ n_addrs[b] = 0
  BY DEF Init
<1>2. \A b \in Buffer : b # NULL /\ ~Listed(b) /\ Holders(b) = {} /\ ~Published(b) /\ ~CollectorRefs(b)
  BY <1>1, ConstantsAssumption DEF Listed, Holders, Published, CollectorRefs
<1>3. \A b \in Buffer, i \in Slots : ~Tracks(b, i)
  BY <1>1, <1>2 DEF Tracks, Filling
<1>4. ListOK /\ PhaseOK /\ RolesOK
  BY <1>1, <1>2 DEF ListOK, PhaseOK, RolesOK, Filling
<1>5. RefCountOK
  <2>1. \A b \in Buffer : Cardinality(Holders(b)) = 0
    BY <1>2, FS_EmptySet
  <2> QED
    BY <1>1, <1>2, <2>1 DEF RefCountOK
<1>6. ClaimsOK /\ ThreadsOK /\ StuckOK
  BY <1>1, <1>2 DEF ClaimsOK, ThreadsOK, Filling, StuckOK
<1>7. RangesDisjoint /\ UnfreedOK
  BY <1>1, <1>2 DEF RangesDisjoint, UnfreedOK
<1>8. SlotsUnique /\ SlotsRetired /\ FreeingOK /\ CollectorOK /\ DeadOK
  BY <1>1, <1>2, <1>3 DEF SlotsUnique, SlotsRetired, FreeingOK, CollectorOK, DeadOK, Filling
<1> QED
  BY <1>4, <1>5, <1>6, <1>7, <1>8 DEF Safe

\* There is no way back from an overrun.
LEMMA OverrunStable ==
  ASSUME TypeInv, StuckOK, [Next]_vars
  PROVE  StuckOK' /\ (Overrun => Overrun')
<1>0. /\ \A t \in Thread : begin_idx[t] \in Int /\ end_idx[t] \in Int
      /\ pc \in [Thread -> {"head", "load", "cas", "slot", "free", "pop", "unref", "gone"}]
      /\ retiree_buffer \in [Thread -> Buffer \cup {NULL}]
      /\ begin_idx \in [Thread -> 0 .. Capacity] /\ end_idx \in [Thread -> 0 .. Capacity]
  BY ConstantsAssumption DEF TypeInv, TypeOK
<1>1. CASE UNCHANGED threadVars
  BY <1>1 DEF threadVars, StuckOK, Overrun
<1>2. ASSUME NEW t \in Thread, FreePtrs(t) \/ Exit(t)
      PROVE  StuckOK' /\ (Overrun => Overrun')
  <2> DEFINE Stuck(u) == begin_idx[u] > end_idx[u] \/ (pc[u] = "slot" /\ begin_idx[u] = end_idx[u])
  <2>1. \A u \in Thread : u # t => /\ pc'[u] = pc[u] /\ retiree_buffer'[u] = retiree_buffer[u]
                                   /\ begin_idx'[u] = begin_idx[u] /\ end_idx'[u] = end_idx[u]
    BY <1>0, <1>2 DEF FreePtrs, GetRetireeBuffer, CheckDone, LoadIdx, ClaimRange, TakeSlot, Free,
                      PopRetireeBuffer, DropBuffer, Exit
  <2>2. /\ Stuck(t) => Stuck(t)'
        /\ Stuck(t)' => retiree_buffer'[t] # NULL /\ pc'[t] \in {"head", "slot", "free", "gone"}
    <3>0. Stuck(t) => retiree_buffer[t] # NULL /\ pc[t] \in {"head", "slot", "free", "gone"}
      BY DEF StuckOK
    <3>1. CASE GetRetireeBuffer(t)
      BY <1>0, <3>0, <3>1 DEF GetRetireeBuffer
    <3>2. CASE CheckDone(t)
      BY <1>0, <3>0, <3>2 DEF CheckDone, NeedsRange
    <3>3. CASE LoadIdx(t)
      BY <1>0, <3>0, <3>3 DEF LoadIdx
    <3>4. CASE ClaimRange(t)
      <4>1. pc[t] = "cas" /\ retiree_buffer'[t] = retiree_buffer[t] /\ retiree_buffer[t] # NULL
            /\ pc'[t] \in {"head", "slot"}
        BY <1>0, <3>4 DEF ClaimRange, TypeInv, PlacesOK
      <4> QED
        BY <3>0, <4>1
    <3>5. CASE TakeSlot(t)
      <4>1. /\ pc[t] \in {"head", "slot"} /\ pc'[t] \in {"head", "free"}
            /\ retiree_buffer'[t] = retiree_buffer[t] /\ retiree_buffer[t] # NULL
            /\ begin_idx'[t] = begin_idx[t] + 1 /\ end_idx'[t] = end_idx[t]
        BY <1>0, <3>5 DEF TakeSlot, TypeInv, PlacesOK
      <4> QED
        BY <1>0, <4>1
    <3>6. CASE Free(t)
      BY <1>0, <3>0, <3>6 DEF Free
    <3>7. CASE PopRetireeBuffer(t) \/ DropBuffer(t)
      BY <1>0, <3>0, <3>7 DEF PopRetireeBuffer, DropBuffer
    <3>8. CASE Exit(t)
      BY <1>0, <3>0, <3>8 DEF Exit
    <3> QED
      BY <1>2, <3>1, <3>2, <3>3, <3>4, <3>5, <3>6, <3>7, <3>8 DEF FreePtrs
  <2>3. StuckOK'
    BY <2>1, <2>2 DEF StuckOK
  <2>4. Overrun => Overrun'
    BY <2>1, <2>2 DEF Overrun
  <2> QED
    BY <2>3, <2>4
<1>3. CASE Collector
  <2>1. UNCHANGED threadVars
    BY <1>3 DEF Collector, Aggregate, Fork, Scan, PushBack, Uncollect, UnrefWorking
  <2> QED
    BY <1>1, <2>1
<1>4. ASSUME NEW n \in Node, Malloc(n) \/ Retire(n) \/ Drop(n)
      PROVE  StuckOK' /\ (Overrun => Overrun')
  <2>1. UNCHANGED threadVars
    BY <1>4 DEF Malloc, Retire, Drop
  <2> QED
    BY <1>1, <2>1
<1>5. CASE UNCHANGED vars
  BY <1>1, <1>5 DEF vars
<1> QED
  BY <1>2, <1>3, <1>4, <1>5 DEF Next

\* Until a thread overruns its buffer, every step keeps Safe.
LEMMA SafeStep ==
  ASSUME TypeInv, Safe, [Next]_vars, ~Overrun'
  PROVE  Safe'
<1>1. CASE UNCHANGED vars
  <2>1. /\ UNCHANGED <<userVars, gcVars, poolVars, listVars, bufVars, threadVars>>
        /\ UNCHANGED <<heap, held, pending, gc, working, snapshot, addrs, marks, n_addrs, retirees>>
        /\ UNCHANGED <<retiree_buffer, pc, ptr>>
    BY <1>1 DEF vars, userVars, gcVars, listVars, bufVars, threadVars
  <2>2. SlotsRetired' /\ FreeingOK'
    BY <2>1, ProgramFrame DEF SlotsRetired, FreeingOK, Safe
  <2>3. DeadOK'
    BY <2>1, DeadFrame DEF Safe
  <2> QED
    BY <2>1, <2>2, <2>3, ProgramFrame DEF Safe
<1>2. ASSUME NEW n \in Node, Malloc(n) \/ Retire(n) \/ Drop(n) PROVE Safe'
  BY <1>2, MallocSafe, RetireSafe, DropSafe
<1>3. CASE Collector
  BY <1>3, AggregateSafe, ForkSafe, ScanSafe, PushBackSafe, UncollectSafe, UnrefWorkingSafe
    DEF Collector
<1>4. ASSUME NEW t \in Thread, FreePtrs(t) \/ Exit(t) PROVE Safe'
  BY <1>4, MoveSafe, GetRetireeBufferSafe, ClaimRangeSafe, TakeSlotSafe, FreeSafe,
     PopRetireeBufferSafe, DropBufferSafe DEF FreePtrs
<1> QED
  BY <1>1, <1>2, <1>3, <1>4 DEF Next

\* IndInv is an invariant of Retirees, for any constants.
THEOREM Invariant == Spec => []IndInv
<1>1. Init => IndInv
  BY TypeInvInit, SafeInit DEF IndInv
<1>2. IndInv /\ [Next]_vars => IndInv'
  BY TypeInvStep, OverrunStable, SafeStep DEF IndInv
<1> QED
  BY <1>1, <1>2, PTL DEF Spec

(***************************************************************************)
(* What it implies.                                                        *)
(***************************************************************************)

\* No node is freed while it can be referenced, and none is freed twice
\* (forkscan_util_free_ptrs), until a thread overruns its buffer.
THEOREM FreesAreSafe == Spec => []FreeIsSafe
<1>1. IndInv => FreeIsSafe
  BY DEF IndInv, Safe, FreeingOK, FreeIsSafe
<1> QED
  BY <1>1, Invariant, PTL

\* The reference counts of buffer.c keep a buffer from being recycled while a
\* thread uses it.
THEOREM BuffersArePinned == Spec => []HeldBuffersPinned
<1>1. IndInv => HeldBuffersPinned
  <2> SUFFICES ASSUME IndInv, ~Overrun, NEW t \in Thread, retiree_buffer[t] # NULL
               PROVE  /\ retiree_buffer[t] \in mapped \ available
                      /\ retiree_buffer[t] # uncollected
                      /\ gc \in {"fork", "scan", "push"} => retiree_buffer[t] # working
    BY DEF HeldBuffersPinned
  <2>1. retiree_buffer[t] \in Buffer /\ Published(retiree_buffer[t])
    BY DEF IndInv, TypeInv, TypeOK, Published, Holders
  <2> QED
    BY <2>1 DEF IndInv, Safe, RolesOK, Filling
<1> QED
  BY <1>1, Invariant, PTL

\* g_last_retiree_buffer never goes stale: the FIXME in push_back describes a
\* case that does not arise.
THEOREM LastPointerIsRight == Spec => []LastIsLast
<1>1. IndInv => LastIsLast
  BY DEF IndInv, Safe, ListOK, LastIsLast, Last
<1> QED
  BY <1>1, Invariant, PTL

\* Every mapped aggregate buffer can still be reached by somebody.
THEOREM BuffersAreKept == Spec => []NoBufferLost
<1>1. IndInv => NoBufferLost
  <2> SUFFICES ASSUME IndInv, ~Overrun, NEW b \in mapped
               PROVE  \/ b \in available \/ b = working \/ b = uncollected
                      \/ b \in ToSet(retirees)
                      \/ \E t \in Thread : retiree_buffer[t] = b
    BY DEF NoBufferLost
  <2>1. b \in Buffer
    BY DEF IndInv, TypeInv, TypeOK
  <2>2. Published(b) \/ b \in available \/ b = working \/ b = uncollected
    BY <2>1 DEF IndInv, Safe, RolesOK
  <2> QED
    BY <2>2 DEF Published, Listed, Holders, ToSet
<1> QED
  BY <1>1, Invariant, PTL

\* What the child is told to skip is unreferenced and not in its pool.
THEOREM DeadReferencesAreUnreferenced == Spec => []DeadReferencesAreDead
<1>1. IndInv => DeadReferencesAreDead
  <2> SUFFICES ASSUME IndInv, ~Overrun, gc = "fork", NEW x \in DeadReferences
               PROVE  x \notin held /\ x \notin Addresses(working)
    BY DEF DeadReferencesAreDead
  <2>1. PICK b \in ToSet(retirees) : \E i \in DeadSlots(b) : addrs[b][i] = x
    BY DEF DeadReferences
  <2>2. b \in Buffer /\ Published(b)
    BY <2>1 DEF IndInv, TypeInv, TypeOK, ToSet, Published, Listed
  <2>3. PICK i \in DeadSlots(b) : addrs[b][i] = x
    BY <2>1
  <2>4. i \in Slots /\ i \in Filled(b) /\ Tracks(b, i)
    BY <2>2, <2>3, FilledSlots DEF DeadSlots, Tracks, IndInv
  <2>5. x \notin held
    BY <2>2, <2>3, <2>4 DEF IndInv, Safe, DeadOK
  <2>6. x \notin Addresses(working)
    <3> SUFFICES ASSUME NEW j \in Filled(working), addrs[working][j] = x, x \in Node PROVE FALSE
      BY DEF Addresses
    <3>1. working \in Buffer /\ j \in Slots
      BY FilledSlots DEF IndInv
    <3>2. Tracks(working, j) /\ ~Published(working)
      BY <3>1 DEF Tracks, Filling, IndInv, Safe, RolesOK
    <3> QED
      BY <2>2, <2>3, <2>4, <3>1, <3>2 DEF IndInv, Safe, SlotsUnique
  <2> QED
    BY <2>5, <2>6
<1> QED
  BY <1>1, Invariant, PTL

\* FREE of an address in a thread's hands is what Reclamation calls Free.
LEMMA FreeKeepsPromise ==
  ASSUME heap \in [Node -> {"free", "live", "retired"}], FreeIsSafe, ~Overrun,
         NEW t \in Thread, Free(t)
  PROVE  Promise!Next
<1>1. ptr[t] \in Node /\ ptr[t] \notin held /\ heap[ptr[t]] = "retired"
  BY DEF FreeIsSafe, Free
<1>2. Promise!Free(ptr[t])
  BY <1>1 DEF Free, Promise!Free
<1> QED
  BY <1>1, <1>2 DEF Promise!Next

\* Every step of threads and collector is a step of Reclamation, or changes
\* nothing that Reclamation sees.
LEMMA PromiseStep ==
  ASSUME TypeOK, FreeIsSafe, [Next]_vars
  PROVE  [Promise!Next \/ Overrun]_<<heap, held>>
<1> SUFFICES ASSUME ~Overrun PROVE [Promise!Next]_<<heap, held>>
  OBVIOUS
<1>1. ASSUME NEW n \in Node, Malloc(n) \/ Retire(n) \/ Drop(n)
      PROVE  Promise!Next
  <2>1. Promise!Malloc(n) \/ Promise!Retire(n) \/ Promise!Drop(n)
    BY <1>1 DEF Malloc, Retire, Drop, Promise!Malloc, Promise!Retire, Promise!Drop
  <2> QED
    BY <2>1 DEF Promise!Next
<1>2. CASE Collector
  BY <1>2 DEF Collector, Aggregate, Fork, Scan, PushBack, Uncollect, UnrefWorking, userVars
<1>3. ASSUME NEW t \in Thread, FreePtrs(t) \/ Exit(t)
      PROVE  Promise!Next \/ UNCHANGED <<heap, held>>
  <2>1. CASE Free(t)
    BY <2>1, FreeKeepsPromise DEF TypeOK
  <2>2. CASE ~Free(t)
    BY <1>3, <2>2 DEF FreePtrs, Exit, GetRetireeBuffer, CheckDone, LoadIdx, ClaimRange,
         TakeSlot, PopRetireeBuffer, DropBuffer, userVars
  <2> QED
    BY <2>1, <2>2
<1>4. CASE UNCHANGED vars
  BY <1>4 DEF vars, userVars
<1> QED
  BY <1>1, <1>2, <1>3, <1>4 DEF Next

\* The refinement: until a thread overruns its buffer, the library as it is
\* implemented (forkscan.c, buffer.c, util.c) does what Reclamation allows.
THEOREM PromiseIsKept == Spec => KeepsPromise
<1>1. Init => Promise!Init
  BY DEF Init, Promise!Init
<1>2. IndInv /\ [Next]_vars => [Promise!Next \/ Overrun]_<<heap, held>>
  BY PromiseStep DEF IndInv, TypeInv, Safe, FreeingOK, FreeIsSafe
<1> QED
  BY <1>1, <1>2, Invariant, PTL DEF Spec, KeepsPromise

(***************************************************************************)
(* No node is forgotten.                                                   *)
(***************************************************************************)

\* The collector has n: it is still to be scanned, or to be scanned again.
Collects(n) ==
  \/ n \in pending
  \/ Filling /\ n \in Addresses(working)
  \/ gc = "uncollect" /\ n \in MarkedAddresses(working)
  \/ uncollected # NULL /\ n \in Addresses(uncollected)

\* A thread has claimed slot i of b, or can still claim it.
Claimable(b, i) ==
  \/ Listed(b) /\ i >= free_idx[b]
  \/ \E t \in Holders(b) : InRange(t, i)

\* n is in a slot that some thread will come to.
Waits(n) == \E b \in Buffer, i \in Slots : Claimable(b, i) /\ Awaits(n, b, i)

\* A thread is about to free n.
InHands(n) == \E t \in Thread : pc[t] = "free" /\ ptr[t] = n

\* NoNodeLost in these terms; inductive relative to Safe.
NodesOK == \A n \in Node : heap[n] = "retired" => Collects(n) \/ Waits(n) \/ InHands(n)

\* The words of NoNodeLost for a waiting node are those of Waits.
LEMMA WaitsMeans ==
  ASSUME TypeInv, NEW n
  PROVE  Waits(n) <=>
         \/ \E b \in ToSet(retirees) : \E i \in Slots :
               i >= free_idx[b] /\ Awaits(n, b, i)
         \/ \E t \in Thread : retiree_buffer[t] # NULL /\ \E i \in Slots :
               begin_idx[t] <= i /\ i < end_idx[t] /\ Awaits(n, retiree_buffer[t], i)
<1>1. /\ retirees \in Seq(Buffer) /\ NULL \notin Buffer
      /\ retiree_buffer \in [Thread -> Buffer \cup {NULL}]
  BY ConstantsAssumption DEF TypeInv, TypeOK
<1>2. \A b : b \in ToSet(retirees) <=> Listed(b)
  BY DEF ToSet, Listed
<1>3. \A b : Listed(b) => b \in Buffer
  BY <1>1 DEF Listed
<1> QED
  BY <1>1, <1>2, <1>3 DEF Waits, Claimable, Holders, InRange

\* NodesOK is what NoNodeLost says of a state without an overrun.
LEMMA NodesOKMeans ==
  ASSUME TypeInv
  PROVE  NoNodeLost <=> Overrun \/ NodesOK
BY WaitsMeans DEF NoNodeLost, NodesOK, Collects, Filling, InHands

\* A waiting node keeps waiting while nobody touches buffers, list and ranges.
LEMMA WaitsFrame ==
  ASSUME UNCHANGED <<addrs, marks, n_addrs, free_idx, retirees, retiree_buffer, begin_idx, end_idx>>,
         NEW n
  PROVE  Waits(n)' <=> Waits(n)
BY DEF Waits, Claimable, Awaits, DeadSlots, Filled, Listed, Holders, InRange

\* What the collector has does not change.
LEMMA CollectsFrame ==
  ASSUME UNCHANGED <<pending, gc, working, uncollected, addrs, marks, n_addrs>>, NEW n
  PROVE  Collects(n)' <=> Collects(n)
BY DEF Collects, Filling, Addresses, MarkedAddresses, Filled

\* A node that waits is in a published buffer, so what happens to the buffers
\* of the collector does not concern it.
LEMMA WaitsElsewhere ==
  ASSUME TypeInv, NEW n, NEW c \in Buffer, ~Published(c),
         UNCHANGED <<retirees, retiree_buffer, begin_idx, end_idx, free_idx>>,
         \A b \in Buffer : b # c => addrs'[b] = addrs[b] /\ marks'[b] = marks[b] /\ Filled(b)' = Filled(b),
         Waits(n)
  PROVE  Waits(n)'
<1>1. PICK b \in Buffer, i \in Slots : Claimable(b, i) /\ Awaits(n, b, i)
  BY DEF Waits
<1>2. Published(b) /\ b # c
  BY <1>1 DEF Claimable, Published
<1>3. Awaits(n, b, i)'
  BY <1>1, <1>2 DEF Awaits, DeadSlots
<1>4. Claimable(b, i)'
  BY <1>1 DEF Claimable, Listed, Holders, InRange
<1> QED
  BY <1>3, <1>4 DEF Waits

\* A node is retired while the program still has it, and then pending.
LEMMA ProgramKeepsNodes ==
  ASSUME TypeInv, NodesOK, NEW m \in Node, Malloc(m) \/ Retire(m) \/ Drop(m)
  PROVE  NodesOK'
<1> SUFFICES ASSUME NEW n \in Node, heap'[n] = "retired"
             PROVE  (Collects(n) \/ Waits(n) \/ InHands(n))'
  BY DEF NodesOK
<1>1. /\ UNCHANGED <<gc, working, uncollected, addrs, marks, n_addrs, free_idx>>
      /\ UNCHANGED <<retirees, retiree_buffer, begin_idx, end_idx, pc, ptr>>
      /\ pending \subseteq pending'
      /\ n \in pending' \/ heap[n] = "retired"
  BY DEF Malloc, Retire, Drop, gcVars, listVars, bufVars, threadVars, TypeInv, TypeOK
<1>2. CASE n \in pending'
  BY <1>2 DEF Collects
<1>3. CASE heap[n] = "retired"
  <2>1. Collects(n) => Collects(n)'
    BY <1>1 DEF Collects, Filling, Addresses, MarkedAddresses, Filled
  <2>2. Waits(n) => Waits(n)'
    BY <1>1, WaitsFrame
  <2>3. InHands(n) => InHands(n)'
    BY <1>1 DEF InHands
  <2> QED
    BY <1>3, <2>1, <2>2, <2>3 DEF NodesOK
<1> QED
  BY <1>1, <1>2, <1>3

\* aggregate_addrs and the copy of the leftovers lose nothing: a node that was
\* pending stays so or is in working_data, and so is what was left over.
LEMMA AggregateKeepsNodes ==
  ASSUME TypeInv, Safe, NodesOK, Aggregate
  PROVE  NodesOK'
<1> SUFFICES ASSUME NEW x \in Node, heap'[x] = "retired"
             PROVE  (Collects(x) \/ Waits(x) \/ InHands(x))'
  BY DEF NodesOK
<1> DEFINE old == IF uncollected = NULL THEN {} ELSE Addresses(uncollected)
<1>1. /\ gc = "idle" /\ gc' = "fork"
      /\ UNCHANGED <<heap, retirees, free_idx, pc, ptr, retiree_buffer, begin_idx, end_idx>>
  BY DEF Aggregate, listVars, threadVars
<1>2. PICK batch \in SUBSET pending, b \in Buffer, n \in 1 .. Capacity - 1 :
        /\ pending' = pending \ batch
        /\ IF uncollected # NULL
             THEN b = uncollected /\ UNCHANGED poolVars
             ELSE MakeAggregateBuffer(b)
        /\ working' = b
        /\ \E s \in [0 .. n - 1 -> batch \cup old] :
             Lists(s, n, batch \cup old) /\ FillWith(b, s, n)
  BY DEF Aggregate
<1>3. PICK s \in [0 .. n - 1 -> batch \cup old] :
        Lists(s, n, batch \cup old) /\ FillWith(b, s, n)
  BY <1>2
<1>4. n \in 0 .. Capacity
  BY ConstantsAssumption
<1>5. ~Published(b)
  BY <1>2, MakeAggregateBufferFresh DEF Safe, RolesOK
<1>6. /\ \A c \in Buffer : c # b => addrs'[c] = addrs[c] /\ marks'[c] = marks[c] /\ Filled(c)' = Filled(c)
      /\ Filled(b)' = 0 .. n - 1
      /\ \A i \in Filled(b)' : addrs'[b][i] = s[i]
  BY <1>3, <1>4, FillWithOne
<1>7. x \in batch \cup old => x \in Addresses(working)'
  <2> SUFFICES ASSUME x \in batch \cup old PROVE x \in Addresses(working)'
    OBVIOUS
  <2>1. PICK i \in 0 .. n - 1 : s[i] = x
    BY <1>3 DEF Lists
  <2>2. i \in Filled(b)' /\ addrs'[b][i] = x
    BY <1>6, <2>1
  <2> QED
    BY <1>2, <2>2 DEF Addresses
<1>8. Collects(x) => x \in pending' \/ x \in batch \cup old
  BY <1>1, <1>2 DEF Collects, Filling
<1>9. Collects(x) => Collects(x)'
  BY <1>1, <1>7, <1>8 DEF Collects, Filling
<1>10. Waits(x) => Waits(x)'
  BY <1>1, <1>5, <1>6, WaitsElsewhere
<1>11. InHands(x) => InHands(x)'
  BY <1>1 DEF InHands
<1> QED
  BY <1>1, <1>9, <1>10, <1>11 DEF NodesOK

\* fork takes a picture and changes nothing.
LEMMA ForkKeepsNodes ==
  ASSUME NodesOK, Fork
  PROVE  NodesOK'
<1>1. /\ gc = "fork" /\ gc' = "scan"
      /\ UNCHANGED <<heap, pending, working, uncollected, addrs, marks, n_addrs, free_idx>>
      /\ UNCHANGED <<retirees, retiree_buffer, begin_idx, end_idx, pc, ptr>>
  BY DEF Fork, userVars, listVars, bufVars, threadVars
<1>2. \A n : Collects(n) => Collects(n)'
  BY <1>1 DEF Collects, Filling, Addresses, Filled
<1>3. \A n : Waits(n) => Waits(n)'
  BY <1>1, WaitsFrame
<1> QED
  BY <1>1, <1>2, <1>3 DEF NodesOK, InHands

\* The child's marks are set in a buffer nobody frees from yet.
LEMMA ScanKeepsNodes ==
  ASSUME TypeInv, Safe, NodesOK, Scan
  PROVE  NodesOK'
<1>1. /\ gc = "scan" /\ gc' = "push"
      /\ UNCHANGED <<heap, pending, working, uncollected, addrs, n_addrs, free_idx>>
      /\ UNCHANGED <<retirees, retiree_buffer, begin_idx, end_idx, pc, ptr>>
  BY DEF Scan, userVars, listVars, threadVars
<1>2. working \in Buffer /\ ~Published(working)
  BY <1>1, FilledSlots DEF Safe, RolesOK, Filling
<1>3. \A b \in Buffer : b # working => marks'[b] = marks[b] /\ Filled(b)' = Filled(b)
  BY <1>1, <1>2 DEF Scan, Filled, TypeInv, TypeOK
<1>4. \A n : Collects(n) => Collects(n)'
  BY <1>1 DEF Collects, Filling, Addresses, Filled
<1>5. \A n : Waits(n) => Waits(n)'
  BY <1>1, <1>2, <1>3, WaitsElsewhere
<1> QED
  BY <1>1, <1>4, <1>5 DEF NodesOK, InHands

\* A scanned address is marked, and will be copied, or unmarked, and can be
\* claimed as soon as push_back has listed its buffer with free_idx 0.
LEMMA PushBackKeepsNodes ==
  ASSUME TypeInv, Safe, NodesOK, PushBack
  PROVE  NodesOK'
<1> SUFFICES ASSUME NEW n \in Node, heap'[n] = "retired"
             PROVE  (Collects(n) \/ Waits(n) \/ InHands(n))'
  BY DEF NodesOK
<1>1. /\ gc = "push" /\ gc' = "uncollect"
      /\ UNCHANGED <<heap, pending, working, uncollected, addrs, marks, n_addrs>>
      /\ UNCHANGED <<retiree_buffer, begin_idx, end_idx, pc, ptr>>
  BY DEF PushBack, userVars, threadVars
<1>2. working \in Buffer /\ ~Published(working)
  BY <1>1, FilledSlots DEF Safe, RolesOK, Filling
<1>3. free_idx'[working] = 0 /\ \A b \in Buffer : b # working => free_idx'[b] = free_idx[b]
  BY <1>2 DEF PushBack, TypeInv, TypeOK
<1>4. \A b : Listed(b) \/ b = working => Listed(b)'
  <2>1. retirees' = Append(retirees, working) /\ retirees \in Seq(Buffer)
    BY PushBackAppends DEF TypeInv, TypeOK
  <2>2. DOMAIN retirees' = 1 .. Len(retirees) + 1 /\ Len(retirees) \in Nat
        /\ retirees'[Len(retirees) + 1] = working
        /\ \A i \in 1 .. Len(retirees) : retirees'[i] = retirees[i]
    BY <1>2, <2>1
  <2>3. DOMAIN retirees = 1 .. Len(retirees)
    BY <2>1
  <2>4. Len(retirees) + 1 \in DOMAIN retirees' /\ DOMAIN retirees \subseteq DOMAIN retirees'
    BY <2>2, <2>3
  <2> QED
    BY <2>2, <2>3, <2>4 DEF Listed
<1>5. CASE n \in Addresses(working)
  <2>1. PICK i \in Filled(working) : addrs[working][i] = n
    BY <1>5 DEF Addresses
  <2>2. i \in Slots /\ i \in Nat
    BY <1>2, FilledSlots, ConstantsAssumption DEF Slots
  <2>3. CASE i \in marks[working]
    BY <1>1, <2>1, <2>3 DEF Collects, MarkedAddresses, Filled
  <2>4. CASE i \notin marks[working]
    <3>1. Awaits(n, working, i)'
      BY <1>1, <2>1, <2>4 DEF Awaits, DeadSlots, Filled
    <3>2. Claimable(working, i)'
      <4>1. Listed(working)'
        BY <1>1, <1>4 DEF Listed
      <4>2. i >= free_idx'[working]
        BY <1>3, <2>2
      <4> QED
        BY <1>1, <4>1, <4>2 DEF Claimable
    <3>3. \E b \in Buffer, j \in Slots : Claimable(b, j)' /\ Awaits(n, b, j)'
      BY <1>1, <1>2, <2>2, <3>1, <3>2
    <3> QED
      BY <3>3 DEF Waits
  <2> QED
    BY <2>3, <2>4
<1>6. Collects(n) /\ n \notin Addresses(working) => Collects(n)'
  BY <1>1 DEF Collects, Addresses, Filled
<1>7. Waits(n) => Waits(n)'
  <2> SUFFICES ASSUME Waits(n) PROVE Waits(n)'
    OBVIOUS
  <2>1. PICK b \in Buffer, i \in Slots : Claimable(b, i) /\ Awaits(n, b, i)
    BY DEF Waits
  <2>2. b # working
    BY <1>2, <2>1 DEF Claimable, Published
  <2>3. Claimable(b, i)'
    BY <1>1, <1>3, <1>4, <2>1, <2>2 DEF Claimable, Holders, InRange
  <2>4. Awaits(n, b, i)'
    BY <1>1, <2>1 DEF Awaits, DeadSlots, Filled
  <2> QED
    BY <2>1, <2>3, <2>4 DEF Waits
<1>8. InHands(n) => InHands(n)'
  BY <1>1 DEF InHands
<1> QED
  BY <1>1, <1>5, <1>6, <1>7, <1>8 DEF NodesOK

\* Every marked address is copied to g_uncollected_data.
LEMMA UncollectKeepsNodes ==
  ASSUME TypeInv, Safe, NodesOK, Uncollect
  PROVE  NodesOK'
<1> SUFFICES ASSUME NEW x \in Node, heap'[x] = "retired"
             PROVE  (Collects(x) \/ Waits(x) \/ InHands(x))'
  BY DEF NodesOK
<1> DEFINE S == MarkedAddresses(working)
<1>1. /\ gc = "uncollect" /\ gc' = "unref" /\ UNCHANGED working
      /\ UNCHANGED <<heap, pending, retirees, free_idx, pc, ptr, retiree_buffer, begin_idx, end_idx>>
  BY DEF Uncollect, userVars, listVars, threadVars
<1>2. PICK b \in Buffer, n \in 0 .. Capacity :
        /\ MakeAggregateBuffer(b)
        /\ uncollected' = b
        /\ \E s \in [0 .. n - 1 -> S] : Lists(s, n, S) /\ FillWith(b, s, n)
  BY DEF Uncollect
<1>3. PICK s \in [0 .. n - 1 -> S] : Lists(s, n, S) /\ FillWith(b, s, n)
  BY <1>2
<1>4. ~Published(b) /\ uncollected = NULL /\ b # NULL
  BY <1>1, <1>2, MakeAggregateBufferFresh, ConstantsAssumption DEF Safe, PhaseOK
<1>5. /\ \A c \in Buffer : c # b => addrs'[c] = addrs[c] /\ marks'[c] = marks[c] /\ Filled(c)' = Filled(c)
      /\ Filled(b)' = 0 .. n - 1
      /\ \A i \in Filled(b)' : addrs'[b][i] = s[i]
  BY <1>3, FillWithOne
<1>6. x \in S => x \in Addresses(uncollected)'
  <2> SUFFICES ASSUME x \in S PROVE x \in Addresses(uncollected)'
    OBVIOUS
  <2>1. PICK i \in 0 .. n - 1 : s[i] = x
    BY <1>3 DEF Lists
  <2>2. i \in Filled(b)' /\ addrs'[b][i] = x
    BY <1>5, <2>1
  <2> QED
    BY <1>2, <2>2 DEF Addresses
<1>7. Collects(x) => x \in pending' \/ x \in S
  BY <1>1, <1>4 DEF Collects, Filling
<1>8. Collects(x) => Collects(x)'
  BY <1>2, <1>4, <1>6, <1>7 DEF Collects
<1>9. Waits(x) => Waits(x)'
  BY <1>1, <1>4, <1>5, WaitsElsewhere
<1>10. InHands(x) => InHands(x)'
  BY <1>1 DEF InHands
<1> QED
  BY <1>1, <1>8, <1>9, <1>10 DEF NodesOK

\* When the collector gives up working_data, it needs nothing of it any more.
LEMMA UnrefWorkingKeepsNodes ==
  ASSUME NodesOK, UnrefWorking
  PROVE  NodesOK'
<1>1. /\ gc = "unref" /\ gc' = "idle"
      /\ UNCHANGED <<heap, pending, uncollected, addrs, marks, n_addrs, free_idx>>
      /\ UNCHANGED <<retirees, retiree_buffer, begin_idx, end_idx, pc, ptr>>
  BY DEF UnrefWorking, userVars, listVars, threadVars
<1>2. \A n : Collects(n) => Collects(n)'
  BY <1>1 DEF Collects, Filling, Addresses, Filled
<1>3. \A n : Waits(n) => Waits(n)'
  BY <1>1, WaitsFrame
<1> QED
  BY <1>1, <1>2, <1>3 DEF NodesOK, InHands

\* A thread between loads, or at its end, has changed no range and no buffer.
LEMMA MoveKeepsNodes ==
  ASSUME TypeInv, NodesOK, NEW t \in Thread, CheckDone(t) \/ LoadIdx(t) \/ Exit(t)
  PROVE  NodesOK'
<1>1. /\ UNCHANGED <<heap, pending, gc, working, uncollected, addrs, marks, n_addrs, free_idx>>
      /\ UNCHANGED <<retirees, retiree_buffer, begin_idx, end_idx, ptr>>
      /\ pc[t] # "free"
      /\ \A u \in Thread : u # t => pc'[u] = pc[u]
  BY DEF CheckDone, NeedsRange, LoadIdx, Exit, userVars, gcVars, listVars, bufVars, TypeInv, TypeOK
<1>2. \A n : InHands(n) => InHands(n)'
  BY <1>1 DEF InHands
<1> QED
  BY <1>1, <1>2, CollectsFrame, WaitsFrame DEF NodesOK

\* A thread that takes a buffer has nothing claimed, and claims nothing yet.
LEMMA GetRetireeBufferKeepsNodes ==
  ASSUME TypeInv, NodesOK, NEW t \in Thread, GetRetireeBuffer(t)
  PROVE  NodesOK'
<1>1. /\ UNCHANGED <<heap, pending, gc, working, uncollected, addrs, marks, n_addrs, free_idx>>
      /\ UNCHANGED <<retirees, pc, ptr>>
      /\ retiree_buffer[t] = NULL
      /\ \A u \in Thread : u # t => /\ retiree_buffer'[u] = retiree_buffer[u]
                                    /\ begin_idx'[u] = begin_idx[u] /\ end_idx'[u] = end_idx[u]
  BY DEF GetRetireeBuffer, userVars, gcVars, listVars, TypeInv, TypeOK
<1>2. ASSUME NEW n, Waits(n) PROVE Waits(n)'
  <2>1. PICK b \in Buffer, i \in Slots : Claimable(b, i) /\ Awaits(n, b, i)
    BY <1>2 DEF Waits
  <2>2. t \notin Holders(b)
    BY <1>1, ConstantsAssumption DEF Holders
  <2>3. Claimable(b, i)'
    BY <1>1, <2>1, <2>2 DEF Claimable, Listed, Holders, InRange
  <2>4. Awaits(n, b, i)'
    BY <1>1, <2>1 DEF Awaits, DeadSlots, Filled
  <2> QED
    BY <2>1, <2>3, <2>4 DEF Waits
<1>3. \A n : InHands(n) => InHands(n)'
  BY <1>1 DEF InHands
<1> QED
  BY <1>1, <1>2, <1>3, CollectsFrame DEF NodesOK

\* A slot the compare-and-swap takes from the unclaimed part of the buffer is
\* in the range of the thread that won it.
LEMMA ClaimRangeKeepsNodes ==
  ASSUME TypeInv, Safe, NodesOK, NEW t \in Thread, ClaimRange(t)
  PROVE  NodesOK'
<1>1. PICK ab : ab = retiree_buffer[t]
  OBVIOUS
<1>2. /\ pc[t] = "cas" /\ begin_idx[t] = end_idx[t]
      /\ UNCHANGED <<heap, pending, gc, working, uncollected, addrs, marks, n_addrs>>
      /\ UNCHANGED <<retirees, retiree_buffer, ptr>>
  BY DEF ClaimRange, userVars, gcVars, listVars, Safe, ThreadsOK
<1>3. ab \in Buffer /\ t \in Holders(ab)
  BY <1>1, <1>2 DEF TypeInv, TypeOK, PlacesOK, Holders
<1>4. /\ \A u \in Thread : u # t => /\ pc'[u] = pc[u]
                                    /\ begin_idx'[u] = begin_idx[u] /\ end_idx'[u] = end_idx[u]
      /\ \A b \in Buffer : b # ab => free_idx'[b] = free_idx[b]
  BY <1>1, <1>3 DEF ClaimRange, TypeInv, TypeOK
<1>5. begin_idx[t] \in Nat /\ end_idx[t] \in Nat /\ \A i \in Slots : i \in Nat
  BY ConstantsAssumption DEF TypeInv, TypeOK, Slots
<1>6. \A i \in Slots : ~InRange(t, i)
  BY <1>2, <1>5 DEF InRange
<1>7. \A i \in Slots : i >= free_idx[ab] => i >= free_idx'[ab] \/ InRange(t, i)'
  <2>1. CASE free_idx[ab] = idx[t]
    <3>1. /\ begin_idx'[t] = free_idx[ab]
          /\ end_idx'[t] = free_idx'[ab]
      BY <1>1, <1>3, <2>1 DEF ClaimRange, TypeInv, TypeOK
    <3>2. free_idx[ab] \in Nat /\ free_idx'[ab] \in Nat
      <4>1. /\ n_addrs[ab] \in Nat /\ free_idx[ab] \in Nat /\ idx[t] \in Nat /\ RangeSz \in Nat
        BY <1>3, ConstantsAssumption DEF TypeInv, TypeOK
      <4>2. free_idx'[ab] = EndOfRange(t)
        BY <1>1, <1>3, <2>1 DEF ClaimRange, TypeInv, TypeOK
      <4> QED
        BY <1>1, <4>1, <4>2 DEF EndOfRange
    <3> QED
      BY <1>5, <3>1, <3>2 DEF InRange
  <2>2. CASE free_idx[ab] # idx[t]
    BY <1>1, <2>2 DEF ClaimRange
  <2> QED
    BY <2>1, <2>2
<1>8. ASSUME NEW n, Waits(n) PROVE Waits(n)'
  <2>1. PICK b \in Buffer, i \in Slots : Claimable(b, i) /\ Awaits(n, b, i)
    BY <1>8 DEF Waits
  <2>2. Claimable(b, i)'
    <3>1. Listed(b)' <=> Listed(b)
      BY <1>2 DEF Listed
    <3>2. Holders(b)' = Holders(b)
      BY <1>2 DEF Holders
    <3>3. ASSUME Listed(b), i >= free_idx[b] PROVE Claimable(b, i)'
      <4>1. CASE b # ab
        BY <1>4, <3>1, <3>3, <4>1 DEF Claimable
      <4>2. CASE b = ab
        BY <1>3, <1>7, <3>1, <3>2, <3>3, <4>2 DEF Claimable
      <4> QED
        BY <4>1, <4>2
    <3>4. ASSUME NEW u \in Holders(b), InRange(u, i) PROVE Claimable(b, i)'
      <4>1. u # t /\ u \in Thread
        BY <1>6, <3>4 DEF Holders
      <4>2. InRange(u, i)'
        BY <1>4, <3>4, <4>1 DEF InRange
      <4> QED
        BY <3>2, <4>2 DEF Claimable
    <3> QED
      BY <2>1, <3>3, <3>4 DEF Claimable
  <2>3. Awaits(n, b, i)'
    BY <1>2, <2>1 DEF Awaits, DeadSlots, Filled
  <2> QED
    BY <2>1, <2>2, <2>3 DEF Waits
<1>9. \A n : InHands(n) => InHands(n)'
  BY <1>2, <1>4 DEF InHands
<1> QED
  BY <1>2, <1>8, <1>9, CollectsFrame DEF NodesOK

\* The address a thread takes out of its buffer goes to the thread's hands;
\* a marked slot it skips was not waiting; no other slot changes.
LEMMA TakeSlotKeepsNodes ==
  ASSUME TypeInv, Safe, NodesOK, NEW t \in Thread, TakeSlot(t)
  PROVE  NodesOK'
<1>1. PICK ab, k : ab = retiree_buffer[t] /\ k = begin_idx[t]
  OBVIOUS
<1>2. /\ UNCHANGED <<heap, pending, gc, working, uncollected>>
      /\ UNCHANGED <<marks, n_addrs, free_idx, retirees, retiree_buffer, end_idx>>
      /\ pc[t] # "free"
  BY DEF TakeSlot, userVars, gcVars, listVars
<1>3. ab \in Buffer /\ ab # NULL /\ t \in Holders(ab) /\ Published(ab)
  BY <1>1, ConstantsAssumption DEF TakeSlot, TypeInv, TypeOK, PlacesOK, Holders, Published
<1>4. k \in Slots /\ k \in Nat /\ end_idx[t] \in Nat /\ \A i \in Slots : i \in Nat
  BY <1>1, ConstantsAssumption DEF TakeSlot, Slots, TypeInv, TypeOK
<1>5. /\ begin_idx'[t] = k + 1
      /\ \A u \in Thread : u # t => begin_idx'[u] = begin_idx[u] /\ pc'[u] = pc[u] /\ ptr'[u] = ptr[u]
  BY <1>1 DEF TakeSlot, TypeInv, TypeOK
<1>6. \/ k \in marks[ab] /\ pc'[t] = "head" /\ UNCHANGED addrs
      \/ /\ k \notin marks[ab] /\ pc'[t] = "free" /\ ptr'[t] = addrs[ab][k]
         /\ \A b \in Buffer, i \in Slots : b # ab \/ i # k => addrs'[b][i] = addrs[b][i]
  <2>1. CASE k \in marks[ab]
    BY <1>1, <2>1 DEF TakeSlot, TypeInv, TypeOK
  <2>2. CASE k \notin marks[ab]
    <3>1. /\ addrs' = [addrs EXCEPT ![ab] = [addrs[ab] EXCEPT ![k] = Removed]]
          /\ ptr' = [ptr EXCEPT ![t] = addrs[ab][k]]
          /\ pc' = [pc EXCEPT ![t] = "free"]
      BY <1>1, <2>2 DEF TakeSlot
    <3>2. addrs \in [Buffer -> [Slots -> Word]] /\ ptr \in [Thread -> Word]
          /\ pc \in [Thread -> {"head", "load", "cas", "slot", "free", "pop", "unref", "gone"}]
      BY DEF TypeInv, TypeOK
    <3> QED
      BY <1>3, <1>4, <2>2, <3>1, <3>2
  <2> QED
    BY <2>1, <2>2
<1>7. \A u \in Thread, i \in Slots : InRange(u, i) /\ (u # t \/ i # k) => InRange(u, i)'
  <2>1. \A i \in Slots : InRange(t, i) /\ i # k => InRange(t, i)'
    BY <1>1, <1>2, <1>4, <1>5 DEF InRange
  <2>2. \A u \in Thread, i \in Slots : u # t /\ InRange(u, i) => InRange(u, i)'
    BY <1>2, <1>5 DEF InRange
  <2> QED
    BY <2>1, <2>2
<1>8. ASSUME NEW n \in Node, Waits(n) PROVE Waits(n)' \/ InHands(n)'
  <2>1. PICK b \in Buffer, i \in Slots : Claimable(b, i) /\ Awaits(n, b, i)
    BY <1>8 DEF Waits
  <2>2. i \in Filled(b) /\ i \notin marks[b] /\ addrs[b][i] = n
    BY <2>1 DEF Awaits, DeadSlots
  <2>3. CASE b = ab /\ i = k
    BY <1>6, <2>2, <2>3 DEF InHands
  <2>4. CASE b # ab \/ i # k
    <3>1. Awaits(n, b, i)'
      BY <1>2, <1>6, <2>2, <2>4 DEF Awaits, DeadSlots, Filled
    <3>2. Claimable(b, i)'
      <4>1. CASE Listed(b) /\ i >= free_idx[b]
        BY <1>2, <4>1 DEF Claimable, Listed
      <4>2. ASSUME NEW u \in Holders(b), InRange(u, i) PROVE Claimable(b, i)'
        <5>1. u \in Thread /\ (u # t \/ i # k) /\ u \in Holders(b)'
          BY <1>1, <1>2, <2>4, <4>2 DEF Holders
        <5> QED
          BY <1>7, <4>2, <5>1 DEF Claimable
      <4> QED
        BY <2>1, <4>1, <4>2 DEF Claimable
    <3> QED
      BY <2>1, <3>1, <3>2 DEF Waits
  <2> QED
    BY <2>3, <2>4
<1>9. ASSUME NEW n \in Node, Collects(n) PROVE Collects(n)'
  <2>1. Filling => working \in Buffer /\ working # ab
    BY <1>3, FilledSlots DEF Safe, RolesOK, Filling
  <2>2. uncollected # NULL => uncollected \in Buffer /\ uncollected # ab
    BY <1>3 DEF Safe, RolesOK, TypeInv, TypeOK
  <2>3. \A b \in Buffer : b # ab => \A i \in Filled(b) : addrs'[b][i] = addrs[b][i]
    BY <1>6, FilledSlots
  <2>4. CASE n \in pending
    BY <1>2, <2>4 DEF Collects
  <2>5. CASE Filling /\ n \in Addresses(working)
    <3>1. PICK i \in Filled(working) : addrs[working][i] = n
      BY <2>5 DEF Addresses
    <3>2. addrs'[working][i] = n /\ i \in Filled(working)'
      BY <1>2, <2>1, <2>3, <2>5, <3>1 DEF Filled
    <3>3. n \in Addresses(working)'
      BY <1>2, <3>2 DEF Addresses
    <3> QED
      BY <1>2, <2>5, <3>3 DEF Collects, Filling
  <2>6. CASE gc = "uncollect" /\ n \in MarkedAddresses(working)
    <3>1. PICK i \in Filled(working) \cap marks[working] : addrs[working][i] = n
      BY <2>6 DEF MarkedAddresses
    <3>2. working \in Buffer /\ i \in Slots
      BY <2>6, FilledSlots
    <3>3. addrs'[working][i] = n
      BY <1>6, <3>1, <3>2
    <3>4. n \in MarkedAddresses(working)'
      BY <1>2, <3>1, <3>3 DEF MarkedAddresses, Filled
    <3> QED
      BY <1>2, <2>6, <3>4 DEF Collects
  <2>7. CASE uncollected # NULL /\ n \in Addresses(uncollected)
    <3>1. PICK i \in Filled(uncollected) : addrs[uncollected][i] = n
      BY <2>7 DEF Addresses
    <3>2. addrs'[uncollected][i] = n /\ i \in Filled(uncollected)'
      BY <1>2, <2>2, <2>3, <2>7, <3>1 DEF Filled
    <3>3. n \in Addresses(uncollected)'
      BY <1>2, <3>2 DEF Addresses
    <3> QED
      BY <1>2, <2>7, <3>3 DEF Collects
  <2> QED
    BY <1>9, <2>4, <2>5, <2>6, <2>7 DEF Collects
<1>10. \A n : InHands(n) => InHands(n)'
  BY <1>2, <1>5 DEF InHands
<1> QED
  BY <1>2, <1>8, <1>9, <1>10 DEF NodesOK

\* The node that leaves a thread's hands is free.
LEMMA FreeKeepsNodes ==
  ASSUME TypeInv, Safe, NodesOK, NEW t \in Thread, Free(t)
  PROVE  NodesOK'
<1>1. /\ UNCHANGED <<pending, gc, working, uncollected, addrs, marks, n_addrs, free_idx>>
      /\ UNCHANGED <<retirees, retiree_buffer, begin_idx, end_idx>>
      /\ \A u \in Thread : u # t => pc'[u] = pc[u] /\ ptr'[u] = ptr[u]
  BY DEF Free, gcVars, listVars, bufVars, TypeInv, TypeOK
<1>2. \A n \in Node : heap'[n] = "retired" => heap[n] = "retired" /\ n # ptr[t]
  BY DEF Free, Safe, FreeingOK, TypeInv, TypeOK
<1>3. \A n : InHands(n) /\ n # ptr[t] => InHands(n)'
  BY <1>1 DEF InHands
<1> QED
  BY <1>1, <1>2, <1>3, CollectsFrame, WaitsFrame DEF NodesOK

\* A buffer that leaves the list has no unclaimed slot left.
LEMMA PopRetireeBufferKeepsNodes ==
  ASSUME TypeInv, Safe, NodesOK, NEW t \in Thread, PopRetireeBuffer(t)
  PROVE  NodesOK'
<1>1. PICK ab : ab = retiree_buffer[t]
  OBVIOUS
<1>2. /\ pc[t] = "pop"
      /\ \A u \in Thread : u # t => pc'[u] = pc[u]
      /\ UNCHANGED <<heap, pending, gc, working, uncollected, addrs, marks, n_addrs, free_idx>>
      /\ UNCHANGED <<retiree_buffer, begin_idx, end_idx, ptr>>
  BY DEF PopRetireeBuffer, userVars, gcVars, bufVars, TypeInv, TypeOK
<1>3. ab \in Buffer /\ free_idx[ab] >= n_addrs[ab] /\ free_idx[ab] \in Nat /\ n_addrs[ab] \in Nat
  BY <1>1, <1>2, ConstantsAssumption DEF TypeInv, TypeOK, PlacesOK, Safe, ThreadsOK
<1>4. \A b : Listed(b) /\ b # ab => Listed(b)'
  <2>1. CASE Listed(ab)
    <3>1. retirees # <<>> /\ retirees[1] = ab /\ retirees' = Tail(retirees) /\ retirees \in Seq(Buffer)
      BY <1>1, <2>1, PopIsTail DEF TypeInv, TypeOK
    <3>2. /\ Len(retirees) \in Nat \ {0} /\ DOMAIN retirees = 1 .. Len(retirees)
          /\ DOMAIN retirees' = 1 .. Len(retirees) - 1
          /\ \A i \in DOMAIN retirees' : retirees'[i] = retirees[i + 1]
      BY <3>1
    <3>3. ASSUME NEW b, Listed(b), b # ab PROVE Listed(b)'
      <4>1. PICK i \in DOMAIN retirees : retirees[i] = b
        BY <3>3 DEF Listed
      <4>2. i \in 1 .. Len(retirees) /\ i # 1
        BY <3>1, <3>2, <3>3, <4>1
      <4>3. i - 1 \in DOMAIN retirees' /\ (i - 1) + 1 = i
        BY <3>2, <4>2
      <4> QED
        BY <3>2, <4>1, <4>3 DEF Listed
    <3> QED
      BY <3>3
  <2>2. CASE ~Listed(ab)
    BY <1>1, <2>2 DEF PopRetireeBuffer, Listed, listVars
  <2> QED
    BY <2>1, <2>2
<1>5. ASSUME NEW n, Waits(n) PROVE Waits(n)'
  <2>1. PICK b \in Buffer, i \in Slots : Claimable(b, i) /\ Awaits(n, b, i)
    BY <1>5 DEF Waits
  <2>2. ~(b = ab /\ i >= free_idx[b])
    BY <1>3, <2>1 DEF Awaits, DeadSlots, Filled
  <2>3. Claimable(b, i)'
    BY <1>2, <1>4, <2>1, <2>2 DEF Claimable, Holders, InRange
  <2>4. Awaits(n, b, i)'
    BY <1>2, <2>1 DEF Awaits, DeadSlots, Filled
  <2> QED
    BY <2>1, <2>3, <2>4 DEF Waits
<1>6. \A n : InHands(n) => InHands(n)'
  BY <1>2 DEF InHands
<1> QED
  BY <1>2, <1>5, <1>6, CollectsFrame DEF NodesOK

\* A thread that drops its buffer has worked off its range.
LEMMA DropBufferKeepsNodes ==
  ASSUME TypeInv, Safe, NodesOK, NEW t \in Thread, DropBuffer(t)
  PROVE  NodesOK'
<1>1. /\ pc[t] = "unref" /\ begin_idx[t] = end_idx[t]
      /\ UNCHANGED <<heap, pending, gc, working, uncollected, addrs, marks, n_addrs, free_idx>>
      /\ UNCHANGED <<retirees, begin_idx, end_idx, ptr>>
      /\ \A u \in Thread : u # t => retiree_buffer'[u] = retiree_buffer[u] /\ pc'[u] = pc[u]
  BY DEF DropBuffer, userVars, gcVars, listVars, Safe, ThreadsOK, TypeInv, TypeOK
<1>2. begin_idx[t] \in Nat /\ \A i \in Slots : i \in Nat
  BY ConstantsAssumption DEF TypeInv, TypeOK, Slots
<1>3. \A i \in Slots : ~InRange(t, i)
  BY <1>1, <1>2 DEF InRange
<1>4. ASSUME NEW n, Waits(n) PROVE Waits(n)'
  <2>1. PICK b \in Buffer, i \in Slots : Claimable(b, i) /\ Awaits(n, b, i)
    BY <1>4 DEF Waits
  <2>2. Claimable(b, i)'
    BY <1>1, <1>3, <2>1 DEF Claimable, Listed, Holders, InRange
  <2>3. Awaits(n, b, i)'
    BY <1>1, <2>1 DEF Awaits, DeadSlots, Filled
  <2> QED
    BY <2>1, <2>2, <2>3 DEF Waits
<1>5. \A n : InHands(n) => InHands(n)'
  BY <1>1 DEF InHands
<1> QED
  BY <1>1, <1>4, <1>5, CollectsFrame DEF NodesOK

\* Until a thread overruns its buffer, every step keeps every node.
LEMMA NodesStep ==
  ASSUME TypeInv, Safe, NodesOK, [Next]_vars
  PROVE  NodesOK'
<1>1. CASE UNCHANGED vars
  <2>1. /\ UNCHANGED <<heap, pending, gc, working, uncollected, addrs, marks, n_addrs, free_idx>>
        /\ UNCHANGED <<retirees, retiree_buffer, begin_idx, end_idx, pc, ptr>>
    BY <1>1 DEF vars, userVars, gcVars, listVars, bufVars, threadVars
  <2> QED
    BY <2>1, CollectsFrame, WaitsFrame DEF NodesOK, InHands
<1>2. ASSUME NEW n \in Node, Malloc(n) \/ Retire(n) \/ Drop(n) PROVE NodesOK'
  BY <1>2, ProgramKeepsNodes
<1>3. CASE Collector
  BY <1>3, AggregateKeepsNodes, ForkKeepsNodes, ScanKeepsNodes, PushBackKeepsNodes,
     UncollectKeepsNodes, UnrefWorkingKeepsNodes DEF Collector
<1>4. ASSUME NEW t \in Thread, FreePtrs(t) \/ Exit(t) PROVE NodesOK'
  BY <1>4, MoveKeepsNodes, GetRetireeBufferKeepsNodes, ClaimRangeKeepsNodes, TakeSlotKeepsNodes,
     FreeKeepsNodes, PopRetireeBufferKeepsNodes, DropBufferKeepsNodes DEF FreePtrs
<1> QED
  BY <1>1, <1>2, <1>3, <1>4 DEF Next

\* No retired node is forgotten between forkscan_retire, aggregate_addrs, the
\* copy of the leftovers in reclaim_iteration and forkscan_util_free_ptrs,
\* until a thread overruns its buffer: it stays with the collector, waits in a
\* slot that a thread has claimed or can claim, or is about to be freed.
THEOREM NodesAreKept == Spec => []NoNodeLost
<1>1. Init => Overrun \/ NodesOK
  BY DEF Init, NodesOK
<1>2. IndInv /\ (Overrun \/ NodesOK) /\ [Next]_vars => (Overrun \/ NodesOK)'
  BY OverrunStable, NodesStep DEF IndInv
<1>3. IndInv /\ (Overrun \/ NodesOK) => NoNodeLost
  BY NodesOKMeans DEF IndInv
<1> QED
  BY <1>1, <1>2, <1>3, Invariant, PTL DEF Spec
=============================================================================
