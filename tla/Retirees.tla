------------------------------ MODULE Retirees ------------------------------
(***************************************************************************)
(* The life of a retired node after it has been handed to the collector,   *)
(* and of the aggregate buffers that carry it (buffer.c, the second half   *)
(* of reclaim_iteration in forkscan.c, forkscan_util_free_ptrs in util.c). *)
(*                                                                         *)
(* The collector gathers retired addresses in an aggregate buffer, lets a  *)
(* forked child mark the ones that are still referenced, and publishes the *)
(* buffer on the list of retiree buffers.  User threads claim ranges of    *)
(* the buffer at the head of that list with a compare-and-swap on its      *)
(* free_idx, free the unmarked addresses of their range, and drop the      *)
(* buffer when every range is claimed.  Buffers are reference counted and  *)
(* recycled.                                                               *)
(*                                                                         *)
(* The child's scan is used here through its contract (see Fork and Scan); *)
(* a critical section under g_retiree_mutex is one action.                 *)
(***************************************************************************)
EXTENDS Integers, Sequences, FiniteSets, SequencesExt

CONSTANTS Node,      \* the addresses the allocator hands out (naturals)
          Buffer,    \* the aggregate buffers that can be mapped at once
          Thread,    \* the user threads
          Capacity,  \* addresses an aggregate buffer has room for
          RangeSz,   \* FREE_RANGE_SZ
          MayExit,   \* the threads that may end before the process does
          NULL,      \* the null buffer pointer
          Zero,      \* a word of a freshly mapped buffer
          Removed    \* the word 0x2 that replaces a freed address

ASSUME ConstantsAssumption ==
  /\ Node \subseteq Nat
  /\ IsFiniteSet(Thread)
  /\ Capacity \in Nat
  /\ RangeSz \in Nat \ {0}
  /\ MayExit \subseteq Thread
  /\ NULL \notin Buffer
  /\ Zero \notin Node /\ Removed \notin Node

VARIABLES
  heap,            \* heap[n]: "free", "live" or "retired"
  held,            \* the nodes some thread has, or can acquire, a reference to
  pending,         \* retired addresses not yet aggregated by the collector
  gc,              \* where the collector is in reclaim_iteration
  working,         \* working_data
  uncollected,     \* g_uncollected_data
  snapshot,        \* pool nodes that were referenced when the child was forked
  mapped,          \* aggregate buffers that are mmap'd
  available,       \* g_available_aggregates
  retirees,        \* the list from g_first_retiree_buffer along next
  g_last,          \* g_last_retiree_buffer
  addrs,           \* addrs[b][i]: the address in slot i, low bit left out
  marks,           \* marks[b]: the slots of b whose low bit is set
  n_addrs, free_idx, ref_count,              \* fields of addr_buffer_t
  pc,              \* where a thread is in forkscan_util_free_ptrs
  retiree_buffer, begin_idx, end_idx,        \* fields of thread_data_t
  idx, ptr         \* the locals begin_idx and ptr of forkscan_util_free_ptrs

userVars   == <<heap, held, pending>>
gcVars     == <<gc, working, uncollected, snapshot>>
poolVars   == <<mapped, available>>
listVars   == <<retirees, g_last>>
bufVars    == <<addrs, marks, n_addrs, free_idx, ref_count>>
threadVars == <<pc, retiree_buffer, begin_idx, end_idx, idx, ptr>>
vars == <<userVars, gcVars, poolVars, listVars, bufVars, threadVars>>

Slots == 0 .. Capacity - 1
Word  == Node \cup {Zero, Removed}

(***************************************************************************)
(* What the buffers say.                                                   *)
(***************************************************************************)

\* The slots of b that hold an address: the first n_addrs.
Filled(b) == 0 .. n_addrs[b] - 1

\* All addresses in b, marked or not (PTR_MASK).
Addresses(b) == {addrs[b][i] : i \in Filled(b)} \cap Node

\* Seeded fault: dead references without a look at the mark.
AnySlots(b) == {i \in Filled(b) : addrs[b][i] \in Node}

\* The slots of b that the scan found unreferenced and nobody has freed yet.
DeadSlots(b) == {i \in Filled(b) : i \notin marks[b] /\ addrs[b][i] \in Node}

\* Seeded fault: the copy of the leftovers stops one address too early.
AllButLastMarked(b) == {addrs[b][i] : i \in (0 .. n_addrs[b] - 2) \cap marks[b]}

\* Seeded fault: the leftovers are copied without a look at their marks.
LeftoversAndMore(b) == {addrs[b][i] : i \in Filled(b)} \cap Node

\* The addresses the scan of b found referenced.
MarkedAddresses(b) == {addrs[b][i] : i \in Filled(b) \cap marks[b]}

\* forkscan_buffer_get_dead_references: what the child may skip, because it
\* is as good as freed.  (Addresses beyond the capacity of the result are
\* dropped, which the code tolerates as false positives.)
DeadReferences ==
  UNION {{addrs[b][i] : i \in DeadSlots(b)} : b \in ToSet(retirees)}

TypeOK ==
  /\ heap \in [Node -> {"free", "live", "retired"}]
  /\ held \in SUBSET Node
  /\ pending \in SUBSET Node
  /\ gc \in {"idle", "fork", "scan", "push", "uncollect", "unref"}
  /\ working \in Buffer \cup {NULL}
  /\ uncollected \in Buffer \cup {NULL}
  /\ snapshot \in SUBSET Node
  /\ mapped \in SUBSET Buffer
  /\ available \in SUBSET Buffer
  /\ retirees \in Seq(Buffer)
  /\ g_last \in Buffer \cup {NULL}
  /\ addrs \in [Buffer -> [Slots -> Word]]
  /\ marks \in [Buffer -> SUBSET Slots]
  /\ n_addrs \in [Buffer -> 0 .. Capacity]
  /\ free_idx \in [Buffer -> 0 .. Capacity]
  /\ ref_count \in [Buffer -> Int]
  /\ pc \in [Thread -> {"head", "load", "cas", "slot", "free", "pop", "unref", "gone"}]
  /\ retiree_buffer \in [Thread -> Buffer \cup {NULL}]
  /\ begin_idx \in [Thread -> 0 .. Capacity]
  /\ end_idx \in [Thread -> 0 .. Capacity]
  /\ idx \in [Thread -> 0 .. Capacity]
  /\ ptr \in [Thread -> Word]

Init ==
  /\ heap = [n \in Node |-> "free"]
  /\ held = {}
  /\ pending = {}
  /\ gc = "idle"
  /\ working = NULL
  /\ uncollected = NULL
  /\ snapshot = {}
  /\ mapped = {}
  /\ available = {}
  /\ retirees = <<>>
  /\ g_last = NULL
  /\ addrs = [b \in Buffer |-> [i \in Slots |-> Zero]]
  /\ marks = [b \in Buffer |-> {}]
  /\ n_addrs = [b \in Buffer |-> 0]
  /\ free_idx = [b \in Buffer |-> 0]
  /\ ref_count = [b \in Buffer |-> 0]
  /\ pc = [t \in Thread |-> "head"]
  /\ retiree_buffer = [t \in Thread |-> NULL]
  /\ begin_idx = [t \in Thread |-> 0]
  /\ end_idx = [t \in Thread |-> 0]
  /\ idx = [t \in Thread |-> 0]
  /\ ptr = [t \in Thread |-> Zero]

(***************************************************************************)
(* The program that uses the library.  It retires a node at most once      *)
(* (README, Semantics), while it still has a reference to it, and cannot   *)
(* find a reference to a node again once the last one is gone.             *)
(***************************************************************************)

\* forkscan_malloc
Malloc(n) ==
  /\ heap[n] = "free"
  /\ heap' = [heap EXCEPT ![n] = "live"]
  /\ held' = held \cup {n}
  /\ UNCHANGED <<pending, gcVars, poolVars, listVars, bufVars, threadVars>>

\* forkscan_retire, as far as the address reaches the collector: the queues
\* and the reclaimer in between are the business of Collect.
Retire(n) ==
  /\ heap[n] = "live"
  /\ n \in held
  /\ heap' = [heap EXCEPT ![n] = "retired"]
  /\ pending' = pending \cup {n}
  /\ UNCHANGED <<held, gcVars, poolVars, listVars, bufVars, threadVars>>

\* The last reference to a retired node disappears.
Drop(n) ==
  /\ heap[n] = "retired"
  /\ held' = held \ {n}
  /\ n \in held
  /\ UNCHANGED <<heap, pending, gcVars, poolVars, listVars, bufVars, threadVars>>

(***************************************************************************)
(* The collector: reclaim_iteration.                                       *)
(***************************************************************************)

\* forkscan_make_aggregate_buffer: every buffer has the same capacity here,
\* so a recycled one is taken when there is one, and one is mapped otherwise.
\* A fresh mapping is all zeroes; a recycled buffer keeps its old contents.
MakeAggregateBuffer(b) ==
  /\ IF available # {} THEN b \in available ELSE b \in Buffer \ mapped
  /\ available' = available \ {b}
  /\ mapped' = mapped \cup {b}

\* b holds exactly the addresses of s, unmarked; the slots past its end keep
\* what they held.
FillWith(b, s, n) ==
  /\ addrs' = [addrs EXCEPT ![b] =
                 [i \in Slots |-> IF i < n THEN s[i] ELSE addrs[b][i]]]
  /\ marks' = [marks EXCEPT ![b] = {i \in marks[b] : i >= n}]
  /\ n_addrs' = [n_addrs EXCEPT ![b] = n]

\* s lists the addresses of S in increasing order, in slots 0 .. n-1.
Lists(s, n, S) ==
  /\ \A i, j \in 0 .. n - 1 : i < j => s[i] < s[j]
  /\ \A x \in S : \E i \in 0 .. n - 1 : s[i] = x

\* aggregate_addrs, and the child's forkscan_util_sort of the result, which
\* nobody looks at in between.  The bound n < Capacity is the common case of
\* the code, in which the leftovers buffer is reused.
Aggregate ==
  /\ gc = "idle"
  /\ \E batch \in SUBSET pending :
       LET old == IF uncollected = NULL THEN {} ELSE Addresses(uncollected)
           pool == batch \cup old
       IN /\ pool # {}
          /\ pending' = pending \ batch
          /\ \E b \in Buffer :
               /\ IF uncollected # NULL
                    THEN b = uncollected /\ UNCHANGED poolVars
                    ELSE MakeAggregateBuffer(b)
               /\ working' = b
               /\ \E n \in 1 .. Capacity - 1 : \E s \in [0 .. n - 1 -> pool] :
                    /\ Lists(s, n, pool)
                    /\ FillWith(b, s, n)
  /\ uncollected' = NULL
  /\ gc' = "fork"
  /\ UNCHANGED <<heap, held, snapshot, listVars, free_idx, ref_count, threadVars>>

\* fork(), once every thread has stopped outside free_ptrs (the contract of
\* Snapshot): the child sees the references of this instant.
Fork ==
  /\ gc = "fork"
  /\ \A t \in Thread : pc[t] \in {"head", "gone"}
  /\ snapshot' = held \cap Addresses(working)
  /\ gc' = "scan"
  /\ UNCHANGED <<userVars, working, uncollected, poolVars, listVars, bufVars, threadVars>>

\* The child reports through the pipe.  It has set the low bit of every
\* address that was referenced when it was forked, and conservatively maybe
\* of others (the contract of the scan).
Scan ==
  /\ gc = "scan"
  /\ \E found \in SUBSET Addresses(working) :
       /\ snapshot \subseteq found
       /\ marks' = [marks EXCEPT ![working] =
                      @ \cup {i \in Filled(working) : addrs[working][i] \in found}]
  /\ snapshot' = {}
  /\ gc' = "push"
  /\ UNCHANGED <<userVars, working, uncollected, poolVars, listVars, addrs,
                 n_addrs, free_idx, ref_count, threadVars>>

\* The list after  g_last_retiree_buffer->next = ab : whatever followed
\* g_last is cut off, and a g_last that is not on the list changes nothing.
Linked(ab) ==
  IF \E i \in DOMAIN retirees : retirees[i] = g_last
    THEN Append(SubSeq(retirees, 1, CHOOSE i \in DOMAIN retirees : retirees[i] = g_last), ab)
    ELSE retirees

\* Seeded fault: the head of an empty list is set from the old last pointer.
PushBackStaleHead ==
  /\ gc = "push"
  /\ ref_count' = [ref_count EXCEPT ![working] = 1]
  /\ free_idx' = [free_idx EXCEPT ![working] = 0]
  /\ retirees' = IF g_last = NULL THEN <<g_last>> ELSE Linked(working)
  /\ g_last' = working
  /\ gc' = "uncollect"
  /\ UNCHANGED <<userVars, working, uncollected, snapshot, poolVars, addrs, marks,
                 n_addrs, threadVars>>

\* forkscan_buffer_push_back(working_data)
PushBack ==
  /\ gc = "push"
  /\ ref_count' = [ref_count EXCEPT ![working] = 1]
  /\ free_idx' = [free_idx EXCEPT ![working] = 0]
  /\ retirees' = IF g_last = NULL THEN <<working>> ELSE Linked(working)
  /\ g_last' = working
  /\ gc' = "uncollect"
  /\ UNCHANGED <<userVars, working, uncollected, snapshot, poolVars, addrs, marks,
                 n_addrs, threadVars>>

\* The marked addresses are copied, unmarked, into a new g_uncollected_data.
Uncollect ==
  /\ gc = "uncollect"
  /\ \E b \in Buffer :
       /\ MakeAggregateBuffer(b)
       /\ uncollected' = b
       /\ \E n \in 0 .. Capacity : \E s \in [0 .. n - 1 -> MarkedAddresses(working)] :
            /\ Lists(s, n, MarkedAddresses(working))
            /\ FillWith(b, s, n)
  /\ gc' = "unref"
  /\ UNCHANGED <<userVars, working, snapshot, listVars, free_idx, ref_count, threadVars>>

\* Seeded fault: a buffer is released as soon as all its ranges are claimed.
UnrefReleasesEarly(ab) ==
  /\ ref_count' = [ref_count EXCEPT ![ab] = @ - 1]
  /\ available' = IF free_idx[ab] >= n_addrs[ab] THEN available \cup {ab} ELSE available

\* Seeded fault: the count is tested before it is decremented.
UnrefTestsEarly(ab) ==
  /\ ref_count' = [ref_count EXCEPT ![ab] = @ - 1]
  /\ available' = IF ref_count[ab] = 0 /\ free_idx[ab] >= n_addrs[ab]
                    THEN available \cup {ab} ELSE available

\* forkscan_buffer_unref_buffer and, when nobody is left, forkscan_release_buffer.
UnrefBuffer(ab) ==
  /\ ref_count' = [ref_count EXCEPT ![ab] = @ - 1]
  /\ available' = IF ref_count[ab] = 1 /\ free_idx[ab] >= n_addrs[ab]
                    THEN available \cup {ab} ELSE available

UnrefWorking ==
  /\ gc = "unref"
  /\ UnrefBuffer(working)
  /\ working' = NULL
  /\ gc' = "idle"
  /\ UNCHANGED <<userVars, uncollected, snapshot, mapped, listVars, addrs, marks,
                 n_addrs, free_idx, threadVars>>

(***************************************************************************)
(* The user threads: forkscan_util_free_ptrs, one iteration of its loop    *)
(* from "head" to "head".  "head" is also where a thread is between calls. *)
(***************************************************************************)

\* forkscan_buffer_get_retiree_buffer.  With an empty list the call returns.
GetRetireeBuffer(t) ==
  /\ pc[t] = "head"
  /\ retiree_buffer[t] = NULL
  /\ retirees # <<>>
  /\ LET ab == Head(retirees)
     IN /\ retiree_buffer' = [retiree_buffer EXCEPT ![t] = ab]
        /\ ref_count' = [ref_count EXCEPT ![ab] = @ + 1]
  /\ begin_idx' = [begin_idx EXCEPT ![t] = 0]
  /\ end_idx' = [end_idx EXCEPT ![t] = 0]
  /\ UNCHANGED <<userVars, gcVars, poolVars, listVars, addrs, marks, n_addrs,
                 free_idx, pc, idx, ptr>>

\* The thread has a buffer and has used up its range.
NeedsRange(t) ==
  /\ pc[t] = "head"
  /\ retiree_buffer[t] # NULL
  /\ begin_idx[t] = end_idx[t]

\* Seeded fault: the last address of a buffer is not waited for.
CheckDoneOffByOne(t) ==
  /\ NeedsRange(t)
  /\ LET ab == retiree_buffer[t]
     IN pc' = [pc EXCEPT ![t] = IF free_idx[ab] + 1 >= n_addrs[ab] THEN "pop" ELSE "load"]
  /\ UNCHANGED <<userVars, gcVars, poolVars, listVars, bufVars, retiree_buffer,
                 begin_idx, end_idx, idx, ptr>>

\* First load of free_idx: is every range of the buffer claimed?
CheckDone(t) ==
  /\ NeedsRange(t)
  /\ LET ab == retiree_buffer[t]
     IN pc' = [pc EXCEPT ![t] = IF free_idx[ab] >= n_addrs[ab] THEN "pop" ELSE "load"]
  /\ UNCHANGED <<userVars, gcVars, poolVars, listVars, bufVars, retiree_buffer,
                 begin_idx, end_idx, idx, ptr>>

\* Second load of free_idx, which is volatile: the bounds of the claim.
LoadIdx(t) ==
  /\ pc[t] = "load"
  /\ idx' = [idx EXCEPT ![t] = free_idx[retiree_buffer[t]]]
  /\ pc' = [pc EXCEPT ![t] = "cas"]
  /\ UNCHANGED <<userVars, gcVars, poolVars, listVars, bufVars, retiree_buffer,
                 begin_idx, end_idx, ptr>>

EndOfRange(t) ==
  LET n == n_addrs[retiree_buffer[t]]
  IN IF n < idx[t] + RangeSz THEN n ELSE idx[t] + RangeSz

\* Seeded fault: a store in place of the compare-and-swap.
ClaimWithoutCas(t) ==
  /\ pc[t] = "cas"
  /\ free_idx' = [free_idx EXCEPT ![retiree_buffer[t]] = EndOfRange(t)]
  /\ begin_idx' = [begin_idx EXCEPT ![t] = idx[t]]
  /\ end_idx' = [end_idx EXCEPT ![t] = EndOfRange(t)]
  /\ pc' = [pc EXCEPT ![t] = "slot"]
  /\ idx' = [idx EXCEPT ![t] = 0]
  /\ UNCHANGED <<userVars, gcVars, poolVars, listVars, addrs, marks, n_addrs,
                 ref_count, retiree_buffer, ptr>>

\* BCAS(&ab->free_idx, begin_idx, end_idx)
ClaimRange(t) ==
  /\ pc[t] = "cas"
  /\ IF free_idx[retiree_buffer[t]] = idx[t]
       THEN /\ free_idx' = [free_idx EXCEPT ![retiree_buffer[t]] = EndOfRange(t)]
            /\ begin_idx' = [begin_idx EXCEPT ![t] = idx[t]]
            /\ end_idx' = [end_idx EXCEPT ![t] = EndOfRange(t)]
            /\ pc' = [pc EXCEPT ![t] = "slot"]
       ELSE /\ pc' = [pc EXCEPT ![t] = "head"]
            /\ UNCHANGED <<free_idx, begin_idx, end_idx>>
  /\ idx' = [idx EXCEPT ![t] = 0]
  /\ UNCHANGED <<userVars, gcVars, poolVars, listVars, addrs, marks, n_addrs,
                 ref_count, retiree_buffer, ptr>>

\* The thread looks at its next slot: a marked address is left alone, any
\* other is removed from the buffer.  Reads past the buffer's end are
\* followed up to its capacity, the bound of this action.
TakeSlot(t) ==
  /\ \/ pc[t] = "slot"
     \/ pc[t] = "head" /\ retiree_buffer[t] # NULL /\ begin_idx[t] # end_idx[t]
  /\ begin_idx[t] < Capacity
  /\ LET ab == retiree_buffer[t]
         i  == begin_idx[t]
     IN IF i \in marks[ab]
          THEN /\ pc' = [pc EXCEPT ![t] = "head"]
               /\ UNCHANGED <<addrs, ptr>>
          ELSE /\ addrs' = [addrs EXCEPT ![ab][i] = Removed]
               /\ ptr' = [ptr EXCEPT ![t] = addrs[ab][i]]
               /\ pc' = [pc EXCEPT ![t] = "free"]
  /\ begin_idx' = [begin_idx EXCEPT ![t] = @ + 1]
  /\ UNCHANGED <<userVars, gcVars, poolVars, listVars, marks, n_addrs, free_idx,
                 ref_count, retiree_buffer, end_idx, idx>>

\* FREE(ptr).  What FREE does with a word that is no node is left open: such
\* a word is already a failure (see FreesOnlyAddresses).
Free(t) ==
  /\ pc[t] = "free"
  /\ heap' = IF ptr[t] \in Node THEN [heap EXCEPT ![ptr[t]] = "free"] ELSE heap
  /\ ptr' = [ptr EXCEPT ![t] = Zero]
  /\ pc' = [pc EXCEPT ![t] = "head"]
  /\ UNCHANGED <<held, pending, gcVars, poolVars, listVars, bufVars,
                 retiree_buffer, begin_idx, end_idx, idx>>

\* Seeded fault: g_last_retiree_buffer is left alone when the list runs empty.
PopForgetsLast(t) ==
  /\ pc[t] = "pop"
  /\ LET ab == retiree_buffer[t]
     IN retirees' = SelectSeq(retirees, LAMBDA b : b # ab)
  /\ pc' = [pc EXCEPT ![t] = "unref"]
  /\ UNCHANGED <<userVars, gcVars, poolVars, g_last, bufVars, retiree_buffer, begin_idx,
                 end_idx, idx, ptr>>

\* forkscan_buffer_pop_retiree_buffer: splice the buffer out if it is still
\* on the list.
PopRetireeBuffer(t) ==
  /\ pc[t] = "pop"
  /\ LET ab == retiree_buffer[t]
     IN IF \E i \in DOMAIN retirees : retirees[i] = ab
          THEN /\ retirees' = RemoveAt(retirees,
                                CHOOSE i \in DOMAIN retirees : retirees[i] = ab)
               /\ g_last' = IF retirees' = <<>> THEN NULL ELSE g_last
          ELSE UNCHANGED listVars
  /\ pc' = [pc EXCEPT ![t] = "unref"]
  /\ UNCHANGED <<userVars, gcVars, poolVars, bufVars, retiree_buffer, begin_idx,
                 end_idx, idx, ptr>>

DropBuffer(t) ==
  /\ pc[t] = "unref"
  /\ UnrefBuffer(retiree_buffer[t])
  /\ retiree_buffer' = [retiree_buffer EXCEPT ![t] = NULL]
  /\ pc' = [pc EXCEPT ![t] = "head"]
  /\ UNCHANGED <<userVars, gcVars, mapped, listVars, addrs, marks, n_addrs,
                 free_idx, begin_idx, end_idx, idx, ptr>>

\* pthread_exit: forkscan_thread_cleanup looks at neither the buffer nor the
\* range of the thread.
Exit(t) ==
  /\ t \in MayExit
  /\ pc[t] = "head"
  /\ pc' = [pc EXCEPT ![t] = "gone"]
  /\ UNCHANGED <<userVars, gcVars, poolVars, listVars, bufVars, retiree_buffer,
                 begin_idx, end_idx, idx, ptr>>

Collector == Aggregate \/ Fork \/ Scan \/ PushBack \/ Uncollect \/ UnrefWorking

FreePtrs(t) ==
  \/ GetRetireeBuffer(t) \/ CheckDone(t) \/ LoadIdx(t) \/ ClaimRange(t)
  \/ TakeSlot(t) \/ Free(t) \/ PopRetireeBuffer(t) \/ DropBuffer(t)

Next ==
  \/ \E n \in Node : Malloc(n) \/ Retire(n) \/ Drop(n)
  \/ Collector
  \/ \E t \in Thread : FreePtrs(t) \/ Exit(t)

Spec == Init /\ [][Next]_vars

\* Every thread keeps calling into the library (it retires nodes, or spins
\* in yield), so each of its calls of forkscan_util_free_ptrs proceeds.
FairSpec == Spec /\ \A t \in Thread : WF_vars(FreePtrs(t))

(***************************************************************************)
(* Properties.                                                             *)
(***************************************************************************)

\* A thread has claimed an empty range and reads past the end of its buffer.
\* The two loads of free_idx make this possible (see FreesOnlyAddresses);
\* from then on the thread frees whatever words it comes across, so the
\* safety properties below say what holds as long as it has not happened.
Overrun ==
  \E t \in Thread : \/ begin_idx[t] > end_idx[t]
                    \/ pc[t] = "slot" /\ begin_idx[t] = end_idx[t]

\* forkscan_util_free_ptrs never frees a node that some thread has or can
\* acquire a reference to, never frees a node twice, and no two threads are
\* about to free the same node (README, Semantics).
FreeIsSafe ==
  \/ Overrun
  \/ \A t \in Thread : pc[t] = "free" =>
       /\ ptr[t] \in Node \ held
       /\ heap[ptr[t]] = "retired"
       /\ \A u \in Thread \ {t} : pc[u] = "free" => ptr[u] # ptr[t]

Promise == INSTANCE Reclamation WITH status <- heap, refs <- held

\* The buffers, ranges, marks and counts together keep the library's promise:
\* whatever threads and collector do amounts to the steps of Reclamation (up to
\* an overrun).
KeepsPromise == Promise!Init /\ [][Promise!Next \/ Overrun]_<<heap, held>>

\* While a thread uses a retiree buffer, the buffer is not recycled: it is
\* neither available, nor collecting leftovers, nor being filled for a later
\* collection (the reference counts of get/unref_retiree_buffer).
HeldBuffersPinned ==
  \/ Overrun
  \/ \A t \in Thread : retiree_buffer[t] # NULL =>
       /\ retiree_buffer[t] \in mapped \ available
       /\ retiree_buffer[t] # uncollected
       /\ gc \in {"fork", "scan", "push"} => retiree_buffer[t] # working

\* The worry of the FIXME in forkscan_buffer_push_back: the list's last
\* pointer goes stale when a buffer is removed that is not at the front.  It
\* never does: g_last_retiree_buffer is the last buffer of the list.
LastIsLast ==
  \/ Overrun
  \/ g_last = IF retirees = <<>> THEN NULL ELSE Last(retirees)

\* No buffer leaks: a mapped buffer can be recycled, is in the collector's
\* hands, or is on its way to being freed by user threads.
NoBufferLost ==
  \/ Overrun
  \/ \A b \in mapped :
       \/ b \in available \/ b = working \/ b = uncollected
       \/ b \in ToSet(retirees)
       \/ \E t \in Thread : retiree_buffer[t] = b

\* Node n is in slot i of b, waiting for a thread to free it.
Awaits(n, b, i) == i \in DeadSlots(b) /\ addrs[b][i] = n

\* No retired node is forgotten: it is still to be scanned, or was found
\* referenced and will be scanned again, or is waiting in a listed buffer,
\* in a thread's claimed range or in a thread's hands to be freed.
NoNodeLost ==
  \/ Overrun
  \/ \A n \in Node : heap[n] = "retired" =>
       \/ n \in pending
       \/ gc \in {"fork", "scan", "push"} /\ n \in Addresses(working)
       \/ gc = "uncollect" /\ n \in MarkedAddresses(working)
       \/ uncollected # NULL /\ n \in Addresses(uncollected)
       \/ \E b \in ToSet(retirees) : \E i \in Slots :
             i >= free_idx[b] /\ Awaits(n, b, i)
       \/ \E t \in Thread : retiree_buffer[t] # NULL /\ \E i \in Slots :
             begin_idx[t] <= i /\ i < end_idx[t] /\ Awaits(n, retiree_buffer[t], i)
       \/ \E t \in Thread : pc[t] = "free" /\ ptr[t] = n

\* What forkscan_buffer_get_dead_references tells the child to skip is
\* unreferenced, and not in the pool being scanned: the child asserts that
\* no address is both (child.c, find_roots).
DeadReferencesAreDead ==
  \/ Overrun
  \/ gc = "fork" => DeadReferences \cap (held \cup Addresses(working)) = {}

\* Node n is in the range that a thread had claimed when it ended.
Abandoned(n) ==
  \E t \in Thread : pc[t] = "gone" /\ retiree_buffer[t] # NULL /\ \E i \in Slots :
     begin_idx[t] <= i /\ i < end_idx[t] /\ Awaits(n, retiree_buffer[t], i)

\* A node found unreferenced is eventually freed, unless the thread that was to
\* free it has ended, whatever the threads that have ended did.
DeadNodesAreFreed ==
  \A n \in Node : n \in DeadReferences ~> heap[n] = "free" \/ Abandoned(n) \/ Overrun

\* assert(0 == (s & 0x3)) in forkscan_util_free_ptrs: a thread only frees
\* words that are addresses, never the 0x2 of an address freed before.
FreesOnlyAddresses == \A t \in Thread : pc[t] = "free" => ptr[t] # Removed
=============================================================================
