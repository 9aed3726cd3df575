------------------------------ MODULE Threads -------------------------------
(***************************************************************************)
(* The metadata of the user threads: how it is allocated, registered,      *)
(* staged and recycled as threads are created, end and are joined          *)
(* (wrappers.c, thread.c, util.c, proc.c, metautil.h), and how the forked  *)
(* child finds the threads' stacks in it (add_stack_ranges in child.c).    *)
(*                                                                         *)
(* A thread_data_t lives in memory that the child shares with the parent,  *)
(* the head of the thread list does not: the child walks the list from the *)
(* head of the snapshot along next fields that the parent keeps changing.  *)
(*                                                                         *)
(* A critical section under thread_list.lock, g_staged_lock or the lock of *)
(* a pool is one action.  The thread data and the pointer list of a thread *)
(* are allocated and freed together and are one block here.  The build is  *)
(* the one without assertions.                                             *)
(***************************************************************************)
EXTENDS Integers, Sequences, FiniteSets, SequencesExt

CONSTANTS Thread,          \* pthread_t's; one is used again after a join
          Td,              \* the blocks of the threaddata pool
          MainTd,          \* the one of the initial thread, which does not end
          Stack,           \* the blocks of the stack pool
          UserStack,       \* any stack the program supplies itself
          MaxThreadCount,  \* MAX_THREAD_COUNT
          NULL

ASSUME ThreadsAssumption ==
  /\ MainTd \in Td
  /\ UserStack \notin Stack
  /\ MaxThreadCount \in Nat
  /\ NULL \notin Td /\ NULL \notin Thread
  /\ IsFiniteSet(Thread) /\ IsFiniteSet(Td) /\ IsFiniteSet(Stack)

VARIABLES
  process,         \* "running"; "fatal": ended by forkscan_fatal;
                   \* "corrupted": a block is used for two threads at once
  pc,              \* the life of a thread, see Place
  td_of,           \* the td of pthread_create, forkscan_local_td of the thread
  next, self, is_active, ref_count,  \* fields of thread_data_t
  stack,           \* user_stack_low; stack_is_ours iff it is in Stack
  head, count,     \* thread_list.head, thread_list.count
  staged,          \* g_td_staged_to_free
  g_thread_count,
  td_pool, stack_pool,               \* g_threaddata_pool, g_stack_pool
  failures,        \* history: creations that failed
  cursor,          \* the child's td in add_stack_ranges, NULL: at the end
  walking,         \* the child is in add_stack_ranges or on its way there
  found,           \* the stacks it has added to its ranges
  stacks_at_fork,  \* history: our stacks of threads then in user code
  ended            \* history: threads that left the list ahead of the child

fields    == <<next, self, is_active, ref_count, stack>>
lists     == <<head, count, staged>>
pools     == <<td_pool, stack_pool>>
childVars == <<cursor, walking, found, stacks_at_fork, ended>>
vars == <<process, pc, td_of, fields, lists, g_thread_count, pools, failures, childVars>>

\* pthread_create: "none", "counted", "allocated", "listed"; "created": the
\* thread exists, "active": and runs user code; forkscan_thread_cleanup:
\* "inactive", "removed", "staged"; "uncounted", "over": it is no more;
\* pthread_join, or the end of a pthread_create that failed: "free_stack",
\* "free_data".
Place == {"none", "counted", "allocated", "listed", "created", "active", "inactive",
          "removed", "staged", "uncounted", "over", "free_stack", "free_data"}

\* The blocks from td on along next, up to NULL or back to a block seen before.
Chain(td) ==
  LET walk[k \in 0 .. Cardinality(Td)] ==
        IF k = 0 THEN <<td>>
        ELSE LET w == walk[k - 1]
             IN  IF Last(w) = NULL THEN w ELSE Append(w, next[Last(w)])
  IN  walk[Cardinality(Td)]

\* The chain comes to its end, and so does a loop along it.
Ends(td) == Last(Chain(td)) = NULL

Members(td) == ToSet(Chain(td)) \ {NULL}

Running == process = "running"

At(t, place) == Running /\ pc[t] = place

Goto(t, place) == pc' = [pc EXCEPT ![t] = place]

\* The threads that are on the thread list: all but those that have removed
\* themselves or have not been added yet.
Registered == {t \in Thread : pc[t] \in {"listed", "created", "active", "inactive"}}

\* Our stacks that hold data of a thread in user code.
StacksInUse == {stack[td_of[t]] : t \in {u \in Thread : pc[u] = "active"}} \cap Stack

TypeOK ==
  /\ process \in {"running", "fatal", "corrupted"}
  /\ pc \in [Thread -> Place]
  /\ td_of \in [Thread -> Td \cup {NULL}]
  /\ next \in [Td -> Td \cup {NULL}]
  /\ self \in [Td -> Thread \cup {NULL}]
  /\ is_active \in [Td -> BOOLEAN]
  /\ ref_count \in [Td -> 0 .. 1]
  /\ stack \in [Td -> Stack \cup {UserStack}]
  /\ head \in Td
  /\ count \in Nat
  /\ staged \in Td \cup {NULL}
  /\ g_thread_count \in Nat
  /\ td_pool \in Seq(Td)
  /\ stack_pool \in Seq(Stack)
  /\ failures \in Nat
  /\ cursor \in Td \cup {NULL}
  /\ walking \in BOOLEAN
  /\ found \in SUBSET Stack
  /\ stacks_at_fork \in SUBSET Stack
  /\ ended \in SUBSET Thread

\* main_replacement has registered the initial thread; both pools have been
\* mapped, a batch at a time.
Init ==
  /\ process = "running"
  /\ pc = [t \in Thread |-> "none"]
  /\ td_of = [t \in Thread |-> NULL]
  /\ next = [d \in Td |-> NULL]
  /\ self = [d \in Td |-> NULL]
  /\ is_active = [d \in Td |-> d = MainTd]
  /\ ref_count = [d \in Td |-> IF d = MainTd THEN 1 ELSE 0]
  /\ stack = [d \in Td |-> UserStack]
  /\ head = MainTd /\ count = 1
  /\ staged = NULL
  /\ g_thread_count = 1
  /\ td_pool = SetToSeq(Td \ {MainTd})
  /\ stack_pool = SetToSeq(Stack)
  /\ failures = 0
  /\ cursor = NULL /\ walking = FALSE /\ found = {}
  /\ stacks_at_fork = {} /\ ended = {}

(***************************************************************************)
(* pthread_create.                                                         *)
(***************************************************************************)

\* Seeded fault: the count is compared as if it were not incremented yet.
CountLate(t) ==
  /\ At(t, "none")
  /\ g_thread_count' = g_thread_count + 1
  /\ IF MaxThreadCount + 1 < g_thread_count
       THEN process' = "fatal" /\ UNCHANGED pc
       ELSE Goto(t, "counted") /\ UNCHANGED process
  /\ UNCHANGED <<td_of, fields, lists, pools, failures, childVars>>

\* MAX_THREAD_COUNT < __sync_fetch_and_add(&g_thread_count, 1)
CountThread(t) ==
  /\ At(t, "none")
  /\ g_thread_count' = g_thread_count + 1
  /\ IF MaxThreadCount < g_thread_count
       THEN process' = "fatal" /\ UNCHANGED pc
       ELSE Goto(t, "counted") /\ UNCHANGED process
  /\ UNCHANGED <<td_of, fields, lists, pools, failures, childVars>>

\* Seeded fault: the count is taken over from the block's last use.
RefCountKept(d) == ref_count[d] + 1

\* The reference every block starts with.
RefCountNew(d) == 1

\* forkscan_util_thread_data_new, and a stack unless the program supplies one.
\* The pools hand out the block that was freed last.  Bound: no further batch
\* is mapped.  What follows when the block is still on the thread list is not
\* modelled.
ThreadDataNew(t) ==
  /\ At(t, "counted")
  /\ td_pool # <<>>
  /\ LET d == Head(td_pool)
     IN  /\ td_pool' = Tail(td_pool)
         /\ td_of' = [td_of EXCEPT ![t] = d]
         /\ ref_count' = [ref_count EXCEPT ![d] = RefCountNew(d)]
         /\ is_active' = [is_active EXCEPT ![d] = FALSE]
         /\ \/ /\ stack' = [stack EXCEPT ![d] = UserStack]
               /\ UNCHANGED stack_pool
            \/ /\ stack_pool # <<>>
               /\ stack' = [stack EXCEPT ![d] = Head(stack_pool)]
               /\ stack_pool' = Tail(stack_pool)
         /\ process' = IF d \in Members(head) THEN "corrupted" ELSE process
  /\ Goto(t, "allocated")
  /\ UNCHANGED <<next, self, lists, g_thread_count, failures, childVars>>

\* forkscan_util_thread_list_add.
ListAdd(t) ==
  /\ At(t, "allocated")
  /\ next' = [next EXCEPT ![td_of[t]] = head]
  /\ head' = td_of[t]
  /\ count' = count + 1
  /\ Goto(t, "listed")
  /\ UNCHANGED <<process, td_of, self, is_active, ref_count, stack, staged,
                 g_thread_count, pools, failures, childVars>>

CreateSucceeds(t) ==
  /\ At(t, "listed")
  /\ Goto(t, "created")
  /\ UNCHANGED <<process, td_of, fields, lists, g_thread_count, pools, failures, childVars>>

\* "Just clean up the memory we allocated for the thread": the block stays on
\* the thread list, the count stays as it is.
CreateFails(t) ==
  /\ At(t, "listed")
  /\ failures' = failures + 1
  /\ Goto(t, "free_stack")
  /\ UNCHANGED <<process, td_of, fields, lists, g_thread_count, pools, childVars>>

(***************************************************************************)
(* The thread.                                                             *)
(***************************************************************************)

\* forkscan_thread_base, up to the call of the user routine.
ThreadBase(t) ==
  /\ At(t, "created")
  /\ self' = [self EXCEPT ![td_of[t]] = t]
  /\ is_active' = [is_active EXCEPT ![td_of[t]] = TRUE]
  /\ Goto(t, "active")
  /\ UNCHANGED <<process, td_of, next, ref_count, stack, lists, g_thread_count,
                 pools, failures, childVars>>

\* forkscan_thread_cleanup: the thread is not to be signalled any more,
Deactivate(t) ==
  /\ At(t, "active")
  /\ is_active' = [is_active EXCEPT ![td_of[t]] = FALSE]
  /\ Goto(t, "inactive")
  /\ UNCHANGED <<process, td_of, next, self, ref_count, stack, lists, g_thread_count,
                 pools, failures, childVars>>

\* Seeded fault: the block is taken to be the first of the list.
RemoveAsFirst(t) ==
  /\ At(t, "inactive")
  /\ head' = next[td_of[t]]
  /\ count' = count - 1
  /\ ended' = IF td_of[t] \in Members(cursor) THEN ended \cup {t} ELSE ended
  /\ Goto(t, "removed")
  /\ UNCHANGED <<process, td_of, fields, staged, g_thread_count, pools, failures,
                 cursor, walking, found, stacks_at_fork>>

\* forkscan_util_thread_list_remove,
ListRemove(t) ==
  /\ At(t, "inactive")
  /\ LET d == td_of[t]
     IN  IF head = d
           THEN head' = next[d] /\ UNCHANGED next
           ELSE /\ next' = [x \in Td |-> IF x \in Members(head) /\ next[x] = d
                                         THEN next[d] ELSE next[x]]
                /\ UNCHANGED head
  /\ count' = count - 1
  /\ ended' = IF td_of[t] \in Members(cursor) THEN ended \cup {t} ELSE ended
  /\ Goto(t, "removed")
  /\ UNCHANGED <<process, td_of, self, is_active, ref_count, stack, staged,
                 g_thread_count, pools, failures, cursor, walking, found, stacks_at_fork>>

\* Seeded fault: the value before the subtraction is compared.
DecrRefComparesOld(t) ==
  /\ At(t, "removed")
  /\ ref_count' = [ref_count EXCEPT ![td_of[t]] = @ - 1]
  /\ Goto(t, "staged")
  /\ UNCHANGED <<process, td_of, next, self, is_active, stack, lists, g_thread_count,
                 pools, failures, childVars>>

\* forkscan_util_thread_data_decr_ref: the last reference stages the block.
DecrRef(t) ==
  /\ At(t, "removed")
  /\ LET d == td_of[t]
     IN  /\ ref_count' = [ref_count EXCEPT ![d] = @ - 1]
         /\ IF ref_count'[d] = 0
              THEN next' = [next EXCEPT ![d] = staged] /\ staged' = d
              ELSE UNCHANGED <<next, staged>>
  /\ Goto(t, "staged")
  /\ UNCHANGED <<process, td_of, self, is_active, stack, head, count, g_thread_count,
                 pools, failures, childVars>>

\* exit_wrapper: __sync_fetch_and_sub(&g_thread_count, 1), ...
UncountThread(t) ==
  /\ At(t, "staged")
  /\ g_thread_count' = g_thread_count - 1
  /\ Goto(t, "uncounted")
  /\ UNCHANGED <<process, td_of, fields, lists, pools, failures, childVars>>

\* Seeded fault: the thread gives back the stack it stands on.
ExitFreesStack(t) ==
  /\ At(t, "uncounted")
  /\ Goto(t, "over")
  /\ stack_pool' = SelectSeq(<<stack[td_of[t]]>>, LAMBDA s : s \in Stack) \o stack_pool
  /\ UNCHANGED <<process, td_of, fields, lists, g_thread_count, td_pool, failures, childVars>>

\* ... and orig_pthread_exit, still on the thread's stack.
PthreadExit(t) ==
  /\ At(t, "uncounted")
  /\ Goto(t, "over")
  /\ UNCHANGED <<process, td_of, fields, lists, g_thread_count, pools, failures, childVars>>

(***************************************************************************)
(* pthread_join, and what it shares with a pthread_create that failed.     *)
(***************************************************************************)

\* Where forkscan_util_thread_data_cleanup finds t among the staged blocks, and
\* the first of those, which it takes.
StagedOf(t) ==
  {i \in DOMAIN Chain(staged) : Chain(staged)[i] # NULL /\ self[Chain(staged)[i]] = t}

StagedBlock(t) == Chain(staged)[Min(StagedOf(t))]

\* orig_pthread_join returns when the thread is no more; then the cleanup
\* takes its block off the list of staged blocks.
Join(t) ==
  /\ At(t, "over")
  /\ StagedOf(t) # {}
  /\ LET d == StagedBlock(t)
     IN  /\ td_of' = [td_of EXCEPT ![t] = d]
         /\ IF staged = d
              THEN staged' = next[d] /\ UNCHANGED next
              ELSE /\ next' = [x \in Td |-> IF x \in Members(staged) /\ next[x] = d
                                            THEN next[d] ELSE next[x]]
                   /\ UNCHANGED staged
  /\ Goto(t, "free_stack")
  /\ UNCHANGED <<process, self, is_active, ref_count, stack, head, count, g_thread_count,
                 pools, failures, childVars>>

\* forkscan_buffer_freestack, if the stack is ours.
FreeStack(t) ==
  /\ At(t, "free_stack")
  /\ LET s == stack[td_of[t]]
     IN  stack_pool' = IF s \in Stack THEN <<s>> \o stack_pool ELSE stack_pool
  /\ Goto(t, "free_data")
  /\ UNCHANGED <<process, td_of, fields, lists, g_thread_count, td_pool, failures, childVars>>

\* forkscan_util_thread_data_free.
ThreadDataFree(t) ==
  /\ At(t, "free_data")
  /\ td_pool' = <<td_of[t]>> \o td_pool
  /\ td_of' = [td_of EXCEPT ![t] = NULL]
  /\ Goto(t, "none")
  /\ UNCHANGED <<process, fields, lists, g_thread_count, stack_pool, failures, childVars>>

(***************************************************************************)
(* The child.                                                              *)
(***************************************************************************)

\* fork(): the child gets its own copy of the head of the list.  The last
\* child is done.  (Stopping the threads is the subject of Snapshot.)
Fork ==
  /\ Running
  /\ ~walking
  /\ walking' = TRUE
  /\ cursor' = head
  /\ stacks_at_fork' = StacksInUse
  /\ UNCHANGED <<process, pc, td_of, fields, lists, g_thread_count, pools, failures,
                 found, ended>>

\* Seeded fault: only threads that are active when the child looks count.
StackIfActive(d) == IF is_active[d] THEN {stack[d]} \cap Stack ELSE {}

\* What one turn of the loop adds to the ranges.
StackRange(d) == {stack[d]} \cap Stack

\* One turn of the loop of add_stack_ranges.
WalkStep ==
  /\ Running
  /\ walking /\ cursor # NULL
  /\ found' = found \cup StackRange(cursor)
  /\ cursor' = next[cursor]
  /\ UNCHANGED <<process, pc, td_of, fields, lists, g_thread_count, pools, failures,
                 walking, stacks_at_fork, ended>>

\* The child goes on to scan its ranges, and is forgotten here.
WalkDone ==
  /\ Running
  /\ walking /\ cursor = NULL
  /\ walking' = FALSE
  /\ found' = {} /\ stacks_at_fork' = {} /\ ended' = {}
  /\ UNCHANGED <<process, pc, td_of, fields, lists, g_thread_count, pools, failures, cursor>>

ThreadStep(t) ==
  \/ CountThread(t) \/ ThreadDataNew(t) \/ ListAdd(t) \/ CreateSucceeds(t) \/ CreateFails(t)
  \/ ThreadBase(t) \/ Deactivate(t) \/ ListRemove(t) \/ DecrRef(t) \/ UncountThread(t)
  \/ PthreadExit(t) \/ Join(t) \/ FreeStack(t) \/ ThreadDataFree(t)

Next == Fork \/ WalkStep \/ WalkDone \/ \E t \in Thread : ThreadStep(t)

Spec == Init /\ [][Next]_vars

(***************************************************************************)
(* Properties.                                                             *)
(***************************************************************************)

\* Blocks that were freed by a pthread_create that failed, or are about to
\* be, and are still on the thread list.
Ghosts == {d \in Members(head) : d # MainTd /\ \A t \in Registered : td_of[t] # d}

\* Whoever walks the thread list under its lock meets the initial thread and
\* every thread between its registration and its removal exactly once, and
\* comes to an end; beyond that at most blocks of creations that failed.
ListProper ==
  Running =>
    /\ Ends(head)
    /\ MainTd \in Members(head)
    /\ \A t \in Registered : td_of[t] \in Members(head)
    /\ failures = 0 => Ghosts = {}

\* No two threads use the same thread data or the same stack, from the
\* allocation until after the thread is gone, and what a thread uses is in no
\* pool: however creations, ends and joins of different threads interleave.
NothingShared ==
  \A t \in {u \in Thread : pc[u] \notin {"none", "counted", "free_stack", "free_data"}} :
    LET d == td_of[t]
    IN  /\ d \notin ToSet(td_pool)
        /\ stack[d] \notin ToSet(stack_pool)
        /\ \A u \in Thread \ {t} :
             td_of[u] # NULL /\ pc[u] # "free_data" =>
               td_of[u] # d /\ (stack[d] \in Stack => stack[td_of[u]] # stack[d])

\* A join finds the block of the thread it waited for among the staged ones,
\* with no reference left ("detected data race on exiting thread", util.c).
JoinFindsData ==
  \A t \in Thread : pc[t] = "over" =>
    StagedOf(t) # {} /\ StagedBlock(t) = td_of[t] /\ ref_count[td_of[t]] = 0

\* At most one thread more than MAX_THREAD_COUNT is ever on the list, and the
\* counts never fall short of the threads there are.
CountsCover ==
  Running =>
    /\ Cardinality(Members(head)) = count
    /\ g_thread_count >= 1 + Cardinality(Registered) + failures
    /\ g_thread_count <= MaxThreadCount + 1

\* The child walks along shared next fields without a lock, while threads are
\* created, joined and recycled: wherever it is, the blocks ahead of it come to
\* an end, and when it is there its ranges include the stack of every thread
\* that was in user code when it was forked, unless some thread ended before
\* the child had come past it.
StacksFoundUnlessEnded ==
  /\ Running => Ends(cursor)
  /\ walking /\ cursor = NULL /\ ended = {} => stacks_at_fork \subseteq found
=============================================================================
