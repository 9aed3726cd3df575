------------------------------- MODULE Collect -------------------------------
(***************************************************************************)
(* How retired addresses travel from the threads' queues to the collector: *)
(* forkscan_retire, forkscan_force_reclaim and become_reclaimer in         *)
(* frontend.c, the cleanup lock of thread.c, forkscan_initiate_collection  *)
(* and the loop of forkscan_thread in forkscan.c.                          *)
(*                                                                         *)
(* A thread whose queue is full, or that wants to force an iteration,      *)
(* competes for the cleanup lock.  The winner empties all queues into a    *)
(* buffer and hands it to the collector thread, which it wakes when        *)
(* automatic iterations are on or one was forced.  In automatic mode it    *)
(* then holds back, with the lock, while too many collections are waiting. *)
(*                                                                         *)
(* The addresses in a queue are counted; of a buffer it matters only       *)
(* whether there are any.  A critical section under g_gc_mutex is one      *)
(* action; the client lock and both condition variables are explicit.      *)
(***************************************************************************)
EXTENDS Integers, Sequences, FiniteSets, SequencesExt

CONSTANTS Thread,       \* the user threads
          Capacity,     \* ptrs_per_thread: a queue holds one less
          Throttle,     \* g_forkscan_throttling_queue
          MaxBuffers,   \* bound: the program makes no new call while this
                        \* many buffers are waiting for the collector
          NULL          \* no thread

ASSUME CollectAssumption ==
  /\ IsFiniteSet(Thread)
  /\ Capacity \in Nat /\ Capacity >= 2
  /\ Throttle \in Nat \ {0}
  /\ MaxBuffers \in Nat \ {0}
  /\ NULL \notin Thread

VARIABLES
  pc,                 \* where a thread is
  queue,              \* queue[t]: the number of addresses in t's ptr_list
  forcing,            \* t is in forkscan_force_reclaim
  cleanup,            \* the thread that has the cleanup lock: global_timestamp
                      \* is active
  current,            \* threads that have loaded global_timestamp, inactive,
                      \* since it last changed
  g_force_iteration,
  auto_run,           \* g_config.auto_run
  always_auto,        \* history: forkscan_set_auto_run has never been called
  call,               \* call[t]: the arguments (ab, auto_run, force) of
                      \* forkscan_initiate_collection; of ab, whether it
                      \* holds any address
  unread,             \* queues the reclaimer has still to empty
  gathered,           \* it has put some address into its buffer
  gc,                 \* where the collector thread is
  gc_signalled,       \* g_gc_cond has been signalled to the waiting collector
  g_addr_buffer,      \* the buffers handed in, the latest first: whether
                      \* they hold any address
  g_waiting_collects,
  client_lock,        \* g_client_waiting_lock
  woken,              \* clients that g_client_waiting_cond has woken
  has_addrs,          \* the collector found some address to collect
  leftovers           \* there are addresses in g_uncollected_data

threadVars == <<pc, queue, forcing, call>>
reclaimVars == <<cleanup, current, g_force_iteration, unread, gathered>>
gcVars     == <<gc, gc_signalled, g_addr_buffer, g_waiting_collects, has_addrs, leftovers>>
clientVars == <<client_lock, woken>>
configVars == <<auto_run, always_auto>>
vars == <<threadVars, reclaimVars, gcVars, clientVars, configVars>>

Full(t) == queue[t] >= Capacity - 1

NoCall == [ab |-> FALSE, auto |-> FALSE, force |-> FALSE]

TypeOK ==
  /\ pc \in [Thread -> {"user", "try", "cas", "yield", "won", "gather", "handoff", "throttle",
                        "lock", "locked", "asleep", "release"}]
  /\ queue \in [Thread -> 0 .. Capacity]
  /\ forcing \in [Thread -> BOOLEAN]
  /\ cleanup \in Thread \cup {NULL}
  /\ current \in SUBSET Thread
  /\ g_force_iteration \in BOOLEAN
  /\ auto_run \in BOOLEAN
  /\ always_auto \in BOOLEAN
  /\ call \in [Thread -> [ab : BOOLEAN, auto : BOOLEAN, force : BOOLEAN]]
  /\ unread \in SUBSET Thread
  /\ gathered \in BOOLEAN
  /\ gc \in {"check", "waiting", "broadcast", "collect", "crashed"}
  /\ gc_signalled \in BOOLEAN
  /\ g_addr_buffer \in Seq(BOOLEAN)
  /\ g_waiting_collects \in Nat
  /\ client_lock \in Thread \cup {NULL}
  /\ woken \in SUBSET Thread
  /\ has_addrs \in BOOLEAN
  /\ leftovers \in BOOLEAN

Init ==
  /\ pc = [t \in Thread |-> "user"]
  /\ queue = [t \in Thread |-> 0]
  /\ forcing = [t \in Thread |-> FALSE]
  /\ cleanup = NULL
  /\ current = {}
  /\ g_force_iteration = FALSE
  /\ auto_run = TRUE
  /\ always_auto = TRUE
  /\ call = [t \in Thread |-> NoCall]
  /\ unread = {}
  /\ gathered = FALSE
  /\ gc = "check"
  /\ gc_signalled = FALSE
  /\ g_addr_buffer = <<>>
  /\ g_waiting_collects = 0
  /\ client_lock = NULL
  /\ woken = {}
  /\ has_addrs = FALSE
  /\ leftovers = FALSE

Goto(t, to) == pc' = [pc EXCEPT ![t] = to]

(***************************************************************************)
(* User threads.                                                           *)
(***************************************************************************)

Calls == Len(g_addr_buffer) < MaxBuffers

\* Seeded fault: the queue is taken for full one address too late.
RetireOffByOne(t) ==
  /\ pc[t] = "user"
  /\ Calls
  /\ queue' = [queue EXCEPT ![t] = @ + 1]
  /\ Goto(t, IF queue[t] + 1 > Capacity THEN "try" ELSE "user")
  /\ UNCHANGED <<forcing, call, reclaimVars, gcVars, clientVars, configVars>>

\* forkscan_retire: push, and start reclaiming if the queue is full now.
Retire(t) ==
  /\ pc[t] = "user"
  /\ Calls
  /\ queue' = [queue EXCEPT ![t] = @ + 1]
  /\ Goto(t, IF queue[t] + 1 >= Capacity - 1 THEN "try" ELSE "user")
  /\ UNCHANGED <<forcing, call, reclaimVars, gcVars, clientVars, configVars>>

\* forkscan_force_reclaim
ForceReclaim(t) ==
  /\ pc[t] = "user"
  /\ Calls
  /\ g_force_iteration' = TRUE
  /\ forcing' = [forcing EXCEPT ![t] = TRUE]
  /\ Goto(t, "try")
  /\ UNCHANGED <<queue, call, cleanup, current, unread, gathered, gcVars, clientVars, configVars>>

\* forkscan_set_auto_run
SetAutoRun ==
  /\ auto_run' = ~auto_run
  /\ always_auto' = FALSE
  /\ UNCHANGED <<threadVars, reclaimVars, gcVars, clientVars>>

\* forkscan_thread_cleanup_try_acquire: the thread gives up, and goes through
\* yield(), if somebody has the lock ...
LoadTimestamp(t) ==
  /\ pc[t] = "try"
  /\ IF cleanup = NULL
       THEN current' = current \cup {t} /\ Goto(t, "cas")
       ELSE UNCHANGED current /\ Goto(t, "yield")
  /\ UNCHANGED <<queue, forcing, call, cleanup, g_force_iteration, unread, gathered,
                 gcVars, clientVars, configVars>>

\* Seeded fault: a store in place of the compare-and-swap.
TakeTimestamp(t) ==
  /\ pc[t] = "cas"
  /\ cleanup' = t /\ current' = {} /\ Goto(t, "won")
  /\ UNCHANGED <<queue, forcing, call, g_force_iteration, unread, gathered, gcVars,
                 clientVars, configVars>>

\* ... and if somebody took it since, whether or not it is free again by now:
\* the timestamp has advanced.
CasTimestamp(t) ==
  /\ pc[t] = "cas"
  /\ IF t \in current
       THEN cleanup' = t /\ current' = {} /\ Goto(t, "won")
       ELSE UNCHANGED <<cleanup, current>> /\ Goto(t, "yield")
  /\ UNCHANGED <<queue, forcing, call, g_force_iteration, unread, gathered, gcVars,
                 clientVars, configVars>>

\* Seeded fault: a retiring thread tries only once.
RetireTriesOnce(t) ==
  /\ pc[t] = "yield"
  /\ LET again == forcing[t] /\ g_force_iteration
     IN /\ Goto(t, IF again THEN "try" ELSE "user")
        /\ forcing' = [forcing EXCEPT ![t] = again /\ @]
  /\ UNCHANGED <<queue, call, reclaimVars, gcVars, clientVars, configVars>>

\* Seeded fault: a forcing thread tries only once.
ForceTriesOnce(t) ==
  /\ pc[t] = "yield"
  /\ Goto(t, IF ~forcing[t] /\ Full(t) THEN "try" ELSE "user")
  /\ forcing' = [forcing EXCEPT ![t] = FALSE]
  /\ UNCHANGED <<queue, call, reclaimVars, gcVars, clientVars, configVars>>

\* The condition of the loop around it: somebody else may have emptied this
\* thread's queue, or honoured the request.
LoopAgain(t) ==
  /\ pc[t] = "yield"
  /\ LET again == IF forcing[t] THEN g_force_iteration ELSE Full(t)
     IN /\ Goto(t, IF again THEN "try" ELSE "user")
        /\ forcing' = [forcing EXCEPT ![t] = again /\ @]
  /\ UNCHANGED <<queue, call, reclaimVars, gcVars, clientVars, configVars>>

\* become_reclaimer takes the force request upon itself and starts on a
\* fresh buffer; thread_list.lock is held while it walks the queues.
TakeForce(t) ==
  /\ pc[t] = "won"
  /\ call' = [call EXCEPT ![t].force = g_force_iteration]
  /\ g_force_iteration' = FALSE
  /\ unread' = Thread
  /\ gathered' = FALSE
  /\ Goto(t, "gather")
  /\ UNCHANGED <<queue, forcing, cleanup, current, gcVars, clientVars, configVars>>

\* forkscan_queue_pop_bulk of thread u's queue; u may be pushing meanwhile.
Gather(t, u) ==
  /\ pc[t] = "gather"
  /\ u \in unread
  /\ unread' = unread \ {u}
  /\ gathered' = (gathered \/ queue[u] > 0)
  /\ queue' = [queue EXCEPT ![u] = 0]
  /\ UNCHANGED <<pc, forcing, call, cleanup, current, g_force_iteration, gcVars,
                 clientVars, configVars>>

\* The call of forkscan_initiate_collection, which reads g_config.auto_run.
EndGather(t) ==
  /\ pc[t] = "gather"
  /\ unread = {}
  /\ call' = [call EXCEPT ![t].ab = gathered, ![t].auto = auto_run]
  /\ gathered' = FALSE
  /\ Goto(t, "handoff")
  /\ UNCHANGED <<queue, forcing, cleanup, current, g_force_iteration, unread, gcVars,
                 clientVars, configVars>>

\* Seeded fault: the collector is signalled in automatic mode only.
InitiateSignalsAuto(t) ==
  /\ pc[t] = "handoff"
  /\ gc # "broadcast"
  /\ LET run == call[t].auto \/ call[t].force
     IN /\ g_waiting_collects' = g_waiting_collects + IF run THEN 1 ELSE 0
        /\ g_addr_buffer' = <<call[t].ab>> \o g_addr_buffer
        /\ gc_signalled' = (gc_signalled \/ (gc = "waiting" /\ call[t].auto))
  /\ Goto(t, IF call[t].auto THEN "throttle" ELSE "release")
  /\ UNCHANGED <<queue, forcing, call, reclaimVars, gc, has_addrs, leftovers,
                 clientVars, configVars>>

\* Its critical section under g_gc_mutex, which the collector holds while it
\* broadcasts.
InitiateCollection(t) ==
  /\ pc[t] = "handoff"
  /\ gc # "broadcast"
  /\ LET run == call[t].auto \/ call[t].force
     IN /\ g_waiting_collects' = g_waiting_collects + IF run THEN 1 ELSE 0
        /\ g_addr_buffer' = <<call[t].ab>> \o g_addr_buffer
        /\ gc_signalled' = (gc_signalled \/ (gc = "waiting" /\ run))
  /\ Goto(t, IF call[t].auto THEN "throttle" ELSE "release")
  /\ UNCHANGED <<queue, forcing, call, reclaimVars, gc, has_addrs, leftovers,
                 clientVars, configVars>>

\* Seeded fault: one collection too many may wait.
TestThrottleOffByOne(t) ==
  /\ pc[t] = "throttle"
  /\ Goto(t, IF g_waiting_collects > Throttle THEN "lock" ELSE "release")
  /\ UNCHANGED <<queue, forcing, call, reclaimVars, gcVars, clientVars, configVars>>

\* The unlocked test of g_waiting_collects ...
TestThrottle(t) ==
  /\ pc[t] = "throttle"
  /\ Goto(t, IF g_waiting_collects >= Throttle THEN "lock" ELSE "release")
  /\ UNCHANGED <<queue, forcing, call, reclaimVars, gcVars, clientVars, configVars>>

\* ... pthread_mutex_lock(&g_client_waiting_lock) ...
LockClient(t) ==
  /\ pc[t] = "lock"
  /\ client_lock = NULL
  /\ client_lock' = t
  /\ Goto(t, "locked")
  /\ UNCHANGED <<queue, forcing, call, reclaimVars, gcVars, woken, configVars>>

\* Seeded fault: the thread falls asleep on the strength of the first test.
SleepWithoutRetest(t) ==
  /\ pc[t] = "locked"
  /\ Goto(t, "asleep")
  /\ client_lock' = NULL
  /\ UNCHANGED <<queue, forcing, call, reclaimVars, gcVars, woken, configVars>>

\* ... and the second test; pthread_cond_wait lets go of the lock as it falls asleep.
RetestThrottle(t) ==
  /\ pc[t] = "locked"
  /\ Goto(t, IF g_waiting_collects >= Throttle THEN "asleep" ELSE "throttle")
  /\ client_lock' = NULL
  /\ UNCHANGED <<queue, forcing, call, reclaimVars, gcVars, woken, configVars>>

\* pthread_cond_wait returns, maybe spuriously, with the lock, which is
\* released at once.
WakeClient(t, spurious) ==
  /\ pc[t] = "asleep"
  /\ spurious = (t \notin woken)
  /\ client_lock = NULL
  /\ woken' = woken \ {t}
  /\ Goto(t, "throttle")
  /\ UNCHANGED <<queue, forcing, call, reclaimVars, gcVars, client_lock, configVars>>

\* forkscan_thread_cleanup_release, and the loop of the caller: a forcing
\* thread returns, a retiring one goes on while its queue is full.
ReleaseCleanup(t) ==
  /\ pc[t] = "release"
  /\ cleanup' = NULL
  /\ call' = [call EXCEPT ![t] = NoCall]
  /\ forcing' = [forcing EXCEPT ![t] = FALSE]
  /\ Goto(t, IF ~forcing[t] /\ Full(t) THEN "try" ELSE "user")
  /\ UNCHANGED <<queue, current, g_force_iteration, unread, gathered, gcVars,
                 clientVars, configVars>>

(***************************************************************************)
(* The collector thread.                                                   *)
(***************************************************************************)

\* Under g_gc_mutex: take everything that was handed in.  Without anything
\* the assertion fails, and the null list is dereferenced.
Take ==
  IF g_addr_buffer = <<>>
    THEN /\ gc' = "crashed"
         /\ UNCHANGED <<g_addr_buffer, g_waiting_collects, has_addrs>>
    ELSE /\ has_addrs' = (leftovers \/ \E i \in DOMAIN g_addr_buffer : g_addr_buffer[i])
         /\ g_addr_buffer' = <<>>
         /\ g_waiting_collects' = 0
         /\ gc' = IF g_waiting_collects >= Throttle THEN "broadcast" ELSE "collect"

\* The head of forkscan_thread's loop: wait unless there is something to do.
CheckWork ==
  /\ gc = "check"
  /\ IF g_waiting_collects < 1
       THEN gc' = "waiting" /\ UNCHANGED <<g_addr_buffer, g_waiting_collects, has_addrs>>
       ELSE Take
  /\ UNCHANGED <<gc_signalled, leftovers, threadVars, reclaimVars, clientVars, configVars>>

\* pthread_cond_wait returns.  It may do so without a signal (POSIX), and the
\* code does not look at g_waiting_collects again.
WakeCollector(spurious) ==
  /\ gc = "waiting"
  /\ gc_signalled # spurious
  /\ gc_signalled' = FALSE
  /\ Take
  /\ UNCHANGED <<leftovers, threadVars, reclaimVars, clientVars, configVars>>

\* pthread_cond_broadcast under the client lock.
Broadcast ==
  /\ gc = "broadcast"
  /\ client_lock = NULL
  /\ woken' = {t \in Thread : pc[t] = "asleep"}
  /\ gc' = "collect"
  /\ UNCHANGED <<gc_signalled, g_addr_buffer, g_waiting_collects, has_addrs, leftovers,
                 threadVars, reclaimVars, client_lock, configVars>>

\* reclaim_iteration, of which only the leftovers matter here.
ReclaimIteration ==
  /\ gc = "collect"
  /\ leftovers' \in IF has_addrs THEN BOOLEAN ELSE {FALSE}
  /\ has_addrs' = FALSE
  /\ gc' = "check"
  /\ UNCHANGED <<gc_signalled, g_addr_buffer, g_waiting_collects, threadVars,
                 reclaimVars, clientVars, configVars>>

\* What a thread does inside the library.
Library(t) ==
  \/ LoadTimestamp(t) \/ CasTimestamp(t) \/ LoopAgain(t) \/ TakeForce(t)
  \/ (\E u \in Thread : Gather(t, u)) \/ EndGather(t) \/ InitiateCollection(t)
  \/ TestThrottle(t) \/ LockClient(t) \/ RetestThrottle(t) \/ WakeClient(t, FALSE)
  \/ ReleaseCleanup(t)

CollectorThread ==
  CheckWork \/ WakeCollector(FALSE) \/ Broadcast \/ ReclaimIteration

Next ==
  \/ \E t \in Thread :
       Retire(t) \/ ForceReclaim(t) \/ Library(t) \/ WakeClient(t, TRUE)
  \/ SetAutoRun
  \/ CollectorThread \/ WakeCollector(TRUE)

Spec == Init /\ [][Next]_vars

\* Threads inside the library and the collector keep running (a collection
\* ends); nothing is assumed of the program, and no fairness of the spinning
\* for the cleanup lock.
FairSpec ==
  /\ Spec
  /\ WF_vars(CollectorThread)
  /\ \A t \in Thread : WF_vars(Library(t))

(***************************************************************************)
(* Properties.                                                             *)
(***************************************************************************)

\* "Only one thread should ever be trying to take a reclaimer buffer at a
\* time" (buffer.c), and only one empties the queues.
OneReclaimer ==
  \A t, u \in Thread :
    {pc[t], pc[u]} \cap {"user", "try", "cas", "yield"} = {} => t = u

\* forkscan_queue_push's caller must verify that there is space: when a
\* thread returns to its program its queue has room for another address.
RoomToRetire == \A t \in Thread : pc[t] = "user" => ~Full(t)

\* "Only throttle if we are in automatic mode - in which case Forkscan provides
\* memory limit guarantees" (forkscan_initiate_collection): in a program that
\* never leaves that mode, as many buffers as the throttle allows are all that
\* ever wait for the collector thread, forced iterations included.
ThrottleBound == always_auto => Len(g_addr_buffer) <= Throttle

\* A collection that was asked for is carried out.
CollectionHappens == g_waiting_collects > 0 ~> g_waiting_collects = 0 \/ gc = "crashed"

\* forkscan_retire returns: a full queue is emptied by this thread or another.
RetireReturns ==
  \A t \in Thread : pc[t] = "try" /\ ~forcing[t] ~> pc[t] = "user" \/ gc = "crashed"

\* The request of forkscan_force_reclaim is taken up by some reclaimer.
ForceHonoured == g_force_iteration ~> ~g_force_iteration \/ gc = "crashed"

\* assert(n_addrs != 0) in aggregate_addrs.
SomethingToCollect == gc = "collect" => has_addrs
=============================================================================
