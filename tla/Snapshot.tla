------------------------------ MODULE Snapshot ------------------------------
(***************************************************************************)
(* The handshake that brings the user threads to a stop while the          *)
(* collector forks the process (forkscan.c, frontend.c, proc.c, thread.c). *)
(*                                                                         *)
(* The collector sends SIGFORKSCAN to every active thread, waits until as  *)
(* many threads have acknowledged, forks, and releases them by advancing   *)
(* g_cleanup_counter.  A thread acknowledges in its signal handler, unless *)
(* the signal finds it inside the allocator: then the handler only raises  *)
(* g_waiting_to_fork and the thread acknowledges when it leaves.           *)
(*                                                                         *)
(* Signals are per thread and do not queue: SIGFORKSCAN is masked while    *)
(* its handler runs.  Threads come and go through pthread_create and       *)
(* pthread_exit.  list_lock is the lock of Forkscan's own mmap allocator,  *)
(* which threads take outside the g_in_malloc sections.                    *)
(***************************************************************************)
EXTENDS Integers, FiniteSets

CONSTANTS Thread,     \* the user threads
          InitialThread, \* the ones that run at the outset
          MaxRounds,  \* bound on the snapshots taken
          NULL        \* no thread

ASSUME SnapshotAssumption ==
  /\ IsFiniteSet(Thread)
  /\ InitialThread \subseteq Thread
  /\ MaxRounds \in Nat
  /\ NULL \notin Thread

VARIABLES
  main,               \* where the thread's own code is
  handler,            \* where its signal handler is, "none" if not running
  sig,                \* SIGFORKSCAN is pending for the thread
  g_waiting_to_fork,  \* thread-local
  old_counter,        \* old_counter[t].main and .handler: the local of
                      \* forkscan_acknowledge_signal in either context
  gc,                 \* where the collector is in reclaim_iteration
  to_visit,           \* threads forkscan_proc_signal has still to look at
  signalled,          \* the threads it sent the signal to: sig_count of them
  g_received_signal,
  g_cleanup_counter,
  list_lock,          \* the thread that holds alloc.c's list_lock
  deadrefs_mapped     \* the static buffer of get_dead_references exists

threadVars == <<main, handler, sig, g_waiting_to_fork, old_counter>>
gcVars     == <<gc, to_visit, signalled>>
counters   == <<g_received_signal, g_cleanup_counter>>
allocVars  == <<list_lock, deadrefs_mapped>>
vars == <<threadVars, gcVars, counters, allocVars>>

\* "unborn"; "new": in the thread list, not active yet; "user"; "malloc":
\* g_in_malloc is set; "left": it is cleared again; "read", "inc", "wait":
\* in forkscan_acknowledge_signal; "locked": holds list_lock; "exiting":
\* inactive but listed; "removed": off the list; "gone".
MainPlace == {"unborn", "new", "user", "malloc", "left", "read", "inc", "wait",
              "locked", "exiting", "removed", "gone"}
HandlerPlace == {"none", "read", "inc", "wait"}

InList(t) == main[t] \notin {"unborn", "removed", "gone"}
Active(t) == main[t] \notin {"unborn", "new", "exiting", "removed", "gone"}
sig_count == Cardinality(signalled)

TypeOK ==
  /\ main \in [Thread -> MainPlace]
  /\ handler \in [Thread -> HandlerPlace]
  /\ sig \in [Thread -> BOOLEAN]
  /\ g_waiting_to_fork \in [Thread -> BOOLEAN]
  /\ old_counter \in [Thread -> [main : 0 .. MaxRounds, handler : 0 .. MaxRounds]]
  /\ gc \in {"idle", "signal", "wait", "deadrefs", "fork", "bump"}
  /\ to_visit \in SUBSET Thread
  /\ signalled \in SUBSET Thread
  /\ g_received_signal \in 0 .. Cardinality(Thread)
  /\ g_cleanup_counter \in 0 .. MaxRounds
  /\ list_lock \in Thread \cup {NULL}
  /\ deadrefs_mapped \in BOOLEAN

Init ==
  /\ main = [t \in Thread |-> IF t \in InitialThread THEN "user" ELSE "unborn"]
  /\ handler = [t \in Thread |-> "none"]
  /\ sig = [t \in Thread |-> FALSE]
  /\ g_waiting_to_fork = [t \in Thread |-> FALSE]
  /\ old_counter = [t \in Thread |-> [main |-> 0, handler |-> 0]]
  /\ gc = "idle"
  /\ to_visit = {}
  /\ signalled = {}
  /\ g_received_signal = 0
  /\ g_cleanup_counter = 0
  /\ list_lock = NULL
  /\ deadrefs_mapped = FALSE

(***************************************************************************)
(* The collector.                                                          *)
(***************************************************************************)

\* Seeded fault: the acknowledgements of the last round are still counted.
StartWithoutReset ==
  /\ gc = "idle"
  /\ g_cleanup_counter < MaxRounds
  /\ to_visit' = {t \in Thread : InList(t)}
  /\ signalled' = {}
  /\ gc' = "signal"
  /\ UNCHANGED <<threadVars, counters, allocVars>>

\* g_received_signal = 0, and forkscan_proc_signal takes thread_list.lock,
\* which it holds until gc leaves "signal".
StartSignalling ==
  /\ gc = "idle"
  /\ g_cleanup_counter < MaxRounds
  /\ g_received_signal' = 0
  /\ to_visit' = {t \in Thread : InList(t)}
  /\ signalled' = {}
  /\ gc' = "signal"
  /\ UNCHANGED <<threadVars, g_cleanup_counter, allocVars>>

\* Seeded fault: threads that are not active are counted, though not signalled.
SignalCountsAll(t) ==
  /\ gc = "signal"
  /\ t \in to_visit
  /\ to_visit' = to_visit \ {t}
  /\ sig' = [sig EXCEPT ![t] = Active(t)]
  /\ signalled' = signalled \cup {t}
  /\ UNCHANGED <<main, handler, g_waiting_to_fork, old_counter, gc, counters, allocVars>>

\* One turn of the loop of forkscan_proc_signal.  The list order is immaterial.
Signal(t) ==
  /\ gc = "signal"
  /\ t \in to_visit
  /\ to_visit' = to_visit \ {t}
  /\ IF Active(t)
       THEN sig' = [sig EXCEPT ![t] = TRUE] /\ signalled' = signalled \cup {t}
       ELSE UNCHANGED <<sig, signalled>>
  /\ UNCHANGED <<main, handler, g_waiting_to_fork, old_counter, gc, counters, allocVars>>

EndSignalling ==
  /\ gc = "signal"
  /\ to_visit = {}
  /\ gc' = "wait"
  /\ UNCHANGED <<threadVars, to_visit, signalled, counters, allocVars>>

\* while (g_received_signal < sig_count) pthread_yield();
AwaitAcks ==
  /\ gc = "wait"
  /\ g_received_signal >= sig_count
  /\ gc' = "deadrefs"
  /\ UNCHANGED <<threadVars, to_visit, signalled, counters, allocVars>>

\* forkscan_buffer_get_dead_references: its first call maps the buffer, for
\* which alloc_mmap takes list_lock.
GetDeadReferences ==
  /\ gc = "deadrefs"
  /\ deadrefs_mapped \/ list_lock = NULL
  /\ deadrefs_mapped' = TRUE
  /\ gc' = "fork"
  /\ UNCHANGED <<threadVars, to_visit, signalled, counters, list_lock>>

\* fork(), which takes the snapshot in one instant.
Fork ==
  /\ gc = "fork"
  /\ gc' = "bump"
  /\ UNCHANGED <<threadVars, to_visit, signalled, counters, allocVars>>

\* Seeded fault: the counter is not advanced.
ReleaseNobody ==
  /\ gc = "bump"
  /\ gc' = "idle"
  /\ UNCHANGED <<threadVars, to_visit, signalled, counters, allocVars>>

\* ++g_cleanup_counter; the rest of reclaim_iteration does not involve the
\* threads' stopping (see Retirees).
Release ==
  /\ gc = "bump"
  /\ g_cleanup_counter' = g_cleanup_counter + 1
  /\ gc' = "idle"
  /\ UNCHANGED <<threadVars, to_visit, signalled, g_received_signal, allocVars>>

(***************************************************************************)
(* The signal handler.                                                     *)
(***************************************************************************)

\* Seeded fault: the handler does not look at g_in_malloc.
HandlerInMalloc(t) ==
  /\ sig[t]
  /\ handler[t] = "none"
  /\ sig' = [sig EXCEPT ![t] = FALSE]
  /\ handler' = [handler EXCEPT ![t] = "read"]
  /\ UNCHANGED <<main, g_waiting_to_fork, old_counter, gcVars, counters, allocVars>>

\* Seeded fault: inside the allocator, the handler returns and forgets the signal.
HandlerForgets(t) ==
  /\ sig[t]
  /\ handler[t] = "none"
  /\ sig' = [sig EXCEPT ![t] = FALSE]
  /\ handler' = [handler EXCEPT ![t] = IF main[t] = "malloc" THEN "none" ELSE "read"]
  /\ UNCHANGED <<main, g_waiting_to_fork, old_counter, gcVars, counters, allocVars>>

\* Delivery and the test of g_in_malloc; the interrupted code stands still.
SignalHandler(t) ==
  /\ sig[t]
  /\ handler[t] = "none"
  /\ sig' = [sig EXCEPT ![t] = FALSE]
  /\ IF main[t] = "malloc"
       THEN /\ g_waiting_to_fork' = [g_waiting_to_fork EXCEPT ![t] = TRUE]
            /\ UNCHANGED handler
       ELSE /\ handler' = [handler EXCEPT ![t] = "read"]
            /\ UNCHANGED g_waiting_to_fork
  /\ UNCHANGED <<main, old_counter, gcVars, counters, allocVars>>

\* forkscan_acknowledge_signal, first half: the counter, then the
\* acknowledgement.
ReadCounter(t) ==
  \/ /\ handler[t] = "read"
     /\ old_counter' = [old_counter EXCEPT ![t].handler = g_cleanup_counter]
     /\ handler' = [handler EXCEPT ![t] = "inc"]
     /\ UNCHANGED <<main, sig, g_waiting_to_fork, gcVars, counters, allocVars>>
  \/ /\ handler[t] = "none"
     /\ main[t] = "read"
     /\ old_counter' = [old_counter EXCEPT ![t].main = g_cleanup_counter]
     /\ main' = [main EXCEPT ![t] = "inc"]
     /\ UNCHANGED <<handler, sig, g_waiting_to_fork, gcVars, counters, allocVars>>

Acknowledge(t) ==
  /\ \/ /\ handler[t] = "inc"
        /\ handler' = [handler EXCEPT ![t] = "wait"]
        /\ UNCHANGED main
     \/ /\ handler[t] = "none"
        /\ main[t] = "inc"
        /\ main' = [main EXCEPT ![t] = "wait"]
        /\ UNCHANGED handler
  /\ g_received_signal' = g_received_signal + 1
  /\ UNCHANGED <<sig, g_waiting_to_fork, old_counter, gcVars, g_cleanup_counter, allocVars>>

\* while (old_counter == g_cleanup_counter) usleep(1);
Resume(t) ==
  /\ \/ /\ handler[t] = "wait"
        /\ old_counter[t].handler # g_cleanup_counter
        /\ handler' = [handler EXCEPT ![t] = "none"]
        /\ UNCHANGED main
     \/ /\ handler[t] = "none"
        /\ main[t] = "wait"
        /\ old_counter[t].main # g_cleanup_counter
        /\ main' = [main EXCEPT ![t] = "user"]
        /\ UNCHANGED handler
  /\ UNCHANGED <<sig, g_waiting_to_fork, old_counter, gcVars, counters, allocVars>>

(***************************************************************************)
(* The threads' own code.                                                  *)
(***************************************************************************)

Step(t, from, to) ==
  /\ handler[t] = "none"
  /\ main[t] = from
  /\ main' = [main EXCEPT ![t] = to]
  /\ UNCHANGED <<handler, sig, old_counter, gcVars, counters>>

\* forkscan_malloc, forkscan_free, forkscan_retire and yield: g_in_malloc = 1.
EnterMalloc(t) == Step(t, "user", "malloc") /\ UNCHANGED <<g_waiting_to_fork, allocVars>>

\* g_in_malloc = 0.
LeaveMalloc(t) == Step(t, "malloc", "left") /\ UNCHANGED <<g_waiting_to_fork, allocVars>>

\* Seeded fault: g_waiting_to_fork stays raised.
CheckWithoutClearing(t) ==
  /\ Step(t, "left", IF g_waiting_to_fork[t] THEN "read" ELSE "user")
  /\ UNCHANGED <<g_waiting_to_fork, allocVars>>

\* The deferred acknowledgement, if one is due.
CheckWaiting(t) ==
  /\ Step(t, "left", IF g_waiting_to_fork[t] THEN "read" ELSE "user")
  /\ g_waiting_to_fork' = [g_waiting_to_fork EXCEPT ![t] = FALSE]
  /\ UNCHANGED allocVars

\* alloc_mmap on behalf of a reclaimer buffer, a thread's metadata or a stack.
TakeListLock(t) ==
  /\ list_lock = NULL
  /\ Step(t, "user", "locked")
  /\ list_lock' = t
  /\ UNCHANGED <<g_waiting_to_fork, deadrefs_mapped>>

DropListLock(t) ==
  /\ Step(t, "locked", "user")
  /\ list_lock' = NULL
  /\ UNCHANGED <<g_waiting_to_fork, deadrefs_mapped>>

\* pthread_create by thread t: the metadata of u joins the list.
Create(t, u) ==
  /\ handler[t] = "none" /\ main[t] = "user"
  /\ gc # "signal"
  /\ Step(u, "unborn", "new")
  /\ UNCHANGED <<g_waiting_to_fork, allocVars>>

\* forkscan_thread_base: td->is_active = 1, and the user's routine runs.
Start(t) == Step(t, "new", "user") /\ UNCHANGED <<g_waiting_to_fork, allocVars>>

\* forkscan_thread_cleanup: td->is_active = 0 ...
Deactivate(t) == Step(t, "user", "exiting") /\ UNCHANGED <<g_waiting_to_fork, allocVars>>

\* ... and forkscan_proc_remove_thread_data, under thread_list.lock.
Remove(t) ==
  /\ gc # "signal"
  /\ Step(t, "exiting", "removed")
  /\ UNCHANGED <<g_waiting_to_fork, allocVars>>

\* The thread ends.  The kernel has delivered what it sent by then.
Terminate(t) ==
  /\ ~sig[t]
  /\ Step(t, "removed", "gone")
  /\ UNCHANGED <<g_waiting_to_fork, allocVars>>

Collector ==
  \/ StartSignalling \/ EndSignalling \/ AwaitAcks \/ GetDeadReferences
  \/ Fork \/ Release
  \/ \E t \in Thread : Signal(t)

\* Steps a thread takes on its way through the library and the kernel.
Library(t) ==
  \/ SignalHandler(t) \/ ReadCounter(t) \/ Acknowledge(t) \/ Resume(t)
  \/ LeaveMalloc(t) \/ CheckWaiting(t) \/ DropListLock(t)
  \/ Start(t) \/ Remove(t) \/ Terminate(t)

\* Steps the user's code decides on.
User(t) ==
  \/ EnterMalloc(t) \/ TakeListLock(t) \/ Deactivate(t)
  \/ \E u \in Thread : Create(t, u)

Next == Collector \/ \E t \in Thread : Library(t) \/ User(t)

Spec == Init /\ [][Next]_vars

\* The collector and every thread that is inside the library keep running,
\* and the kernel delivers a signal it was given; a mutex that is released
\* again and again is obtained.  Nothing is assumed of the user's code.
FairSpec ==
  /\ Spec
  /\ WF_vars(Collector) /\ SF_vars(GetDeadReferences)
  /\ \A t \in Thread : WF_vars(Library(t)) /\ WF_vars(SignalHandler(t))

(***************************************************************************)
(* Properties.                                                             *)
(***************************************************************************)

\* t has acknowledged and stands still until the collector releases it.
Stopped(t) ==
  \/ handler[t] = "wait" /\ old_counter[t].handler = g_cleanup_counter
  \/ handler[t] = "none" /\ main[t] = "wait" /\ old_counter[t].main = g_cleanup_counter

\* t has been sent the signal of this round and has not acknowledged it.
Owes(t) ==
  \/ sig[t] \/ g_waiting_to_fork[t]
  \/ handler[t] \in {"read", "inc"}
  \/ main[t] \in {"read", "inc"}

\* When the process is forked, every thread that was sent the signal stands
\* still, and outside the allocator, whose lock the child would inherit
\* (the comment on TC-Malloc in forkscan_malloc).
StoppedAtFork ==
  gc \in {"deadrefs", "fork", "bump"} =>
    \A t \in signalled : Stopped(t) /\ main[t] # "malloc"

\* Acknowledgements are neither lost nor counted twice: g_received_signal is
\* the number of threads of this round that do not owe one any more.
AcksAccounted ==
  gc # "idle" =>
    /\ \A t \in Thread : Owes(t) => t \in signalled
    /\ g_received_signal = Cardinality({t \in signalled : ~Owes(t)})

\* A thread stands still for a snapshot only: nobody waits in
\* forkscan_acknowledge_signal while no collection is under way.
NobodyStopsInVain == gc = "idle" => \A t \in Thread : ~Stopped(t) /\ ~Owes(t)

\* The collector is stuck: it maps the dead-reference buffer for the first
\* time, and a thread was stopped while it held list_lock.
LockedOut ==
  gc = "deadrefs" /\ ~deadrefs_mapped /\ list_lock # NULL /\ Stopped(list_lock)

\* Once signals have been sent the snapshot is taken, unless a stopped thread
\* has locked the collector out.
SnapshotTaken == gc = "signal" ~> gc = "bump" \/ LockedOut

\* A stopped thread is released.
StoppedThreadsResume ==
  \A t \in Thread : Stopped(t) ~> ~Stopped(t) \/ LockedOut
=============================================================================
