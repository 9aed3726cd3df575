--------------------------- MODULE SnapshotProofs ---------------------------
(***************************************************************************)
(* The handshake of Snapshot is right for any number of threads and        *)
(* rounds: every acknowledgement is counted once, every thread that was    *)
(* sent the signal stands still when the process is forked, and nobody     *)
(* stands still when no collection is under way.                           *)
(***************************************************************************)
EXTENDS Snapshot, FiniteSetTheorems, TLAPS

(***************************************************************************)
(* The inductive invariant, in named parts.                                *)
(***************************************************************************)

\* A thread in forkscan_acknowledge_signal that has still to acknowledge.
Due == {"read", "inc"}

\* What a thread owes it owes once: its signal is pending, or deferred, or it
\* is on its way to the acknowledgement in one of its two contexts.
OwesOnce(t) ==
  /\ sig[t] => ~g_waiting_to_fork[t] /\ handler[t] \notin Due /\ main[t] \notin Due
  /\ g_waiting_to_fork[t] => handler[t] \notin Due /\ main[t] \in {"malloc", "left"}
  /\ handler[t] \in Due => main[t] \notin Due

\* The handler does not run on top of the allocator.
HandlerOutsideMalloc(t) == handler[t] # "none" => main[t] # "malloc"

\* A counter that was read is not ahead of g_cleanup_counter, and until the
\* acknowledgement it is the current one.
CounterRead(t) ==
  /\ old_counter[t].handler <= g_cleanup_counter
  /\ old_counter[t].main <= g_cleanup_counter
  /\ handler[t] = "inc" => old_counter[t].handler = g_cleanup_counter
  /\ main[t] = "inc" => old_counter[t].main = g_cleanup_counter

\* An acknowledgement is owed in this round only, before the collector goes on.
OwesThisRound(t) == Owes(t) => t \in signalled /\ gc \in {"signal", "wait"}

\* Who was sent the signal and owes nothing any more stands still, outside the
\* allocator.
PaidUp(t) ==
  gc # "idle" /\ t \in signalled /\ ~Owes(t) => Stopped(t) /\ main[t] # "malloc"

\* Who waits between two rounds waits for a counter that has changed.
Released(t) ==
  gc = "idle" =>
    /\ handler[t] = "wait" => old_counter[t].handler # g_cleanup_counter
    /\ main[t] = "wait" => old_counter[t].main # g_cleanup_counter

ThreadInv ==
  \A t \in Thread :
    /\ OwesOnce(t) /\ HandlerOutsideMalloc(t) /\ CounterRead(t)
    /\ OwesThisRound(t) /\ PaidUp(t) /\ Released(t)

\* The threads of this round that have acknowledged.
Acked == {t \in signalled : ~Owes(t)}

\* The collector looks at a thread once, counts the acknowledgements of the
\* round, and takes no more than MaxRounds snapshots.
RoundInv ==
  /\ gc = "signal" => signalled \cap to_visit = {}
  /\ gc # "idle" => g_received_signal = Cardinality(Acked) /\ g_cleanup_counter < MaxRounds

IndInv == TypeOK /\ ThreadInv /\ RoundInv

\* While the collector forks, a thread that was sent the signal does not move.
Frozen ==
  gc \in {"deadrefs", "fork", "bump"} =>
    \A t \in signalled :
      /\ main'[t] = main[t] /\ handler'[t] = handler[t]
      /\ sig'[t] = sig[t] /\ g_waiting_to_fork'[t] = g_waiting_to_fork[t]

\* The threads of a round are finitely many.
LEMMA AckedFinite ==
  ASSUME TypeOK
  PROVE  /\ IsFiniteSet(signalled) /\ IsFiniteSet(Acked)
         /\ Cardinality(signalled) \in Nat /\ Cardinality(Acked) \in Nat
         /\ Cardinality(Acked) <= Cardinality(signalled)
         /\ Cardinality(signalled) <= Cardinality(Thread)
         /\ Cardinality(Thread) \in Nat
         /\ Cardinality(Acked) = Cardinality(signalled) => Acked = signalled
<1>1. signalled \subseteq Thread /\ Acked \subseteq signalled
  BY DEF TypeOK, Acked
<1>2. IsFiniteSet(signalled) /\ Cardinality(signalled) <= Cardinality(Thread)
  BY <1>1, SnapshotAssumption, FS_Subset
<1>3. /\ IsFiniteSet(Acked)
      /\ Cardinality(Acked) <= Cardinality(signalled)
      /\ Cardinality(Acked) = Cardinality(signalled) => Acked = signalled
  BY <1>1, <1>2, FS_Subset
<1> QED
  BY <1>2, <1>3, SnapshotAssumption, FS_CardinalityType

\* An acknowledgement is one thread's that had not acknowledged yet, so the
\* count stays within the number of threads.
LEMMA AckedGrows ==
  ASSUME IndInv, NEW u \in Thread, Acknowledge(u)
  PROVE  /\ Acked' = Acked \cup {u}
         /\ Cardinality(Acked') = Cardinality(Acked) + 1
         /\ Cardinality(Acked') <= Cardinality(Thread)
         /\ gc # "idle"
<1> USE DEF IndInv, TypeOK, ThreadInv, OwesOnce, HandlerOutsideMalloc, CounterRead,
    OwesThisRound, PaidUp, Released, Owes, Stopped, Due
<1>1. Owes(u) /\ u \in signalled /\ gc # "idle" /\ signalled' = signalled
  BY DEF Acknowledge, gcVars
<1>2. ~Owes(u)'
  BY DEF Acknowledge
<1>3. \A t \in Thread \ {u} : Owes(t)' = Owes(t)
  BY DEF Acknowledge
<1> HIDE DEF Owes
<1>4. Acked' = Acked \cup {u} /\ u \notin Acked
  BY <1>1, <1>2, <1>3 DEF Acked
<1>5. Cardinality(Acked') = Cardinality(Acked) + 1
  BY <1>4, AckedFinite, FS_AddElement
<1>6. Acked' \subseteq Thread
  BY <1>4 DEF Acked
<1>7. Cardinality(Acked') <= Cardinality(Thread)
  BY <1>6, SnapshotAssumption, FS_Subset
<1> QED
  BY <1>1, <1>4, <1>5, <1>7

\* Every step keeps the types; an acknowledgement by AckedGrows.
LEMMA TypeStep ==
  ASSUME IndInv, [Next]_vars
  PROVE  TypeOK'
<1> USE SnapshotAssumption DEF IndInv, TypeOK, MainPlace, HandlerPlace, RoundInv,
           threadVars, gcVars, counters, allocVars
<1>1. ASSUME StartSignalling
      PROVE  TypeOK'
  BY <1>1, AckedFinite DEF StartSignalling
<1>2. ASSUME NEW u \in Thread, Signal(u)
      PROVE  TypeOK'
  BY <1>2 DEF Signal, Active
<1>3. ASSUME EndSignalling
      PROVE  TypeOK'
  BY <1>3 DEF EndSignalling
<1>4. ASSUME AwaitAcks
      PROVE  TypeOK'
  BY <1>4 DEF AwaitAcks
<1>5. ASSUME GetDeadReferences
      PROVE  TypeOK'
  BY <1>5 DEF GetDeadReferences
<1>6. ASSUME Fork
      PROVE  TypeOK'
  BY <1>6 DEF Fork
<1>7. ASSUME Release
      PROVE  TypeOK'
  BY <1>7 DEF Release
<1>8. ASSUME NEW u \in Thread, SignalHandler(u)
      PROVE  TypeOK'
  BY <1>8 DEF SignalHandler
<1>9. ASSUME NEW u \in Thread, ReadCounter(u)
      PROVE  TypeOK'
  <2>1. old_counter' \in [Thread -> [main : 0 .. MaxRounds, handler : 0 .. MaxRounds]]
    BY <1>9 DEF ReadCounter
  <2>2. main' \in [Thread -> MainPlace] /\ handler' \in [Thread -> HandlerPlace]
    BY <1>9 DEF ReadCounter
  <2> QED
    BY <1>9, <2>1, <2>2 DEF ReadCounter
<1>10. ASSUME NEW u \in Thread, Acknowledge(u)
      PROVE  TypeOK'
  <2>1. g_received_signal' \in 0 .. Cardinality(Thread)
    BY <1>10, AckedGrows, AckedFinite DEF Acknowledge
  <2> QED
    BY <1>10, <2>1 DEF Acknowledge
<1>11. ASSUME NEW u \in Thread, Resume(u)
      PROVE  TypeOK'
  BY <1>11 DEF Resume
<1>12. ASSUME NEW u \in Thread, EnterMalloc(u)
      PROVE  TypeOK'
  BY <1>12 DEF EnterMalloc, Step
<1>13. ASSUME NEW u \in Thread, LeaveMalloc(u)
      PROVE  TypeOK'
  BY <1>13 DEF LeaveMalloc, Step
<1>14. ASSUME NEW u \in Thread, CheckWaiting(u)
      PROVE  TypeOK'
  BY <1>14 DEF CheckWaiting, Step
<1>15. ASSUME NEW u \in Thread, TakeListLock(u)
      PROVE  TypeOK'
  BY <1>15 DEF TakeListLock, Step
<1>16. ASSUME NEW u \in Thread, DropListLock(u)
      PROVE  TypeOK'
  BY <1>16 DEF DropListLock, Step
<1>17. ASSUME NEW u \in Thread, NEW v \in Thread, Create(v, u)
      PROVE  TypeOK'
  BY <1>17 DEF Create, Step
<1>18. ASSUME NEW u \in Thread, Start(u)
      PROVE  TypeOK'
  BY <1>18 DEF Start, Step
<1>19. ASSUME NEW u \in Thread, Deactivate(u)
      PROVE  TypeOK'
  BY <1>19 DEF Deactivate, Step
<1>20. ASSUME NEW u \in Thread, Remove(u)
      PROVE  TypeOK'
  BY <1>20 DEF Remove, Step
<1>21. ASSUME NEW u \in Thread, Terminate(u)
      PROVE  TypeOK'
  BY <1>21 DEF Terminate, Step
<1>22. CASE UNCHANGED vars
  BY <1>22 DEF vars
<1> QED
  BY <1>1, <1>2, <1>3, <1>4, <1>5, <1>6, <1>7, <1>8, <1>9, <1>10, <1>11, <1>12,
     <1>13, <1>14, <1>15, <1>16, <1>17, <1>18, <1>19, <1>20, <1>21, <1>22
     DEF Next, Collector, Library, User

\* Every step keeps what is known of each thread.  The collector goes on once all
\* that were signalled have acknowledged, since it counted each of them once.
LEMMA ThreadStep ==
  ASSUME IndInv, [Next]_vars
  PROVE  ThreadInv'
<1> USE SnapshotAssumption DEF IndInv, TypeOK, ThreadInv, RoundInv, OwesOnce,
    HandlerOutsideMalloc, CounterRead, OwesThisRound, PaidUp, Released, Owes, Stopped, Due,
           threadVars, gcVars, counters, allocVars
<1>1. ASSUME StartSignalling
      PROVE  ThreadInv'
  BY <1>1 DEF StartSignalling
<1>2. ASSUME NEW u \in Thread, Signal(u)
      PROVE  ThreadInv'
  BY <1>2 DEF Signal, Active
<1>3. ASSUME EndSignalling
      PROVE  ThreadInv'
  BY <1>3 DEF EndSignalling
<1>4. ASSUME AwaitAcks
      PROVE  ThreadInv'
  <2>1. Acked = signalled
    BY <1>4, AckedFinite DEF AwaitAcks, sig_count
  <2>2. \A t \in Thread : ~Owes(t)
    BY <2>1 DEF Acked
  <2> QED
    BY <1>4, <2>2 DEF AwaitAcks
<1>5. ASSUME GetDeadReferences
      PROVE  ThreadInv'
  BY <1>5 DEF GetDeadReferences
<1>6. ASSUME Fork
      PROVE  ThreadInv'
  BY <1>6 DEF Fork
<1>7. ASSUME Release
      PROVE  ThreadInv'
  BY <1>7 DEF Release
<1>8. ASSUME NEW u \in Thread, SignalHandler(u)
      PROVE  ThreadInv'
  BY <1>8 DEF SignalHandler
<1>9. ASSUME NEW u \in Thread, ReadCounter(u)
      PROVE  ThreadInv'
  BY <1>9 DEF ReadCounter
<1>10. ASSUME NEW u \in Thread, Acknowledge(u)
      PROVE  ThreadInv'
  BY <1>10 DEF Acknowledge
<1>11. ASSUME NEW u \in Thread, Resume(u)
      PROVE  ThreadInv'
  BY <1>11 DEF Resume
<1>12. ASSUME NEW u \in Thread, EnterMalloc(u)
      PROVE  ThreadInv'
  BY <1>12 DEF EnterMalloc, Step
<1>13. ASSUME NEW u \in Thread, LeaveMalloc(u)
      PROVE  ThreadInv'
  BY <1>13 DEF LeaveMalloc, Step
<1>14. ASSUME NEW u \in Thread, CheckWaiting(u)
      PROVE  ThreadInv'
  BY <1>14 DEF CheckWaiting, Step
<1>15. ASSUME NEW u \in Thread, TakeListLock(u)
      PROVE  ThreadInv'
  BY <1>15 DEF TakeListLock, Step
<1>16. ASSUME NEW u \in Thread, DropListLock(u)
      PROVE  ThreadInv'
  BY <1>16 DEF DropListLock, Step
<1>17. ASSUME NEW u \in Thread, NEW v \in Thread, Create(v, u)
      PROVE  ThreadInv'
  BY <1>17 DEF Create, Step
<1>18. ASSUME NEW u \in Thread, Start(u)
      PROVE  ThreadInv'
  BY <1>18 DEF Start, Step
<1>19. ASSUME NEW u \in Thread, Deactivate(u)
      PROVE  ThreadInv'
  BY <1>19 DEF Deactivate, Step
<1>20. ASSUME NEW u \in Thread, Remove(u)
      PROVE  ThreadInv'
  BY <1>20 DEF Remove, Step
<1>21. ASSUME NEW u \in Thread, Terminate(u)
      PROVE  ThreadInv'
  BY <1>21 DEF Terminate, Step
<1>22. CASE UNCHANGED vars
  BY <1>22 DEF vars
<1> QED
  BY <1>1, <1>2, <1>3, <1>4, <1>5, <1>6, <1>7, <1>8, <1>9, <1>10, <1>11, <1>12,
     <1>13, <1>14, <1>15, <1>16, <1>17, <1>18, <1>19, <1>20, <1>21, <1>22
     DEF Next, Collector, Library, User

\* Only an acknowledgement changes who owes nothing any more, and by one thread.
LEMMA RoundStep ==
  ASSUME IndInv, [Next]_vars
  PROVE  RoundInv'
<1> USE SnapshotAssumption DEF IndInv, TypeOK, ThreadInv, RoundInv, Due, threadVars, gcVars,
    counters, allocVars
<1>1. ASSUME StartSignalling
      PROVE  RoundInv'
  <2>1. Acked' = {}
    BY <1>1 DEF StartSignalling, Acked
  <2> QED
    BY <1>1, <2>1, FS_EmptySet DEF StartSignalling
<1>2. ASSUME NEW u \in Thread, Signal(u)
      PROVE  RoundInv'
  <2>1. Acked' = Acked
    BY <1>2 DEF Signal, Acked, Owes, OwesThisRound
  <2> QED
    BY <1>2, <2>1 DEF Signal
<1>3. ASSUME NEW u \in Thread, Acknowledge(u)
      PROVE  RoundInv'
  BY <1>3, AckedGrows DEF Acknowledge
<1>4. ASSUME Release
      PROVE  RoundInv'
  BY <1>4 DEF Release
<1>5. ASSUME EndSignalling \/ AwaitAcks \/ GetDeadReferences \/ Fork
      PROVE  RoundInv'
  <2>1. Acked' = Acked
    BY <1>5 DEF EndSignalling, AwaitAcks, GetDeadReferences, Fork, Acked, Owes
  <2> QED
    BY <1>5, <2>1 DEF EndSignalling, AwaitAcks, GetDeadReferences, Fork
<1>6. ASSUME NEW u \in Thread, SignalHandler(u)
      PROVE  RoundInv'
  <2>1. \A t \in Thread : Owes(t)' = Owes(t)
    BY <1>6 DEF SignalHandler, Owes
  <2> QED
    BY <1>6, <2>1 DEF SignalHandler, Acked
<1>7. ASSUME NEW u \in Thread, ReadCounter(u)
      PROVE  RoundInv'
  <2>1. \A t \in Thread : Owes(t)' = Owes(t)
    BY <1>7 DEF ReadCounter, Owes
  <2>2. Acked' = Acked
    BY <1>7, <2>1 DEF ReadCounter, Acked
  <2>3. UNCHANGED <<gc, to_visit, signalled, g_received_signal, g_cleanup_counter>>
    BY <1>7 DEF ReadCounter
  <2> QED
    BY <2>2, <2>3
<1>8. ASSUME NEW u \in Thread, Resume(u)
      PROVE  RoundInv'
  <2>1. \A t \in Thread : Owes(t)' = Owes(t)
    BY <1>8 DEF Resume, Owes
  <2>2. Acked' = Acked
    BY <1>8, <2>1 DEF Resume, Acked
  <2>3. UNCHANGED <<gc, to_visit, signalled, g_received_signal, g_cleanup_counter>>
    BY <1>8 DEF Resume
  <2> QED
    BY <2>2, <2>3
<1>9. ASSUME NEW u \in Thread, EnterMalloc(u)
      PROVE  RoundInv'
  <2>1. \A t \in Thread : Owes(t)' = Owes(t)
    BY <1>9 DEF EnterMalloc, Step, Owes
  <2> QED
    BY <1>9, <2>1 DEF EnterMalloc, Step, Acked
<1>10. ASSUME NEW u \in Thread, LeaveMalloc(u)
      PROVE  RoundInv'
  <2>1. \A t \in Thread : Owes(t)' = Owes(t)
    BY <1>10 DEF LeaveMalloc, Step, Owes
  <2> QED
    BY <1>10, <2>1 DEF LeaveMalloc, Step, Acked
<1>11. ASSUME NEW u \in Thread, CheckWaiting(u)
      PROVE  RoundInv'
  <2>1. \A t \in Thread : Owes(t)' = Owes(t)
    BY <1>11 DEF CheckWaiting, Step, Owes
  <2> QED
    BY <1>11, <2>1 DEF CheckWaiting, Step, Acked
<1>12. ASSUME NEW u \in Thread, TakeListLock(u)
      PROVE  RoundInv'
  <2>1. \A t \in Thread : Owes(t)' = Owes(t)
    BY <1>12 DEF TakeListLock, Step, Owes
  <2> QED
    BY <1>12, <2>1 DEF TakeListLock, Step, Acked
<1>13. ASSUME NEW u \in Thread, DropListLock(u)
      PROVE  RoundInv'
  <2>1. \A t \in Thread : Owes(t)' = Owes(t)
    BY <1>13 DEF DropListLock, Step, Owes
  <2> QED
    BY <1>13, <2>1 DEF DropListLock, Step, Acked
<1>14. ASSUME NEW u \in Thread, NEW v \in Thread, Create(v, u)
      PROVE  RoundInv'
  <2>1. \A t \in Thread : Owes(t)' = Owes(t)
    BY <1>14 DEF Create, Step, Owes
  <2> QED
    BY <1>14, <2>1 DEF Create, Step, Acked
<1>15. ASSUME NEW u \in Thread, Start(u)
      PROVE  RoundInv'
  <2>1. \A t \in Thread : Owes(t)' = Owes(t)
    BY <1>15 DEF Start, Step, Owes
  <2> QED
    BY <1>15, <2>1 DEF Start, Step, Acked
<1>16. ASSUME NEW u \in Thread, Deactivate(u)
      PROVE  RoundInv'
  <2>1. \A t \in Thread : Owes(t)' = Owes(t)
    BY <1>16 DEF Deactivate, Step, Owes
  <2> QED
    BY <1>16, <2>1 DEF Deactivate, Step, Acked
<1>17. ASSUME NEW u \in Thread, Remove(u)
      PROVE  RoundInv'
  <2>1. \A t \in Thread : Owes(t)' = Owes(t)
    BY <1>17 DEF Remove, Step, Owes
  <2> QED
    BY <1>17, <2>1 DEF Remove, Step, Acked
<1>18. ASSUME NEW u \in Thread, Terminate(u)
      PROVE  RoundInv'
  <2>1. \A t \in Thread : Owes(t)' = Owes(t)
    BY <1>18 DEF Terminate, Step, Owes
  <2> QED
    BY <1>18, <2>1 DEF Terminate, Step, Acked
<1>19. CASE UNCHANGED vars
  BY <1>19 DEF vars, Acked, Owes
<1> QED
  BY <1>1, <1>2, <1>3, <1>4, <1>5, <1>6, <1>7, <1>8, <1>9, <1>10, <1>11, <1>12, <1>13,
     <1>14, <1>15, <1>16, <1>17, <1>18, <1>19
     DEF Next, Collector, Library, User

\* No thread runs a handler when the library starts.
LEMMA IndInvInit == Init => IndInv
<1> SUFFICES ASSUME Init PROVE IndInv
  OBVIOUS
<1> USE SnapshotAssumption DEF Init
<1>1. TypeOK
  <2>1. g_received_signal \in 0 .. Cardinality(Thread)
    BY FS_CardinalityType
  <2>2. old_counter \in [Thread -> [main : 0 .. MaxRounds, handler : 0 .. MaxRounds]]
    OBVIOUS
  <2>3. sig \in [Thread -> BOOLEAN] /\ g_waiting_to_fork \in [Thread -> BOOLEAN]
    OBVIOUS
  <2>4. deadrefs_mapped \in BOOLEAN
    BY Zenon
  <2> QED
    BY <2>1, <2>2, <2>3, <2>4 DEF TypeOK, MainPlace, HandlerPlace
<1>2. ThreadInv
  BY DEF ThreadInv, OwesOnce, HandlerOutsideMalloc, CounterRead, OwesThisRound, PaidUp,
     Released, Owes, Stopped, Due
<1>3. RoundInv
  BY DEF RoundInv
<1> QED
  BY <1>1, <1>2, <1>3 DEF IndInv

\* The invariant holds throughout.
LEMMA Inductive == Spec => []IndInv
<1>1. IndInv /\ [Next]_vars => IndInv'
  BY TypeStep, ThreadStep, RoundStep DEF IndInv
<1> QED
  BY <1>1, IndInvInit, PTL DEF Spec

\* Every variable keeps its type: the acknowledgements never outnumber the
\* threads, and the counter a thread has read is one that existed.
THEOREM TypeCorrect == Spec => []TypeOK
<1>1. IndInv => TypeOK
  BY DEF IndInv
<1> QED
  BY <1>1, Inductive, PTL

\* Acknowledgements are neither lost nor counted twice by g_received_signal,
\* wherever the signal found the thread.
THEOREM AcksAccountedHolds == Spec => []AcksAccounted
<1>1. IndInv => AcksAccounted
  BY DEF IndInv, ThreadInv, RoundInv, OwesThisRound, Acked, AcksAccounted
<1> QED
  BY <1>1, Inductive, PTL

\* Every thread that forkscan_proc_signal signalled stands still, outside the
\* allocator, when reclaim_iteration forks.
THEOREM StoppedAtForkHolds == Spec => []StoppedAtFork
<1>1. IndInv => StoppedAtFork
  BY DEF IndInv, TypeOK, ThreadInv, OwesThisRound, PaidUp, StoppedAtFork
<1> QED
  BY <1>1, Inductive, PTL

\* Between two collections nobody is held in forkscan_acknowledge_signal, and
\* no acknowledgement is left over for the next one.
THEOREM NobodyStopsInVainHolds == Spec => []NobodyStopsInVain
<1>1. IndInv => NobodyStopsInVain
  BY DEF IndInv, TypeOK, ThreadInv, OwesThisRound, Released, NobodyStopsInVain, Stopped
<1> QED
  BY <1>1, Inductive, PTL

\* From the last acknowledgement to the release no thread that was signalled
\* takes a step, whatever the others, the new ones among them, do meanwhile.
THEOREM FrozenHolds == Spec => [][Frozen]_vars
<1>1. IndInv /\ [Next]_vars => [Frozen]_vars
  <2> SUFFICES ASSUME IndInv, Next, gc \in {"deadrefs", "fork", "bump"}, NEW t \in signalled
               PROVE  /\ main'[t] = main[t] /\ handler'[t] = handler[t]
                      /\ sig'[t] = sig[t] /\ g_waiting_to_fork'[t] = g_waiting_to_fork[t]
    BY DEF Frozen
  <2>1. t \in Thread /\ Stopped(t) /\ ~Owes(t)
    BY DEF IndInv, TypeOK, ThreadInv, OwesThisRound, PaidUp
  <2> USE <2>1 DEF IndInv, TypeOK, Stopped, Owes, threadVars
  <2>2. CASE Collector
    BY <2>2 DEF Collector, StartSignalling, EndSignalling, AwaitAcks, GetDeadReferences, Fork,
                Release, Signal
  <2>3. ASSUME NEW u \in Thread, Library(u)
        PROVE  /\ main'[t] = main[t] /\ handler'[t] = handler[t]
               /\ sig'[t] = sig[t] /\ g_waiting_to_fork'[t] = g_waiting_to_fork[t]
    BY <2>3 DEF Library, SignalHandler, ReadCounter, Acknowledge, Resume, LeaveMalloc,
                CheckWaiting, DropListLock, Start, Remove, Terminate, Step
  <2>4. ASSUME NEW u \in Thread, User(u)
        PROVE  /\ main'[t] = main[t] /\ handler'[t] = handler[t]
               /\ sig'[t] = sig[t] /\ g_waiting_to_fork'[t] = g_waiting_to_fork[t]
    BY <2>4 DEF User, EnterMalloc, TakeListLock, Deactivate, Create, Step
  <2> QED
    BY <2>2, <2>3, <2>4 DEF Next
<1> QED
  BY <1>1, Inductive, PTL DEF Spec
=============================================================================
