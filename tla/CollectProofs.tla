---------------------------- MODULE CollectProofs ----------------------------
(***************************************************************************)
(* Collect is right for any number of threads, any queue capacity and any  *)
(* throttle: one reclaimer at a time, room in a queue whenever forkscan_   *)
(* retire returns, no more buffers waiting than the throttle allows, and   *)
(* no wake-up lost between the clients and the collector thread.           *)
(***************************************************************************)
EXTENDS Collect, TLAPS

(***************************************************************************)
(* The inductive invariant, in named parts.                                *)
(***************************************************************************)

\* Outside become_reclaimer.
Idle == {"user", "try", "cas", "yield"}

\* From its critical section in forkscan_initiate_collection until it leaves
\* the throttling loop.
Throttled == {"throttle", "lock", "locked", "asleep"}

\* The cleanup lock: a thread in become_reclaimer has it, and a load of the
\* timestamp that is still current found it free.
LockInv ==
  /\ \A t \in Thread : pc[t] \notin Idle => cleanup = t
  /\ cleanup # NULL => current = {}

\* A queue is full only while its thread is in forkscan_retire: a thread that
\* forces an iteration came from its program, with room in its queue.
RoomInv ==
  \A t \in Thread :
    /\ pc[t] = "user" => ~Full(t) /\ ~forcing[t]
    /\ forcing[t] => ~Full(t)

\* While the automatic mode was never left, each buffer handed in is a
\* collection asked for, and when the throttle is reached the reclaimer that
\* reached it is still held back.
ThrottleInv ==
  always_auto =>
    /\ auto_run
    /\ \A t \in Thread : pc[t] \in Throttled \cup {"handoff", "release"} => call[t].auto
    /\ Len(g_addr_buffer) <= g_waiting_collects
    /\ Len(g_addr_buffer) <= Throttle
    /\ Len(g_addr_buffer) = Throttle => \E t \in Thread : pc[t] \in Throttled

\* g_client_waiting_lock is held between the lock and the wait, by one thread;
\* only sleeping threads have been woken.
ClientInv ==
  /\ \A t \in Thread : pc[t] = "locked" <=> client_lock = t
  /\ \A t \in woken : pc[t] = "asleep"

\* The collector thread does not sleep through a request: if one was made it
\* has been signalled (forkscan_initiate_collection, forkscan_thread).
CollectorAwake == gc = "waiting" /\ g_waiting_collects > 0 => gc_signalled

\* No client sleeps through the broadcast: a throttled thread is asleep only
\* while the throttle is still reached, while the collector thread is about to
\* broadcast, or once it has been woken.  The client takes and releases the
\* lock g_gc_mutex before it tests g_waiting_collects without it.
ClientsAwake ==
  \A t \in Thread :
    pc[t] = "asleep" => t \in woken \/ g_waiting_collects >= Throttle \/ gc = "broadcast"

\* Neither side misses a wake-up.
NoLostWakeup == CollectorAwake /\ ClientsAwake

IndInv == TypeOK /\ LockInv /\ RoomInv /\ ThrottleInv /\ ClientInv /\ NoLostWakeup

\* The empty sequence is a sequence of anything.
LEMMA EmptySeqType ==
  ASSUME NEW S
  PROVE  <<>> \in Seq(S)
OBVIOUS

\* The buffers handed in, all of them or none, are still buffers.
LEMMA TakenType ==
  ASSUME NEW s \in Seq(BOOLEAN), NEW r \in {s, <<>>}
  PROVE  r \in Seq(BOOLEAN)
BY EmptySeqType, Zenon

\* Every step keeps the types; Retire needs RoomInv, or the count could pass the capacity.
LEMMA TypeStep ==
  ASSUME IndInv, [Next]_vars
  PROVE  TypeOK'
<1> USE CollectAssumption DEF IndInv, NoLostWakeup
<1> USE DEF TypeOK, RoomInv, Full, NoCall,
           threadVars, reclaimVars, gcVars, clientVars, configVars
<1>1. ASSUME NEW t \in Thread, Retire(t)
      PROVE  TypeOK'
  BY <1>1 DEF Retire, Goto
<1>2. ASSUME NEW t \in Thread, ForceReclaim(t)
      PROVE  TypeOK'
  BY <1>2 DEF ForceReclaim, Goto
<1>3. ASSUME NEW t \in Thread, LoadTimestamp(t)
      PROVE  TypeOK'
  <2>1. CASE cleanup = NULL
    BY <1>3, <2>1 DEF LoadTimestamp, Goto
  <2>2. CASE cleanup # NULL
    BY <1>3, <2>2 DEF LoadTimestamp, Goto
  <2> QED
    BY <2>1, <2>2
<1>4. ASSUME NEW t \in Thread, CasTimestamp(t)
      PROVE  TypeOK'
  BY <1>4 DEF CasTimestamp, Goto
<1>5. ASSUME NEW t \in Thread, LoopAgain(t)
      PROVE  TypeOK'
  BY <1>5 DEF LoopAgain, Goto
<1>6. ASSUME NEW t \in Thread, TakeForce(t)
      PROVE  TypeOK'
  BY <1>6 DEF TakeForce, Goto
<1>7. ASSUME NEW t \in Thread, NEW u \in Thread, Gather(t, u)
      PROVE  TypeOK'
  BY <1>7 DEF Gather
<1>8. ASSUME NEW t \in Thread, EndGather(t)
      PROVE  TypeOK'
  <2>1. call' \in [Thread -> [ab : BOOLEAN, auto : BOOLEAN, force : BOOLEAN]]
    BY <1>8 DEF EndGather
  <2> QED
    BY <1>8, <2>1 DEF EndGather, Goto
<1>9. ASSUME NEW t \in Thread, InitiateCollection(t)
      PROVE  TypeOK'
  BY <1>9 DEF InitiateCollection, Goto
<1>10. ASSUME NEW t \in Thread, TestThrottle(t)
      PROVE  TypeOK'
  BY <1>10 DEF TestThrottle, Goto
<1>11. ASSUME NEW t \in Thread, LockClient(t)
      PROVE  TypeOK'
  BY <1>11 DEF LockClient, Goto
<1>12. ASSUME NEW t \in Thread, RetestThrottle(t)
      PROVE  TypeOK'
  BY <1>12 DEF RetestThrottle, Goto
<1>13. ASSUME NEW t \in Thread, NEW b \in BOOLEAN, WakeClient(t, b)
      PROVE  TypeOK'
  BY <1>13 DEF WakeClient, Goto
<1>14. ASSUME NEW t \in Thread, ReleaseCleanup(t)
      PROVE  TypeOK'
  BY <1>14 DEF ReleaseCleanup, Goto
<1>15. ASSUME SetAutoRun
      PROVE  TypeOK'
  BY <1>15 DEF SetAutoRun
<1>16. ASSUME CheckWork
      PROVE  TypeOK'
  <2>1. has_addrs' \in BOOLEAN
    BY <1>16, Zenon DEF CheckWork, Take
  <2>2. /\ gc' \in {"waiting", "crashed", "broadcast", "collect"}
        /\ g_addr_buffer' \in Seq(BOOLEAN)
        /\ g_waiting_collects' \in Nat
    <3>1. g_addr_buffer' \in {g_addr_buffer, <<>>} /\ g_waiting_collects' \in {g_waiting_collects, 0}
      BY <1>16 DEF CheckWork, Take
    <3>2. gc' \in {"waiting", "crashed", "broadcast", "collect"}
      BY <1>16 DEF CheckWork, Take
    <3>3. g_addr_buffer' \in Seq(BOOLEAN)
      <4>1. g_addr_buffer \in Seq(BOOLEAN)
        OBVIOUS
      <4> HIDE DEF TypeOK, IndInv
      <4> QED
        BY <4>1, <3>1, TakenType, Zenon
    <3> QED
      BY <3>1, <3>2, <3>3
  <2> QED
    BY <1>16, <2>1, <2>2 DEF CheckWork
<1>17. ASSUME NEW b \in BOOLEAN, WakeCollector(b)
      PROVE  TypeOK'
  <2>1. has_addrs' \in BOOLEAN
    BY <1>17, Zenon DEF WakeCollector, Take
  <2>2. /\ gc' \in {"waiting", "crashed", "broadcast", "collect"}
        /\ g_addr_buffer' \in Seq(BOOLEAN)
        /\ g_waiting_collects' \in Nat
    <3>1. g_addr_buffer' \in {g_addr_buffer, <<>>} /\ g_waiting_collects' \in {g_waiting_collects, 0}
      BY <1>17 DEF WakeCollector, Take
    <3>2. gc' \in {"waiting", "crashed", "broadcast", "collect"}
      BY <1>17 DEF WakeCollector, Take
    <3>3. g_addr_buffer' \in Seq(BOOLEAN)
      <4>1. g_addr_buffer \in Seq(BOOLEAN)
        OBVIOUS
      <4> HIDE DEF TypeOK, IndInv
      <4> QED
        BY <4>1, <3>1, TakenType, Zenon
    <3> QED
      BY <3>1, <3>2, <3>3
  <2> QED
    BY <1>17, <2>1, <2>2 DEF WakeCollector
<1>18. ASSUME Broadcast
      PROVE  TypeOK'
  BY <1>18 DEF Broadcast
<1>19. ASSUME ReclaimIteration
      PROVE  TypeOK'
  BY <1>19 DEF ReclaimIteration
<1>20. CASE UNCHANGED vars
  BY <1>20 DEF vars
<1> QED
  BY <1>1, <1>2, <1>3, <1>4, <1>5, <1>6, <1>7, <1>8, <1>9, <1>10, <1>11, <1>12,
     <1>13, <1>14, <1>15, <1>16, <1>17, <1>18, <1>19, <1>20
     DEF Next, Library, CollectorThread

\* The compare-and-swap is the only way into become_reclaimer, and it succeeds
\* only on a timestamp that was inactive when loaded and has not changed.
LEMMA LockStep ==
  ASSUME IndInv, [Next]_vars
  PROVE  LockInv'
<1> USE CollectAssumption DEF IndInv, NoLostWakeup
<1> USE DEF LockInv, TypeOK, Idle,
           threadVars, reclaimVars, gcVars, clientVars, configVars
<1>1. ASSUME NEW t \in Thread, Retire(t)
      PROVE  LockInv'
  BY <1>1 DEF Retire, Goto
<1>2. ASSUME NEW t \in Thread, ForceReclaim(t)
      PROVE  LockInv'
  BY <1>2 DEF ForceReclaim, Goto
<1>3. ASSUME NEW t \in Thread, LoadTimestamp(t)
      PROVE  LockInv'
  BY <1>3 DEF LoadTimestamp, Goto
<1>4. ASSUME NEW t \in Thread, CasTimestamp(t)
      PROVE  LockInv'
  BY <1>4 DEF CasTimestamp, Goto
<1>5. ASSUME NEW t \in Thread, LoopAgain(t)
      PROVE  LockInv'
  BY <1>5 DEF LoopAgain, Goto
<1>6. ASSUME NEW t \in Thread, TakeForce(t)
      PROVE  LockInv'
  BY <1>6 DEF TakeForce, Goto
<1>7. ASSUME NEW t \in Thread, NEW u \in Thread, Gather(t, u)
      PROVE  LockInv'
  BY <1>7 DEF Gather
<1>8. ASSUME NEW t \in Thread, EndGather(t)
      PROVE  LockInv'
  BY <1>8 DEF EndGather, Goto
<1>9. ASSUME NEW t \in Thread, InitiateCollection(t)
      PROVE  LockInv'
  BY <1>9 DEF InitiateCollection, Goto
<1>10. ASSUME NEW t \in Thread, TestThrottle(t)
      PROVE  LockInv'
  BY <1>10 DEF TestThrottle, Goto
<1>11. ASSUME NEW t \in Thread, LockClient(t)
      PROVE  LockInv'
  BY <1>11 DEF LockClient, Goto
<1>12. ASSUME NEW t \in Thread, RetestThrottle(t)
      PROVE  LockInv'
  BY <1>12 DEF RetestThrottle, Goto
<1>13. ASSUME NEW t \in Thread, NEW b \in BOOLEAN, WakeClient(t, b)
      PROVE  LockInv'
  BY <1>13 DEF WakeClient, Goto
<1>14. ASSUME NEW t \in Thread, ReleaseCleanup(t)
      PROVE  LockInv'
  BY <1>14 DEF ReleaseCleanup, Goto
<1>15. ASSUME SetAutoRun
      PROVE  LockInv'
  BY <1>15 DEF SetAutoRun
<1>16. ASSUME CheckWork
      PROVE  LockInv'
  BY <1>16 DEF CheckWork, Take
<1>17. ASSUME NEW b \in BOOLEAN, WakeCollector(b)
      PROVE  LockInv'
  BY <1>17 DEF WakeCollector, Take
<1>18. ASSUME Broadcast
      PROVE  LockInv'
  BY <1>18 DEF Broadcast
<1>19. ASSUME ReclaimIteration
      PROVE  LockInv'
  BY <1>19 DEF ReclaimIteration
<1>20. CASE UNCHANGED vars
  BY <1>20 DEF vars
<1> QED
  BY <1>1, <1>2, <1>3, <1>4, <1>5, <1>6, <1>7, <1>8, <1>9, <1>10, <1>11, <1>12,
     <1>13, <1>14, <1>15, <1>16, <1>17, <1>18, <1>19, <1>20
     DEF Next, Library, CollectorThread

\* Only its own thread fills a queue, and only when it is in its program.
LEMMA RoomStep ==
  ASSUME IndInv, [Next]_vars
  PROVE  RoomInv'
<1> USE CollectAssumption DEF IndInv, NoLostWakeup
<1> USE DEF RoomInv, TypeOK, LockInv, Idle, Full,
           threadVars, reclaimVars, gcVars, clientVars, configVars
<1>1. ASSUME NEW t \in Thread, Retire(t)
      PROVE  RoomInv'
  BY <1>1 DEF Retire, Goto
<1>2. ASSUME NEW t \in Thread, ForceReclaim(t)
      PROVE  RoomInv'
  BY <1>2 DEF ForceReclaim, Goto
<1>3. ASSUME NEW t \in Thread, LoadTimestamp(t)
      PROVE  RoomInv'
  BY <1>3 DEF LoadTimestamp, Goto
<1>4. ASSUME NEW t \in Thread, CasTimestamp(t)
      PROVE  RoomInv'
  BY <1>4 DEF CasTimestamp, Goto
<1>5. ASSUME NEW t \in Thread, LoopAgain(t)
      PROVE  RoomInv'
  BY <1>5 DEF LoopAgain, Goto
<1>6. ASSUME NEW t \in Thread, TakeForce(t)
      PROVE  RoomInv'
  BY <1>6 DEF TakeForce, Goto
<1>7. ASSUME NEW t \in Thread, NEW u \in Thread, Gather(t, u)
      PROVE  RoomInv'
  BY <1>7 DEF Gather
<1>8. ASSUME NEW t \in Thread, EndGather(t)
      PROVE  RoomInv'
  BY <1>8 DEF EndGather, Goto
<1>9. ASSUME NEW t \in Thread, InitiateCollection(t)
      PROVE  RoomInv'
  BY <1>9 DEF InitiateCollection, Goto
<1>10. ASSUME NEW t \in Thread, TestThrottle(t)
      PROVE  RoomInv'
  BY <1>10 DEF TestThrottle, Goto
<1>11. ASSUME NEW t \in Thread, LockClient(t)
      PROVE  RoomInv'
  BY <1>11 DEF LockClient, Goto
<1>12. ASSUME NEW t \in Thread, RetestThrottle(t)
      PROVE  RoomInv'
  BY <1>12 DEF RetestThrottle, Goto
<1>13. ASSUME NEW t \in Thread, NEW b \in BOOLEAN, WakeClient(t, b)
      PROVE  RoomInv'
  BY <1>13 DEF WakeClient, Goto
<1>14. ASSUME NEW t \in Thread, ReleaseCleanup(t)
      PROVE  RoomInv'
  BY <1>14 DEF ReleaseCleanup, Goto
<1>15. ASSUME SetAutoRun
      PROVE  RoomInv'
  BY <1>15 DEF SetAutoRun
<1>16. ASSUME CheckWork
      PROVE  RoomInv'
  BY <1>16 DEF CheckWork, Take
<1>17. ASSUME NEW b \in BOOLEAN, WakeCollector(b)
      PROVE  RoomInv'
  BY <1>17 DEF WakeCollector, Take
<1>18. ASSUME Broadcast
      PROVE  RoomInv'
  BY <1>18 DEF Broadcast
<1>19. ASSUME ReclaimIteration
      PROVE  RoomInv'
  BY <1>19 DEF ReclaimIteration
<1>20. CASE UNCHANGED vars
  BY <1>20 DEF vars
<1> QED
  BY <1>1, <1>2, <1>3, <1>4, <1>5, <1>6, <1>7, <1>8, <1>9, <1>10, <1>11, <1>12,
     <1>13, <1>14, <1>15, <1>16, <1>17, <1>18, <1>19, <1>20
     DEF Next, Library, CollectorThread

\* The reclaimer that reaches the throttle keeps the cleanup lock until the
\* collector thread has taken the buffers: nobody else can hand in another.
LEMMA ThrottleStep ==
  ASSUME IndInv, [Next]_vars
  PROVE  ThrottleInv'
<1> USE CollectAssumption DEF IndInv, NoLostWakeup
<1> USE DEF ThrottleInv, TypeOK, LockInv, Idle, Throttled,
           threadVars, reclaimVars, gcVars, clientVars, configVars
<1>1. ASSUME NEW t \in Thread, Retire(t)
      PROVE  ThrottleInv'
  BY <1>1 DEF Retire, Goto
<1>2. ASSUME NEW t \in Thread, ForceReclaim(t)
      PROVE  ThrottleInv'
  BY <1>2 DEF ForceReclaim, Goto
<1>3. ASSUME NEW t \in Thread, LoadTimestamp(t)
      PROVE  ThrottleInv'
  BY <1>3 DEF LoadTimestamp, Goto
<1>4. ASSUME NEW t \in Thread, CasTimestamp(t)
      PROVE  ThrottleInv'
  BY <1>4 DEF CasTimestamp, Goto
<1>5. ASSUME NEW t \in Thread, LoopAgain(t)
      PROVE  ThrottleInv'
  BY <1>5 DEF LoopAgain, Goto
<1>6. ASSUME NEW t \in Thread, TakeForce(t)
      PROVE  ThrottleInv'
  BY <1>6 DEF TakeForce, Goto
<1>7. ASSUME NEW t \in Thread, NEW u \in Thread, Gather(t, u)
      PROVE  ThrottleInv'
  BY <1>7 DEF Gather
<1>8. ASSUME NEW t \in Thread, EndGather(t)
      PROVE  ThrottleInv'
  BY <1>8 DEF EndGather, Goto
<1>9. ASSUME NEW t \in Thread, InitiateCollection(t)
      PROVE  ThrottleInv'
  <2> SUFFICES ASSUME always_auto
               PROVE  ThrottleInv'
    BY <1>9 DEF InitiateCollection, configVars
  <2>1. call[t].auto /\ pc[t] = "handoff" /\ cleanup = t
    BY <1>9 DEF InitiateCollection
  <2>2. \A u \in Thread : pc[u] \notin Throttled
    BY <2>1
  <2>3. Len(g_addr_buffer) \in Nat /\ Len(g_addr_buffer) < Throttle
    BY <2>2
  <2>4. g_addr_buffer' = <<call[t].ab>> \o g_addr_buffer
    BY <1>9 DEF InitiateCollection
  <2>5. Len(g_addr_buffer') = Len(g_addr_buffer) + 1
    BY <2>4
  <2>6. g_waiting_collects' = g_waiting_collects + 1
    BY <1>9, <2>1 DEF InitiateCollection
  <2>7. pc' = [pc EXCEPT ![t] = "throttle"] /\ UNCHANGED <<call, auto_run>>
    BY <1>9, <2>1 DEF InitiateCollection, Goto
  <2> QED
    BY <2>1, <2>3, <2>5, <2>6, <2>7
<1>10. ASSUME NEW t \in Thread, TestThrottle(t)
      PROVE  ThrottleInv'
  BY <1>10 DEF TestThrottle, Goto
<1>11. ASSUME NEW t \in Thread, LockClient(t)
      PROVE  ThrottleInv'
  BY <1>11 DEF LockClient, Goto
<1>12. ASSUME NEW t \in Thread, RetestThrottle(t)
      PROVE  ThrottleInv'
  BY <1>12 DEF RetestThrottle, Goto
<1>13. ASSUME NEW t \in Thread, NEW b \in BOOLEAN, WakeClient(t, b)
      PROVE  ThrottleInv'
  BY <1>13 DEF WakeClient, Goto
<1>14. ASSUME NEW t \in Thread, ReleaseCleanup(t)
      PROVE  ThrottleInv'
  BY <1>14 DEF ReleaseCleanup, Goto
<1>15. ASSUME SetAutoRun
      PROVE  ThrottleInv'
  BY <1>15 DEF SetAutoRun
<1>16. ASSUME CheckWork
      PROVE  ThrottleInv'
  BY <1>16 DEF CheckWork, Take
<1>17. ASSUME NEW b \in BOOLEAN, WakeCollector(b)
      PROVE  ThrottleInv'
  BY <1>17 DEF WakeCollector, Take
<1>18. ASSUME Broadcast
      PROVE  ThrottleInv'
  BY <1>18 DEF Broadcast
<1>19. ASSUME ReclaimIteration
      PROVE  ThrottleInv'
  BY <1>19 DEF ReclaimIteration
<1>20. CASE UNCHANGED vars
  BY <1>20 DEF vars
<1> QED
  BY <1>1, <1>2, <1>3, <1>4, <1>5, <1>6, <1>7, <1>8, <1>9, <1>10, <1>11, <1>12,
     <1>13, <1>14, <1>15, <1>16, <1>17, <1>18, <1>19, <1>20
     DEF Next, Library, CollectorThread

\* The client lock is taken for the second test and let go of in the wait.
LEMMA ClientStep ==
  ASSUME IndInv, [Next]_vars
  PROVE  ClientInv'
<1> USE CollectAssumption DEF IndInv, NoLostWakeup
<1> USE DEF ClientInv, TypeOK,
           threadVars, reclaimVars, gcVars, clientVars, configVars
<1>1. ASSUME NEW t \in Thread, Retire(t)
      PROVE  ClientInv'
  BY <1>1 DEF Retire, Goto
<1>2. ASSUME NEW t \in Thread, ForceReclaim(t)
      PROVE  ClientInv'
  BY <1>2 DEF ForceReclaim, Goto
<1>3. ASSUME NEW t \in Thread, LoadTimestamp(t)
      PROVE  ClientInv'
  BY <1>3 DEF LoadTimestamp, Goto
<1>4. ASSUME NEW t \in Thread, CasTimestamp(t)
      PROVE  ClientInv'
  BY <1>4 DEF CasTimestamp, Goto
<1>5. ASSUME NEW t \in Thread, LoopAgain(t)
      PROVE  ClientInv'
  BY <1>5 DEF LoopAgain, Goto
<1>6. ASSUME NEW t \in Thread, TakeForce(t)
      PROVE  ClientInv'
  BY <1>6 DEF TakeForce, Goto
<1>7. ASSUME NEW t \in Thread, NEW u \in Thread, Gather(t, u)
      PROVE  ClientInv'
  BY <1>7 DEF Gather
<1>8. ASSUME NEW t \in Thread, EndGather(t)
      PROVE  ClientInv'
  BY <1>8 DEF EndGather, Goto
<1>9. ASSUME NEW t \in Thread, InitiateCollection(t)
      PROVE  ClientInv'
  BY <1>9 DEF InitiateCollection, Goto
<1>10. ASSUME NEW t \in Thread, TestThrottle(t)
      PROVE  ClientInv'
  BY <1>10 DEF TestThrottle, Goto
<1>11. ASSUME NEW t \in Thread, LockClient(t)
      PROVE  ClientInv'
  BY <1>11 DEF LockClient, Goto
<1>12. ASSUME NEW t \in Thread, RetestThrottle(t)
      PROVE  ClientInv'
  BY <1>12 DEF RetestThrottle, Goto
<1>13. ASSUME NEW t \in Thread, NEW b \in BOOLEAN, WakeClient(t, b)
      PROVE  ClientInv'
  BY <1>13 DEF WakeClient, Goto
<1>14. ASSUME NEW t \in Thread, ReleaseCleanup(t)
      PROVE  ClientInv'
  BY <1>14 DEF ReleaseCleanup, Goto
<1>15. ASSUME SetAutoRun
      PROVE  ClientInv'
  BY <1>15 DEF SetAutoRun
<1>16. ASSUME CheckWork
      PROVE  ClientInv'
  BY <1>16 DEF CheckWork, Take
<1>17. ASSUME NEW b \in BOOLEAN, WakeCollector(b)
      PROVE  ClientInv'
  BY <1>17 DEF WakeCollector, Take
<1>18. ASSUME Broadcast
      PROVE  ClientInv'
  BY <1>18 DEF Broadcast
<1>19. ASSUME ReclaimIteration
      PROVE  ClientInv'
  BY <1>19 DEF ReclaimIteration
<1>20. CASE UNCHANGED vars
  BY <1>20 DEF vars
<1> QED
  BY <1>1, <1>2, <1>3, <1>4, <1>5, <1>6, <1>7, <1>8, <1>9, <1>10, <1>11, <1>12,
     <1>13, <1>14, <1>15, <1>16, <1>17, <1>18, <1>19, <1>20
     DEF Next, Library, CollectorThread

\* The collector thread goes to sleep only when nothing is asked for, under
\* g_gc_mutex, and each request signals it.
LEMMA CollectorStep ==
  ASSUME IndInv, [Next]_vars
  PROVE  CollectorAwake'
<1> USE CollectAssumption DEF IndInv, NoLostWakeup
<1> USE DEF CollectorAwake, TypeOK,
           threadVars, reclaimVars, gcVars, clientVars, configVars
<1>1. ASSUME NEW t \in Thread, Retire(t)
      PROVE  CollectorAwake'
  BY <1>1 DEF Retire, Goto
<1>2. ASSUME NEW t \in Thread, ForceReclaim(t)
      PROVE  CollectorAwake'
  BY <1>2 DEF ForceReclaim, Goto
<1>3. ASSUME NEW t \in Thread, LoadTimestamp(t)
      PROVE  CollectorAwake'
  BY <1>3 DEF LoadTimestamp, Goto
<1>4. ASSUME NEW t \in Thread, CasTimestamp(t)
      PROVE  CollectorAwake'
  BY <1>4 DEF CasTimestamp, Goto
<1>5. ASSUME NEW t \in Thread, LoopAgain(t)
      PROVE  CollectorAwake'
  BY <1>5 DEF LoopAgain, Goto
<1>6. ASSUME NEW t \in Thread, TakeForce(t)
      PROVE  CollectorAwake'
  BY <1>6 DEF TakeForce, Goto
<1>7. ASSUME NEW t \in Thread, NEW u \in Thread, Gather(t, u)
      PROVE  CollectorAwake'
  BY <1>7 DEF Gather
<1>8. ASSUME NEW t \in Thread, EndGather(t)
      PROVE  CollectorAwake'
  BY <1>8 DEF EndGather, Goto
<1>9. ASSUME NEW t \in Thread, InitiateCollection(t)
      PROVE  CollectorAwake'
  BY <1>9 DEF InitiateCollection, Goto
<1>10. ASSUME NEW t \in Thread, TestThrottle(t)
      PROVE  CollectorAwake'
  BY <1>10 DEF TestThrottle, Goto
<1>11. ASSUME NEW t \in Thread, LockClient(t)
      PROVE  CollectorAwake'
  BY <1>11 DEF LockClient, Goto
<1>12. ASSUME NEW t \in Thread, RetestThrottle(t)
      PROVE  CollectorAwake'
  BY <1>12 DEF RetestThrottle, Goto
<1>13. ASSUME NEW t \in Thread, NEW b \in BOOLEAN, WakeClient(t, b)
      PROVE  CollectorAwake'
  BY <1>13 DEF WakeClient, Goto
<1>14. ASSUME NEW t \in Thread, ReleaseCleanup(t)
      PROVE  CollectorAwake'
  BY <1>14 DEF ReleaseCleanup, Goto
<1>15. ASSUME SetAutoRun
      PROVE  CollectorAwake'
  BY <1>15 DEF SetAutoRun
<1>16. ASSUME CheckWork
      PROVE  CollectorAwake'
  BY <1>16 DEF CheckWork, Take
<1>17. ASSUME NEW b \in BOOLEAN, WakeCollector(b)
      PROVE  CollectorAwake'
  BY <1>17 DEF WakeCollector, Take
<1>18. ASSUME Broadcast
      PROVE  CollectorAwake'
  BY <1>18 DEF Broadcast
<1>19. ASSUME ReclaimIteration
      PROVE  CollectorAwake'
  BY <1>19 DEF ReclaimIteration
<1>20. CASE UNCHANGED vars
  BY <1>20 DEF vars
<1> QED
  BY <1>1, <1>2, <1>3, <1>4, <1>5, <1>6, <1>7, <1>8, <1>9, <1>10, <1>11, <1>12,
     <1>13, <1>14, <1>15, <1>16, <1>17, <1>18, <1>19, <1>20
     DEF Next, Library, CollectorThread

\* A client goes to sleep only with the throttle reached, and when the collector
\* thread takes the buffers the broadcast is still to come.
LEMMA ClientsStep ==
  ASSUME IndInv, [Next]_vars
  PROVE  ClientsAwake'
<1> USE CollectAssumption DEF IndInv, NoLostWakeup
<1> USE DEF ClientsAwake, TypeOK, ClientInv,
           threadVars, reclaimVars, gcVars, clientVars, configVars
<1>1. ASSUME NEW t \in Thread, Retire(t)
      PROVE  ClientsAwake'
  BY <1>1 DEF Retire, Goto
<1>2. ASSUME NEW t \in Thread, ForceReclaim(t)
      PROVE  ClientsAwake'
  BY <1>2 DEF ForceReclaim, Goto
<1>3. ASSUME NEW t \in Thread, LoadTimestamp(t)
      PROVE  ClientsAwake'
  BY <1>3 DEF LoadTimestamp, Goto
<1>4. ASSUME NEW t \in Thread, CasTimestamp(t)
      PROVE  ClientsAwake'
  BY <1>4 DEF CasTimestamp, Goto
<1>5. ASSUME NEW t \in Thread, LoopAgain(t)
      PROVE  ClientsAwake'
  BY <1>5 DEF LoopAgain, Goto
<1>6. ASSUME NEW t \in Thread, TakeForce(t)
      PROVE  ClientsAwake'
  BY <1>6 DEF TakeForce, Goto
<1>7. ASSUME NEW t \in Thread, NEW u \in Thread, Gather(t, u)
      PROVE  ClientsAwake'
  BY <1>7 DEF Gather
<1>8. ASSUME NEW t \in Thread, EndGather(t)
      PROVE  ClientsAwake'
  BY <1>8 DEF EndGather, Goto
<1>9. ASSUME NEW t \in Thread, InitiateCollection(t)
      PROVE  ClientsAwake'
  BY <1>9 DEF InitiateCollection, Goto
<1>10. ASSUME NEW t \in Thread, TestThrottle(t)
      PROVE  ClientsAwake'
  BY <1>10 DEF TestThrottle, Goto
<1>11. ASSUME NEW t \in Thread, LockClient(t)
      PROVE  ClientsAwake'
  BY <1>11 DEF LockClient, Goto
<1>12. ASSUME NEW t \in Thread, RetestThrottle(t)
      PROVE  ClientsAwake'
  BY <1>12 DEF RetestThrottle, Goto
<1>13. ASSUME NEW t \in Thread, NEW b \in BOOLEAN, WakeClient(t, b)
      PROVE  ClientsAwake'
  BY <1>13 DEF WakeClient, Goto
<1>14. ASSUME NEW t \in Thread, ReleaseCleanup(t)
      PROVE  ClientsAwake'
  BY <1>14 DEF ReleaseCleanup, Goto
<1>15. ASSUME SetAutoRun
      PROVE  ClientsAwake'
  BY <1>15 DEF SetAutoRun
<1>16. ASSUME CheckWork
      PROVE  ClientsAwake'
  BY <1>16 DEF CheckWork, Take
<1>17. ASSUME NEW b \in BOOLEAN, WakeCollector(b)
      PROVE  ClientsAwake'
  BY <1>17 DEF WakeCollector, Take
<1>18. ASSUME Broadcast
      PROVE  ClientsAwake'
  BY <1>18 DEF Broadcast
<1>19. ASSUME ReclaimIteration
      PROVE  ClientsAwake'
  BY <1>19 DEF ReclaimIteration
<1>20. CASE UNCHANGED vars
  BY <1>20 DEF vars
<1> QED
  BY <1>1, <1>2, <1>3, <1>4, <1>5, <1>6, <1>7, <1>8, <1>9, <1>10, <1>11, <1>12,
     <1>13, <1>14, <1>15, <1>16, <1>17, <1>18, <1>19, <1>20
     DEF Next, Library, CollectorThread

\* The library starts with empty queues and no thread inside it.
LEMMA IndInvInit == Init => IndInv
<1> SUFFICES ASSUME Init PROVE IndInv
  OBVIOUS
<1> USE CollectAssumption DEF Init
<1>1. TypeOK
  <2>1. g_addr_buffer \in Seq(BOOLEAN)
    BY EmptySeqType, Zenon
  <2>2. call \in [Thread -> [ab : BOOLEAN, auto : BOOLEAN, force : BOOLEAN]]
    BY DEF NoCall
  <2>3. forcing \in [Thread -> BOOLEAN] /\ queue \in [Thread -> 0 .. Capacity]
    OBVIOUS
  <2>4. TypeOK!1 /\ cleanup \in Thread \cup {NULL} /\ client_lock \in Thread \cup {NULL}
    OBVIOUS
  <2>5. /\ {g_force_iteration, auto_run, always_auto, gathered} \subseteq BOOLEAN
        /\ {gc_signalled, has_addrs, leftovers} \subseteq BOOLEAN
    BY Zenon
  <2> QED
    BY <2>1, <2>2, <2>3, <2>4, <2>5 DEF TypeOK
<1>2. LockInv /\ RoomInv /\ ClientInv
  BY DEF LockInv, Idle, RoomInv, Full, ClientInv
<1>3. ThrottleInv
  BY DEF ThrottleInv, Throttled
<1>4. NoLostWakeup
  BY DEF NoLostWakeup, CollectorAwake, ClientsAwake
<1> QED
  BY <1>1, <1>2, <1>3, <1>4 DEF IndInv

\* Each part is preserved by each step.
LEMMA IndInvStep == IndInv /\ [Next]_vars => IndInv'
BY TypeStep, LockStep, RoomStep, ThrottleStep, ClientStep, CollectorStep, ClientsStep
   DEF IndInv, NoLostWakeup

\* So the invariant holds throughout.
LEMMA Inductive == Spec => []IndInv
BY IndInvInit, IndInvStep, PTL DEF Spec

\* Every variable keeps its type; in particular no queue ever holds more
\* addresses than fit into it, whatever the threads retire while another one
\* empties the queues.
THEOREM TypeCorrect == Spec => []TypeOK
<1>1. IndInv => TypeOK
  BY DEF IndInv
<1> QED
  BY <1>1, Inductive, PTL

\* forkscan_thread_cleanup_try_acquire admits one reclaimer at a time.
THEOREM OneReclaimerHolds == Spec => []OneReclaimer
<1>1. IndInv => OneReclaimer
  BY CollectAssumption DEF IndInv, LockInv, OneReclaimer, Idle
<1> QED
  BY <1>1, Inductive, PTL

\* forkscan_retire and forkscan_force_reclaim return with room in the queue.
THEOREM RoomToRetireHolds == Spec => []RoomToRetire
<1>1. IndInv => RoomToRetire
  BY DEF IndInv, RoomInv, RoomToRetire
<1> QED
  BY <1>1, Inductive, PTL

\* In automatic mode forkscan_initiate_collection bounds the buffers that wait.
THEOREM ThrottleBoundHolds == Spec => []ThrottleBound
<1>1. IndInv => ThrottleBound
  BY DEF IndInv, ThrottleInv, ThrottleBound
<1> QED
  BY <1>1, Inductive, PTL

\* Neither the collector thread nor a throttled client sleeps through the event
\* it waits for, although forkscan_initiate_collection tests g_waiting_collects
\* without a lock and sleeps under another one than the counter's.
THEOREM NoLostWakeupHolds == Spec => []NoLostWakeup
<1>1. IndInv => NoLostWakeup
  BY DEF IndInv
<1> QED
  BY <1>1, Inductive, PTL
=============================================================================
