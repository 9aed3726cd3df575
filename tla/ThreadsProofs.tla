--------------------------- MODULE ThreadsProofs ----------------------------
(***************************************************************************)
(* The properties of Threads, for any number of threads, blocks and        *)
(* stacks.  The thread list, the list of staged blocks and the child's way *)
(* through them are paths along the same next fields; the proofs speak of  *)
(* the blocks that can be reached along them, and of all of next having no *)
(* cycle.  That the walk of Chain comes to an end and meets just these     *)
(* blocks is the lemma ChainIsReach.                                       *)
(***************************************************************************)
EXTENDS Threads, FiniteSetTheorems, NaturalsInduction, TLAPS

(***************************************************************************)
(* The inductive invariant.                                                *)
(***************************************************************************)

Links == [Td -> Td \cup {NULL}]

\* Following nxt does not lead out of C.
Closed(nxt, C) == \A x \in C : nxt[x] \in C \cup {NULL}

\* The blocks from d on along nxt: they are in every closed set d is in.
Reach(nxt, d) ==
  {x \in Td : \A C \in SUBSET Td : Closed(nxt, C) /\ d \in C \cup {NULL} => x \in C}

\* There is no cycle along nxt: in every set of blocks some block leads out.
Acyclic(nxt) ==
  \A X \in SUBSET Td : X # {} => \E m \in X : nxt[m] \notin X

\* t has thread data; t has a stack that has not been given back.
HasData == {t \in Thread : pc[t] \notin {"none", "counted"}}
HasStack == {t \in Thread : pc[t] \notin {"none", "counted", "free_data"}}

\* The threads whose block is staged.
Staged == {t \in Thread : pc[t] \in {"staged", "uncounted", "over"}}

\* The threads that g_thread_count counts.
Counted ==
  {t \in Thread : pc[t] \in {"counted", "allocated", "listed", "created", "active",
                             "inactive", "removed", "staged"}}

\* A block is in the pool once, or has one owner.
DataInv ==
  /\ IsInjective(td_pool)
  /\ MainTd \notin ToSet(td_pool)
  /\ \A t \in Thread : t \in HasData <=> td_of[t] # NULL
  /\ \A t \in HasData : td_of[t] \notin ToSet(td_pool) /\ td_of[t] # MainTd
  /\ \A t, u \in HasData : td_of[t] = td_of[u] => t = u

\* So is a stack.
StackInv ==
  /\ IsInjective(stack_pool)
  /\ \A t \in HasStack : stack[td_of[t]] \notin ToSet(stack_pool)
  /\ \A t, u \in HasStack :
       stack[td_of[t]] = stack[td_of[u]] /\ stack[td_of[t]] \in Stack => t = u

\* What is on the thread list, and that a block on neither list is not on it
\* by accident.
ListInv ==
  /\ MainTd \in Reach(next, head)
  /\ \A t \in Registered : td_of[t] \in Reach(next, head)
  /\ \A t \in Staged : td_of[t] \notin Reach(next, head)
  /\ \A t \in Thread : pc[t] = "removed" => td_of[t] \notin Reach(next, head)
  /\ Running => \A t \in Thread : pc[t] = "allocated" => td_of[t] \notin Reach(next, head)
  /\ failures = 0 => \A d \in Reach(next, head) : d = MainTd \/ \E t \in Registered : td_of[t] = d

\* The staged blocks are those of the threads that have ended and are not
\* joined, each with its thread's name and no reference left.
StagedInv ==
  /\ Reach(next, staged) = {td_of[t] : t \in Staged}
  /\ \A t \in Thread : pc[t] \in {"active", "inactive", "removed"} \/ t \in Staged => self[td_of[t]] = t
  /\ \A t \in HasData : pc[t] \in {"allocated", "listed", "created", "active", "inactive", "removed"} =>
       ref_count[td_of[t]] = 1
  /\ \A t \in Staged : ref_count[td_of[t]] = 0

\* The counts are exact.
CountInv ==
  /\ count = 1 + Cardinality(Registered) + failures
  /\ count = Cardinality(Reach(next, head))
  /\ Running => /\ g_thread_count = 1 + Cardinality(Counted) + failures
                /\ g_thread_count <= MaxThreadCount + 1

\* As long as no thread has left the list ahead of the child, what the child
\* still has before it is part of the list and has the stacks it lacks.
ChildInv ==
  /\ ~walking => cursor = NULL /\ found = {} /\ stacks_at_fork = {} /\ ended = {}
  /\ walking /\ ended = {} =>
       /\ Reach(next, cursor) \subseteq Reach(next, head)
       /\ \A s \in stacks_at_fork \ found : \E t \in Thread :
            /\ pc[t] \in {"active", "inactive"}
            /\ stack[td_of[t]] = s
            /\ td_of[t] \in Reach(next, cursor)

IndInv ==
  /\ TypeOK /\ Acyclic(next) /\ DataInv /\ StackInv /\ ListInv /\ StagedInv /\ CountInv
  /\ ChildInv

(***************************************************************************)
(* Paths along next.                                                       *)
(***************************************************************************)

\* Reach is the least closed set the first block is in.
LEMMA ReachBasic ==
  ASSUME NEW nxt \in Links, NEW d \in Td \cup {NULL}
  PROVE  /\ Reach(nxt, d) \subseteq Td
         /\ d \in Td => d \in Reach(nxt, d)
         /\ Closed(nxt, Reach(nxt, d))
         /\ \A C \in SUBSET Td : Closed(nxt, C) /\ d \in C \cup {NULL} => Reach(nxt, d) \subseteq C
<1> USE ThreadsAssumption DEF Links
<1>1. Reach(nxt, d) \subseteq Td
  BY DEF Reach
<1>2. d \in Td => d \in Reach(nxt, d)
  BY DEF Reach
<1>3. ASSUME NEW x \in Reach(nxt, d), nxt[x] # NULL PROVE nxt[x] \in Reach(nxt, d)
  <2>1. nxt[x] \in Td
    BY <1>1, <1>3
  <2>2. ASSUME NEW C \in SUBSET Td, Closed(nxt, C), d \in C \cup {NULL} PROVE nxt[x] \in C
    BY <1>3, <2>2 DEF Reach, Closed
  <2> QED
    BY <2>1, <2>2 DEF Reach
<1>4. \A C \in SUBSET Td : Closed(nxt, C) /\ d \in C \cup {NULL} => Reach(nxt, d) \subseteq C
  BY DEF Reach
<1> QED
  BY <1>1, <1>2, <1>3, <1>4 DEF Closed

\* Nothing follows the end of a list.
LEMMA ReachNull ==
  ASSUME NEW nxt \in Links
  PROVE  Reach(nxt, NULL) = {}
<1>1. Closed(nxt, {}) /\ {} \in SUBSET Td
  BY DEF Closed
<1> QED
  BY <1>1 DEF Reach

\* A list is its first block and the rest.
LEMMA ReachNext ==
  ASSUME NEW nxt \in Links, NEW d \in Td
  PROVE  Reach(nxt, d) = {d} \cup Reach(nxt, nxt[d])
<1>1. nxt[d] \in Td \cup {NULL}
  BY DEF Links
<1>2. Reach(nxt, nxt[d]) \subseteq Reach(nxt, d)
  BY <1>1, ReachBasic DEF Closed
<1>3. Closed(nxt, {d} \cup Reach(nxt, nxt[d]))
  <2>1. nxt[d] \in Reach(nxt, nxt[d]) \cup {NULL} /\ Closed(nxt, Reach(nxt, nxt[d]))
    BY <1>1, ReachBasic
  <2> QED
    BY <2>1 DEF Closed
<1>4. Reach(nxt, d) \subseteq {d} \cup Reach(nxt, nxt[d])
  <2>1. {d} \cup Reach(nxt, nxt[d]) \in SUBSET Td
    BY <1>1, ReachBasic
  <2> QED
    BY <1>3, <2>1, ReachBasic
<1>5. d \in Reach(nxt, d)
  BY ReachBasic
<1> QED
  BY <1>2, <1>4, <1>5

\* Links that agree along a list make the same list.
LEMMA ReachAgree ==
  ASSUME NEW nxt \in Links, NEW nxt2 \in Links, NEW d \in Td \cup {NULL},
         \A x \in Reach(nxt, d) : nxt2[x] = nxt[x]
  PROVE  Reach(nxt2, d) = Reach(nxt, d)
<1>1. /\ Reach(nxt, d) \in SUBSET Td /\ Closed(nxt, Reach(nxt, d))
      /\ Reach(nxt2, d) \in SUBSET Td /\ Closed(nxt2, Reach(nxt2, d))
      /\ d \in Td => d \in Reach(nxt, d) /\ d \in Reach(nxt2, d)
  BY ReachBasic
<1>2. Closed(nxt2, Reach(nxt, d)) /\ d \in Reach(nxt, d) \cup {NULL}
  BY <1>1 DEF Closed
<1>3. Reach(nxt2, d) \subseteq Reach(nxt, d)
  BY <1>1, <1>2, ReachBasic
<1>4. Closed(nxt, Reach(nxt2, d)) /\ d \in Reach(nxt2, d) \cup {NULL}
  BY <1>1, <1>3 DEF Closed
<1>5. Reach(nxt, d) \subseteq Reach(nxt2, d)
  BY <1>1, <1>4, ReachBasic
<1> QED
  BY <1>3, <1>5

\* From a block on a list one stays on the list.
LEMMA ReachOn ==
  ASSUME NEW nxt \in Links, NEW d \in Td \cup {NULL}, NEW x \in Reach(nxt, d) \cup {NULL}
  PROVE  Reach(nxt, x) \subseteq Reach(nxt, d)
<1>1. Reach(nxt, d) \in SUBSET Td /\ Closed(nxt, Reach(nxt, d)) /\ x \in Td \cup {NULL}
  BY ReachBasic
<1> QED
  BY <1>1, ReachBasic

\* Without a cycle no list comes back to its first block.
LEMMA NoReturn ==
  ASSUME NEW nxt \in Links, Acyclic(nxt), NEW d \in Td
  PROVE  d \notin Reach(nxt, nxt[d])
<1> SUFFICES ASSUME d \in Reach(nxt, nxt[d]) PROVE FALSE
  OBVIOUS
<1> DEFINE C == {x \in Td : d \in Reach(nxt, x)}
<1>1. d \in C
  BY ReachBasic
<1>2. \A x \in C : nxt[x] \in C
  <2> SUFFICES ASSUME NEW x \in Td, d \in Reach(nxt, x)
               PROVE  nxt[x] \in Td /\ d \in Reach(nxt, nxt[x])
    OBVIOUS
  <2>1. d \in Reach(nxt, nxt[x])
    BY ReachNext
  <2>2. nxt[x] # NULL
    BY <2>1, ReachNull
  <2> QED
    BY <2>1, <2>2 DEF Links
<1> QED
  BY <1>1, <1>2 DEF Acyclic

\* Putting a block that is not on the list before the first one makes no cycle.
LEMMA PushReach ==
  ASSUME NEW nxt \in Links, Acyclic(nxt), NEW h \in Td \cup {NULL},
         NEW d \in Td, d \notin Reach(nxt, h),
         NEW nxt2 \in Links, nxt2[d] = h, \A x \in Td : x # d => nxt2[x] = nxt[x]
  PROVE  /\ Acyclic(nxt2)
         /\ Reach(nxt2, d) = Reach(nxt, h) \cup {d}
<1>1. nxt2 \in Links /\ nxt2[d] = h /\ \A x \in Td : x # d => nxt2[x] = nxt[x]
  OBVIOUS
<1>2. Reach(nxt, h) \in SUBSET Td /\ Closed(nxt, Reach(nxt, h)) /\ h \in Reach(nxt, h) \cup {NULL}
  BY ReachBasic
<1>3. Reach(nxt2, h) = Reach(nxt, h)
  BY <1>1, <1>2, ReachAgree
<1>4. Reach(nxt2, d) = Reach(nxt, h) \cup {d}
  <2>1. Reach(nxt2, d) = {d} \cup Reach(nxt2, nxt2[d])
    BY <1>1, ReachNext, Zenon
  <2> QED
    BY <1>1, <1>3, <2>1
<1>5. ASSUME NEW X \in SUBSET Td, X # {} PROVE \E m \in X : nxt2[m] \notin X
  <2>1. CASE d \notin X
    BY <1>1, <1>5, <2>1 DEF Acyclic
  <2>2. CASE d \in X /\ X \cap Reach(nxt, h) = {}
    <3>1. h \notin X
      BY <1>2, <2>2, ThreadsAssumption
    <3> QED
      BY <1>1, <2>2, <3>1
  <2>3. CASE X \cap Reach(nxt, h) # {}
    <3>1. PICK m \in X \cap Reach(nxt, h) : nxt[m] \notin X \cap Reach(nxt, h)
      BY <2>3 DEF Acyclic
    <3>2. nxt[m] \in Reach(nxt, h) \cup {NULL} /\ m # d
      BY <1>2, <3>1 DEF Closed
    <3>3. nxt[m] \notin X /\ nxt2[m] = nxt[m]
      BY <1>1, <3>1, <3>2, ThreadsAssumption
    <3> QED
      BY <3>1, <3>3
  <2> QED
    BY <2>1, <2>2, <2>3
<1>6. Acyclic(nxt2)
  BY <1>5 DEF Acyclic
<1> QED
  BY <1>1, <1>4, <1>6

\* Taking a block out of the middle of a list takes just that block out, and makes no cycle.
LEMMA UnlinkReach ==
  ASSUME NEW nxt \in Links, Acyclic(nxt), NEW h \in Td, NEW d \in Reach(nxt, h), d # h,
         NEW nxt2 \in Links,
         \A x \in Td : nxt2[x] = IF x \in Reach(nxt, h) /\ nxt[x] = d THEN nxt[d] ELSE nxt[x]
  PROVE  /\ Acyclic(nxt2)
         /\ Reach(nxt2, h) = Reach(nxt, h) \ {d}
<1> DEFINE R == Reach(nxt, h)
<1>1. R \in SUBSET Td /\ Closed(nxt, R) /\ h \in R /\ d \in Td
  BY ReachBasic
<1>2. /\ nxt2 \in Links
      /\ \A x \in Td : nxt2[x] = IF x \in R /\ nxt[x] = d THEN nxt[d] ELSE nxt[x]
  OBVIOUS
<1>3. nxt[d] # d
  <2>1. {d} \in SUBSET Td /\ {d} # {}
    BY <1>1
  <2>2. \E m \in {d} : nxt[m] \notin {d}
    BY <2>1 DEF Acyclic
  <2> QED
    BY <2>2
<1> HIDE DEF R
<1>4. Reach(nxt2, h) \subseteq R \ {d}
  <2>1. Closed(nxt2, R \ {d})
    <3> SUFFICES ASSUME NEW x \in R \ {d} PROVE nxt2[x] \in (R \ {d}) \cup {NULL}
      BY DEF Closed
    <3>1. nxt[x] \in R \cup {NULL} /\ nxt[d] \in R \cup {NULL} /\ x \in Td
      BY <1>1 DEF Closed, R
    <3> QED
      BY <1>2, <1>3, <3>1
  <2> QED
    BY <1>1, <1>2, <2>1, ReachBasic
<1>5. R \ {d} \subseteq Reach(nxt2, h)
  <2>1. /\ Reach(nxt2, h) \in SUBSET Td /\ Closed(nxt2, Reach(nxt2, h)) /\ h \in Reach(nxt2, h)
    BY <1>2, ReachBasic
  <2>2. \E x \in Reach(nxt2, h) : nxt[x] = d
    <3> SUFFICES ASSUME \A x \in Reach(nxt2, h) : nxt[x] # d PROVE FALSE
      OBVIOUS
    <3>1. Closed(nxt, Reach(nxt2, h))
      BY <1>2, <2>1 DEF Closed
    <3>2. R \subseteq Reach(nxt2, h)
      BY <2>1, <3>1, ReachBasic DEF R
    <3> QED
      BY <1>4, <3>2 DEF R
  <2>3. nxt[d] \in Reach(nxt2, h) \cup {NULL}
    BY <1>2, <1>4, <2>1, <2>2 DEF Closed
  <2>4. Closed(nxt, Reach(nxt2, h) \cup {d})
    BY <1>2, <1>4, <2>1, <2>3 DEF Closed
  <2>5. R \subseteq Reach(nxt2, h) \cup {d}
    BY <1>1, <2>1, <2>4, ReachBasic DEF R
  <2> QED
    BY <2>5
<1>6. ASSUME NEW X \in SUBSET Td, X # {} PROVE \E m \in X : nxt2[m] \notin X
  <2>1. PICK m \in X \cup {d} : nxt[m] \notin X \cup {d}
    BY <1>1, <1>6 DEF Acyclic
  <2>2. CASE m \in X
    BY <1>2, <2>1, <2>2
  <2>3. CASE m \notin X
    <3>1. m = d /\ d \notin X /\ nxt[d] \notin X
      BY <2>1, <2>3
    <3>2. PICK k \in X : nxt[k] \notin X
      BY <1>6 DEF Acyclic
    <3> QED
      BY <1>2, <3>1, <3>2
  <2> QED
    BY <2>2, <2>3
<1>7. Acyclic(nxt2)
  BY <1>6 DEF Acyclic
<1> QED
  BY <1>2, <1>4, <1>5, <1>7 DEF R

\* Taking a block out of a list, as ListRemove and Join do it: the list loses
\* that block, and nothing changes that does not lead to it.
LEMMA RemoveReach ==
  ASSUME NEW nxt \in Links, Acyclic(nxt), NEW h \in Td, NEW d \in Reach(nxt, h),
         NEW nxt2, NEW h2,
         IF h = d THEN h2 = nxt[d] /\ nxt2 = nxt
         ELSE /\ nxt2 = [x \in Td |-> IF x \in Reach(nxt, h) /\ nxt[x] = d THEN nxt[d] ELSE nxt[x]]
              /\ h2 = h
  PROVE  /\ nxt2 \in Links /\ h2 \in Td \cup {NULL}
         /\ Acyclic(nxt2)
         /\ Reach(nxt2, h2) = Reach(nxt, h) \ {d}
         /\ \A x \in Td : nxt2[x] # nxt[x] => x \in Reach(nxt, h) /\ nxt[x] = d
<1>1. d \in Td
  BY ReachBasic
<1>2. CASE h = d
  <2>1. Reach(nxt, d) = {d} \cup Reach(nxt, nxt[d]) /\ d \notin Reach(nxt, nxt[d])
    BY <1>1, ReachNext, NoReturn
  <2>2. nxt[d] \in Td \cup {NULL} /\ h2 = nxt[d] /\ nxt2 = nxt
    BY <1>1, <1>2 DEF Links
  <2> QED
    BY <1>2, <2>1, <2>2
<1>3. CASE h # d
  <2>1. /\ h2 = h /\ nxt2 \in Links
        /\ \A x \in Td : nxt2[x] = IF x \in Reach(nxt, h) /\ nxt[x] = d THEN nxt[d] ELSE nxt[x]
    BY <1>1, <1>3 DEF Links
  <2>2. Acyclic(nxt2) /\ Reach(nxt2, h) = Reach(nxt, h) \ {d}
    BY <1>3, <2>1, UnlinkReach
  <2> QED
    BY <2>1, <2>2
<1> QED
  BY <1>2, <1>3

\* The list from d, with the NULL at its end.
IsList(nxt, d, M) ==
  /\ M \in Seq(Td \cup {NULL})
  /\ Len(M) >= 1
  /\ M[1] = d
  /\ M[Len(M)] = NULL
  /\ \A i \in 1 .. Len(M) - 1 : M[i] \in Td /\ M[i + 1] = nxt[M[i]]
  /\ \A i, j \in 1 .. Len(M) : M[i] = M[j] => i = j

\* A nonempty set of natural numbers has a least element.
LEMMA LeastNat ==
  ASSUME NEW T \in SUBSET Nat, T # {}
  PROVE  \E m \in T : \A k \in T : m <= k
<1> DEFINE R == OpToRel(<, Nat)
<1>1. IsWellFoundedOn(R, Nat)
  BY NatLessThanWellFounded, Zenon
<1> HIDE DEF R
<1>2. PICK x \in T : \A y \in T : ~ (<<y, x>> \in R)
  BY <1>1, WFMin
<1>3. \A a, b \in Nat : a < b => <<a, b>> \in R
  BY DEF R, OpToRel
<1>4. \A k \in T : x <= k
  <2> TAKE k \in T
  <2>1. ~(<<k, x>> \in R) /\ k \in Nat /\ x \in Nat
    BY <1>2
  <2> QED
    BY <2>1, <1>3
<1> QED
  BY <1>4

\* Without a cycle there is a list from every block.
LEMMA ListExists ==
  ASSUME NEW nxt \in Links, Acyclic(nxt), NEW d \in Td \cup {NULL}
  PROVE  \E M : IsList(nxt, d, M)
<1>1. IsList(nxt, NULL, <<NULL>>)
  <2>1. <<NULL>> \in Seq(Td \cup {NULL}) /\ Len(<<NULL>>) = 1 /\ <<NULL>>[1] = NULL
    OBVIOUS
  <2>2. 1 .. Len(<<NULL>>) - 1 = {} /\ 1 .. Len(<<NULL>>) = {1}
    BY <2>1
  <2> QED
    BY <2>1, <2>2 DEF IsList
<1> DEFINE X == {x \in Td : ~\E M : IsList(nxt, x, M)}
<1>2. ASSUME NEW m \in Td, NEW M, IsList(nxt, nxt[m], M)
      PROVE  IsList(nxt, m, <<m>> \o M)
  <2> DEFINE N == <<m>> \o M
  <2>1. /\ M \in Seq(Td \cup {NULL}) /\ Len(M) \in Nat /\ Len(M) >= 1
        /\ M[1] = nxt[m] /\ M[Len(M)] = NULL
        /\ \A i \in 1 .. Len(M) - 1 : M[i] \in Td /\ M[i + 1] = nxt[M[i]]
        /\ \A i, j \in 1 .. Len(M) : M[i] = M[j] => i = j
    BY <1>2 DEF IsList
  <2>2. <<m>> \in Seq(Td \cup {NULL}) /\ Len(<<m>>) = 1 /\ <<m>>[1] = m
    OBVIOUS
  <2>3. /\ N \in Seq(Td \cup {NULL}) /\ Len(N) = Len(M) + 1 /\ N[1] = m
        /\ \A i \in 1 .. Len(M) : N[i + 1] = M[i]
    BY <2>1, <2>2
  <2> HIDE DEF N
  <2>4. \A i \in 2 .. Len(M) + 1 : i - 1 \in 1 .. Len(M) /\ N[i] = M[i - 1]
    <3> SUFFICES ASSUME NEW i \in 2 .. Len(M) + 1 PROVE i - 1 \in 1 .. Len(M) /\ N[i] = M[i - 1]
      OBVIOUS
    <3>1. i - 1 \in 1 .. Len(M) /\ (i - 1) + 1 = i
      BY <2>1
    <3> QED
      BY <2>3, <3>1
  <2>5. N[Len(N)] = NULL
    BY <2>1, <2>3
  <2>6. \A j \in 1 .. Len(M) : M[j] # m
    <3> SUFFICES ASSUME NEW j \in 1 .. Len(M), M[j] = m PROVE FALSE
      OBVIOUS
    <3> DEFINE Y == {M[i] : i \in 1 .. j}
    <3>1. j # Len(M) /\ j \in Nat
      BY <2>1, ThreadsAssumption
    <3>2. \A i \in 1 .. j : i \in 1 .. Len(M) - 1 /\ M[i] \in Td
      <4>1. \A i \in 1 .. j : i \in 1 .. Len(M) - 1
        BY <2>1, <3>1
      <4> QED
        BY <2>1, <4>1
    <3>3. M[1] \in Y /\ m \in Y
      BY <3>1
    <3>4. ASSUME NEW i \in 1 .. j PROVE nxt[M[i]] \in Y
      <4>1. CASE i = j
        BY <2>1, <3>3, <4>1
      <4>2. CASE i # j
        <5>1. i + 1 \in 1 .. j
          BY <3>1, <4>2
        <5>2. M[i + 1] = nxt[M[i]]
          BY <2>1, <3>2
        <5> QED
          BY <5>1, <5>2
      <4> QED
        BY <4>1, <4>2
    <3>5. Y \in SUBSET Td /\ Y # {}
      BY <3>2, <3>3
    <3>6. \A y \in Y : nxt[y] \in Y
      BY <3>4
    <3> HIDE DEF Y
    <3> QED
      BY <3>5, <3>6 DEF Acyclic
  <2>7. ASSUME NEW i \in 1 .. Len(N) - 1 PROVE N[i] \in Td /\ N[i + 1] = nxt[N[i]]
    <3>1. i \in 1 .. Len(M)
      BY <2>1, <2>3
    <3>2. CASE i = 1
      BY <2>1, <2>3, <3>2
    <3>3. CASE i # 1
      <4>1. i \in 2 .. Len(M) + 1 /\ i - 1 \in 1 .. Len(M) - 1 /\ (i - 1) + 1 = i
        BY <2>1, <3>1, <3>3
      <4>2. N[i] = M[i - 1] /\ N[i + 1] = M[i]
        BY <2>3, <2>4, <3>1, <4>1
      <4> QED
        BY <2>1, <4>1, <4>2
    <3> QED
      BY <3>2, <3>3
  <2>8. ASSUME NEW i \in 1 .. Len(N), NEW j \in 1 .. Len(N), N[i] = N[j] PROVE i = j
    <3>0. /\ i \in 1 .. Len(M) + 1 /\ j \in 1 .. Len(M) + 1
          /\ i # 1 => i \in 2 .. Len(M) + 1
          /\ j # 1 => j \in 2 .. Len(M) + 1
      BY <2>1, <2>3
    <3>1. CASE i = 1 /\ j = 1
      BY <3>1
    <3>2. CASE i = 1 /\ j # 1
      BY <2>3, <2>4, <2>6, <2>8, <3>0, <3>2
    <3>3. CASE i # 1 /\ j = 1
      BY <2>3, <2>4, <2>6, <2>8, <3>0, <3>3
    <3>4. CASE i # 1 /\ j # 1
      <4>1. i - 1 \in 1 .. Len(M) /\ j - 1 \in 1 .. Len(M) /\ M[i - 1] = M[j - 1]
        BY <2>4, <2>8, <3>0, <3>4
      <4>2. i - 1 = j - 1
        BY <2>1, <4>1
      <4> QED
        BY <4>2, <3>0
    <3> QED
      BY <3>1, <3>2, <3>3, <3>4
  <2>9. Len(N) >= 1
    BY <2>1, <2>3
  <2>10. IsList(nxt, m, N)
    BY <2>3, <2>5, <2>7, <2>8, <2>9 DEF IsList
  <2> QED
    BY <2>10 DEF N
<1>3. X = {}
  <2> SUFFICES ASSUME X # {} PROVE FALSE
    OBVIOUS
  <2>1. PICK m \in X : nxt[m] \notin X
    BY DEF Acyclic
  <2>2. \E M : IsList(nxt, nxt[m], M)
    BY <1>1, <2>1 DEF Links
  <2> QED
    BY <1>2, <2>1, <2>2
<1> QED
  BY <1>1, <1>3

\* The blocks of the list from d are the ones that can be reached from d.
LEMMA ListIsReach ==
  ASSUME NEW nxt \in Links, NEW d \in Td \cup {NULL}, NEW M, IsList(nxt, d, M)
  PROVE  ToSet(M) = Reach(nxt, d) \cup {NULL}
<1>1. /\ M \in Seq(Td \cup {NULL}) /\ Len(M) \in Nat /\ Len(M) >= 1
      /\ M[1] = d /\ M[Len(M)] = NULL
      /\ \A i \in 1 .. Len(M) - 1 : M[i] \in Td /\ M[i + 1] = nxt[M[i]]
      /\ DOMAIN M = 1 .. Len(M)
  BY DEF IsList
<1>2. /\ Reach(nxt, d) \in SUBSET Td /\ Closed(nxt, Reach(nxt, d))
      /\ d \in Reach(nxt, d) \cup {NULL}
  BY ReachBasic
<1>3. \A i \in 1 .. Len(M) : M[i] \in Reach(nxt, d) \cup {NULL}
  <2> DEFINE bad == {i \in 1 .. Len(M) : M[i] \notin Reach(nxt, d) \cup {NULL}}
  <2> SUFFICES ASSUME bad # {} PROVE FALSE
    OBVIOUS
  <2>1. PICK i \in bad : \A k \in bad : i <= k
    <3>1. bad \in SUBSET Nat
      BY <1>1
    <3> HIDE DEF bad
    <3> QED
      BY <3>1, LeastNat
  <2>2. i \in 1 .. Len(M) /\ i # 1 /\ M[i] \notin Reach(nxt, d) \cup {NULL}
    BY <1>1, <1>2, <2>1
  <2>3. i - 1 \in 1 .. Len(M) - 1 /\ i - 1 \in 1 .. Len(M) /\ (i - 1) + 1 = i /\ ~(i <= i - 1)
    BY <1>1, <2>2
  <2>4. i - 1 \notin bad
    BY <2>1, <2>3
  <2>5. M[i - 1] \in Reach(nxt, d) /\ M[i] = nxt[M[i - 1]]
    <3>1. M[i - 1] \in Td /\ M[(i - 1) + 1] = nxt[M[i - 1]]
      BY <1>1, <2>3
    <3> QED
      BY <2>3, <2>4, <3>1, ThreadsAssumption
  <2> QED
    BY <1>2, <2>2, <2>5 DEF Closed
<1>4. Reach(nxt, d) \subseteq ToSet(M) \ {NULL}
  <2>1. ToSet(M) \ {NULL} \in SUBSET Td
    BY <1>1 DEF ToSet
  <2>2. Closed(nxt, ToSet(M) \ {NULL})
    <3> SUFFICES ASSUME NEW i \in 1 .. Len(M), M[i] # NULL PROVE nxt[M[i]] \in ToSet(M) \cup {NULL}
      BY <1>1 DEF Closed, ToSet
    <3>1. i \in 1 .. Len(M) - 1 /\ i + 1 \in 1 .. Len(M)
      BY <1>1
    <3> QED
      BY <1>1, <3>1 DEF ToSet
  <2>3. 1 \in 1 .. Len(M)
    BY <1>1
  <2>4. d \in ToSet(M)
    BY <1>1, <2>3 DEF ToSet
  <2> QED
    BY <2>1, <2>2, <2>4, ReachBasic
<1>5. NULL \in ToSet(M)
  <2>1. Len(M) \in 1 .. Len(M)
    BY <1>1
  <2> QED
    BY <1>1, <2>1 DEF ToSet
<1> QED
  BY <1>1, <1>3, <1>4, <1>5 DEF ToSet

\* A list is no longer than there are blocks, and the NULL at its end.
LEMMA ListShort ==
  ASSUME NEW nxt \in Links, NEW d, NEW M, IsList(nxt, d, M)
  PROVE  Len(M) <= Cardinality(Td) + 1 /\ Cardinality(Td) \in Nat
<1>1. /\ Len(M) \in Nat /\ Len(M) >= 1
      /\ \A i \in 1 .. Len(M) - 1 : M[i] \in Td
      /\ \A i, j \in 1 .. Len(M) : M[i] = M[j] => i = j
  BY DEF IsList
<1>2. IsFiniteSet(Td) /\ Cardinality(Td) \in Nat
  BY ThreadsAssumption, FS_CardinalityType
<1> DEFINE S == 1 .. Len(M) - 1
           f == [i \in S |-> M[i]]
<1>3. S \subseteq 1 .. Len(M)
  BY <1>1
<1>4. f \in Injection(S, Td)
  BY <1>1, <1>3 DEF Injection, IsInjective
<1>5. Cardinality(S) <= Cardinality(Td)
  <2> HIDE DEF f, S
  <2> QED
    BY <1>2, <1>4, FS_Injection
<1>6. Cardinality(S) = Len(M) - 1
  <2>1. Len(M) - 1 \in Int /\ Cardinality(1 .. Len(M) - 1) = IF 1 > Len(M) - 1 THEN 0 ELSE (Len(M) - 1) - 1 + 1
    BY <1>1, FS_Interval
  <2> QED
    BY <1>1, <2>1
<1> HIDE DEF S
<1> QED
  BY <1>1, <1>2, <1>5, <1>6

\* The walk of Chain, as a function of the number of steps.
Walks(nxt, d, f) ==
  f = [k \in 0 .. Cardinality(Td) |->
         IF k = 0 THEN <<d>>
         ELSE IF Last(f[k - 1]) = NULL THEN f[k - 1]
              ELSE Append(f[k - 1], nxt[Last(f[k - 1])])]

\* After k steps the walk has the first k + 1 elements of the list.
Beginnings(M) ==
  [k \in 0 .. Cardinality(Td) |-> IF k < Len(M) THEN SubSeq(M, 1, k + 1) ELSE M]

\* One step of the walk adds the next element of the list, or nothing at its end.
LEMMA PrefixStep ==
  ASSUME NEW nxt \in Links, NEW d, NEW M, IsList(nxt, d, M),
         NEW k \in 1 .. Cardinality(Td)
  PROVE  /\ k \in 0 .. Cardinality(Td) /\ k - 1 \in 0 .. Cardinality(Td)
         /\ Beginnings(M)[k] =
              IF Last(Beginnings(M)[k - 1]) = NULL THEN Beginnings(M)[k - 1]
              ELSE Append(Beginnings(M)[k - 1], nxt[Last(Beginnings(M)[k - 1])])
<1>1. /\ M \in Seq(Td \cup {NULL}) /\ Len(M) \in Nat /\ Len(M) >= 1
      /\ M[Len(M)] = NULL
      /\ \A i \in 1 .. Len(M) - 1 : M[i] \in Td /\ M[i + 1] = nxt[M[i]]
  BY DEF IsList
<1>2. Cardinality(Td) \in Nat
  BY ListShort
<1>3. k \in 0 .. Cardinality(Td) /\ k - 1 \in 0 .. Cardinality(Td) /\ k \in Nat /\ k >= 1
  BY <1>2
<1>4. Beginnings(M)[k] = IF k < Len(M) THEN SubSeq(M, 1, k + 1) ELSE M
  BY <1>3 DEF Beginnings
<1>5. Beginnings(M)[k - 1] = IF k - 1 < Len(M) THEN SubSeq(M, 1, k) ELSE M
  BY <1>3 DEF Beginnings
<1>6. CASE k < Len(M)
  <2>1. Beginnings(M)[k] = SubSeq(M, 1, k + 1) /\ Beginnings(M)[k - 1] = SubSeq(M, 1, k)
    BY <1>1, <1>3, <1>4, <1>5, <1>6
  <2>2. Len(SubSeq(M, 1, k)) = k /\ SubSeq(M, 1, k)[k] = M[k]
    BY <1>1, <1>3, <1>6
  <2>3. k \in 1 .. Len(M) - 1
    BY <1>1, <1>3, <1>6
  <2>4. M[k] \in Td /\ M[k + 1] = nxt[M[k]] /\ M[k] # NULL
    BY <1>1, <2>3, ThreadsAssumption
  <2>5. SubSeq(M, 1, k + 1) = Append(SubSeq(M, 1, k), M[k + 1])
    BY <1>1, <1>3, <1>6
  <2> QED
    BY <1>3, <2>1, <2>2, <2>4, <2>5 DEF Last
<1>7. CASE k = Len(M)
  <2>1. Beginnings(M)[k] = M /\ Beginnings(M)[k - 1] = SubSeq(M, 1, k)
    BY <1>1, <1>3, <1>4, <1>5, <1>7
  <2>2. SubSeq(M, 1, k) = M
    BY <1>1, <1>7
  <2> QED
    BY <1>1, <1>3, <2>1, <2>2 DEF Last
<1>8. CASE k > Len(M)
  <2>1. Beginnings(M)[k] = M /\ Beginnings(M)[k - 1] = M
    BY <1>1, <1>3, <1>4, <1>5, <1>8
  <2> QED
    BY <1>1, <1>3, <2>1 DEF Last
<1> QED
  BY <1>1, <1>3, <1>6, <1>7, <1>8

\* Chain, which walks from d along next, comes to the end and returns the list.
LEMMA ChainIsList ==
  ASSUME next \in Links, NEW d, NEW M, IsList(next, d, M)
  PROVE  Chain(d) = M
<1> DEFINE N == Cardinality(Td)
<1>1. /\ M \in Seq(Td \cup {NULL}) /\ Len(M) \in Nat /\ Len(M) >= 1 /\ M[1] = d
  BY DEF IsList
<1>2. N \in Nat /\ Len(M) <= N + 1 /\ 0 \in 0 .. N /\ N \in 0 .. N
  <2>1. N \in Nat /\ Len(M) <= N + 1
    BY ListShort
  <2> HIDE DEF N
  <2> QED
    BY <2>1
<1>3. Beginnings(M)[0] = <<d>>
  <2>1. Beginnings(M)[0] = SubSeq(M, 1, 1)
    BY <1>1, <1>2 DEF Beginnings
  <2>2. SubSeq(M, 1, 1) = <<M[1]>>
    <3>1. /\ SubSeq(M, 1, 1) \in Seq(Td \cup {NULL}) /\ Len(SubSeq(M, 1, 1)) = 1
          /\ SubSeq(M, 1, 1)[1] = M[1]
      BY <1>1
    <3>2. \A s \in Seq(Td \cup {NULL}) : Len(s) = 1 => s = <<s[1]>>
      OBVIOUS
    <3> QED
      BY <3>1, <3>2
  <2> QED
    BY <1>1, <2>1, <2>2
<1>4. Walks(next, d, Beginnings(M))
  <2> DEFINE g == Beginnings(M)
             h == [k \in 0 .. N |->
                     IF k = 0 THEN <<d>>
                     ELSE IF Last(g[k - 1]) = NULL THEN g[k - 1]
                          ELSE Append(g[k - 1], next[Last(g[k - 1])])]
  <2>1. \A k \in 0 .. N : g[k] = h[k]
    <3> SUFFICES ASSUME NEW k \in 0 .. N PROVE g[k] = h[k]
      OBVIOUS
    <3>1. CASE k = 0
      BY <1>3, <3>1
    <3>2. CASE k # 0
      <4>1. k \in 1 .. N
        BY <1>2, <3>2
      <4> QED
        BY <3>2, <4>1, PrefixStep
    <3> QED
      BY <3>1, <3>2
  <2>2. g = [k \in 0 .. N |-> g[k]]
    BY DEF Beginnings
  <2>3. g = h
    <3> HIDE DEF g, h
    <3>1. h = [k \in 0 .. N |-> h[k]]
      BY DEF h
    <3> QED
      BY <2>1, <2>2, <3>1
  <2> QED
    BY <2>3 DEF Walks
<1>5. ASSUME NEW f, Walks(next, d, f) PROVE f[N] = Beginnings(M)[N]
  <2>1. /\ f[0] = <<d>>
        /\ \A k \in 1 .. N : f[k] = IF Last(f[k - 1]) = NULL THEN f[k - 1]
                                    ELSE Append(f[k - 1], next[Last(f[k - 1])])
    <3>1. \A k \in 1 .. N : k \in 0 .. N /\ k # 0
      BY <1>2
    <3>2. \A k \in 0 .. N : f[k] = IF k = 0 THEN <<d>>
                                   ELSE IF Last(f[k - 1]) = NULL THEN f[k - 1]
                                        ELSE Append(f[k - 1], next[Last(f[k - 1])])
      BY <1>5 DEF Walks
    <3> QED
      BY <1>2, <3>1, <3>2
  <2> DEFINE bad == {k \in 0 .. N : f[k] # Beginnings(M)[k]}
  <2>2. bad = {}
    <3> SUFFICES ASSUME bad # {} PROVE FALSE
      OBVIOUS
    <3>1. PICK k \in bad : \A j \in bad : k <= j
      <4>1. bad \in SUBSET Nat
        BY <1>2
      <4> HIDE DEF bad
      <4> QED
        BY <4>1, LeastNat
    <3>2. k \in 0 .. N /\ k # 0 /\ f[k] # Beginnings(M)[k]
      BY <1>3, <2>1, <3>1
    <3>3. k \in 1 .. N /\ k - 1 \in 0 .. N /\ ~(k <= k - 1)
      BY <1>2, <3>2
    <3>4. f[k - 1] = Beginnings(M)[k - 1]
      BY <3>1, <3>3
    <3> QED
      BY <2>1, <3>2, <3>3, <3>4, PrefixStep
  <2> QED
    BY <1>2, <2>2
<1>6. Chain(d) = (CHOOSE f : Walks(next, d, f))[N]
  BY DEF Chain, Walks
<1>7. Walks(next, d, CHOOSE f : Walks(next, d, f))
  BY <1>4
<1>8. Beginnings(M)[N] = M
  <2>1. Beginnings(M)[N] = IF N < Len(M) THEN SubSeq(M, 1, N + 1) ELSE M
    BY <1>2 DEF Beginnings
  <2> HIDE DEF N
  <2>2. CASE N < Len(M)
    <3>1. N + 1 = Len(M)
      BY <1>1, <1>2, <2>2
    <3>2. SubSeq(M, 1, Len(M)) = M
      BY <1>1
    <3> QED
      BY <2>1, <2>2, <3>1, <3>2
  <2> QED
    BY <2>1, <2>2
<1> QED
  BY <1>5, <1>6, <1>7, <1>8

\* What the walks of the code meet: every block that can be reached, and NULL.
LEMMA ChainIsReach ==
  ASSUME next \in Links, Acyclic(next), NEW d \in Td \cup {NULL}
  PROVE  /\ Chain(d) \in Seq(Td \cup {NULL})
         /\ ToSet(Chain(d)) = Reach(next, d) \cup {NULL}
         /\ Members(d) = Reach(next, d)
         /\ Ends(d)
<1>1. PICK M : IsList(next, d, M)
  BY ListExists
<1>2. Chain(d) = M
  BY <1>1, ChainIsList
<1>3. ToSet(M) = Reach(next, d) \cup {NULL}
  BY <1>1, ListIsReach
<1>4. NULL \notin Reach(next, d)
  BY ThreadsAssumption DEF Reach
<1>5. M \in Seq(Td \cup {NULL}) /\ Last(M) = NULL
  BY <1>1 DEF IsList, Last
<1> QED
  BY <1>2, <1>3, <1>4, <1>5 DEF Members, Ends

(***************************************************************************)
(* Pools, and what a step leaves alone.                                    *)
(***************************************************************************)

\* Taking the first block of a pool takes that block out.
LEMMA PoolTake ==
  ASSUME NEW S, NEW s \in Seq(S), IsInjective(s), s # <<>>
  PROVE  /\ Head(s) \in S /\ Head(s) \in ToSet(s)
         /\ Tail(s) \in Seq(S) /\ IsInjective(Tail(s))
         /\ ToSet(Tail(s)) = ToSet(s) \ {Head(s)}
<1>1. /\ Len(s) \in Nat /\ Len(s) >= 1 /\ DOMAIN s = 1 .. Len(s)
      /\ Head(s) = s[1] /\ Tail(s) \in Seq(S)
      /\ DOMAIN Tail(s) = 1 .. Len(s) - 1
      /\ \A i \in 1 .. Len(s) - 1 : Tail(s)[i] = s[i + 1]
  OBVIOUS
<1>2. 1 \in DOMAIN s /\ \A i \in 1 .. Len(s) - 1 : i + 1 \in DOMAIN s /\ i + 1 # 1
  BY <1>1
<1>3. \A i \in DOMAIN s : i # 1 => i - 1 \in 1 .. Len(s) - 1 /\ (i - 1) + 1 = i
  BY <1>1
<1>4. IsInjective(Tail(s))
  <2> SUFFICES ASSUME NEW i \in 1 .. Len(s) - 1, NEW j \in 1 .. Len(s) - 1, s[i + 1] = s[j + 1]
               PROVE  i = j
    BY <1>1 DEF IsInjective
  <2>1. i + 1 = j + 1
    BY <1>2 DEF IsInjective
  <2> QED
    BY <2>1
<1>5. ASSUME NEW x \in ToSet(Tail(s)) PROVE x \in ToSet(s) /\ x # Head(s)
  BY <1>1, <1>2 DEF ToSet, IsInjective
<1>6. ASSUME NEW x \in ToSet(s), x # Head(s) PROVE x \in ToSet(Tail(s))
  <2>1. PICK i \in DOMAIN s : s[i] = x /\ i # 1
    BY <1>1, <1>6 DEF ToSet
  <2>2. i - 1 \in DOMAIN Tail(s) /\ Tail(s)[i - 1] = s[i]
    BY <1>1, <1>3, <2>1
  <2> QED
    BY <2>1, <2>2 DEF ToSet
<1>7. ToSet(Tail(s)) = ToSet(s) \ {Head(s)}
  BY <1>5, <1>6
<1>8. Head(s) \in S /\ Head(s) \in ToSet(s)
  BY <1>1, <1>2 DEF ToSet
<1> QED
  BY <1>1, <1>4, <1>7, <1>8

\* Giving a block back adds it to the pool.
LEMMA PoolGive ==
  ASSUME NEW S, NEW s \in Seq(S), IsInjective(s), NEW x \in S, x \notin ToSet(s)
  PROVE  /\ <<x>> \o s \in Seq(S) /\ IsInjective(<<x>> \o s)
         /\ ToSet(<<x>> \o s) = ToSet(s) \cup {x}
<1> DEFINE p == <<x>> \o s
<1>1. <<x>> \in Seq(S) /\ Len(<<x>>) = 1 /\ <<x>>[1] = x
  OBVIOUS
<1>2. /\ p \in Seq(S) /\ Len(s) \in Nat /\ DOMAIN s = 1 .. Len(s) /\ DOMAIN p = 1 .. Len(s) + 1
      /\ p[1] = x /\ \A i \in 1 .. Len(s) : p[i + 1] = s[i]
  BY <1>1
<1> HIDE DEF p
<1>3. /\ 1 \in DOMAIN p
      /\ \A i \in DOMAIN p : i # 1 => i - 1 \in DOMAIN s /\ (i - 1) + 1 = i
      /\ \A i \in DOMAIN s : i + 1 \in DOMAIN p
  BY <1>2
<1>4. \A i \in DOMAIN p : i # 1 => p[i] = s[i - 1] /\ p[i] # x
  BY <1>2, <1>3 DEF ToSet
<1>5. IsInjective(p)
  <2> SUFFICES ASSUME NEW i \in DOMAIN p, NEW j \in DOMAIN p, p[i] = p[j] PROVE i = j
    BY DEF IsInjective
  <2>1. CASE i = 1 \/ j = 1
    BY <1>2, <1>4, <2>1
  <2>2. CASE i # 1 /\ j # 1
    <3>1. i - 1 = j - 1
      BY <1>3, <1>4, <2>2 DEF IsInjective
    <3>2. i \in Nat /\ j \in Nat
      BY <1>2
    <3> QED
      BY <3>1, <3>2
  <2> QED
    BY <2>1, <2>2
<1>6. ToSet(p) = ToSet(s) \cup {x}
  BY <1>2, <1>3, <1>4 DEF ToSet
<1> QED
  BY <1>2, <1>5, <1>6 DEF p

\* The pools hold every block once when the process starts.
LEMMA PoolInit ==
  ASSUME NEW S, IsFiniteSet(S)
  PROVE  SetToSeq(S) \in Seq(S) /\ IsInjective(SetToSeq(S))
<1>1. Cardinality(S) \in Nat /\ ExistsBijection(1 .. Cardinality(S), S)
  BY FS_CardinalityType
<1>2. \E f \in [1 .. Cardinality(S) -> S] : IsInjective(f)
  BY <1>1 DEF ExistsBijection, Bijection, Injection, IsInjective
<1>3. SetToSeq(S) \in [1 .. Cardinality(S) -> S] /\ IsInjective(SetToSeq(S))
  BY <1>2 DEF SetToSeq
<1> QED
  BY <1>1, <1>3

\* Who owns which block does not change.
LEMMA DataFrame ==
  ASSUME DataInv, UNCHANGED <<td_pool, td_of>>, HasData' = HasData
  PROVE  DataInv'
BY DEF DataInv

\* Who has which stack does not change.
LEMMA StackFrame ==
  ASSUME StackInv, UNCHANGED <<stack_pool, td_of, stack>>, HasStack' = HasStack
  PROVE  StackInv'
BY DEF StackInv

\* The thread list and the threads on it do not change.
LEMMA ListFrame ==
  ASSUME ListInv, UNCHANGED <<next, head, td_of>>, Registered' = Registered, Staged' = Staged,
         \A u \in Thread : pc'[u] \in {"removed", "allocated"} => pc'[u] = pc[u],
         Running' => Running, failures' = 0 => failures = 0
  PROVE  ListInv'
BY DEF ListInv

\* The staged blocks do not change, nor the fields of the others.
LEMMA StagedFrame ==
  ASSUME StagedInv, UNCHANGED <<next, staged, td_of, self, ref_count>>, Staged' = Staged,
         HasData' \subseteq HasData,
         \A u \in Thread : pc'[u] \in {"active", "inactive", "removed"} =>
                             pc[u] \in {"active", "inactive", "removed"},
         \A u \in Thread : pc'[u] \in {"allocated", "listed", "created", "active", "inactive", "removed"} =>
                             pc[u] \in {"allocated", "listed", "created", "active", "inactive", "removed"}
  PROVE  StagedInv'
<1>1. /\ Reach(next', staged') = {td_of'[t] : t \in Staged'}
      /\ \A t \in Staged' : ref_count'[td_of'[t]] = 0
  BY DEF StagedInv
<1>2. \A t \in Thread : pc'[t] \in {"active", "inactive", "removed"} \/ t \in Staged' => self'[td_of'[t]] = t
  BY DEF StagedInv
<1>3. \A t \in HasData' : pc'[t] \in {"allocated", "listed", "created", "active", "inactive", "removed"} =>
        ref_count'[td_of'[t]] = 1
  BY DEF StagedInv, HasData
<1> QED
  BY <1>1, <1>2, <1>3 DEF StagedInv

\* Nobody is counted or uncounted, registered or removed.
LEMMA CountFrame ==
  ASSUME CountInv, UNCHANGED <<count, failures, next, head>>, Registered' = Registered,
         Running' => Running /\ g_thread_count' = g_thread_count /\ Counted' = Counted
  PROVE  CountInv'
BY DEF CountInv

\* The child and what it still has before it do not change.
LEMMA ChildFrame ==
  ASSUME ChildInv, UNCHANGED <<next, head, cursor, walking, found, stacks_at_fork, ended, stack, td_of>>,
         \A u \in Thread : pc[u] \in {"active", "inactive"} => pc'[u] \in {"active", "inactive"}
  PROVE  ChildInv'
BY DEF ChildInv

\* What IndInv says about every thread that has data.
LEMMA OwnerFacts ==
  ASSUME IndInv
  PROVE  /\ next \in Links
         /\ \A t \in HasData : td_of[t] \in Td
         /\ \A t \in Thread : pc[t] \notin {"none", "counted"} => t \in HasData
         /\ \A t \in Staged : t \in HasData /\ t \in HasStack
         /\ Registered \subseteq HasData /\ HasData \subseteq Thread
         /\ Reach(next, head) \subseteq Td /\ Reach(next, staged) \subseteq Td
         /\ Reach(next, cursor) \subseteq Td
<1>1. next \in Links /\ td_of \in [Thread -> Td \cup {NULL}]
  BY DEF IndInv, TypeOK, Links
<1>2. \A t \in HasData : td_of[t] # NULL /\ t \in Thread
  BY DEF IndInv, DataInv, HasData
<1> QED
  BY <1>1, <1>2 DEF HasData, HasStack, Staged, Registered, Reach

\* The threads can be counted.
LEMMA ThreadSets ==
  ASSUME NEW S \in SUBSET Thread, NEW t \in Thread
  PROVE  /\ IsFiniteSet(S) /\ Cardinality(S) \in Nat
         /\ t \notin S => Cardinality(S \cup {t}) = Cardinality(S) + 1
         /\ t \in S => Cardinality(S \ {t}) = Cardinality(S) - 1 /\ Cardinality(S) >= 1
<1>1. IsFiniteSet(S) /\ Cardinality(S) \in Nat
  BY ThreadsAssumption, FS_Subset, FS_CardinalityType
<1>2. t \notin S => Cardinality(S \cup {t}) = Cardinality(S) + 1
  BY <1>1, FS_AddElement
<1>3. t \in S => Cardinality(S \ {t}) = Cardinality(S) - 1
  BY <1>1, FS_RemoveElement
<1>4. t \in S => Cardinality(S) # 0
  BY <1>1, FS_EmptySet
<1> QED
  BY <1>1, <1>2, <1>3, <1>4

(***************************************************************************)
(* The steps.                                                              *)
(***************************************************************************)

\* At the start there is the initial thread alone.
LEMMA InitInv == Init => IndInv
<1> SUFFICES ASSUME Init PROVE IndInv
  OBVIOUS
<1> USE ThreadsAssumption
<1>1. /\ SetToSeq(Td \ {MainTd}) \in Seq(Td \ {MainTd}) /\ IsInjective(SetToSeq(Td \ {MainTd}))
      /\ SetToSeq(Stack) \in Seq(Stack) /\ IsInjective(SetToSeq(Stack))
  <2>1. IsFiniteSet(Td \ {MainTd}) /\ IsFiniteSet(Stack)
    BY FS_Difference
  <2> QED
    BY <2>1, PoolInit
<1>2. td_pool \in Seq(Td) /\ MainTd \notin ToSet(td_pool)
  <2>1. td_pool \in Seq(Td \ {MainTd})
    BY <1>1 DEF Init
  <2> QED
    BY <2>1 DEF ToSet
<1>3. TypeOK
  <2>1. stack_pool \in Seq(Stack)
    BY <1>1 DEF Init
  <2>2. /\ pc \in [Thread -> Place] /\ process \in {"running", "fatal", "corrupted"}
        /\ td_of \in [Thread -> Td \cup {NULL}] /\ next \in [Td -> Td \cup {NULL}]
        /\ self \in [Td -> Thread \cup {NULL}] /\ is_active \in [Td -> BOOLEAN]
        /\ stack \in [Td -> Stack \cup {UserStack}]
    BY DEF Init, Place
  <2>3. ref_count \in [Td -> 0 .. 1]
    <3>1. 0 \in 0 .. 1 /\ 1 \in 0 .. 1
      OBVIOUS
    <3> QED
      BY <3>1 DEF Init
  <2>4. /\ head \in Td /\ count \in Nat /\ staged \in Td \cup {NULL} /\ g_thread_count \in Nat
        /\ failures \in Nat /\ cursor \in Td \cup {NULL} /\ walking \in BOOLEAN
        /\ found \in SUBSET Stack /\ stacks_at_fork \in SUBSET Stack /\ ended \in SUBSET Thread
    BY DEF Init
  <2> QED
    BY <1>2, <2>1, <2>2, <2>3, <2>4 DEF TypeOK
<1>4. next \in Links /\ \A d \in Td : next[d] = NULL
  BY DEF Init, Links
<1>5. Acyclic(next)
  BY <1>4 DEF Acyclic
<1>6. Reach(next, head) = {MainTd} /\ Reach(next, staged) = {} /\ Reach(next, cursor) = {}
  <2>1. head = MainTd /\ staged = NULL /\ cursor = NULL
    BY DEF Init
  <2> QED
    BY <1>4, <2>1, ReachNext, ReachNull
<1>7. /\ HasData = {} /\ HasStack = {} /\ Registered = {} /\ Staged = {} /\ Counted = {}
      /\ \A t \in Thread : pc[t] = "none" /\ td_of[t] = NULL
  BY DEF Init, HasData, HasStack, Registered, Staged, Counted
<1>8. DataInv
  BY <1>1, <1>2, <1>7 DEF DataInv, Init
<1>9. StackInv
  BY <1>1, <1>7 DEF StackInv, Init
<1>10. ListInv /\ StagedInv
  BY <1>6, <1>7 DEF ListInv, StagedInv
<1>11. CountInv
  <2>1. Cardinality({MainTd}) = 1 /\ Cardinality({}) = 0
    BY FS_Singleton, FS_EmptySet
  <2>2. count = 1 /\ failures = 0 /\ g_thread_count = 1
    BY DEF Init
  <2> QED
    BY <1>6, <1>7, <2>1, <2>2 DEF CountInv
<1>12. ChildInv
  BY DEF ChildInv, Init
<1> QED
  BY <1>3, <1>5, <1>8, <1>9, <1>10, <1>11, <1>12 DEF IndInv

\* g_thread_count is incremented and compared.
LEMMA CountThreadInv ==
  ASSUME IndInv, NEW t \in Thread, CountThread(t)
  PROVE  IndInv'
<1>1. /\ pc[t] = "none" /\ Running /\ g_thread_count' = g_thread_count + 1
      /\ UNCHANGED <<td_of, next, self, is_active, ref_count, stack, head, count, staged>>
      /\ UNCHANGED <<td_pool, stack_pool, failures, cursor, walking, found, stacks_at_fork, ended>>
  BY DEF CountThread, At, fields, lists, pools, childVars
<1>2. \/ pc' = pc /\ process' = "fatal"
      \/ ~(MaxThreadCount < g_thread_count) /\ pc' = [pc EXCEPT ![t] = "counted"] /\ process' = process
  BY DEF CountThread, Goto
<1>3. TypeOK'
  BY <1>1, <1>2 DEF IndInv, TypeOK, Place
<1>4. \A u \in Thread : pc'[u] = pc[u] \/ (u = t /\ pc'[u] = "counted")
  BY <1>2 DEF IndInv, TypeOK
<1>5. HasData' = HasData /\ HasStack' = HasStack /\ Registered' = Registered /\ Staged' = Staged
  BY <1>1, <1>4 DEF HasData, HasStack, Registered, Staged
<1>6. CountInv'
  <2>1. Running' => ~(MaxThreadCount < g_thread_count) /\ Counted' = Counted \cup {t} /\ t \notin Counted
    BY <1>1, <1>2 DEF Running, Counted, IndInv, TypeOK
  <2>2. Running' => Cardinality(Counted') = Cardinality(Counted) + 1 /\ Cardinality(Counted) \in Nat
    BY <2>1, ThreadSets DEF Counted
  <2>3. /\ g_thread_count = 1 + Cardinality(Counted) + failures
        /\ g_thread_count \in Nat /\ failures \in Nat /\ MaxThreadCount \in Nat
    BY <1>1, ThreadsAssumption DEF IndInv, CountInv, TypeOK
  <2>4. Running' => /\ g_thread_count' = 1 + Cardinality(Counted') + failures'
                    /\ g_thread_count' <= MaxThreadCount + 1
    BY <1>1, <2>1, <2>2, <2>3
  <2> QED
    BY <1>1, <1>5, <2>4 DEF IndInv, CountInv
<1>7. DataInv' /\ StackInv' /\ StagedInv' /\ ChildInv'
  BY <1>1, <1>4, <1>5, DataFrame, StackFrame, StagedFrame, ChildFrame DEF IndInv
<1>8. ListInv'
  BY <1>1, <1>4, <1>5, ListFrame DEF IndInv
<1> QED
  BY <1>1, <1>3, <1>6, <1>7, <1>8 DEF IndInv

\* The pools hand out a block and a stack that nobody has.
LEMMA ThreadDataNewInv ==
  ASSUME IndInv, NEW t \in Thread, ThreadDataNew(t)
  PROVE  IndInv'
<1> USE ThreadsAssumption
<1>1. PICK d, s :
        /\ d = Head(td_pool) /\ td_pool # <<>>
        /\ td_pool' = Tail(td_pool)
        /\ td_of' = [td_of EXCEPT ![t] = d]
        /\ ref_count' = [ref_count EXCEPT ![d] = 1]
        /\ is_active' = [is_active EXCEPT ![d] = FALSE]
        /\ stack' = [stack EXCEPT ![d] = s]
        /\ \/ s = UserStack /\ UNCHANGED stack_pool
           \/ stack_pool # <<>> /\ s = Head(stack_pool) /\ stack_pool' = Tail(stack_pool)
        /\ process' = IF d \in Members(head) THEN "corrupted" ELSE process
  BY DEF ThreadDataNew, RefCountNew
<1>2. /\ pc[t] = "counted" /\ Running /\ pc' = [pc EXCEPT ![t] = "allocated"]
      /\ UNCHANGED <<next, self, head, count, staged, g_thread_count, failures>>
      /\ UNCHANGED <<cursor, walking, found, stacks_at_fork, ended>>
  BY DEF ThreadDataNew, At, Goto, lists, childVars
<1>3. /\ d \in Td /\ d \in ToSet(td_pool) /\ td_pool' \in Seq(Td) /\ IsInjective(td_pool')
      /\ ToSet(td_pool') = ToSet(td_pool) \ {d}
  BY <1>1, PoolTake DEF IndInv, TypeOK, DataInv
<1>4. /\ s \in Stack \cup {UserStack} /\ stack_pool' \in Seq(Stack) /\ IsInjective(stack_pool')
      /\ ToSet(stack_pool') \subseteq ToSet(stack_pool) /\ s \notin ToSet(stack_pool')
      /\ s \in Stack => s \in ToSet(stack_pool)
  <2>1. stack_pool \in Seq(Stack) /\ IsInjective(stack_pool) /\ ToSet(stack_pool) \subseteq Stack
    BY DEF IndInv, TypeOK, StackInv, ToSet
  <2>2. CASE s = UserStack /\ UNCHANGED stack_pool
    BY <2>1, <2>2
  <2>3. CASE stack_pool # <<>> /\ s = Head(stack_pool) /\ stack_pool' = Tail(stack_pool)
    BY <2>1, <2>3, PoolTake
  <2> QED
    BY <1>1, <2>2, <2>3
<1>5. TypeOK'
  BY <1>1, <1>2, <1>3, <1>4 DEF IndInv, TypeOK, Place
<1>6. /\ pc'[t] = "allocated" /\ td_of'[t] = d
      /\ \A u \in Thread : u # t => pc'[u] = pc[u] /\ td_of'[u] = td_of[u]
      /\ stack'[d] = s /\ ref_count'[d] = 1
      /\ \A x \in Td : x # d => stack'[x] = stack[x] /\ ref_count'[x] = ref_count[x]
  BY <1>1, <1>2, <1>3 DEF IndInv, TypeOK
<1>7. /\ HasData' = HasData \cup {t} /\ HasStack' = HasStack \cup {t} /\ t \notin HasData /\ t \notin HasStack
      /\ Registered' = Registered /\ Staged' = Staged /\ Counted' = Counted
      /\ t \notin Registered /\ t \notin Staged
  BY <1>2, <1>6 DEF HasData, HasStack, Registered, Staged, Counted
<1>8. \A u \in HasData : td_of[u] # d /\ td_of[u] \in Td /\ u # t /\ u \in Thread
  BY <1>3, <1>7, OwnerFacts DEF IndInv, DataInv
<1>9. HasStack \subseteq HasData /\ Registered \subseteq HasData /\ Staged \subseteq HasData
  BY DEF HasStack, HasData, Registered, Staged
<1>10. DataInv'
  <2>1. d # MainTd /\ d \notin ToSet(td_pool') /\ MainTd \notin ToSet(td_pool')
    BY <1>3 DEF IndInv, DataInv
  <2>2. \A u \in Thread : u \in HasData' <=> td_of'[u] # NULL
    BY <1>3, <1>6, <1>7 DEF IndInv, DataInv
  <2>3. \A u \in HasData' : td_of'[u] \notin ToSet(td_pool') /\ td_of'[u] # MainTd
    BY <1>3, <1>6, <1>7, <1>8, <2>1 DEF IndInv, DataInv
  <2>4. \A u, v \in HasData' : td_of'[u] = td_of'[v] => u = v
    BY <1>6, <1>7, <1>8 DEF IndInv, DataInv
  <2> QED
    BY <1>3, <2>1, <2>2, <2>3, <2>4 DEF DataInv
<1>11. \A u \in HasStack : stack'[td_of'[u]] = stack[td_of[u]]
  BY <1>6, <1>8, <1>9
<1>12. StackInv'
  <2>1. \A u \in HasStack : stack[td_of[u]] \notin ToSet(stack_pool)
    BY DEF IndInv, StackInv
  <2>2. \A u \in HasStack' : stack'[td_of'[u]] \notin ToSet(stack_pool')
    BY <1>4, <1>6, <1>7, <1>11, <2>1
  <2>3. \A u, v \in HasStack' :
          stack'[td_of'[u]] = stack'[td_of'[v]] /\ stack'[td_of'[u]] \in Stack => u = v
    <3> SUFFICES ASSUME NEW u \in HasStack', NEW v \in HasStack',
                        stack'[td_of'[u]] = stack'[td_of'[v]], stack'[td_of'[u]] \in Stack
                 PROVE  u = v
      OBVIOUS
    <3>1. CASE u # t /\ v # t
      BY <1>7, <1>11, <3>1 DEF IndInv, StackInv
    <3>2. CASE u = t /\ v # t
      BY <1>4, <1>6, <1>7, <1>11, <2>1, <3>2
    <3>3. CASE u # t /\ v = t
      BY <1>4, <1>6, <1>7, <1>11, <2>1, <3>3
    <3> QED
      BY <3>1, <3>2, <3>3
  <2> QED
    BY <1>4, <2>2, <2>3 DEF StackInv
<1>13. ListInv'
  <2>1. Running' => d \notin Reach(next, head)
    <3>1. Members(head) = Reach(next, head)
      BY ChainIsReach, OwnerFacts DEF IndInv, TypeOK
    <3> QED
      BY <1>1, <3>1 DEF Running
  <2>2. Running' => \A u \in Thread : pc'[u] = "allocated" => td_of'[u] \notin Reach(next, head)
    BY <1>2, <1>6, <2>1 DEF IndInv, ListInv
  <2>3. \A u \in Thread : pc'[u] = "removed" => td_of'[u] \notin Reach(next, head)
    BY <1>6 DEF IndInv, ListInv
  <2>4. \A u \in Registered \cup Staged : td_of'[u] = td_of[u]
    BY <1>6, <1>8, <1>9
  <2> QED
    BY <1>2, <1>7, <2>2, <2>3, <2>4 DEF IndInv, ListInv
<1>14. StagedInv'
  <2>1. \A u \in HasData : td_of'[u] = td_of[u] /\ ref_count'[td_of'[u]] = ref_count[td_of[u]]
    BY <1>6, <1>8
  <2>2. {td_of'[u] : u \in Staged'} = {td_of[u] : u \in Staged}
    BY <1>7, <1>9, <2>1
  <2>3. \A u \in Thread : pc'[u] \in {"active", "inactive", "removed"} \/ u \in Staged' => self'[td_of'[u]] = u
    <3>1. \A u \in Thread : pc[u] \in {"active", "inactive", "removed"} => u \in HasData
      BY DEF HasData
    <3> QED
      BY <1>2, <1>6, <1>7, <1>9, <2>1, <3>1 DEF IndInv, StagedInv
  <2>4. \A u \in HasData' : pc'[u] \in {"allocated", "listed", "created", "active", "inactive", "removed"} =>
          ref_count'[td_of'[u]] = 1
    BY <1>6, <1>7, <1>8, <2>1 DEF IndInv, StagedInv
  <2>5. \A u \in Staged' : ref_count'[td_of'[u]] = 0
    BY <1>7, <1>9, <2>1 DEF IndInv, StagedInv
  <2> QED
    BY <1>2, <2>2, <2>3, <2>4, <2>5 DEF IndInv, StagedInv
<1>15. CountInv'
  <2>1. Running' => Running
    BY <1>2
  <2> QED
    BY <1>2, <1>7, <2>1, CountFrame DEF IndInv
<1>16. ChildInv'
  <2>1. \A u \in Thread : pc[u] \in {"active", "inactive"} =>
          pc'[u] = pc[u] /\ td_of'[u] = td_of[u] /\ stack'[td_of'[u]] = stack[td_of[u]]
    <3>1. \A u \in Thread : pc[u] \in {"active", "inactive"} => u \in HasStack
      BY DEF HasStack
    <3> QED
      BY <1>6, <1>8, <1>9, <1>11, <3>1
  <2> QED
    BY <1>2, <2>1 DEF IndInv, ChildInv
<1> QED
  BY <1>2, <1>5, <1>10, <1>12, <1>13, <1>14, <1>15, <1>16 DEF IndInv

\* The block is put on the thread list.
LEMMA ListAddInv ==
  ASSUME IndInv, NEW t \in Thread, ListAdd(t)
  PROVE  IndInv'
<1> USE ThreadsAssumption
<1>1. PICK d : d = td_of[t]
  OBVIOUS
<1>2. /\ pc[t] = "allocated" /\ Running /\ pc' = [pc EXCEPT ![t] = "listed"]
      /\ next' = [next EXCEPT ![d] = head] /\ head' = d /\ count' = count + 1
      /\ UNCHANGED <<process, td_of, self, is_active, ref_count, stack, staged, g_thread_count>>
      /\ UNCHANGED <<td_pool, stack_pool, failures, cursor, walking, found, stacks_at_fork, ended>>
  BY <1>1 DEF ListAdd, At, Goto, pools, childVars
<1>3. /\ t \in HasData /\ d \in Td /\ d \notin Reach(next, head)
      /\ next \in Links /\ Acyclic(next) /\ head \in Td /\ staged \in Td \cup {NULL} /\ cursor \in Td \cup {NULL}
  BY <1>1, <1>2, OwnerFacts DEF IndInv, ListInv, TypeOK
<1>4. next' \in Links /\ Acyclic(next') /\ Reach(next', head') = Reach(next, head) \cup {d}
  <2>1. head \in Td \cup {NULL}
    BY <1>3
  <2>2. next' \in Links /\ Acyclic(next') /\ Reach(next', d) = Reach(next, head) \cup {d}
    <3>1. next' \in Links /\ next'[d] = head /\ \A x \in Td : x # d => next'[x] = next[x]
      BY <1>2, <1>3 DEF Links
    <3> QED
      BY <1>3, <2>1, <3>1, PushReach
  <2> QED
    BY <1>2, <2>2
<1>5. TypeOK'
  BY <1>2, <1>3, <1>4 DEF IndInv, TypeOK, Place, Links
<1>6. pc'[t] = "listed" /\ \A u \in Thread : u # t => pc'[u] = pc[u]
  BY <1>2 DEF IndInv, TypeOK
<1>7. /\ HasData' = HasData /\ HasStack' = HasStack /\ Staged' = Staged /\ Counted' = Counted
      /\ Registered' = Registered \cup {t} /\ t \notin Registered /\ t \notin Staged
  BY <1>2, <1>6 DEF HasData, HasStack, Registered, Staged, Counted
<1>8. \A u \in HasData : u # t => td_of[u] # d
  BY <1>1, <1>3 DEF IndInv, DataInv
<1>9. DataInv' /\ StackInv'
  BY <1>2, <1>7, DataFrame, StackFrame DEF IndInv
<1>10. ListInv'
  <2>1. \A u \in Thread : u # t /\ pc[u] \in {"removed", "allocated"} => u \in HasData
    BY DEF HasData
  <2>2. \A u \in Staged : u \in HasData /\ u # t
    BY <1>7, OwnerFacts
  <2>3. \A u \in Registered' : td_of'[u] \in Reach(next', head')
    BY <1>1, <1>2, <1>4, <1>7 DEF IndInv, ListInv
  <2>4. \A u \in Staged' : td_of'[u] \notin Reach(next', head')
    BY <1>2, <1>4, <1>7, <1>8, <2>2 DEF IndInv, ListInv
  <2>5. \A u \in Thread : pc'[u] = "removed" => td_of'[u] \notin Reach(next', head')
    BY <1>2, <1>4, <1>6, <1>8, <2>1 DEF IndInv, ListInv
  <2>6. \A u \in Thread : pc'[u] = "allocated" => td_of'[u] \notin Reach(next', head')
    BY <1>2, <1>4, <1>6, <1>8, <2>1 DEF IndInv, ListInv
  <2>7. failures' = 0 => \A x \in Reach(next', head') : x = MainTd \/ \E u \in Registered' : td_of'[u] = x
    BY <1>1, <1>2, <1>4, <1>7 DEF IndInv, ListInv
  <2>8. MainTd \in Reach(next', head')
    BY <1>4 DEF IndInv, ListInv
  <2> QED
    BY <2>3, <2>4, <2>5, <2>6, <2>7, <2>8 DEF ListInv
<1>11. StagedInv'
  <2>1. d \notin Reach(next, staged)
    BY <1>7, <1>8, OwnerFacts DEF IndInv, StagedInv
  <2>2. \A x \in Reach(next, staged) : next'[x] = next[x]
    BY <1>2, <1>3, <2>1, OwnerFacts DEF Links
  <2>3. Reach(next', staged) = Reach(next, staged)
    BY <1>3, <1>4, <2>2, ReachAgree
  <2>4. \A u \in Thread : pc'[u] \in {"active", "inactive", "removed"} \/ u \in Staged' => self'[td_of'[u]] = u
    BY <1>2, <1>6, <1>7 DEF IndInv, StagedInv
  <2>5. \A u \in HasData' : pc'[u] \in {"allocated", "listed", "created", "active", "inactive", "removed"} =>
          ref_count'[td_of'[u]] = 1
    <3>1. \A u \in HasData : u \in Thread
      BY OwnerFacts
    <3> QED
      BY <1>2, <1>6, <1>7, <3>1 DEF IndInv, StagedInv
  <2>6. /\ Reach(next', staged') = {td_of'[u] : u \in Staged'}
        /\ \A u \in Staged' : ref_count'[td_of'[u]] = 0
    <3>1. {td_of'[u] : u \in Staged'} = {td_of[u] : u \in Staged}
      BY <1>2, <1>7
    <3>2. Reach(next, staged) = {td_of[u] : u \in Staged}
      BY DEF IndInv, StagedInv
    <3>3. \A u \in Staged' : ref_count'[td_of'[u]] = 0
      BY <1>2, <1>7 DEF IndInv, StagedInv
    <3> QED
      BY <1>2, <2>3, <3>1, <3>2, <3>3
  <2> QED
    BY <2>4, <2>5, <2>6 DEF StagedInv
<1>12. CountInv'
  <2>1. Cardinality(Registered') = Cardinality(Registered) + 1 /\ Cardinality(Registered) \in Nat
    BY <1>7, ThreadSets DEF Registered
  <2>2. Cardinality(Reach(next', head')) = Cardinality(Reach(next, head)) + 1
    <3>1. IsFiniteSet(Reach(next, head))
      BY OwnerFacts, FS_Subset
    <3> QED
      BY <1>3, <1>4, <3>1, FS_AddElement
  <2>3. count' = 1 + Cardinality(Registered') + failures'
    <3>1. count = 1 + Cardinality(Registered) + failures /\ failures \in Nat
      BY DEF IndInv, CountInv, TypeOK
    <3> QED
      BY <1>2, <2>1, <3>1
  <2> QED
    BY <1>2, <1>7, <2>2, <2>3 DEF IndInv, CountInv, Running
<1>13. ChildInv'
  <2>1. ASSUME walking, ended = {}
        PROVE  Reach(next', cursor) = Reach(next, cursor) /\ Reach(next, cursor) \subseteq Reach(next, head)
    <3>1. Reach(next, cursor) \subseteq Reach(next, head)
      BY <2>1 DEF IndInv, ChildInv
    <3>2. \A x \in Reach(next, cursor) : next'[x] = next[x]
      BY <1>2, <1>3, <3>1, OwnerFacts DEF Links
    <3> QED
      BY <1>3, <1>4, <3>1, <3>2, ReachAgree
  <2>2. \A u \in Thread : pc[u] \in {"active", "inactive"} => pc'[u] = pc[u]
    BY <1>2, <1>6
  <2> QED
    BY <1>2, <1>4, <2>1, <2>2 DEF IndInv, ChildInv
<1> QED
  BY <1>4, <1>5, <1>9, <1>10, <1>11, <1>12, <1>13 DEF IndInv

\* pthread_create returns, or the thread comes to life or to the end of its
\* user routine, or has ended: only the thread's place and its own fields change.
LEMMA ThreadMoveInv ==
  ASSUME IndInv, NEW t \in Thread,
         CreateSucceeds(t) \/ ThreadBase(t) \/ Deactivate(t) \/ PthreadExit(t)
  PROVE  IndInv'
<1> USE ThreadsAssumption
<1>1. /\ \/ pc[t] = "listed" /\ pc' = [pc EXCEPT ![t] = "created"]
         \/ pc[t] = "created" /\ pc' = [pc EXCEPT ![t] = "active"]
         \/ pc[t] = "active" /\ pc' = [pc EXCEPT ![t] = "inactive"]
         \/ pc[t] = "uncounted" /\ pc' = [pc EXCEPT ![t] = "over"]
      /\ Running
      /\ UNCHANGED <<process, td_of, next, ref_count, stack, head, count, staged, g_thread_count>>
      /\ UNCHANGED <<td_pool, stack_pool, failures, cursor, walking, found, stacks_at_fork, ended>>
  BY DEF CreateSucceeds, ThreadBase, Deactivate, PthreadExit, At, Goto, fields, lists, pools, childVars
<1>2. /\ self' = IF pc[t] = "created" THEN [self EXCEPT ![td_of[t]] = t] ELSE self
      /\ \E v \in BOOLEAN : is_active' = [is_active EXCEPT ![td_of[t]] = v] \/ is_active' = is_active
  BY DEF CreateSucceeds, ThreadBase, Deactivate, PthreadExit, At, fields
<1>3. t \in HasData /\ td_of[t] \in Td
  BY <1>1, OwnerFacts
<1>4. TypeOK'
  BY <1>1, <1>2, <1>3 DEF IndInv, TypeOK, Place
<1>5. \A u \in Thread : u # t => pc'[u] = pc[u]
  BY <1>1 DEF IndInv, TypeOK
<1>6. \/ pc[t] = "listed" /\ pc'[t] = "created"
      \/ pc[t] = "created" /\ pc'[t] = "active"
      \/ pc[t] = "active" /\ pc'[t] = "inactive"
      \/ pc[t] = "uncounted" /\ pc'[t] = "over"
  BY <1>1 DEF IndInv, TypeOK
<1>7. /\ HasData' = HasData /\ HasStack' = HasStack /\ Registered' = Registered /\ Staged' = Staged
      /\ Counted' = Counted
  BY <1>5, <1>6 DEF HasData, HasStack, Registered, Staged, Counted
<1>8. DataInv' /\ StackInv'
  BY <1>1, <1>7, DataFrame, StackFrame DEF IndInv
<1>9. ListInv'
  BY <1>1, <1>5, <1>6, <1>7, ListFrame DEF IndInv, Running
<1>10. CountInv'
  BY <1>1, <1>7, CountFrame DEF IndInv, Running
<1>11. ChildInv'
  BY <1>1, <1>5, <1>6, ChildFrame DEF IndInv
<1>12. StagedInv'
  <2>1. \A u \in Thread : pc'[u] \in {"active", "inactive", "removed"} \/ u \in Staged' => self'[td_of'[u]] = u
    <3> SUFFICES ASSUME NEW u \in Thread, pc'[u] \in {"active", "inactive", "removed"} \/ u \in Staged'
                 PROVE  self'[td_of[u]] = u
      BY <1>1
    <3>1. CASE pc[t] = "created" /\ u = t
      BY <1>2, <1>3, <3>1 DEF IndInv, TypeOK
    <3>2. CASE ~(pc[t] = "created" /\ u = t)
      <4>1. pc[u] \in {"active", "inactive", "removed"} \/ u \in Staged
        BY <1>5, <1>6, <1>7, <3>2
      <4>2. self[td_of[u]] = u
        BY <4>1 DEF IndInv, StagedInv
      <4>3. u \in HasData
        BY <4>1 DEF Staged, HasData
      <4>4. pc[t] = "created" => td_of[u] # td_of[t]
        BY <1>3, <3>2, <4>3 DEF IndInv, DataInv
      <4>5. td_of[u] \in Td
        BY <4>3, OwnerFacts
      <4> QED
        BY <1>2, <4>2, <4>4, <4>5 DEF IndInv, TypeOK
    <3> QED
      BY <3>1, <3>2
  <2>2. \A u \in HasData' : pc'[u] \in {"allocated", "listed", "created", "active", "inactive", "removed"} =>
          ref_count'[td_of'[u]] = 1
    <3>1. \A u \in HasData : u \in Thread
      BY OwnerFacts
    <3> QED
      BY <1>1, <1>5, <1>6, <1>7, <3>1 DEF IndInv, StagedInv
  <2> QED
    BY <1>1, <1>7, <2>1, <2>2 DEF IndInv, StagedInv
<1> QED
  BY <1>1, <1>4, <1>8, <1>9, <1>10, <1>11, <1>12 DEF IndInv

\* The block of a creation that failed stays on the list; the failure counts.
LEMMA CreateFailsInv ==
  ASSUME IndInv, NEW t \in Thread, CreateFails(t)
  PROVE  IndInv'
<1>1. /\ pc[t] = "listed" /\ Running /\ pc' = [pc EXCEPT ![t] = "free_stack"]
      /\ failures' = failures + 1
      /\ UNCHANGED <<process, td_of, next, self, is_active, ref_count, stack, head, count, staged>>
      /\ UNCHANGED <<g_thread_count, td_pool, stack_pool, cursor, walking, found, stacks_at_fork, ended>>
  BY DEF CreateFails, At, Goto, fields, lists, pools, childVars
<1>2. TypeOK'
  BY <1>1 DEF IndInv, TypeOK, Place
<1>3. pc'[t] = "free_stack" /\ \A u \in Thread : u # t => pc'[u] = pc[u]
  BY <1>1 DEF IndInv, TypeOK
<1>4. /\ HasData' = HasData /\ HasStack' = HasStack /\ Staged' = Staged
      /\ Registered' = Registered \ {t} /\ t \in Registered
      /\ Counted' = Counted \ {t} /\ t \in Counted
  BY <1>1, <1>3 DEF HasData, HasStack, Registered, Staged, Counted
<1>5. failures \in Nat /\ failures' # 0
  <2>1. failures \in Nat
    BY DEF IndInv, TypeOK
  <2> QED
    BY <1>1, <2>1
<1>6. DataInv' /\ StackInv' /\ ChildInv'
  BY <1>1, <1>3, <1>4, DataFrame, StackFrame, ChildFrame DEF IndInv
<1>7. StagedInv'
  BY <1>1, <1>3, <1>4, StagedFrame DEF IndInv
<1>8. ListInv'
  <2>1. \A u \in Thread : pc'[u] \in {"removed", "allocated"} => pc[u] = pc'[u]
    BY <1>3
  <2> QED
    BY <1>1, <1>4, <1>5, <2>1 DEF IndInv, ListInv
<1>9. CountInv'
  <2>1. /\ Cardinality(Registered') = Cardinality(Registered) - 1 /\ Cardinality(Registered) \in Nat
        /\ Cardinality(Counted') = Cardinality(Counted) - 1 /\ Cardinality(Counted) \in Nat
    BY <1>4, ThreadSets DEF Registered, Counted
  <2>2. /\ count = 1 + Cardinality(Registered) + failures
        /\ g_thread_count = 1 + Cardinality(Counted) + failures
        /\ g_thread_count <= MaxThreadCount + 1 /\ count = Cardinality(Reach(next, head))
    BY <1>1 DEF IndInv, CountInv
  <2>3. /\ count' = 1 + Cardinality(Registered') + failures'
        /\ g_thread_count' = 1 + Cardinality(Counted') + failures'
    BY <1>1, <1>5, <2>1, <2>2
  <2> QED
    BY <1>1, <2>2, <2>3 DEF CountInv
<1> QED
  BY <1>1, <1>2, <1>6, <1>7, <1>8, <1>9 DEF IndInv

\* The thread takes its block off the thread list.
LEMMA ListRemoveInv ==
  ASSUME IndInv, NEW t \in Thread, ListRemove(t)
  PROVE  IndInv'
<1> USE ThreadsAssumption
<1>1. PICK d : d = td_of[t]
  OBVIOUS
<1>2. /\ next \in Links /\ Acyclic(next) /\ head \in Td /\ staged \in Td \cup {NULL} /\ cursor \in Td \cup {NULL}
      /\ Members(head) = Reach(next, head) /\ Members(cursor) = Reach(next, cursor)
  <2>1. /\ next \in Links /\ Acyclic(next) /\ head \in Td /\ staged \in Td \cup {NULL}
        /\ cursor \in Td \cup {NULL}
    BY OwnerFacts DEF IndInv, TypeOK
  <2> QED
    BY <2>1, ChainIsReach
<1>3. /\ pc[t] = "inactive" /\ Running /\ pc' = [pc EXCEPT ![t] = "removed"] /\ count' = count - 1
      /\ UNCHANGED <<process, td_of, self, is_active, ref_count, stack, staged, g_thread_count>>
      /\ UNCHANGED <<td_pool, stack_pool, failures, cursor, walking, found, stacks_at_fork>>
  BY DEF ListRemove, At, Goto, pools
<1>4. /\ ended' = IF d \in Reach(next, cursor) THEN ended \cup {t} ELSE ended
      /\ IF head = d THEN head' = next[d] /\ next' = next
         ELSE /\ next' = [x \in Td |-> IF x \in Reach(next, head) /\ next[x] = d THEN next[d] ELSE next[x]]
              /\ head' = head
  BY <1>1, <1>2 DEF ListRemove
<1>5. t \in HasData /\ t \in Registered /\ d \in Td /\ d \in Reach(next, head) /\ d # MainTd
  <2>1. t \in HasData /\ t \in Registered
    BY <1>3 DEF HasData, Registered
  <2> QED
    BY <1>1, <2>1, OwnerFacts DEF IndInv, DataInv, ListInv
<1>6. /\ next' \in Links /\ Acyclic(next') /\ head' \in Td \cup {NULL}
      /\ Reach(next', head') = Reach(next, head) \ {d}
      /\ \A x \in Td : next'[x] # next[x] => x \in Reach(next, head) /\ next[x] = d
  BY <1>2, <1>4, <1>5, RemoveReach
<1>7. MainTd \in Reach(next', head')
  BY <1>5, <1>6 DEF IndInv, ListInv
<1>8. head' \in Td
  BY <1>6, <1>7, ReachNull
<1>9. TypeOK'
  <2>1. count' \in Nat
    <3>1. Cardinality(Registered) \in Nat /\ Cardinality(Registered) >= 1
      BY <1>5, ThreadSets DEF Registered
    <3>2. count = 1 + Cardinality(Registered) + failures /\ failures \in Nat
      BY DEF IndInv, CountInv, TypeOK
    <3> QED
      BY <1>3, <3>1, <3>2
  <2>2. ended' \in SUBSET Thread
    BY <1>4 DEF IndInv, TypeOK
  <2> QED
    BY <1>3, <1>6, <1>8, <2>1, <2>2 DEF IndInv, TypeOK, Place, Links
<1>10. pc'[t] = "removed" /\ \A u \in Thread : u # t => pc'[u] = pc[u]
  BY <1>3 DEF IndInv, TypeOK
<1>11. /\ HasData' = HasData /\ HasStack' = HasStack /\ Staged' = Staged /\ Counted' = Counted
       /\ Registered' = Registered \ {t} /\ t \notin Staged
  BY <1>3, <1>10 DEF HasData, HasStack, Registered, Staged, Counted
<1>12. \A u \in HasData : u # t => td_of[u] # d
  BY <1>1, <1>5 DEF IndInv, DataInv
<1>13. DataInv' /\ StackInv'
  BY <1>3, <1>11, DataFrame, StackFrame DEF IndInv
<1>14. ListInv'
  <2>1. \A u \in Registered' : td_of'[u] \in Reach(next', head')
    BY <1>3, <1>6, <1>11, <1>12, OwnerFacts DEF IndInv, ListInv
  <2>2. \A u \in Staged' : td_of'[u] \notin Reach(next', head')
    BY <1>3, <1>6, <1>11 DEF IndInv, ListInv
  <2>3. \A u \in Thread : pc'[u] = "removed" => td_of'[u] \notin Reach(next', head')
    BY <1>1, <1>3, <1>6, <1>10 DEF IndInv, ListInv
  <2>4. \A u \in Thread : pc'[u] = "allocated" => td_of'[u] \notin Reach(next', head')
    BY <1>3, <1>6, <1>10 DEF IndInv, ListInv
  <2>5. failures' = 0 => \A x \in Reach(next', head') : x = MainTd \/ \E u \in Registered' : td_of'[u] = x
    BY <1>1, <1>3, <1>6, <1>11 DEF IndInv, ListInv
  <2> QED
    BY <1>7, <2>1, <2>2, <2>3, <2>4, <2>5 DEF ListInv
<1>15. StagedInv'
  <2>1. \A x \in Reach(next, staged) : x \notin Reach(next, head)
    BY DEF IndInv, StagedInv, ListInv
  <2>2. \A x \in Reach(next, staged) : next'[x] = next[x]
    BY <1>6, <2>1, OwnerFacts
  <2>3. Reach(next', staged) = Reach(next, staged)
    BY <1>2, <1>6, <2>2, ReachAgree
  <2>4. \A u \in Thread : pc'[u] \in {"active", "inactive", "removed"} \/ u \in Staged' => self'[td_of'[u]] = u
    BY <1>3, <1>10, <1>11 DEF IndInv, StagedInv
  <2>5. \A u \in HasData' : pc'[u] \in {"allocated", "listed", "created", "active", "inactive", "removed"} =>
          ref_count'[td_of'[u]] = 1
    <3>1. \A u \in HasData : u \in Thread
      BY OwnerFacts
    <3> QED
      BY <1>3, <1>10, <1>11, <3>1 DEF IndInv, StagedInv
  <2>6. \A u \in Staged' : ref_count'[td_of'[u]] = 0
    BY <1>3, <1>11 DEF IndInv, StagedInv
  <2>7. {td_of'[u] : u \in Staged'} = {td_of[u] : u \in Staged}
    BY <1>3, <1>11
  <2>8. Reach(next, staged) = {td_of[u] : u \in Staged}
    BY DEF IndInv, StagedInv
  <2>9. Reach(next', staged') = {td_of'[u] : u \in Staged'}
    BY <1>3, <2>3, <2>7, <2>8
  <2> QED
    BY <2>4, <2>5, <2>6, <2>9 DEF StagedInv
<1>16. CountInv'
  <2>1. Cardinality(Registered') = Cardinality(Registered) - 1 /\ Cardinality(Registered) \in Nat
    BY <1>5, <1>11, ThreadSets DEF Registered
  <2>2. Cardinality(Reach(next', head')) = Cardinality(Reach(next, head)) - 1
    <3>1. IsFiniteSet(Reach(next, head))
      BY OwnerFacts, FS_Subset
    <3> QED
      BY <1>5, <1>6, <3>1, FS_RemoveElement
  <2>3. count' = 1 + Cardinality(Registered') + failures'
    <3>1. count = 1 + Cardinality(Registered) + failures /\ failures \in Nat
      BY DEF IndInv, CountInv, TypeOK
    <3> QED
      BY <1>3, <2>1, <3>1
  <2> QED
    BY <1>3, <1>11, <2>2, <2>3 DEF IndInv, CountInv, Running
<1>17. ChildInv'
  <2>1. ended' = {} => d \notin Reach(next, cursor) /\ ended = {}
    BY <1>4
  <2>2. ASSUME walking, ended' = {}
        PROVE  /\ Reach(next', cursor) = Reach(next, cursor)
               /\ Reach(next, cursor) \subseteq Reach(next', head')
    <3>1. Reach(next, cursor) \subseteq Reach(next, head)
      BY <2>1, <2>2 DEF IndInv, ChildInv
    <3>2. \A x \in Reach(next, cursor) : next[x] \in Reach(next, cursor) \cup {NULL} /\ x \in Td
      BY <1>2, ReachBasic DEF Closed
    <3>3. \A x \in Reach(next, cursor) : next[x] # d
      BY <1>5, <2>1, <2>2, <3>2
    <3>4. \A x \in Reach(next, cursor) : next'[x] = next[x]
      BY <1>6, <3>2, <3>3
    <3> QED
      BY <1>2, <1>6, <2>1, <2>2, <3>1, <3>4, ReachAgree
  <2>3. ASSUME ~walking PROVE ended' = {}
    <3>1. cursor = NULL /\ ended = {}
      BY <2>3 DEF IndInv, ChildInv
    <3> QED
      BY <1>2, <1>4, <3>1, ReachNull
  <2>4. ASSUME walking, ended' = {}, NEW s \in stacks_at_fork \ found
        PROVE  \E u \in Thread : /\ pc'[u] \in {"active", "inactive"} /\ stack[td_of[u]] = s
                                 /\ td_of[u] \in Reach(next', cursor)
    <3>1. PICK u \in Thread : /\ pc[u] \in {"active", "inactive"} /\ stack[td_of[u]] = s
                              /\ td_of[u] \in Reach(next, cursor)
      BY <2>1, <2>4 DEF IndInv, ChildInv
    <3>2. u # t
      BY <1>1, <2>1, <2>4, <3>1
    <3> QED
      BY <1>10, <2>2, <2>4, <3>1, <3>2
  <2> QED
    BY <1>3, <2>1, <2>2, <2>3, <2>4 DEF IndInv, ChildInv
<1> QED
  BY <1>6, <1>9, <1>13, <1>14, <1>15, <1>16, <1>17 DEF IndInv

\* The last reference goes, and the block is staged.
LEMMA DecrRefInv ==
  ASSUME IndInv, NEW t \in Thread, DecrRef(t)
  PROVE  IndInv'
<1> USE ThreadsAssumption
<1>1. PICK d : d = td_of[t]
  OBVIOUS
<1>2. /\ pc[t] = "removed" /\ Running /\ pc' = [pc EXCEPT ![t] = "staged"]
      /\ ref_count' = [ref_count EXCEPT ![d] = ref_count[d] - 1]
      /\ UNCHANGED <<process, td_of, self, is_active, stack, head, count, g_thread_count>>
      /\ UNCHANGED <<td_pool, stack_pool, failures, cursor, walking, found, stacks_at_fork, ended>>
  BY <1>1 DEF DecrRef, At, Goto, pools, childVars
<1>3. /\ t \in HasData /\ d \in Td /\ d \notin Reach(next, head) /\ ref_count[d] = 1
      /\ next \in Links /\ Acyclic(next) /\ head \in Td /\ staged \in Td \cup {NULL} /\ cursor \in Td \cup {NULL}
  <2>1. t \in HasData
    BY <1>2 DEF HasData
  <2> QED
    BY <1>1, <1>2, <2>1, OwnerFacts DEF IndInv, ListInv, StagedInv, TypeOK
<1>4. ref_count' \in [Td -> 0 .. 1] /\ ref_count'[d] = 0 /\ \A x \in Td : x # d => ref_count'[x] = ref_count[x]
  <2>1. ref_count \in [Td -> 0 .. 1] /\ 0 \in 0 .. 1
    BY DEF IndInv, TypeOK
  <2> QED
    BY <1>2, <1>3, <2>1
<1>5. next' = [next EXCEPT ![d] = staged] /\ staged' = d
  BY <1>1, <1>4 DEF DecrRef
<1>6. \A u \in HasData : u # t => td_of[u] # d
  BY <1>1, <1>3 DEF IndInv, DataInv
<1>7. d \notin Reach(next, staged)
  <2>1. \A u \in Staged : u \in HasData /\ u # t
    BY <1>2, OwnerFacts DEF Staged
  <2> QED
    BY <1>6, <2>1 DEF IndInv, StagedInv
<1>8. next' \in Links /\ next'[d] = staged /\ \A x \in Td : x # d => next'[x] = next[x]
  BY <1>3, <1>5 DEF Links
<1>9. Acyclic(next') /\ Reach(next', d) = Reach(next, staged) \cup {d}
  BY <1>3, <1>7, <1>8, PushReach
<1>10. Reach(next', head) = Reach(next, head)
  <2>1. \A x \in Reach(next, head) : next'[x] = next[x]
    BY <1>3, <1>8, OwnerFacts
  <2> QED
    BY <1>3, <1>8, <2>1, ReachAgree
<1>11. TypeOK'
  BY <1>2, <1>3, <1>4, <1>5, <1>8 DEF IndInv, TypeOK, Place, Links
<1>12. pc'[t] = "staged" /\ \A u \in Thread : u # t => pc'[u] = pc[u]
  BY <1>2 DEF IndInv, TypeOK
<1>13. /\ HasData' = HasData /\ HasStack' = HasStack /\ Registered' = Registered /\ Counted' = Counted
       /\ Staged' = Staged \cup {t} /\ t \notin Staged /\ Staged \subseteq HasData
  BY <1>2, <1>12 DEF HasData, HasStack, Registered, Staged, Counted
<1>14. DataInv' /\ StackInv'
  BY <1>2, <1>13, DataFrame, StackFrame DEF IndInv
<1>15. ListInv'
  BY <1>1, <1>2, <1>3, <1>10, <1>12, <1>13 DEF IndInv, ListInv
<1>16. StagedInv'
  <2>1. \A u \in HasData : u # t => td_of[u] \in Td /\ ref_count'[td_of[u]] = ref_count[td_of[u]]
    BY <1>4, <1>6, OwnerFacts
  <2>2. \A u \in Thread : pc'[u] \in {"active", "inactive", "removed"} \/ u \in Staged' => self'[td_of'[u]] = u
    BY <1>2, <1>12, <1>13 DEF IndInv, StagedInv
  <2>3. \A u \in HasData' : pc'[u] \in {"allocated", "listed", "created", "active", "inactive", "removed"} =>
          ref_count'[td_of'[u]] = 1
    <3>1. \A u \in HasData : u \in Thread
      BY OwnerFacts
    <3> QED
      BY <1>2, <1>12, <1>13, <2>1, <3>1 DEF IndInv, StagedInv
  <2>4. \A u \in Staged' : ref_count'[td_of'[u]] = 0
    BY <1>1, <1>2, <1>4, <1>13, <2>1 DEF IndInv, StagedInv
  <2>5. Reach(next', staged') = {td_of'[u] : u \in Staged'}
    <3>1. {td_of'[u] : u \in Staged'} = {td_of[u] : u \in Staged} \cup {d}
      BY <1>1, <1>2, <1>13
    <3>2. Reach(next, staged) = {td_of[u] : u \in Staged}
      BY DEF IndInv, StagedInv
    <3> QED
      BY <1>5, <1>9, <3>1, <3>2
  <2> QED
    BY <2>2, <2>3, <2>4, <2>5 DEF StagedInv
<1>17. CountInv'
  BY <1>2, <1>10, <1>13 DEF IndInv, CountInv, Running
<1>18. ChildInv'
  <2>1. ASSUME walking, ended = {}
        PROVE  Reach(next', cursor) = Reach(next, cursor) /\ Reach(next, cursor) \subseteq Reach(next, head)
    <3>1. Reach(next, cursor) \subseteq Reach(next, head)
      BY <2>1 DEF IndInv, ChildInv
    <3>2. \A x \in Reach(next, cursor) : next'[x] = next[x]
      BY <1>3, <1>8, <3>1, OwnerFacts
    <3> QED
      BY <1>3, <1>8, <3>1, <3>2, ReachAgree
  <2>2. \A u \in Thread : pc[u] \in {"active", "inactive"} => pc'[u] = pc[u]
    BY <1>2, <1>12
  <2> QED
    BY <1>2, <1>10, <2>1, <2>2 DEF IndInv, ChildInv
<1> QED
  BY <1>9, <1>11, <1>14, <1>15, <1>16, <1>17, <1>18 DEF IndInv

\* The thread is not counted any more.
LEMMA UncountThreadInv ==
  ASSUME IndInv, NEW t \in Thread, UncountThread(t)
  PROVE  IndInv'
<1>1. /\ pc[t] = "staged" /\ Running /\ pc' = [pc EXCEPT ![t] = "uncounted"]
      /\ g_thread_count' = g_thread_count - 1
      /\ UNCHANGED <<process, td_of, next, self, is_active, ref_count, stack, head, count, staged>>
      /\ UNCHANGED <<td_pool, stack_pool, failures, cursor, walking, found, stacks_at_fork, ended>>
  BY DEF UncountThread, At, Goto, fields, lists, pools, childVars
<1>2. pc'[t] = "uncounted" /\ \A u \in Thread : u # t => pc'[u] = pc[u]
  BY <1>1 DEF IndInv, TypeOK
<1>3. /\ HasData' = HasData /\ HasStack' = HasStack /\ Registered' = Registered /\ Staged' = Staged
      /\ Counted' = Counted \ {t} /\ t \in Counted
  BY <1>1, <1>2 DEF HasData, HasStack, Registered, Staged, Counted
<1>4. /\ g_thread_count' = 1 + Cardinality(Counted') + failures'
      /\ g_thread_count' <= MaxThreadCount + 1 /\ g_thread_count' \in Nat
  <2>1. /\ Cardinality(Counted') = Cardinality(Counted) - 1 /\ Cardinality(Counted) \in Nat
        /\ Cardinality(Counted) >= 1
    BY <1>3, ThreadSets DEF Counted
  <2>2. /\ g_thread_count = 1 + Cardinality(Counted) + failures /\ failures \in Nat
        /\ g_thread_count <= MaxThreadCount + 1 /\ MaxThreadCount \in Nat
    BY <1>1, ThreadsAssumption DEF IndInv, CountInv, TypeOK
  <2> QED
    BY <1>1, <2>1, <2>2
<1>5. TypeOK'
  BY <1>1, <1>4 DEF IndInv, TypeOK, Place
<1>6. DataInv' /\ StackInv' /\ ChildInv'
  BY <1>1, <1>2, <1>3, DataFrame, StackFrame, ChildFrame DEF IndInv
<1>7. StagedInv'
  BY <1>1, <1>2, <1>3, StagedFrame DEF IndInv
<1>8. ListInv'
  BY <1>1, <1>2, <1>3, ListFrame DEF IndInv, Running
<1>9. CountInv'
  BY <1>1, <1>3, <1>4 DEF IndInv, CountInv
<1> QED
  BY <1>1, <1>5, <1>6, <1>7, <1>8, <1>9 DEF IndInv

\* Among the staged blocks the one with the name of a thread that is over is the
\* block that thread used.
LEMMA JoinFinds ==
  ASSUME IndInv, NEW t \in Thread, pc[t] = "over"
  PROVE  StagedOf(t) # {} /\ StagedBlock(t) = td_of[t]
<1> USE ThreadsAssumption
<1>1. next \in Links /\ Acyclic(next) /\ staged \in Td \cup {NULL}
  BY OwnerFacts DEF IndInv, TypeOK
<1>2. PICK c : c = Chain(staged)
  OBVIOUS
<1>3. c \in Seq(Td \cup {NULL}) /\ ToSet(c) = Reach(next, staged) \cup {NULL}
  BY <1>1, <1>2, ChainIsReach
<1>4. t \in Staged /\ td_of[t] \in Td /\ self[td_of[t]] = t /\ td_of[t] \in ToSet(c)
  <2>1. t \in Staged
    BY DEF Staged
  <2>2. td_of[t] \in Td
    BY <2>1, OwnerFacts
  <2> QED
    BY <1>3, <2>1, <2>2 DEF IndInv, StagedInv
<1>5. StagedOf(t) = {i \in DOMAIN c : c[i] # NULL /\ self[c[i]] = t}
  BY <1>2 DEF StagedOf
<1>6. StagedOf(t) # {}
  BY <1>4, <1>5 DEF ToSet
<1>7. \A i \in StagedOf(t) : c[i] = td_of[t]
  <2> SUFFICES ASSUME NEW i \in DOMAIN c, c[i] # NULL, self[c[i]] = t PROVE c[i] = td_of[t]
    BY <1>5
  <2>1. c[i] \in Reach(next, staged)
    BY <1>3 DEF ToSet
  <2>2. PICK u \in Staged : td_of[u] = c[i]
    BY <2>1 DEF IndInv, StagedInv
  <2>3. u \in Thread /\ self[td_of[u]] = u
    BY <2>2 DEF Staged, IndInv, StagedInv
  <2> QED
    BY <2>2, <2>3
<1>8. Min(StagedOf(t)) \in StagedOf(t)
  <2>1. StagedOf(t) \in SUBSET Nat
    BY <1>3, <1>5
  <2>2. \E m \in StagedOf(t) : \A k \in StagedOf(t) : m <= k
    BY <1>6, <2>1, LeastNat
  <2> QED
    BY <2>2 DEF Min
<1> QED
  BY <1>2, <1>6, <1>7, <1>8 DEF StagedBlock

\* The block of the thread that was waited for leaves the staged ones.
LEMMA JoinInv ==
  ASSUME IndInv, NEW t \in Thread, Join(t)
  PROVE  IndInv'
<1> USE ThreadsAssumption
<1>1. PICK d : d = td_of[t]
  OBVIOUS
<1>2. /\ pc[t] = "over" /\ Running /\ pc' = [pc EXCEPT ![t] = "free_stack"]
      /\ UNCHANGED <<process, self, is_active, ref_count, stack, head, count, g_thread_count>>
      /\ UNCHANGED <<td_pool, stack_pool, failures, cursor, walking, found, stacks_at_fork, ended>>
  BY DEF Join, At, Goto, pools, childVars
<1>3. /\ t \in Staged /\ t \in HasData /\ d \in Td /\ d \in Reach(next, staged)
      /\ next \in Links /\ Acyclic(next) /\ head \in Td /\ cursor \in Td \cup {NULL}
  <2>1. t \in Staged
    BY <1>2 DEF Staged
  <2> QED
    BY <1>1, <2>1, OwnerFacts DEF IndInv, StagedInv, TypeOK
<1>4. staged \in Td
  <2>1. staged \in Td \cup {NULL}
    BY DEF IndInv, TypeOK
  <2> QED
    BY <1>3, <2>1, ReachNull
<1>5. /\ td_of' = td_of
      /\ IF staged = d THEN staged' = next[d] /\ next' = next
         ELSE /\ next' = [x \in Td |-> IF x \in Reach(next, staged) /\ next[x] = d THEN next[d] ELSE next[x]]
              /\ staged' = staged
  <2>1. StagedBlock(t) = d
    BY <1>1, <1>2, JoinFinds
  <2>2. Members(staged) = Reach(next, staged)
    BY <1>3, <1>4, ChainIsReach
  <2>3. td_of' = [td_of EXCEPT ![t] = d] /\ td_of \in [Thread -> Td \cup {NULL}]
    BY <2>1 DEF Join, IndInv, TypeOK
  <2>4. td_of' = td_of
    BY <1>1, <2>3
  <2> QED
    BY <2>1, <2>2, <2>4 DEF Join
<1>6. /\ next' \in Links /\ Acyclic(next') /\ staged' \in Td \cup {NULL}
      /\ Reach(next', staged') = Reach(next, staged) \ {d}
      /\ \A x \in Td : next'[x] # next[x] => x \in Reach(next, staged) /\ next[x] = d
  BY <1>3, <1>4, <1>5, RemoveReach
<1>7. \A x \in Reach(next, head) : next'[x] = next[x]
  <2>1. \A x \in Reach(next, staged) : x \notin Reach(next, head)
    BY DEF IndInv, StagedInv, ListInv
  <2> QED
    BY <1>6, <2>1, OwnerFacts
<1>8. Reach(next', head) = Reach(next, head)
  BY <1>3, <1>6, <1>7, ReachAgree
<1>9. TypeOK'
  BY <1>2, <1>5, <1>6 DEF IndInv, TypeOK, Place, Links
<1>10. pc'[t] = "free_stack" /\ \A u \in Thread : u # t => pc'[u] = pc[u]
  BY <1>2 DEF IndInv, TypeOK
<1>11. /\ HasData' = HasData /\ HasStack' = HasStack /\ Registered' = Registered /\ Counted' = Counted
       /\ Staged' = Staged \ {t} /\ Staged \subseteq HasData
  BY <1>2, <1>10 DEF HasData, HasStack, Registered, Staged, Counted
<1>12. DataInv' /\ StackInv'
  BY <1>2, <1>5, <1>11, DataFrame, StackFrame DEF IndInv
<1>13. ListInv'
  BY <1>2, <1>5, <1>8, <1>10, <1>11 DEF IndInv, ListInv
<1>14. StagedInv'
  <2>1. \A u \in Thread : pc'[u] \in {"active", "inactive", "removed"} \/ u \in Staged' => self'[td_of'[u]] = u
    BY <1>2, <1>5, <1>10, <1>11 DEF IndInv, StagedInv
  <2>2. \A u \in HasData' : pc'[u] \in {"allocated", "listed", "created", "active", "inactive", "removed"} =>
          ref_count'[td_of'[u]] = 1
    <3>1. \A u \in HasData : u \in Thread
      BY OwnerFacts
    <3> QED
      BY <1>2, <1>5, <1>10, <1>11, <3>1 DEF IndInv, StagedInv
  <2>3. \A u \in Staged' : ref_count'[td_of'[u]] = 0
    BY <1>2, <1>5, <1>11 DEF IndInv, StagedInv
  <2>4. Reach(next', staged') = {td_of'[u] : u \in Staged'}
    <3>1. {td_of'[u] : u \in Staged'} = {td_of[u] : u \in Staged \ {t}}
      BY <1>5, <1>11
    <3>2. \A u \in HasData : u # t => td_of[u] # d
      BY <1>1, <1>3 DEF IndInv, DataInv
    <3>3. {td_of[u] : u \in Staged \ {t}} = {td_of[u] : u \in Staged} \ {d}
      BY <1>1, <1>11, <3>2
    <3>4. Reach(next, staged) = {td_of[u] : u \in Staged}
      BY DEF IndInv, StagedInv
    <3> QED
      BY <1>6, <3>1, <3>3, <3>4
  <2> QED
    BY <2>1, <2>2, <2>3, <2>4 DEF StagedInv
<1>15. CountInv'
  BY <1>2, <1>8, <1>11 DEF IndInv, CountInv, Running
<1>16. ChildInv'
  <2>1. ASSUME walking, ended = {}
        PROVE  Reach(next', cursor) = Reach(next, cursor) /\ Reach(next, cursor) \subseteq Reach(next, head)
    <3>1. Reach(next, cursor) \subseteq Reach(next, head)
      BY <2>1 DEF IndInv, ChildInv
    <3> QED
      BY <1>3, <1>6, <1>7, <3>1, ReachAgree
  <2>2. \A u \in Thread : pc[u] \in {"active", "inactive"} => pc'[u] = pc[u]
    BY <1>2, <1>10
  <2> QED
    BY <1>2, <1>5, <1>8, <2>1, <2>2 DEF IndInv, ChildInv
<1> QED
  BY <1>6, <1>9, <1>12, <1>13, <1>14, <1>15, <1>16 DEF IndInv

\* The stack goes back to its pool, if it is one of ours.
LEMMA FreeStackInv ==
  ASSUME IndInv, NEW t \in Thread, FreeStack(t)
  PROVE  IndInv'
<1>1. PICK s : s = stack[td_of[t]]
  OBVIOUS
<1>2. /\ pc[t] = "free_stack" /\ Running /\ pc' = [pc EXCEPT ![t] = "free_data"]
      /\ stack_pool' = IF s \in Stack THEN <<s>> \o stack_pool ELSE stack_pool
      /\ UNCHANGED <<process, td_of, next, self, is_active, ref_count, stack, head, count, staged>>
      /\ UNCHANGED <<g_thread_count, td_pool, failures, cursor, walking, found, stacks_at_fork, ended>>
  BY <1>1 DEF FreeStack, At, Goto, fields, lists, childVars
<1>3. pc'[t] = "free_data" /\ \A u \in Thread : u # t => pc'[u] = pc[u]
  BY <1>2 DEF IndInv, TypeOK
<1>4. /\ HasData' = HasData /\ HasStack' = HasStack \ {t} /\ t \in HasStack /\ Counted' = Counted
      /\ Registered' = Registered /\ Staged' = Staged
  BY <1>2, <1>3 DEF HasData, HasStack, Registered, Staged, Counted
<1>5. /\ stack_pool' \in Seq(Stack) /\ IsInjective(stack_pool')
      /\ ToSet(stack_pool') \subseteq ToSet(stack_pool) \cup ({s} \cap Stack)
  <2>1. stack_pool \in Seq(Stack) /\ IsInjective(stack_pool) /\ s \notin ToSet(stack_pool)
    BY <1>1, <1>4 DEF IndInv, TypeOK, StackInv
  <2>2. CASE s \in Stack
    BY <1>2, <2>1, <2>2, PoolGive
  <2>3. CASE s \notin Stack
    BY <1>2, <2>1, <2>3
  <2> QED
    BY <2>2, <2>3
<1>6. StackInv'
  <2>1. \A u \in HasStack' : stack'[td_of'[u]] \notin ToSet(stack_pool')
    BY <1>1, <1>2, <1>4, <1>5 DEF IndInv, StackInv
  <2> QED
    BY <1>2, <1>4, <1>5, <2>1 DEF IndInv, StackInv
<1>7. TypeOK'
  BY <1>2, <1>5 DEF IndInv, TypeOK, Place
<1>8. DataInv' /\ ChildInv'
  BY <1>2, <1>3, <1>4, DataFrame, ChildFrame DEF IndInv
<1>9. StagedInv'
  BY <1>2, <1>3, <1>4, StagedFrame DEF IndInv
<1>10. ListInv' /\ CountInv'
  BY <1>2, <1>3, <1>4, ListFrame, CountFrame DEF IndInv, Running
<1> QED
  BY <1>2, <1>6, <1>7, <1>8, <1>9, <1>10 DEF IndInv

\* The block goes back to its pool.
LEMMA ThreadDataFreeInv ==
  ASSUME IndInv, NEW t \in Thread, ThreadDataFree(t)
  PROVE  IndInv'
<1> USE ThreadsAssumption
<1>1. PICK d : d = td_of[t]
  OBVIOUS
<1>2. /\ pc[t] = "free_data" /\ Running /\ pc' = [pc EXCEPT ![t] = "none"]
      /\ td_pool' = <<d>> \o td_pool /\ td_of' = [td_of EXCEPT ![t] = NULL]
      /\ UNCHANGED <<process, next, self, is_active, ref_count, stack, head, count, staged>>
      /\ UNCHANGED <<g_thread_count, stack_pool, failures, cursor, walking, found, stacks_at_fork, ended>>
  BY <1>1 DEF ThreadDataFree, At, Goto, fields, lists, childVars
<1>3. t \in HasData /\ d \in Td /\ d # MainTd
  <2>1. t \in HasData
    BY <1>2 DEF HasData
  <2> QED
    BY <1>1, <2>1, OwnerFacts DEF IndInv, DataInv
<1>4. /\ pc'[t] = "none" /\ td_of'[t] = NULL
      /\ \A u \in Thread : u # t => pc'[u] = pc[u] /\ td_of'[u] = td_of[u]
  BY <1>2 DEF IndInv, TypeOK
<1>5. /\ HasData' = HasData \ {t} /\ HasStack' = HasStack /\ t \notin HasStack /\ Counted' = Counted
      /\ Registered' = Registered /\ Staged' = Staged /\ t \notin Registered /\ t \notin Staged
  BY <1>2, <1>4 DEF HasData, HasStack, Registered, Staged, Counted
<1>6. HasData \subseteq Thread /\ HasStack \subseteq Thread /\ Registered \subseteq Thread /\ Staged \subseteq Thread
  BY DEF HasData, HasStack, Registered, Staged
<1>7. /\ td_pool' \in Seq(Td) /\ IsInjective(td_pool') /\ ToSet(td_pool') = ToSet(td_pool) \cup {d}
  <2>1. td_pool \in Seq(Td) /\ IsInjective(td_pool) /\ d \notin ToSet(td_pool)
    BY <1>1, <1>3 DEF IndInv, TypeOK, DataInv
  <2> QED
    BY <1>2, <1>3, <2>1, PoolGive
<1>8. TypeOK'
  BY <1>2, <1>7 DEF IndInv, TypeOK, Place
<1>9. DataInv'
  <2>1. MainTd \notin ToSet(td_pool')
    BY <1>3, <1>7 DEF IndInv, DataInv
  <2>2. \A u \in Thread : u \in HasData' <=> td_of'[u] # NULL
    BY <1>4, <1>5 DEF IndInv, DataInv
  <2>3. \A u \in HasData' : td_of'[u] \notin ToSet(td_pool') /\ td_of'[u] # MainTd
    BY <1>1, <1>3, <1>4, <1>5, <1>6, <1>7 DEF IndInv, DataInv
  <2>4. \A u, v \in HasData' : td_of'[u] = td_of'[v] => u = v
    BY <1>4, <1>5, <1>6 DEF IndInv, DataInv
  <2> QED
    BY <1>7, <2>1, <2>2, <2>3, <2>4 DEF DataInv
<1>10. StackInv'
  BY <1>2, <1>4, <1>5, <1>6 DEF IndInv, StackInv
<1>11. ListInv'
  <2>1. \A u \in Thread : pc'[u] \in {"removed", "allocated"} => pc'[u] = pc[u] /\ td_of'[u] = td_of[u]
    BY <1>4
  <2>2. \A u \in Registered \cup Staged : td_of'[u] = td_of[u]
    BY <1>4, <1>5, <1>6
  <2> QED
    BY <1>2, <1>5, <2>1, <2>2 DEF IndInv, ListInv, Running
<1>12. StagedInv'
  <2>1. {td_of'[u] : u \in Staged'} = {td_of[u] : u \in Staged}
    BY <1>4, <1>5, <1>6
  <2>2. \A u \in Thread : pc'[u] \in {"active", "inactive", "removed"} \/ u \in Staged' => self'[td_of'[u]] = u
    BY <1>2, <1>4, <1>5 DEF IndInv, StagedInv
  <2>3. \A u \in HasData' : pc'[u] \in {"allocated", "listed", "created", "active", "inactive", "removed"} =>
          ref_count'[td_of'[u]] = 1
    BY <1>2, <1>4, <1>5, <1>6 DEF IndInv, StagedInv
  <2>4. \A u \in Staged' : ref_count'[td_of'[u]] = 0
    BY <1>2, <1>4, <1>5, <1>6 DEF IndInv, StagedInv
  <2>5. Reach(next', staged') = {td_of'[u] : u \in Staged'}
    BY <1>2, <2>1 DEF IndInv, StagedInv
  <2> QED
    BY <2>2, <2>3, <2>4, <2>5 DEF StagedInv
<1>13. CountInv'
  BY <1>2, <1>5, CountFrame DEF IndInv, Running
<1>14. ChildInv'
  <2>1. \A u \in Thread : pc[u] \in {"active", "inactive"} => pc'[u] = pc[u] /\ td_of'[u] = td_of[u]
    BY <1>2, <1>4
  <2> QED
    BY <1>2, <2>1 DEF IndInv, ChildInv
<1> QED
  BY <1>2, <1>8, <1>9, <1>10, <1>11, <1>12, <1>13, <1>14 DEF IndInv

\* A step of the child, or none at all, changes nothing of the process's.
LEMMA ChildStepFrame ==
  ASSUME IndInv, UNCHANGED <<process, pc, td_of, fields, lists, g_thread_count, pools, failures>>,
         TypeOK', ChildInv'
  PROVE  IndInv'
<1>1. /\ UNCHANGED <<process, pc, td_of, next, self, is_active, ref_count, stack, head, count, staged>>
      /\ UNCHANGED <<g_thread_count, td_pool, stack_pool, failures>>
  BY DEF fields, lists, pools
<1>2. /\ HasData' = HasData /\ HasStack' = HasStack /\ Registered' = Registered /\ Staged' = Staged
      /\ Counted' = Counted
  BY <1>1 DEF HasData, HasStack, Registered, Staged, Counted
<1>3. DataInv' /\ StackInv' /\ StagedInv'
  BY <1>1, <1>2, DataFrame, StackFrame, StagedFrame DEF IndInv
<1>4. ListInv' /\ CountInv'
  BY <1>1, <1>2, ListFrame, CountFrame DEF IndInv, Running
<1> QED
  BY <1>1, <1>3, <1>4 DEF IndInv

\* The child starts at the head of the list, where the stacks in use are found.
LEMMA ForkInv ==
  ASSUME IndInv, Fork
  PROVE  IndInv'
<1>1. /\ ~walking /\ walking' = TRUE /\ cursor' = head /\ stacks_at_fork' = StacksInUse
      /\ UNCHANGED <<process, pc, td_of, next, self, is_active, ref_count, stack, head, count, staged>>
      /\ UNCHANGED <<g_thread_count, td_pool, stack_pool, failures, found, ended>>
  BY DEF Fork, fields, lists, pools
<1>2. TypeOK'
  BY <1>1 DEF IndInv, TypeOK, StacksInUse
<1>3. ASSUME NEW s \in StacksInUse
      PROVE  \E t \in Thread : /\ pc[t] \in {"active", "inactive"} /\ stack[td_of[t]] = s
                               /\ td_of[t] \in Reach(next, head)
  <2>1. PICK t \in Thread : pc[t] = "active" /\ stack[td_of[t]] = s
    BY <1>3 DEF StacksInUse
  <2>2. t \in Registered
    BY <2>1 DEF Registered
  <2> QED
    BY <2>1, <2>2 DEF IndInv, ListInv
<1>4. ChildInv'
  BY <1>1, <1>3 DEF ChildInv
<1> QED
  BY <1>1, <1>2, <1>4, ChildStepFrame DEF fields, lists, pools

\* The child adds the stack of the block it is at and goes on to the next.
LEMMA WalkStepInv ==
  ASSUME IndInv, WalkStep
  PROVE  IndInv'
<1>1. /\ walking /\ cursor # NULL /\ cursor' = next[cursor]
      /\ found' = found \cup ({stack[cursor]} \cap Stack)
      /\ UNCHANGED <<process, pc, td_of, next, self, is_active, ref_count, stack, head, count, staged>>
      /\ UNCHANGED <<g_thread_count, td_pool, stack_pool, failures, walking, stacks_at_fork, ended>>
  BY DEF WalkStep, StackRange, fields, lists, pools
<1>2. next \in Links /\ cursor \in Td /\ next[cursor] \in Td \cup {NULL} /\ stacks_at_fork \subseteq Stack
  BY <1>1 DEF IndInv, TypeOK, Links
<1>3. TypeOK'
  BY <1>1, <1>2 DEF IndInv, TypeOK
<1>4. Reach(next, cursor) = {cursor} \cup Reach(next, next[cursor])
  BY <1>2, ReachNext
<1>5. ASSUME ended = {}, NEW s \in stacks_at_fork \ found'
      PROVE  \E t \in Thread : /\ pc[t] \in {"active", "inactive"} /\ stack[td_of[t]] = s
                               /\ td_of[t] \in Reach(next, next[cursor])
  <2>1. s \in stacks_at_fork \ found /\ s # stack[cursor]
    BY <1>1, <1>2, <1>5
  <2>2. PICK t \in Thread : /\ pc[t] \in {"active", "inactive"} /\ stack[td_of[t]] = s
                            /\ td_of[t] \in Reach(next, cursor)
    BY <1>1, <1>5, <2>1 DEF IndInv, ChildInv
  <2> QED
    BY <1>4, <2>1, <2>2
<1>6. ChildInv'
  BY <1>1, <1>4, <1>5 DEF IndInv, ChildInv
<1> QED
  BY <1>1, <1>3, <1>6, ChildStepFrame DEF fields, lists, pools

\* The child has come to the end of the list and is forgotten.
LEMMA WalkDoneInv ==
  ASSUME IndInv, WalkDone
  PROVE  IndInv'
<1>1. /\ cursor = NULL /\ walking' = FALSE /\ found' = {} /\ stacks_at_fork' = {} /\ ended' = {}
      /\ cursor' = cursor
      /\ UNCHANGED <<process, pc, td_of, next, self, is_active, ref_count, stack, head, count, staged>>
      /\ UNCHANGED <<g_thread_count, td_pool, stack_pool, failures>>
  BY DEF WalkDone, fields, lists, pools
<1>2. TypeOK'
  BY <1>1 DEF IndInv, TypeOK
<1>3. ChildInv'
  BY <1>1 DEF ChildInv
<1> QED
  BY <1>1, <1>2, <1>3, ChildStepFrame DEF fields, lists, pools

\* Every step keeps the invariant.
LEMMA InductiveStep ==
  ASSUME IndInv, [Next]_vars
  PROVE  IndInv'
<1>1. CASE Fork \/ WalkStep \/ WalkDone
  BY <1>1, ForkInv, WalkStepInv, WalkDoneInv
<1>2. ASSUME NEW t \in Thread, ThreadStep(t) PROVE IndInv'
  <2>1. CASE CountThread(t)
    BY <2>1, CountThreadInv
  <2>2. CASE ThreadDataNew(t)
    BY <2>2, ThreadDataNewInv
  <2>3. CASE ListAdd(t)
    BY <2>3, ListAddInv
  <2>4. CASE CreateSucceeds(t) \/ ThreadBase(t) \/ Deactivate(t) \/ PthreadExit(t)
    BY <2>4, ThreadMoveInv
  <2>5. CASE CreateFails(t)
    BY <2>5, CreateFailsInv
  <2>6. CASE ListRemove(t)
    BY <2>6, ListRemoveInv
  <2>7. CASE DecrRef(t)
    BY <2>7, DecrRefInv
  <2>8. CASE UncountThread(t)
    BY <2>8, UncountThreadInv
  <2>9. CASE Join(t)
    BY <2>9, JoinInv
  <2>10. CASE FreeStack(t)
    BY <2>10, FreeStackInv
  <2>11. CASE ThreadDataFree(t)
    BY <2>11, ThreadDataFreeInv
  <2> QED
    BY <1>2, <2>1, <2>2, <2>3, <2>4, <2>5, <2>6, <2>7, <2>8, <2>9, <2>10, <2>11 DEF ThreadStep
<1>3. CASE UNCHANGED vars
  <2>1. /\ UNCHANGED <<process, pc, td_of, fields, lists, g_thread_count, pools, failures, childVars>>
    BY <1>3 DEF vars
  <2>2. TypeOK'
    BY <2>1 DEF IndInv, TypeOK, fields, lists, pools, childVars
  <2>3. ChildInv'
    BY <2>1, ChildFrame DEF IndInv, fields, lists, pools, childVars
  <2> QED
    BY <2>1, <2>2, <2>3, ChildStepFrame
<1> QED
  BY <1>1, <1>2, <1>3 DEF Next

(***************************************************************************)
(* What it comes to.                                                       *)
(***************************************************************************)

\* IndInv holds however many threads are created, end and are joined.
THEOREM Inductive == Spec => []IndInv
<1>1. IndInv /\ [Next]_vars => IndInv'
  BY InductiveStep
<1> QED
  BY InitInv, <1>1, PTL DEF Spec

\* The metadata always has the types of thread_data_t's fields and of the lists.
THEOREM TypeCorrect == Spec => []TypeOK
<1>1. IndInv => TypeOK
  BY DEF IndInv
<1> QED
  BY Inductive, <1>1, PTL

\* The lists and the child's way through them are what can be reached.
LEMMA Lists ==
  ASSUME IndInv
  PROVE  /\ Members(head) = Reach(next, head) /\ Ends(head)
         /\ Members(cursor) = Reach(next, cursor) /\ Ends(cursor)
<1>1. next \in Links /\ Acyclic(next) /\ head \in Td \cup {NULL} /\ cursor \in Td \cup {NULL}
  BY OwnerFacts DEF IndInv, TypeOK
<1> QED
  BY <1>1, ChainIsReach

\* ListProper: forkscan_util_thread_list_add and _remove keep the thread list
\* one finite list of the threads that are registered, with nothing besides as
\* long as no pthread_create has failed.
THEOREM ListProperHolds == Spec => []ListProper
<1>1. IndInv => ListProper
  <2> SUFFICES ASSUME IndInv PROVE ListProper
    OBVIOUS
  <2>1. Members(head) = Reach(next, head) /\ Ends(head)
    BY Lists
  <2>2. MainTd \in Reach(next, head) /\ \A t \in Registered : td_of[t] \in Reach(next, head)
    BY DEF IndInv, ListInv
  <2>3. failures = 0 => Ghosts = {}
    BY <2>1 DEF IndInv, ListInv, Ghosts
  <2> QED
    BY <2>1, <2>2, <2>3 DEF ListProper
<1> QED
  BY Inductive, <1>1, PTL

\* NothingShared: no two threads use the same thread data or the same stack, and
\* no pool has what a thread uses, whoever creates, ends and joins meanwhile.
THEOREM NothingSharedHolds == Spec => []NothingShared
<1>1. IndInv => NothingShared
  <2> SUFFICES ASSUME IndInv, NEW t \in Thread,
                      pc[t] \notin {"none", "counted", "free_stack", "free_data"}
               PROVE  /\ td_of[t] \notin ToSet(td_pool)
                      /\ stack[td_of[t]] \notin ToSet(stack_pool)
                      /\ \A u \in Thread \ {t} :
                           td_of[u] # NULL /\ pc[u] # "free_data" =>
                             /\ td_of[u] # td_of[t]
                             /\ stack[td_of[t]] \in Stack => stack[td_of[u]] # stack[td_of[t]]
    BY DEF NothingShared
  <2>1. t \in HasData /\ t \in HasStack
    BY DEF HasData, HasStack
  <2>2. \A u \in Thread : td_of[u] # NULL /\ pc[u] # "free_data" => u \in HasData /\ u \in HasStack
    BY DEF IndInv, DataInv, HasData, HasStack
  <2> QED
    BY <2>1, <2>2 DEF IndInv, DataInv, StackInv
<1> QED
  BY Inductive, <1>1, PTL

\* JoinFindsData: what forkscan_util_thread_data_cleanup finds for a thread that
\* is over is that thread's own block, with no reference left.
THEOREM JoinFindsDataHolds == Spec => []JoinFindsData
<1>1. IndInv => JoinFindsData
  <2> SUFFICES ASSUME IndInv, NEW t \in Thread, pc[t] = "over"
               PROVE  StagedOf(t) # {} /\ StagedBlock(t) = td_of[t] /\ ref_count[td_of[t]] = 0
    BY DEF JoinFindsData
  <2>1. t \in Staged
    BY DEF Staged
  <2>2. ref_count[td_of[t]] = 0
    BY <2>1 DEF IndInv, StagedInv
  <2> QED
    BY <2>2, JoinFinds
<1> QED
  BY Inductive, <1>1, PTL

\* CountsCover: thread_list.count is the length of the list, and g_thread_count
\* covers the threads on it and stays within the limit plus the initial thread.
THEOREM CountsCoverHolds == Spec => []CountsCover
<1>1. IndInv => CountsCover
  <2> SUFFICES ASSUME IndInv, Running PROVE CountsCover
    BY DEF CountsCover
  <2>1. Members(head) = Reach(next, head)
    BY Lists
  <2>2. /\ Cardinality(Reach(next, head)) = count /\ g_thread_count <= MaxThreadCount + 1
        /\ g_thread_count = 1 + Cardinality(Counted) + failures /\ failures \in Nat
    BY DEF IndInv, CountInv, TypeOK
  <2>3. /\ Cardinality(Registered) <= Cardinality(Counted)
        /\ Cardinality(Registered) \in Nat /\ Cardinality(Counted) \in Nat
    <3>1. Registered \subseteq Counted /\ Counted \subseteq Thread
      BY DEF Registered, Counted
    <3>2. IsFiniteSet(Counted)
      BY <3>1, ThreadsAssumption, FS_Subset
    <3> QED
      BY <3>1, <3>2, FS_Subset, FS_CardinalityType
  <2>4. g_thread_count >= 1 + Cardinality(Registered) + failures
    BY <2>2, <2>3
  <2> QED
    BY <2>1, <2>2, <2>4 DEF CountsCover
<1> QED
  BY Inductive, <1>1, PTL

\* StacksFoundUnlessEnded: the way of the child through add_stack_ranges always
\* comes to an end, and with no thread ended ahead of it the child has then found
\* every stack that was in use at the fork.
THEOREM StacksFoundUnlessEndedHolds == Spec => []StacksFoundUnlessEnded
<1>1. IndInv => StacksFoundUnlessEnded
  <2> SUFFICES ASSUME IndInv PROVE StacksFoundUnlessEnded
    OBVIOUS
  <2>1. Ends(cursor)
    BY Lists
  <2>2. ASSUME walking, cursor = NULL, ended = {} PROVE stacks_at_fork \subseteq found
    <3>1. Reach(next, cursor) = {}
      BY <2>2, OwnerFacts, ReachNull
    <3> QED
      BY <2>2, <3>1 DEF IndInv, ChildInv
  <2> QED
    BY <2>1, <2>2 DEF StacksFoundUnlessEnded
<1> QED
  BY Inductive, <1>1, PTL
=============================================================================
