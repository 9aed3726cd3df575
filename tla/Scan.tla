-------------------------------- MODULE Scan --------------------------------
(***************************************************************************)
(* The forked child and its siblings (child.c), from the fork of the       *)
(* collector to the message that ends the scan.                            *)
(*                                                                         *)
(* The child divides memory into ranges and forks siblings that share the  *)
(* work: each takes the next range off root_counter, puts the words that   *)
(* may point into the pool on its private lookaside list, and looks those  *)
(* up in the address buffer, setting the low bit of what it finds.  The    *)
(* process that adds the last range to roots_completed writes to the pipe. *)
(*                                                                         *)
(* The address buffer, with the bits and both counters, is shared memory   *)
(* and is used again for a later round; everything else a process looks at *)
(* is its private copy of the instant of the fork.                         *)
(***************************************************************************)
EXTENDS Integers, FiniteSets, FiniteSetsExt

CONSTANTS Node,        \* the addresses in the pool (naturals)
          NRanges,     \* g_n_ranges
          Proc,        \* process identities
          Siblings,    \* n_siblings: processes that scan, the child included
          LookasideSz, \* LOOKASIDE_SZ
          Image,       \* the memory images a round may find, see ImageOK
          MaxRounds,   \* bound on the rounds that use this buffer
          NULL         \* no node, no memory

\* What a scan can see: the words outside the pool, range by range, and
\* the words inside each node of the pool.
ImageOK(im) ==
  /\ im.roots \in [0 .. NRanges - 1 -> SUBSET Node]
  /\ im.words \in [Node -> SUBSET Node]

ASSUME ScanAssumption ==
  /\ Node \subseteq Nat /\ IsFiniteSet(Node)
  /\ NRanges \in Nat \ {0}
  /\ Siblings \in 1 .. NRanges
  /\ IsFiniteSet(Proc) /\ Cardinality(Proc) >= Siblings
  /\ LookasideSz \in Nat \ {0}
  /\ \A im \in Image : ImageOK(im)
  /\ MaxRounds \in Nat
  /\ NULL \notin Node

VARIABLES
  gc,               \* the collector: "idle", "wait" (for the pipe), "received"
  round,            \* the number of the round
  image,            \* the memory at the fork of this round
  overtaken,        \* history: a round began before an earlier one had ended
  written,          \* messages written to this round's pipe
  marks,            \* addresses of the shared buffer whose low bit is set
  root_counter, roots_completed,        \* fields of the shared buffer
  pc,               \* where a process is in forkscan_child
  born,             \* the round it belongs to
  mem,              \* its private copy of the memory
  to_fork,          \* siblings the child has still to fork
  todo,             \* words of the current range it has not looked at
  lookaside,        \* the words in g_lookaside_list not looked up yet
  g_lookaside_count,
  addr, hit,        \* the node it searches, and the unmarked address it found
  ending,           \* it has left the loop over the ranges
  completed         \* its local roots_completed

gcVars     == <<gc, round, image, overtaken, written>>
sharedVars == <<marks, root_counter, roots_completed>>
localVars  == <<todo, lookaside, g_lookaside_count, addr, hit, ending, completed>>
vars == <<gcVars, sharedVars, pc, born, mem, to_fork, localVars>>

Places == {"none", "child", "claim", "range", "lookup", "setroot", "search", "setword",
           "last", "finish", "notify"}

TypeOK ==
  /\ gc \in {"idle", "wait", "received"}
  /\ round \in 0 .. MaxRounds
  /\ image \in Image \cup {NULL}
  /\ overtaken \in BOOLEAN
  /\ written \in 0 .. Cardinality(Proc)
  /\ marks \in SUBSET Node
  /\ root_counter \in Nat
  /\ roots_completed \in Nat
  /\ pc \in [Proc -> Places]
  /\ born \in [Proc -> 0 .. MaxRounds]
  /\ mem \in [Proc -> Image \cup {NULL}]
  /\ to_fork \in [Proc -> 0 .. Siblings - 1]
  /\ todo \in [Proc -> SUBSET Node]
  /\ lookaside \in [Proc -> SUBSET Node]
  /\ g_lookaside_count \in [Proc -> 0 .. LookasideSz]
  /\ addr \in [Proc -> Node \cup {NULL}]
  /\ hit \in [Proc -> Node \cup {NULL}]
  /\ ending \in [Proc -> BOOLEAN]
  /\ completed \in [Proc -> 0 .. NRanges]

Init ==
  /\ gc = "idle"
  /\ round = 0
  /\ image = NULL
  /\ overtaken = FALSE
  /\ written = 0
  /\ marks = {}
  /\ root_counter = 0
  /\ roots_completed = 0
  /\ pc = [p \in Proc |-> "none"]
  /\ born = [p \in Proc |-> 0]
  /\ mem = [p \in Proc |-> NULL]
  /\ to_fork = [p \in Proc |-> 0]
  /\ todo = [p \in Proc |-> {}]
  /\ lookaside = [p \in Proc |-> {}]
  /\ g_lookaside_count = [p \in Proc |-> 0]
  /\ addr = [p \in Proc |-> NULL]
  /\ hit = [p \in Proc |-> NULL]
  /\ ending = [p \in Proc |-> FALSE]
  /\ completed = [p \in Proc |-> 0]

Free == {p \in Proc : pc[p] = "none"}
Goto(p, to) == pc' = [pc EXCEPT ![p] = to]

(***************************************************************************)
(* The collector (reclaim_iteration).                                      *)
(***************************************************************************)

\* The buffer, all its addresses unmarked, is aggregated and the child forked.
ForkChild ==
  /\ gc \in {"idle", "received"}
  /\ round < MaxRounds
  /\ gc' = "wait"
  /\ round' = round + 1
  /\ image' \in Image
  /\ overtaken' = (overtaken \/ Free # Proc)
  /\ written' = 0
  /\ marks' = {}
  /\ \E c \in Free :
       /\ Goto(c, "child")
       /\ born' = [born EXCEPT ![c] = round']
       /\ mem' = [mem EXCEPT ![c] = image']
  /\ UNCHANGED <<root_counter, roots_completed, to_fork, localVars>>

\* read from the pipe.  From here on the collector and the user threads take
\* an address without a mark for unreferenced.
Receive ==
  /\ gc = "wait"
  /\ written > 0
  /\ gc' = "received"
  /\ UNCHANGED <<round, image, overtaken, written, sharedVars, pc, born, mem, to_fork, localVars>>

(***************************************************************************)
(* forkscan_child.                                                         *)
(***************************************************************************)

\* The child has collected the ranges and resets the shared counters.
ResetCounters(p) ==
  /\ pc[p] = "child"
  /\ to_fork[p] = 0
  /\ root_counter' = 0
  /\ roots_completed' = 0
  /\ IF Siblings = 1
       THEN Goto(p, "claim") /\ UNCHANGED to_fork
       ELSE Goto(p, "child") /\ to_fork' = [to_fork EXCEPT ![p] = Siblings - 1]
  /\ UNCHANGED <<gcVars, marks, born, mem, localVars>>

\* fork() of a sibling, which goes to work at once.
ForkSibling(p) ==
  /\ pc[p] = "child"
  /\ to_fork[p] > 0
  /\ to_fork' = [to_fork EXCEPT ![p] = @ - 1]
  /\ \E s \in Free :
       /\ pc' = [pc EXCEPT ![s] = "claim", ![p] = IF to_fork[p] = 1 THEN "claim" ELSE @]
       /\ born' = [born EXCEPT ![s] = born[p]]
       /\ mem' = [mem EXCEPT ![s] = mem[p]]
  /\ UNCHANGED <<gcVars, sharedVars, localVars>>

\* Seeded fault: the counter is read but not advanced.
ClaimWithoutAdvance(p) ==
  /\ pc[p] = "claim"
  /\ IF root_counter < NRanges
       THEN /\ todo' = [todo EXCEPT ![p] = mem[p].roots[root_counter]]
            /\ Goto(p, "range")
       ELSE /\ Goto(p, "last")
            /\ UNCHANGED todo
  /\ UNCHANGED <<gcVars, sharedVars, born, mem, to_fork, lookaside,
                 g_lookaside_count, addr, hit, ending, completed>>

\* __sync_fetch_and_add(&ab->root_counter, 1)
ClaimRange(p) ==
  /\ pc[p] = "claim"
  /\ root_counter' = root_counter + 1
  /\ IF root_counter < NRanges
       THEN /\ todo' = [todo EXCEPT ![p] = mem[p].roots[root_counter]]
            /\ Goto(p, "range")
       ELSE /\ Goto(p, "last")
            /\ UNCHANGED todo
  /\ UNCHANGED <<gcVars, marks, roots_completed, born, mem, to_fork, lookaside,
                 g_lookaside_count, addr, hit, ending, completed>>

\* find_roots: a word goes on the lookaside list, which is worked off when
\* it is full.  Words below the least or above the greatest address of the
\* pool are not in the image.
ReadWord(p) ==
  /\ pc[p] = "range"
  /\ \E v \in todo[p] :
       /\ todo' = [todo EXCEPT ![p] = @ \ {v}]
       /\ lookaside' = [lookaside EXCEPT ![p] = @ \cup {v}]
  /\ g_lookaside_count' = [g_lookaside_count EXCEPT ![p] = @ + 1]
  /\ Goto(p, IF g_lookaside_count'[p] < LookasideSz THEN "range" ELSE "lookup")
  /\ UNCHANGED <<gcVars, sharedVars, born, mem, to_fork, addr, hit, ending, completed>>

\* Seeded fault: a range counts as completed while its words are still put aside.
EndRangeCountsEarly(p) ==
  /\ pc[p] = "range"
  /\ todo[p] = {}
  /\ roots_completed' = roots_completed + 1
  /\ Goto(p, "claim")
  /\ UNCHANGED <<gcVars, marks, root_counter, born, mem, to_fork, localVars>>

\* The end of find_roots.
EndRange(p) ==
  /\ pc[p] = "range"
  /\ todo[p] = {}
  /\ completed' = [completed EXCEPT ![p] = @ + 1]
  /\ Goto(p, "claim")
  /\ UNCHANGED <<gcVars, sharedVars, born, mem, to_fork, todo, lookaside,
                 g_lookaside_count, addr, hit, ending>>

\* Seeded fault: the words that are still put aside are dropped.
DropRemainders(p) ==
  /\ pc[p] = "last"
  /\ ending' = [ending EXCEPT ![p] = TRUE]
  /\ Goto(p, "finish")
  /\ lookaside' = [lookaside EXCEPT ![p] = {}]
  /\ g_lookaside_count' = [g_lookaside_count EXCEPT ![p] = 0]
  /\ UNCHANGED <<gcVars, sharedVars, born, mem, to_fork, todo, addr, hit, completed>>

\* No more ranges: catch the remainders of the lookaside list.
Remainders(p) ==
  /\ pc[p] = "last"
  /\ ending' = [ending EXCEPT ![p] = TRUE]
  /\ Goto(p, IF g_lookaside_count[p] > 0 THEN "lookup" ELSE "finish")
  /\ UNCHANGED <<gcVars, sharedVars, born, mem, to_fork, todo, lookaside, g_lookaside_count,
                 addr, hit, completed>>

\* lookup_lookaside_list works through the sorted list without duplicates:
\* one address of it, as far as the test of its bit.
LookUp(p) ==
  /\ pc[p] = "lookup"
  /\ lookaside[p] # {}
  /\ LET cmp == Min(lookaside[p])
     IN /\ lookaside' = [lookaside EXCEPT ![p] = @ \ {cmp}]
        /\ IF cmp \in marks
             THEN UNCHANGED <<pc, hit>>
             ELSE Goto(p, "setroot") /\ hit' = [hit EXCEPT ![p] = cmp]
  /\ UNCHANGED <<gcVars, sharedVars, born, mem, to_fork, todo, g_lookaside_count, addr, ending,
                 completed>>

\* ab->addrs[loc] = addr | 0x1, and recursive_mark(addr) starts.
SetRoot(p) ==
  /\ pc[p] = "setroot"
  /\ marks' = marks \cup {hit[p]}
  /\ addr' = [addr EXCEPT ![p] = hit[p]]
  /\ hit' = [hit EXCEPT ![p] = NULL]
  /\ Goto(p, "search")
  /\ UNCHANGED <<gcVars, root_counter, roots_completed, born, mem, to_fork, todo, lookaside,
                 g_lookaside_count, ending, completed>>

\* recursive_mark looks at a word of the node it searches ...
SearchWord(p) ==
  /\ pc[p] = "search"
  /\ \E w \in mem[p].words[addr[p]] \ marks :
       /\ hit' = [hit EXCEPT ![p] = w]
       /\ Goto(p, "setword")
  /\ UNCHANGED <<gcVars, sharedVars, born, mem, to_fork, todo, lookaside, g_lookaside_count, addr,
                 ending, completed>>

\* ... sets the bit of an unmarked address it finds there, and calls itself
\* with the node it is searching, not with the one it has found.
SetWord(p) ==
  /\ pc[p] = "setword"
  /\ marks' = marks \cup {hit[p]}
  /\ hit' = [hit EXCEPT ![p] = NULL]
  /\ Goto(p, "search")
  /\ UNCHANGED <<gcVars, root_counter, roots_completed, born, mem, to_fork, todo, lookaside,
                 g_lookaside_count, addr, ending, completed>>

\* All words of the node lead to marked addresses, so that the calls for it
\* that are still on the stack return one after the other.
EndSearch(p) ==
  /\ pc[p] = "search"
  /\ mem[p].words[addr[p]] \subseteq marks
  /\ addr' = [addr EXCEPT ![p] = NULL]
  /\ Goto(p, "lookup")
  /\ UNCHANGED <<gcVars, sharedVars, born, mem, to_fork, todo, lookaside, g_lookaside_count, hit,
                 ending, completed>>

\* The list is worked off: back into find_roots, or on to the end.
EndLookup(p) ==
  /\ pc[p] = "lookup"
  /\ lookaside[p] = {}
  /\ g_lookaside_count' = [g_lookaside_count EXCEPT ![p] = 0]
  /\ Goto(p, IF ending[p] THEN "finish" ELSE "range")
  /\ UNCHANGED <<gcVars, sharedVars, born, mem, to_fork, todo, lookaside, addr, hit, ending,
                 completed>>

\* The process is gone, and its identity can be used again.
Exit(p) ==
  /\ Goto(p, "none")
  /\ born' = [born EXCEPT ![p] = 0]
  /\ mem' = [mem EXCEPT ![p] = NULL]
  /\ ending' = [ending EXCEPT ![p] = FALSE]
  /\ completed' = [completed EXCEPT ![p] = 0]

\* Seeded fault: the value before the addition is compared.
FinishComparesOld(p) ==
  /\ pc[p] = "finish"
  /\ roots_completed' = roots_completed + completed[p]
  /\ IF roots_completed = NRanges
       THEN Goto(p, "notify") /\ UNCHANGED <<born, mem, ending, completed>>
       ELSE Exit(p)
  /\ UNCHANGED <<gcVars, marks, root_counter, to_fork, todo, lookaside, g_lookaside_count, addr,
                 hit>>

\* __sync_fetch_and_add(&ab->roots_completed, roots_completed); whoever
\* reaches the total is to notify the parent, everybody else exits.
Finish(p) ==
  /\ pc[p] = "finish"
  /\ roots_completed' = roots_completed + completed[p]
  /\ IF roots_completed' = NRanges
       THEN Goto(p, "notify") /\ UNCHANGED <<born, mem, ending, completed>>
       ELSE Exit(p)
  /\ UNCHANGED <<gcVars, marks, root_counter, to_fork, todo, lookaside, g_lookaside_count, addr,
                 hit>>

\* write to the pipe.  Once the collector has closed its end the process dies
\* of SIGPIPE instead.
Notify(p) ==
  /\ pc[p] = "notify"
  /\ written' = IF born[p] = round /\ gc = "wait" THEN written + 1 ELSE written
  /\ Exit(p)
  /\ UNCHANGED <<gc, round, image, overtaken, sharedVars, to_fork, todo, lookaside,
                 g_lookaside_count, addr, hit>>

Process(p) ==
  \/ ResetCounters(p) \/ ForkSibling(p) \/ ClaimRange(p) \/ ReadWord(p) \/ EndRange(p)
  \/ Remainders(p) \/ LookUp(p) \/ SetRoot(p) \/ SearchWord(p) \/ SetWord(p)
  \/ EndSearch(p) \/ EndLookup(p) \/ Finish(p) \/ Notify(p)

Next == ForkChild \/ Receive \/ \E p \in Proc : Process(p)

Spec == Init /\ [][Next]_vars

\* Every process is scheduled, and so is the collector when it is waiting.
FairSpec == Spec /\ WF_vars(Receive) /\ \A p \in Proc : WF_vars(Process(p))

(***************************************************************************)
(* Properties.  A process that lags behind until its buffer is used again  *)
(* (overtaken) takes a range and a count away from the new round; what     *)
(* holds otherwise is stated first.                                        *)
(***************************************************************************)

Roots(im) == UNION {im.roots[r] : r \in 0 .. NRanges - 1}

\* The nodes that a chain of words leads to from the roots: what a thread
\* that has the roots can acquire a reference to.
Reachable(im) ==
  LET Grown[k \in 0 .. Cardinality(Node)] ==
        IF k = 0 THEN Roots(im)
        ELSE Grown[k - 1] \cup UNION {im.words[n] : n \in Grown[k - 1]}
  IN Grown[Cardinality(Node)]

\* The nodes that a word in one of the nodes S refers to.
WordsOf(im, S) == UNION {im.words[n] : n \in S}

\* When the collector is told that the scan is complete, every address that a
\* word outside the pool refers to is marked, and besides these only what the
\* searched nodes S refer to, whoever scanned which range and however the
\* lookaside lists were filled and emptied: a node that refers to itself or a
\* dead cycle is collected.  The searched nodes are roots, all but those whose
\* bit was already set from a word in another one ("Already recursively
\* searched", as recursive_mark takes it).
MarksExactly ==
  gc = "received" /\ ~overtaken =>
    \E S \in SUBSET Roots(image) :
      /\ marks = Roots(image) \cup WordsOf(image, S)
      /\ Roots(image) \subseteq S \cup WordsOf(image, S)

\* The collector and the user threads read the marks without a lock once the
\* notification is in the pipe: nobody sets a mark from then on, not even a
\* process that an earlier round left behind.
MarksSettled ==
  [][written > 0 /\ round' = round => marks' = marks]_vars

\* The collector, which blocks on the pipe, is told in the end: the siblings'
\* counts add up to the number of ranges for one of them.
ScanEnds == gc = "wait" ~> gc = "received" \/ overtaken

\* "We avoid searching memory we're tracking because that will be done during
\* mark" (child.c, find_roots): a node that can be reached through other nodes
\* of the pool is marked like one that is referred to directly.
MarkFollowsPool ==
  gc = "received" /\ ~overtaken => Reachable(image) \subseteq marks

\* "Wait for the child to complete the scan" (forkscan.c, reclaim_iteration):
\* whatever became of the processes of earlier rounds.
ScanCompleteWhenTold == gc = "received" => Roots(image) \subseteq marks
=============================================================================
