----------------------------- MODULE ScanProofs -----------------------------
(***************************************************************************)
(* The scan is right for any pool, any division into ranges and any number *)
(* of siblings: when the collector is told that it is complete, the marks  *)
(* are exactly those MarksExactly describes, and they change no more.      *)
(***************************************************************************)
EXTENDS Scan, FiniteSetTheorems, WellFoundedInduction, TLAPS

(***************************************************************************)
(* The inductive invariant, in named parts.                                *)
(***************************************************************************)

Ranges == 0 .. NRanges - 1

\* In recursive_mark, and in lookup_lookaside_list.
Searching == {"search", "setword"}
Lookup == {"lookup", "setroot"} \cup Searching

\* p is inside find_roots.
InRange(p) == pc[p] = "range" \/ (pc[p] \in Lookup /\ ~ending[p])

\* The child has not yet reset the counters of the shared buffer.
BeforeReset(p) == pc[p] = "child" /\ to_fork[p] = 0

\* What is known of a process from the place it is at.
PlaceOK(p) ==
  /\ pc[p] # "none" => mem[p] \in Image /\ born[p] > 0
  /\ pc[p] \in {"none", "child"} => completed[p] = 0
  /\ pc[p] # "child" => to_fork[p] = 0
  /\ ending[p] => pc[p] \in Lookup \cup {"finish", "notify"}
  /\ ~InRange(p) => todo[p] = {}
  /\ pc[p] \notin {"claim", "range", "last"} \cup Lookup => g_lookaside_count[p] = 0
  /\ pc[p] \in {"setroot", "setword"} => hit[p] \in Node
  /\ pc[p] \in Searching => addr[p] \in Node
  /\ born[p] <= round
PlaceInv == \A p \in Proc : PlaceOK(p)

\* The list has room while words are put aside, and is empty when its count is 0.
CountOK(p) ==
  /\ pc[p] \notin Lookup => g_lookaside_count[p] < LookasideSz
  /\ g_lookaside_count[p] = 0 => lookaside[p] = {}
CountInv == \A p \in Proc : CountOK(p)

\* The ranges p has taken and not yet added to the shared roots_completed: the
\* ones it has counted, and the one it is in.
Owed(p) ==
  IF pc[p] = "notify" THEN 0 ELSE completed[p] + IF InRange(p) THEN 1 ELSE 0

\* p has no words to look up.
Quiet(p) == g_lookaside_count[p] = 0 /\ ~InRange(p) /\ pc[p] \notin Lookup

\* mine[p] are the ranges that p has claimed and not yet added to the shared
\* roots_completed, done those that have been added.  Claims are handed out
\* in order and once, the counts agree, and who has claimed nothing has no
\* words to look up.
Ledger(mine, done) ==
  /\ \A p, q \in Proc : p # q => mine[p] \cap mine[q] = {}
  /\ \A p \in Proc : mine[p] \cap done = {}
  /\ \A r \in Ranges : r < root_counter <=> r \in done \/ \E p \in Proc : r \in mine[p]
  /\ roots_completed = Cardinality(done)
  /\ \A p \in Proc : Cardinality(mine[p]) = Owed(p) /\ (mine[p] = {} => Quiet(p))

\* The words p has still to look up.
Pending(p) == todo[p] \cup lookaside[p] \cup IF pc[p] = "setroot" THEN {hit[p]} ELSE {}

\* No root is lost: the roots of a range are marked, or its scanner has still
\* to look them up.
Covered(mine, done) ==
  ~overtaken /\ (\A p \in Proc : ~BeforeReset(p)) =>
    /\ \A p \in Proc : \A r \in mine[p] : image.roots[r] \subseteq marks \cup Pending(p)
    /\ \A r \in done : image.roots[r] \subseteq marks

LedgerInv ==
  \E mine \in [Proc -> SUBSET Ranges], done \in SUBSET Ranges :
    Ledger(mine, done) /\ Covered(mine, done)

\* The rounds: all ranges of a round are completed when its end is announced,
\* and still are when the child of the next one is about to reset the counters;
\* until it has done so it is the only process of its round.
RoundInv ==
  /\ gc = "idle" => root_counter = 0 /\ \A p \in Proc : pc[p] = "none"
  /\ gc = "idle" <=> round = 0
  /\ gc # "idle" => image \in Image
  /\ gc = "received" \/ written > 0 => roots_completed = NRanges
  /\ \A p \in Proc :
       /\ pc[p] = "notify" /\ born[p] = round => roots_completed = NRanges
       /\ BeforeReset(p) =>
            /\ gc = "wait" /\ written = 0 /\ born[p] = round
            /\ \A q \in Proc \ {p} : born[q] < round
            /\ \/ roots_completed = NRanges
               \/ root_counter = 0 /\ \A q \in Proc \ {p} : pc[q] = "none"

\* The processes of this round that exist, and the siblings p has still to fork.
Live == {p \in Proc : pc[p] # "none" /\ born[p] = round}
Rest(p) == IF to_fork[p] = 0 THEN Siblings - 1 ELSE to_fork[p]

\* A round has no more than n_siblings processes, so no more write to its pipe.
WrittenInv ==
  /\ written + Cardinality(Live) <= Siblings
  /\ \A p \in Live :
       pc[p] = "child" =>
         /\ written + Cardinality(Live) + Rest(p) <= Siblings
         /\ \A q \in Live : pc[q] = "child" => q = p

\* While no process is left behind, all look at the memory of this round, and
\* what they put aside are roots.
ImageInv ==
  ~overtaken =>
    \A p \in Proc :
      /\ pc[p] # "none" => mem[p] = image
      /\ gc # "idle" => Pending(p) \subseteq Roots(image)

\* S are the nodes recursive_mark was started on.  Each mark is one of these or
\* was found in one, and a node of S that is not fully searched is being searched.
Searched(S) ==
  /\ S \subseteq marks
  /\ marks \subseteq S \cup WordsOf(image, S)
  /\ \A p \in Proc :
       /\ pc[p] \in Searching => addr[p] \in S
       /\ pc[p] = "setword" => hit[p] \in image.words[addr[p]]
  /\ \A n \in S :
       \/ image.words[n] \subseteq marks
       \/ \E p \in Proc : pc[p] \in Searching /\ addr[p] = n
SearchInv ==
  ~overtaken /\ gc # "idle" => \E S \in SUBSET Roots(image) : Searched(S)

IndInv ==
  /\ TypeOK /\ PlaceInv /\ CountInv /\ LedgerInv /\ RoundInv /\ WrittenInv
  /\ ImageInv /\ SearchInv

(***************************************************************************)
(* The operators.                                                          *)
(***************************************************************************)

\* A set of naturals has a least element.
LEMMA LeastNat ==
  ASSUME NEW T \in SUBSET Nat, T # {}
  PROVE  \E m \in T : \A k \in T : m <= k
<1> DEFINE R == OpToRel(<, Nat)
<1>1. IsWellFoundedOn(R, Nat)
  BY NatLessThanWellFounded, Zenon
<1> HIDE DEF R
<1>2. PICK x \in T : \A y \in T : ~ (<<y, x>> \in R)
  BY <1>1, WFMin
<1>3. \A a, b \in Nat : a < b => <<a, b>> \in R
  BY DEF R, OpToRel
<1>4. \A k \in T : x <= k
  <2> TAKE k \in T
  <2>1. ~(<<k, x>> \in R) /\ k \in Nat /\ x \in Nat
    BY <1>2
  <2> QED
    BY <2>1, <1>3
<1> QED
  BY <1>4

\* The least word put aside is one of the words put aside.
LEMMA MinIn ==
  ASSUME NEW T \in SUBSET Node, T # {}
  PROVE  Min(T) \in T
<1>1. \E m \in T : \A k \in T : m <= k
  BY LeastNat, ScanAssumption
<1> QED
  BY <1>1 DEF Min

\* The ranges are as many as their number says.
LEMMA RangesFinite == IsFiniteSet(Ranges) /\ Cardinality(Ranges) = NRanges
BY ScanAssumption, FS_Interval DEF Ranges

\* An image maps ranges and nodes to sets of nodes.
LEMMA ImageType ==
  ASSUME NEW im \in Image
  PROVE  /\ \A r \in Ranges : im.roots[r] \subseteq Node /\ im.roots[r] \subseteq Roots(im)
         /\ \A n \in Node : im.words[n] \subseteq Node
         /\ Roots(im) \subseteq Node
<1>1. im.roots \in [Ranges -> SUBSET Node] /\ im.words \in [Node -> SUBSET Node]
  BY ScanAssumption DEF ImageOK, Ranges
<1> QED
  BY <1>1 DEF Roots, Ranges

\* The ranges a process has claimed are finitely many.
LEMMA LedgerType ==
  ASSUME NEW R \in SUBSET Ranges
  PROVE  /\ IsFiniteSet(R) /\ Cardinality(R) \in Nat /\ Cardinality(R) <= NRanges
         /\ Cardinality(R) = 0 <=> R = {}
         /\ Cardinality(R) = NRanges => R = Ranges
BY RangesFinite, FS_Subset, FS_CardinalityType, FS_EmptySet

(***************************************************************************)
(* The steps.                                                              *)
(***************************************************************************)

\* No step of the collector or of a scanning process leaves the types; that the
\* list does not run over LOOKASIDE_SZ, that a process counts no more ranges than
\* there are and that no more messages are written than there are processes
\* needs the other parts of the invariant.
LEMMA TypeStep ==
  ASSUME IndInv, [Next]_vars
  PROVE  TypeOK'
<1> USE ScanAssumption
    DEF IndInv, TypeOK, Places, PlaceInv, PlaceOK, InRange, Lookup, Searching, Ranges,
        gcVars, sharedVars, localVars
<1>1. ASSUME ForkChild
      PROVE  TypeOK'
  <2>1. PICK c \in Free :
          /\ pc' = [pc EXCEPT ![c] = "child"]
          /\ born' = [born EXCEPT ![c] = round']
          /\ mem' = [mem EXCEPT ![c] = image']
    BY <1>1 DEF ForkChild, Goto, Free
  <2>2. round' \in 0 .. MaxRounds /\ image' \in Image /\ written' \in 0 .. Cardinality(Proc)
    BY <1>1, FS_CardinalityType DEF ForkChild
  <2>3. overtaken' \in BOOLEAN
    BY <1>1, Zenon DEF ForkChild
  <2>4. c \in Proc
    BY DEF Free
  <2> QED
    BY <1>1, <2>1, <2>2, <2>3, <2>4 DEF ForkChild
<1>2. ASSUME Receive
      PROVE  TypeOK'
  BY <1>2 DEF Receive
<1>3. ASSUME NEW p \in Proc, ResetCounters(p)
      PROVE  TypeOK'
  BY <1>3 DEF ResetCounters, Goto
<1>4. ASSUME NEW p \in Proc, ForkSibling(p)
      PROVE  TypeOK'
  BY <1>4 DEF ForkSibling, Free
<1>5. ASSUME NEW p \in Proc, ClaimRange(p)
      PROVE  TypeOK'
  <2>1. root_counter < NRanges => mem[p].roots[root_counter] \subseteq Node
    BY <1>5, ImageType DEF ClaimRange
  <2> QED
    BY <1>5, <2>1 DEF ClaimRange, Goto
<1>6. ASSUME NEW p \in Proc, ReadWord(p)
      PROVE  TypeOK'
  <2>1. g_lookaside_count' \in [Proc -> 0 .. LookasideSz]
    BY <1>6 DEF ReadWord, CountInv, CountOK
  <2>2. PICK v \in todo[p] : /\ todo' = [todo EXCEPT ![p] = @ \ {v}]
                             /\ lookaside' = [lookaside EXCEPT ![p] = @ \cup {v}]
    BY <1>6 DEF ReadWord
  <2> QED
    BY <1>6, <2>1, <2>2 DEF ReadWord, Goto
<1>7. ASSUME NEW p \in Proc, EndRange(p)
      PROVE  TypeOK'
  <2>1. completed[p] + 1 <= NRanges
    <3>1. PICK mine \in [Proc -> SUBSET Ranges], done \in SUBSET Ranges : Ledger(mine, done)
      BY DEF LedgerInv
    <3>2. Cardinality(mine[p]) = completed[p] + 1
      BY <1>7, <3>1 DEF EndRange, Ledger, Owed
    <3> QED
      BY <3>2, LedgerType
  <2> QED
    BY <1>7, <2>1 DEF EndRange, Goto
<1>8. ASSUME NEW p \in Proc, Remainders(p)
      PROVE  TypeOK'
  BY <1>8 DEF Remainders, Goto
<1>9. ASSUME NEW p \in Proc, LookUp(p)
      PROVE  TypeOK'
  <2>1. Min(lookaside[p]) \in Node
    BY <1>9, MinIn DEF LookUp
  <2> QED
    BY <1>9, <2>1 DEF LookUp, Goto
<1>10. ASSUME NEW p \in Proc, SetRoot(p)
      PROVE  TypeOK'
  BY <1>10 DEF SetRoot, Goto
<1>11. ASSUME NEW p \in Proc, SearchWord(p)
      PROVE  TypeOK'
  <2>1. mem[p].words[addr[p]] \subseteq Node
    BY <1>11, ImageType DEF SearchWord
  <2> QED
    BY <1>11, <2>1 DEF SearchWord, Goto
<1>12. ASSUME NEW p \in Proc, SetWord(p)
      PROVE  TypeOK'
  BY <1>12 DEF SetWord, Goto
<1>13. ASSUME NEW p \in Proc, EndSearch(p)
      PROVE  TypeOK'
  BY <1>13 DEF EndSearch, Goto
<1>14. ASSUME NEW p \in Proc, EndLookup(p)
      PROVE  TypeOK'
  BY <1>14 DEF EndLookup, Goto
<1>15. ASSUME NEW p \in Proc, Finish(p)
      PROVE  TypeOK'
  <2>1. roots_completed' \in Nat
    BY <1>15 DEF Finish
  <2>2. CASE roots_completed' = NRanges
    BY <1>15, <2>1, <2>2 DEF Finish, Goto, Exit
  <2>3. CASE roots_completed' # NRanges
    <3>1. Exit(p)
      BY <1>15, <2>3 DEF Finish
    <3>2. /\ pc' \in [Proc -> Places] /\ born' \in [Proc -> 0 .. MaxRounds]
          /\ mem' \in [Proc -> Image \cup {NULL}] /\ completed' \in [Proc -> 0 .. NRanges]
      BY <3>1 DEF Exit, Goto
    <3>3. ending' \in [Proc -> BOOLEAN]
      BY <3>1 DEF Exit
    <3> QED
      BY <1>15, <2>1, <3>2, <3>3 DEF Finish
  <2> QED
    BY <2>2, <2>3
<1>16. ASSUME NEW p \in Proc, Notify(p)
      PROVE  TypeOK'
  <2>1. written' \in 0 .. Cardinality(Proc)
    <3>1. p \in Live \/ born[p] # round
      BY <1>16 DEF Notify, Live
    <3>2. IsFiniteSet(Live) /\ Cardinality(Live) \in Nat
      BY FS_Subset, FS_CardinalityType DEF Live
    <3>3. p \in Live => Cardinality(Live) > 0
      BY <3>2, FS_EmptySet
    <3>4. Cardinality(Proc) \in Nat
      BY FS_CardinalityType
    <3> QED
      BY <1>16, <3>1, <3>2, <3>3, <3>4 DEF Notify, WrittenInv
  <2> QED
    BY <1>16, <2>1 DEF Notify, Goto, Exit
<1>17. CASE UNCHANGED vars
  BY <1>17 DEF vars
<1> QED
  BY <1>1, <1>2, <1>3, <1>4, <1>5, <1>6, <1>7, <1>8, <1>9, <1>10,
     <1>11, <1>12, <1>13, <1>14, <1>15, <1>16, <1>17
     DEF Next, Process

\* Every step of forkscan_child keeps what is known of a process from its place.
LEMMA PlaceStep ==
  ASSUME IndInv, [Next]_vars
  PROVE  PlaceInv'
<1> USE ScanAssumption
    DEF IndInv, TypeOK, PlaceInv, PlaceOK, InRange, Lookup, Searching, Ranges,
        gcVars, sharedVars, localVars
<1>1. ASSUME ForkChild
      PROVE  PlaceInv'
  BY <1>1 DEF ForkChild, Goto, Free
<1>2. ASSUME Receive
      PROVE  PlaceInv'
  BY <1>2 DEF Receive
<1>3. ASSUME NEW p \in Proc, ResetCounters(p)
      PROVE  PlaceInv'
  BY <1>3 DEF ResetCounters, Goto
<1>4. ASSUME NEW p \in Proc, ForkSibling(p)
      PROVE  PlaceInv'
  BY <1>4 DEF ForkSibling, Free
<1>5. ASSUME NEW p \in Proc, ClaimRange(p)
      PROVE  PlaceInv'
  BY <1>5 DEF ClaimRange, Goto
<1>6. ASSUME NEW p \in Proc, ReadWord(p)
      PROVE  PlaceInv'
  BY <1>6 DEF ReadWord, Goto
<1>7. ASSUME NEW p \in Proc, EndRange(p)
      PROVE  PlaceInv'
  BY <1>7 DEF EndRange, Goto
<1>8. ASSUME NEW p \in Proc, Remainders(p)
      PROVE  PlaceInv'
  BY <1>8 DEF Remainders, Goto
<1>9. ASSUME NEW p \in Proc, LookUp(p)
      PROVE  PlaceInv'
  <2>1. Min(lookaside[p]) \in Node
    BY <1>9, MinIn DEF LookUp
  <2> QED
    BY <1>9, <2>1 DEF LookUp, Goto
<1>10. ASSUME NEW p \in Proc, SetRoot(p)
      PROVE  PlaceInv'
  BY <1>10 DEF SetRoot, Goto
<1>11. ASSUME NEW p \in Proc, SearchWord(p)
      PROVE  PlaceInv'
  <2>1. mem[p].words[addr[p]] \subseteq Node
    BY <1>11, ImageType DEF SearchWord
  <2> QED
    BY <1>11, <2>1 DEF SearchWord, Goto
<1>12. ASSUME NEW p \in Proc, SetWord(p)
      PROVE  PlaceInv'
  BY <1>12 DEF SetWord, Goto
<1>13. ASSUME NEW p \in Proc, EndSearch(p)
      PROVE  PlaceInv'
  BY <1>13 DEF EndSearch, Goto
<1>14. ASSUME NEW p \in Proc, EndLookup(p)
      PROVE  PlaceInv'
  BY <1>14 DEF EndLookup, Goto
<1>15. ASSUME NEW p \in Proc, Finish(p)
      PROVE  PlaceInv'
  BY <1>15 DEF Finish, Goto, Exit
<1>16. ASSUME NEW p \in Proc, Notify(p)
      PROVE  PlaceInv'
  BY <1>16 DEF Notify, Goto, Exit
<1>17. CASE UNCHANGED vars
  BY <1>17 DEF vars
<1> QED
  BY <1>1, <1>2, <1>3, <1>4, <1>5, <1>6, <1>7, <1>8, <1>9, <1>10,
     <1>11, <1>12, <1>13, <1>14, <1>15, <1>16, <1>17
     DEF Next, Process

\* Every step of forkscan_child keeps room in the lookaside list, and empties it
\* before the count is reset.
LEMMA CountStep ==
  ASSUME IndInv, [Next]_vars
  PROVE  CountInv'
<1> USE ScanAssumption
    DEF IndInv, TypeOK, CountInv, CountOK, PlaceInv, PlaceOK, InRange, Lookup, Searching, Ranges,
        gcVars, sharedVars, localVars
<1>1. ASSUME ForkChild
      PROVE  CountInv'
  BY <1>1 DEF ForkChild, Goto, Free
<1>2. ASSUME Receive
      PROVE  CountInv'
  BY <1>2 DEF Receive
<1>3. ASSUME NEW p \in Proc, ResetCounters(p)
      PROVE  CountInv'
  BY <1>3 DEF ResetCounters, Goto
<1>4. ASSUME NEW p \in Proc, ForkSibling(p)
      PROVE  CountInv'
  BY <1>4 DEF ForkSibling, Free
<1>5. ASSUME NEW p \in Proc, ClaimRange(p)
      PROVE  CountInv'
  BY <1>5 DEF ClaimRange, Goto
<1>6. ASSUME NEW p \in Proc, ReadWord(p)
      PROVE  CountInv'
  BY <1>6 DEF ReadWord, Goto
<1>7. ASSUME NEW p \in Proc, EndRange(p)
      PROVE  CountInv'
  BY <1>7 DEF EndRange, Goto
<1>8. ASSUME NEW p \in Proc, Remainders(p)
      PROVE  CountInv'
  BY <1>8 DEF Remainders, Goto
<1>9. ASSUME NEW p \in Proc, LookUp(p)
      PROVE  CountInv'
  BY <1>9 DEF LookUp, Goto
<1>10. ASSUME NEW p \in Proc, SetRoot(p)
      PROVE  CountInv'
  BY <1>10 DEF SetRoot, Goto
<1>11. ASSUME NEW p \in Proc, SearchWord(p)
      PROVE  CountInv'
  BY <1>11 DEF SearchWord, Goto
<1>12. ASSUME NEW p \in Proc, SetWord(p)
      PROVE  CountInv'
  BY <1>12 DEF SetWord, Goto
<1>13. ASSUME NEW p \in Proc, EndSearch(p)
      PROVE  CountInv'
  BY <1>13 DEF EndSearch, Goto
<1>14. ASSUME NEW p \in Proc, EndLookup(p)
      PROVE  CountInv'
  BY <1>14 DEF EndLookup, Goto
<1>15. ASSUME NEW p \in Proc, Finish(p)
      PROVE  CountInv'
  BY <1>15 DEF Finish, Goto, Exit
<1>16. ASSUME NEW p \in Proc, Notify(p)
      PROVE  CountInv'
  BY <1>16 DEF Notify, Goto, Exit
<1>17. CASE UNCHANGED vars
  BY <1>17 DEF vars
<1> QED
  BY <1>1, <1>2, <1>3, <1>4, <1>5, <1>6, <1>7, <1>8, <1>9, <1>10,
     <1>11, <1>12, <1>13, <1>14, <1>15, <1>16, <1>17
     DEF Next, Process

\* Every step keeps the words put aside among the roots of the round's image.
LEMMA ImageStep ==
  ASSUME IndInv, [Next]_vars
  PROVE  ImageInv'
<1> USE ScanAssumption
    DEF IndInv, TypeOK, ImageInv, Pending, PlaceInv, PlaceOK, InRange, Lookup, Searching, Ranges,
        gcVars, sharedVars, localVars
<1>1. ASSUME ForkChild
      PROVE  ImageInv'
  <2> SUFFICES ASSUME ~overtaken', NEW q \in Proc
               PROVE  /\ pc'[q] # "none" => mem'[q] = image'
                      /\ Pending(q)' = {}
    BY DEF Pending
  <2>1. \A r \in Proc : pc[r] = "none"
    BY <1>1 DEF ForkChild, Free
  <2>2. todo[q] = {} /\ lookaside[q] = {}
    BY <2>1 DEF CountInv, CountOK
  <2> QED
    BY <1>1, <2>1, <2>2 DEF ForkChild, Goto, Free
<1>2. ASSUME Receive
      PROVE  ImageInv'
  BY <1>2 DEF Receive
<1>3. ASSUME NEW p \in Proc, ResetCounters(p)
      PROVE  ImageInv'
  BY <1>3 DEF ResetCounters, Goto
<1>4. ASSUME NEW p \in Proc, ForkSibling(p)
      PROVE  ImageInv'
  BY <1>4 DEF ForkSibling, Free
<1>5. ASSUME NEW p \in Proc, ClaimRange(p)
      PROVE  ImageInv'
  <2>1. ASSUME root_counter < NRanges, ~overtaken
        PROVE  mem[p].roots[root_counter] \subseteq Roots(image)
    BY <1>5, <2>1, ImageType DEF ClaimRange
  <2> QED
    BY <1>5, <2>1 DEF ClaimRange, Goto
<1>6. ASSUME NEW p \in Proc, ReadWord(p)
      PROVE  ImageInv'
  BY <1>6 DEF ReadWord, Goto
<1>7. ASSUME NEW p \in Proc, EndRange(p)
      PROVE  ImageInv'
  BY <1>7 DEF EndRange, Goto
<1>8. ASSUME NEW p \in Proc, Remainders(p)
      PROVE  ImageInv'
  BY <1>8 DEF Remainders, Goto
<1>9. ASSUME NEW p \in Proc, LookUp(p)
      PROVE  ImageInv'
  <2>1. Min(lookaside[p]) \in lookaside[p]
    BY <1>9, MinIn DEF LookUp
  <2> QED
    BY <1>9, <2>1 DEF LookUp, Goto
<1>10. ASSUME NEW p \in Proc, SetRoot(p)
      PROVE  ImageInv'
  BY <1>10 DEF SetRoot, Goto
<1>11. ASSUME NEW p \in Proc, SearchWord(p)
      PROVE  ImageInv'
  BY <1>11 DEF SearchWord, Goto
<1>12. ASSUME NEW p \in Proc, SetWord(p)
      PROVE  ImageInv'
  BY <1>12 DEF SetWord, Goto
<1>13. ASSUME NEW p \in Proc, EndSearch(p)
      PROVE  ImageInv'
  BY <1>13 DEF EndSearch, Goto
<1>14. ASSUME NEW p \in Proc, EndLookup(p)
      PROVE  ImageInv'
  BY <1>14 DEF EndLookup, Goto
<1>15. ASSUME NEW p \in Proc, Finish(p)
      PROVE  ImageInv'
  BY <1>15 DEF Finish, Goto, Exit
<1>16. ASSUME NEW p \in Proc, Notify(p)
      PROVE  ImageInv'
  BY <1>16 DEF Notify, Goto, Exit
<1>17. CASE UNCHANGED vars
  BY <1>17 DEF vars
<1> QED
  BY <1>1, <1>2, <1>3, <1>4, <1>5, <1>6, <1>7, <1>8, <1>9, <1>10,
     <1>11, <1>12, <1>13, <1>14, <1>15, <1>16, <1>17
     DEF Next, Process

\* When all ranges have been added to roots_completed, nobody has one left, and
\* so nobody has words to look up or a count to add.
LEMMA AllDone ==
  ASSUME IndInv, roots_completed = NRanges, NEW p \in Proc
  PROVE  /\ g_lookaside_count[p] = 0 /\ ~InRange(p) /\ pc[p] \notin Lookup
         /\ pc[p] # "notify" => completed[p] = 0
<1>1. PICK mine \in [Proc -> SUBSET Ranges], done \in SUBSET Ranges : Ledger(mine, done)
  BY DEF IndInv, LedgerInv
<1>2. done = Ranges
  BY <1>1, LedgerType DEF Ledger
<1>3. mine[p] = {}
  BY <1>1, <1>2 DEF Ledger
<1>4. Quiet(p)
  BY <1>1, <1>3 DEF Ledger
<1>5. Owed(p) = 0
  BY <1>1, <1>3, FS_EmptySet DEF Ledger
<1>6. completed[p] \in Nat
  BY DEF IndInv, TypeOK
<1> QED
  BY <1>4, <1>5, <1>6 DEF Quiet, Owed

\* Every step keeps the order of the rounds: the end is announced when the
\* counts of the siblings add up, and the counters are reset after that.
LEMMA RoundStep ==
  ASSUME IndInv, [Next]_vars
  PROVE  RoundInv'
<1> USE ScanAssumption
    DEF IndInv, TypeOK, RoundInv, BeforeReset, PlaceInv, PlaceOK, InRange, Lookup, Searching, Ranges,
        gcVars, sharedVars, localVars
<1>1. ASSUME ForkChild
      PROVE  RoundInv'
  BY <1>1 DEF ForkChild, Goto, Free
<1>2. ASSUME Receive
      PROVE  RoundInv'
  BY <1>2 DEF Receive
<1>3. ASSUME NEW p \in Proc, ResetCounters(p)
      PROVE  RoundInv'
  BY <1>3 DEF ResetCounters, Goto
<1>4. ASSUME NEW p \in Proc, ForkSibling(p)
      PROVE  RoundInv'
  BY <1>4 DEF ForkSibling, Free
<1>5. ASSUME NEW p \in Proc, ClaimRange(p)
      PROVE  RoundInv'
  BY <1>5 DEF ClaimRange, Goto
<1>6. ASSUME NEW p \in Proc, ReadWord(p)
      PROVE  RoundInv'
  BY <1>6 DEF ReadWord, Goto
<1>7. ASSUME NEW p \in Proc, EndRange(p)
      PROVE  RoundInv'
  BY <1>7 DEF EndRange, Goto
<1>8. ASSUME NEW p \in Proc, Remainders(p)
      PROVE  RoundInv'
  BY <1>8 DEF Remainders, Goto
<1>9. ASSUME NEW p \in Proc, LookUp(p)
      PROVE  RoundInv'
  BY <1>9 DEF LookUp, Goto
<1>10. ASSUME NEW p \in Proc, SetRoot(p)
      PROVE  RoundInv'
  BY <1>10 DEF SetRoot, Goto
<1>11. ASSUME NEW p \in Proc, SearchWord(p)
      PROVE  RoundInv'
  BY <1>11 DEF SearchWord, Goto
<1>12. ASSUME NEW p \in Proc, SetWord(p)
      PROVE  RoundInv'
  BY <1>12 DEF SetWord, Goto
<1>13. ASSUME NEW p \in Proc, EndSearch(p)
      PROVE  RoundInv'
  BY <1>13 DEF EndSearch, Goto
<1>14. ASSUME NEW p \in Proc, EndLookup(p)
      PROVE  RoundInv'
  BY <1>14 DEF EndLookup, Goto
<1>15. ASSUME NEW p \in Proc, Finish(p)
      PROVE  RoundInv'
  <2>1. roots_completed = NRanges => roots_completed' = NRanges
    BY <1>15, AllDone DEF Finish
  <2>2. UNCHANGED <<gc, round, written, root_counter, to_fork, image>>
    BY <1>15 DEF Finish
  <2>3. \A q \in Proc \ {p} : pc'[q] = pc[q] /\ born'[q] = born[q]
    BY <1>15 DEF Finish, Goto, Exit
  <2>4. \/ pc'[p] = "notify" /\ born'[p] = born[p] /\ roots_completed' = NRanges
        \/ pc'[p] = "none" /\ born'[p] = 0
    BY <1>15 DEF Finish, Goto, Exit
  <2>5. pc[p] # "none" /\ born[p] > 0
    BY <1>15 DEF Finish
  <2> QED
    BY <2>1, <2>2, <2>3, <2>4, <2>5
<1>16. ASSUME NEW p \in Proc, Notify(p)
      PROVE  RoundInv'
  BY <1>16 DEF Notify, Goto, Exit
<1>17. CASE UNCHANGED vars
  BY <1>17 DEF vars
<1> QED
  BY <1>1, <1>2, <1>3, <1>4, <1>5, <1>6, <1>7, <1>8, <1>9, <1>10,
     <1>11, <1>12, <1>13, <1>14, <1>15, <1>16, <1>17
     DEF Next, Process

\* Steps that neither set a mark nor begin or end a search.
LEMMA SearchFrame ==
  ASSUME IndInv, UNCHANGED <<image, marks, overtaken>>, gc' = "idle" <=> gc = "idle",
         \A q \in Proc :
           /\ pc'[q] \in Searching <=> pc[q] \in Searching
           /\ pc[q] \in Searching => addr'[q] = addr[q]
           /\ pc'[q] = "setword" => pc[q] = "setword" /\ hit'[q] = hit[q]
  PROVE  SearchInv'
<1> SUFFICES ASSUME ~overtaken, gc # "idle"
             PROVE  \E S \in SUBSET Roots(image) : Searched(S)'
  BY DEF SearchInv
<1>1. PICK S \in SUBSET Roots(image) : Searched(S)
  BY DEF IndInv, SearchInv
<1>2. Searched(S)'
  BY <1>1 DEF Searched, Searching
<1> QED
  BY <1>2

\* Every step keeps the account of the searched nodes: SetRoot starts a search,
\* SetWord marks what it finds, and EndSearch ends it when nothing is left.
LEMMA SearchStep ==
  ASSUME IndInv, [Next]_vars
  PROVE  SearchInv'
<1> USE ScanAssumption
    DEF IndInv, TypeOK, PlaceInv, PlaceOK, InRange, Lookup, Searching, Ranges,
        gcVars, sharedVars, localVars
<1>1. ASSUME ForkChild
      PROVE  SearchInv'
  <2> SUFFICES ASSUME ~overtaken'
               PROVE  Searched({})'
    BY <1>1 DEF SearchInv
  <2>1. marks' = {} /\ \A q \in Proc : pc'[q] \notin Searching
    BY <1>1 DEF ForkChild, Goto, Free
  <2> QED
    BY <2>1 DEF Searched, WordsOf
<1>2. ASSUME Receive
      PROVE  SearchInv'
  BY <1>2, SearchFrame DEF Receive
<1>3. ASSUME NEW p \in Proc, ResetCounters(p)
      PROVE  SearchInv'
  BY <1>3, SearchFrame DEF ResetCounters, Goto
<1>4. ASSUME NEW p \in Proc, ForkSibling(p)
      PROVE  SearchInv'
  BY <1>4, SearchFrame DEF ForkSibling, Free
<1>5. ASSUME NEW p \in Proc, ClaimRange(p)
      PROVE  SearchInv'
  BY <1>5, SearchFrame DEF ClaimRange, Goto
<1>6. ASSUME NEW p \in Proc, ReadWord(p)
      PROVE  SearchInv'
  BY <1>6, SearchFrame DEF ReadWord, Goto
<1>7. ASSUME NEW p \in Proc, EndRange(p)
      PROVE  SearchInv'
  BY <1>7, SearchFrame DEF EndRange, Goto
<1>8. ASSUME NEW p \in Proc, Remainders(p)
      PROVE  SearchInv'
  BY <1>8, SearchFrame DEF Remainders, Goto
<1>9. ASSUME NEW p \in Proc, LookUp(p)
      PROVE  SearchInv'
  BY <1>9, SearchFrame DEF LookUp, Goto
<1>10. ASSUME NEW p \in Proc, SetRoot(p)
      PROVE  SearchInv'
  <2> SUFFICES ASSUME ~overtaken, gc # "idle"
               PROVE  \E S \in SUBSET Roots(image) : Searched(S)'
    BY <1>10 DEF SetRoot, Goto, SearchInv
  <2>1. PICK S \in SUBSET Roots(image) : Searched(S)
    BY DEF SearchInv
  <2>2. mem[p] = image /\ image \in Image /\ pc[p] # "none" /\ Roots(image) \subseteq Node
    BY <1>10, ImageType DEF SetRoot, Goto, ImageInv, RoundInv
  <2>3. PICK n \in Roots(image) : n = hit[p]
    BY <1>10 DEF SetRoot, ImageInv, Pending
  <2>4. WordsOf(image, S) \subseteq WordsOf(image, S \cup {n})
    BY DEF WordsOf
  <2>5. marks' = marks \cup {n} /\ pc'[p] = "search" /\ addr'[p] = n /\ image' = image
    BY <1>10, <2>3 DEF SetRoot, Goto
  <2>6. \A q \in Proc \ {p} : pc'[q] = pc[q] /\ addr'[q] = addr[q] /\ hit'[q] = hit[q]
    BY <1>10 DEF SetRoot, Goto
  <2>7. pc[p] \notin Searching
    BY <1>10 DEF SetRoot
  <2> HIDE DEF Searching, IndInv
  <2>8. Searched(S \cup {n})'
    <3>1. S \cup {n} \subseteq marks' /\ marks' \subseteq (S \cup {n}) \cup WordsOf(image', S \cup {n})
      BY <2>1, <2>4, <2>5 DEF Searched
    <3>2. ASSUME NEW q \in Proc
          PROVE  /\ pc'[q] \in Searching => addr'[q] \in S \cup {n}
                 /\ pc'[q] = "setword" => hit'[q] \in image'.words[addr'[q]]
      BY <2>1, <2>5, <2>6 DEF Searched
    <3>3. ASSUME NEW m \in S \cup {n}
          PROVE  \/ image'.words[m] \subseteq marks'
                 \/ \E q \in Proc : pc'[q] \in Searching /\ addr'[q] = m
      <4>1. CASE m = n
        BY <4>1, <2>5 DEF Searching
      <4>2. CASE m \in S /\ image.words[m] \subseteq marks
        BY <4>2, <2>5
      <4>3. CASE m \in S /\ \E q \in Proc : pc[q] \in Searching /\ addr[q] = m
        BY <4>3, <2>6, <2>7
      <4> QED
        BY <4>1, <4>2, <4>3, <2>1 DEF Searched
    <3> QED
      BY <3>1, <3>2, <3>3 DEF Searched
  <2> QED
    BY <2>8
<1>11. ASSUME NEW p \in Proc, SearchWord(p)
      PROVE  SearchInv'
  <2> SUFFICES ASSUME ~overtaken, gc # "idle"
               PROVE  \E S \in SUBSET Roots(image) : Searched(S)'
    BY <1>11 DEF SearchWord, Goto, SearchInv
  <2>1. PICK S \in SUBSET Roots(image) : Searched(S)
    BY DEF SearchInv
  <2>2. mem[p] = image /\ image \in Image /\ pc[p] # "none" /\ Roots(image) \subseteq Node
    BY <1>11, ImageType DEF SearchWord, Goto, ImageInv, RoundInv
  <2>3. PICK w \in mem[p].words[addr[p]] \ marks :
          hit' = [hit EXCEPT ![p] = w] /\ pc' = [pc EXCEPT ![p] = "setword"]
    BY <1>11 DEF SearchWord, Goto
  <2>4. addr' = addr /\ marks' = marks /\ image' = image
    BY <1>11 DEF SearchWord
  <2>5. Searched(S)'
    BY <1>11, <2>1, <2>2, <2>3, <2>4 DEF SearchWord, Searched
  <2> QED
    BY <2>5
<1>12. ASSUME NEW p \in Proc, SetWord(p)
      PROVE  SearchInv'
  <2> SUFFICES ASSUME ~overtaken, gc # "idle"
               PROVE  \E S \in SUBSET Roots(image) : Searched(S)'
    BY <1>12 DEF SetWord, Goto, SearchInv
  <2>1. PICK S \in SUBSET Roots(image) : Searched(S)
    BY DEF SearchInv
  <2>2. mem[p] = image /\ image \in Image /\ pc[p] # "none" /\ Roots(image) \subseteq Node
    BY <1>12, ImageType DEF SetWord, Goto, ImageInv, RoundInv
  <2>3. hit[p] \in image.words[addr[p]] /\ addr[p] \in S
    BY <1>12, <2>1 DEF SetWord, Searched
  <2>4. hit[p] \in WordsOf(image, S)
    BY <2>3 DEF WordsOf
  <2>5. marks' = marks \cup {hit[p]} /\ pc' = [pc EXCEPT ![p] = "search"] /\ addr' = addr
    BY <1>12 DEF SetWord, Goto
  <2>6. image' = image /\ \A q \in Proc \ {p} : hit'[q] = hit[q]
    BY <1>12 DEF SetWord
  <2>7. Searched(S)'
    <3>1. S \subseteq marks' /\ marks' \subseteq S \cup WordsOf(image', S)
      <4> HIDE DEF IndInv
      <4>1. S \subseteq marks /\ marks \subseteq S \cup WordsOf(image, S)
        BY <2>1 DEF Searched
      <4> QED
        BY <4>1, <2>4, <2>5, <2>6
    <3>2. \A q \in Proc : pc'[q] \in Searching <=> pc[q] \in Searching
      BY <1>12, <2>5 DEF SetWord
    <3> HIDE DEF Searching
    <3>3. ASSUME NEW q \in Proc
          PROVE  /\ pc'[q] \in Searching => addr'[q] \in S
                 /\ pc'[q] = "setword" => hit'[q] \in image'.words[addr'[q]]
      BY <2>1, <2>5, <2>6, <3>2 DEF Searched
    <3>4. ASSUME NEW m \in S
          PROVE  \/ image'.words[m] \subseteq marks'
                 \/ \E q \in Proc : pc'[q] \in Searching /\ addr'[q] = m
      BY <2>1, <2>5, <2>6, <3>2 DEF Searched
    <3> QED
      BY <3>1, <3>3, <3>4 DEF Searched
  <2> QED
    BY <2>7
<1>13. ASSUME NEW p \in Proc, EndSearch(p)
      PROVE  SearchInv'
  <2> SUFFICES ASSUME ~overtaken, gc # "idle"
               PROVE  \E S \in SUBSET Roots(image) : Searched(S)'
    BY <1>13 DEF EndSearch, Goto, SearchInv
  <2>1. PICK S \in SUBSET Roots(image) : Searched(S)
    BY DEF SearchInv
  <2>2. mem[p] = image /\ image \in Image /\ pc[p] # "none" /\ Roots(image) \subseteq Node
    BY <1>13, ImageType DEF EndSearch, Goto, ImageInv, RoundInv
  <2>3. image.words[addr[p]] \subseteq marks
    BY <1>13, <2>2 DEF EndSearch
  <2>4. pc' = [pc EXCEPT ![p] = "lookup"] /\ \A q \in Proc \ {p} : addr'[q] = addr[q]
    BY <1>13 DEF EndSearch, Goto
  <2>5. UNCHANGED <<marks, image, hit>>
    BY <1>13 DEF EndSearch
  <2>6. Searched(S)'
    BY <1>13, <2>1, <2>3, <2>4, <2>5 DEF Searched
  <2> QED
    BY <2>6
<1>14. ASSUME NEW p \in Proc, EndLookup(p)
      PROVE  SearchInv'
  BY <1>14, SearchFrame DEF EndLookup, Goto
<1>15. ASSUME NEW p \in Proc, Finish(p)
      PROVE  SearchInv'
  BY <1>15, SearchFrame DEF Finish, Goto, Exit
<1>16. ASSUME NEW p \in Proc, Notify(p)
      PROVE  SearchInv'
  BY <1>16, SearchFrame DEF Notify, Goto, Exit
<1>17. CASE UNCHANGED vars
  BY <1>17, SearchFrame DEF vars
<1> QED
  BY <1>1, <1>2, <1>3, <1>4, <1>5, <1>6, <1>7, <1>8, <1>9, <1>10,
     <1>11, <1>12, <1>13, <1>14, <1>15, <1>16, <1>17
     DEF Next, Process

\* The processes of a round are finitely many.
LEMMA LiveFinite ==
  ASSUME IndInv
  PROVE  IsFiniteSet(Live) /\ Cardinality(Live) \in Nat
BY ScanAssumption, FS_Subset, FS_CardinalityType DEF Live

\* Steps that neither begin nor end a process, nor the forking of siblings.
LEMMA WrittenFrame ==
  ASSUME IndInv, UNCHANGED <<written, round, born, to_fork>>,
         \A q \in Proc : /\ pc'[q] = "none" <=> pc[q] = "none"
                         /\ pc'[q] = "child" <=> pc[q] = "child"
  PROVE  WrittenInv'
<1>1. Live' = Live
  BY DEF Live
<1>2. \A q \in Proc : Rest(q)' = Rest(q)
  BY DEF Rest
<1> QED
  BY <1>1, <1>2 DEF IndInv, WrittenInv, Live

\* Every step keeps the processes of a round, with the messages they wrote and
\* the siblings still to be forked, within n_siblings.
LEMMA WrittenStep ==
  ASSUME IndInv, [Next]_vars
  PROVE  WrittenInv'
<1> USE ScanAssumption
    DEF IndInv, TypeOK, PlaceInv, PlaceOK, InRange, Lookup, Searching, Ranges,
        gcVars, sharedVars, localVars
<1>1. ASSUME ForkChild
      PROVE  WrittenInv'
  <2>1. PICK c \in Free : pc' = [pc EXCEPT ![c] = "child"] /\ born' = [born EXCEPT ![c] = round']
    BY <1>1 DEF ForkChild, Goto, Free
  <2>2. c \in Proc /\ written' = 0 /\ round' = round + 1 /\ to_fork' = to_fork /\ to_fork[c] = 0
    BY <1>1 DEF ForkChild, Goto, Free
  <2>3. Live' = {c}
    BY <2>1, <2>2 DEF Live
  <2>4. Cardinality(Live') = 1
    BY <2>3, FS_Singleton
  <2> QED
    BY <2>1, <2>2, <2>3, <2>4 DEF WrittenInv, Rest
<1>2. ASSUME Receive
      PROVE  WrittenInv'
  <2>1. \A q \in Proc : /\ pc'[q] = "none" <=> pc[q] = "none"
                        /\ pc'[q] = "child" <=> pc[q] = "child"
    BY <1>2 DEF Receive
  <2>2. UNCHANGED <<written, round, born, to_fork>>
    BY <1>2 DEF Receive
  <2> QED
    BY <2>1, <2>2, WrittenFrame
<1>3. ASSUME NEW p \in Proc, ResetCounters(p)
      PROVE  WrittenInv'
  <2>1. \A q \in Proc : /\ pc'[q] = "none" <=> pc[q] = "none"
                        /\ pc'[q] = "child" => pc[q] = "child"
    BY <1>3 DEF ResetCounters, Goto
  <2>2. UNCHANGED <<written, round, born>>
    BY <1>3 DEF ResetCounters, Goto
  <2>3. Live' = Live
    BY <2>1, <2>2 DEF Live
  <2>4. \A q \in Live : pc'[q] = "child" => Rest(q)' = Rest(q)
    BY <1>3 DEF ResetCounters, Goto, Rest, Live
  <2> QED
    BY <2>1, <2>2, <2>3, <2>4 DEF WrittenInv, Live
<1>4. ASSUME NEW p \in Proc, ForkSibling(p)
      PROVE  WrittenInv'
  <2>1. PICK s \in Proc :
          /\ pc[s] = "none"
          /\ pc' = [pc EXCEPT ![s] = "claim", ![p] = IF to_fork[p] = 1 THEN "claim" ELSE @]
          /\ born' = [born EXCEPT ![s] = born[p]]
    BY <1>4 DEF ForkSibling, Free
  <2>2. /\ pc[p] = "child" /\ to_fork[p] > 0 /\ to_fork' = [to_fork EXCEPT ![p] = @ - 1]
        /\ UNCHANGED <<written, round>>
    BY <1>4 DEF ForkSibling, Free
  <2>3. CASE born[p] = round
    <3>1. Live' = Live \cup {s} /\ s \notin Live /\ p \in Live
      BY <2>1, <2>2, <2>3 DEF Live
    <3>2. Cardinality(Live') = Cardinality(Live) + 1
      BY <3>1, LiveFinite, FS_AddElement
    <3>3. /\ written + Cardinality(Live) + to_fork[p] <= Siblings
          /\ \A q \in Live : pc[q] = "child" => q = p
      BY <3>1, <2>2 DEF WrittenInv, Rest
    <3>4. ASSUME NEW q \in Live', pc'[q] = "child"
          PROVE  q = p /\ to_fork[p] > 1
      <4>1. q \in Live \/ q = s
        BY <3>1
      <4>2. s # p /\ p \in Proc /\ q \in Proc
        BY <2>1, <2>2, <4>1 DEF Live
      <4>3. q # s
        BY <3>4, <2>1, <4>2
      <4>4. q # p => pc'[q] = pc[q]
        BY <4>2, <4>3, <2>1
      <4>5. q = p
        BY <4>1, <4>3, <4>4, <3>3, <3>4
      <4>6. to_fork[p] # 1
        BY <4>2, <4>5, <3>4, <2>1
      <4> QED
        BY <4>5, <4>6, <2>2
    <3>5. to_fork[p] > 1 => Rest(p)' = to_fork[p] - 1
      BY <2>2 DEF Rest
    <3> QED
      BY <3>2, <3>3, <3>4, <3>5, <2>2, LiveFinite DEF WrittenInv
  <2>4. CASE born[p] # round
    <3>1. Live' = Live /\ p \notin Live
      BY <2>1, <2>2, <2>4 DEF Live
    <3>2. \A q \in Live : pc'[q] = pc[q] /\ to_fork'[q] = to_fork[q]
      BY <3>1, <2>1, <2>2 DEF Live
    <3> QED
      BY <3>1, <3>2, <2>2 DEF WrittenInv, Rest
  <2> QED
    BY <2>3, <2>4
<1>5. ASSUME NEW p \in Proc, ClaimRange(p)
      PROVE  WrittenInv'
  <2>1. \A q \in Proc : /\ pc'[q] = "none" <=> pc[q] = "none"
                        /\ pc'[q] = "child" <=> pc[q] = "child"
    BY <1>5 DEF ClaimRange, Goto
  <2>2. UNCHANGED <<written, round, born, to_fork>>
    BY <1>5 DEF ClaimRange, Goto
  <2> QED
    BY <2>1, <2>2, WrittenFrame
<1>6. ASSUME NEW p \in Proc, ReadWord(p)
      PROVE  WrittenInv'
  <2>1. \A q \in Proc : /\ pc'[q] = "none" <=> pc[q] = "none"
                        /\ pc'[q] = "child" <=> pc[q] = "child"
    BY <1>6 DEF ReadWord, Goto
  <2>2. UNCHANGED <<written, round, born, to_fork>>
    BY <1>6 DEF ReadWord, Goto
  <2> QED
    BY <2>1, <2>2, WrittenFrame
<1>7. ASSUME NEW p \in Proc, EndRange(p)
      PROVE  WrittenInv'
  <2>1. \A q \in Proc : /\ pc'[q] = "none" <=> pc[q] = "none"
                        /\ pc'[q] = "child" <=> pc[q] = "child"
    BY <1>7 DEF EndRange, Goto
  <2>2. UNCHANGED <<written, round, born, to_fork>>
    BY <1>7 DEF EndRange, Goto
  <2> QED
    BY <2>1, <2>2, WrittenFrame
<1>8. ASSUME NEW p \in Proc, Remainders(p)
      PROVE  WrittenInv'
  <2>1. \A q \in Proc : /\ pc'[q] = "none" <=> pc[q] = "none"
                        /\ pc'[q] = "child" <=> pc[q] = "child"
    BY <1>8 DEF Remainders, Goto
  <2>2. UNCHANGED <<written, round, born, to_fork>>
    BY <1>8 DEF Remainders, Goto
  <2> QED
    BY <2>1, <2>2, WrittenFrame
<1>9. ASSUME NEW p \in Proc, LookUp(p)
      PROVE  WrittenInv'
  <2>1. \A q \in Proc : /\ pc'[q] = "none" <=> pc[q] = "none"
                        /\ pc'[q] = "child" <=> pc[q] = "child"
    BY <1>9 DEF LookUp, Goto
  <2>2. UNCHANGED <<written, round, born, to_fork>>
    BY <1>9 DEF LookUp, Goto
  <2> QED
    BY <2>1, <2>2, WrittenFrame
<1>10. ASSUME NEW p \in Proc, SetRoot(p)
      PROVE  WrittenInv'
  <2>1. \A q \in Proc : /\ pc'[q] = "none" <=> pc[q] = "none"
                        /\ pc'[q] = "child" <=> pc[q] = "child"
    BY <1>10 DEF SetRoot, Goto
  <2>2. UNCHANGED <<written, round, born, to_fork>>
    BY <1>10 DEF SetRoot, Goto
  <2> QED
    BY <2>1, <2>2, WrittenFrame
<1>11. ASSUME NEW p \in Proc, SearchWord(p)
      PROVE  WrittenInv'
  <2>1. \A q \in Proc : /\ pc'[q] = "none" <=> pc[q] = "none"
                        /\ pc'[q] = "child" <=> pc[q] = "child"
    BY <1>11 DEF SearchWord, Goto
  <2>2. UNCHANGED <<written, round, born, to_fork>>
    BY <1>11 DEF SearchWord, Goto
  <2> QED
    BY <2>1, <2>2, WrittenFrame
<1>12. ASSUME NEW p \in Proc, SetWord(p)
      PROVE  WrittenInv'
  <2>1. \A q \in Proc : /\ pc'[q] = "none" <=> pc[q] = "none"
                        /\ pc'[q] = "child" <=> pc[q] = "child"
    BY <1>12 DEF SetWord, Goto
  <2>2. UNCHANGED <<written, round, born, to_fork>>
    BY <1>12 DEF SetWord, Goto
  <2> QED
    BY <2>1, <2>2, WrittenFrame
<1>13. ASSUME NEW p \in Proc, EndSearch(p)
      PROVE  WrittenInv'
  <2>1. \A q \in Proc : /\ pc'[q] = "none" <=> pc[q] = "none"
                        /\ pc'[q] = "child" <=> pc[q] = "child"
    BY <1>13 DEF EndSearch, Goto
  <2>2. UNCHANGED <<written, round, born, to_fork>>
    BY <1>13 DEF EndSearch, Goto
  <2> QED
    BY <2>1, <2>2, WrittenFrame
<1>14. ASSUME NEW p \in Proc, EndLookup(p)
      PROVE  WrittenInv'
  <2>1. \A q \in Proc : /\ pc'[q] = "none" <=> pc[q] = "none"
                        /\ pc'[q] = "child" <=> pc[q] = "child"
    BY <1>14 DEF EndLookup, Goto
  <2>2. UNCHANGED <<written, round, born, to_fork>>
    BY <1>14 DEF EndLookup, Goto
  <2> QED
    BY <2>1, <2>2, WrittenFrame
<1>15. ASSUME NEW p \in Proc, Finish(p)
      PROVE  WrittenInv'
  <2>1. CASE Exit(p)
    <3>1. pc[p] # "none" /\ pc[p] # "child" /\ UNCHANGED <<round, to_fork>>
      BY <1>15 DEF Finish
    <3>2. Live' = Live \ {p} /\ \A q \in Live' : pc'[q] = pc[q]
      BY <2>1, <3>1 DEF Live, Exit, Goto
    <3>3. written \in Nat /\ written' \in Nat /\ Siblings \in Nat
      BY <1>15 DEF Finish
    <3>4. \A q \in Live : Rest(q) \in Nat /\ Rest(q)' = Rest(q)
      BY <3>1 DEF Rest, Live
    <3>5. CASE p \in Live
      <4>1. written' <= written + 1
        BY <1>15, <3>3 DEF Finish
      <4> HIDE DEF IndInv
      <4>2. Cardinality(Live') = Cardinality(Live) - 1 /\ Cardinality(Live) \in Nat
        BY <3>2, <3>5, LiveFinite, FS_RemoveElement
      <4>3. written' + Cardinality(Live') <= written + Cardinality(Live)
        BY <4>1, <4>2, <3>3
      <4>4. WrittenInv
        BY DEF IndInv
      <4>5. ASSUME NEW q \in Live', pc'[q] = "child"
            PROVE  /\ written' + Cardinality(Live') + Rest(q)' <= Siblings
                   /\ \A r \in Live' : pc'[r] = "child" => r = q
        BY <3>2, <3>3, <3>4, <4>2, <4>3, <4>4, <4>5 DEF WrittenInv
      <4> QED
        BY <3>3, <4>2, <4>3, <4>4, <4>5 DEF WrittenInv
    <3>6. CASE p \notin Live
      <4>1. Live' = Live /\ written' = written
        BY <1>15, <3>1, <3>2, <3>6 DEF Finish, Live
      <4> QED
        BY <3>2, <3>4, <4>1 DEF WrittenInv
    <3> QED
      BY <3>5, <3>6
  <2>2. CASE ~Exit(p)
    <3>1. \A q \in Proc : /\ pc'[q] = "none" <=> pc[q] = "none"
                          /\ pc'[q] = "child" <=> pc[q] = "child"
      BY <1>15, <2>2 DEF Finish, Goto
    <3>2. UNCHANGED <<written, round, born, to_fork>>
      BY <1>15, <2>2 DEF Finish
    <3> QED
      BY <3>1, <3>2, WrittenFrame
  <2> QED
    BY <2>1, <2>2
<1>16. ASSUME NEW p \in Proc, Notify(p)
      PROVE  WrittenInv'
  <2>1. CASE Exit(p)
    <3>1. pc[p] # "none" /\ pc[p] # "child" /\ UNCHANGED <<round, to_fork>>
      BY <1>16 DEF Notify
    <3>2. Live' = Live \ {p} /\ \A q \in Live' : pc'[q] = pc[q]
      BY <2>1, <3>1 DEF Live, Exit, Goto
    <3>3. written \in Nat /\ written' \in Nat /\ Siblings \in Nat
      BY <1>16 DEF Notify
    <3>4. \A q \in Live : Rest(q) \in Nat /\ Rest(q)' = Rest(q)
      BY <3>1 DEF Rest, Live
    <3>5. CASE p \in Live
      <4>1. written' <= written + 1
        BY <1>16, <3>3 DEF Notify
      <4> HIDE DEF IndInv
      <4>2. Cardinality(Live') = Cardinality(Live) - 1 /\ Cardinality(Live) \in Nat
        BY <3>2, <3>5, LiveFinite, FS_RemoveElement
      <4>3. written' + Cardinality(Live') <= written + Cardinality(Live)
        BY <4>1, <4>2, <3>3
      <4>4. WrittenInv
        BY DEF IndInv
      <4>5. ASSUME NEW q \in Live', pc'[q] = "child"
            PROVE  /\ written' + Cardinality(Live') + Rest(q)' <= Siblings
                   /\ \A r \in Live' : pc'[r] = "child" => r = q
        BY <3>2, <3>3, <3>4, <4>2, <4>3, <4>4, <4>5 DEF WrittenInv
      <4> QED
        BY <3>3, <4>2, <4>3, <4>4, <4>5 DEF WrittenInv
    <3>6. CASE p \notin Live
      <4>1. Live' = Live /\ written' = written
        BY <1>16, <3>1, <3>2, <3>6 DEF Notify, Live
      <4> QED
        BY <3>2, <3>4, <4>1 DEF WrittenInv
    <3> QED
      BY <3>5, <3>6
  <2> QED
    BY <1>16, <2>1 DEF Notify
<1>17. CASE UNCHANGED vars
  BY <1>17, WrittenFrame DEF vars
<1> QED
  BY <1>1, <1>2, <1>3, <1>4, <1>5, <1>6, <1>7, <1>8, <1>9, <1>10,
     <1>11, <1>12, <1>13, <1>14, <1>15, <1>16, <1>17
     DEF Next, Process

\* Steps that claim no range and add none to roots_completed, and lose no word
\* that is still to be looked up.
LEMMA LedgerFrame ==
  ASSUME IndInv,
         roots_completed' = roots_completed,
         \A r \in Ranges : r < root_counter' <=> r < root_counter,
         \A q \in Proc : Owed(q)' = Owed(q) /\ (Quiet(q) => Quiet(q)'),
         (\A q \in Proc : ~BeforeReset(q)') =>
           /\ UNCHANGED <<image, overtaken>>
           /\ marks \subseteq marks'
           /\ \A q \in Proc : ~BeforeReset(q) /\ Pending(q) \subseteq marks' \cup Pending(q)'
  PROVE  LedgerInv'
<1>1. PICK mine \in [Proc -> SUBSET Ranges], done \in SUBSET Ranges :
         Ledger(mine, done) /\ Covered(mine, done)
  BY DEF IndInv, LedgerInv
<1> HIDE DEF IndInv
<1>2. Ledger(mine, done)'
  BY <1>1 DEF Ledger
<1>3. Covered(mine, done)'
  BY <1>1 DEF Covered
<1> QED
  BY <1>2, <1>3 DEF LedgerInv

\* Every step keeps the ledger: ClaimRange enters the range that root_counter
\* hands out, Finish moves the ranges of a process to those that are done,
\* ResetCounters starts a new page, and no word is lost in between.
LEMMA LedgerStep ==
  ASSUME IndInv, [Next]_vars
  PROVE  LedgerInv'
<1> USE ScanAssumption
    DEF IndInv, TypeOK, PlaceInv, PlaceOK, InRange, Lookup, Searching, Ranges,
        gcVars, sharedVars, localVars
<1>1. ASSUME ForkChild
      PROVE  LedgerInv'
  <2>1. PICK c \in Proc : pc[c] = "none" /\ pc' = [pc EXCEPT ![c] = "child"]
    BY <1>1 DEF ForkChild, Goto, Free
  <2>2. BeforeReset(c)'
    BY <1>1, <2>1 DEF ForkChild, BeforeReset
  <2>3. \A q \in Proc : Owed(q)' = Owed(q) /\ (Quiet(q) => Quiet(q)')
    BY <1>1, <2>1 DEF ForkChild, Owed, Quiet
  <2>4. UNCHANGED <<roots_completed, root_counter>>
    BY <1>1 DEF ForkChild
  <2> QED
    BY <2>2, <2>3, <2>4, LedgerFrame
<1>2. ASSUME Receive
      PROVE  LedgerInv'
  <2>1. /\ UNCHANGED <<roots_completed, image, overtaken, root_counter>>
        /\ marks \subseteq marks'
    BY <1>2 DEF Receive
  <2>2. \A q \in Proc : Owed(q)' = Owed(q) /\ (Quiet(q) => Quiet(q)')
    BY <1>2 DEF Receive, Owed, Quiet
  <2>3. \A q \in Proc : BeforeReset(q)' <=> BeforeReset(q)
    BY <1>2 DEF Receive, BeforeReset
  <2>4. \A q \in Proc : Pending(q) \subseteq marks' \cup Pending(q)'
    BY <1>2 DEF Receive, Pending
  <2> QED
    BY <2>1, <2>2, <2>3, <2>4, LedgerFrame
<1>3. ASSUME NEW p \in Proc, ResetCounters(p)
      PROVE  LedgerInv'
  <2> DEFINE mine == [q \in Proc |-> {}]
  <2>1. BeforeReset(p)
    BY <1>3 DEF ResetCounters, BeforeReset
  <2>2. PICK m \in [Proc -> SUBSET Ranges], d \in SUBSET Ranges : Ledger(m, d)
    BY DEF LedgerInv
  <2>3. ASSUME NEW q \in Proc
        PROVE  Owed(q) = 0 /\ Quiet(q)
    <3>1. CASE roots_completed = NRanges
      BY <3>1, AllDone DEF Owed, Quiet
    <3>2. CASE root_counter = 0
      <4>1. m[q] = {}
        BY <2>2, <3>2 DEF Ledger
      <4> QED
        BY <2>2, <4>1, FS_EmptySet DEF Ledger
    <3> QED
      BY <2>1, <3>1, <3>2 DEF RoundInv
  <2>4. \A q \in Proc : Owed(q)' = 0 /\ Quiet(q)'
    BY <1>3, <2>3 DEF ResetCounters, Goto, Owed, Quiet
  <2>5. root_counter' = 0 /\ roots_completed' = 0
    BY <1>3 DEF ResetCounters
  <2>6. Ledger(mine, {})'
    BY <2>4, <2>5, FS_EmptySet DEF Ledger
  <2>7. Covered(mine, {})'
    BY DEF Covered
  <2>8. mine \in [Proc -> SUBSET Ranges]
    OBVIOUS
  <2> HIDE DEF mine
  <2> QED
    BY <2>6, <2>7, <2>8 DEF LedgerInv
<1>4. ASSUME NEW p \in Proc, ForkSibling(p)
      PROVE  LedgerInv'
  <2>1. /\ UNCHANGED <<roots_completed, image, overtaken, root_counter>>
        /\ marks \subseteq marks'
    BY <1>4 DEF ForkSibling, Free
  <2>2. \A q \in Proc : Owed(q)' = Owed(q) /\ (Quiet(q) => Quiet(q)')
    BY <1>4 DEF ForkSibling, Free, Owed, Quiet
  <2>3. \A q \in Proc : BeforeReset(q)' <=> BeforeReset(q)
    BY <1>4 DEF ForkSibling, Free, BeforeReset
  <2>4. \A q \in Proc : Pending(q) \subseteq marks' \cup Pending(q)'
    BY <1>4 DEF ForkSibling, Free, Pending
  <2> QED
    BY <2>1, <2>2, <2>3, <2>4, LedgerFrame
<1>5. ASSUME NEW p \in Proc, ClaimRange(p)
      PROVE  LedgerInv'
  <2>1. /\ UNCHANGED <<roots_completed, image, overtaken, marks, lookaside, hit, completed>>
        /\ \A q \in Proc : BeforeReset(q)' <=> BeforeReset(q)
    BY <1>5 DEF ClaimRange, Goto, BeforeReset
  <2>2. CASE root_counter >= NRanges
    <3>1. \A r \in Ranges : r < root_counter' <=> r < root_counter
      BY <1>5, <2>2 DEF ClaimRange
    <3>2. \A q \in Proc : Owed(q)' = Owed(q) /\ (Quiet(q) => Quiet(q)')
      BY <1>5, <2>2 DEF ClaimRange, Goto, Owed, Quiet
    <3>3. \A q \in Proc : Pending(q) \subseteq marks' \cup Pending(q)'
      BY <1>5, <2>2 DEF ClaimRange, Goto, Pending
    <3> QED
      BY <2>1, <3>1, <3>2, <3>3, LedgerFrame
  <2>3. CASE root_counter < NRanges
    <3>1. PICK mine \in [Proc -> SUBSET Ranges], done \in SUBSET Ranges :
             Ledger(mine, done) /\ Covered(mine, done)
      BY DEF LedgerInv
    <3>2. PICK c \in Ranges : c = root_counter
      BY <2>3
    <3> DEFINE new == [mine EXCEPT ![p] = @ \cup {c}]
    <3>3. c \notin done /\ \A q \in Proc : c \notin mine[q]
      BY <3>1, <3>2 DEF Ledger
    <3>4. /\ Owed(p)' = Owed(p) + 1 /\ \A q \in Proc \ {p} : Owed(q)' = Owed(q)
          /\ \A q \in Proc \ {p} : Quiet(q) => Quiet(q)'
      BY <1>5, <2>3 DEF ClaimRange, Goto, Owed, Quiet
    <3>5. root_counter' = root_counter + 1 /\ root_counter \in Nat
      BY <1>5 DEF ClaimRange
    <3>6. /\ todo'[p] = mem[p].roots[c] /\ todo[p] = {} /\ pc[p] = "claim" /\ mem[p] \in Image
          /\ pc'[p] = "range" /\ \A q \in Proc \ {p} : pc'[q] = pc[q] /\ todo'[q] = todo[q]
      BY <1>5, <2>3, <3>2 DEF ClaimRange, Goto
    <3>7. ~overtaken => mem[p] = image
      BY <3>6 DEF ImageInv
    <3> HIDE DEF IndInv, TypeOK, PlaceInv
    <3>8. Ledger(new, done)'
      <4>1. Cardinality(mine[p] \cup {c}) = Cardinality(mine[p]) + 1
        BY <3>3, LedgerType, FS_AddElement
      <4>2. \A q \in Proc : Cardinality(new[q]) = Owed(q)'
        BY <4>1, <3>1, <3>4 DEF Ledger
      <4>3. \A q \in Proc : new[q] = {} => Quiet(q)'
        BY <3>1, <3>4 DEF Ledger
      <4>4. \A r \in Ranges : r < root_counter' <=> r \in done \/ \E q \in Proc : r \in new[q]
        <5>1. \A r \in Ranges : r < root_counter' <=> r < root_counter \/ r = c
          BY <3>2, <3>5
        <5>2. \A r \in Ranges : (\E q \in Proc : r \in new[q])
                                  <=> r = c \/ \E q \in Proc : r \in mine[q]
          OBVIOUS
        <5> QED
          BY <5>1, <5>2, <3>1 DEF Ledger
      <4>5. /\ \A q, r \in Proc : q # r => new[q] \cap new[r] = {}
            /\ \A q \in Proc : new[q] \cap done = {}
        BY <3>1, <3>3 DEF Ledger
      <4>6. roots_completed' = Cardinality(done)
        BY <2>1, <3>1 DEF Ledger
      <4> HIDE DEF new
      <4> QED
        BY <4>2, <4>3, <4>4, <4>5, <4>6 DEF Ledger
    <3>9. Covered(new, done)'
      <4> SUFFICES ASSUME ~overtaken, \A q \in Proc : ~BeforeReset(q)
                   PROVE  /\ \A q \in Proc : \A r \in new[q] :
                               image.roots[r] \subseteq marks \cup Pending(q)'
                          /\ \A r \in done : image.roots[r] \subseteq marks
        BY <2>1 DEF Covered
      <4>1. image.roots[c] \subseteq Pending(p)'
        BY <3>6, <3>7 DEF Pending
      <4>2. \A q \in Proc : Pending(q) \subseteq Pending(q)'
        BY <2>1, <3>6 DEF Pending
      <4> QED
        BY <3>1, <4>1, <4>2 DEF Covered
    <3>10. new \in [Proc -> SUBSET Ranges]
      OBVIOUS
    <3> HIDE DEF new
    <3> QED
      BY <3>8, <3>9, <3>10 DEF LedgerInv
  <2> QED
    BY <2>2, <2>3
<1>6. ASSUME NEW p \in Proc, ReadWord(p)
      PROVE  LedgerInv'
  <2>1. /\ UNCHANGED <<roots_completed, image, overtaken, root_counter>>
        /\ marks \subseteq marks'
    BY <1>6 DEF ReadWord, Goto
  <2>2. \A q \in Proc : Owed(q)' = Owed(q) /\ (Quiet(q) => Quiet(q)')
    BY <1>6 DEF ReadWord, Goto, Owed, Quiet
  <2>3. \A q \in Proc : BeforeReset(q)' <=> BeforeReset(q)
    BY <1>6 DEF ReadWord, Goto, BeforeReset
  <2>4. \A q \in Proc : Pending(q) \subseteq marks' \cup Pending(q)'
    BY <1>6 DEF ReadWord, Goto, Pending
  <2> QED
    BY <2>1, <2>2, <2>3, <2>4, LedgerFrame
<1>7. ASSUME NEW p \in Proc, EndRange(p)
      PROVE  LedgerInv'
  <2>1. /\ UNCHANGED <<roots_completed, image, overtaken, root_counter>>
        /\ marks \subseteq marks'
    BY <1>7 DEF EndRange, Goto
  <2>2. \A q \in Proc : Owed(q)' = Owed(q) /\ (Quiet(q) => Quiet(q)')
    BY <1>7 DEF EndRange, Goto, Owed, Quiet
  <2>3. \A q \in Proc : BeforeReset(q)' <=> BeforeReset(q)
    BY <1>7 DEF EndRange, Goto, BeforeReset
  <2>4. \A q \in Proc : Pending(q) \subseteq marks' \cup Pending(q)'
    BY <1>7 DEF EndRange, Goto, Pending
  <2> QED
    BY <2>1, <2>2, <2>3, <2>4, LedgerFrame
<1>8. ASSUME NEW p \in Proc, Remainders(p)
      PROVE  LedgerInv'
  <2>1. /\ UNCHANGED <<roots_completed, image, overtaken, root_counter>>
        /\ marks \subseteq marks'
    BY <1>8 DEF Remainders, Goto
  <2>2. \A q \in Proc : Owed(q)' = Owed(q) /\ (Quiet(q) => Quiet(q)')
    BY <1>8 DEF Remainders, Goto, Owed, Quiet
  <2>3. \A q \in Proc : BeforeReset(q)' <=> BeforeReset(q)
    BY <1>8 DEF Remainders, Goto, BeforeReset
  <2>4. \A q \in Proc : Pending(q) \subseteq marks' \cup Pending(q)'
    BY <1>8 DEF Remainders, Goto, Pending
  <2> QED
    BY <2>1, <2>2, <2>3, <2>4, LedgerFrame
<1>9. ASSUME NEW p \in Proc, LookUp(p)
      PROVE  LedgerInv'
  <2>1. /\ UNCHANGED <<roots_completed, image, overtaken, root_counter>>
        /\ marks \subseteq marks'
    BY <1>9 DEF LookUp, Goto
  <2>2. \A q \in Proc : Owed(q)' = Owed(q) /\ (Quiet(q) => Quiet(q)')
    BY <1>9 DEF LookUp, Goto, Owed, Quiet
  <2>3. \A q \in Proc : BeforeReset(q)' <=> BeforeReset(q)
    BY <1>9 DEF LookUp, Goto, BeforeReset
  <2>4. \A q \in Proc : Pending(q) \subseteq marks' \cup Pending(q)'
    BY <1>9 DEF LookUp, Goto, Pending
  <2> QED
    BY <2>1, <2>2, <2>3, <2>4, LedgerFrame
<1>10. ASSUME NEW p \in Proc, SetRoot(p)
      PROVE  LedgerInv'
  <2>1. /\ UNCHANGED <<roots_completed, image, overtaken, root_counter>>
        /\ marks \subseteq marks'
    BY <1>10 DEF SetRoot, Goto
  <2>2. \A q \in Proc : Owed(q)' = Owed(q) /\ (Quiet(q) => Quiet(q)')
    BY <1>10 DEF SetRoot, Goto, Owed, Quiet
  <2>3. \A q \in Proc : BeforeReset(q)' <=> BeforeReset(q)
    BY <1>10 DEF SetRoot, Goto, BeforeReset
  <2>4. \A q \in Proc : Pending(q) \subseteq marks' \cup Pending(q)'
    BY <1>10 DEF SetRoot, Goto, Pending
  <2> QED
    BY <2>1, <2>2, <2>3, <2>4, LedgerFrame
<1>11. ASSUME NEW p \in Proc, SearchWord(p)
      PROVE  LedgerInv'
  <2>1. /\ UNCHANGED <<roots_completed, image, overtaken, root_counter>>
        /\ marks \subseteq marks'
    BY <1>11 DEF SearchWord, Goto
  <2>2. \A q \in Proc : Owed(q)' = Owed(q) /\ (Quiet(q) => Quiet(q)')
    BY <1>11 DEF SearchWord, Goto, Owed, Quiet
  <2>3. \A q \in Proc : BeforeReset(q)' <=> BeforeReset(q)
    BY <1>11 DEF SearchWord, Goto, BeforeReset
  <2>4. \A q \in Proc : Pending(q) \subseteq marks' \cup Pending(q)'
    BY <1>11 DEF SearchWord, Goto, Pending
  <2> QED
    BY <2>1, <2>2, <2>3, <2>4, LedgerFrame
<1>12. ASSUME NEW p \in Proc, SetWord(p)
      PROVE  LedgerInv'
  <2>1. /\ UNCHANGED <<roots_completed, image, overtaken, root_counter>>
        /\ marks \subseteq marks'
    BY <1>12 DEF SetWord, Goto
  <2>2. \A q \in Proc : Owed(q)' = Owed(q) /\ (Quiet(q) => Quiet(q)')
    BY <1>12 DEF SetWord, Goto, Owed, Quiet
  <2>3. \A q \in Proc : BeforeReset(q)' <=> BeforeReset(q)
    BY <1>12 DEF SetWord, Goto, BeforeReset
  <2>4. \A q \in Proc : Pending(q) \subseteq marks' \cup Pending(q)'
    BY <1>12 DEF SetWord, Goto, Pending
  <2> QED
    BY <2>1, <2>2, <2>3, <2>4, LedgerFrame
<1>13. ASSUME NEW p \in Proc, EndSearch(p)
      PROVE  LedgerInv'
  <2>1. /\ UNCHANGED <<roots_completed, image, overtaken, root_counter>>
        /\ marks \subseteq marks'
    BY <1>13 DEF EndSearch, Goto
  <2>2. \A q \in Proc : Owed(q)' = Owed(q) /\ (Quiet(q) => Quiet(q)')
    BY <1>13 DEF EndSearch, Goto, Owed, Quiet
  <2>3. \A q \in Proc : BeforeReset(q)' <=> BeforeReset(q)
    BY <1>13 DEF EndSearch, Goto, BeforeReset
  <2>4. \A q \in Proc : Pending(q) \subseteq marks' \cup Pending(q)'
    BY <1>13 DEF EndSearch, Goto, Pending
  <2> QED
    BY <2>1, <2>2, <2>3, <2>4, LedgerFrame
<1>14. ASSUME NEW p \in Proc, EndLookup(p)
      PROVE  LedgerInv'
  <2>1. /\ UNCHANGED <<roots_completed, image, overtaken, root_counter>>
        /\ marks \subseteq marks'
    BY <1>14 DEF EndLookup, Goto
  <2>2. \A q \in Proc : Owed(q)' = Owed(q) /\ (Quiet(q) => Quiet(q)')
    BY <1>14 DEF EndLookup, Goto, Owed, Quiet
  <2>3. \A q \in Proc : BeforeReset(q)' <=> BeforeReset(q)
    BY <1>14 DEF EndLookup, Goto, BeforeReset
  <2>4. \A q \in Proc : Pending(q) \subseteq marks' \cup Pending(q)'
    BY <1>14 DEF EndLookup, Goto, Pending
  <2> QED
    BY <2>1, <2>2, <2>3, <2>4, LedgerFrame
<1>15. ASSUME NEW p \in Proc, Finish(p)
      PROVE  LedgerInv'
  <2>1. PICK mine \in [Proc -> SUBSET Ranges], done \in SUBSET Ranges :
           Ledger(mine, done) /\ Covered(mine, done)
    BY DEF LedgerInv
  <2> DEFINE new == [mine EXCEPT ![p] = {}]
             all == done \cup mine[p]
  <2>2. /\ UNCHANGED <<image, overtaken, marks, todo, lookaside, hit, root_counter>>
        /\ pc[p] = "finish" /\ roots_completed' = roots_completed + completed[p]
    BY <1>15 DEF Finish
  <2>3. \A q \in Proc : /\ BeforeReset(q)' <=> BeforeReset(q)
                        /\ Pending(q) \subseteq Pending(q)'
    BY <1>15 DEF Finish, Goto, Exit, BeforeReset, Pending
  <2>4. /\ Owed(p)' = 0 /\ \A q \in Proc \ {p} : Owed(q)' = Owed(q)
        /\ Quiet(p)' /\ \A q \in Proc \ {p} : Quiet(q) => Quiet(q)'
    BY <1>15 DEF Finish, Goto, Exit, Owed, Quiet
  <2>5. Owed(p) = completed[p] /\ Pending(p) = {}
    BY <2>2 DEF Owed, Pending, CountInv, CountOK
  <2> HIDE DEF IndInv, TypeOK, PlaceInv
  <2>6. Ledger(new, all)'
    <3>1. mine[p] \cap done = {}
      BY <2>1 DEF Ledger
    <3>2. Cardinality(all) = Cardinality(done) + Cardinality(mine[p])
      <4>1. /\ IsFiniteSet(done) /\ Cardinality(done) \in Nat
            /\ IsFiniteSet(mine[p]) /\ Cardinality(mine[p]) \in Nat
        BY LedgerType
      <4>2. Cardinality(done \cap mine[p]) = 0
        BY <3>1, FS_EmptySet
      <4> HIDE DEF new
      <4>3. Cardinality(done \cup mine[p])
              = Cardinality(done) + Cardinality(mine[p]) - Cardinality(done \cap mine[p])
        BY <4>1, FS_Union, Zenon
      <4> QED
        BY <4>1, <4>2, <4>3
    <3>3. roots_completed' = Cardinality(all)
      BY <3>2, <2>1, <2>2, <2>5 DEF Ledger
    <3>4. \A q \in Proc : Cardinality(new[q]) = Owed(q)' /\ (new[q] = {} => Quiet(q)')
      BY <2>1, <2>4, FS_EmptySet DEF Ledger
    <3>5. \A r \in Ranges : r < root_counter <=> r \in all \/ \E q \in Proc : r \in new[q]
      <4>1. \A r \in Ranges : (r \in all \/ \E q \in Proc : r \in new[q])
                                <=> (r \in done \/ \E q \in Proc : r \in mine[q])
        OBVIOUS
      <4> QED
        BY <4>1, <2>1 DEF Ledger
    <3>6. /\ \A q, r \in Proc : q # r => new[q] \cap new[r] = {}
          /\ \A q \in Proc : new[q] \cap all = {}
      BY <2>1 DEF Ledger
    <3> HIDE DEF new, all
    <3> QED
      BY <2>2, <3>3, <3>4, <3>5, <3>6 DEF Ledger
  <2>7. Covered(new, all)'
    BY <2>1, <2>2, <2>3, <2>5 DEF Covered
  <2>8. new \in [Proc -> SUBSET Ranges] /\ all \in SUBSET Ranges
    OBVIOUS
  <2> HIDE DEF new, all
  <2> QED
    BY <2>6, <2>7, <2>8 DEF LedgerInv
<1>16. ASSUME NEW p \in Proc, Notify(p)
      PROVE  LedgerInv'
  <2>1. /\ UNCHANGED <<roots_completed, image, overtaken, root_counter>>
        /\ marks \subseteq marks'
    BY <1>16 DEF Notify, Goto, Exit
  <2>2. \A q \in Proc : Owed(q)' = Owed(q) /\ (Quiet(q) => Quiet(q)')
    BY <1>16 DEF Notify, Goto, Exit, Owed, Quiet
  <2>3. \A q \in Proc : BeforeReset(q)' <=> BeforeReset(q)
    BY <1>16 DEF Notify, Goto, Exit, BeforeReset
  <2>4. \A q \in Proc : Pending(q) \subseteq marks' \cup Pending(q)'
    BY <1>16 DEF Notify, Goto, Exit, Pending
  <2> QED
    BY <2>1, <2>2, <2>3, <2>4, LedgerFrame
<1>17. CASE UNCHANGED vars
  <2>1. UNCHANGED <<roots_completed, image, overtaken, root_counter, marks>>
    BY <1>17 DEF vars
  <2>2. \A q \in Proc : Owed(q)' = Owed(q) /\ Quiet(q)' = Quiet(q)
    BY <1>17 DEF vars, Owed, Quiet
  <2>3. \A q \in Proc : BeforeReset(q)' = BeforeReset(q) /\ Pending(q)' = Pending(q)
    BY <1>17 DEF vars, BeforeReset, Pending
  <2> QED
    BY <2>1, <2>2, <2>3, LedgerFrame
<1> QED
  BY <1>1, <1>2, <1>3, <1>4, <1>5, <1>6, <1>7, <1>8, <1>9, <1>10,
     <1>11, <1>12, <1>13, <1>14, <1>15, <1>16, <1>17
     DEF Next, Process

(***************************************************************************)
(* The theorems.                                                           *)
(***************************************************************************)

\* The invariant holds before the first round of a buffer.
LEMMA InitIndInv == Init => IndInv
<1> SUFFICES ASSUME Init
             PROVE  IndInv
  OBVIOUS
<1> USE ScanAssumption DEF Init, Lookup, Searching, InRange
<1>1. TypeOK
  <2>1. overtaken \in BOOLEAN /\ ending \in [Proc -> BOOLEAN]
    BY Zenon
  <2>2. Cardinality(Proc) \in Nat
    BY FS_CardinalityType
  <2>3. pc \in [Proc -> Places] /\ to_fork \in [Proc -> 0 .. Siblings - 1]
    BY DEF Places
  <2> QED
    BY <2>1, <2>2, <2>3 DEF TypeOK
<1>2. PlaceInv /\ CountInv /\ ImageInv
  BY DEF PlaceInv, PlaceOK, CountInv, CountOK, ImageInv
<1>3. RoundInv /\ SearchInv
  BY DEF RoundInv, BeforeReset, SearchInv
<1>4. WrittenInv
  <2>1. Live = {}
    BY DEF Live
  <2> QED
    BY <2>1, FS_EmptySet DEF WrittenInv
<1>5. LedgerInv
  <2> DEFINE mine == [q \in Proc |-> {}]
  <2>1. Ledger(mine, {})
    BY FS_EmptySet DEF Ledger, Owed, Quiet, Ranges
  <2>2. Covered(mine, {})
    BY DEF Covered
  <2>3. mine \in [Proc -> SUBSET Ranges]
    OBVIOUS
  <2> HIDE DEF mine
  <2> QED
    BY <2>1, <2>2, <2>3 DEF LedgerInv
<1> QED
  BY <1>1, <1>2, <1>3, <1>4, <1>5 DEF IndInv

\* The invariant holds in every state of the scan.
THEOREM Inductive == Spec => []IndInv
<1>1. Init => IndInv
  BY InitIndInv
<1>2. IndInv /\ [Next]_vars => IndInv'
  BY TypeStep, PlaceStep, CountStep, LedgerStep, RoundStep, WrittenStep, ImageStep, SearchStep,
     Zenon
     DEF IndInv
<1> QED
  BY <1>1, <1>2, PTL DEF Spec

\* Every behaviour of the scan keeps the types: the lookaside list of find_roots
\* never runs over LOOKASIDE_SZ and no process counts more ranges than exist.
THEOREM TypeCorrect == Spec => []TypeOK
<1>1. IndInv => TypeOK
  BY DEF IndInv
<1> QED
  BY <1>1, Inductive, PTL

\* When the collector reads the notification (and no process was left behind by
\* an earlier round) every root is marked, and besides the roots exactly the
\* words of the searched nodes: the counts in roots_completed can only add up
\* once every range was claimed by one process and all its words looked up.
THEOREM MarksExactlyHolds == Spec => []MarksExactly
<1>1. IndInv => MarksExactly
  <2> SUFFICES ASSUME IndInv, gc = "received", ~overtaken
               PROVE  \E S \in SUBSET Roots(image) :
                        /\ marks = Roots(image) \cup WordsOf(image, S)
                        /\ Roots(image) \subseteq S \cup WordsOf(image, S)
    BY DEF MarksExactly
  <2>1. roots_completed = NRanges /\ \A p \in Proc : ~BeforeReset(p)
    BY DEF IndInv, RoundInv
  <2>2. \A p \in Proc : pc[p] \notin Searching
    BY <2>1, AllDone DEF Lookup
  <2>3. PICK S \in SUBSET Roots(image) : Searched(S)
    BY DEF IndInv, SearchInv
  <2>4. PICK mine \in [Proc -> SUBSET Ranges], done \in SUBSET Ranges :
          Ledger(mine, done) /\ Covered(mine, done)
    BY DEF IndInv, LedgerInv
  <2>5. done = Ranges
    BY <2>1, <2>4, LedgerType DEF Ledger
  <2>6. Roots(image) \subseteq marks
    BY <2>1, <2>4, <2>5 DEF Covered, Roots, Ranges
  <2>7. WordsOf(image, S) \subseteq marks
    BY <2>2, <2>3 DEF Searched, WordsOf
  <2> QED
    BY <2>3, <2>6, <2>7 DEF Searched
<1> QED
  BY <1>1, Inductive, PTL

\* From the moment the notification is in the pipe no process sets a mark until
\* the next round begins, whatever processes earlier rounds left behind.
THEOREM MarksSettledHolds == Spec => MarksSettled
<1>1. IndInv /\ [Next]_vars => (written > 0 /\ round' = round => marks' = marks) \/ UNCHANGED vars
  <2> SUFFICES ASSUME IndInv, [Next]_vars, written > 0, round' = round
               PROVE  marks' = marks
    OBVIOUS
  <2>1. \A p \in Proc : pc[p] \notin Lookup
    BY AllDone DEF IndInv, RoundInv
  <2>2. ~ForkChild
    BY DEF ForkChild, IndInv, TypeOK
  <2>3. \A p \in Proc : ~SetRoot(p) /\ ~SetWord(p)
    BY <2>1 DEF SetRoot, SetWord, Lookup, Searching
  <2> QED
    BY <2>2, <2>3
       DEF Next, Process, Receive, ResetCounters, ForkSibling, ClaimRange, ReadWord, EndRange,
           Remainders, LookUp, SearchWord, EndSearch, EndLookup, Finish, Notify, vars,
           sharedVars
<1> QED
  BY <1>1, Inductive, PTL DEF Spec, MarksSettled

=============================================================================
