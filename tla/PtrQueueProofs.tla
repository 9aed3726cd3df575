--------------------------- MODULE PtrQueueProofs ---------------------------
(***************************************************************************)
(* The pointer queue is a first-in first-out queue for every capacity and  *)
(* any number of words, however the steps of the writer and of the reader  *)
(* interleave.                                                             *)
(***************************************************************************)
EXTENDS PtrQueue, TLAPS

(***************************************************************************)
(* The inductive invariant.  The word with the absolute index i is i + 1.  *)
(***************************************************************************)

\* The n words that follow the first a ones.
Words(a, n) == [i \in 1 .. n |-> a + i]

\* The number of words given up by the reader, and of those stored in e.
Base == idx_tail - Capacity
Stored ==
  CASE wpc \in {"none", "copy"} -> idx_head
    [] wpc = "publish" -> idx_head + 1
    [] wpc \in {"copy_again", "publish_bulk"} -> w_head

\* What is stored and not given up is in its slot, and has not been overwritten.
SlotInv == \A i \in Base .. Stored - 1 : e[Indexify(i)] = i + 1

\* The writer stays behind the tail it may not reach.  The block it has still
\* to copy follows the words it has stored; the second copy begins at slot 0.
WriterInv ==
  /\ Base <= idx_head /\ idx_head <= pushed /\ pushed < idx_tail
  /\ wpc = "none" => pushed = idx_head
  /\ wpc = "publish" => pushed = idx_head + 1
  /\ wpc \in {"copy", "copy_again", "publish_bulk"} => idx_head <= w_head
  /\ wpc = "copy" => w_head = idx_head
  /\ wpc \in {"copy", "copy_again"} =>
       w_head < pushed /\ block = Words(w_head, pushed - w_head)
  /\ wpc = "copy_again" => Indexify(w_head) = 0 /\ pushed - w_head <= Capacity
  /\ wpc = "publish_bulk" => w_head = pushed /\ idx_head < pushed

\* The reader has been given the first Base words, and what it has copied are
\* the next ones.
ReaderInv ==
  /\ got = Words(0, Base)
  /\ rpc = "pop" => Base < idx_head /\ values = Words(Base, 1)
  /\ rpc \in {"drain_to_end", "drain", "publish"} =>
       Base <= r_head /\ r_head <= idx_head /\ r_head - Base <= len
  /\ rpc = "drain_to_end" => Indexify(r_head) < Indexify(Base)
  /\ rpc = "drain" =>
       IF Indexify(r_head) < Indexify(Base)
       THEN values = Words(Base, Capacity - Indexify(Base))
       ELSE values = <<>>
  /\ rpc = "publish" => values = Words(Base, r_head - Base)

IndInv == TypeOK /\ SlotInv /\ WriterInv /\ ReaderInv

(***************************************************************************)
(* Absolute indexes and slots.                                             *)
(***************************************************************************)

\* The part of the assumption that the proofs need: there is a slot.
LEMMA CapacityType == Capacity \in Nat \ {0} /\ MaxPushes \in Nat /\ MaxLen \in Nat
BY QueueAssumption

\* INDEXIFY gives a slot.
LEMMA IndexifyType ==
  ASSUME NEW a \in Nat
  PROVE  Indexify(a) \in Slots
BY CapacityType DEF Indexify, Slots

\* INDEXIFY is the remainder: an index is so many turns of the buffer and a slot.
LEMMA IndexifyTurns ==
  ASSUME NEW a \in Nat
  PROVE  \E k \in Nat : a = Capacity * k + Indexify(a)
<1>1. a \div Capacity \in Nat /\ a = Capacity * (a \div Capacity) + (a % Capacity)
  BY CapacityType
<1> QED
  BY <1>1 DEF Indexify

\* The slot is determined by the turns: there is one remainder.
LEMMA IndexifyUnique ==
  ASSUME NEW a \in Nat, NEW k \in Nat, NEW r \in Slots, a = Capacity * k + r
  PROVE  Indexify(a) = r
BY CapacityType DEF Indexify, Slots

\* The tail runs a capacity ahead of the words given up, in the same slot.
LEMMA IndexifyTail ==
  ASSUME NEW a \in Nat
  PROVE  Indexify(a + Capacity) = Indexify(a)
<1>1. PICK k \in Nat : a = Capacity * k + Indexify(a)
  BY IndexifyTurns
<1>2. PICK j \in Nat : j = k + 1
  OBVIOUS
<1>3. Indexify(a) \in Slots /\ a + Capacity \in Nat
  BY IndexifyType, CapacityType
<1>4. a + Capacity = Capacity * j + Indexify(a)
  BY <1>1, <1>2, <1>3, CapacityType DEF Slots
<1> QED
  BY <1>3, <1>4, IndexifyUnique

\* The slot of an index less than a capacity ahead: it wraps at most once.
LEMMA IndexifyAhead ==
  ASSUME NEW a \in Nat, NEW d \in Slots
  PROVE  Indexify(a + d) = IF Indexify(a) + d < Capacity
                           THEN Indexify(a) + d ELSE Indexify(a) + d - Capacity
<1>1. PICK k \in Nat : a = Capacity * k + Indexify(a)
  BY IndexifyTurns
<1>2. PICK r \in Slots : r = Indexify(a)
  BY IndexifyType
<1>3. PICK m \in Nat : m = Capacity * k /\ m + Capacity = Capacity * (k + 1)
  BY CapacityType
<1>4. a = m + r /\ r \in Nat /\ d \in Nat /\ a + d \in Nat
  BY <1>1, <1>2, <1>3, CapacityType DEF Slots
<1>5. CASE r + d < Capacity
  <2>1. PICK s \in Slots : s = r + d
    BY <1>4, <1>5, CapacityType DEF Slots
  <2>2. a + d = m + s
    BY <1>4, <2>1
  <2>3. Indexify(a + d) = s
    BY <1>3, <1>4, <2>2, IndexifyUnique
  <2> QED
    BY <1>2, <1>5, <2>1, <2>3
<1>6. CASE r + d >= Capacity
  <2>1. PICK s \in Slots : s = r + d - Capacity
    BY <1>4, <1>6, CapacityType DEF Slots
  <2>2. PICK j \in Nat : j = k + 1
    OBVIOUS
  <2>3. a + d = (m + Capacity) + s
    BY <1>4, <2>1, CapacityType
  <2>4. Indexify(a + d) = s
    BY <1>3, <1>4, <2>2, <2>3, IndexifyUnique
  <2>5. ~ (r + d < Capacity)
    BY <1>4, <1>6, CapacityType
  <2> QED
    BY <1>2, <2>1, <2>4, <2>5
<1> QED
  BY <1>2, <1>4, <1>5, <1>6, CapacityType

\* Indexes less than a capacity apart are in different slots.
LEMMA IndexifyDistinct ==
  ASSUME NEW a \in Nat, NEW b \in Nat, a < b, b < a + Capacity
  PROVE  Indexify(a) # Indexify(b)
<1>1. b - a \in Slots /\ b = a + (b - a) /\ b - a > 0
  BY CapacityType DEF Slots
<1>2. Indexify(b) = IF Indexify(a) + (b - a) < Capacity
                    THEN Indexify(a) + (b - a) ELSE Indexify(a) + (b - a) - Capacity
  BY <1>1, IndexifyAhead
<1>3. Indexify(a) \in Nat
  BY IndexifyType, CapacityType DEF Slots
<1> QED
  BY <1>1, <1>2, <1>3, CapacityType

(***************************************************************************)
(* Runs of words.                                                          *)
(***************************************************************************)

\* A run of words is a sequence.
LEMMA WordsSeq ==
  ASSUME NEW a \in Nat, NEW n \in Nat
  PROVE  Words(a, n) \in Seq(Nat) /\ Len(Words(a, n)) = n
BY DEF Words

\* Two runs that follow each other are a run.
LEMMA WordsConcat ==
  ASSUME NEW a \in Nat, NEW n \in Nat, NEW m \in Nat
  PROVE  Words(a, n) \o Words(a + n, m) = Words(a, n + m)
BY WordsSeq DEF Words

\* A part of a run is a run.
LEMMA WordsSub ==
  ASSUME NEW a \in Nat, NEW n \in Nat, NEW k \in 0 .. n, NEW m \in k .. n
  PROVE  SubSeq(Words(a, n), k + 1, m) = Words(a + k, m - k)
BY WordsSeq DEF Words

\* No words.
LEMMA WordsNone ==
  ASSUME NEW a \in Nat
  PROVE  Words(a, 0) = <<>>
BY WordsSeq DEF Words

\* A run of words up to MaxPushes is one of values.
LEMMA WordsValue ==
  ASSUME NEW a \in Nat, NEW n \in Nat, a + n <= MaxPushes
  PROVE  Words(a, n) \in Seq(Value) /\ Words(a, n) \in Seq(Value \cup {0})
<1>1. \A i \in 1 .. n : a + i \in Value
  BY CapacityType DEF Value
<1> QED
  BY <1>1 DEF Words

\* memcpy into the queue: the words lo to h - 1 keep their slots and the n words
\* after them get theirs, if the copy does not run over the end of the array
\* and all of them are less than a capacity apart.
LEMMA CopyInSlots ==
  ASSUME NEW lo \in Nat, NEW h \in Nat, NEW n \in Nat,
         lo <= h, h + n <= lo + Capacity, Indexify(h) + n <= Capacity,
         \A i \in lo .. h - 1 : e[Indexify(i)] = i + 1
  PROVE  \A i \in lo .. h + n - 1 : CopyIn(Indexify(h), Words(h, n))[Indexify(i)] = i + 1
<1> SUFFICES ASSUME NEW i \in lo .. h + n - 1
             PROVE  CopyIn(Indexify(h), Words(h, n))[Indexify(i)] = i + 1
  OBVIOUS
<1>1. Len(Words(h, n)) = n
  BY WordsSeq
<1>2. i \in Nat /\ Indexify(i) \in Slots /\ Indexify(h) \in Slots
  BY IndexifyType
<1>3. CopyIn(Indexify(h), Words(h, n))[Indexify(i)] =
        IF Indexify(i) - Indexify(h) \in 0 .. n - 1
        THEN Words(h, n)[Indexify(i) - Indexify(h) + 1] ELSE e[Indexify(i)]
  BY <1>1, <1>2 DEF CopyIn
<1>4. \A d \in 0 .. n - 1 : Indexify(h + d) = Indexify(h) + d
  <2> TAKE d \in 0 .. n - 1
  <2>1. d \in Slots /\ Indexify(h) + d < Capacity
    BY <1>2, CapacityType DEF Slots
  <2> QED
    BY <2>1, IndexifyAhead
<1>5. CASE i >= h
  <2>1. i - h \in 0 .. n - 1 /\ i = h + (i - h)
    BY <1>5
  <2>2. Indexify(i) - Indexify(h) = i - h
    BY <2>1, <1>2, <1>4, CapacityType DEF Slots
  <2>3. Words(h, n)[i - h + 1] = i + 1
    BY <2>1 DEF Words
  <2> QED
    BY <1>3, <2>1, <2>2, <2>3
<1>6. CASE i < h
  <2>1. ASSUME Indexify(i) - Indexify(h) \in 0 .. n - 1
        PROVE  FALSE
    <3>1. PICK d \in 0 .. n - 1 : Indexify(i) = Indexify(h) + d
      BY <2>1, <1>2, CapacityType DEF Slots
    <3>2. Indexify(i) = Indexify(h + d)
      BY <3>1, <1>4
    <3>3. h + d \in Nat /\ i < h + d /\ h + d < i + Capacity
      BY <1>6, CapacityType
    <3> QED
      BY <1>2, <3>2, <3>3, IndexifyDistinct
  <2> QED
    BY <1>3, <1>6, <2>1
<1> QED
  BY <1>5, <1>6

\* memcpy from the queue: n words from lo on, up to the end of the array.
LEMMA CopyOutWords ==
  ASSUME NEW lo \in Nat, NEW n \in Nat, Indexify(lo) + n <= Capacity,
         \A i \in lo .. lo + n - 1 : e[Indexify(i)] = i + 1
  PROVE  CopyOut(Indexify(lo), n) = Words(lo, n)
<1>1. Indexify(lo) \in Slots
  BY IndexifyType
<1>2. ASSUME NEW i \in 1 .. n
      PROVE  e[Indexify(lo) + i - 1] = lo + i
  <2>1. i - 1 \in Slots /\ Indexify(lo) + (i - 1) < Capacity
    BY <1>1, CapacityType DEF Slots
  <2>2. Indexify(lo + (i - 1)) = Indexify(lo) + (i - 1)
    BY <2>1, IndexifyAhead
  <2>3. lo + (i - 1) \in lo .. lo + n - 1 /\ Indexify(lo) + i - 1 = Indexify(lo) + (i - 1)
    BY <1>1, CapacityType DEF Slots
  <2>4. e[Indexify(lo + (i - 1))] = lo + (i - 1) + 1
    BY <2>3
  <2> QED
    BY <2>2, <2>3, <2>4
<1> QED
  BY <1>2 DEF CopyOut, Words

\* What e holds after a memcpy are still words.
LEMMA CopyInType ==
  ASSUME e \in [Slots -> Value \cup {0}], NEW at \in Slots,
         NEW h \in Nat, NEW n \in Nat, h + n <= MaxPushes
  PROVE  CopyIn(at, Words(h, n)) \in [Slots -> Value \cup {0}]
<1>1. Len(Words(h, n)) = n
  BY WordsSeq
<1>2. \A i \in Slots : i - at \in 0 .. n - 1 => Words(h, n)[i - at + 1] \in Value
  BY CapacityType DEF Words, Value, Slots
<1> QED
  BY <1>1, <1>2 DEF CopyIn

(***************************************************************************)
(* The steps.                                                              *)
(***************************************************************************)

\* The indexes are natural numbers in the order the code asserts, and the tail
\* shares the slot of the first word not given up.
LEMMA Indexes ==
  ASSUME IndInv
  PROVE  /\ Base \in Nat /\ idx_head \in Nat /\ idx_tail \in Nat /\ pushed \in Nat
         /\ w_head \in Nat /\ r_head \in Nat /\ Stored \in Nat
         /\ idx_tail = Base + Capacity /\ Base <= MaxPushes /\ idx_head <= MaxPushes
         /\ idx_head <= Stored /\ Stored <= pushed /\ pushed <= MaxPushes
         /\ Indexify(idx_tail) = Indexify(Base)
<1>1. /\ idx_tail \in Capacity .. MaxPushes + Capacity /\ idx_head \in 0 .. idx_tail - 1
      /\ w_head \in 0 .. MaxPushes /\ r_head \in 0 .. MaxPushes /\ pushed \in 0 .. MaxPushes
      /\ wpc \in {"none", "publish", "copy", "copy_again", "publish_bulk"}
  BY DEF IndInv, TypeOK
<1>2. Base \in Nat /\ idx_tail = Base + Capacity /\ Base <= MaxPushes
  BY <1>1, CapacityType DEF Base
<1>3. Indexify(idx_tail) = Indexify(Base)
  BY <1>2, IndexifyTail
<1>4. WriterInv
  BY DEF IndInv
<1>5. idx_head \in Nat /\ w_head \in Nat /\ pushed \in Nat
  BY <1>1, <1>2, CapacityType
<1>6. Stored \in Nat /\ idx_head <= Stored /\ Stored <= pushed
  <2>1. CASE wpc \in {"none", "copy"}
    BY <1>4, <1>5, <2>1 DEF Stored, WriterInv
  <2>2. CASE wpc = "publish"
    BY <1>4, <1>5, <2>2 DEF Stored, WriterInv
  <2>3. CASE wpc \in {"copy_again", "publish_bulk"}
    BY <1>4, <1>5, <2>3 DEF Stored, WriterInv
  <2> QED
    BY <1>1, <2>1, <2>2, <2>3
<1> QED
  BY <1>1, <1>2, <1>3, <1>4, <1>5, <1>6, CapacityType DEF WriterInv

\* The writer's steps leave the reader's part of the invariant alone: the head
\* only grows.
LEMMA ReaderFrame ==
  ASSUME IndInv, UNCHANGED <<idx_tail, readerVars>>, idx_head' \in Nat, idx_head' >= idx_head
  PROVE  ReaderInv'
<1>1. Base' = Base
  BY DEF Base
<1>2. ReaderInv
  BY DEF IndInv
<1> QED
  BY <1>1, <1>2, Indexes DEF ReaderInv, readerVars, Indexify

\* The reader's steps leave the writer's part alone: the tail only grows, and
\* does not overtake the head.
LEMMA WriterFrame ==
  ASSUME IndInv, UNCHANGED <<e, idx_head, writerVars>>,
         idx_tail' \in Nat, idx_tail' >= idx_tail, Base' <= idx_head
  PROVE  SlotInv' /\ WriterInv'
<1>1. Stored' = Stored
  BY DEF Stored, writerVars
<1>2. Base' \in Int /\ Base' >= Base
  BY Indexes, CapacityType DEF Base
<1>3. SlotInv /\ WriterInv
  BY DEF IndInv
<1>4. SlotInv'
  BY <1>1, <1>2, <1>3, Indexes DEF SlotInv, Indexify
<1>5. WriterInv'
  BY <1>2, <1>3, Indexes DEF WriterInv, writerVars, Indexify
<1> QED
  BY <1>4, <1>5

\* Every step of forkscan_queue_push and forkscan_queue_push_bulk.
LEMMA WriterStep ==
  ASSUME IndInv, Writer
  PROVE  IndInv'
<1> USE CapacityType, Indexes DEF IndInv, readerVars
<1>1. CASE Push
  <2>1. /\ wpc = "none" /\ wpc' = "publish" /\ pushed = idx_head /\ pushed' = pushed + 1
        /\ pushed < MaxPushes /\ idx_head + 1 < idx_tail
        /\ UNCHANGED <<idx_head, idx_tail, block, w_head, readerVars>>
    BY <1>1 DEF Push, IsFull, TypeOK, WriterInv
  <2>2. e' = CopyIn(Indexify(idx_head), Words(idx_head, 1))
    <3>1. <<pushed + 1>> = Words(idx_head, 1)
      BY <2>1 DEF Words
    <3> QED
      BY <1>1, <3>1 DEF Push
  <2>3. Indexify(idx_head) \in Slots /\ Indexify(idx_head) + 1 <= Capacity
    BY IndexifyType DEF Slots
  <2>4. e' \in [Slots -> Value \cup {0}]
    BY <2>1, <2>2, <2>3, CopyInType DEF TypeOK
  <2>5. TypeOK'
    BY <2>1, <2>4 DEF TypeOK
  <2>6. SlotInv'
    <3>1. \A i \in Base .. idx_head - 1 : e[Indexify(i)] = i + 1
      BY <2>1 DEF SlotInv, Stored
    <3>2. \A i \in Base .. idx_head + 1 - 1 : e'[Indexify(i)] = i + 1
      <4>1. /\ Base \in Nat /\ idx_head \in Nat /\ 1 \in Nat
            /\ Base <= idx_head /\ idx_head + 1 <= Base + Capacity
            /\ Indexify(idx_head) + 1 <= Capacity
        BY <2>1, <2>2, <2>3 DEF WriterInv
      <4> HIDE CapacityType, Indexes
      <4>2. \A i \in Base .. idx_head + 1 - 1 :
              CopyIn(Indexify(idx_head), Words(idx_head, 1))[Indexify(i)] = i + 1
        BY <3>1, <4>1, CopyInSlots
      <4> QED
        BY <4>2, <2>1, <2>2, <2>3
    <3>3. Base' = Base /\ Stored' = idx_head + 1
      BY <2>1 DEF Base, Stored
    <3> QED
      BY <3>2, <3>3 DEF SlotInv, Indexify
  <2>7. WriterInv'
    BY <2>1 DEF WriterInv, Base
  <2> QED
    BY <2>1, <2>5, <2>6, <2>7, ReaderFrame
<1>2. CASE PushPublish
  <2>1. /\ wpc = "publish" /\ wpc' = "none" /\ pushed = idx_head + 1 /\ idx_head' = idx_head + 1
        /\ UNCHANGED <<e, idx_tail, block, w_head, pushed, readerVars>>
    BY <1>2 DEF PushPublish, WriterInv
  <2>2. TypeOK'
    BY <2>1 DEF TypeOK, WriterInv
  <2>3. SlotInv'
    BY <2>1 DEF SlotInv, Stored, Base
  <2>4. WriterInv'
    BY <2>1 DEF WriterInv, Base
  <2> QED
    BY <2>1, <2>2, <2>3, <2>4, ReaderFrame
<1>3. CASE PushBulk
  <2>1. PICK n \in 1 .. MinOf(MaxLen, MaxPushes - pushed) :
          /\ n <= Available
          /\ block' = [i \in 1 .. n |-> pushed + i]
          /\ pushed' = pushed + n
    BY <1>3 DEF PushBulk
  <2>2. /\ wpc = "none" /\ wpc' = "copy" /\ w_head' = idx_head /\ pushed = idx_head
        /\ UNCHANGED <<e, idx_head, idx_tail, readerVars>>
    BY <1>3 DEF PushBulk, WriterInv
  <2>3. n \in Nat \ {0} /\ pushed + n <= MaxPushes /\ pushed + n < idx_tail
    <3>1. n \in Nat \ {0} /\ n <= MaxPushes - pushed
      BY <2>1 DEF MinOf
    <3>2. n <= idx_tail - idx_head - 1
      BY <2>1 DEF Available
    <3> QED
      BY <2>2, <3>1, <3>2
  <2>4. block' = Words(idx_head, n)
    BY <2>1, <2>2 DEF Words
  <2>5. TypeOK'
    <3>1. block' \in Seq(Value) /\ Len(block') <= MaxPushes
      <4>1. idx_head \in Nat /\ n \in Nat /\ idx_head + n <= MaxPushes /\ n <= MaxPushes
        BY <2>2, <2>3
      <4>2. Words(idx_head, n) \in Seq(Value)
        BY <4>1, WordsValue, Zenon
      <4>3. Len(Words(idx_head, n)) = n
        BY <4>1, WordsSeq, Zenon
      <4> QED
        BY <2>4, <4>1, <4>2, <4>3, Zenon
    <3> QED
      BY <2>1, <2>2, <2>3, <3>1 DEF TypeOK
  <2>6. SlotInv'
    BY <2>2 DEF SlotInv, Stored, Base
  <2>7. WriterInv'
    <3>1. pushed' - w_head' = n /\ w_head' < pushed' /\ pushed' < idx_tail /\ Base' = Base
      BY <2>1, <2>2, <2>3 DEF Base
    <3>2. idx_head <= pushed'
      BY <2>1, <2>2, <2>3
    <3> QED
      BY <2>2, <2>4, <3>1, <3>2 DEF WriterInv
  <2> QED
    BY <2>2, <2>5, <2>6, <2>7, ReaderFrame
<1>4. CASE PushBulkFirst
  <2>1. PICK n \in Nat : n = pushed - w_head
    BY <1>4 DEF PushBulkFirst, WriterInv
  <2>2. PICK h \in Nat : h = Indexify(w_head) /\ h < Capacity
    BY IndexifyType DEF Slots
  <2>3. PICK m \in Nat : m = MinOf(n, Capacity - h)
    BY <2>2 DEF MinOf
  <2>4. /\ wpc = "copy" /\ w_head = idx_head /\ n > 0
        /\ UNCHANGED <<idx_head, idx_tail, pushed, readerVars>>
    BY <1>4, <2>1 DEF PushBulkFirst, WriterInv
  <2>5. m \in 1 .. n /\ h + m <= Capacity /\ (m < n => h + m = Capacity)
    BY <2>2, <2>3, <2>4 DEF MinOf
  <2>6. block = Words(w_head, n) /\ Len(block) = n
    BY <1>4, <2>1, WordsSeq DEF PushBulkFirst, WriterInv
  <2>7. /\ e' = CopyIn(h, Words(w_head, m)) /\ w_head' = w_head + m
        /\ block' = Words(w_head + m, n - m)
        /\ wpc' = IF m < n THEN "copy_again" ELSE "publish_bulk"
    <3>1. /\ e' = CopyIn(h, SubSeq(block, 1, m)) /\ w_head' = w_head + m
          /\ block' = SubSeq(block, m + 1, n)
          /\ wpc' = IF block' # <<>> THEN "copy_again" ELSE "publish_bulk"
      BY <1>4, <2>2, <2>3, <2>6 DEF PushBulkFirst
    <3>2. SubSeq(block, 0 + 1, m) = Words(w_head + 0, m - 0)
      <4>1. 0 \in 0 .. n /\ m \in 0 .. n
        BY <2>5
      <4> QED
        BY <2>6, <4>1, WordsSub
    <3>3. SubSeq(block, m + 1, n) = Words(w_head + m, n - m)
      <4>1. m \in 0 .. n /\ n \in m .. n
        BY <2>5
      <4> QED
        BY <2>6, <4>1, WordsSub
    <3>4. w_head + 0 = w_head /\ m - 0 = m /\ 0 + 1 = 1
      OBVIOUS
    <3>5. Words(w_head + m, n - m) # <<>> <=> m < n
      <4>1. PICK k \in Nat : k = n - m
        BY <2>5
      <4>2. Words(w_head + m, k) \in Seq(Nat) /\ Len(Words(w_head + m, k)) = k
        <5>1. w_head + m \in Nat
          OBVIOUS
        <5> QED
          BY <5>1, WordsSeq
      <4>3. Words(w_head + m, k) # <<>> <=> k > 0
        BY <4>2
      <4> QED
        BY <2>5, <4>1, <4>3
    <3> QED
      BY <3>1, <3>2, <3>3, <3>4, <3>5
  <2>8. w_head + m \in Nat /\ w_head + m + (n - m) = pushed /\ n - m \in Nat
    BY <2>1, <2>5
  <2>9. TypeOK'
    <3>1. e' \in [Slots -> Value \cup {0}]
      <4>1. h \in Slots
        BY <2>2, <2>5 DEF Slots
      <4>2. w_head \in Nat /\ m \in Nat /\ w_head + m <= MaxPushes
        BY <2>1, <2>5
      <4>3. e \in [Slots -> Value \cup {0}]
        BY DEF TypeOK
      <4>4. CopyIn(h, Words(w_head, m)) \in [Slots -> Value \cup {0}]
        BY <4>1, <4>2, <4>3, CopyInType, Zenon
      <4> QED
        BY <2>7, <4>4, Zenon
    <3>2. block' \in Seq(Value) /\ Len(block') <= MaxPushes
      <4>1. PICK k \in Nat : k = n - m /\ w_head + m + k <= MaxPushes /\ k <= MaxPushes
        BY <2>8
      <4>2. Words(w_head + m, k) \in Seq(Value)
        BY <2>8, <4>1, WordsValue
      <4>3. Len(Words(w_head + m, k)) = k
        BY <2>8, WordsSeq
      <4> QED
        BY <2>7, <4>1, <4>2, <4>3
    <3>3. w_head' \in 0 .. MaxPushes
      BY <2>7, <2>8
    <3> QED
      BY <2>4, <2>7, <3>1, <3>2, <3>3 DEF TypeOK
  <2>10. SlotInv'
    <3>1. \A i \in Base .. w_head - 1 : e[Indexify(i)] = i + 1
      BY <2>4 DEF SlotInv, Stored
    <3>2. \A i \in Base .. w_head + m - 1 : e'[Indexify(i)] = i + 1
      <4>1. /\ Base \in Nat /\ w_head \in Nat /\ m \in Nat
            /\ Base <= w_head /\ w_head + m <= Base + Capacity
            /\ Indexify(w_head) + m <= Capacity
        BY <2>1, <2>2, <2>4, <2>5 DEF WriterInv
      <4> HIDE CapacityType, Indexes
      <4>2. \A i \in Base .. w_head + m - 1 :
              CopyIn(Indexify(w_head), Words(w_head, m))[Indexify(i)] = i + 1
        BY <3>1, <4>1, CopyInSlots
      <4> QED
        BY <4>2, <2>2, <2>7
    <3>3. Base' = Base /\ Stored' = w_head + m
      BY <2>4, <2>7 DEF Base, Stored
    <3> QED
      BY <3>2, <3>3 DEF SlotInv, Indexify
  <2>11. WriterInv'
    <3>1. m < n => Indexify(w_head + m) = 0
      <4> SUFFICES ASSUME m < n
                   PROVE  Indexify(w_head + m) = 0
        OBVIOUS
      <4>1. CASE m < Capacity
        <5>1. m \in Slots /\ h + m = Capacity
          BY <2>5, <4>1 DEF Slots
        <5> QED
          BY <2>2, <5>1, IndexifyAhead
      <4>2. CASE m >= Capacity
        <5>1. h = 0 /\ m = Capacity
          BY <2>2, <2>5, <4>2
        <5> QED
          BY <2>2, <5>1, IndexifyTail
      <4> QED
        BY <4>1, <4>2
    <3>2. pushed' - w_head' = n - m /\ n - m <= Capacity
      BY <2>1, <2>4, <2>5, <2>7 DEF WriterInv
    <3>3. Indexify(w_head)' = Indexify(w_head + m) /\ Base' = Base
      BY <2>4, <2>7 DEF Indexify, Base
    <3>4. /\ idx_head < w_head' /\ w_head' <= pushed /\ w_head' \in Nat
          /\ m < n => w_head' < pushed
          /\ m >= n => w_head' = pushed
      BY <2>1, <2>4, <2>5, <2>7
    <3>5. CASE m < n
      BY <2>4, <2>7, <3>1, <3>2, <3>3, <3>4, <3>5 DEF WriterInv
    <3>6. CASE m >= n
      BY <2>4, <2>7, <3>3, <3>4, <3>6 DEF WriterInv
    <3> QED
      BY <3>5, <3>6
  <2> QED
    BY <2>4, <2>9, <2>10, <2>11, ReaderFrame
<1>5. CASE PushBulkSecond
  <2>1. PICK n \in Nat : n = pushed - w_head
    BY <1>5 DEF PushBulkSecond, WriterInv
  <2>2. /\ wpc = "copy_again" /\ Indexify(w_head) = 0 /\ n <= Capacity /\ n > 0
        /\ block = Words(w_head, n) /\ Len(block) = n
        /\ UNCHANGED <<idx_head, idx_tail, pushed, readerVars>>
    BY <1>5, <2>1, WordsSeq DEF PushBulkSecond, WriterInv
  <2>3. /\ e' = CopyIn(Indexify(w_head), Words(w_head, n)) /\ w_head' = pushed
        /\ block' = <<>> /\ wpc' = "publish_bulk"
    BY <1>5, <2>1, <2>2 DEF PushBulkSecond
  <2>4. TypeOK'
    <3>1. Indexify(w_head) \in Slots
      BY IndexifyType
    <3>2. e' \in [Slots -> Value \cup {0}]
      BY <2>1, <2>3, <3>1, CopyInType DEF TypeOK
    <3>3. block' \in Seq(Value) /\ Len(block') <= MaxPushes
      BY <2>3
    <3> QED
      BY <2>2, <2>3, <3>2, <3>3 DEF TypeOK
  <2>5. SlotInv'
    <3>1. \A i \in Base .. w_head - 1 : e[Indexify(i)] = i + 1
      BY <2>2 DEF SlotInv, Stored
    <3>2. \A i \in Base .. w_head + n - 1 : e'[Indexify(i)] = i + 1
      <4>1. /\ Base \in Nat /\ w_head \in Nat /\ n \in Nat
            /\ Base <= w_head /\ w_head + n <= Base + Capacity
            /\ Indexify(w_head) + n <= Capacity
        BY <2>1, <2>2, <2>3 DEF WriterInv
      <4> HIDE CapacityType, Indexes
      <4>2. \A i \in Base .. w_head + n - 1 :
              CopyIn(Indexify(w_head), Words(w_head, n))[Indexify(i)] = i + 1
        BY <3>1, <4>1, CopyInSlots
      <4> QED
        BY <4>2, <2>1, <2>2, <2>3
    <3>3. Base' = Base /\ Stored' = w_head + n
      BY <2>1, <2>2, <2>3 DEF Base, Stored
    <3> QED
      BY <3>2, <3>3 DEF SlotInv, Indexify
  <2>6. WriterInv'
    BY <2>1, <2>2, <2>3 DEF WriterInv, Base
  <2> QED
    BY <2>2, <2>4, <2>5, <2>6, ReaderFrame
<1>6. CASE PushBulkPublish
  <2>1. /\ wpc = "publish_bulk" /\ wpc' = "none" /\ idx_head' = w_head /\ w_head = pushed
        /\ UNCHANGED <<e, idx_tail, block, w_head, pushed, readerVars>>
    BY <1>6 DEF PushBulkPublish, WriterInv
  <2>2. TypeOK'
    BY <2>1 DEF TypeOK, WriterInv
  <2>3. SlotInv'
    BY <2>1 DEF SlotInv, Stored, Base
  <2>4. WriterInv'
    BY <2>1 DEF WriterInv, Base
  <2> QED
    BY <2>1, <2>2, <2>3, <2>4, ReaderFrame DEF WriterInv
<1> QED
  BY <1>1, <1>2, <1>3, <1>4, <1>5, <1>6 DEF Writer

\* How the words from the first one not given up to r_head lie in the array: in
\* one piece, or in two when the slot of r_head is before that of the tail.
LEMMA TwoPieces ==
  ASSUME IndInv, Base <= r_head, r_head <= idx_head
  PROVE  LET t == Indexify(Base)
             h == Indexify(r_head)
         IN  /\ t \in Nat /\ h \in Nat /\ t < Capacity /\ h < Capacity
             /\ h < t => r_head = Base + (Capacity - t) + h
             /\ h >= t => r_head = Base + (h - t)
<1>1. PICK t \in Nat, h \in Nat :
         t = Indexify(Base) /\ h = Indexify(r_head) /\ t < Capacity /\ h < Capacity
  BY Indexes, IndexifyType, CapacityType DEF Slots
<1>2. PICK d \in Slots : d = r_head - Base
  <2>1. WriterInv
    BY DEF IndInv
  <2> QED
    BY <2>1, Indexes, CapacityType DEF WriterInv, Slots
<1>3. d \in Nat /\ d < Capacity /\ r_head = Base + d
  BY <1>2, Indexes, CapacityType DEF Slots
<1>4. h = IF t + d < Capacity THEN t + d ELSE t + d - Capacity
  BY <1>1, <1>2, <1>3, Indexes, IndexifyAhead
<1>5. /\ h < t => r_head = Base + (Capacity - t) + h
      /\ h >= t => r_head = Base + (h - t)
  <2>1. PICK b \in Nat : b = Base
    BY Indexes
  <2>2. CASE t + d < Capacity
    BY <1>1, <1>3, <1>4, <2>1, <2>2, CapacityType
  <2>3. CASE t + d >= Capacity
    BY <1>1, <1>3, <1>4, <2>1, <2>3, CapacityType
  <2> QED
    BY <1>1, <1>3, <2>2, <2>3, CapacityType
<1> QED
  BY <1>1, <1>5

\* What the reader copies from a slot on, not past the end of the array nor past
\* the head it has read, are the words that belong there.
LEMMA CopyOutStored ==
  ASSUME IndInv, NEW lo \in Nat, NEW n \in Nat,
         Base <= lo, lo + n <= idx_head, Indexify(lo) + n <= Capacity
  PROVE  CopyOut(Indexify(lo), n) = Words(lo, n) /\ Words(lo, n) \in Seq(Value \cup {0})
<1>1. SlotInv
  BY DEF IndInv
<1>2. \A i \in lo .. lo + n - 1 : e[Indexify(i)] = i + 1
  BY <1>1, Indexes DEF SlotInv
<1>3. lo + n <= MaxPushes
  BY Indexes, CapacityType
<1> QED
  BY <1>2, <1>3, CopyOutWords, WordsValue

\* Every step of forkscan_queue_pop and forkscan_queue_pop_bulk.
LEMMA ReaderStep ==
  ASSUME IndInv, Reader
  PROVE  IndInv'
<1>1. CASE Pop
  <2>1. /\ rpc' = "pop" /\ values' = CopyOut(Indexify(Base), 1)
        /\ UNCHANGED <<e, idx_head, idx_tail, writerVars, len, r_head, got>>
    BY <1>1, Indexes DEF Pop
  <2>2. Base < idx_head
    BY <1>1, Indexes, CapacityType DEF Pop, IsEmpty, IndInv, WriterInv
  <2>3. Indexify(Base) + 1 <= Capacity
    BY Indexes, IndexifyType, CapacityType DEF Slots
  <2>4. values' = Words(Base, 1) /\ values' \in Seq(Value \cup {0})
    <3>1. Base \in Nat /\ 1 \in Nat /\ Base <= Base /\ Base + 1 <= idx_head
      BY <2>2, Indexes
    <3>2. CopyOut(Indexify(Base), 1) = Words(Base, 1) /\ Words(Base, 1) \in Seq(Value \cup {0})
      BY <2>3, <3>1, CopyOutStored, Zenon
    <3> QED
      BY <2>1, <3>2
  <2>5. TypeOK'
    BY <2>1, <2>4 DEF TypeOK, IndInv, writerVars
  <2>6. ReaderInv'
    BY <2>1, <2>2, <2>4 DEF ReaderInv, IndInv, Base, Indexify
  <2>7. SlotInv' /\ WriterInv'
    BY <2>1, <2>2, Indexes, WriterFrame DEF Base
  <2> QED
    BY <2>5, <2>6, <2>7 DEF IndInv
<1>2. CASE PopPublish
  <2>1. /\ idx_tail' = idx_tail + 1 /\ got' = got \o values /\ rpc' = "none"
        /\ UNCHANGED <<e, idx_head, writerVars, len, r_head, values>>
    BY <1>2 DEF PopPublish
  <2>2. Base < idx_head /\ values = Words(Base, 1) /\ got = Words(0, Base)
    BY <1>2 DEF PopPublish, ReaderInv, IndInv
  <2>3. Base' = Base + 1 /\ idx_tail' \in Capacity .. MaxPushes + Capacity
    BY <2>1, <2>2, Indexes, CapacityType DEF Base
  <2>4. got' = Words(0, Base + 1)
    <3>1. 0 \in Nat /\ 1 \in Nat /\ Base \in Nat /\ 0 + Base = Base
      BY Indexes
    <3>2. Words(0, Base) \o Words(0 + Base, 1) = Words(0, Base + 1)
      BY <3>1, WordsConcat, Zenon
    <3> QED
      BY <2>1, <2>2, <3>1, <3>2, Zenon
  <2>5. TypeOK'
    <3>1. got' \in Seq(Value \cup {0})
      <4>1. 0 \in Nat /\ Base + 1 \in Nat /\ 0 + (Base + 1) <= MaxPushes
        BY <2>2, Indexes, CapacityType
      <4> QED
        BY <2>4, <4>1, WordsValue, Zenon
    <3>2. idx_head \in 0 .. idx_tail' - 1
      BY <2>1, Indexes DEF IndInv, TypeOK
    <3> QED
      BY <2>1, <2>3, <3>1, <3>2 DEF TypeOK, IndInv, writerVars
  <2>6. ReaderInv'
    BY <2>1, <2>3, <2>4 DEF ReaderInv
  <2>7. SlotInv' /\ WriterInv'
    BY <2>1, <2>2, <2>3, Indexes, WriterFrame
  <2> QED
    BY <2>5, <2>6, <2>7 DEF IndInv
<1>3. CASE PopBulk
  <2>1. PICK l \in 0 .. MaxLen :
          len' = l /\ r_head' = FakedHead(idx_head - (idx_tail - Capacity), l)
    BY <1>3 DEF PopBulk
  <2>2. /\ values' = <<>>
        /\ rpc' = IF Indexify(r_head') < Indexify(idx_tail) THEN "drain_to_end" ELSE "drain"
        /\ UNCHANGED <<e, idx_head, idx_tail, writerVars, got>>
    BY <1>3 DEF PopBulk
  <2>3. WriterInv
    BY DEF IndInv
  <2>4. PICK r \in Nat : r = r_head' /\ Base <= r /\ r <= idx_head /\ r - Base <= l
    BY <2>1, <2>3, Indexes, CapacityType DEF FakedHead, WriterInv, Base
  <2>5. TypeOK'
    <3>1. r_head' \in 0 .. MaxPushes /\ len' \in 0 .. MaxLen
      BY <2>1, <2>4, Indexes, CapacityType
    <3>2. values' \in Seq(Value \cup {0}) /\ Len(values') <= len'
      BY <2>1, <2>2, CapacityType
    <3> QED
      BY <2>2, <3>1, <3>2 DEF TypeOK, IndInv, writerVars
  <2>6. ReaderInv'
    <3>1. Base' = Base /\ Indexify(Base)' = Indexify(Base) /\ Indexify(r_head)' = Indexify(r)
      BY <2>2, <2>4 DEF Base, Indexify
    <3>2. Indexify(r_head') = Indexify(r)
      BY <2>4
    <3> QED
      BY <2>1, <2>2, <2>4, <3>1, <3>2, Indexes DEF ReaderInv, IndInv
  <2>7. SlotInv' /\ WriterInv'
    BY <2>2, <2>3, Indexes, WriterFrame DEF Base, WriterInv
  <2> QED
    BY <2>5, <2>6, <2>7 DEF IndInv
<1>4. CASE DrainToEnd
  <2>1. /\ rpc = "drain_to_end" /\ rpc' = "drain"
        /\ values' = CopyOut(Indexify(Base), Capacity - Indexify(Base))
        /\ UNCHANGED <<e, idx_head, idx_tail, writerVars, len, r_head, got>>
    BY <1>4, Indexes DEF DrainToEnd
  <2>2. /\ Base <= r_head /\ r_head <= idx_head /\ r_head - Base <= len
        /\ Indexify(r_head) < Indexify(Base)
    BY <2>1 DEF ReaderInv, IndInv
  <2>3. PICK n \in Nat : /\ n = Capacity - Indexify(Base) /\ Base + n <= r_head
                         /\ Indexify(Base) + n <= Capacity
    BY <2>2, TwoPieces, Indexes, CapacityType
  <2>4. Base + n <= idx_head /\ n <= len
    BY <2>2, <2>3, Indexes DEF IndInv, TypeOK
  <2>5. values' = Words(Base, n) /\ values' \in Seq(Value \cup {0}) /\ Len(values') = n
    <3>1. Base \in Nat /\ Base <= Base
      BY Indexes
    <3>2. CopyOut(Indexify(Base), n) = Words(Base, n) /\ Words(Base, n) \in Seq(Value \cup {0})
      BY <2>3, <2>4, <3>1, CopyOutStored, Zenon
    <3>3. Len(Words(Base, n)) = n
      BY <3>1, WordsSeq
    <3> QED
      BY <2>1, <2>3, <3>2, <3>3
  <2>6. TypeOK'
    BY <2>1, <2>4, <2>5 DEF TypeOK, IndInv, writerVars
  <2>7. ReaderInv'
    BY <2>1, <2>2, <2>3, <2>5 DEF ReaderInv, IndInv, Base, Indexify
  <2>8. SlotInv' /\ WriterInv'
    BY <2>1, <2>2, Indexes, WriterFrame DEF Base
  <2> QED
    BY <2>6, <2>7, <2>8 DEF IndInv
<1>5. CASE Drain
  <2>1. /\ rpc = "drain" /\ rpc' = "publish"
        /\ UNCHANGED <<e, idx_head, idx_tail, writerVars, len, r_head, got>>
    BY <1>5 DEF Drain
  <2>2. Base <= r_head /\ r_head <= idx_head /\ r_head - Base <= len /\ len \in Nat
    BY <2>1, CapacityType DEF ReaderInv, IndInv, TypeOK
  <2>3. PICK t \in Nat, h \in Nat :
           /\ t = Indexify(Base) /\ h = Indexify(r_head) /\ t < Capacity /\ h < Capacity
           /\ h < t => r_head = Base + (Capacity - t) + h
           /\ h >= t => r_head = Base + (h - t)
    BY <2>2, TwoPieces
  <2>4. PICK n \in Nat : n = r_head - Base
    BY <2>2, Indexes
  <2>5. values' = Words(Base, n)
    <3>1. CASE h < t
      <4>1. PICK k \in Nat : k = Capacity - t /\ k > 0
        BY <2>3, CapacityType
      <4>2. values = Words(Base, k) /\ values # <<>>
        <5>1. values = Words(Base, k)
          BY <2>1, <2>3, <3>1, <4>1 DEF ReaderInv, IndInv
        <5>2. Len(Words(Base, k)) = k
          BY Indexes, WordsSeq
        <5> QED
          BY <4>1, <5>1, <5>2
      <4>3. values' = Words(Base, k) \o CopyOut(0, h)
        <5>1. h - 0 = h
          OBVIOUS
        <5>2. values' = values \o CopyOut(0, h - 0)
          BY <1>5, <2>3, <4>2, Zenon DEF Drain
        <5> QED
          BY <4>2, <5>1, <5>2
      <4>4. Indexify(Base + k) = 0
        <5>1. CASE t = 0
          BY <3>1, <5>1
        <5>2. CASE t > 0
          <6>1. k \in Slots
            BY <4>1, <5>2, <2>3, CapacityType DEF Slots
          <6>2. Indexify(Base + k) = IF t + k < Capacity THEN t + k ELSE t + k - Capacity
            BY <2>3, <6>1, Indexes, IndexifyAhead
          <6> QED
            BY <2>3, <4>1, <6>2, CapacityType
        <5> QED
          BY <5>1, <5>2
      <4>5. /\ Base + k \in Nat /\ Base <= Base + k /\ Base + k + h <= idx_head
            /\ n = k + h /\ Indexify(Base + k) + h <= Capacity
        BY <2>2, <2>3, <2>4, <3>1, <4>1, <4>4, Indexes, CapacityType
      <4>6. CopyOut(0, h) = Words(Base + k, h)
        BY <4>4, <4>5, CopyOutStored
      <4> QED
        <5>1. Base \in Nat
          BY Indexes
        <5>2. Words(Base, k) \o Words(Base + k, h) = Words(Base, k + h)
          BY <5>1, WordsConcat, Zenon
        <5> QED
          BY <4>3, <4>5, <4>6, <5>2
    <3>2. CASE h >= t
      <4>1. values = <<>>
        BY <2>1, <2>3, <3>2 DEF ReaderInv, IndInv
      <4>2. n = h - t /\ Base + n <= idx_head /\ Indexify(Base) + n <= Capacity
        BY <2>2, <2>3, <2>4, <3>2, Indexes, CapacityType
      <4>3. values' = <<>> \o CopyOut(Indexify(Base), n)
        BY <1>5, <2>3, <4>1, <4>2, Indexes DEF Drain
      <4>4. CopyOut(Indexify(Base), n) = Words(Base, n) /\ Words(Base, n) \in Seq(Value \cup {0})
        BY <4>2, Indexes, CopyOutStored
      <4> QED
        BY <4>3, <4>4
    <3> QED
      BY <2>3, <3>1, <3>2
  <2>6. values' \in Seq(Value \cup {0}) /\ Len(values') = n
    <3>1. Base \in Nat /\ Base + n <= MaxPushes
      BY <2>2, <2>4, Indexes, CapacityType
    <3>2. Words(Base, n) \in Seq(Value \cup {0})
      BY <2>4, <3>1, WordsValue, Zenon
    <3>3. Len(Words(Base, n)) = n
      BY <2>4, <3>1, WordsSeq, Zenon
    <3> QED
      BY <2>5, <3>2, <3>3, Zenon
  <2>7. TypeOK'
    BY <2>1, <2>2, <2>4, <2>6 DEF TypeOK, IndInv, writerVars
  <2>8. ReaderInv'
    BY <2>1, <2>2, <2>4, <2>5 DEF ReaderInv, IndInv, Base
  <2>9. SlotInv' /\ WriterInv'
    BY <2>1, <2>2, Indexes, WriterFrame DEF Base
  <2> QED
    BY <2>7, <2>8, <2>9 DEF IndInv
<1>6. CASE PopBulkPublish
  <2>1. /\ idx_tail' = r_head + Capacity /\ got' = got \o values /\ rpc' = "none"
        /\ UNCHANGED <<e, idx_head, writerVars, len, r_head, values>>
    BY <1>6 DEF PopBulkPublish
  <2>2. /\ Base <= r_head /\ r_head <= idx_head
        /\ values = Words(Base, r_head - Base) /\ got = Words(0, Base)
    BY <1>6 DEF PopBulkPublish, ReaderInv, IndInv
  <2>3. Base' = r_head /\ idx_tail' \in Capacity .. MaxPushes + Capacity /\ idx_tail' >= idx_tail
    BY <2>1, <2>2, Indexes, CapacityType DEF Base
  <2>4. got' = Words(0, r_head)
    <3>1. PICK n \in Nat : n = r_head - Base /\ Base + n = r_head
      BY <2>2, Indexes
    <3>2. 0 \in Nat /\ Base \in Nat /\ 0 + Base = Base
      BY Indexes
    <3>3. Words(0, Base) \o Words(0 + Base, n) = Words(0, Base + n)
      BY <3>2, WordsConcat, Zenon
    <3> QED
      BY <2>1, <2>2, <3>1, <3>2, <3>3, Zenon
  <2>5. TypeOK'
    <3>1. got' \in Seq(Value \cup {0})
      <4>1. 0 \in Nat /\ r_head \in Nat /\ 0 + r_head <= MaxPushes
        BY <2>2, Indexes, CapacityType
      <4> QED
        BY <2>4, <4>1, WordsValue, Zenon
    <3>2. idx_head \in 0 .. idx_tail' - 1
      <4>1. WriterInv
        BY DEF IndInv
      <4> QED
        BY <2>3, <4>1, Indexes, CapacityType DEF WriterInv
    <3> QED
      BY <2>1, <2>3, <3>1, <3>2 DEF TypeOK, IndInv, writerVars
  <2>6. ReaderInv'
    BY <2>1, <2>3, <2>4 DEF ReaderInv
  <2>7. SlotInv' /\ WriterInv'
    BY <2>1, <2>2, <2>3, Indexes, CapacityType, WriterFrame
  <2> QED
    BY <2>5, <2>6, <2>7 DEF IndInv
<1> QED
  BY <1>1, <1>2, <1>3, <1>4, <1>5, <1>6 DEF Reader

(***************************************************************************)
(* The theorems.                                                           *)
(***************************************************************************)

\* The invariant holds of the queue that forkscan_queue_init makes.
LEMMA InitIndInv == Init => IndInv
<1> SUFFICES ASSUME Init
             PROVE  IndInv
  OBVIOUS
<1> USE CapacityType DEF Init
<1>1. Base = 0 /\ Stored = 0
  BY DEF Base, Stored
<1>2. TypeOK
  <2>1. /\ block \in Seq(Value) /\ Len(block) <= MaxPushes
        /\ values \in Seq(Value \cup {0}) /\ got \in Seq(Value \cup {0})
    OBVIOUS
  <2>2. idx_tail \in Capacity .. MaxPushes + Capacity /\ idx_head \in 0 .. idx_tail - 1
    OBVIOUS
  <2> QED
    BY <2>1, <2>2 DEF TypeOK
<1>3. SlotInv
  BY <1>1 DEF SlotInv
<1>4. WriterInv
  BY <1>1 DEF WriterInv
<1>5. ReaderInv
  <2>1. got = Words(0, Base)
    BY <1>1, WordsNone
  <2> QED
    BY <2>1 DEF ReaderInv
<1> QED
  BY <1>2, <1>3, <1>4, <1>5 DEF IndInv

\* Every step keeps the invariant.
LEMMA StepIndInv == IndInv /\ [Next]_vars => IndInv'
<1> SUFFICES ASSUME IndInv, [Next]_vars
             PROVE  IndInv'
  OBVIOUS
<1>1. CASE UNCHANGED vars
  <2>1. UNCHANGED <<Base, Stored>>
    BY <1>1 DEF vars, writerVars, readerVars, Base, Stored
  <2>2. TypeOK'
    BY <1>1 DEF vars, writerVars, readerVars, IndInv, TypeOK
  <2>3. SlotInv' /\ WriterInv' /\ ReaderInv'
    BY <1>1, <2>1
       DEF vars, writerVars, readerVars, IndInv, SlotInv, WriterInv, ReaderInv, Indexify
  <2> QED
    BY <2>2, <2>3 DEF IndInv
<1> QED
  BY <1>1, WriterStep, ReaderStep DEF Next

\* The invariant holds in every state of the queue.
THEOREM Inductive == Spec => []IndInv
BY InitIndInv, StepIndInv, PTL DEF Spec

\* Every behaviour of the queue keeps the types: among them the assertion
\* idx_head < idx_tail that every operation of queue.c makes, and that
\* forkscan_queue_pop_bulk never writes more than len words.
THEOREM TypeCorrect == Spec => []TypeOK
<1>1. IndInv => TypeOK
  BY DEF IndInv
<1> QED
  BY <1>1, Inductive, PTL

\* A reader that started now would be given the words after those given up,
\* up to the head.
ContentsInv ==
  /\ idx_head - Base \in 0 .. Capacity - 1
  /\ Contents = Words(Base, idx_head - Base)
  /\ got = Words(0, Base)

\* The invariant says so of every state, and so of the one after a step.
LEMMA ContentsWords ==
  ASSUME IndInv
  PROVE  ContentsInv
<1>1. PICK b \in Nat, n \in Nat : b = Base /\ n = idx_head - Base /\ n < Capacity
  <2>1. WriterInv
    BY DEF IndInv
  <2> QED
    BY <2>1, Indexes, CapacityType DEF WriterInv
<1>2. idx_head + Capacity - idx_tail = n
  BY <1>1, Indexes, CapacityType
<1>3. ASSUME NEW i \in 1 .. n
      PROVE  e[Indexify(idx_tail + i - 1)] = b + i
  <2>1. b + (i - 1) \in Nat /\ idx_tail + i - 1 = (b + (i - 1)) + Capacity
    BY <1>1, Indexes, CapacityType
  <2>2. Indexify(idx_tail + i - 1) = Indexify(b + (i - 1))
    BY <2>1, IndexifyTail
  <2>3. SlotInv
    BY DEF IndInv
  <2>4. b + (i - 1) \in Base .. Stored - 1
    BY <1>1, Indexes
  <2>5. e[Indexify(b + (i - 1))] = b + (i - 1) + 1
    BY <2>3, <2>4 DEF SlotInv
  <2> QED
    BY <2>2, <2>5
<1>4. Contents = Words(Base, n)
  BY <1>1, <1>2, <1>3 DEF Contents, Words
<1> QED
  BY <1>1, <1>4, CapacityType DEF IndInv, ReaderInv, ContentsInv

LEMMA ContentsWordsPrime == IndInv' => ContentsInv'
<1>1. IndInv => ContentsInv
  BY ContentsWords
<1> QED
  BY <1>1, PTL

\* A step that publishes n words adds them to the promised queue.
LEMMA PublishPuts ==
  ASSUME IndInv, IndInv', UNCHANGED <<idx_tail, got>>, NEW n \in Nat \ {0},
         idx_head' = idx_head + n, idx_head' <= MaxPushes
  PROVE  Promise!Put
<1> DEFINE Input == [i \in Value |-> i]
<1>1. PICK b \in Nat, k \in Nat : b = Base /\ k = idx_head - Base /\ b + k = idx_head
  BY Indexes, ContentsWords DEF ContentsInv
<1>2. Base' = b
  BY <1>1 DEF Base
<1>3. Contents = Words(b, k) /\ k + n <= Capacity - 1
  <2>1. idx_head' - b \in 0 .. Capacity - 1
    BY <1>2, ContentsWordsPrime DEF ContentsInv
  <2> QED
    BY <1>1, <2>1, ContentsWords, CapacityType, Indexes DEF ContentsInv
<1>4. Contents' = Words(b, k + n)
  <2>1. idx_head' - b = k + n
    BY <1>1, Indexes
  <2> QED
    BY <1>2, <2>1, ContentsWordsPrime DEF ContentsInv, Words
<1>5. Len(got) = b /\ Len(Contents) = k
  <2>1. got = Words(0, b)
    BY <1>1 DEF IndInv, ReaderInv
  <2> QED
    BY <1>3, <2>1, WordsSeq
<1>6. Len(Input) = MaxPushes /\ Input = Words(0, MaxPushes)
  BY CapacityType DEF Value, Words
<1>7. SubSeq(Input, b + k + 1, b + k + n) = Words(b + k, n)
  <2>1. PICK c \in 0 .. MaxPushes : c = b + k
    BY <1>1, CapacityType
  <2>2. PICK m \in c .. MaxPushes : m = b + k + n
    BY <1>1, <2>1, CapacityType
  <2>3. SubSeq(Words(0, MaxPushes), c + 1, m) = Words(0 + c, m - c)
    BY CapacityType, WordsSub
  <2>4. 0 + c = b + k /\ m - c = n
    BY <2>1, <2>2
  <2> QED
    BY <1>6, <2>1, <2>2, <2>3, <2>4
<1>8. Contents' = Contents \o SubSeq(Input, b + k + 1, b + k + n)
  <2>1. Words(b, k) \o Words(b + k, n) = Words(b, k + n)
    BY WordsConcat
  <2> QED
    BY <1>3, <1>4, <1>7, <2>1
<1>9. n \in 1 .. Len(Input) - (b + k)
  BY <1>1, <1>6, CapacityType
<1> HIDE DEF Input
<1>10. n \in 1 .. Len(Input) - (Len(got) + Len(Contents)) /\ Len(Contents) + n <= Capacity - 1
  BY <1>3, <1>5, <1>9
<1>11. Contents' = Contents \o SubSeq(Input, Len(got) + Len(Contents) + 1,
                                     Len(got) + Len(Contents) + n)
  BY <1>5, <1>8
<1> QED
  BY <1>10, <1>11 DEF Promise!Put, Input

\* A step that gives up n words hands them out from the promised queue.
LEMMA PublishTakes ==
  ASSUME IndInv, IndInv', UNCHANGED idx_head, NEW n \in Nat \ {0},
         idx_tail' = idx_tail + n, Base + n <= idx_head
  PROVE  Promise!Take
<1>1. PICK b \in Nat, k \in Nat : b = Base /\ k = idx_head - Base /\ n <= k
  BY Indexes, ContentsWords DEF ContentsInv
<1>2. Base' = b + n /\ idx_head' - Base' = k - n
  BY <1>1, Indexes, CapacityType DEF Base
<1>3. Contents = Words(b, k) /\ Contents' = Words(b + n, k - n) /\ Len(Contents) = k
  <2>1. Contents = Words(b, k)
    BY <1>1, ContentsWords DEF ContentsInv
  <2>2. Contents' = Words(b + n, k - n)
    BY <1>2, ContentsWordsPrime DEF ContentsInv, Words
  <2> QED
    BY <2>1, <2>2, WordsSeq
<1>4. got = Words(0, b) /\ got' = Words(0, b + n)
  BY <1>1, <1>2 DEF IndInv, ReaderInv
<1>5. got' = got \o SubSeq(Contents, 1, n)
  <2>1. 0 \in 0 .. k /\ n \in 0 .. k
    BY <1>1
  <2>2. SubSeq(Words(b, k), 0 + 1, n) = Words(b + 0, n - 0)
    BY <2>1, WordsSub
  <2>3. Words(0, b) \o Words(0 + b, n) = Words(0, b + n)
    BY WordsConcat
  <2>4. 0 + 1 = 1 /\ b + 0 = b /\ n - 0 = n /\ 0 + b = b
    OBVIOUS
  <2> QED
    BY <1>3, <1>4, <2>2, <2>3, <2>4
<1>6. Contents' = SubSeq(Contents, n + 1, Len(Contents))
  <2>1. n \in 0 .. k /\ k \in n .. k /\ k \in Nat
    BY <1>1
  <2>2. SubSeq(Words(b, k), n + 1, k) = Words(b + n, k - n)
    BY <2>1, WordsSub
  <2> QED
    BY <1>3, <2>2
<1>7. n \in 1 .. Len(Contents)
  BY <1>1, <1>3
<1> QED
  BY <1>5, <1>6, <1>7 DEF Promise!Take

\* The queue implements the first-in first-out queue of queue.h, for one writer
\* and one reader whose steps interleave in any way: a push takes effect when
\* idx_head is stored, a pop when idx_tail is, and no other step is visible.
THEOREM LinearizableHolds == Spec => Linearizable
<1>1. Init => Promise!Init
  <2> SUFFICES ASSUME Init
               PROVE  Contents = <<>> /\ got = <<>>
    BY DEF Promise!Init
  <2>1. Contents = Words(0, 0)
    <3>1. Base = 0 /\ idx_head - Base = 0
      BY CapacityType DEF Init, Base
    <3> QED
      BY <3>1, InitIndInv, ContentsWords DEF ContentsInv
  <2> QED
    BY <2>1, WordsNone DEF Init
<1>2. IndInv /\ IndInv' /\ [Next]_vars => [Promise!Next]_<<Contents, got>>
  <2> SUFFICES ASSUME IndInv, IndInv', [Next]_vars
               PROVE  Promise!Put \/ Promise!Take \/ UNCHANGED <<Contents, got>>
    BY DEF Promise!Next
  <2> USE DEF readerVars, writerVars
  <2>1. ASSUME UNCHANGED <<idx_head, idx_tail, got>>
        PROVE  UNCHANGED <<Contents, got>>
    <3>1. UNCHANGED Base
      BY <2>1 DEF Base
    <3> QED
      BY <2>1, <3>1, ContentsWords, ContentsWordsPrime DEF ContentsInv, Words
  <2>2. CASE Push \/ PushBulk \/ PushBulkFirst \/ PushBulkSecond
    BY <2>1, <2>2 DEF Push, PushBulk, PushBulkFirst, PushBulkSecond
  <2>3. CASE PushPublish
    <3>1. idx_head' = idx_head + 1 /\ idx_head' <= MaxPushes /\ UNCHANGED <<idx_tail, got>>
      BY <2>3, Indexes DEF PushPublish, IndInv, TypeOK, WriterInv
    <3>2. 1 \in Nat \ {0}
      OBVIOUS
    <3> QED
      BY <3>1, <3>2, PublishPuts
  <2>4. CASE PushBulkPublish
    <3>1. PICK n \in Nat \ {0} : n = w_head - idx_head /\ w_head = idx_head + n
      BY <2>4, Indexes DEF PushBulkPublish, IndInv, WriterInv
    <3>2. idx_head' = idx_head + n /\ idx_head' <= MaxPushes /\ UNCHANGED <<idx_tail, got>>
      BY <2>4, <3>1, Indexes DEF PushBulkPublish, IndInv, WriterInv
    <3> QED
      BY <3>2, PublishPuts
  <2>5. CASE Pop \/ PopBulk \/ DrainToEnd \/ Drain
    BY <2>1, <2>5 DEF Pop, PopBulk, DrainToEnd, Drain
  <2>6. CASE PopPublish
    <3>1. idx_tail' = idx_tail + 1 /\ Base + 1 <= idx_head /\ UNCHANGED idx_head
      BY <2>6, Indexes DEF PopPublish, IndInv, ReaderInv
    <3>2. 1 \in Nat \ {0}
      OBVIOUS
    <3> QED
      BY <3>1, <3>2, PublishTakes
  <2>7. CASE PopBulkPublish
    <3>1. /\ idx_tail' = r_head + Capacity /\ Base <= r_head /\ r_head <= idx_head
          /\ UNCHANGED idx_head /\ got' = got \o values /\ values = Words(Base, r_head - Base)
      BY <2>7 DEF PopBulkPublish, IndInv, ReaderInv
    <3>2. CASE Base = r_head
      <4>1. UNCHANGED <<idx_head, idx_tail>>
        BY <3>1, <3>2, Indexes
      <4>2. UNCHANGED Base
        BY <4>1 DEF Base
      <4>3. UNCHANGED got
        BY <4>2 DEF IndInv, ReaderInv
      <4> QED
        BY <2>1, <4>1, <4>3
    <3>3. CASE Base # r_head
      <4>1. PICK n \in Nat \ {0} : n = r_head - Base /\ r_head = Base + n
        BY <3>1, <3>3, Indexes
      <4>2. idx_tail' = idx_tail + n /\ Base + n <= idx_head
        BY <3>1, <4>1, Indexes, CapacityType
      <4> QED
        BY <3>1, <4>2, PublishTakes
    <3> QED
      BY <3>2, <3>3
  <2>8. CASE UNCHANGED vars
    BY <2>1, <2>8 DEF vars
  <2> QED
    BY <2>2, <2>3, <2>4, <2>5, <2>6, <2>7, <2>8 DEF Next, Writer, Reader
<1> QED
  BY <1>1, <1>2, Inductive, PTL DEF Spec, Linearizable, Promise!Spec

=============================================================================
