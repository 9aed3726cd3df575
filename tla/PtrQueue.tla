------------------------------ MODULE PtrQueue ------------------------------
(***************************************************************************)
(* The circular buffer in which a thread keeps the pointers it has retired *)
(* (queue.c).  The thread that owns the queue pushes; the thread that      *)
(* reclaims, usually another one, drains it with forkscan_queue_pop_bulk   *)
(* while the owner goes on pushing.  There is no lock: the writer owns     *)
(* idx_head, the reader owns idx_tail, and each publishes its index last.  *)
(*                                                                         *)
(* A store to an index, a memcpy and a store to one slot are one step      *)
(* each.  The indexes are absolute and do not wrap: they are 64 bits wide. *)
(***************************************************************************)
EXTENDS Integers, Sequences

CONSTANTS Capacity,   \* q->capacity
          MaxPushes,  \* bound: words pushed in a run
          MaxLen      \* bound: the longest block pushed or popped at once

ASSUME QueueAssumption ==
  /\ Capacity \in Nat \ {0}
  /\ \E k \in 0 .. 62 : Capacity = 2^k
  /\ MaxPushes \in Nat
  /\ MaxLen \in Nat

VARIABLES
  e,                   \* q->e
  idx_head, idx_tail,  \* q->idx_head and q->idx_tail
  wpc,                 \* where the writer is: in no operation, or before ...
  block,               \* the writer's argument: value, or values and len
  w_head,              \* the local idx_head of forkscan_queue_push_bulk
  rpc,                 \* where the reader is
  len, r_head,         \* forkscan_queue_pop_bulk: len, and the local idx_head
  values,              \* its output buffer
  pushed, got          \* history: words pushed so far, words handed out

writerVars == <<wpc, block, w_head, pushed>>
readerVars == <<rpc, len, r_head, values, got>>
vars == <<e, idx_head, idx_tail, writerVars, readerVars>>

MinOf(a, b) == IF a > b THEN b ELSE a

Slots == 0 .. Capacity - 1

\* The words pushed, all different: 0 is never pushed (asserted at the end
\* of forkscan_queue_pop_bulk) and stands for a slot never written.
Value == 1 .. MaxPushes

\* INDEXIFY, for a capacity that is a power of two.
Indexify(abs_idx) == abs_idx % Capacity

\* forkscan_queue_is_empty, forkscan_queue_is_full, forkscan_queue_available.
IsEmpty == idx_head + Capacity = idx_tail

\* Seeded fault: the last slot is used too, so a full queue looks empty.
FullOneLate == idx_head >= idx_tail

IsFull == idx_head + 1 >= idx_tail

Available == idx_tail - idx_head - 1

\* memcpy(&q->e[at], vs, ...): the array with the words of vs from slot at on.
CopyIn(at, vs) ==
  [i \in Slots |-> IF i - at \in 0 .. Len(vs) - 1 THEN vs[i - at + 1] ELSE e[i]]

\* memcpy(&values[...], &q->e[at], n words).
CopyOut(at, n) == [i \in 1 .. n |-> e[at + i - 1]]

TypeOK ==
  /\ e \in [Slots -> Value \cup {0}]
  /\ idx_tail \in Capacity .. MaxPushes + Capacity
  /\ idx_head \in 0 .. idx_tail - 1                    \* asserted throughout
  /\ wpc \in {"none", "publish", "copy", "copy_again", "publish_bulk"}
  /\ block \in Seq(Value) /\ Len(block) <= MaxPushes
  /\ w_head \in 0 .. MaxPushes
  /\ rpc \in {"none", "pop", "drain_to_end", "drain", "publish"}
  /\ len \in 0 .. MaxLen
  /\ r_head \in 0 .. MaxPushes
  /\ values \in Seq(Value \cup {0})
  /\ rpc \in {"drain", "publish"} => Len(values) <= len
  /\ pushed \in 0 .. MaxPushes
  /\ got \in Seq(Value \cup {0})

\* forkscan_queue_init, with a buffer of zeroes.
Init ==
  /\ e = [i \in Slots |-> 0]
  /\ idx_head = 0
  /\ idx_tail = Capacity
  /\ wpc = "none" /\ block = <<>> /\ w_head = 0
  /\ rpc = "none" /\ len = 0 /\ r_head = 0 /\ values = <<>>
  /\ pushed = 0 /\ got = <<>>

(***************************************************************************)
(* The writer.  The caller makes sure that there is room.                  *)
(***************************************************************************)

\* forkscan_queue_push: store the word ...
Push ==
  /\ wpc = "none" /\ ~IsFull /\ pushed < MaxPushes
  /\ pushed' = pushed + 1
  /\ e' = CopyIn(Indexify(idx_head), <<pushed + 1>>)
  /\ wpc' = "publish"
  /\ UNCHANGED <<idx_head, idx_tail, block, w_head, readerVars>>

\* ... and count it.
PushPublish ==
  /\ wpc = "publish"
  /\ idx_head' = idx_head + 1
  /\ wpc' = "none"
  /\ UNCHANGED <<e, idx_tail, block, w_head, pushed, readerVars>>

\* forkscan_queue_push_bulk: read the head.
PushBulk ==
  /\ wpc = "none"
  /\ \E n \in 1 .. MinOf(MaxLen, MaxPushes - pushed) :
       /\ n <= Available
       /\ block' = [i \in 1 .. n |-> pushed + i]
       /\ pushed' = pushed + n
  /\ w_head' = idx_head
  /\ wpc' = "copy"
  /\ UNCHANGED <<e, idx_head, idx_tail, readerVars>>

\* The first copy: up to the end of the circular buffer.
PushBulkFirst ==
  /\ wpc = "copy"
  /\ LET head       == Indexify(w_head)
         first_copy == MinOf(Len(block), Capacity - head)
     IN  /\ e' = CopyIn(head, SubSeq(block, 1, first_copy))
         /\ w_head' = w_head + first_copy
         /\ block' = SubSeq(block, first_copy + 1, Len(block))
  /\ wpc' = IF block' # <<>> THEN "copy_again" ELSE "publish_bulk"
  /\ UNCHANGED <<idx_head, idx_tail, pushed, readerVars>>

\* The second copy: the rest, from the beginning.
PushBulkSecond ==
  /\ wpc = "copy_again"
  /\ e' = CopyIn(Indexify(w_head), block)
  /\ w_head' = w_head + Len(block)
  /\ block' = <<>>
  /\ wpc' = "publish_bulk"
  /\ UNCHANGED <<idx_head, idx_tail, pushed, readerVars>>

PushBulkPublish ==
  /\ wpc = "publish_bulk"
  /\ idx_head' = w_head
  /\ wpc' = "none"
  /\ UNCHANGED <<e, idx_tail, block, w_head, pushed, readerVars>>

(***************************************************************************)
(* The reader.                                                             *)
(***************************************************************************)

\* forkscan_queue_pop, of a queue that is not empty: read the word ...
Pop ==
  /\ rpc = "none" /\ ~IsEmpty
  /\ values' = CopyOut(Indexify(idx_tail), 1)
  /\ rpc' = "pop"
  /\ UNCHANGED <<e, idx_head, idx_tail, writerVars, len, r_head, got>>

\* ... and give up its slot.
PopPublish ==
  /\ rpc = "pop"
  /\ idx_tail' = idx_tail + 1
  /\ got' = got \o values
  /\ rpc' = "none"
  /\ UNCHANGED <<e, idx_head, writerVars, len, r_head, values>>

\* The index at which a bulk pop of at most l of the size words in the queue
\* stops: idx_head is "faked" when the output buffer is shorter.
FakedHead(size, l) == IF size > l THEN idx_head - (size - l) ELSE idx_head

\* forkscan_queue_pop_bulk: cache the head, which may be changing.  (With
\* nothing in the queue the call returns 0 and changes nothing.)
PopBulk ==
  /\ rpc = "none"
  /\ LET size == idx_head - (idx_tail - Capacity)
     IN  /\ size # 0
         /\ \E l \in 0 .. MaxLen :
              /\ len' = l
              /\ r_head' = FakedHead(size, l)
  /\ values' = <<>>
  /\ rpc' = IF Indexify(r_head') < Indexify(idx_tail)
            THEN "drain_to_end" ELSE "drain"
  /\ UNCHANGED <<e, idx_head, idx_tail, writerVars, got>>

\* The words from the tail to the end of the circular buffer.
DrainToEnd ==
  /\ rpc = "drain_to_end"
  /\ LET start == Indexify(idx_tail)
     IN  values' = CopyOut(start, Capacity - start)
  /\ rpc' = "drain"
  /\ UNCHANGED <<e, idx_head, idx_tail, writerVars, len, r_head, got>>

\* The words up to the head, from where the first copy left off.
Drain ==
  /\ rpc = "drain"
  /\ LET start == IF values # <<>> THEN 0 ELSE Indexify(idx_tail)
     IN  values' = values \o CopyOut(start, Indexify(r_head) - start)
  /\ rpc' = "publish"
  /\ UNCHANGED <<e, idx_head, idx_tail, writerVars, len, r_head, got>>

\* Seeded fault: the tail follows the head as it is now, not as it was read.
PopAllPublish ==
  /\ rpc = "publish"
  /\ idx_tail' = idx_head + Capacity
  /\ got' = got \o values
  /\ rpc' = "none"
  /\ UNCHANGED <<e, idx_head, writerVars, len, r_head, values>>

PopBulkPublish ==
  /\ rpc = "publish"
  /\ idx_tail' = r_head + Capacity
  /\ got' = got \o values
  /\ rpc' = "none"
  /\ UNCHANGED <<e, idx_head, writerVars, len, r_head, values>>

Writer ==
  \/ Push
  \/ PushPublish
  \/ PushBulk
  \/ PushBulkFirst
  \/ PushBulkSecond
  \/ PushBulkPublish

Reader ==
  \/ Pop
  \/ PopPublish
  \/ PopBulk
  \/ DrainToEnd
  \/ Drain
  \/ PopBulkPublish

Next == Writer \/ Reader

Spec == Init /\ [][Next]_vars

(***************************************************************************)
(* What the queue promises.                                                *)
(***************************************************************************)

\* The words a reader that started now would be given.
Contents ==
  [i \in 1 .. idx_head + Capacity - idx_tail |-> e[Indexify(idx_tail + i - 1)]]

Promise == INSTANCE Fifo WITH
             q <- Contents, Bound <- Capacity - 1, Input <- [i \in Value |-> i]

\* queue.h: queues are "thread-safe, linearizable data structures, assuming
\* single-reader, single-writer usage": whatever the writer does while the
\* reader copies, words come out once, whole and in the order they went in, and
\* the queue never holds more than one word less than its capacity.
Linearizable == Promise!Spec
=============================================================================
