-------------------------------- MODULE Fifo --------------------------------
(***************************************************************************)
(* What queue.h promises of a queue_t used by one writer and one reader: a *)
(* first-in first-out queue of bounded length whose operations take effect *)
(* at one instant.                                                         *)
(***************************************************************************)
EXTENDS Naturals, Sequences

CONSTANTS Input,  \* the words the writer pushes, in its order
          Bound   \* the number of words the queue can hold

VARIABLES q,      \* the words in the queue, oldest first
          got     \* the words the reader has been given, oldest first

Init == q = <<>> /\ got = <<>>

\* The writer adds its next words, for which there must be room.
Put ==
  LET taken == Len(got) + Len(q)
  IN  \E n \in 1 .. Len(Input) - taken :
        /\ Len(q) + n <= Bound
        /\ q' = q \o SubSeq(Input, taken + 1, taken + n)
        /\ UNCHANGED got

\* The reader takes some of the oldest words, in their order.
Take ==
  \E n \in 1 .. Len(q) :
    /\ got' = got \o SubSeq(q, 1, n)
    /\ q' = SubSeq(q, n + 1, Len(q))

Next == Put \/ Take

Spec == Init /\ [][Next]_<<q, got>>
=============================================================================
