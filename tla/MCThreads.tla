---- MODULE MCThreads ----
\* Model values and bounds for the thread metadata.
EXTENDS Threads, TLC

\* Threads are interchangeable; the blocks are not, since pools are stacks.
ThreadSymmetry == Permutations(Thread)
====
