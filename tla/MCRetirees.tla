----------------------------- MODULE MCRetirees -----------------------------
(* Small instances of Retirees for TLC. *)
EXTENDS Retirees

\* Which thread or buffer plays which part is immaterial to the safety
\* properties.
Symmetry == Permutations(Thread) \cup Permutations(Buffer)

\* Once a thread has overrun its buffer the safety properties claim nothing
\* more, so TLC need not look further.
BeforeOverrun == ~Overrun
=============================================================================
