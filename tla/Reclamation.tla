---------------------------- MODULE Reclamation -----------------------------
(***************************************************************************)
(* What the library promises (src/README.md, Semantics): a retired node is *)
(* freed once, and only when no thread has or can acquire a reference to   *)
(* it.  How the library finds out is no part of this.                      *)
(***************************************************************************)

CONSTANT Node

VARIABLES status,  \* status[n]: "free", "live" or "retired"
          refs     \* the nodes some thread has, or can acquire, a reference to

Init == status = [n \in Node |-> "free"] /\ refs = {}

Malloc(n) ==
  /\ status[n] = "free"
  /\ status' = [status EXCEPT ![n] = "live"]
  /\ refs' = refs \cup {n}

Retire(n) ==
  /\ status[n] = "live" /\ n \in refs
  /\ status' = [status EXCEPT ![n] = "retired"]
  /\ UNCHANGED refs

\* The last reference is given up.
Drop(n) ==
  /\ status[n] = "retired" /\ n \in refs
  /\ refs' = refs \ {n}
  /\ UNCHANGED status

Free(n) ==
  /\ status[n] = "retired" /\ n \notin refs
  /\ status' = [status EXCEPT ![n] = "free"]
  /\ UNCHANGED refs

Next == \E n \in Node : Malloc(n) \/ Retire(n) \/ Drop(n) \/ Free(n)

Spec == Init /\ [][Next]_<<status, refs>>
=============================================================================
