------------------------------- MODULE MCScan -------------------------------
(* Small instances of Scan for TLC. *)
EXTENDS Scan

\* At most one pointer per range and per node: chains, cycles, shared nodes
\* and nodes nobody refers to.
AtMostOne == {S \in SUBSET Node : Cardinality(S) <= 1}
Images == [roots : [0 .. NRanges - 1 -> AtMostOne], words : [Node -> AtMostOne]]

\* Images of three nodes: two roots that refer to each other, to themselves or
\* to a node that is none, in one direction or the other, and in one range,
\* in two, or twice.
RootCases == {<<{1}, {2}>>, <<{1, 2}, {1}>>, <<{}, {2}>>}
WordCases == {<<{2}, {3}, {}>>, <<{3}, {1}, {3}>>, <<{2}, {1}, {1}>>, <<{1, 3}, {3}, {2}>>}
Cases == {[roots |-> [r \in 0 .. NRanges - 1 |-> rs[r + 1]], words |-> [n \in Node |-> ws[n]]] :
            rs \in RootCases, ws \in WordCases}
=============================================================================
