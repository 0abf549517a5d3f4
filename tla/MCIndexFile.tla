---------------------------- MODULE MCIndexFile ----------------------------
(* Sizes of small graphs for checking IndexFile. *)
EXTENDS IndexFile

Sizes(n, maxLayer, upperNodes) ==
  [n |-> n, m |-> 1, m0 |-> 1, maxLayer |-> maxLayer, upperNodes |-> upperNodes]

(* A graph of one layer, and a larger one with nodes on upper layers. *)
SmallGraphs == {Sizes(1, 0, 0), Sizes(3, 2, 2)}
=============================================================================
