--------------------------- MODULE MCGraphLayout ---------------------------
(* Graphs of four nodes for checking GraphLayout. *)
EXTENDS GraphLayout

(* Lists of at most two neighbours of n, the greater id first. *)
ListsOf(n) ==
  LET others == Node \ {n}
  IN  {<< >>} \cup {<<a>> : a \in others}
      \cup {s \in others \X others : s[1] > s[2]}

(* A second layer with a neighbour list cut from each end, or no layers. *)
TwoLayers == << [n \in {0, 2, 3} |-> IF n = 2 THEN <<3, 0>> ELSE <<2>>],
                [n \in {2, 3} |-> IF n = 2 THEN <<3>> ELSE << >>] >>

SmallGraphs ==
  {[conn0 |-> [n \in Node |-> <<a, b, c, d>>[n + 1]], layers |-> layers,
    entry |-> 2, fraud |-> {0, 3}] :
     a \in ListsOf(0), b \in ListsOf(1), c \in ListsOf(2), d \in ListsOf(3),
     layers \in {<< >>, TwoLayers}}
=============================================================================
