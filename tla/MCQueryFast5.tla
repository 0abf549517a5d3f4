---------------------------- MODULE MCQueryFast5 ----------------------------
(***************************************************************************)
(* Graphs of five nodes for checking QueryFast5: what the builder can      *)
(* leave behind, from fully linked to graphs whose pruned edges strand     *)
(* nodes.  Edges(<<a, b, c, d, e>>) lists the neighbours of 0, 1, 2, 3, 4. *)
(***************************************************************************)
EXTENDS RecallCheck

Edges(lists) == [n \in Node |-> lists[n + 1]]
NoLayers == <<>>

Ring     == Edges(<< <<1, 4>>, <<2, 0>>, <<3, 1>>, <<4, 2>>, <<0, 3>> >>)
Chain    == Edges(<< <<1>>, <<0, 2>>, <<3, 1>>, <<4, 2>>, <<3>> >>)
Star     == Edges(<< <<2>>, <<2>>, <<0, 1, 3, 4>>, <<2, 4>>, <<3, 2>> >>)
Islands  == Edges(<< <<1>>, <<0>>, <<3, 4>>, <<2, 4>>, <<3>> >>)
OneWay   == Edges(<< <<1, 2>>, <<3>>, <<3, 4>>, <<1>>, <<>> >>)

UpperTriangle == Edges(<< <<1, 3>>, <<3, 0>>, <<>>, <<0, 1>>, <<>> >>)
UpperPath     == Edges(<< <<>>, <<4>>, <<>>, <<4>>, <<1, 3>> >>)
UpperPair     == Edges(<< <<>>, <<3>>, <<>>, <<1>>, <<>> >>)

Graph(entry, nbr0, upper) == [entry |-> entry, nbr0 |-> nbr0, upper |-> upper]

MCGraphs ==
  { Graph(0, Ring, NoLayers),
    Graph(1, Chain, <<UpperTriangle, UpperPair>>),
    Graph(4, Star, <<UpperPath>>),
    Graph(3, Islands, <<UpperTriangle>>),
    Graph(0, OneWay, NoLayers),
    Graph(4, OneWay, NoLayers) }
=============================================================================
