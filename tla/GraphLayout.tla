---------------------------- MODULE GraphLayout ----------------------------
(***************************************************************************)
(* From the builder's structures to the arrays that are saved: Finalize    *)
(* (internal/hnsw/hnsw.go) packs the map of every upper layer into sorted  *)
(* rows found by binary search, and Reorder (internal/hnsw/reorder.go)     *)
(* gives the nodes new ids in the order of a breadth-first walk from the   *)
(* entry point, moves every array accordingly and sorts the rows again.    *)
(*                                                                         *)
(* A graph is a record of its arrays; array indices count from 0.  A list  *)
(* of neighbours has the length its counter gives it: the -1 slots behind  *)
(* are left out.                                                           *)
(***************************************************************************)
EXTENDS Integers, Sequences, FiniteSets

CONSTANTS
  N,      \* number of nodes
  M,      \* most neighbours on an upper layer
  Built,  \* what the builder may hand over: conn0, layers, entry, fraud; a list
          \* of an upper layer has at most M nodes (LinksAreLocal of HnswBuilder)
  None

Node == 0 .. N - 1

ASSUME LayoutAssumption ==
  /\ N \in Nat \ {0} /\ M \in Nat /\ None \notin Node
  /\ \A b \in Built :
       /\ b.conn0 \in [Node -> Seq(Node)]
       /\ b.entry \in Node /\ b.fraud \subseteq Node
       /\ Len(b.layers) \in Nat
       /\ \A L \in 1 .. Len(b.layers) :
            \E S \in SUBSET Node :
              /\ b.layers[L] \in [S -> Seq(S)]
              /\ \A n \in S : Len(b.layers[L][n]) <= M

VARIABLES
  built,     \* the builder's structures
  g,         \* the arrays of the Graph
  stage,     \* what runs next
  queue,     \* queue of the walk
  head,      \* how many of it have been visited
  seen,      \* how many neighbours of the current node have been seen
  oldToNew,  \* new ids given so far
  next       \* the id to give next

vars == <<built, g, stage, queue, head, seen, oldToNew, next>>

Upto(n) == 0 .. n - 1
Ascending(S) ==
  CHOOSE s \in [Upto(Cardinality(S)) -> S] : \A i, j \in DOMAIN s : i < j => s[i] < s[j]
MaxLayer == Len(built.layers)

-----------------------------------------------------------------------------
(* upperNodesOf, and the binary search of upperLocalIndex. *)
FirstNotBelow(nodes, from, to, target) ==
  LET search[span \in (from .. to) \X (from .. to)] ==
        LET lo == span[1]
            hi == span[2]
            mid == (lo + hi) \div 2
        IN  IF lo >= hi THEN lo
            ELSE IF nodes[mid] < target THEN search[<<mid + 1, hi>>] ELSE search[<<lo, mid>>]
  IN  search[<<from, to>>]

(* upperNeighbors: None for a node the search does not find on the layer. *)
UpperNeighbors(gr, n, L) ==
  LET slot == FirstNotBelow(gr.upperNodes, gr.upperOff[L - 1], gr.upperOff[L], n)
  IN  IF slot < gr.upperOff[L] /\ gr.upperNodes[slot] = n
      THEN gr.upperConn[slot] ELSE None

-----------------------------------------------------------------------------
(***************************************************************************)
(* Finalize: the rows of layer L are those from upperOff[L-1] on, in the   *)
(* order of their nodes.                                                   *)
(***************************************************************************)
OffsetsFromOne(layers) ==  \* mutant: the first layer is not counted
  LET off[L \in 0 .. Len(layers)] ==
        IF L <= 1 THEN 0 ELSE off[L - 1] + Cardinality(DOMAIN layers[L])
  IN  off
OffsetsOf(layers) ==
  LET off[L \in 0 .. Len(layers)] ==
        IF L = 0 THEN 0 ELSE off[L - 1] + Cardinality(DOMAIN layers[L])
  IN  off
AtMostM(list) == SubSeq(list, 1, IF Len(list) > M THEN M ELSE Len(list))

Finalize ==
  /\ stage = "finalize"
  /\ LET layers == built.layers
         off == OffsetsOf(layers)
         LayerOf(slot) == CHOOSE L \in 1 .. MaxLayer : off[L - 1] <= slot /\ slot < off[L]
         NodeAt(slot) == Ascending(DOMAIN layers[LayerOf(slot)])[slot - off[LayerOf(slot) - 1]]
     IN  g' = [g EXCEPT !.upperOff = off,
                        !.upperNodes = [s \in Upto(off[MaxLayer]) |-> NodeAt(s)],
                        !.upperConn = [s \in Upto(off[MaxLayer]) |->
                                         AtMostM(layers[LayerOf(s)][NodeAt(s)])]]
  /\ stage' = "start"
  /\ UNCHANGED <<built, queue, head, seen, oldToNew, next>>

(* Reorder: the entry point is new node 0 and the first to be visited. *)
StartFromZero ==  \* mutant: the number of the entry point is given again
  /\ stage = "start"
  /\ queue' = <<g.entry>> /\ head' = 0 /\ seen' = 0
  /\ oldToNew' = [oldToNew EXCEPT ![g.entry] = 0] /\ next' = 0
  /\ stage' = "walk"
  /\ UNCHANGED <<built, g>>

StartWalk ==
  /\ stage = "start"
  /\ queue' = <<g.entry>> /\ head' = 0 /\ seen' = 0
  /\ oldToNew' = [oldToNew EXCEPT ![g.entry] = 0] /\ next' = 1
  /\ stage' = "walk"
  /\ UNCHANGED <<built, g>>

(* Visiting a node numbers those of its neighbours that have no number, in *)
(* the order of its list.                                                  *)
Neighbors == g.conn0[queue[head + 1]]
NotVisited(n) ==  \* mutant: a node that waits in the queue is numbered again
  \A k \in DOMAIN queue : k <= head + 1 => queue[k] # n
Unnumbered(n) == oldToNew[n] = None
Number(n) == oldToNew' = [oldToNew EXCEPT ![n] = next] /\ next' = next + 1

VisitDeep ==  \* mutant: the walk follows the first new neighbour at once
  /\ stage = "walk" /\ head < Len(queue) /\ seen < Len(Neighbors)
  /\ LET n == Neighbors[seen + 1]
     IN  IF Unnumbered(n)
         THEN Number(n) /\ queue' = Append(queue, n) /\ head' = Len(queue) /\ seen' = 0
         ELSE UNCHANGED <<oldToNew, next, queue, head>> /\ seen' = seen + 1
  /\ UNCHANGED <<built, g, stage>>

VisitNeighbor ==
  /\ stage = "walk" /\ head < Len(queue) /\ seen < Len(Neighbors)
  /\ LET n == Neighbors[seen + 1]
     IN  IF Unnumbered(n) THEN Number(n) /\ queue' = Append(queue, n)
         ELSE UNCHANGED <<oldToNew, next, queue>>
  /\ seen' = seen + 1
  /\ UNCHANGED <<built, g, stage, head>>

NextNode ==
  /\ stage = "walk" /\ head < Len(queue) /\ seen = Len(Neighbors)
  /\ head' = head + 1 /\ seen' = 0
  /\ UNCHANGED <<built, g, stage, queue, oldToNew, next>>

(* Disconnected nodes come last, in the order of their old ids. *)
AppendRest ==
  /\ stage = "walk" /\ head = Len(queue)
  /\ \E n \in Node :
       /\ Unnumbered(n) /\ \A m \in 0 .. n - 1 : ~ Unnumbered(m)
       /\ Number(n)
  /\ UNCHANGED <<built, g, stage, queue, head, seen>>

(***************************************************************************)
(* The arrays in the new order, ids inside them replaced, and the rows of  *)
(* each upper layer sorted by the new ids (sortUpperLayer).                *)
(***************************************************************************)
Old(n) == CHOOSE o \in Node : oldToNew[o] = n
Renamed(list) == [k \in DOMAIN list |-> oldToNew[list[k]]]
SameSlot(slot) == slot  \* mutant: the rows are not sorted again
SortedSlot(slot) ==
  LET L == CHOOSE l \in 1 .. MaxLayer : g.upperOff[l - 1] <= slot /\ slot < g.upperOff[l]
      rows == g.upperOff[L - 1] .. g.upperOff[L] - 1
      news == Ascending({oldToNew[g.upperNodes[s]] : s \in rows})
  IN  CHOOSE s \in rows : oldToNew[g.upperNodes[s]] = news[slot - g.upperOff[L - 1]]

Permute ==
  /\ stage = "walk" /\ head = Len(queue) /\ \A n \in Node : ~ Unnumbered(n)
  /\ g' = [vectors |-> [n \in Node |-> g.vectors[Old(n)]],
           conn0 |-> [n \in Node |-> Renamed(g.conn0[Old(n)])],
           fraud |-> {oldToNew[o] : o \in g.fraud},
           upperOff |-> g.upperOff,
           upperNodes |-> [s \in DOMAIN g.upperNodes |-> oldToNew[g.upperNodes[SortedSlot(s)]]],
           upperConn |-> [s \in DOMAIN g.upperConn |-> Renamed(g.upperConn[SortedSlot(s)])],
           entry |-> oldToNew[g.entry]]
  /\ stage' = "done"
  /\ UNCHANGED <<built, queue, head, seen, oldToNew, next>>

(* The vector of a node is told apart by the id it was inserted with. *)
Init ==
  /\ built \in Built
  /\ g = [vectors |-> [n \in Node |-> n], conn0 |-> built.conn0, fraud |-> built.fraud,
          upperOff |-> None, upperNodes |-> None, upperConn |-> None, entry |-> built.entry]
  /\ stage = "finalize" /\ queue = << >> /\ head = 0 /\ seen = 0 /\ next = 0
  /\ oldToNew = [n \in Node |-> None]

Layout == Finalize \/ StartWalk \/ VisitNeighbor \/ NextNode \/ AppendRest \/ Permute
Done == stage = "done" /\ UNCHANGED vars
Next == Layout \/ Done

Spec == Init /\ [][Next]_vars

-----------------------------------------------------------------------------
TypeOK ==
  /\ stage \in {"finalize", "start", "walk", "done"}
  /\ queue \in Seq(Node) /\ head \in 0 .. Len(queue) /\ seen \in Nat
  /\ oldToNew \in [Node -> Node \cup {None}] /\ next \in 0 .. N
  /\ g.entry \in Node /\ g.vectors \in [Node -> Node] /\ g.conn0 \in [Node -> Seq(Node)]

(***************************************************************************)
(* Finalize loses nothing: a lookup in the packed rows of a layer finds    *)
(* what the builder's map has for the node, and nothing for a node that is *)
(* not in it.                                                              *)
(***************************************************************************)
InMap(n, L) == IF n \in DOMAIN built.layers[L] THEN built.layers[L][n] ELSE None
FinalizeKeepsLayers ==
  stage \in {"start", "walk"} =>
    \A L \in 1 .. MaxLayer : \A n \in Node : UpperNeighbors(g, n, L) = InMap(n, L)

(***************************************************************************)
(* The numbering never gives an id twice or leaves one out: those below    *)
(* next have one node each and the others none, the queue is in the order  *)
(* of its nodes' ids, and in the end every id is given.                    *)
(***************************************************************************)
NumbersAreDense ==
  /\ \A k \in Node : Cardinality({n \in Node : oldToNew[n] = k}) = IF k < next THEN 1 ELSE 0
  /\ \A j \in DOMAIN queue : oldToNew[queue[j]] = j - 1
  /\ stage = "done" => next = N

(***************************************************************************)
(* Breadth first: a node nearer to the entry point, in links of layer 0,   *)
(* has a smaller id than a node farther away or out of reach.  There is    *)
(* one assignment of distances to the nodes, N standing for out of reach:  *)
(* a link from a node in reach ends at most one farther, and at any node   *)
(* in reach but the entry point a link ends that comes from one nearer.    *)
(***************************************************************************)
LinksTo(m, n) == \E j \in DOMAIN built.conn0[m] : built.conn0[m][j] = n
Distances ==
  {d \in [Node -> 0 .. N] :
     /\ d[built.entry] = 0
     /\ \A m, n \in Node : LinksTo(m, n) /\ d[m] < N => d[n] < N /\ d[n] <= d[m] + 1
     /\ \A n \in Node \ {built.entry} :
          d[n] < N => \E m \in Node : LinksTo(m, n) /\ d[n] = d[m] + 1}
NearerFirst ==
  stage = "done" =>
    \A d \in Distances : \A m, n \in Node : d[m] < d[n] => oldToNew[m] < oldToNew[n]

(***************************************************************************)
(* Reordering is a renaming: a search finds, under its new id, the vector, *)
(* the label, the neighbours in the same order on every layer, and the     *)
(* entry point that it would have found before.                            *)
(***************************************************************************)
NodesRenamed ==
  /\ g.entry = oldToNew[built.entry]
  /\ \A n \in Node :
       /\ g.vectors[oldToNew[n]] = n
       /\ g.conn0[oldToNew[n]] = Renamed(built.conn0[n])
       /\ oldToNew[n] \in g.fraud <=> n \in built.fraud
LayersRenamed ==
  \A n \in Node, L \in 1 .. MaxLayer :
    UpperNeighbors(g, oldToNew[n], L) =
      IF n \in DOMAIN built.layers[L] THEN Renamed(built.layers[L][n]) ELSE None
SameGraphRenamed == stage = "done" => NodesRenamed /\ LayersRenamed
=============================================================================
