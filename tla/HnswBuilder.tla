---------------------------- MODULE HnswBuilder ----------------------------
(***************************************************************************)
(* The offline construction of the HNSW graph: Builder.Insert of           *)
(* internal/hnsw/hnsw.go and everything it calls.  A node gets a random    *)
(* level, descends greedily to it, and on every layer from there down      *)
(* searches for near nodes, links itself to a selection of them, and is    *)
(* linked back by them, each pruning its own list to the layer's capacity. *)
(*                                                                         *)
(* A neighbour list is the set of its entries: the order only decides      *)
(* which of equally near nodes a step takes, and that is left open, as is  *)
(* the order sort.Slice gives equal distances.  Vectors are points; all    *)
(* the code uses of them is Dist2.                                         *)
(***************************************************************************)
EXTENDS Integers, Sequences, FiniteSets

CONSTANTS
  N,          \* capacity of the builder (Graph.N)
  M, M0,      \* most neighbours on an upper layer, and on layer 0
  EfC,        \* width of the insert searches (efConstruction)
  MarkMod,    \* 2^32 in the code: values of a mark (visited is []uint32)
  RawLevels,  \* values of -ln(u) * mL, rounded towards zero
  Point,      \* stored vectors
  Dist2,      \* squared distance of two of them
  Inputs,     \* the inputs considered: the vector of every node
  Frauds      \* the nodes whose record is labelled a fraud

Node == 0 .. N - 1

ASSUME BuilderAssumption ==
  /\ N \in Nat \ {0} /\ EfC \in Nat \ {0}
  /\ M \in 1 .. 255 /\ M0 \in 1 .. 255  \* the neighbour counts are uint8
  /\ MarkMod \in Nat /\ MarkMod >= 2
  /\ RawLevels \subseteq Nat
  /\ Dist2 \in [Point \X Point -> Nat]
  /\ \A a, b \in Point : Dist2[<<a, b>>] = Dist2[<<b, a>>]
  /\ Inputs \subseteq [Node -> Point] /\ Frauds \subseteq Node

VARIABLES
  vec,       \* G.Vectors
  fraud,     \* G.Labels: the nodes whose bit is set
  levels,    \* levels
  inserted,  \* inserted: the node being inserted has this id
  conn0,     \* G.Conn0 and G.Conn0Cnt: layer-0 neighbours
  upper,     \* upperConns: per upper layer, a map from its nodes to neighbours
  entry,     \* G.EntryPoint
  maxLayer,  \* G.MaxLayer
  pc,        \* where Insert stands
  current,   \* currentEntry
  layer,     \* L, the layer Insert works on
  marks,     \* visited
  visGen,    \* visGen
  cands,     \* candHeap
  res,       \* resHeap
  node,      \* the candidate being expanded
  linkBack   \* the selected neighbours that still have to link back

graph == <<vec, fraud, levels, conn0, upper, entry, maxLayer>>
search == <<marks, visGen, cands, res, node>>
vars == <<graph, inserted, pc, current, layer, search, linkBack>>

id == inserted
D(a, b) == Dist2[<<vec[a], vec[b]>>]
NearestTo(n, S) == {c \in S : \A o \in S : D(n, c) <= D(n, o)}
FarthestFrom(n, S) == {c \in S : \A o \in S : D(n, c) >= D(n, o)}

(* neighborsAt: a layer not allocated, or a node not on it, has none. *)
NeighborsAt(n, L) ==
  IF L = 0 THEN conn0[n]
  ELSE IF L \in DOMAIN upper /\ n \in DOMAIN upper[L] THEN upper[L][n] ELSE {}

-----------------------------------------------------------------------------
(***************************************************************************)
(* The level: a float converted to int8, which keeps its low eight bits,   *)
(* and only then capped at 31.  u = 0 is drawn as 1e-300, whose raw level  *)
(* is 385 for M = 6 and becomes -127: the descent then runs below layer 0  *)
(* and panics (no action is enabled there).                                *)
(***************************************************************************)
Int8(x) == ((x + 128) % 256) - 128
PickLevel(raw) == IF Int8(raw) > 31 THEN 31 ELSE Int8(raw)

(* SetLabel: the bit of a node is set or cleared. *)
SetLabel(n) == fraud' = IF n \in Frauds THEN fraud \cup {n} ELSE fraud \ {n}

(* ensureLayers and registerOnUpperLayers. *)
Larger(a, b) == IF a > b THEN a ELSE b
EnsureLayers(u, upTo) ==
  [L \in 1 .. Larger(Len(u), upTo) |-> IF L <= Len(u) THEN u[L] ELSE [n \in {} |-> {}]]
With(map, n, nbs) == [k \in DOMAIN map \cup {n} |-> IF k = n THEN nbs ELSE map[k]]
Listed(map, n) == IF n \in DOMAIN map THEN map ELSE With(map, n, {})
RegisterTop(u, n, level) ==  \* mutant: only the top layer
  LET v == EnsureLayers(u, level)
  IN  [L \in DOMAIN v |-> IF L = level THEN Listed(v[L], n) ELSE v[L]]
Register(u, n, level) ==
  LET v == EnsureLayers(u, level)
  IN  [L \in DOMAIN v |-> IF L <= level THEN Listed(v[L], n) ELSE v[L]]

Init ==
  /\ vec \in Inputs /\ fraud = {} /\ levels = [n \in Node |-> 0]
  /\ inserted = 0
  /\ conn0 = [n \in Node |-> {}] /\ upper = << >>
  /\ entry = 0 /\ maxLayer = 0
  /\ pc = "ready" /\ current = 0 /\ layer = 0
  /\ marks = [n \in Node |-> 0] /\ visGen = 0
  /\ cands = {} /\ res = {} /\ node = 0 /\ linkBack = {}

(* The first node becomes the entry point and registers on its layers. *)
InsertFirst ==
  /\ pc = "ready" /\ inserted = 0
  /\ SetLabel(id)
  /\ \E raw \in RawLevels :
       /\ levels' = [levels EXCEPT ![id] = PickLevel(raw)]
       /\ maxLayer' = PickLevel(raw)
       /\ upper' = Register(upper, id, PickLevel(raw))
  /\ entry' = id
  /\ inserted' = 1
  /\ UNCHANGED <<vec, conn0, pc, current, layer, search, linkBack>>

BeginInsert ==
  /\ pc = "ready" /\ inserted \in Node \ {0}
  /\ SetLabel(id)
  /\ \E raw \in RawLevels : levels' = [levels EXCEPT ![id] = PickLevel(raw)]
  /\ current' = entry /\ layer' = maxLayer
  /\ pc' = "descend"
  /\ UNCHANGED <<vec, inserted, conn0, upper, entry, maxLayer, search, linkBack>>

(* greedyDescend: a pass that finds a closer neighbour starts another. *)
NotFarther == {n \in NeighborsAt(current, layer) : D(id, n) <= D(id, current)}  \* mutant
Closer == {n \in NeighborsAt(current, layer) : D(id, n) < D(id, current)}

DescendHop ==
  /\ pc = "descend" /\ layer > levels[id] /\ layer >= 0
  /\ current' \in NearestTo(id, Closer)
  /\ UNCHANGED <<graph, inserted, pc, layer, search, linkBack>>

DescendLayer ==
  /\ pc = "descend" /\ layer > levels[id] /\ layer >= 0
  /\ Closer = {}
  /\ layer' = layer - 1
  /\ UNCHANGED <<graph, inserted, pc, current, search, linkBack>>

(* The descent ended at the node's own top layer, or at the graph's. *)
RegisterNode ==
  /\ pc = "descend" /\ layer <= levels[id]
  /\ upper' = Register(upper, id, levels[id])
  /\ pc' = IF layer >= 0 THEN "layer" ELSE "back"
  /\ UNCHANGED <<vec, fraud, levels, conn0, entry, maxLayer, inserted, current,
                 layer, search, linkBack>>

-----------------------------------------------------------------------------
(***************************************************************************)
(* resetVisited: the next generation; a wrap clears the marks.             *)
(***************************************************************************)
Gen == (visGen + 1) % MarkMod
ResetKeepingMarks ==  \* mutant: the marks survive the wrap
  /\ visGen' = IF Gen = 0 THEN 1 ELSE Gen
  /\ marks' = [marks EXCEPT ![current] = visGen']
ResetVisited ==
  /\ visGen' = IF Gen = 0 THEN 1 ELSE Gen
  /\ marks' = [IF Gen = 0 THEN [n \in Node |-> 0] ELSE marks EXCEPT ![current] = visGen']

Visited == {n \in Node : marks[n] = visGen}
Mark(n) == marks' = [marks EXCEPT ![n] = visGen] /\ UNCHANGED visGen

(* searchLayer: a best-first search that keeps the EfC nearest nodes. *)
StartSearch ==
  /\ pc = "layer"
  /\ ResetVisited
  /\ cands' = {current} /\ res' = {current}
  /\ pc' = "search"
  /\ UNCHANGED <<graph, inserted, current, layer, node, linkBack>>

NoFartherThanWorst(n) == \E r \in res : D(id, n) <= D(id, r)
CloserThanWorst(n) == \E r \in res : D(id, n) < D(id, r)

Expand ==
  /\ pc = "search"
  /\ \E c \in NearestTo(id, cands) :
       /\ NoFartherThanWorst(c)
       /\ node' = c /\ cands' = cands \ {c}
  /\ pc' = "visit"
  /\ UNCHANGED <<graph, inserted, current, layer, marks, visGen, res, linkBack>>

Unvisited == NeighborsAt(node, layer) \ Visited

VisitUnmarked ==  \* mutant: the kept neighbour is not marked
  /\ pc = "visit"
  /\ \E n \in Unvisited :
       /\ Cardinality(res) < EfC \/ CloserThanWorst(n)
       /\ cands' = cands \cup {n}
       /\ res' = IF Cardinality(res) < EfC THEN res \cup {n} ELSE res
  /\ UNCHANGED <<graph, inserted, pc, current, layer, marks, visGen, node, linkBack>>

(* A neighbour that is among the EfC nearest so far enters both heaps,     *)
(* and then a farthest result leaves if there are too many.                *)
VisitKept ==
  /\ pc = "visit"
  /\ \E n \in Unvisited :
       /\ Cardinality(res) < EfC \/ CloserThanWorst(n)
       /\ Mark(n)
       /\ cands' = cands \cup {n}
       /\ IF Cardinality(res) < EfC
          THEN res' = res \cup {n}
          ELSE \E far \in FarthestFrom(id, res \cup {n}) :
                 res' = (res \cup {n}) \ {far}
  /\ UNCHANGED <<graph, inserted, pc, current, layer, node, linkBack>>

VisitDropped ==
  /\ pc = "visit"
  /\ \E n \in Unvisited :
       /\ Cardinality(res) >= EfC /\ ~ CloserThanWorst(n)
       /\ Mark(n)
  /\ UNCHANGED <<graph, inserted, pc, current, layer, cands, res, node, linkBack>>

EndVisit ==
  /\ pc = "visit" /\ Unvisited = {}
  /\ pc' = "search"
  /\ UNCHANGED <<graph, inserted, current, layer, search, linkBack>>

StopSearch ==
  /\ pc = "search"
  /\ \/ cands = {} /\ UNCHANGED cands
     \/ \E c \in NearestTo(id, cands) :
          /\ ~ NoFartherThanWorst(c)
          /\ cands' = cands \ {c}
  /\ pc' = "connect"
  /\ UNCHANGED <<graph, inserted, current, layer, marks, visGen, res, node,
                 linkBack>>

-----------------------------------------------------------------------------
(***************************************************************************)
(* selectNeighborsHeuristic.  At most m candidates are all kept.  Of more, *)
(* taken in order of distance, one is kept if fewer than m are kept so far *)
(* and none of those is closer to it than n is.                            *)
(***************************************************************************)
FarthestFirst(order, n) ==  \* mutant
  \A i, j \in DOMAIN order :
    i < j => order[i] # order[j] /\ D(n, order[i]) >= D(n, order[j])
Sorted(order, n) ==
  \A i, j \in DOMAIN order :
    i < j => order[i] # order[j] /\ D(n, order[i]) <= D(n, order[j])
KeptOf(order, kept, n, m) ==
  \A i \in DOMAIN order :
    i \in kept <=>
      LET before == {j \in kept : j < i}
      IN  /\ Cardinality(before) < m
          /\ \A j \in before : D(order[i], order[j]) >= D(n, order[i])
(* It writes what it keeps over the head of the candidates: "rest" is what *)
(* stands behind that afterwards, kept or not.                             *)
Outcomes(n, S, m) ==
  IF Cardinality(S) <= m THEN {[kept |-> S, rest |-> {}]}
  ELSE LET orders == {o \in [1 .. Cardinality(S) -> S] : Sorted(o, n)}
       IN  UNION {{[kept |-> {o[i] : i \in k},
                    rest |-> {o[i] : i \in Cardinality(k) + 1 .. Cardinality(S)}] :
                    k \in {k \in SUBSET DOMAIN o : KeptOf(o, k, n, m)}} : o \in orders}
Selections(n, S, m) == {outcome.kept : outcome \in Outcomes(n, S, m)}

(* Insert scans all of it for the next entry, and a candidate behind the   *)
(* head is taken only if it is strictly nearer.                            *)
NextEntry(n, outcome) ==
  LET nearer == {r \in outcome.rest : \A k \in outcome.kept : D(n, r) < D(n, k)}
  IN  NearestTo(n, IF nearer = {} THEN outcome.kept ELSE nearer)

Capacity(L) == IF L = 0 THEN M0 ELSE M

(* The lists of a layer, with the one of n replaced. *)
SetNeighbors(n, nbs) ==
  IF layer = 0
  THEN conn0' = [conn0 EXCEPT ![n] = nbs] /\ UNCHANGED upper
  ELSE /\ upper' = [upper EXCEPT ![layer] = With(@, n, nbs)]
       /\ UNCHANGED conn0

LinkInOnly ==  \* mutant: the new node keeps no links of its own
  /\ pc = "connect"
  /\ \E outcome \in Outcomes(id, res, Capacity(layer)) :
       /\ linkBack' = outcome.kept
       /\ current' \in NextEntry(id, outcome)
  /\ cands' = {} /\ res' = {} /\ node' = 0
  /\ pc' = "back"
  /\ UNCHANGED <<graph, inserted, layer, marks, visGen>>

(* The new node links to a selection of what the search found, and the     *)
(* nearest of what that leaves in cands starts the search one layer down.  *)
LinkOut ==
  /\ pc = "connect"
  /\ \E outcome \in Outcomes(id, res, Capacity(layer)) :
       /\ SetNeighbors(id, outcome.kept) /\ linkBack' = outcome.kept
       /\ current' \in NextEntry(id, outcome)
  /\ cands' = {} /\ res' = {} /\ node' = 0  \* dead until the next search
  /\ pc' = "back"
  /\ UNCHANGED <<vec, fraud, levels, entry, maxLayer, inserted, layer, marks, visGen>>

LinkBackUnpruned ==  \* mutant
  /\ pc = "back"
  /\ \E s \in NearestTo(id, linkBack) :
       /\ SetNeighbors(s, NeighborsAt(s, layer) \cup {id})
       /\ linkBack' = linkBack \ {s}
  /\ UNCHANGED <<vec, fraud, levels, entry, maxLayer, inserted, pc, current, layer,
                 search>>

(***************************************************************************)
(* addEdge and pruneIfOverCapacity: a selected neighbour takes the new     *)
(* node into its list, and if the list is then over capacity the heuristic *)
(* chooses what stays, the new node being a candidate like the others.     *)
(***************************************************************************)
LinkBack ==
  /\ pc = "back"
  /\ \E s \in NearestTo(id, linkBack) :
       /\ \E kept \in Selections(s, NeighborsAt(s, layer) \cup {id}, Capacity(layer)) :
            SetNeighbors(s, kept)
       /\ linkBack' = linkBack \ {s}
  /\ UNCHANGED <<vec, fraud, levels, entry, maxLayer, inserted, pc, current, layer,
                 search>>

NextLayer ==
  /\ pc = "back" /\ linkBack = {} /\ layer > 0
  /\ layer' = layer - 1
  /\ pc' = "layer"
  /\ UNCHANGED <<graph, inserted, current, search, linkBack>>

FinishKeepingEntry ==  \* mutant: the entry point is not promoted
  /\ pc = "back" /\ linkBack = {} /\ layer <= 0
  /\ maxLayer' = Larger(levels[id], maxLayer)
  /\ upper' = EnsureLayers(upper, maxLayer')
  /\ inserted' = inserted + 1
  /\ pc' = "ready"
  /\ UNCHANGED <<vec, fraud, levels, conn0, entry, current, layer, search, linkBack>>

(* The last layer is done: a node above the top becomes the entry point. *)
FinishInsert ==
  /\ pc = "back" /\ linkBack = {} /\ layer <= 0
  /\ IF levels[id] > maxLayer
     THEN /\ entry' = id /\ maxLayer' = levels[id]
          /\ upper' = EnsureLayers(upper, levels[id])
     ELSE UNCHANGED <<entry, maxLayer, upper>>
  /\ inserted' = inserted + 1
  /\ pc' = "ready"
  /\ UNCHANGED <<vec, fraud, levels, conn0, current, layer, search, linkBack>>

(* Every record of the input has been inserted. *)
Built == pc = "ready" /\ inserted = N
Done == Built /\ UNCHANGED vars

Insert ==
  \/ InsertFirst \/ BeginInsert \/ DescendHop \/ DescendLayer \/ RegisterNode
  \/ StartSearch \/ Expand \/ VisitKept \/ VisitDropped \/ EndVisit \/ StopSearch
  \/ LinkOut \/ LinkBack \/ NextLayer \/ FinishInsert
Next == Insert \/ Done

(* The builder is one goroutine that nothing blocks. *)
Spec == Init /\ [][Next]_vars /\ WF_vars(Insert)

-----------------------------------------------------------------------------
Level == {PickLevel(raw) : raw \in RawLevels}
TypeOK ==
  /\ vec \in [Node -> Point] /\ levels \in [Node -> Level \cup {0}]
  /\ inserted \in 0 .. N
  /\ conn0 \in [Node -> SUBSET Node]
  /\ \A L \in DOMAIN upper : /\ DOMAIN upper[L] \subseteq Node
                            /\ \A n \in DOMAIN upper[L] : upper[L][n] \subseteq Node
  /\ entry \in Node /\ maxLayer \in Level \cup {0}
  /\ pc \in {"ready", "descend", "layer", "search", "visit", "connect", "back"}
  /\ current \in Node /\ layer \in Level \cup Nat \cup {-1}
  /\ marks \in [Node -> 0 .. MarkMod - 1] /\ visGen \in 0 .. MarkMod - 1
  /\ fraud \subseteq Node /\ cands \subseteq Visited /\ res \subseteq Visited
  /\ node \in Node /\ linkBack \subseteq Node

(* The nodes inserted, and the one whose insertion has begun to write. *)
Present == 0 .. inserted - 1
Writing == IF pc \in {"layer", "search", "visit", "connect", "back"} THEN {id} ELSE {}

(***************************************************************************)
(* A node is in the map of an upper layer exactly when its level reaches   *)
(* it: linking back never makes a node appear on a layer it was not given, *)
(* and a node without neighbours there is not forgotten.                   *)
(***************************************************************************)
LayersMatchLevels ==
  \A n \in Node : \A L \in 1 .. Len(upper) :
    n \in DOMAIN upper[L] <=> n \in Present \cup Writing /\ levels[n] >= L

(***************************************************************************)
(* The entry point lives on the top layer, every layer up to the top is    *)
(* allocated, and nobody lives above it, whenever no insertion is running: *)
(* a descent that starts at the entry point passes through every layer.    *)
(***************************************************************************)
EntryOnTop ==
  pc = "ready" /\ inserted > 0 =>
    /\ entry \in Present /\ levels[entry] = maxLayer
    /\ Len(upper) = Larger(maxLayer, 0)
    /\ \A n \in Present : levels[n] <= maxLayer

(***************************************************************************)
(* Links stay inside a layer: a neighbour on layer L lives on L itself and *)
(* is another node, so following links never leaves the layer, and no node *)
(* keeps more of them than the layer's capacity.                           *)
(***************************************************************************)
LinksOfLayer(L) == IF L = 0 THEN Node ELSE DOMAIN upper[L]
LinksAreLocal ==
  \A L \in 0 .. Len(upper) : \A n \in LinksOfLayer(L) :
    /\ Cardinality(NeighborsAt(n, L)) <= Capacity(L)
    /\ \A nb \in NeighborsAt(n, L) :
         nb # n /\ nb \in Present \cup Writing /\ levels[nb] >= L

(***************************************************************************)
(* On no layer does a node lose the link to its nearest neighbour for a    *)
(* farther one: pruning may drop any link but that one.                    *)
(***************************************************************************)
NearestLinkKept ==
  [][\A L \in 0 .. Len(upper) : \A n \in Node : \A old \in NearestTo(n, NeighborsAt(n, L)) :
       \E new \in NeighborsAt(n, L)' : D(n, new) <= D(n, old)]_vars

(***************************************************************************)
(* No dead ends: once there are two nodes, every node inserted has a       *)
(* neighbour at layer 0.                                                   *)
(***************************************************************************)
NoDeadEnd ==
  pc = "ready" /\ inserted > 1 => \A n \in Present : conn0[n] # {}

(***************************************************************************)
(* The insert search is about all nodes of the layer it can reach: it      *)
(* keeps the EfC nearest of those visited, and a search that found fewer   *)
(* visited every node reachable from where it started, so no mark of an    *)
(* earlier search hides one.  And nothing found is lost between layers:    *)
(* each search starts no farther from the new node than the entry point,   *)
(* and no farther than any node the search of the layer above visited,     *)
(* although the selection overwrote what that search returned.             *)
(***************************************************************************)
Closed(S) == \A n \in S : NeighborsAt(n, layer) \subseteq S
Reachable(n) == {m \in Node : \A S \in SUBSET Node : n \in S /\ Closed(S) => m \in S}
SearchKeepsNearest ==
  /\ pc \in {"search", "visit", "connect"} =>
       \A n \in Visited \ res :
         Cardinality(res) = EfC /\ \A r \in res : D(id, r) <= D(id, n)
  /\ pc = "connect" /\ Cardinality(res) < EfC => res = Reachable(current)
  /\ pc \in {"layer", "search", "visit", "connect"} => D(id, current) <= D(id, entry)
  /\ pc = "back" /\ layer >= 0 => \A n \in Visited : D(id, current) <= D(id, n)

(* Every record is inserted: no descent or search runs for ever. *)
BuildCompletes == <>Built

(***************************************************************************)
(* What the comment of addEdge promises: the new edge is admitted, so a    *)
(* node just inserted can be reached from one of its neighbours.           *)
(***************************************************************************)
NewNodeReachable ==
  pc = "ready" /\ inserted > 1 => \E n \in Present : inserted - 1 \in conn0[n]

(* What the comment of Insert says a level is: -ln(u) * mL rounded down,   *)
(* capped at 31.                                                           *)
LevelsCapped ==
  \A n \in Node : levels[n] \in {IF raw > 31 THEN 31 ELSE raw : raw \in RawLevels \cup {0}}
=============================================================================
