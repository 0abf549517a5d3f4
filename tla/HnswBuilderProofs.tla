------------------------- MODULE HnswBuilderProofs -------------------------
(***************************************************************************)
(* Proofs about HnswBuilder, for any records, distances, level draws and   *)
(* capacities: layers hold the nodes of their levels, the entry point is   *)
(* on top, links stay inside their layer and within its capacity, pruning  *)
(* keeps a link to a nearest neighbour and so never isolates a node, and   *)
(* every insert search keeps the nearest of what it can reach.             *)
(***************************************************************************)
EXTENDS HnswBuilder, FiniteSetTheorems, SequenceTheorems, TLAPS

-----------------------------------------------------------------------------
LEMMA NodeSets ==
  ASSUME NEW S \in SUBSET Node
  PROVE  IsFiniteSet(S) /\ Cardinality(S) \in Nat
<1>1. IsFiniteSet(Node)
  <2>1. 0 \in Int /\ N - 1 \in Int
    BY BuilderAssumption
  <2> QED  BY <2>1, FS_Interval DEF Node
<1> QED  BY <1>1, FS_Subset, FS_CardinalityType

LEMMA Smallest ==
  ASSUME NEW S \in SUBSET Nat, S # {}
  PROVE  \E x \in S : \A y \in S : x <= y
<1>1. PICK x \in S : \A y \in S : ~ (<<y, x>> \in OpToRel(<, Nat))
  BY NatLessThanWellFounded, WFMin
<1>2. \A y \in S : ~ (y < x)
  BY <1>1 DEF OpToRel
<1> QED  BY <1>2

LEMMA Greatest ==
  ASSUME NEW c \in Nat, NEW S \in SUBSET (1 .. c), S # {}
  PROVE  \E x \in S : \A y \in S : y <= x
<1> DEFINE bounds == {x \in Nat : \A y \in S : y <= x}
<1>1. c \in bounds
  OBVIOUS
<1>2. PICK x \in bounds : \A y \in bounds : x <= y
  BY <1>1, Smallest
<1>3. x \in Nat /\ \A y \in S : y <= x
  BY <1>2
<1>4. x \in S
  <2> SUFFICES ASSUME x \notin S PROVE FALSE
    OBVIOUS
  <2>1. \A y \in S : y \in 1 .. c /\ y <= x /\ y # x
    BY <1>3
  <2>2. PICK z \in S : TRUE
    OBVIOUS
  <2>3. x - 1 \in Nat
    BY <1>3, <2>1, <2>2
  <2>4. \A y \in S : y <= x - 1
    BY <1>3, <2>1
  <2> QED  BY <1>2, <1>3, <2>3, <2>4
<1> QED  BY <1>3, <1>4

LEMMA DistanceFacts ==
  ASSUME vec \in [Node -> Point], NEW a \in Node, NEW b \in Node
  PROVE  D(a, b) \in Nat /\ D(a, b) = D(b, a)
BY BuilderAssumption DEF D

-----------------------------------------------------------------------------
(* The heuristic on a set too large to keep: an order of all of it, and    *)
(* the places in the order that are kept.                                  *)
LEMMA SortedCovers ==
  ASSUME NEW S \in SUBSET Node, NEW n \in Node,
         NEW o \in [1 .. Cardinality(S) -> S], Sorted(o, n)
  PROVE  \A s \in S : \E i \in 1 .. Cardinality(S) : o[i] = s
<1>1. IsFiniteSet(S) /\ Cardinality(S) \in Nat
  BY NodeSets
<1> DEFINE c == Cardinality(S)
<1>2. IsFiniteSet(1 .. c) /\ Cardinality(1 .. c) = c
  <2>1. c \in Nat
    BY <1>1
  <2> HIDE DEF c
  <2> QED  BY <2>1, FS_Interval
<1>3. o \in Injection(1 .. c, S)
  <2>1. ASSUME NEW i \in 1 .. c, NEW j \in 1 .. c, o[i] = o[j] PROVE i = j
    <3>1. i < j \/ j < i \/ i = j
      BY <1>1
    <3> QED  BY <2>1, <3>1 DEF Sorted
  <2> QED  BY <2>1 DEF Injection, IsInjective
<1>4. o \in Surjection(1 .. c, S)
  BY <1>1, <1>2, <1>3, FS_Injection
<1> QED  BY <1>4 DEF Surjection

LEMMA KeptFacts ==
  ASSUME vec \in [Node -> Point], NEW S \in SUBSET Node, NEW n \in Node, NEW m \in Nat \ {0},
         S # {}, NEW o \in [1 .. Cardinality(S) -> S], Sorted(o, n),
         NEW k \in SUBSET (1 .. Cardinality(S)), KeptOf(o, k, n, m)
  PROVE  1 \in k /\ IsFiniteSet(k) /\ Cardinality(k) <= m
<1>1. IsFiniteSet(S) /\ Cardinality(S) \in Nat
  BY NodeSets
<1> DEFINE c == Cardinality(S)
<1>2. c \in Nat /\ c # 0
  BY <1>1, FS_EmptySet
<1> HIDE DEF c
<1>3. k \in SUBSET (1 .. c) /\ DOMAIN o = 1 .. c /\ \A j \in k : j \in 1 .. c
  BY DEF c
<1>4. IsFiniteSet(k) /\ Cardinality(k) \in Nat
  <2>1. IsFiniteSet(1 .. c)
    BY <1>2, FS_Interval
  <2> QED  BY <1>3, <2>1, FS_Subset, FS_CardinalityType
<1>5. \A i \in 1 .. c : i \in k <=>
        /\ Cardinality({j \in k : j < i}) < m
        /\ \A j \in {h \in k : h < i} : D(o[i], o[j]) >= D(n, o[i])
  BY <1>3 DEF KeptOf
<1>6. 1 \in k
  <2>0. \A j \in k : ~ (j < 1)
    BY <1>2, <1>3
  <2>1. {j \in k : j < 1} = {}
    BY <2>0
  <2>2. Cardinality({j \in k : j < 1}) < m
    BY <2>1, FS_EmptySet
  <2> QED  BY <1>2, <1>5, <2>1, <2>2
<1>7. PICK x \in k : \A y \in k : y <= x
  BY <1>2, <1>3, <1>6, Greatest
<1>8. {j \in k : j < x} = k \ {x}
  <2>1. \A j \in k : j < x <=> j # x
    BY <1>2, <1>3, <1>7
  <2> QED  BY <2>1
<1>9. Cardinality(k \ {x}) < m
  BY <1>3, <1>5, <1>7, <1>8
<1>10. Cardinality(k \ {x}) = Cardinality(k) - 1
  BY <1>4, <1>7, FS_RemoveElement
<1> QED  BY <1>4, <1>6, <1>9, <1>10

(***************************************************************************)
(* What selectNeighborsHeuristic keeps: at most m of the candidates, and   *)
(* always one that none of them is nearer than.                            *)
(***************************************************************************)
LEMMA OutcomeFacts ==
  ASSUME vec \in [Node -> Point], NEW S \in SUBSET Node, NEW n \in Node, NEW m \in Nat \ {0},
         S # {}, NEW outcome \in Outcomes(n, S, m)
  PROVE  /\ outcome.kept \subseteq S /\ outcome.kept # {} /\ Cardinality(outcome.kept) <= m
         /\ outcome.rest \subseteq S
         /\ \A s \in S : \E t \in outcome.kept : D(n, t) <= D(n, s)
<1>1. IsFiniteSet(S) /\ Cardinality(S) \in Nat
  BY NodeSets
<1>2. CASE Cardinality(S) <= m
  <2>1. outcome.kept = S /\ outcome.rest = {}
    BY <1>2 DEF Outcomes
  <2>2. \A s \in S : D(n, s) <= D(n, s)
    BY DistanceFacts
  <2> QED  BY <1>2, <2>1, <2>2
<1>3. CASE ~ (Cardinality(S) <= m)
  <2>1. PICK o \in [1 .. Cardinality(S) -> S], k \in SUBSET (1 .. Cardinality(S)) :
          /\ Sorted(o, n) /\ KeptOf(o, k, n, m)
          /\ outcome = [kept |-> {o[i] : i \in k},
                        rest |-> {o[i] : i \in Cardinality(k) + 1 .. Cardinality(S)}]
    BY <1>3, ZenonT(30) DEF Outcomes
  <2>2. 1 \in k /\ IsFiniteSet(k) /\ Cardinality(k) <= m /\ Cardinality(k) \in Nat
    BY <2>1, KeptFacts, FS_CardinalityType
  <2> DEFINE kept == {o[i] : i \in k}
  <2>3. outcome.kept = kept /\ kept \subseteq S /\ o[1] \in kept
    BY <2>1, <2>2
  <2>4. outcome.rest \subseteq S
    <3>1. \A i \in Cardinality(k) + 1 .. Cardinality(S) : i \in 1 .. Cardinality(S)
      BY <1>1, <2>2
    <3> QED  BY <2>1, <3>1
  <2>5. Cardinality(kept) <= m
    <3> DEFINE f == [i \in k |-> o[i]]
    <3>1. f \in Surjection(k, kept)
      BY DEF Surjection
    <3>2. Cardinality(kept) <= Cardinality(k) /\ Cardinality(kept) \in Nat
      BY <2>2, <2>3, <3>1, FS_Surjection, NodeSets
    <3> QED  BY <2>2, <3>2
  <2> HIDE DEF kept
  <2>6. ASSUME NEW s \in S PROVE D(n, o[1]) <= D(n, s)
    <3>0. o \in [1 .. Cardinality(S) -> S] /\ Sorted(o, n)
      BY <2>1
    <3>1. PICK i \in 1 .. Cardinality(S) : o[i] = s
      <4>1. \A t \in S : \E j \in 1 .. Cardinality(S) : o[j] = t
        BY <3>0, SortedCovers, ZenonT(30)
      <4> QED  BY <4>1
    <3>2. i = 1 \/ 1 < i
      BY <1>1
    <3>3. o[1] \in S /\ D(n, o[1]) <= D(n, o[1])
      BY <2>3, DistanceFacts
    <3> QED  BY <1>1, <3>0, <3>1, <3>2, <3>3 DEF Sorted
  <2> QED  BY <2>3, <2>4, <2>5, <2>6
<1> QED  BY <1>2, <1>3

LEMMA SelectionFacts ==
  ASSUME vec \in [Node -> Point], NEW S \in SUBSET Node, NEW n \in Node, NEW m \in Nat \ {0},
         S # {}, NEW kept \in Selections(n, S, m)
  PROVE  /\ kept \subseteq S /\ kept # {} /\ Cardinality(kept) <= m
         /\ \A s \in S : \E t \in kept : D(n, t) <= D(n, s)
<1>1. PICK outcome \in Outcomes(n, S, m) : kept = outcome.kept
  BY DEF Selections
<1> QED  BY <1>1, OutcomeFacts

(* What is written over the candidates leaves one of the nearest at their  *)
(* head, so the scan behind the selection still finds a nearest.           *)
LEMMA NextEntryIsNearest ==
  ASSUME vec \in [Node -> Point], NEW S \in SUBSET Node, NEW n \in Node, NEW m \in Nat \ {0},
         S # {}, NEW outcome \in Outcomes(n, S, m), NEW e \in NextEntry(n, outcome)
  PROVE  e \in S /\ \A s \in S : D(n, e) <= D(n, s)
<1>1. /\ outcome.kept \subseteq S /\ outcome.rest \subseteq S
      /\ \A s \in S : \E t \in outcome.kept : D(n, t) <= D(n, s)
  BY OutcomeFacts
<1>2. \A s \in S : D(n, s) \in Nat
  BY DistanceFacts
<1>3. {r \in outcome.rest : \A k \in outcome.kept : D(n, r) < D(n, k)} = {}
  BY <1>1, <1>2
<1>4. e \in NearestTo(n, outcome.kept)
  BY <1>3 DEF NextEntry
<1>5. e \in S /\ \A t \in outcome.kept : D(n, e) <= D(n, t)
  BY <1>1, <1>4 DEF NearestTo
<1> QED  BY <1>1, <1>2, <1>5

-----------------------------------------------------------------------------
(***************************************************************************)
(* The inductive invariant.  What a search or a link touches lives on the  *)
(* layer the insertion works on, and no list of this layer or those below  *)
(* names the node being inserted yet.                                      *)
(***************************************************************************)
LayerMap == UNION {[S -> SUBSET Node] : S \in SUBSET Node}
Layers == upper \in Seq(LayerMap)

Placed == Present \cup Writing
OnLayer(S) == \A n \in S : n \in Present /\ levels[n] >= layer
Deciding == {"layer", "search", "visit", "connect"}

TopLayer ==
  /\ inserted = 0 => Len(upper) = 0 /\ pc = "ready"
  /\ inserted > 0 =>
       /\ entry \in Present /\ levels[entry] = maxLayer
       /\ \A n \in Present : levels[n] <= maxLayer
       /\ Len(upper) = IF Writing = {} THEN Larger(maxLayer, 0)
                       ELSE Larger(Larger(maxLayer, 0), levels[id])

Position ==
  /\ pc # "ready" => inserted \in Node \ {0} /\ layer <= maxLayer
  /\ pc = "descend" => OnLayer({current})
  /\ pc \in Deciding => 0 <= layer /\ layer <= levels[id] /\ OnLayer({current})
  /\ pc \in {"search", "visit", "connect"} => res # {} /\ OnLayer(res \cup cands)
  /\ pc = "visit" => OnLayer({node})
  /\ pc = "back" =>
       /\ layer <= levels[id] /\ OnLayer(linkBack)
       /\ IF layer < 0 THEN linkBack = {} ELSE OnLayer({current})
  /\ pc # "back" => linkBack = {}

NotYetLinked(L) == L < layer \/ (L = layer /\ pc # "back")
Unlinked ==
  /\ \A n \in Node \ Placed : conn0[n] = {}
  /\ Writing # {} => \A L \in 0 .. Len(upper) : NotYetLinked(L) =>
       NeighborsAt(id, L) = {} /\ \A n \in LinksOfLayer(L) : id \notin NeighborsAt(n, L)

IInv ==
  /\ TypeOK /\ Layers /\ LayersMatchLevels /\ TopLayer
  /\ Position /\ LinksAreLocal /\ Unlinked

(* The levels drawn are bytes, from -128 to the cap. *)
LEMMA LevelFacts == Level \cup {0} \subseteq -128 .. 31
<1>1. ASSUME NEW raw \in RawLevels PROVE PickLevel(raw) \in -128 .. 31
  <2>1. raw + 128 \in Nat
    BY BuilderAssumption
  <2>2. (raw + 128) % 256 \in 0 .. 255
    BY <2>1
  <2> QED  BY <2>2 DEF PickLevel, Int8
<1> QED  BY <1>1 DEF Level

LEMMA TypeFacts ==
  ASSUME TypeOK
  PROVE  /\ N \in Nat /\ inserted \in 0 .. N /\ Present \subseteq Node
         /\ maxLayer \in Int /\ layer \in Int /\ \A n \in Node : levels[n] \in Int
         /\ inserted < N => id \in Node /\ id \notin Present /\ levels[id] \in Int
<1>1. N \in Nat /\ inserted \in 0 .. N
  BY BuilderAssumption DEF TypeOK
<1>2. /\ maxLayer \in Int /\ layer \in Int /\ \A n \in Node : levels[n] \in Int
  BY LevelFacts DEF TypeOK
<1> QED  BY <1>1, <1>2 DEF Present, id, Node

LEMMA LayerFacts ==
  ASSUME Layers
  PROVE  /\ Len(upper) \in Nat /\ DOMAIN upper = 1 .. Len(upper)
         /\ \A L \in 1 .. Len(upper) :
              /\ DOMAIN upper[L] \in SUBSET Node
              /\ upper[L] \in [DOMAIN upper[L] -> SUBSET Node]
<1>1. /\ Len(upper) \in Nat /\ DOMAIN upper = 1 .. Len(upper)
      /\ \A L \in 1 .. Len(upper) : upper[L] \in LayerMap
  BY LenProperties, ElementOfSeq DEF Layers
<1>2. \A f \in LayerMap : DOMAIN f \in SUBSET Node /\ f \in [DOMAIN f -> SUBSET Node]
  BY DEF LayerMap
<1> QED  BY <1>1, <1>2

LEMMA InitIInv == Init => IInv
<1> SUFFICES ASSUME Init PROVE IInv
  OBVIOUS
<1>1. N \in Nat \ {0} /\ MarkMod \in Nat /\ MarkMod >= 2 /\ 0 \in Node /\ N \in Nat
  BY BuilderAssumption DEF Node
<1>2. upper = << >> /\ Len(upper) = 0 /\ DOMAIN upper = {} /\ Layers
  BY EmptySeq DEF Init, Layers
<1>3. TypeOK
  <2>1. vec \in [Node -> Point]
    BY BuilderAssumption DEF Init
  <2> QED  BY <1>1, <1>2, <2>1 DEF Init, TypeOK, Visited
<1>4. Present = {} /\ Writing = {} /\ Placed = {}
  BY DEF Init, Present, Writing, Placed
<1>5. LayersMatchLevels /\ TopLayer /\ Position
  BY <1>2, <1>4 DEF Init, LayersMatchLevels, TopLayer, Position, Deciding
<1>6. LinksAreLocal
  <2>1. \A n \in Node : NeighborsAt(n, 0) = {}
    BY DEF Init, NeighborsAt
  <2>2. Cardinality({}) = 0 /\ Capacity(0) \in Nat
    BY FS_EmptySet, BuilderAssumption DEF Capacity
  <2>3. 0 .. Len(upper) = {0} /\ LinksOfLayer(0) = Node
    BY <1>2 DEF LinksOfLayer
  <2> SUFFICES ASSUME NEW L \in 0 .. Len(upper), NEW n \in LinksOfLayer(L)
               PROVE  /\ Cardinality(NeighborsAt(n, L)) <= Capacity(L)
                      /\ NeighborsAt(n, L) = {}
    BY DEF LinksAreLocal
  <2>4. L = 0 /\ n \in Node
    BY <2>3
  <2> QED  BY <2>1, <2>2, <2>4
<1>7. Unlinked
  BY <1>4 DEF Init, Unlinked
<1> QED  BY <1>2, <1>3, <1>5, <1>6, <1>7 DEF IInv

-----------------------------------------------------------------------------
(* A step that leaves the graph as it is keeps what is said of the graph,  *)
(* if it takes no layer for unlinked that was not.                         *)
LEMMA GraphKept ==
  ASSUME IInv, UNCHANGED <<graph, inserted>>, inserted # 0, Writing' = Writing,
         \A L \in 0 .. Len(upper) : NotYetLinked(L)' => NotYetLinked(L)
  PROVE  Layers' /\ LayersMatchLevels' /\ TopLayer' /\ LinksAreLocal' /\ Unlinked'
<1>1. /\ upper' = upper /\ conn0' = conn0 /\ levels' = levels /\ entry' = entry
      /\ maxLayer' = maxLayer /\ id' = id /\ inserted' = inserted
      /\ Present' = Present /\ Placed' = Placed
  BY DEF graph, id, Present, Placed
<1>2. \A L, n : NeighborsAt(n, L)' = NeighborsAt(n, L) /\ LinksOfLayer(L)' = LinksOfLayer(L)
  BY <1>1 DEF NeighborsAt, LinksOfLayer
<1>3. Layers' /\ LayersMatchLevels'
  BY <1>1 DEF IInv, Layers, LayersMatchLevels
<1>4. TopLayer'
  BY <1>1 DEF IInv, TopLayer
<1>5. LinksAreLocal'
  BY <1>1, <1>2 DEF IInv, LinksAreLocal
<1>6. Unlinked'
  BY <1>1, <1>2 DEF IInv, Unlinked
<1> QED  BY <1>3, <1>4, <1>5, <1>6

(* What a node of the layer links to is there and lives on the layer.      *)
LEMMA NeighborsLive ==
  ASSUME IInv, pc # "ready", NEW n \in Present, levels[n] >= layer,
         NEW nb \in NeighborsAt(n, layer), layer >= 0
  PROVE  /\ nb \in Node /\ levels[nb] >= layer /\ nb \in Placed
         /\ (pc = "descend" \/ pc \in Deciding) => nb \in Present
<1>1. /\ n \in Node /\ levels[n] \in Int /\ layer \in Int /\ id \in Node
      /\ N \in Nat /\ inserted \in Nat /\ Present \subseteq Node
  BY TypeFacts, BuilderAssumption DEF IInv, Position, id, Node
<1>2. Len(upper) \in Nat /\ DOMAIN upper = 1 .. Len(upper)
  BY LayerFacts DEF IInv
<1>3. layer \in 0 .. Len(upper) /\ n \in LinksOfLayer(layer)
  BY <1>1, <1>2 DEF NeighborsAt, LinksOfLayer
<1>4. nb \in Placed /\ levels[nb] >= layer
  BY <1>3 DEF IInv, LinksAreLocal, Placed
<1>5. nb \in Node
  BY <1>1, <1>4 DEF Placed, Writing
<1>6. ASSUME pc = "descend" \/ pc \in Deciding PROVE nb \in Present
  <2>1. CASE pc = "descend"
    BY <1>4, <2>1 DEF Placed, Writing
  <2>2. CASE pc \in Deciding
    <3>1. Writing = {id} /\ NotYetLinked(layer)
      BY <1>1, <2>2 DEF Writing, NotYetLinked, Deciding
    <3>2. nb # id
      BY <1>3, <3>1 DEF IInv, Unlinked
    <3> QED  BY <1>4, <3>1, <3>2 DEF Placed
  <2> QED  BY <1>6, <2>1, <2>2
<1> QED  BY <1>4, <1>5, <1>6

(* Within a search the sets of nodes it works with stay on the layer.      *)
LEMMA SearchKept ==
  ASSUME IInv, TypeOK', Position', UNCHANGED <<graph, inserted, layer>>,
         pc \in Deciding, pc' \in Deciding
  PROVE  IInv'
<1>1. Writing' = Writing /\ inserted # 0
  BY DEF IInv, Position, Writing, Deciding, id
<1>2. \A L \in 0 .. Len(upper) : NotYetLinked(L)' => NotYetLinked(L)
  BY DEF NotYetLinked, Deciding
<1> QED  BY <1>1, <1>2, GraphKept DEF IInv

LEMMA DescendKeeps == ASSUME IInv, DescendHop \/ DescendLayer PROVE IInv'
<1>1. /\ pc = "descend" /\ pc' = "descend" /\ layer > levels[id] /\ layer >= 0
      /\ UNCHANGED <<graph, inserted, search, linkBack>>
      /\ \/ layer' = layer /\ current' \in NeighborsAt(current, layer)
         \/ layer' = layer - 1 /\ current' = current
  BY DEF DescendHop, DescendLayer, NearestTo, Closer
<1>2. /\ inserted \in Node \ {0} /\ OnLayer({current}) /\ layer <= maxLayer
      /\ layer \in Int /\ maxLayer \in Int /\ \A n \in Node : levels[n] \in Int
      /\ Present \subseteq Node
  BY <1>1, TypeFacts DEF IInv, Position
<1>3. current \in Present /\ levels[current] >= layer
  BY <1>2 DEF OnLayer
<1>4. current' \in Present /\ current' \in Node /\ levels[current'] >= layer'
  <2>1. CASE layer' = layer /\ current' \in NeighborsAt(current, layer)
    BY <1>1, <1>2, <1>3, <2>1, NeighborsLive
  <2>2. CASE layer' = layer - 1 /\ current' = current
    BY <1>2, <1>3, <2>2
  <2> QED  BY <1>1, <2>1, <2>2
<1>5. layer' \in Level \cup Nat \cup {-1} /\ layer' <= maxLayer
  BY <1>1, <1>2 DEF IInv, TypeOK
<1>6. TypeOK'
  BY <1>1, <1>4, <1>5 DEF IInv, TypeOK, graph, search, Visited
<1>7. Position'
  <2>1. OnLayer({current})'
    BY <1>1, <1>4 DEF OnLayer, Present, graph
  <2> QED  BY <1>1, <1>2, <1>5, <2>1 DEF IInv, Position, graph, Deciding
<1>8. Writing = {} /\ Writing' = {}
  BY <1>1 DEF Writing
<1>9. Layers' /\ LayersMatchLevels' /\ TopLayer' /\ LinksAreLocal'
  <2>1. /\ upper' = upper /\ conn0' = conn0 /\ levels' = levels /\ entry' = entry
        /\ maxLayer' = maxLayer /\ inserted' = inserted
        /\ Present' = Present /\ Placed' = Placed
    BY <1>1, <1>8 DEF graph, Present, Placed
  <2>2. \A L, n : NeighborsAt(n, L)' = NeighborsAt(n, L) /\ LinksOfLayer(L)' = LinksOfLayer(L)
    BY <2>1 DEF NeighborsAt, LinksOfLayer
  <2>3. Layers' /\ LayersMatchLevels'
    BY <1>8, <2>1 DEF IInv, Layers, LayersMatchLevels
  <2>4. TopLayer'
    BY <1>2, <1>8, <2>1 DEF IInv, TopLayer
  <2>5. LinksAreLocal'
    BY <1>8, <2>1, <2>2 DEF IInv, LinksAreLocal
  <2> QED  BY <2>3, <2>4, <2>5
<1>10. Unlinked'
  BY <1>1, <1>8 DEF IInv, Unlinked, Placed, Present, graph
<1> QED  BY <1>6, <1>7, <1>9, <1>10 DEF IInv

LEMMA StartSearchKeeps == ASSUME IInv, StartSearch PROVE IInv'
<1>1. /\ pc = "layer" /\ pc' = "search" /\ cands' = {current} /\ res' = {current}
      /\ UNCHANGED <<graph, inserted, current, layer, node, linkBack>>
      /\ ResetVisited
  BY DEF StartSearch
<1>2. MarkMod \in Nat /\ MarkMod >= 2 /\ visGen \in 0 .. MarkMod - 1 /\ current \in Node
      /\ marks \in [Node -> 0 .. MarkMod - 1]
  BY BuilderAssumption DEF IInv, TypeOK
<1>3. visGen' \in 0 .. MarkMod - 1
  <2>1. visGen + 1 \in Nat /\ MarkMod \in Nat \ {0}
    BY <1>2
  <2>2. (visGen + 1) % MarkMod \in 0 .. MarkMod - 1
    BY <2>1
  <2> QED  BY <1>1, <1>2, <2>2 DEF ResetVisited, Gen
<1>4. marks' \in [Node -> 0 .. MarkMod - 1] /\ marks'[current] = visGen'
  <2> DEFINE old == IF Gen = 0 THEN [n \in Node |-> 0] ELSE marks
  <2>1. old \in [Node -> 0 .. MarkMod - 1]
    BY <1>2
  <2>2. marks' = [old EXCEPT ![current] = visGen']
    BY <1>1 DEF ResetVisited
  <2> HIDE DEF old
  <2> QED  BY <1>2, <1>3, <2>1, <2>2
<1>5. TypeOK'
  BY <1>1, <1>2, <1>3, <1>4 DEF IInv, TypeOK, graph, Visited
<1>6. OnLayer({current})
  BY <1>1 DEF IInv, Position, Deciding
<1>7. Position'
  <2>1. OnLayer(res \cup cands)' /\ OnLayer({current})'
    BY <1>1, <1>6 DEF OnLayer, Present, graph
  <2> QED  BY <1>1, <2>1 DEF IInv, Position, Deciding, graph, id
<1> QED  BY <1>1, <1>5, <1>7, SearchKept DEF Deciding

LEMMA ExpandKeeps == ASSUME IInv, Expand PROVE IInv'
<1>1. /\ pc = "search" /\ pc' = "visit" /\ node' \in cands /\ cands' \subseteq cands
      /\ UNCHANGED <<graph, inserted, current, layer, marks, visGen, res, linkBack>>
  BY DEF Expand, NearestTo
<1>2. cands \subseteq Node
  BY DEF IInv, TypeOK, Visited
<1>3. TypeOK'
  BY <1>1, <1>2 DEF IInv, TypeOK, graph, Visited
<1>4. OnLayer({current}) /\ OnLayer(res \cup cands) /\ res # {}
  BY <1>1 DEF IInv, Position, Deciding
<1>5. Position'
  <2>1. OnLayer(res \cup cands)' /\ OnLayer({current})' /\ OnLayer({node})'
    BY <1>1, <1>4 DEF OnLayer, Present, graph
  <2> QED  BY <1>1, <1>4, <2>1 DEF IInv, Position, Deciding, graph, id
<1> QED  BY <1>1, <1>3, <1>5, SearchKept DEF Deciding

LEMMA MarkFacts ==
  ASSUME TypeOK, NEW n \in Node, Mark(n)
  PROVE  /\ marks' \in [Node -> 0 .. MarkMod - 1] /\ visGen' = visGen
         /\ Visited \cup {n} \subseteq Visited'
BY DEF TypeOK, Mark, Visited

LEMMA VisitKeeps == ASSUME IInv, VisitKept \/ VisitDropped PROVE IInv'
<1>1. /\ pc = "visit" /\ pc' = "visit"
      /\ UNCHANGED <<graph, inserted, current, layer, node, linkBack>>
      /\ Present \subseteq Node /\ layer >= 0 /\ layer \in Int
  BY TypeFacts DEF VisitKept, VisitDropped, IInv, Position, Deciding
<1>2. PICK n \in Unvisited :
        /\ Mark(n) /\ cands' \subseteq cands \cup {n} /\ res' \subseteq res \cup {n}
        /\ res # {} => res' # {}
  <2>1. CASE VisitKept
    <3>1. PICK n \in Unvisited :
            /\ Mark(n) /\ cands' = cands \cup {n}
            /\ IF Cardinality(res) < EfC THEN res' = res \cup {n}
               ELSE \E far \in FarthestFrom(id, res \cup {n}) : res' = (res \cup {n}) \ {far}
      BY <2>1 DEF VisitKept
    <3>2. n \notin res
      BY DEF Unvisited, IInv, TypeOK
    <3>3. res' \subseteq res \cup {n} /\ (res # {} => res' # {})
      BY <3>1, <3>2
    <3> QED  BY <3>1, <3>3
  <2>2. CASE VisitDropped
    BY <2>2 DEF VisitDropped
  <2> QED  BY <2>1, <2>2
<1>3. node \in Present /\ levels[node] >= layer /\ n \in NeighborsAt(node, layer)
  BY <1>1 DEF IInv, Position, OnLayer, Unvisited
<1>4. n \in Present /\ n \in Node /\ levels[n] >= layer
  BY <1>1, <1>3, NeighborsLive DEF Deciding
<1>5. TypeOK'
  <2>1. /\ marks' \in [Node -> 0 .. MarkMod - 1] /\ visGen' = visGen
        /\ Visited \cup {n} \subseteq Visited'
    BY <1>2, <1>4, MarkFacts DEF IInv
  <2>2. cands' \subseteq Visited' /\ res' \subseteq Visited'
    BY <1>2, <2>1 DEF IInv, TypeOK
  <2> QED  BY <1>1, <2>1, <2>2 DEF IInv, TypeOK, graph
<1>6. OnLayer({current}) /\ OnLayer({node}) /\ OnLayer(res \cup cands) /\ res # {}
  BY <1>1 DEF IInv, Position, Deciding
<1>7. Position'
  <2>1. OnLayer(res \cup cands)'
    BY <1>1, <1>2, <1>4, <1>6 DEF OnLayer, Present, graph
  <2>2. OnLayer({current})' /\ OnLayer({node})'
    BY <1>1, <1>6 DEF OnLayer, Present, graph
  <2> QED  BY <1>1, <1>2, <1>6, <2>1, <2>2 DEF IInv, Position, Deciding, graph, id
<1> QED  BY <1>1, <1>5, <1>7, SearchKept DEF Deciding

LEMMA EndVisitKeeps == ASSUME IInv, EndVisit \/ StopSearch PROVE IInv'
<1>1. /\ \/ pc = "visit" /\ pc' = "search"
         \/ pc = "search" /\ pc' = "connect"
      /\ UNCHANGED <<graph, inserted, current, layer, marks, visGen, res, node, linkBack>>
      /\ cands' \subseteq cands
  BY DEF EndVisit, StopSearch, search
<1>2. TypeOK'
  BY <1>1 DEF IInv, TypeOK, graph, Visited
<1>3. OnLayer({current}) /\ OnLayer(res \cup cands) /\ res # {}
  BY <1>1 DEF IInv, Position, Deciding
<1>4. Position'
  <2>1. OnLayer(res \cup cands)' /\ OnLayer({current})'
    BY <1>1, <1>3 DEF OnLayer, Present, graph
  <2> QED  BY <1>1, <1>3, <2>1 DEF IInv, Position, Deciding, graph, id
<1> QED  BY <1>1, <1>2, <1>4, SearchKept DEF Deciding

-----------------------------------------------------------------------------
(* Writing to the maps of the upper layers. *)
LEMMA MapFacts ==
  ASSUME NEW f, NEW S \in SUBSET Node, f \in [S -> SUBSET Node]
  PROVE  f \in LayerMap
BY DEF LayerMap

LEMMA MapDomain ==
  ASSUME NEW f \in LayerMap
  PROVE  DOMAIN f \in SUBSET Node /\ f \in [DOMAIN f -> SUBSET Node]
BY DEF LayerMap

LEMMA WithFacts ==
  ASSUME NEW f \in LayerMap, NEW n \in Node, NEW nbs \in SUBSET Node
  PROVE  /\ With(f, n, nbs) \in LayerMap /\ DOMAIN With(f, n, nbs) = DOMAIN f \cup {n}
         /\ \A k \in DOMAIN f \cup {n} : With(f, n, nbs)[k] = IF k = n THEN nbs ELSE f[k]
<1>1. DOMAIN f \cup {n} \in SUBSET Node /\ f \in [DOMAIN f -> SUBSET Node]
  BY MapDomain
<1>2. With(f, n, nbs) \in [DOMAIN f \cup {n} -> SUBSET Node]
  BY <1>1 DEF With
<1>3. With(f, n, nbs) \in LayerMap
  BY <1>1, <1>2, MapFacts
<1> QED  BY <1>3 DEF With

LEMMA ListedFacts ==
  ASSUME NEW f \in LayerMap, NEW n \in Node
  PROVE  /\ Listed(f, n) \in LayerMap /\ DOMAIN Listed(f, n) = DOMAIN f \cup {n}
         /\ \A k \in DOMAIN f \cup {n} :
              Listed(f, n)[k] = IF k \in DOMAIN f THEN f[k] ELSE {}
<1>1. CASE n \in DOMAIN f
  BY <1>1 DEF Listed
<1>2. CASE n \notin DOMAIN f
  BY <1>2, WithFacts DEF Listed
<1> QED  BY <1>1, <1>2

LEMMA EnsureFacts ==
  ASSUME NEW u \in Seq(LayerMap), NEW level \in Int
  PROVE  /\ EnsureLayers(u, level) \in Seq(LayerMap)
         /\ Larger(Len(u), level) \in Nat
         /\ Len(EnsureLayers(u, level)) = Larger(Len(u), level)
         /\ DOMAIN EnsureLayers(u, level) = 1 .. Larger(Len(u), level)
         /\ \A L \in 1 .. Larger(Len(u), level) :
              EnsureLayers(u, level)[L] = IF L <= Len(u) THEN u[L] ELSE [n \in {} |-> {}]
<1> DEFINE h == Larger(Len(u), level)
<1>1. Len(u) \in Nat /\ h \in Nat
  BY LenProperties DEF Larger
<1> HIDE DEF h
<1>2. [n \in {} |-> {}] \in LayerMap
  <2>1. [n \in {} |-> {}] \in [{} -> SUBSET Node]
    OBVIOUS
  <2> QED  BY <2>1, MapFacts
<1>3. \A L \in 1 .. h : (IF L <= Len(u) THEN u[L] ELSE [n \in {} |-> {}]) \in LayerMap
  BY <1>1, <1>2, ElementOfSeq
<1>4. EnsureLayers(u, level) = [L \in 1 .. h |-> IF L <= Len(u) THEN u[L] ELSE [n \in {} |-> {}]]
  BY DEF EnsureLayers, h
<1>5. EnsureLayers(u, level) \in Seq(LayerMap) /\ Len(EnsureLayers(u, level)) = h
  BY <1>1, <1>3, <1>4
<1> QED  BY <1>1, <1>4, <1>5 DEF h

IsRegistered(u, n, level, r) ==
  LET h == Larger(Len(u), level)
  IN  /\ r \in Seq(LayerMap) /\ Len(r) = h /\ h \in Nat
      /\ \A L \in 1 .. h :
           /\ L <= Len(u) =>
                /\ DOMAIN r[L] = IF L <= level THEN DOMAIN u[L] \cup {n} ELSE DOMAIN u[L]
                /\ \A k \in DOMAIN r[L] : r[L][k] = IF k \in DOMAIN u[L] THEN u[L][k] ELSE {}
           /\ ~ (L <= Len(u)) =>
                /\ DOMAIN r[L] = IF L <= level THEN {n} ELSE {}
                /\ \A k \in DOMAIN r[L] : r[L][k] = {}

LEMMA RegisterFacts ==
  ASSUME NEW u \in Seq(LayerMap), NEW n \in Node, NEW level \in Int
  PROVE  IsRegistered(u, n, level, Register(u, n, level))
<1> DEFINE r == Register(u, n, level)
<1> DEFINE v == EnsureLayers(u, level)
           h == Larger(Len(u), level)
<1>1. /\ v \in Seq(LayerMap) /\ h \in Nat /\ Len(v) = h /\ DOMAIN v = 1 .. h
      /\ \A L \in 1 .. h : v[L] = IF L <= Len(u) THEN u[L] ELSE [k \in {} |-> {}]
  BY EnsureFacts
<1>2. r = [L \in 1 .. h |-> IF L <= level THEN Listed(v[L], n) ELSE v[L]]
  BY <1>1 DEF Register
<1> HIDE DEF v, h, r
<1>3. \A L \in 1 .. h : v[L] \in LayerMap
  BY <1>1, ElementOfSeq
<1>4. \A L \in 1 .. h : (IF L <= level THEN Listed(v[L], n) ELSE v[L]) \in LayerMap
  BY <1>3, ListedFacts
<1>5. r \in Seq(LayerMap) /\ Len(r) = h
  BY <1>1, <1>2, <1>4
<1>6. ASSUME NEW L \in 1 .. h
      PROVE  /\ L <= Len(u) =>
                  /\ DOMAIN r[L] = IF L <= level THEN DOMAIN u[L] \cup {n} ELSE DOMAIN u[L]
                  /\ \A k \in DOMAIN r[L] : r[L][k] = IF k \in DOMAIN u[L] THEN u[L][k] ELSE {}
             /\ ~ (L <= Len(u)) =>
                  /\ DOMAIN r[L] = IF L <= level THEN {n} ELSE {}
                  /\ \A k \in DOMAIN r[L] : r[L][k] = {}
  <2>1. r[L] = IF L <= level THEN Listed(v[L], n) ELSE v[L]
    BY <1>2
  <2>2. v[L] = IF L <= Len(u) THEN u[L] ELSE [k \in {} |-> {}]
    BY <1>1
  <2>3. v[L] \in LayerMap
    BY <1>3
  <2>4. /\ DOMAIN Listed(v[L], n) = DOMAIN v[L] \cup {n}
        /\ \A k \in DOMAIN v[L] \cup {n} :
              Listed(v[L], n)[k] = IF k \in DOMAIN v[L] THEN v[L][k] ELSE {}
    BY <2>3, ListedFacts
  <2> QED  BY <2>1, <2>2, <2>4
<1> QED  BY <1>1, <1>5, <1>6 DEF h, r, IsRegistered

LEMMA MapsTyped ==
  ASSUME NEW u \in Seq(LayerMap)
  PROVE  \A L \in DOMAIN u : /\ DOMAIN u[L] \subseteq Node
                            /\ \A n \in DOMAIN u[L] : u[L][n] \subseteq Node
<1>1. \A L \in DOMAIN u : u[L] \in LayerMap
  BY ElementOfSeq, LenProperties
<1> QED  BY <1>1, MapDomain

-----------------------------------------------------------------------------
(* Lists are sets of nodes, and a node that is not on a layer has none.    *)
LEMMA ListFacts ==
  ASSUME TypeOK, Layers, NEW n \in Node, NEW L \in 0 .. Len(upper)
  PROVE  /\ NeighborsAt(n, L) \subseteq Node
         /\ NeighborsAt(n, L) # {} => n \in LinksOfLayer(L)
<1>1. Len(upper) \in Nat /\ DOMAIN upper = 1 .. Len(upper)
  BY LayerFacts
<1> QED  BY <1>1 DEF TypeOK, NeighborsAt, LinksOfLayer

(* Before an insertion writes, nothing names the node being inserted.      *)
LEMMA NobodyKnowsIt ==
  ASSUME IInv, Writing = {}, inserted < N, NEW L \in 0 .. Len(upper)
  PROVE  /\ NeighborsAt(id, L) = {}
         /\ \A n \in Node : id \notin NeighborsAt(n, L)
<1>1. /\ id \in Node /\ id \notin Present /\ Placed = Present
      /\ Len(upper) \in Nat /\ DOMAIN upper = 1 .. Len(upper)
  BY TypeFacts, LayerFacts DEF IInv, Placed
<1>2. id \notin LinksOfLayer(L) \/ L = 0
  BY <1>1 DEF IInv, LayersMatchLevels, LinksOfLayer
<1>3. NeighborsAt(id, L) = {}
  <2>1. CASE L = 0
    BY <1>1, <2>1 DEF IInv, Unlinked, NeighborsAt
  <2>2. CASE L # 0
    BY <1>1, <1>2, <2>2, ListFacts DEF IInv
  <2> QED  BY <2>1, <2>2
<1>4. ASSUME NEW n \in Node, id \in NeighborsAt(n, L) PROVE FALSE
  <2>1. n \in LinksOfLayer(L)
    BY <1>4, ListFacts DEF IInv
  <2>2. id \in Placed
    BY <1>4, <2>1 DEF IInv, LinksAreLocal, Placed
  <2> QED  BY <1>1, <2>2
<1> QED  BY <1>3, <1>4

LEMMA RegisterNodeKeeps == ASSUME IInv, RegisterNode PROVE IInv'
<1>1. /\ pc = "descend" /\ layer <= levels[id] /\ upper' = Register(upper, id, levels[id])
      /\ pc' = IF layer >= 0 THEN "layer" ELSE "back"
      /\ UNCHANGED <<vec, fraud, levels, conn0, entry, maxLayer, inserted, current,
                     layer, search, linkBack>>
  BY DEF RegisterNode
<1>2. /\ id \in Node /\ id \notin Present /\ inserted \in Nat \ {0} /\ levels[id] \in Int
      /\ layer \in Int /\ maxLayer \in Int /\ \A n \in Node : levels[n] \in Int
      /\ Present \subseteq Node /\ inserted < N /\ layer <= maxLayer
      /\ OnLayer({current}) /\ linkBack = {}
  BY <1>1, TypeFacts, BuilderAssumption DEF IInv, Position, Node
<1>3. /\ Writing = {} /\ Writing' = {id} /\ Present' = Present /\ Placed = Present
      /\ Placed' = Present \cup {id} /\ id' = id
  BY <1>1 DEF Writing, Present, Placed, id
<1>4. Len(upper) \in Nat /\ DOMAIN upper = 1 .. Len(upper) /\ Len(upper) = Larger(maxLayer, 0)
  BY <1>2, <1>3, LayerFacts DEF IInv, TopLayer
<1> DEFINE h == Larger(Len(upper), levels[id])
<1>5. /\ upper' \in Seq(LayerMap) /\ Len(upper') = h /\ h \in Nat
      /\ \A L \in 1 .. h :
           /\ L <= Len(upper) =>
                /\ DOMAIN upper'[L] = IF L <= levels[id] THEN DOMAIN upper[L] \cup {id}
                                      ELSE DOMAIN upper[L]
                /\ \A k \in DOMAIN upper'[L] :
                     upper'[L][k] = IF k \in DOMAIN upper[L] THEN upper[L][k] ELSE {}
           /\ ~ (L <= Len(upper)) =>
                /\ DOMAIN upper'[L] = IF L <= levels[id] THEN {id} ELSE {}
                /\ \A k \in DOMAIN upper'[L] : upper'[L][k] = {}
  <2>1. upper \in Seq(LayerMap) /\ id \in Node /\ levels[id] \in Int
        /\ upper' = Register(upper, id, levels[id])
    BY <1>1, <1>2 DEF IInv, Layers
  <2>2. IsRegistered(upper, id, levels[id], upper')
    BY <2>1, RegisterFacts
  <2> QED  BY <2>2 DEF IsRegistered
<1>6. h >= Len(upper) /\ DOMAIN upper' = 1 .. h
  BY <1>2, <1>4, <1>5, LenProperties DEF Larger
<1> HIDE DEF h
<1>7. TypeOK'
  <2>1. pc' \in {"layer", "back"}
    BY <1>1
  <2> QED  BY <1>1, <1>5, <2>1, MapsTyped DEF IInv, TypeOK, search, Visited
<1>8. LayersMatchLevels'
  <2> SUFFICES ASSUME NEW n \in Node, NEW L \in 1 .. h
               PROVE  n \in DOMAIN upper'[L] <=> n \in Present \cup {id} /\ levels[n] >= L
    BY <1>1, <1>3, <1>5 DEF LayersMatchLevels
  <2>1. CASE L <= Len(upper)
    <3>1. n \in DOMAIN upper[L] <=> n \in Present /\ levels[n] >= L
      BY <1>3, <1>4, <2>1 DEF IInv, LayersMatchLevels
    <3>2. DOMAIN upper'[L] = IF L <= levels[id] THEN DOMAIN upper[L] \cup {id}
                             ELSE DOMAIN upper[L]
      BY <1>5, <2>1
    <3>3. id \notin DOMAIN upper[L]
      BY <1>2, <1>3, <1>4, <2>1 DEF IInv, LayersMatchLevels
    <3>4. CASE n = id
      BY <1>2, <3>2, <3>3, <3>4
    <3>5. CASE n # id
      BY <3>1, <3>2, <3>5
    <3> QED  BY <3>4, <3>5
  <2>2. CASE ~ (L <= Len(upper))
    <3>2. n \in Present => ~ (levels[n] >= L)
      BY <1>2, <1>4, <2>2 DEF IInv, TopLayer, Larger
    <3>3. DOMAIN upper'[L] = IF L <= levels[id] THEN {id} ELSE {}
      BY <1>5, <2>2
    <3>4. CASE n = id
      BY <1>2, <3>3, <3>4
    <3>5. CASE n # id
      BY <3>2, <3>3, <3>5
    <3> QED  BY <3>4, <3>5
  <2> QED  BY <2>1, <2>2
<1>9. TopLayer'
  BY <1>1, <1>2, <1>3, <1>4, <1>5 DEF IInv, TopLayer, h, Larger
<1>10. ASSUME NEW n \in Node, NEW L \in 0 .. h
       PROVE  /\ NeighborsAt(n, L)' = IF L <= Len(upper) THEN NeighborsAt(n, L) ELSE {}
              /\ L = 0 => NeighborsAt(n, L)' = NeighborsAt(n, L)
  <2>1. CASE L = 0
    BY <1>1, <1>4, <2>1 DEF NeighborsAt
  <2>2. CASE L # 0 /\ L <= Len(upper)
    <3>1. L \in 1 .. h /\ L \in DOMAIN upper /\ L \in DOMAIN upper'
      BY <1>4, <1>6, <2>2
    <3>2. NeighborsAt(n, L)' = IF n \in DOMAIN upper'[L] THEN upper'[L][n] ELSE {}
      BY <2>2, <3>1 DEF NeighborsAt
    <3>3. NeighborsAt(n, L) = IF n \in DOMAIN upper[L] THEN upper[L][n] ELSE {}
      BY <2>2, <3>1 DEF NeighborsAt
    <3>4. /\ DOMAIN upper[L] \subseteq DOMAIN upper'[L]
          /\ \A k \in DOMAIN upper'[L] :
               upper'[L][k] = IF k \in DOMAIN upper[L] THEN upper[L][k] ELSE {}
      BY <1>5, <2>2, <3>1
    <3> QED  BY <2>2, <3>2, <3>3, <3>4
  <2>3. CASE ~ (L <= Len(upper))
    <3>1. L \in 1 .. h /\ L # 0
      BY <1>4, <2>3
    <3>2. NeighborsAt(n, L)' = IF n \in DOMAIN upper'[L] THEN upper'[L][n] ELSE {}
      BY <1>6, <3>1 DEF NeighborsAt
    <3>3. \A k \in DOMAIN upper'[L] : upper'[L][k] = {}
      BY <1>5, <2>3, <3>1
    <3> QED  BY <2>3, <3>1, <3>2, <3>3
  <2> QED  BY <1>4, <2>1, <2>2, <2>3
<1>11. LinksAreLocal'
  <2> SUFFICES ASSUME NEW L \in 0 .. h, NEW n \in LinksOfLayer(L)'
               PROVE  /\ Cardinality(NeighborsAt(n, L)') <= Capacity(L)
                      /\ \A nb \in NeighborsAt(n, L)' :
                           nb # n /\ nb \in Placed' /\ levels[nb] >= L
    BY <1>1, <1>5 DEF LinksAreLocal, Placed
  <2>1. n \in Node
    BY <1>5, <1>6, MapsTyped DEF LinksOfLayer
  <2>2. CASE NeighborsAt(n, L)' = {}
    BY <2>2, FS_EmptySet, BuilderAssumption DEF Capacity
  <2>3. CASE NeighborsAt(n, L)' # {}
    <3>1. L \in 0 .. Len(upper) /\ NeighborsAt(n, L)' = NeighborsAt(n, L)
      BY <1>4, <1>10, <2>1, <2>3
    <3>2. n \in LinksOfLayer(L)
      BY <2>1, <2>3, <3>1, ListFacts DEF IInv
    <3> QED  BY <1>3, <3>1, <3>2 DEF IInv, LinksAreLocal, Placed
  <2> QED  BY <2>2, <2>3
<1>12. Unlinked'
  <2>1. \A n \in Node \ Placed' : conn0'[n] = {}
    BY <1>1, <1>3 DEF IInv, Unlinked
  <2>2. ASSUME NEW L \in 0 .. h
        PROVE  NeighborsAt(id, L)' = {} /\ \A n \in Node : id \notin NeighborsAt(n, L)'
    BY <1>2, <1>3, <1>4, <1>10, NobodyKnowsIt
  <2>3. \A L \in 0 .. h : LinksOfLayer(L)' \subseteq Node
    BY <1>5, <1>6, MapsTyped DEF LinksOfLayer
  <2> QED  BY <1>3, <1>5, <2>1, <2>2, <2>3 DEF Unlinked
<1>13. Position'
  <2>1. OnLayer({current})' /\ OnLayer(linkBack)'
    BY <1>1, <1>2 DEF OnLayer, Present
  <2> QED  BY <1>1, <1>2, <2>1 DEF IInv, Position, Deciding, id
<1> QED  BY <1>5, <1>7, <1>8, <1>9, <1>11, <1>12, <1>13 DEF IInv, Layers

(* The first node has every list of its layers empty. *)
LEMMA InsertFirstKeeps == ASSUME IInv, InsertFirst PROVE IInv'
<1>1. PICK raw \in RawLevels :
        /\ levels' = [levels EXCEPT ![id] = PickLevel(raw)]
        /\ maxLayer' = PickLevel(raw) /\ upper' = Register(upper, id, PickLevel(raw))
  BY DEF InsertFirst
<1>2. /\ pc = "ready" /\ inserted = 0 /\ id = 0 /\ entry' = 0 /\ inserted' = 1
      /\ pc' = "ready" /\ linkBack' = linkBack /\ linkBack = {} /\ SetLabel(id)
      /\ UNCHANGED <<vec, conn0, current, layer, search>>
  BY DEF InsertFirst, id, IInv, Position
<1> DEFINE level == PickLevel(raw)
<1>3. level \in Level /\ level \in Int /\ 0 \in Node /\ 1 \in 0 .. N
  <2>1. level \in Level
    BY DEF Level
  <2>2. N \in Nat \ {0} /\ Level \cup {0} \subseteq -128 .. 31
    BY LevelFacts, BuilderAssumption
  <2> HIDE DEF level
  <2> QED  BY <2>1, <2>2 DEF Node
<1> HIDE DEF level
<1>4. /\ Present = {} /\ Writing = {} /\ Placed = {} /\ Present' = {0} /\ Writing' = {}
      /\ Placed' = {0}
  BY <1>2 DEF Present, Writing, Placed
<1>5. upper \in Seq(LayerMap) /\ Len(upper) = 0 /\ upper' = Register(upper, 0, level)
  BY <1>1, <1>2 DEF IInv, Layers, TopLayer, level
<1>6. IsRegistered(upper, 0, level, upper')
  BY <1>3, <1>5, RegisterFacts
<1>7. /\ upper' \in Seq(LayerMap) /\ Len(upper') = Larger(0, level)
      /\ Larger(0, level) \in Nat /\ DOMAIN upper' = 1 .. Larger(0, level)
      /\ \A L \in 1 .. Larger(0, level) : /\ DOMAIN upper'[L] = {0}
                                          /\ \A k \in DOMAIN upper'[L] : upper'[L][k] = {}
  <2>1. /\ upper' \in Seq(LayerMap) /\ Len(upper') = Larger(0, level)
        /\ Larger(0, level) \in Nat
        /\ \A L \in 1 .. Larger(0, level) :
              ~ (L <= 0) => /\ DOMAIN upper'[L] = IF L <= level THEN {0} ELSE {}
                            /\ \A k \in DOMAIN upper'[L] : upper'[L][k] = {}
    BY <1>5, <1>6 DEF IsRegistered
  <2>2. \A L \in 1 .. Larger(0, level) : ~ (L <= 0) /\ L <= level
    BY <1>3 DEF Larger
  <2> QED  BY <2>1, <2>2, LenProperties
<1>8. levels' \in [Node -> Level \cup {0}] /\ levels'[0] = level /\ maxLayer' = level
  BY <1>1, <1>2, <1>3 DEF IInv, TypeOK, level
<1>9. TypeOK'
  <2>1. fraud' \subseteq Node
    BY <1>2, <1>3 DEF IInv, TypeOK, SetLabel
  <2>2. \A L \in DOMAIN upper' : /\ DOMAIN upper'[L] \subseteq Node
                                 /\ \A n \in DOMAIN upper'[L] : upper'[L][n] \subseteq Node
    BY <1>3, <1>7
  <2>3. maxLayer' \in Level \cup {0} /\ entry' \in Node /\ inserted' \in 0 .. N
    BY <1>2, <1>3, <1>8
  <2> QED  BY <1>2, <1>8, <2>1, <2>2, <2>3 DEF IInv, TypeOK, search, Visited
<1>10. LayersMatchLevels'
  <2> SUFFICES ASSUME NEW n \in Node, NEW L \in 1 .. Larger(0, level)
               PROVE  n \in DOMAIN upper'[L] <=> n = 0 /\ levels'[n] >= L
    BY <1>4, <1>7 DEF LayersMatchLevels
  <2> QED  BY <1>3, <1>7, <1>8 DEF Larger
<1>11. TopLayer'
  <2>1. Larger(0, level) = Larger(level, 0)
    BY <1>3 DEF Larger
  <2> QED  BY <1>2, <1>3, <1>4, <1>7, <1>8, <2>1 DEF TopLayer
<1>12. \A n \in Node : \A L \in 0 .. Len(upper') : NeighborsAt(n, L)' = {}
  <2>1. \A n \in Node : conn0'[n] = {}
    BY <1>2, <1>4 DEF IInv, Unlinked
  <2> SUFFICES ASSUME NEW n \in Node, NEW L \in 0 .. Len(upper')
               PROVE  NeighborsAt(n, L)' = {}
    OBVIOUS
  <2>2. L # 0 => L \in 1 .. Larger(0, level)
    BY <1>7
  <2> QED  BY <1>7, <2>1, <2>2 DEF NeighborsAt
<1>13. LinksAreLocal'
  <2> SUFFICES ASSUME NEW L \in 0 .. Len(upper'), NEW n \in LinksOfLayer(L)'
               PROVE  /\ Cardinality(NeighborsAt(n, L)') <= Capacity(L)
                      /\ NeighborsAt(n, L)' = {}
    BY DEF LinksAreLocal
  <2>1. n \in Node
    BY <1>3, <1>7 DEF LinksOfLayer
  <2>2. Capacity(L) \in Nat
    BY BuilderAssumption DEF Capacity
  <2>3. NeighborsAt(n, L)' = {}
    BY <1>12, <2>1
  <2> QED  BY <2>2, <2>3, FS_EmptySet
<1>14. Unlinked'
  BY <1>2, <1>4 DEF IInv, Unlinked
<1>15. Position'
  BY <1>2 DEF Position, Deciding
<1> QED  BY <1>7, <1>9, <1>10, <1>11, <1>13, <1>14, <1>15 DEF IInv, Layers

(* The node whose level is drawn is not present yet. *)
LEMMA BeginInsertKeeps == ASSUME IInv, BeginInsert PROVE IInv'
<1>1. PICK raw \in RawLevels : levels' = [levels EXCEPT ![id] = PickLevel(raw)]
  BY DEF BeginInsert
<1>2. /\ pc = "ready" /\ inserted \in Node \ {0} /\ SetLabel(id) /\ current' = entry
      /\ layer' = maxLayer /\ pc' = "descend" /\ linkBack = {}
      /\ UNCHANGED <<vec, inserted, conn0, upper, entry, maxLayer, search, linkBack>>
  BY DEF BeginInsert, IInv, Position
<1>3. /\ PickLevel(raw) \in Level /\ id \in Node /\ id \notin Present /\ inserted > 0
      /\ inserted \in Nat /\ Present \subseteq Node /\ maxLayer \in Int
  BY <1>2, TypeFacts, BuilderAssumption DEF IInv, Level, Node
<1>4. /\ levels' \in [Node -> Level \cup {0}]
      /\ \A n \in Node : n # id => levels'[n] = levels[n]
  BY <1>1, <1>3 DEF IInv, TypeOK
<1>5. /\ Writing = {} /\ Writing' = {} /\ Present' = Present /\ Placed = Present
      /\ Placed' = Present
  BY <1>2 DEF Writing, Placed, Present
<1>6. Len(upper) \in Nat /\ DOMAIN upper = 1 .. Len(upper)
  BY LayerFacts DEF IInv
<1>7. TypeOK'
  <2>1. fraud' \subseteq Node
    BY <1>2, <1>3 DEF IInv, TypeOK, SetLabel
  <2> QED  BY <1>2, <1>4, <2>1 DEF IInv, TypeOK, search, Visited
<1>8. \A n \in Present : levels'[n] = levels[n]
  BY <1>3, <1>4
<1>9. LayersMatchLevels'
  <2> SUFFICES ASSUME NEW n \in Node, NEW L \in 1 .. Len(upper)
               PROVE  n \in DOMAIN upper[L] <=> n \in Present /\ levels'[n] >= L
    BY <1>2, <1>5 DEF LayersMatchLevels
  <2>1. n \in DOMAIN upper[L] <=> n \in Present /\ levels[n] >= L
    BY <1>5 DEF IInv, LayersMatchLevels
  <2> QED  BY <1>8, <2>1
<1>10. TopLayer'
  BY <1>2, <1>3, <1>5, <1>8 DEF IInv, TopLayer
<1>11. \A L, n : NeighborsAt(n, L)' = NeighborsAt(n, L) /\ LinksOfLayer(L)' = LinksOfLayer(L)
  BY <1>2 DEF NeighborsAt, LinksOfLayer
<1>12. LinksAreLocal'
  BY <1>2, <1>5, <1>8, <1>11 DEF IInv, LinksAreLocal
<1>13. Unlinked'
  BY <1>2, <1>5 DEF IInv, Unlinked
<1>14. Position'
  <2>1. entry \in Present /\ levels[entry] = maxLayer
    BY <1>3 DEF IInv, TopLayer
  <2>2. OnLayer({current})'
    BY <1>2, <1>3, <1>5, <1>8, <2>1 DEF OnLayer
  <2> QED  BY <1>2, <1>3, <2>2 DEF Position, Deciding
<1>15. Layers'
  BY <1>2 DEF IInv, Layers
<1> QED  BY <1>7, <1>9, <1>10, <1>12, <1>13, <1>14, <1>15 DEF IInv

-----------------------------------------------------------------------------
(***************************************************************************)
(* Replacing the list of a node that lives on the layer the insertion      *)
(* works on changes that list and no other.                                *)
(***************************************************************************)
Linking(n, nbs) ==
  /\ pc \in {"connect", "back"} /\ pc' = "back" /\ layer' = layer
  /\ 0 <= layer /\ layer <= levels[id]
  /\ n \in Placed /\ levels[n] >= layer
  /\ nbs \in SUBSET Node /\ Cardinality(nbs) <= Capacity(layer)
  /\ \A nb \in nbs : nb # n /\ nb \in Placed /\ levels[nb] >= layer
  /\ SetNeighbors(n, nbs)
  /\ UNCHANGED <<vec, fraud, levels, entry, maxLayer, inserted>>

LEMMA LinkingFacts ==
  ASSUME IInv, NEW n, NEW nbs, Linking(n, nbs)
  PROVE  /\ n \in Node /\ layer \in 0 .. Len(upper) /\ conn0' \in [Node -> SUBSET Node]
         /\ upper' \in Seq(LayerMap) /\ Len(upper') = Len(upper) /\ Len(upper) \in Nat
         /\ \A L \in 0 .. Len(upper) : LinksOfLayer(L)' = LinksOfLayer(L)
         /\ \A k \in Node : \A L \in 0 .. Len(upper) :
              NeighborsAt(k, L)' = IF k = n /\ L = layer THEN nbs ELSE NeighborsAt(k, L)
<1>1. /\ id \in Node /\ inserted > 0 /\ Writing = {id} /\ levels[id] \in Int
      /\ layer \in Int /\ maxLayer \in Int /\ Placed \subseteq Node
      /\ n \in Node /\ nbs \in SUBSET Node /\ 0 <= layer
  <2>1. inserted \in Node \ {0} /\ Writing = {id}
    BY DEF Linking, IInv, Position, Writing
  <2>2. inserted > 0 /\ inserted < N
    BY <2>1, BuilderAssumption DEF Node
  <2> QED  BY <2>1, <2>2, TypeFacts DEF Linking, IInv, Placed
<1>2. /\ Len(upper) \in Nat /\ DOMAIN upper = 1 .. Len(upper) /\ upper \in Seq(LayerMap)
  BY LayerFacts DEF IInv, Layers
<1>3. layer \in 0 .. Len(upper)
  <2>1. Len(upper) = Larger(Larger(maxLayer, 0), levels[id])
    BY <1>1 DEF IInv, TopLayer
  <2>2. layer <= levels[id]
    BY DEF Linking
  <2> QED  BY <1>1, <1>2, <2>1, <2>2 DEF Larger
<1>4. CASE layer = 0
  <2>1. conn0' = [conn0 EXCEPT ![n] = nbs] /\ upper' = upper
    BY <1>4 DEF Linking, SetNeighbors
  <2>2. conn0' \in [Node -> SUBSET Node] /\ conn0 \in [Node -> SUBSET Node]
    BY <1>1, <2>1 DEF IInv, TypeOK
  <2>3. \A L : LinksOfLayer(L)' = LinksOfLayer(L)
    BY <2>1 DEF LinksOfLayer
  <2>4. ASSUME NEW k \in Node, NEW L \in 0 .. Len(upper)
        PROVE  NeighborsAt(k, L)' = IF k = n /\ L = layer THEN nbs ELSE NeighborsAt(k, L)
    <3>1. conn0'[k] = IF k = n THEN nbs ELSE conn0[k]
      BY <2>1, <2>2
    <3> QED  BY <1>4, <2>1, <3>1 DEF NeighborsAt
  <2> QED  BY <1>1, <1>2, <1>3, <2>1, <2>2, <2>3, <2>4
<1>5. CASE layer # 0
  <2> DEFINE map == With(upper[layer], n, nbs)
  <2>1. upper' = [upper EXCEPT ![layer] = map] /\ conn0' = conn0
    BY <1>5 DEF Linking, SetNeighbors
  <2>2. layer \in 1 .. Len(upper) /\ layer \in DOMAIN upper
    BY <1>2, <1>3, <1>5
  <2>3. upper[layer] \in LayerMap
    BY <1>2, <2>2, ElementOfSeq
  <2>4. n \in DOMAIN upper[layer]
    BY <1>1, <2>2 DEF Linking, IInv, LayersMatchLevels, Placed
  <2>5. /\ map \in LayerMap /\ DOMAIN map = DOMAIN upper[layer]
        /\ \A k \in DOMAIN map : map[k] = IF k = n THEN nbs ELSE upper[layer][k]
    <3>1. DOMAIN upper[layer] \cup {n} = DOMAIN upper[layer]
      BY <2>4
    <3>2. map \in LayerMap /\ DOMAIN map = DOMAIN upper[layer] \cup {n}
      BY <1>1, <2>3, WithFacts
    <3>3. \A k \in DOMAIN upper[layer] \cup {n} :
            map[k] = IF k = n THEN nbs ELSE upper[layer][k]
      BY DEF With
    <3> HIDE DEF map
    <3> QED  BY <3>1, <3>2, <3>3
  <2> HIDE DEF map
  <2>6. /\ upper' \in Seq(LayerMap) /\ Len(upper') = Len(upper)
        /\ DOMAIN upper' = DOMAIN upper
        /\ \A L \in DOMAIN upper : upper'[L] = IF L = layer THEN map ELSE upper[L]
    <3> DEFINE new == [upper EXCEPT ![layer] = map]
    <3>1. /\ new \in Seq(LayerMap) /\ Len(new) = Len(upper)
          /\ \A L \in 1 .. Len(upper) : new[L] = IF L = layer THEN map ELSE upper[L]
      BY <1>2, <2>2, <2>5, ExceptSeq
    <3> HIDE DEF new
    <3>2. upper' = new
      BY <2>1 DEF new
    <3> QED  BY <1>2, <3>1, <3>2, LenProperties
  <2>7. \A L \in 0 .. Len(upper) : LinksOfLayer(L)' = LinksOfLayer(L)
    <3> SUFFICES ASSUME NEW L \in 1 .. Len(upper)
                 PROVE  DOMAIN upper'[L] = DOMAIN upper[L]
      BY <1>2 DEF LinksOfLayer
    <3> QED  BY <1>2, <2>5, <2>6
  <2>8. ASSUME NEW k \in Node, NEW L \in 0 .. Len(upper)
        PROVE  NeighborsAt(k, L)' = IF k = n /\ L = layer THEN nbs ELSE NeighborsAt(k, L)
    <3>1. CASE L = 0
      BY <1>5, <2>1, <3>1 DEF NeighborsAt
    <3>2. CASE L # 0 /\ L # layer
      BY <2>6, <3>2 DEF NeighborsAt
    <3>3. CASE L # 0 /\ L = layer
      BY <2>2, <2>4, <2>5, <2>6, <3>3 DEF NeighborsAt
    <3> QED  BY <3>1, <3>2, <3>3
  <2>9. conn0' \in [Node -> SUBSET Node]
    BY <2>1 DEF IInv, TypeOK
  <2> QED  BY <1>1, <1>2, <1>3, <2>6, <2>7, <2>8, <2>9
<1> QED  BY <1>4, <1>5

LEMMA LinkingKeeps ==
  ASSUME IInv, NEW n, NEW nbs, Linking(n, nbs)
  PROVE  Layers' /\ LayersMatchLevels' /\ TopLayer' /\ LinksAreLocal' /\ Unlinked'
<1>1. /\ pc \in {"connect", "back"} /\ pc' = "back" /\ layer' = layer
      /\ n \in Placed /\ Cardinality(nbs) <= Capacity(layer)
      /\ \A nb \in nbs : nb # n /\ nb \in Placed /\ levels[nb] >= layer
      /\ UNCHANGED <<vec, fraud, levels, entry, maxLayer, inserted>>
  BY DEF Linking
<1>2. /\ n \in Node /\ layer \in 0 .. Len(upper) /\ conn0' \in [Node -> SUBSET Node]
      /\ upper' \in Seq(LayerMap) /\ Len(upper') = Len(upper) /\ Len(upper) \in Nat
      /\ \A L \in 0 .. Len(upper) : LinksOfLayer(L)' = LinksOfLayer(L)
      /\ \A k \in Node : \A L \in 0 .. Len(upper) :
           NeighborsAt(k, L)' = IF k = n /\ L = layer THEN nbs ELSE NeighborsAt(k, L)
  BY LinkingFacts
<1>3. /\ Writing = {id} /\ Writing' = Writing /\ Present' = Present /\ Placed' = Placed
      /\ id' = id
  BY <1>1 DEF Writing, Present, Placed, id
<1>4. \A L \in 0 .. Len(upper) : LinksOfLayer(L) \subseteq Node
  BY LayerFacts DEF IInv, LinksOfLayer
<1>5. Layers'
  BY <1>2 DEF Layers
<1>6. LayersMatchLevels'
  <2> SUFFICES ASSUME NEW k \in Node, NEW L \in 1 .. Len(upper)
               PROVE  k \in DOMAIN upper'[L] <=> k \in Present \cup Writing /\ levels[k] >= L
    BY <1>1, <1>2, <1>3 DEF LayersMatchLevels
  <2>1. L \in 0 .. Len(upper) /\ L # 0
    BY <1>2
  <2>2. LinksOfLayer(L)' = LinksOfLayer(L)
    BY <1>2, <2>1
  <2>3. DOMAIN upper'[L] = DOMAIN upper[L]
    BY <2>1, <2>2 DEF LinksOfLayer
  <2> QED  BY <2>3 DEF IInv, LayersMatchLevels
<1>7. TopLayer'
  BY <1>1, <1>2, <1>3 DEF IInv, TopLayer
<1>8. LinksAreLocal'
  <2> SUFFICES ASSUME NEW L \in 0 .. Len(upper), NEW k \in LinksOfLayer(L)
               PROVE  /\ Cardinality(NeighborsAt(k, L)') <= Capacity(L)
                      /\ \A nb \in NeighborsAt(k, L)' :
                           nb # k /\ nb \in Placed /\ levels[nb] >= L
    BY <1>1, <1>2, <1>3 DEF LinksAreLocal, Placed
  <2>1. k \in Node
    BY <1>4
  <2>2. CASE k = n /\ L = layer
    BY <1>1, <1>2, <2>1, <2>2
  <2>3. CASE ~ (k = n /\ L = layer)
    <3>1. NeighborsAt(k, L)' = NeighborsAt(k, L)
      BY <1>2, <2>1, <2>3
    <3> QED  BY <3>1 DEF IInv, LinksAreLocal, Placed
  <2> QED  BY <2>2, <2>3
<1>9. Unlinked'
  <2>1. \A k \in Node \ Placed' : conn0'[k] = {}
    <3> SUFFICES ASSUME NEW k \in Node, k \notin Placed PROVE conn0'[k] = {}
      BY <1>3
    <3>1. 0 \in 0 .. Len(upper) /\ k # n
      BY <1>1, <1>2
    <3>2. NeighborsAt(k, 0)' = NeighborsAt(k, 0)
      BY <1>2, <3>1
    <3>3. conn0'[k] = conn0[k] /\ conn0[k] = {}
      BY <3>2 DEF NeighborsAt, IInv, Unlinked
    <3> QED  BY <3>3
  <2>2. ASSUME NEW L \in 0 .. Len(upper), NotYetLinked(L)'
        PROVE  NeighborsAt(id, L)' = {} /\ \A k \in LinksOfLayer(L)' : id \notin NeighborsAt(k, L)'
    <3>1. NotYetLinked(L) /\ L # layer
      BY <1>1, <1>2, <2>2 DEF NotYetLinked
    <3>2. \A k \in Node : NeighborsAt(k, L)' = NeighborsAt(k, L)
      BY <1>2, <3>1
    <3>3. id \in Node
      BY <1>1 DEF IInv, Position, id
    <3>4. NeighborsAt(id, L) = {} /\ \A k \in LinksOfLayer(L) : id \notin NeighborsAt(k, L)
      BY <1>3, <3>1 DEF IInv, Unlinked
    <3> QED  BY <1>2, <1>3, <1>4, <3>2, <3>3, <3>4
  <2> QED  BY <1>2, <1>3, <2>1, <2>2 DEF Unlinked
<1> QED  BY <1>5, <1>6, <1>7, <1>8, <1>9

-----------------------------------------------------------------------------
LEMMA CapacityFacts == ASSUME NEW L PROVE Capacity(L) \in Nat \ {0}
BY BuilderAssumption DEF Capacity

(* The new node links to nodes of the layer, none of which is itself. *)
LEMMA LinkOutLinks ==
  ASSUME IInv, LinkOut
  PROVE  \E selected \in SUBSET Node :
           /\ Linking(id, selected) /\ OnLayer(selected) /\ selected # {}
           /\ linkBack' = selected /\ current' \in Node /\ OnLayer({current'})
<1> DEFINE m == Capacity(layer)
<1>1. PICK outcome \in Outcomes(id, res, m) :
        /\ SetNeighbors(id, outcome.kept) /\ linkBack' = outcome.kept
        /\ current' \in NextEntry(id, outcome)
  BY DEF LinkOut
<1> DEFINE selected == outcome.kept
<1>2. /\ pc = "connect" /\ pc' = "back" /\ cands' = {} /\ res' = {} /\ node' = 0
      /\ UNCHANGED <<vec, fraud, levels, entry, maxLayer, inserted, layer, marks, visGen>>
  BY DEF LinkOut
<1>3. /\ inserted \in Node \ {0} /\ id \in Node /\ id \notin Present /\ layer <= maxLayer
      /\ 0 <= layer /\ layer <= levels[id] /\ res # {} /\ OnLayer(res)
      /\ res \in SUBSET Node /\ Writing = {id} /\ vec \in [Node -> Point] /\ 0 \in Node
      /\ layer \in Int
  <2>1. inserted \in Node \ {0}
    BY <1>2 DEF IInv, Position
  <2>2. inserted < N /\ 0 \in Node
    BY <2>1, BuilderAssumption DEF Node
  <2>3. res \subseteq Node
    BY DEF IInv, TypeOK, Visited
  <2> QED  BY <1>2, <2>1, <2>2, <2>3, TypeFacts
       DEF IInv, TypeOK, Position, Deciding, OnLayer, Writing
<1>4. /\ selected \subseteq res /\ selected # {} /\ Cardinality(selected) <= m
      /\ current' \in res
  <2>1. m \in Nat \ {0}
    BY CapacityFacts
  <2> HIDE DEF m
  <2> QED  BY <1>1, <1>3, <2>1, OutcomeFacts, NextEntryIsNearest
<1> HIDE DEF selected
<1>5. Linking(id, selected)
  BY <1>1, <1>2, <1>3, <1>4 DEF Linking, Placed, OnLayer, selected
<1>6. OnLayer(selected) /\ OnLayer({current'}) /\ current' \in Node
  BY <1>1, <1>3, <1>4 DEF OnLayer
<1>7. selected \in SUBSET Node /\ linkBack' = selected
  BY <1>1, <1>3, <1>4 DEF selected
<1> QED  BY <1>4, <1>5, <1>6, <1>7

LEMMA LinkOutKeeps == ASSUME IInv, LinkOut PROVE IInv'
<1>1. PICK selected \in SUBSET Node :
        /\ Linking(id, selected) /\ OnLayer(selected) /\ selected # {}
        /\ linkBack' = selected /\ current' \in Node /\ OnLayer({current'})
  BY LinkOutLinks
<1>2. /\ pc = "connect" /\ pc' = "back" /\ cands' = {} /\ res' = {} /\ node' = 0
      /\ UNCHANGED <<vec, fraud, levels, entry, maxLayer, inserted, layer, marks, visGen>>
      /\ 0 \in Node
  BY BuilderAssumption DEF LinkOut, Node
<1>3. /\ inserted \in Node \ {0} /\ layer \in Int /\ 0 <= layer /\ layer <= maxLayer
      /\ layer <= levels[id]
  BY <1>2, TypeFacts DEF IInv, Position, Deciding
<1>4. conn0' \in [Node -> SUBSET Node] /\ upper' \in Seq(LayerMap)
  BY <1>1, LinkingFacts
<1>5. TypeOK'
  BY <1>1, <1>2, <1>4, MapsTyped DEF IInv, TypeOK, Visited
<1>6. Position'
  <2>1. OnLayer(linkBack)' /\ OnLayer({current})'
    BY <1>1, <1>2 DEF OnLayer, Present
  <2> QED  BY <1>2, <1>3, <2>1 DEF Position, Deciding, id
<1> QED  BY <1>1, <1>5, <1>6, LinkingKeeps DEF IInv

(* A neighbour keeps nodes of the layer, of which the new one is one. *)
LEMMA LinkBackLinks ==
  ASSUME IInv, LinkBack
  PROVE  \E s \in linkBack : \E kept \in SUBSET Node :
           /\ Linking(s, kept) /\ kept # {} /\ linkBack' = linkBack \ {s}
           /\ \A old \in NeighborsAt(s, layer) : \E t \in kept : D(s, t) <= D(s, old)
<1>1. PICK s \in NearestTo(id, linkBack) :
        /\ \E kept \in Selections(s, NeighborsAt(s, layer) \cup {id}, Capacity(layer)) :
             SetNeighbors(s, kept)
        /\ linkBack' = linkBack \ {s}
  BY DEF LinkBack
<1>2. PICK kept \in Selections(s, NeighborsAt(s, layer) \cup {id}, Capacity(layer)) :
        SetNeighbors(s, kept)
  BY <1>1
<1>3. /\ pc = "back" /\ pc' = "back" /\ s \in linkBack
      /\ UNCHANGED <<vec, fraud, levels, entry, maxLayer, inserted, current, layer, search>>
  BY <1>1 DEF LinkBack, NearestTo
<1>4. /\ inserted \in Node \ {0} /\ id \in Node /\ id \notin Present /\ layer <= maxLayer
      /\ layer <= levels[id] /\ OnLayer(linkBack) /\ OnLayer({current}) /\ 0 <= layer
      /\ Writing = {id} /\ vec \in [Node -> Point] /\ layer \in Int
      /\ s \in Present /\ s \in Node /\ levels[s] >= layer
  <2>1. inserted \in Node \ {0} /\ ~ (layer < 0)
    BY <1>3 DEF IInv, Position
  <2>2. inserted < N
    BY <2>1, BuilderAssumption DEF Node
  <2>3. layer \in Int /\ id \in Node /\ id \notin Present /\ Present \subseteq Node
    BY <2>2, TypeFacts DEF IInv
  <2>4. layer <= maxLayer /\ layer <= levels[id] /\ OnLayer(linkBack) /\ OnLayer({current})
    BY <1>3, <2>1 DEF IInv, Position
  <2>5. s \in Present /\ levels[s] >= layer
    BY <1>3, <2>4 DEF OnLayer
  <2> QED  BY <1>3, <2>1, <2>3, <2>4, <2>5 DEF IInv, TypeOK, Writing
<1>5. \A nb \in NeighborsAt(s, layer) \cup {id} :
        nb \in Node /\ nb # s /\ nb \in Placed /\ levels[nb] >= layer
  <2>1. CASE NeighborsAt(s, layer) = {}
    BY <1>4, <2>1 DEF Placed
  <2>2. CASE NeighborsAt(s, layer) # {}
    <3>1. Len(upper) \in Nat /\ DOMAIN upper = 1 .. Len(upper)
      BY LayerFacts DEF IInv
    <3>2. layer \in 0 .. Len(upper) /\ s \in LinksOfLayer(layer)
      BY <1>4, <2>2, <3>1 DEF NeighborsAt, LinksOfLayer
    <3>3. \A nb \in NeighborsAt(s, layer) : nb # s /\ nb \in Placed /\ levels[nb] >= layer
      BY <3>2 DEF IInv, LinksAreLocal, Placed
    <3>4. Placed \subseteq Node
      BY <1>4, TypeFacts DEF Placed, IInv
    <3> QED  BY <1>4, <3>3, <3>4 DEF Placed
  <2> QED  BY <2>1, <2>2
<1>6. /\ kept \subseteq NeighborsAt(s, layer) \cup {id}
      /\ Cardinality(kept) <= Capacity(layer) /\ kept # {}
      /\ \A old \in NeighborsAt(s, layer) \cup {id} : \E t \in kept : D(s, t) <= D(s, old)
  <2> DEFINE S == NeighborsAt(s, layer) \cup {id}
             m == Capacity(layer)
  <2>1. S \in SUBSET Node /\ S # {} /\ m \in Nat \ {0} /\ kept \in Selections(s, S, m)
    BY <1>2, <1>5, CapacityFacts
  <2> HIDE DEF S, m
  <2>2. /\ kept \subseteq S /\ kept # {} /\ Cardinality(kept) <= m
        /\ \A old \in S : \E t \in kept : D(s, t) <= D(s, old)
    BY <1>4, <2>1, SelectionFacts
  <2> QED  BY <2>2 DEF S, m
<1>7. Linking(s, kept)
  BY <1>2, <1>3, <1>4, <1>5, <1>6 DEF Linking, Placed
<1>8. kept \in SUBSET Node
  BY <1>5, <1>6
<1> QED  BY <1>1, <1>3, <1>6, <1>7, <1>8

LEMMA LinkBackKeeps == ASSUME IInv, LinkBack PROVE IInv'
<1>1. PICK s \in linkBack, kept \in SUBSET Node :
        Linking(s, kept) /\ linkBack' = linkBack \ {s}
  BY LinkBackLinks
<1>2. /\ pc = "back" /\ pc' = "back"
      /\ UNCHANGED <<vec, fraud, levels, entry, maxLayer, inserted, current, layer, search>>
  BY DEF LinkBack
<1>3. /\ inserted \in Node \ {0} /\ layer <= maxLayer /\ layer <= levels[id]
      /\ OnLayer(linkBack) /\ OnLayer({current}) /\ ~ (layer < 0)
  BY <1>1, <1>2 DEF IInv, Position
<1>4. conn0' \in [Node -> SUBSET Node] /\ upper' \in Seq(LayerMap)
  BY <1>1, LinkingFacts
<1>5. TypeOK'
  BY <1>1, <1>2, <1>4, MapsTyped DEF IInv, TypeOK, search, Visited
<1>6. Position'
  <2>1. OnLayer(linkBack)' /\ OnLayer({current})'
    BY <1>1, <1>2, <1>3 DEF OnLayer, Present
  <2> QED  BY <1>2, <1>3, <2>1 DEF Position, Deciding, id
<1> QED  BY <1>1, <1>5, <1>6, LinkingKeeps DEF IInv

LEMMA NextLayerKeeps == ASSUME IInv, NextLayer PROVE IInv'
<1>1. /\ pc = "back" /\ linkBack = {} /\ layer > 0 /\ layer' = layer - 1 /\ pc' = "layer"
      /\ UNCHANGED <<graph, inserted, current, search, linkBack>>
  BY DEF NextLayer
<1>2. /\ inserted \in Node \ {0} /\ id \in Node /\ layer <= maxLayer /\ layer <= levels[id]
      /\ OnLayer({current}) /\ layer \in Int /\ maxLayer \in Int /\ levels[id] \in Int
      /\ \A n \in Present : levels[n] \in Int
  <2>1. inserted \in Node \ {0} /\ layer \in Int /\ maxLayer \in Int
    BY <1>1, TypeFacts DEF IInv, Position
  <2>2. id \in Node /\ \A n \in Node : levels[n] \in Int
    BY <2>1, TypeFacts DEF id, IInv
  <2>3. layer <= maxLayer /\ layer <= levels[id] /\ OnLayer({current})
    BY <1>1, <2>1 DEF IInv, Position
  <2> QED  BY <2>1, <2>2, <2>3, TypeFacts DEF IInv
<1>3. Writing' = Writing /\ inserted # 0
  BY <1>1, <1>2 DEF Writing, id
<1>4. \A L \in 0 .. Len(upper) : NotYetLinked(L)' => NotYetLinked(L)
  <2>1. Len(upper) \in Nat
    BY LayerFacts DEF IInv
  <2> QED  BY <1>1, <1>2, <2>1 DEF NotYetLinked
<1>5. TypeOK'
  <2>1. layer' \in Nat
    BY <1>1, <1>2
  <2> QED  BY <1>1, <2>1 DEF IInv, TypeOK, graph, search, Visited
<1>6. Position'
  <2>1. current' = current /\ levels' = levels /\ Present' = Present
    BY <1>1 DEF Present, graph
  <2>2. current \in Present /\ levels[current] >= layer
    BY <1>2 DEF OnLayer
  <2>3. levels[current] >= layer'
    BY <1>1, <1>2, <2>2
  <2>4. OnLayer({current})'
    BY <2>1, <2>2, <2>3 DEF OnLayer
  <2> QED  BY <1>1, <1>2, <2>4 DEF Position, Deciding, id, graph
<1> QED  BY <1>1, <1>3, <1>4, <1>5, <1>6, GraphKept DEF IInv

(* The node inserted is present from now on; the layers it needs are there. *)
LEMMA FinishKeeps == ASSUME IInv, FinishInsert PROVE IInv'
<1>1. /\ pc = "back" /\ linkBack = {} /\ layer <= 0 /\ inserted' = inserted + 1 /\ pc' = "ready"
      /\ IF levels[id] > maxLayer
         THEN /\ entry' = id /\ maxLayer' = levels[id]
              /\ upper' = EnsureLayers(upper, levels[id])
         ELSE UNCHANGED <<entry, maxLayer, upper>>
      /\ UNCHANGED <<vec, fraud, levels, conn0, current, layer, search, linkBack>>
  BY DEF FinishInsert
<1>2. /\ inserted \in Node \ {0} /\ inserted \in Nat /\ inserted + 1 \in 0 .. N
      /\ id \in Node /\ levels[id] \in Int /\ maxLayer \in Int
      /\ \A n \in Node : levels[n] \in Int
      /\ Present \subseteq Node /\ id \notin Present /\ inserted > 0
  <2>1. inserted \in Node \ {0}
    BY <1>1 DEF IInv, Position
  <2>2. /\ inserted \in Nat /\ inserted + 1 \in 0 .. N /\ id \in Node /\ inserted < N
        /\ inserted > 0
    BY <2>1, BuilderAssumption DEF Node, id
  <2> QED  BY <2>1, <2>2, TypeFacts DEF IInv
<1>3. /\ Writing = {id} /\ Writing' = {} /\ Present' = Present \cup {id}
      /\ Placed' = Placed /\ Present' = Placed
  BY <1>1, <1>2 DEF Writing, Present, Placed, id
<1>4. /\ Len(upper) \in Nat /\ DOMAIN upper = 1 .. Len(upper) /\ upper \in Seq(LayerMap)
      /\ Len(upper) = Larger(Larger(maxLayer, 0), levels[id])
  BY <1>2, <1>3, LayerFacts DEF IInv, Layers, TopLayer
<1>5. upper' = upper
  <2>1. CASE levels[id] > maxLayer
    <3>1. Larger(Len(upper), levels[id]) = Len(upper)
      BY <1>2, <1>4 DEF Larger
    <3>2. EnsureLayers(upper, levels[id]) = [L \in 1 .. Len(upper) |-> upper[L]]
      BY <3>1, <1>4 DEF EnsureLayers
    <3>3. [L \in 1 .. Len(upper) |-> upper[L]] = upper
      BY <1>4
    <3> QED  BY <1>1, <2>1, <3>2, <3>3
  <2>2. CASE ~ (levels[id] > maxLayer)
    BY <1>1, <2>2
  <2> QED  BY <2>1, <2>2
<1>6. \A L, n : NeighborsAt(n, L)' = NeighborsAt(n, L) /\ LinksOfLayer(L)' = LinksOfLayer(L)
  BY <1>1, <1>5 DEF NeighborsAt, LinksOfLayer
<1>7. TypeOK'
  <2>1. entry' \in Node /\ maxLayer' \in Level \cup {0}
    BY <1>1, <1>2 DEF IInv, TypeOK
  <2> QED  BY <1>1, <1>2, <1>5, <2>1 DEF IInv, TypeOK, search, Visited
<1>8. Layers' /\ LayersMatchLevels'
  BY <1>1, <1>3, <1>5 DEF IInv, Layers, LayersMatchLevels, Placed
<1>9. TopLayer'
  <2>1. /\ entry \in Present /\ levels[entry] = maxLayer
        /\ \A n \in Present : levels[n] <= maxLayer
    BY <1>2 DEF IInv, TopLayer
  <2>2. entry' \in Present' /\ levels[entry'] = maxLayer'
    BY <1>1, <1>3, <2>1
  <2>3. \A n \in Present' : levels[n] <= maxLayer'
    BY <1>1, <1>2, <1>3, <2>1
  <2>4. Len(upper) = Larger(maxLayer', 0)
    BY <1>1, <1>2, <1>4 DEF Larger
  <2> QED  BY <1>1, <1>2, <1>3, <1>5, <2>2, <2>3, <2>4 DEF TopLayer
<1>10. LinksAreLocal'
  BY <1>1, <1>3, <1>5, <1>6 DEF IInv, LinksAreLocal, Placed
<1>11. Unlinked'
  BY <1>1, <1>3 DEF IInv, Unlinked
<1>12. Position'
  BY <1>1 DEF Position, Deciding
<1> QED  BY <1>7, <1>8, <1>9, <1>10, <1>11, <1>12 DEF IInv

LEMMA StutterKeeps == ASSUME IInv, UNCHANGED vars PROVE IInv'
<1>1. /\ UNCHANGED <<vec, fraud, levels, conn0, upper, entry, maxLayer, inserted, pc, current,
                     layer, marks, visGen, cands, res, node, linkBack>>
  BY DEF vars, graph, search
<1>2. Present' = Present /\ Writing' = Writing /\ Placed' = Placed /\ id' = id
  BY <1>1 DEF Present, Writing, Placed, id
<1>3. \A L, n : NeighborsAt(n, L)' = NeighborsAt(n, L) /\ LinksOfLayer(L)' = LinksOfLayer(L)
  BY <1>1 DEF NeighborsAt, LinksOfLayer
<1>4. TypeOK' /\ Layers' /\ LayersMatchLevels' /\ TopLayer'
  BY <1>1, <1>2 DEF IInv, TypeOK, Visited, Layers, LayersMatchLevels, TopLayer
<1>5. Position'
  BY <1>1, <1>2 DEF IInv, Position, OnLayer
<1>6. LinksAreLocal'
  BY <1>1, <1>2, <1>3 DEF IInv, LinksAreLocal
<1>7. Unlinked'
  BY <1>1, <1>2, <1>3 DEF IInv, Unlinked, NotYetLinked
<1> QED  BY <1>4, <1>5, <1>6, <1>7 DEF IInv

-----------------------------------------------------------------------------
(***************************************************************************)
(* The invariant holds throughout every build.                             *)
(***************************************************************************)
THEOREM Inductive == Spec => []IInv
<1>1. Init => IInv
  BY InitIInv
<1>2. IInv /\ [Next]_vars => IInv'
  <2> SUFFICES ASSUME IInv, [Next]_vars PROVE IInv'
    OBVIOUS
  <2>1. CASE InsertFirst   BY <2>1, InsertFirstKeeps
  <2>2. CASE BeginInsert   BY <2>2, BeginInsertKeeps
  <2>3. CASE DescendHop \/ DescendLayer   BY <2>3, DescendKeeps
  <2>4. CASE RegisterNode  BY <2>4, RegisterNodeKeeps
  <2>5. CASE StartSearch   BY <2>5, StartSearchKeeps
  <2>6. CASE Expand        BY <2>6, ExpandKeeps
  <2>7. CASE VisitKept \/ VisitDropped   BY <2>7, VisitKeeps
  <2>8. CASE EndVisit \/ StopSearch      BY <2>8, EndVisitKeeps
  <2>9. CASE LinkOut       BY <2>9, LinkOutKeeps
  <2>10. CASE LinkBack     BY <2>10, LinkBackKeeps
  <2>11. CASE NextLayer    BY <2>11, NextLayerKeeps
  <2>12. CASE FinishInsert BY <2>12, FinishKeeps
  <2>13. CASE UNCHANGED vars   BY <2>13, StutterKeeps
  <2> QED  BY <2>1, <2>2, <2>3, <2>4, <2>5, <2>6, <2>7, <2>8, <2>9, <2>10, <2>11, <2>12, <2>13
           DEF Next, Insert, Done
<1> QED  BY <1>1, <1>2, PTL DEF Spec

(* Every variable keeps its type throughout a build. *)
THEOREM TypeCorrect == Spec => []TypeOK
<1>1. IInv => TypeOK
  BY DEF IInv
<1> QED  BY <1>1, Inductive, PTL

(***************************************************************************)
(* The maps of the upper layers hold exactly the nodes whose level reaches *)
(* them, whatever levels are drawn.                                        *)
(***************************************************************************)
THEOREM LayersAreRight == Spec => []LayersMatchLevels
<1>1. IInv => LayersMatchLevels
  BY DEF IInv
<1> QED  BY <1>1, Inductive, PTL

(***************************************************************************)
(* Between insertions the entry point lives on the top layer, and nobody   *)
(* lives above it.                                                         *)
(***************************************************************************)
THEOREM EntryIsOnTop == Spec => []EntryOnTop
<1>1. IInv => EntryOnTop
  <2> SUFFICES ASSUME IInv, pc = "ready", inserted > 0 PROVE EntryOnTop
    BY DEF EntryOnTop
  <2>1. Writing = {}
    BY DEF Writing
  <2> QED  BY <2>1 DEF IInv, TopLayer, EntryOnTop
<1> QED  BY <1>1, Inductive, PTL

(***************************************************************************)
(* Links never leave their layer, name the node itself, or exceed the      *)
(* capacity of the layer: linking back prunes before anyone can look.      *)
(***************************************************************************)
THEOREM LinksStayLocal == Spec => []LinksAreLocal
<1>1. IInv => LinksAreLocal
  BY DEF IInv
<1> QED  BY <1>1, Inductive, PTL

-----------------------------------------------------------------------------
(* What a step does to the layer-0 lists. *)
LEMMA LinkOutAtBottom ==
  ASSUME IInv, LinkOut
  PROVE  \E selected \in SUBSET Node :
           /\ selected # {} /\ selected \subseteq Present /\ linkBack' = selected
           /\ \A n \in Node : conn0'[n] = IF n = id /\ layer = 0 THEN selected ELSE conn0[n]
           /\ layer = 0 => conn0[id] = {}
<1>1. PICK selected \in SUBSET Node :
        /\ Linking(id, selected) /\ OnLayer(selected) /\ selected # {}
        /\ linkBack' = selected
  BY LinkOutLinks
<1>2. selected \subseteq Present
  BY <1>1 DEF OnLayer
<1>3. 0 \in 0 .. Len(upper) /\ \A n \in Node : NeighborsAt(n, 0)' =
        IF n = id /\ 0 = layer THEN selected ELSE NeighborsAt(n, 0)
  <2>1. /\ Len(upper) \in Nat
        /\ \A n \in Node : \A L \in 0 .. Len(upper) :
             NeighborsAt(n, L)' = IF n = id /\ L = layer THEN selected ELSE NeighborsAt(n, L)
    BY <1>1, LinkingFacts
  <2>2. 0 \in 0 .. Len(upper)
    BY <2>1
  <2> QED  BY <2>1, <2>2
<1>4. ASSUME layer = 0 PROVE conn0[id] = {}
  <2>1. pc = "connect" /\ Writing = {id}
    BY DEF LinkOut, Writing
  <2>2. NotYetLinked(0)
    BY <1>4, <2>1 DEF NotYetLinked
  <2> QED  BY <1>3, <2>1, <2>2 DEF IInv, Unlinked, NeighborsAt
<1> QED  BY <1>1, <1>2, <1>3, <1>4 DEF NeighborsAt

LEMMA LinkBackAtBottom ==
  ASSUME IInv, LinkBack
  PROVE  \E s \in linkBack : \E kept \in SUBSET Node :
           /\ kept # {} /\ linkBack' = linkBack \ {s}
           /\ \A n \in Node : conn0'[n] = IF n = s /\ layer = 0 THEN kept ELSE conn0[n]
           /\ layer = 0 => \A old \in conn0[s] : \E t \in kept : D(s, t) <= D(s, old)
<1>1. PICK s \in linkBack, kept \in SUBSET Node :
        /\ Linking(s, kept) /\ kept # {} /\ linkBack' = linkBack \ {s}
        /\ \A old \in NeighborsAt(s, layer) : \E t \in kept : D(s, t) <= D(s, old)
  BY LinkBackLinks
<1>2. \A n \in Node : NeighborsAt(n, 0)' = IF n = s /\ 0 = layer THEN kept ELSE NeighborsAt(n, 0)
  <2>1. /\ Len(upper) \in Nat
        /\ \A n \in Node : \A L \in 0 .. Len(upper) :
             NeighborsAt(n, L)' = IF n = s /\ L = layer THEN kept ELSE NeighborsAt(n, L)
    BY <1>1, LinkingFacts
  <2>2. 0 \in 0 .. Len(upper)
    BY <2>1
  <2> QED  BY <2>1, <2>2
<1> QED  BY <1>1, <1>2 DEF NeighborsAt

LEMMA OtherStepsKeepBottom ==
  ASSUME [Next]_vars, ~ LinkOut, ~ LinkBack
  PROVE  conn0' = conn0
BY DEF Next, Insert, Done, InsertFirst, BeginInsert, DescendHop, DescendLayer, RegisterNode,
       StartSearch, Expand, VisitKept, VisitDropped, EndVisit, StopSearch, NextLayer,
       FinishInsert, graph, vars

(* The other steps add layers and nodes to them, and change no list.       *)
LEMMA OtherStepsKeepLists ==
  ASSUME IInv, [Next]_vars, ~ LinkOut, ~ LinkBack,
         NEW n \in Node, NEW L \in 0 .. Len(upper)
  PROVE  NeighborsAt(n, L)' = NeighborsAt(n, L)
<1>1. conn0' = conn0
  BY OtherStepsKeepBottom
<1>2. upper \in Seq(LayerMap) /\ Len(upper) \in Nat /\ DOMAIN upper = 1 .. Len(upper)
  BY LayerFacts DEF IInv, Layers
<1>3. CASE InsertFirst \/ RegisterNode
  <2>1. PICK level \in Int : upper' = Register(upper, id, level)
    <3>1. CASE InsertFirst
      <4>1. PICK raw \in RawLevels : upper' = Register(upper, id, PickLevel(raw))
        BY <3>1 DEF InsertFirst
      <4>2. PickLevel(raw) \in Level
        BY DEF Level
      <4>3. \A level \in Level : level \in Int
        <5> DEFINE levelSet == Level
        <5>1. levelSet \subseteq -128 .. 31
          BY LevelFacts
        <5> HIDE DEF levelSet
        <5>2. \A level \in levelSet : level \in Int
          BY <5>1
        <5> QED  BY <5>2 DEF levelSet
      <4> QED  BY <4>1, <4>2, <4>3
    <3>2. CASE RegisterNode
      <4>1. upper' = Register(upper, id, levels[id]) /\ pc = "descend"
        BY <3>2 DEF RegisterNode
      <4>2. id \in Node
        BY <4>1 DEF IInv, Position, id
      <4> QED  BY <4>1, <4>2, TypeFacts DEF IInv
    <3> QED  BY <1>3, <3>1, <3>2
  <2>2. id \in Node
    <3>1. CASE InsertFirst
      BY <3>1, BuilderAssumption DEF InsertFirst, id, Node
    <3>2. CASE RegisterNode
      BY <3>2 DEF RegisterNode, IInv, Position, id
    <3> QED  BY <1>3, <3>1, <3>2
  <2>3. IsRegistered(upper, id, level, upper')
    BY <1>2, <2>1, <2>2, RegisterFacts
  <2>4. upper' \in Seq(LayerMap) /\ Len(upper') = Larger(Len(upper), level)
    BY <2>3 DEF IsRegistered
  <2>5. DOMAIN upper' = 1 .. Len(upper') /\ Len(upper') >= Len(upper) /\ Len(upper') \in Nat
    BY <1>2, <2>1, <2>4, LenProperties DEF Larger
  <2>6. CASE L # 0
    <3>1. L \in 1 .. Len(upper) /\ L \in 1 .. Larger(Len(upper), level)
      BY <1>2, <2>4, <2>5, <2>6
    <3>2. /\ DOMAIN upper'[L] = IF L <= level THEN DOMAIN upper[L] \cup {id}
                                 ELSE DOMAIN upper[L]
          /\ \A k \in DOMAIN upper'[L] :
               upper'[L][k] = IF k \in DOMAIN upper[L] THEN upper[L][k] ELSE {}
      <4>1. \A K \in 1 .. Larger(Len(upper), level) : K <= Len(upper) =>
              /\ DOMAIN upper'[K] = IF K <= level THEN DOMAIN upper[K] \cup {id}
                                    ELSE DOMAIN upper[K]
              /\ \A k \in DOMAIN upper'[K] :
                   upper'[K][k] = IF k \in DOMAIN upper[K] THEN upper[K][k] ELSE {}
        BY <2>3 DEF IsRegistered
      <4>2. L \in 1 .. Larger(Len(upper), level) /\ L <= Len(upper)
        BY <1>2, <3>1
      <4> QED  BY <4>1, <4>2, Zenon
    <3>3. L \in DOMAIN upper /\ L \in DOMAIN upper'
      BY <1>2, <2>4, <2>5, <3>1
    <3> QED  BY <2>6, <3>2, <3>3 DEF NeighborsAt
  <2>7. CASE L = 0
    BY <1>1, <2>7 DEF NeighborsAt
  <2> QED  BY <2>6, <2>7
<1>4. CASE FinishInsert
  <2>1. upper' = upper \/ upper' = EnsureLayers(upper, levels[id])
    BY <1>4 DEF FinishInsert
  <2>2. CASE upper' = EnsureLayers(upper, levels[id])
    <3>1. levels[id] \in Int
      <4>1. pc = "back"
        BY <1>4 DEF FinishInsert
      <4>2. id \in Node
        BY <4>1 DEF IInv, Position, id
      <4> QED  BY <4>2, TypeFacts DEF IInv
    <3> DEFINE h == Larger(Len(upper), levels[id])
    <3>2. /\ DOMAIN upper' = 1 .. h
          /\ \A k \in 1 .. h : k <= Len(upper) => upper'[k] = upper[k]
      BY <1>2, <2>2, <3>1, EnsureFacts
    <3>3. h \in Int /\ h >= Len(upper)
      BY <1>2, <3>1 DEF Larger
    <3> HIDE DEF h
    <3>4. CASE L # 0
      <4>1. L \in DOMAIN upper /\ L \in DOMAIN upper' /\ upper'[L] = upper[L]
        BY <1>2, <3>2, <3>3, <3>4
      <4> QED  BY <3>4, <4>1 DEF NeighborsAt
    <3>5. CASE L = 0
      BY <1>1, <3>5 DEF NeighborsAt
    <3> QED  BY <3>4, <3>5
  <2>3. CASE upper' = upper
    BY <1>1, <2>3 DEF NeighborsAt
  <2> QED  BY <2>1, <2>2, <2>3
<1>5. CASE ~ InsertFirst /\ ~ RegisterNode /\ ~ FinishInsert
  <2>1. upper' = upper
    BY <1>5 DEF Next, Insert, Done, BeginInsert, DescendHop, DescendLayer, StartSearch, Expand,
         VisitKept, VisitDropped, EndVisit, StopSearch, NextLayer, graph, vars
  <2> QED  BY <1>1, <2>1 DEF NeighborsAt
<1> QED  BY <1>3, <1>4, <1>5

(***************************************************************************)
(* On no layer does pruning take from a node the link to its nearest       *)
(* neighbour for a farther one, whatever the distances.                    *)
(***************************************************************************)
THEOREM NearestLinkIsKept == Spec => NearestLinkKept
<1> DEFINE Kept == \A L \in 0 .. Len(upper) : \A n \in Node :
                     \A old \in NearestTo(n, NeighborsAt(n, L)) :
                       \E new \in NeighborsAt(n, L)' : D(n, new) <= D(n, old)
<1>1. ASSUME IInv, [Next]_vars PROVE Kept
  <2> SUFFICES ASSUME NEW L \in 0 .. Len(upper), NEW n \in Node, NEW old \in NeighborsAt(n, L)
               PROVE  \E new \in NeighborsAt(n, L)' : D(n, new) <= D(n, old)
    BY DEF NearestTo
  <2>1. D(n, old) <= D(n, old)
    <3>1. old \in Node
      BY <1>1, ListFacts DEF IInv
    <3> QED  BY <1>1, <3>1, DistanceFacts DEF IInv, TypeOK
  <2>2. CASE NeighborsAt(n, L)' = NeighborsAt(n, L)
    BY <2>1, <2>2
  <2>3. CASE LinkOut
    <3>1. PICK selected \in SUBSET Node : Linking(id, selected)
      BY <1>1, <2>3, LinkOutLinks
    <3>2. NeighborsAt(n, L)' = IF n = id /\ L = layer THEN selected ELSE NeighborsAt(n, L)
      BY <1>1, <3>1, LinkingFacts
    <3>3. ~ (n = id /\ L = layer)
      <4>1. pc = "connect" /\ Writing = {id}
        BY <2>3 DEF LinkOut, Writing
      <4>2. NotYetLinked(layer)
        BY <4>1 DEF NotYetLinked
      <4>3. L = layer => NeighborsAt(id, L) = {}
        BY <1>1, <4>1, <4>2 DEF IInv, Unlinked
      <4> QED  BY <4>3
    <3> QED  BY <2>2, <3>2, <3>3
  <2>4. CASE LinkBack
    <3>1. PICK s \in linkBack, kept \in SUBSET Node :
            /\ Linking(s, kept)
            /\ \A o \in NeighborsAt(s, layer) : \E t \in kept : D(s, t) <= D(s, o)
      BY <1>1, <2>4, LinkBackLinks
    <3>2. NeighborsAt(n, L)' = IF n = s /\ L = layer THEN kept ELSE NeighborsAt(n, L)
      BY <1>1, <3>1, LinkingFacts
    <3> QED  BY <2>2, <3>1, <3>2
  <2>5. CASE ~ LinkOut /\ ~ LinkBack
    BY <1>1, <2>2, <2>5, OtherStepsKeepLists
  <2> QED  BY <2>3, <2>4, <2>5
<1>2. [][Kept]_vars => NearestLinkKept
  BY DEF NearestLinkKept
<1> HIDE DEF Kept
<1>3. IInv /\ [Next]_vars => [Kept]_vars
  BY <1>1
<1> QED  BY <1>2, <1>3, Inductive, PTL DEF Spec

(***************************************************************************)
(* Why every node is linked: the first gets a link when the second links   *)
(* back to it; every other node links out before anyone sees it.  This     *)
(* needs every level drawn to be at least 0 (a node of a negative level is *)
(* on no layer): no raw level is one the conversion to int8 makes          *)
(* negative.                                                               *)
(***************************************************************************)
LevelsNotNegative == \A raw \in RawLevels : PickLevel(raw) >= 0
LinkedUp ==
  /\ layer >= 0 /\ maxLayer >= 0
  /\ inserted > 1 => \A n \in Present : conn0[n] # {}
  /\ pc = "back" /\ layer = 0 =>
       conn0[id] # {} /\ \A n \in Present : n \in linkBack \/ conn0[n] # {}

LEMMA LinkedUpKept ==
  ASSUME LevelsNotNegative, IInv, LinkedUp, [Next]_vars
  PROVE  LinkedUp'
<1>1. /\ inserted \in Nat /\ layer \in Int /\ maxLayer \in Int
      /\ Present \subseteq Node
  BY TypeFacts DEF IInv
<1>2. \A level \in Level \cup {0} : level \in Nat
  <2>1. \A raw \in RawLevels : PickLevel(raw) \in Int
    BY LevelFacts DEF Level
  <2> QED  BY <2>1 DEF LevelsNotNegative, Level
<1>3. ASSUME pc # "ready" PROVE id \in Node /\ levels[id] \in Nat /\ inserted > 0
  <2>1. inserted \in Node \ {0} /\ levels \in [Node -> Level \cup {0}]
    BY <1>3 DEF IInv, TypeOK, Position
  <2>2. levels[id] \in Level \cup {0} /\ id \in Node
    BY <2>1 DEF id
  <2>3. inserted > 0
    BY <1>1, <2>1
  <2> QED  BY <1>2, <2>2, <2>3
<1>4. CASE LinkOut
  <2>1. PICK selected \in SUBSET Node :
          /\ selected # {} /\ selected \subseteq Present /\ linkBack' = selected
          /\ \A n \in Node : conn0'[n] = IF n = id /\ layer = 0 THEN selected ELSE conn0[n]
    BY <1>4, LinkOutAtBottom
  <2>2. pc # "ready" /\ UNCHANGED <<layer, maxLayer, inserted>> /\ id' = id /\ Present' = Present
    BY <1>4 DEF LinkOut, Present, id
  <2>3. \A n \in Node : conn0[n] # {} => conn0'[n] # {}
    BY <2>1
  <2>4. ASSUME NEW n \in Present, layer = 0 PROVE n \in linkBack' \/ conn0'[n] # {}
    <3>1. CASE inserted > 1
      BY <1>1, <2>3, <3>1 DEF LinkedUp
    <3>2. CASE ~ (inserted > 1)
      <4>1. \A k \in Present : k = 0
        BY <1>1, <3>2 DEF Present
      <4>2. n \in selected
        BY <2>1, <4>1
      <4> QED  BY <2>1, <4>2
    <3> QED  BY <3>1, <3>2
  <2>5. layer = 0 => conn0'[id] # {}
    BY <1>3, <2>1, <2>2
  <2> QED  BY <1>1, <2>2, <2>3, <2>4, <2>5 DEF LinkedUp
<1>5. CASE LinkBack
  <2>1. PICK s \in linkBack, kept \in SUBSET Node :
          /\ kept # {} /\ linkBack' = linkBack \ {s}
          /\ \A n \in Node : conn0'[n] = IF n = s /\ layer = 0 THEN kept ELSE conn0[n]
    BY <1>5, LinkBackAtBottom
  <2>2. /\ pc # "ready" /\ pc' = pc /\ UNCHANGED <<layer, maxLayer, inserted>>
        /\ id' = id /\ Present' = Present
    BY <1>5 DEF LinkBack, Present, id
  <2>3. \A n \in Node : conn0[n] # {} => conn0'[n] # {}
    BY <2>1
  <2>4. layer = 0 /\ s \in Node => conn0'[s] # {}
    BY <2>1
  <2> QED  BY <1>1, <1>3, <2>1, <2>2, <2>3, <2>4 DEF LinkedUp
<1>6. CASE FinishInsert
  <2>1. /\ pc = "back" /\ linkBack = {} /\ layer <= 0 /\ inserted' = inserted + 1
        /\ pc' = "ready" /\ layer' = layer /\ conn0' = conn0
        /\ maxLayer' = levels[id] \/ maxLayer' = maxLayer
    BY <1>6 DEF FinishInsert
  <2>2. layer = 0 /\ id \in Node /\ levels[id] \in Nat
    BY <1>1, <1>3, <2>1 DEF LinkedUp
  <2>3. Present' = Present \cup {id}
    BY <1>1, <2>1 DEF Present, id
  <2> QED  BY <2>1, <2>2, <2>3 DEF LinkedUp
<1>7. CASE InsertFirst
  <2>1. PICK raw \in RawLevels : maxLayer' = PickLevel(raw)
    BY <1>7 DEF InsertFirst
  <2>2. inserted' = 1 /\ layer' = layer /\ pc' = "ready"
    BY <1>7 DEF InsertFirst
  <2>3. maxLayer' \in Nat
    BY <1>2, <2>1 DEF Level
  <2> QED  BY <2>2, <2>3 DEF LinkedUp
<1>8. CASE ~ LinkOut /\ ~ LinkBack /\ ~ FinishInsert /\ ~ InsertFirst
  <2>1. conn0' = conn0 /\ inserted' = inserted /\ maxLayer' = maxLayer
    BY <1>8 DEF Next, Insert, Done, BeginInsert, DescendHop, DescendLayer, RegisterNode,
         StartSearch, Expand, VisitKept, VisitDropped, EndVisit, StopSearch, NextLayer,
         graph, vars
  <2>2. layer' >= 0
    <3>1. CASE DescendLayer
      BY <1>1, <1>3, <3>1 DEF DescendLayer
    <3>2. CASE NextLayer
      BY <1>1, <3>2 DEF NextLayer
    <3>3. CASE BeginInsert
      BY <3>3 DEF BeginInsert, LinkedUp
    <3>4. CASE ~ DescendLayer /\ ~ NextLayer /\ ~ BeginInsert
      <4>1. layer' = layer
        BY <1>8, <3>4 DEF Next, Insert, Done, DescendHop, RegisterNode, StartSearch, Expand,
           VisitKept, VisitDropped, EndVisit, StopSearch, graph, vars
      <4> QED  BY <4>1 DEF LinkedUp
    <3> QED  BY <3>1, <3>2, <3>3, <3>4
  <2>3. pc' = "back" => pc = "back" /\ layer' = layer /\ linkBack' = linkBack
    <3>1. CASE RegisterNode
      BY <3>1 DEF RegisterNode, LinkedUp
    <3>2. CASE ~ RegisterNode
      BY <1>8, <3>2 DEF Next, Insert, Done, BeginInsert, DescendHop, DescendLayer, StartSearch,
         Expand, VisitKept, VisitDropped, EndVisit, StopSearch, NextLayer, graph, vars
    <3> QED  BY <3>1, <3>2
  <2> QED  BY <1>1, <2>1, <2>2, <2>3 DEF LinkedUp, Present, id
<1> QED  BY <1>4, <1>5, <1>6, <1>7, <1>8

(***************************************************************************)
(* No dead ends: if no level drawn is negative, every node inserted has a  *)
(* neighbour at layer 0 as soon as there are two nodes.                    *)
(***************************************************************************)
THEOREM NoDeadEnds ==
  ASSUME LevelsNotNegative
  PROVE  Spec => []NoDeadEnd
<1>1. Init => LinkedUp
  BY DEF Init, LinkedUp
<1>2. IInv /\ LinkedUp /\ [Next]_vars => LinkedUp'
  BY LinkedUpKept
<1>3. LinkedUp => NoDeadEnd
  BY DEF LinkedUp, NoDeadEnd
<1> QED  BY <1>1, <1>2, <1>3, Inductive, PTL DEF Spec

-----------------------------------------------------------------------------
(***************************************************************************)
(* What an insert search keeps.  Besides what is checked: no mark is ahead *)
(* of the generation, so that a new search starts with one node marked;    *)
(* a result is still a candidate, is being expanded, or has all its        *)
(* neighbours visited; and nothing is visited that cannot be reached.      *)
(***************************************************************************)
Underway == {"search", "visit", "connect"}
NearestKept ==
  \A n \in Visited \ res : Cardinality(res) = EfC /\ \A r \in res : D(id, r) <= D(id, n)
Expanded(n) == NeighborsAt(n, layer) \subseteq Visited
Frontier ==
  \A n \in res : \/ pc # "connect" /\ n \in cands
                 \/ pc = "visit" /\ n = node
                 \/ Expanded(n)
WithinReach == \A S \in SUBSET Node : current \in S /\ Closed(S) => Visited \subseteq S

EnteredNearest == \A n \in Visited : D(id, current) <= D(id, n)

Searching ==
  /\ \A n \in Node : marks[n] <= visGen
  /\ pc # "ready" => D(id, current) <= D(id, entry)
  /\ pc \in Underway =>
       /\ NearestKept /\ Frontier /\ WithinReach
       /\ Cardinality(res) <= EfC /\ current \in Visited
  /\ pc = "visit" => node \in Visited
  /\ pc = "back" /\ layer >= 0 => EnteredNearest

(* What a search works with. *)
LEMMA SearchFacts ==
  ASSUME IInv
  PROVE  /\ Visited \in SUBSET Node /\ res \in SUBSET Node /\ res \subseteq Visited
         /\ IsFiniteSet(res) /\ Cardinality(res) \in Nat /\ EfC \in Nat \ {0}
         /\ visGen \in Nat /\ \A n \in Node : marks[n] \in Nat
         /\ pc # "ready" => id \in Node
         /\ \A n \in Node : pc # "ready" => D(id, n) \in Nat
<1>1. Visited \in SUBSET Node /\ res \in SUBSET Node /\ res \subseteq Visited
  BY DEF IInv, TypeOK, Visited
<1>2. IsFiniteSet(res) /\ Cardinality(res) \in Nat
  BY <1>1, NodeSets
<1>3. visGen \in Nat /\ \A n \in Node : marks[n] \in Nat
  BY BuilderAssumption DEF IInv, TypeOK
<1>4. pc # "ready" => id \in Node
  BY DEF IInv, Position, id
<1>5. \A n \in Node : pc # "ready" => D(id, n) \in Nat
  BY <1>4, DistanceFacts DEF IInv, TypeOK
<1> QED  BY <1>1, <1>2, <1>3, <1>4, <1>5, BuilderAssumption

(* Outside a search only the marks and the place of the descent matter. *)
LEMMA OutsideSearch ==
  ASSUME Searching, UNCHANGED <<marks, visGen>>, pc' \notin Underway,
         pc' # "ready" => D(id, current)' <= D(id, entry)',
         pc' = "back" /\ layer' >= 0 => EnteredNearest'
  PROVE  Searching'
BY DEF Searching, Underway

LEMMA StartSearchSearches == ASSUME IInv, Searching, StartSearch PROVE Searching'
<1>1. /\ pc = "layer" /\ pc' = "search" /\ cands' = {current} /\ res' = {current}
      /\ UNCHANGED <<graph, inserted, current, layer, node, linkBack>>
      /\ ResetVisited
  BY DEF StartSearch
<1>2. /\ MarkMod \in Nat /\ MarkMod >= 2 /\ visGen \in 0 .. MarkMod - 1 /\ current \in Node
      /\ marks \in [Node -> 0 .. MarkMod - 1] /\ EfC \in Nat \ {0}
  BY BuilderAssumption DEF IInv, TypeOK
<1> DEFINE old == IF Gen = 0 THEN [n \in Node |-> 0] ELSE marks
<1>3. marks' = [old EXCEPT ![current] = visGen'] /\ old \in [Node -> Nat]
  BY <1>1, <1>2 DEF ResetVisited
<1>4. visGen' \in Nat /\ \A n \in Node : old[n] < visGen'
  <2>1. CASE visGen + 1 = MarkMod
    <3>1. Gen = 0
      BY <1>2, <2>1 DEF Gen
    <3> QED  BY <1>1, <3>1 DEF ResetVisited
  <2>2. CASE visGen + 1 # MarkMod
    <3>1. visGen + 1 \in 0 .. MarkMod - 1 /\ visGen + 1 # 0
      BY <1>2, <2>2
    <3>2. Gen = visGen + 1
      BY <1>2, <3>1 DEF Gen
    <3>3. visGen' = visGen + 1 /\ old = marks
      BY <1>1, <3>1, <3>2 DEF ResetVisited
    <3> QED  BY <1>2, <3>3 DEF Searching
  <2> QED  BY <2>1, <2>2
<1> HIDE DEF old
<1>5. \A n \in Node : marks'[n] = IF n = current THEN visGen' ELSE old[n]
  BY <1>2, <1>3
<1>6. Visited' = {current} /\ \A n \in Node : marks'[n] <= visGen'
  BY <1>2, <1>3, <1>4, <1>5 DEF Visited
<1>7. Cardinality({current}) = 1
  BY FS_Singleton
<1>8. NearestKept' /\ WithinReach' /\ Frontier'
  BY <1>1, <1>6 DEF NearestKept, WithinReach, Frontier
<1>9. D(id, current)' <= D(id, entry)'
  BY <1>1 DEF Searching, D, id, graph
<1> QED  BY <1>1, <1>2, <1>6, <1>7, <1>8, <1>9 DEF Searching, Underway

(* Expanding a candidate, and leaving it when its neighbours are visited. *)
LEMMA ExpandSearches == ASSUME IInv, Searching, Expand \/ EndVisit PROVE Searching'
<1>1. /\ pc \in Underway /\ pc' \in Underway /\ pc # "ready" /\ pc' # "ready"
      /\ pc # "connect" /\ pc' # "connect"
      /\ UNCHANGED <<graph, inserted, current, layer, marks, visGen, res, linkBack>>
      /\ \/ pc' = "visit" /\ node' \in cands /\ cands' = cands \ {node'}
            /\ pc = "search"
         \/ pc = "visit" /\ Unvisited = {} /\ pc' = "search" /\ UNCHANGED <<cands, node>>
  BY DEF Expand, EndVisit, search, Underway, NearestTo
<1>2. /\ Visited' = Visited /\ id' = id /\ \A n, L : NeighborsAt(n, L)' = NeighborsAt(n, L)
      /\ \A a, b : D(a, b)' = D(a, b)
  BY <1>1 DEF Visited, id, NeighborsAt, graph, D
<1>3. NearestKept'
  BY <1>1, <1>2 DEF Searching, NearestKept
<1>4. WithinReach'
  BY <1>1, <1>2 DEF Searching, WithinReach, Closed
<1>5. Frontier'
  <2> SUFFICES ASSUME NEW n \in res
               PROVE  \/ n \in cands' \/ (pc' = "visit" /\ n = node')
                      \/ NeighborsAt(n, layer) \subseteq Visited
    BY <1>1, <1>2 DEF Frontier, Expanded
  <2>1. n \in cands \/ (pc = "visit" /\ n = node) \/ NeighborsAt(n, layer) \subseteq Visited
    BY <1>1 DEF Searching, Frontier, Expanded
  <2> QED  BY <1>1, <2>1 DEF Unvisited
<1>6. cands \subseteq Visited
  BY DEF IInv, TypeOK
<1> QED  BY <1>1, <1>2, <1>3, <1>4, <1>5, <1>6 DEF Searching, Underway, graph

(* The search stops when no candidate is nearer than the worst result. *)
LEMMA StopSearchSearches == ASSUME IInv, Searching, StopSearch PROVE Searching'
<1>1. /\ pc = "search" /\ pc' = "connect"
      /\ UNCHANGED <<graph, inserted, current, layer, marks, visGen, res, node, linkBack>>
      /\ cands # {} => \E c \in NearestTo(id, cands) : ~ NoFartherThanWorst(c)
  BY DEF StopSearch, NearestTo
<1>2. /\ Visited' = Visited /\ id' = id /\ \A n, L : NeighborsAt(n, L)' = NeighborsAt(n, L)
      /\ \A a, b : D(a, b)' = D(a, b)
  BY <1>1 DEF Visited, id, NeighborsAt, graph, D
<1>3. NearestKept' /\ WithinReach'
  BY <1>1, <1>2 DEF Searching, Underway, NearestKept, WithinReach, Closed
<1>4. \A n \in res : n \notin cands
  <2> SUFFICES ASSUME NEW n \in res, n \in cands PROVE FALSE
    OBVIOUS
  <2>1. PICK c \in NearestTo(id, cands) : \A r \in res : ~ (D(id, c) <= D(id, r))
    BY <1>1 DEF NoFartherThanWorst
  <2>2. c \in Node /\ n \in Node /\ D(id, c) <= D(id, n)
    BY <2>1 DEF NearestTo, IInv, TypeOK, Visited
  <2> QED  BY <2>1, <2>2
<1>5. Frontier'
  BY <1>1, <1>2, <1>4 DEF Searching, Underway, Frontier, Expanded
<1> QED  BY <1>1, <1>2, <1>3, <1>5 DEF Searching, Underway, graph

LEMMA MarkedFacts ==
  ASSUME TypeOK, Searching, NEW n \in Node, Mark(n)
  PROVE  Visited' = Visited \cup {n} /\ visGen' = visGen /\ \A k \in Node : marks'[k] <= visGen'
<1>1. \A k \in Node : marks'[k] = IF k = n THEN visGen ELSE marks[k]
  BY DEF TypeOK, Mark
<1>2. visGen' = visGen /\ visGen <= visGen
  BY BuilderAssumption DEF Mark, TypeOK
<1> QED  BY <1>1, <1>2 DEF Visited, Searching

(* A neighbour is visited: it is a result, or no result is farther. *)
LEMMA VisitSearches == ASSUME IInv, Searching, VisitKept \/ VisitDropped PROVE Searching'
<1>1. /\ pc = "visit" /\ pc' = "visit"
      /\ UNCHANGED <<graph, inserted, current, layer, node, linkBack>>
  BY DEF VisitKept, VisitDropped
<1>2. PICK n \in Unvisited :
        /\ Mark(n) /\ cands \subseteq cands'
        /\ \/ Cardinality(res) < EfC /\ res' = res \cup {n} /\ n \in cands'
           \/ /\ Cardinality(res) >= EfC /\ CloserThanWorst(n) /\ n \in cands'
              /\ \E far \in FarthestFrom(id, res \cup {n}) : res' = (res \cup {n}) \ {far}
           \/ Cardinality(res) >= EfC /\ ~ CloserThanWorst(n) /\ res' = res
  <2>1. CASE VisitKept
    <3>1. PICK n \in Unvisited :
            /\ Cardinality(res) < EfC \/ CloserThanWorst(n)
            /\ Mark(n) /\ cands' = cands \cup {n}
            /\ IF Cardinality(res) < EfC THEN res' = res \cup {n}
               ELSE \E far \in FarthestFrom(id, res \cup {n}) : res' = (res \cup {n}) \ {far}
      BY <2>1 DEF VisitKept
    <3>2. Cardinality(res) < EfC \/ Cardinality(res) >= EfC
      BY SearchFacts
    <3> QED  BY <3>1, <3>2
  <2>2. CASE VisitDropped
    BY <2>2 DEF VisitDropped
  <2> QED  BY <2>1, <2>2
<1>3. /\ Visited \in SUBSET Node /\ res \in SUBSET Node /\ res \subseteq Visited
      /\ IsFiniteSet(res) /\ Cardinality(res) \in Nat /\ EfC \in Nat \ {0} /\ id \in Node
      /\ \A k \in Node : D(id, k) \in Nat
  BY <1>1, SearchFacts
<1>4. /\ NearestKept /\ Frontier /\ WithinReach /\ Cardinality(res) <= EfC
      /\ current \in Visited /\ node \in Visited
  BY <1>1 DEF Searching, Underway
<1>5. n \in NeighborsAt(node, layer) /\ n \notin Visited /\ n \notin res
  BY <1>3 DEF Unvisited
<1>6. n \in Node
  <2>1. layer >= 0 /\ node \in Present /\ levels[node] >= layer
    BY <1>1 DEF IInv, Position, Deciding, OnLayer
  <2> QED  BY <1>1, <1>5, <2>1, NeighborsLive
<1>7. /\ Visited' = Visited \cup {n} /\ visGen' = visGen
      /\ \A k \in Node : marks'[k] <= visGen'
  BY <1>2, <1>6, MarkedFacts DEF IInv
<1>8. /\ id' = id /\ \A k, L : NeighborsAt(k, L)' = NeighborsAt(k, L)
      /\ \A a, b : D(a, b)' = D(a, b)
  BY <1>1 DEF id, NeighborsAt, graph, D
<1>9. NearestKept' /\ Cardinality(res') <= EfC
  <2> SUFFICES /\ Cardinality(res') <= EfC
               /\ \A m \in (Visited \cup {n}) \ res' :
                    Cardinality(res') = EfC /\ \A r \in res' : D(id, r) <= D(id, m)
    BY <1>7, <1>8 DEF NearestKept
  <2>1. CASE Cardinality(res) < EfC /\ res' = res \cup {n}
    <3>1. Cardinality(res') = Cardinality(res) + 1
      BY <1>3, <1>5, <2>1, FS_AddElement
    <3>2. Visited \ res = {}
      BY <1>3, <1>4, <2>1 DEF NearestKept
    <3> QED  BY <1>3, <2>1, <3>1, <3>2
  <2>2. CASE /\ Cardinality(res) >= EfC /\ CloserThanWorst(n)
             /\ \E far \in FarthestFrom(id, res \cup {n}) : res' = (res \cup {n}) \ {far}
    <3>1. PICK far \in FarthestFrom(id, res \cup {n}) : res' = (res \cup {n}) \ {far}
      BY <2>2
    <3>2. far \in res \cup {n} /\ \A r \in res \cup {n} : D(id, far) >= D(id, r)
      BY DEF FarthestFrom
    <3>3. Cardinality(res) = EfC
      BY <1>3, <1>4, <2>2
    <3>4. IsFiniteSet(res \cup {n}) /\ Cardinality(res \cup {n}) = EfC + 1
      BY <1>3, <1>5, <3>3, FS_AddElement
    <3>5. Cardinality(res') = EfC
      <4>1. Cardinality((res \cup {n}) \ {far}) = Cardinality(res \cup {n}) - 1
        BY <3>2, <3>4, FS_RemoveElement
      <4> QED  BY <1>3, <3>1, <3>4, <4>1
    <3>6. ASSUME NEW m \in (Visited \cup {n}) \ res', NEW r \in res'
          PROVE  D(id, r) <= D(id, m)
      <4>1. r \in res \cup {n} /\ r \in Node /\ m \in Node
        BY <1>3, <1>6, <3>1
      <4>2. CASE m = far
        BY <1>3, <3>2, <4>1, <4>2
      <4>3. CASE m # far
        <5>1. m \in Visited \ res
          BY <3>1, <4>3
        <5>2. \A k \in res : D(id, k) <= D(id, m)
          BY <1>4, <5>1 DEF NearestKept
        <5>3. PICK w \in res : D(id, n) < D(id, w)
          BY <2>2 DEF CloserThanWorst
        <5>4. D(id, w) <= D(id, m) /\ w \in Node
          BY <1>3, <5>2
        <5>5. D(id, n) <= D(id, m)
          BY <1>3, <1>6, <4>1, <5>3, <5>4
        <5> QED  BY <4>1, <5>2, <5>5
      <4> QED  BY <4>2, <4>3
    <3> QED  BY <1>3, <3>5, <3>6
  <2>3. CASE Cardinality(res) >= EfC /\ ~ CloserThanWorst(n) /\ res' = res
    <3>1. Cardinality(res) = EfC
      BY <1>3, <1>4, <2>3
    <3>2. \A r \in res : D(id, r) <= D(id, n)
      BY <1>3, <1>6, <2>3 DEF CloserThanWorst
    <3> QED  BY <1>3, <1>4, <2>3, <3>1, <3>2 DEF NearestKept
  <2> QED  BY <1>2, <2>1, <2>2, <2>3
<1>10. Frontier'
  <2> SUFFICES ASSUME NEW k \in res'
               PROVE  k \in cands' \/ k = node \/ NeighborsAt(k, layer) \subseteq Visited'
    BY <1>1, <1>8 DEF Frontier, Expanded
  <2>1. k \in res \/ k \in cands'
    BY <1>2
  <2> QED  BY <1>1, <1>2, <1>4, <1>7, <2>1 DEF Frontier, Expanded
<1>11. WithinReach'
  <2> SUFFICES ASSUME NEW S \in SUBSET Node, current \in S,
                      \A k \in S : NeighborsAt(k, layer) \subseteq S
               PROVE  Visited \cup {n} \subseteq S
    BY <1>1, <1>7, <1>8 DEF WithinReach, Closed
  <2>1. Visited \subseteq S
    BY <1>4 DEF WithinReach, Closed
  <2> QED  BY <1>4, <1>5, <2>1
<1>12. D(id, current)' <= D(id, entry)'
  BY <1>1, <1>8 DEF Searching, graph
<1> QED  BY <1>1, <1>4, <1>7, <1>9, <1>10, <1>11, <1>12 DEF Searching, Underway

(* Between searches, the place to start from only comes nearer. *)
LEMMA DescentSearches ==
  ASSUME IInv, Searching, BeginInsert \/ DescendHop \/ DescendLayer \/ RegisterNode
  PROVE  Searching'
<1>1. UNCHANGED <<marks, visGen, vec, entry>> /\ id' = id /\ pc' \notin Underway
  BY DEF BeginInsert, DescendHop, DescendLayer, RegisterNode, search, graph, id, Underway
<1>2. \A a, b : D(a, b)' = D(a, b)
  BY <1>1 DEF D
<1>3. pc' # "ready" => D(id, current)' <= D(id, entry)'
  <2>1. CASE BeginInsert
    <3>1. current' = entry /\ id \in Node /\ entry \in Node
      BY <2>1 DEF BeginInsert, IInv, TypeOK, id
    <3>2. D(id, entry) \in Nat
      BY <3>1, DistanceFacts DEF IInv, TypeOK
    <3> QED  BY <1>1, <1>2, <3>1, <3>2
  <2>2. CASE DescendHop
    <3>1. /\ pc = "descend" /\ layer >= 0 /\ current' \in NeighborsAt(current, layer)
          /\ D(id, current') < D(id, current)
      BY <2>2 DEF DescendHop, NearestTo, Closer
    <3>2. current \in Present /\ levels[current] >= layer
      BY <3>1 DEF IInv, Position, OnLayer
    <3>3. current' \in Node
      BY <3>1, <3>2, NeighborsLive
    <3>4. D(id, current') \in Nat /\ D(id, current) \in Nat /\ D(id, entry) \in Nat
      BY <3>1, <3>3, SearchFacts DEF IInv, TypeOK
    <3>5. D(id, current) <= D(id, entry)
      BY <3>1 DEF Searching
    <3> QED  BY <1>1, <1>2, <3>1, <3>4, <3>5
  <2>3. CASE DescendLayer \/ RegisterNode
    <3>1. pc # "ready" /\ current' = current
      BY <2>3 DEF DescendLayer, RegisterNode
    <3> QED  BY <1>1, <1>2, <3>1 DEF Searching
  <2> QED  BY <2>1, <2>2, <2>3
<1>4. ~ (pc' = "back" /\ layer' >= 0)
  BY <1>1 DEF BeginInsert, DescendHop, DescendLayer, RegisterNode
<1> QED  BY <1>1, <1>3, <1>4, OutsideSearch

(* The nearest node the selection leaves is as near as any result, and so  *)
(* as any node visited, where the search started among them.               *)
LEMMA LinkOutSearches == ASSUME IInv, Searching, LinkOut PROVE Searching'
<1> DEFINE m == Capacity(layer)
<1>1. PICK outcome \in Outcomes(id, res, m) : current' \in NextEntry(id, outcome)
  BY DEF LinkOut
<1>2. /\ pc = "connect" /\ pc' = "back"
      /\ UNCHANGED <<vec, entry, inserted, marks, visGen>>
  BY DEF LinkOut
<1>3. /\ id \in Node /\ res \in SUBSET Node /\ res # {} /\ vec \in [Node -> Point]
      /\ \A n \in Node : D(id, n) \in Nat
  BY <1>2, SearchFacts DEF IInv, TypeOK, Position
<1>4. current' \in res /\ \A r \in res : D(id, current') <= D(id, r)
  <2>1. m \in Nat \ {0}
    BY CapacityFacts
  <2> HIDE DEF m
  <2> QED  BY <1>1, <1>3, <2>1, NextEntryIsNearest
<1>5. /\ current \in Visited /\ current \in Node /\ entry \in Node /\ NearestKept
      /\ D(id, current) <= D(id, entry) /\ Visited \in SUBSET Node
  BY <1>2, SearchFacts DEF Searching, Underway, IInv, TypeOK
<1>6. \A n \in Visited : D(id, current') <= D(id, n)
  <2> SUFFICES ASSUME NEW n \in Visited PROVE D(id, current') <= D(id, n)
    OBVIOUS
  <2>1. CASE n \in res
    BY <1>4, <2>1
  <2>2. CASE n \notin res
    BY <1>4, <1>5, <2>2 DEF NearestKept
  <2> QED  BY <2>1, <2>2
<1>7. current' \in Node
  BY <1>3, <1>4
<1>8. D(id, current') <= D(id, entry)
  BY <1>3, <1>5, <1>6, <1>7
<1>9. id' = id /\ Visited' = Visited /\ \A a, b : D(a, b)' = D(a, b)
  BY <1>2 DEF id, D, Visited
<1>10. D(id, current)' <= D(id, entry)' /\ EnteredNearest'
  BY <1>2, <1>6, <1>8, <1>9 DEF EnteredNearest
<1> QED  BY <1>2, <1>10, OutsideSearch DEF Underway

LEMMA OtherSearches ==
  ASSUME IInv, Searching,
         LinkBack \/ NextLayer \/ FinishInsert \/ InsertFirst \/ UNCHANGED vars
  PROVE  Searching'
<1>1. CASE LinkBack \/ NextLayer
  <2>1. /\ pc = "back" /\ pc' # "ready" /\ pc' \notin Underway
        /\ UNCHANGED <<vec, entry, inserted, current, marks, visGen>>
    BY <1>1 DEF LinkBack, NextLayer, search, graph, Underway
  <2>2. D(id, current)' <= D(id, entry)'
    BY <2>1 DEF Searching, D, id
  <2>3. pc' = "back" /\ layer' >= 0 => EnteredNearest'
    <3>1. pc' = "back" => layer' = layer
      BY <1>1 DEF LinkBack, NextLayer
    <3> QED  BY <2>1, <3>1 DEF Searching, EnteredNearest, Visited, D, id
  <2> QED  BY <2>1, <2>2, <2>3, OutsideSearch
<1>2. CASE FinishInsert \/ InsertFirst
  <2>1. pc' = "ready" /\ UNCHANGED <<marks, visGen>>
    BY <1>2 DEF FinishInsert, InsertFirst, search
  <2> QED  BY <2>1, OutsideSearch DEF Underway
<1>3. CASE UNCHANGED vars
  <2>1. UNCHANGED <<vec, conn0, upper, entry, inserted, pc, current, layer, marks, visGen,
                    cands, res, node>>
    BY <1>3 DEF vars, graph, search
  <2>2. Visited' = Visited /\ \A n, L : NeighborsAt(n, L)' = NeighborsAt(n, L)
    BY <2>1 DEF Visited, NeighborsAt
  <2>3. \A a, b : D(a, b)' = D(a, b)
    BY <2>1 DEF D
  <2>4. NearestKept <=> NearestKept'
    BY <2>1, <2>2, <2>3 DEF NearestKept, id
  <2>5. Frontier <=> Frontier'
    BY <2>1, <2>2 DEF Frontier, Expanded
  <2>6. WithinReach <=> WithinReach'
    BY <2>1, <2>2 DEF WithinReach, Closed
  <2>7. EnteredNearest <=> EnteredNearest'
    BY <2>1, <2>2, <2>3 DEF EnteredNearest, id
  <2> QED  BY <2>1, <2>2, <2>3, <2>4, <2>5, <2>6, <2>7 DEF Searching, id
<1> QED  BY <1>1, <1>2, <1>3

(***************************************************************************)
(* Every insert search keeps the nearest of the nodes it visits, misses    *)
(* none it can reach when it finds fewer than it may keep, and starts no   *)
(* farther from the new node than the entry point and than any node the    *)
(* search of the layer above visited: for any graph, width of the search   *)
(* and width of the marks.                                                 *)
(***************************************************************************)
THEOREM SearchesKeepNearest == Spec => []SearchKeepsNearest
<1>1. Init => Searching
  BY BuilderAssumption DEF Init, Searching, Underway
<1>2. IInv /\ Searching /\ [Next]_vars => Searching'
  <2> SUFFICES ASSUME IInv, Searching, [Next]_vars PROVE Searching'
    OBVIOUS
  <2>1. CASE StartSearch   BY <2>1, StartSearchSearches
  <2>2. CASE Expand \/ EndVisit   BY <2>2, ExpandSearches
  <2>3. CASE VisitKept \/ VisitDropped   BY <2>3, VisitSearches
  <2>4. CASE StopSearch    BY <2>4, StopSearchSearches
  <2>5. CASE BeginInsert \/ DescendHop \/ DescendLayer \/ RegisterNode
    BY <2>5, DescentSearches
  <2>6. CASE LinkOut       BY <2>6, LinkOutSearches
  <2>7. CASE LinkBack \/ NextLayer \/ FinishInsert \/ InsertFirst \/ UNCHANGED vars
    BY <2>7, OtherSearches
  <2> QED  BY <2>1, <2>2, <2>3, <2>4, <2>5, <2>6, <2>7 DEF Next, Insert, Done
<1>3. IInv /\ Searching => SearchKeepsNearest
  <2> SUFFICES ASSUME IInv, Searching PROVE SearchKeepsNearest
    OBVIOUS
  <2>1. pc \in Underway =>
          \A n \in Visited \ res : Cardinality(res) = EfC /\ \A r \in res : D(id, r) <= D(id, n)
    BY DEF Searching, NearestKept
  <2>2. ASSUME pc = "connect", Cardinality(res) < EfC PROVE res = Reachable(current)
    <3>1. Visited \in SUBSET Node /\ res \subseteq Visited /\ current \in Visited
          /\ Cardinality(res) # EfC
      BY <2>2, SearchFacts DEF Searching, Underway
    <3>2. res = Visited
      BY <2>1, <2>2, <3>1 DEF Underway
    <3>3. Closed(Visited)
      BY <2>2, <3>2 DEF Searching, Underway, Frontier, Expanded, Closed
    <3>4. Reachable(current) \subseteq Visited
      BY <3>1, <3>3 DEF Reachable
    <3>5. Visited \subseteq Reachable(current)
      BY <2>2, <3>1 DEF Searching, Underway, WithinReach, Reachable
    <3> QED  BY <3>2, <3>4, <3>5
  <2>3. pc # "ready" => D(id, current) <= D(id, entry)
    BY DEF Searching
  <2>4. pc = "back" /\ layer >= 0 => \A n \in Visited : D(id, current) <= D(id, n)
    BY DEF Searching, EnteredNearest
  <2> QED  BY <2>1, <2>2, <2>3, <2>4 DEF SearchKeepsNearest, Underway
<1> QED  BY <1>1, <1>2, <1>3, Inductive, PTL DEF Spec

-----------------------------------------------------------------------------
(***************************************************************************)
(* A build takes finitely many steps.  Work is what is left of it, the     *)
(* most important part first: the records; the part of the insertion; the  *)
(* layers below; in the descent the distance (a hop is strictly nearer),   *)
(* later the part of the layer; the nodes a search has not visited or the  *)
(* neighbours still to link back; its candidates; the visit under way.     *)
(***************************************************************************)
RecordsLeft == N - inserted
StageLeft == IF pc = "ready" THEN 2 ELSE IF pc = "descend" THEN 1 ELSE 0
LayersLeft == Larger(layer + 1, 0)
PlaceLeft ==
  IF pc = "descend" THEN D(id, current)
  ELSE IF pc = "layer" THEN 3
  ELSE IF pc \in {"search", "visit"} THEN 2
  ELSE IF pc = "connect" THEN 1 ELSE 0
NodesLeft ==
  IF pc \in {"search", "visit"} THEN Cardinality(Node \ Visited)
  ELSE IF pc = "back" THEN Cardinality(linkBack) ELSE 0
CandsLeft == IF pc \in {"search", "visit"} THEN Cardinality(cands) ELSE 0
VisitLeft == IF pc = "visit" THEN 1 ELSE 0

Work == <<RecordsLeft, StageLeft, LayersLeft, PlaceLeft, NodesLeft, CandsLeft, VisitLeft>>
Less == LexProductOrdering(OpToRel(<, Nat), Nat, 7)

Lessens == <<Work', Work>> \in Less

(* There is no infinite descent in Less. *)
LEMMA LessIsWellFounded == IsWellFoundedOn(Less, [1 .. 7 -> Nat])
<1>1. 7 \in Nat
  OBVIOUS
<1> QED  BY <1>1, NatLessThanWellFounded, WFLexProductOrdering DEF Less

Measured ==
  /\ RecordsLeft \in Nat /\ StageLeft \in Nat /\ LayersLeft \in Nat /\ PlaceLeft \in Nat
  /\ NodesLeft \in Nat /\ CandsLeft \in Nat /\ VisitLeft \in Nat

LEMMA LessAt ==
  ASSUME NEW r \in [1 .. 7 -> Nat], NEW s \in [1 .. 7 -> Nat], NEW j \in 1 .. 7,
         \A k \in 1 .. j - 1 : r[k] = s[k], r[j] < s[j]
  PROVE  <<r, s>> \in Less
<1>1. <<r[j], s[j]>> \in OpToRel(<, Nat)
  <2>1. r[j] \in Nat /\ s[j] \in Nat
    OBVIOUS
  <2> QED  BY <2>1 DEF OpToRel
<1>2. <<r, s>> \in [1 .. 7 -> Nat] \X [1 .. 7 -> Nat]
  OBVIOUS
<1>3. <<r, s>>[1] = r /\ <<r, s>>[2] = s
  OBVIOUS
<1>4. <<r, s>> \in LexProductOrdering(OpToRel(<, Nat), Nat, 7)
  BY <1>1, <1>2, <1>3, Zenon DEF LexProductOrdering
<1> QED  BY <1>4 DEF Less

SameUpTo(j) ==
  /\ j >= 1 => RecordsLeft' = RecordsLeft
  /\ j >= 2 => StageLeft' = StageLeft
  /\ j >= 3 => LayersLeft' = LayersLeft
  /\ j >= 4 => PlaceLeft' = PlaceLeft
  /\ j >= 5 => NodesLeft' = NodesLeft
  /\ j >= 6 => CandsLeft' = CandsLeft

LEMMA WorkIsLess ==
  ASSUME Measured, Measured',
         \/ RecordsLeft' < RecordsLeft
         \/ SameUpTo(1) /\ StageLeft' < StageLeft
         \/ SameUpTo(2) /\ LayersLeft' < LayersLeft
         \/ SameUpTo(3) /\ PlaceLeft' < PlaceLeft
         \/ SameUpTo(4) /\ NodesLeft' < NodesLeft
         \/ SameUpTo(5) /\ CandsLeft' < CandsLeft
         \/ SameUpTo(6) /\ VisitLeft' < VisitLeft
  PROVE  <<Work', Work>> \in Less
<1> DEFINE r == Work'
           s == Work
<1>1. r \in [1 .. 7 -> Nat] /\ s \in [1 .. 7 -> Nat]
  BY DEF Work, Measured
<1>2. /\ r[1] = RecordsLeft' /\ r[2] = StageLeft' /\ r[3] = LayersLeft' /\ r[4] = PlaceLeft'
      /\ r[5] = NodesLeft' /\ r[6] = CandsLeft' /\ r[7] = VisitLeft'
      /\ s[1] = RecordsLeft /\ s[2] = StageLeft /\ s[3] = LayersLeft /\ s[4] = PlaceLeft
      /\ s[5] = NodesLeft /\ s[6] = CandsLeft /\ s[7] = VisitLeft
  BY DEF Work
<1> HIDE DEF r, s
<1>3. \E j \in 1 .. 7 : (\A k \in 1 .. j - 1 : r[k] = s[k]) /\ r[j] < s[j]
  <2>1. CASE RecordsLeft' < RecordsLeft
    <3>1. (\A k \in 1 .. 1 - 1 : r[k] = s[k]) /\ r[1] < s[1]
      BY <1>2, <2>1
    <3> QED  BY <3>1
  <2>2. CASE SameUpTo(1) /\ StageLeft' < StageLeft
    <3>1. (\A k \in 1 .. 2 - 1 : r[k] = s[k]) /\ r[2] < s[2]
      BY <1>2, <2>2 DEF SameUpTo
    <3> QED  BY <3>1
  <2>3. CASE SameUpTo(2) /\ LayersLeft' < LayersLeft
    <3>1. r[1] = s[1] /\ r[2] = s[2] /\ r[3] < s[3]
      BY <1>2, <2>3 DEF SameUpTo
    <3>2. \A k \in 1 .. 3 - 1 : k = 1 \/ k = 2
      OBVIOUS
    <3>3. (\A k \in 1 .. 3 - 1 : r[k] = s[k]) /\ r[3] < s[3]
      BY <3>1, <3>2
    <3> QED  BY <3>3
  <2>4. CASE SameUpTo(3) /\ PlaceLeft' < PlaceLeft
    <3>1. r[1] = s[1] /\ r[2] = s[2] /\ r[3] = s[3] /\ r[4] < s[4]
      BY <1>2, <2>4 DEF SameUpTo
    <3>2. \A k \in 1 .. 4 - 1 : k = 1 \/ k = 2 \/ k = 3
      OBVIOUS
    <3>3. (\A k \in 1 .. 4 - 1 : r[k] = s[k]) /\ r[4] < s[4]
      BY <3>1, <3>2
    <3> QED  BY <3>3
  <2>5. CASE SameUpTo(4) /\ NodesLeft' < NodesLeft
    <3>1. r[1] = s[1] /\ r[2] = s[2] /\ r[3] = s[3] /\ r[4] = s[4] /\ r[5] < s[5]
      BY <1>2, <2>5 DEF SameUpTo
    <3>2. \A k \in 1 .. 5 - 1 : k = 1 \/ k = 2 \/ k = 3 \/ k = 4
      OBVIOUS
    <3>3. (\A k \in 1 .. 5 - 1 : r[k] = s[k]) /\ r[5] < s[5]
      BY <3>1, <3>2
    <3> QED  BY <3>3
  <2>6. CASE SameUpTo(5) /\ CandsLeft' < CandsLeft
    <3>1. r[1] = s[1] /\ r[2] = s[2] /\ r[3] = s[3] /\ r[4] = s[4] /\ r[5] = s[5] /\ r[6] < s[6]
      BY <1>2, <2>6 DEF SameUpTo
    <3>2. \A k \in 1 .. 6 - 1 : k = 1 \/ k = 2 \/ k = 3 \/ k = 4 \/ k = 5
      OBVIOUS
    <3>3. (\A k \in 1 .. 6 - 1 : r[k] = s[k]) /\ r[6] < s[6]
      BY <3>1, <3>2
    <3> QED  BY <3>3
  <2>7. CASE SameUpTo(6) /\ VisitLeft' < VisitLeft
    <3>1. /\ r[1] = s[1] /\ r[2] = s[2] /\ r[3] = s[3] /\ r[4] = s[4] /\ r[5] = s[5]
          /\ r[6] = s[6] /\ r[7] < s[7]
      BY <1>2, <2>7 DEF SameUpTo
    <3>2. \A k \in 1 .. 7 - 1 : k = 1 \/ k = 2 \/ k = 3 \/ k = 4 \/ k = 5 \/ k = 6
      OBVIOUS
    <3>3. (\A k \in 1 .. 7 - 1 : r[k] = s[k]) /\ r[7] < s[7]
      BY <3>1, <3>2
    <3> QED  BY <3>3
  <2> QED  BY <2>1, <2>2, <2>3, <2>4, <2>5, <2>6, <2>7
<1> QED  BY <1>1, <1>3, LessAt DEF r, s

LEMMA MeasuredIs == IInv => Measured
<1> SUFFICES ASSUME IInv PROVE Measured
  OBVIOUS
<1>1. N \in Nat /\ inserted \in 0 .. N /\ layer \in Int
  BY TypeFacts DEF IInv
<1>2. RecordsLeft \in Nat
  BY <1>1 DEF RecordsLeft
<1>3. LayersLeft \in Nat
  BY <1>1 DEF LayersLeft, Larger
<1>4. pc = "descend" => D(id, current) \in Nat
  <2>1. pc = "descend" => id \in Node /\ current \in Node
    BY DEF IInv, TypeOK, Position, id
  <2>2. vec \in [Node -> Point]
    BY DEF IInv, TypeOK
  <2> QED  BY <2>1, <2>2, DistanceFacts
<1>5. PlaceLeft \in Nat
  BY <1>4 DEF PlaceLeft
<1>6. /\ Cardinality(Node \ Visited) \in Nat /\ Cardinality(linkBack) \in Nat
      /\ Cardinality(cands) \in Nat
  <2>1. Node \ Visited \in SUBSET Node /\ linkBack \in SUBSET Node /\ cands \in SUBSET Node
    BY DEF IInv, TypeOK, Visited
  <2> QED  BY <2>1, NodeSets
<1>7. NodesLeft \in Nat /\ CandsLeft \in Nat
  BY <1>6 DEF NodesLeft, CandsLeft
<1>8. StageLeft \in Nat /\ VisitLeft \in Nat
  BY DEF StageLeft, VisitLeft
<1> QED  BY <1>2, <1>3, <1>5, <1>7, <1>8 DEF Measured

LEMMA VisitedIs ==
  ASSUME IInv, NEW n \in Node \ Visited, Mark(n)
  PROVE  Cardinality(Node \ Visited)' < Cardinality(Node \ Visited)
<1>1. Visited' = Visited \cup {n}
  BY DEF Mark, Visited, IInv, TypeOK
<1>2. Node' \ Visited' = (Node \ Visited) \ {n}
  BY <1>1 DEF Node
<1>3. Node \ Visited \in SUBSET Node
  OBVIOUS
<1>4. IsFiniteSet(Node \ Visited) /\ Cardinality(Node \ Visited) \in Nat
  BY <1>3, NodeSets
<1>5. Cardinality((Node \ Visited) \ {n}) = Cardinality(Node \ Visited) - 1
  BY <1>4, FS_RemoveElement
<1> QED  BY <1>2, <1>4, <1>5

(***************************************************************************)
(* Every build ends: no step of any insertion is taken without leaving     *)
(* less of it.  As the builder is one goroutine that nothing blocks, that  *)
(* is BuildCompletes.                                                      *)
(***************************************************************************)
THEOREM BuildsEnd == Spec => [][Lessens]_vars
<1>1. ASSUME IInv, Measured, Measured', Insert PROVE <<Work', Work>> \in Less
  <2>1. N \in Nat /\ inserted \in 0 .. N /\ layer \in Int
    BY <1>1, TypeFacts DEF IInv
  <2>2. \A S \in SUBSET Node : IsFiniteSet(S) /\ Cardinality(S) \in Nat
    BY NodeSets
  <2>3. cands \in SUBSET Node /\ linkBack \in SUBSET Node
    BY <1>1 DEF IInv, TypeOK, Visited
  <2>4. CASE InsertFirst \/ FinishInsert
    <3>1. RecordsLeft' < RecordsLeft
      BY <2>1, <2>4 DEF InsertFirst, FinishInsert, RecordsLeft
    <3> QED  BY <1>1, <3>1, WorkIsLess
  <2>5. CASE BeginInsert \/ RegisterNode
    <3>1. SameUpTo(1) /\ StageLeft' < StageLeft
      BY <2>5 DEF BeginInsert, RegisterNode, SameUpTo, RecordsLeft, StageLeft
    <3> QED  BY <1>1, <3>1, WorkIsLess
  <2>6. CASE DescendHop
    <3>1. /\ pc = "descend" /\ pc' = "descend" /\ UNCHANGED <<vec, inserted, layer>>
          /\ current' \in Closer
      BY <2>6 DEF DescendHop, graph, NearestTo
    <3>2. SameUpTo(3)
      BY <3>1 DEF SameUpTo, RecordsLeft, StageLeft, LayersLeft
    <3>3. D(id, current)' < D(id, current)
      <4>1. D(id, current') < D(id, current)
        BY <3>1 DEF Closer
      <4> QED  BY <3>1, <4>1 DEF D, id
    <3>4. PlaceLeft' < PlaceLeft
      BY <3>1, <3>3 DEF PlaceLeft
    <3> QED  BY <1>1, <3>2, <3>4, WorkIsLess
  <2>7. CASE DescendLayer \/ NextLayer
    <3>1. /\ (pc = "descend" /\ pc' = "descend") \/ (pc = "back" /\ pc' = "layer")
          /\ inserted' = inserted /\ layer' = layer - 1 /\ layer >= 0
      BY <2>7, <2>1 DEF DescendLayer, NextLayer
    <3>2. SameUpTo(2)
      BY <3>1 DEF SameUpTo, RecordsLeft, StageLeft
    <3>3. LayersLeft' < LayersLeft
      BY <2>1, <3>1 DEF LayersLeft, Larger
    <3> QED  BY <1>1, <3>2, <3>3, WorkIsLess
  <2>8. CASE StartSearch \/ StopSearch \/ LinkOut
    <3>1. /\ \/ pc = "layer" /\ pc' = "search"
             \/ pc = "search" /\ pc' = "connect"
             \/ pc = "connect" /\ pc' = "back"
          /\ UNCHANGED <<inserted, layer>>
      BY <2>8 DEF StartSearch, StopSearch, LinkOut
    <3>2. SameUpTo(3)
      BY <3>1 DEF SameUpTo, RecordsLeft, StageLeft, LayersLeft
    <3>3. PlaceLeft' < PlaceLeft
      BY <3>1 DEF PlaceLeft
    <3> QED  BY <1>1, <3>2, <3>3, WorkIsLess
  <2>9. CASE Expand
    <3>1. PICK c \in cands : cands' = cands \ {c}
      BY <2>9 DEF Expand, NearestTo
    <3>2. pc = "search" /\ pc' = "visit" /\ UNCHANGED <<inserted, layer, marks, visGen>>
      BY <2>9 DEF Expand
    <3>3. SameUpTo(5)
      BY <3>2 DEF SameUpTo, RecordsLeft, StageLeft, LayersLeft, PlaceLeft, NodesLeft, Visited
    <3>4. Cardinality(cands \ {c}) = Cardinality(cands) - 1 /\ Cardinality(cands) \in Nat
      BY <2>2, <2>3, FS_RemoveElement
    <3>5. CandsLeft' < CandsLeft
      BY <3>1, <3>2, <3>4 DEF CandsLeft
    <3> QED  BY <1>1, <3>3, <3>5, WorkIsLess
  <2>10. CASE VisitKept \/ VisitDropped
    <3>1. PICK n \in Unvisited : Mark(n)
      BY <2>10 DEF VisitKept, VisitDropped
    <3>2. pc = "visit" /\ pc' = "visit" /\ UNCHANGED <<inserted, layer>>
      BY <2>10 DEF VisitKept, VisitDropped
    <3>3. n \in Node \ Visited
      <4>1. OnLayer({node}) /\ layer >= 0
        BY <1>1, <2>1, <3>2 DEF IInv, Position, Deciding
      <4>2. n \in Node
        BY <1>1, <3>1, <3>2, <4>1, NeighborsLive DEF Unvisited, OnLayer
      <4> QED  BY <3>1, <4>2 DEF Unvisited
    <3>4. SameUpTo(4)
      BY <3>2 DEF SameUpTo, RecordsLeft, StageLeft, LayersLeft, PlaceLeft
    <3>5. NodesLeft' < NodesLeft
      <4>1. Cardinality(Node \ Visited)' < Cardinality(Node \ Visited)
        BY <1>1, <3>1, <3>3, VisitedIs
      <4> QED  BY <3>2, <4>1 DEF NodesLeft
    <3> QED  BY <1>1, <3>4, <3>5, WorkIsLess
  <2>11. CASE EndVisit
    <3>1. /\ pc = "visit" /\ pc' = "search"
          /\ UNCHANGED <<inserted, layer, marks, visGen, cands>>
      BY <2>11 DEF EndVisit, search
    <3>2. SameUpTo(6)
      BY <3>1 DEF SameUpTo, RecordsLeft, StageLeft, LayersLeft, PlaceLeft, NodesLeft,
                  CandsLeft, Visited
    <3>3. VisitLeft' < VisitLeft
      BY <3>1 DEF VisitLeft
    <3> QED  BY <1>1, <3>2, <3>3, WorkIsLess
  <2>12. CASE LinkBack
    <3>1. PICK s \in linkBack : linkBack' = linkBack \ {s}
      BY <2>12 DEF LinkBack, NearestTo
    <3>2. pc = "back" /\ pc' = "back" /\ UNCHANGED <<inserted, layer>>
      BY <2>12 DEF LinkBack
    <3>3. SameUpTo(4)
      BY <3>2 DEF SameUpTo, RecordsLeft, StageLeft, LayersLeft, PlaceLeft
    <3>4. /\ Cardinality(linkBack \ {s}) = Cardinality(linkBack) - 1
          /\ Cardinality(linkBack) \in Nat
      BY <2>2, <2>3, FS_RemoveElement
    <3>5. NodesLeft' < NodesLeft
      BY <3>1, <3>2, <3>4 DEF NodesLeft
    <3> QED  BY <1>1, <3>3, <3>5, WorkIsLess
  <2> QED
    BY <1>1, <2>4, <2>5, <2>6, <2>7, <2>8, <2>9, <2>10, <2>11, <2>12 DEF Insert
<1>2. IInv /\ Measured /\ Measured' /\ [Next]_vars => [Lessens]_vars
  BY <1>1 DEF Next, Done, Lessens
<1> QED  BY <1>2, MeasuredIs, Inductive, PTL DEF Spec
=============================================================================
