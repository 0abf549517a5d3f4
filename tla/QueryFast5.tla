----------------------------- MODULE QueryFast5 -----------------------------
(***************************************************************************)
(* The nearest-neighbour query of internal/hnsw/query.go: one VisitSlot    *)
(* answers a sequence of queries against a read-only HNSW graph.  A query  *)
(* descends greedily through the upper layers, runs the bounded best-first *)
(* search of layer 0, and extracts the K nearest results.                  *)
(*                                                                         *)
(* A query vector matters only through its distance to every node, so a    *)
(* query IS a function from nodes to distances.  The candidate heap is the *)
(* set of the nodes in it: a node is pushed at most once per query, and    *)
(* which of several equally near candidates is popped is left open.        *)
(***************************************************************************)
EXTENDS Integers, Sequences, Functions

CONSTANTS
  N,        \* number of nodes of the graph (Graph.N)
  QueryEf,  \* search width at layer 0 (queryEf = 10)
  K,        \* answers per query (5)
  GenMod,   \* values of the visit generation counter (uint8: 256)
  MaxDist,  \* largest distance (14 * 255^2 = 910350)
  Graphs    \* the graphs a behaviour may be about

Node == 0 .. N - 1
Positions == 1 .. QueryEf

(***************************************************************************)
(* A graph has an entry point, a neighbour list per node at layer 0 and    *)
(* one per node at every upper layer; upperNeighbors answers nil, here the *)
(* empty list, for a node that does not live on the layer.                 *)
(***************************************************************************)
Adjacency == [Node -> Seq(Node)]
GraphType == [entry : Node, nbr0 : Adjacency, upper : Seq(Adjacency)]

ASSUME SizeAssumption ==
  /\ N \in Nat \ {0}
  /\ QueryEf \in Nat \ {0}
  /\ K \in 1 .. QueryEf
  /\ GenMod \in Nat /\ GenMod >= 2
  /\ MaxDist \in Nat
ASSUME GraphAssumption == Graphs \subseteq GraphType

VARIABLES
  g,          \* the loaded graph, never written after Init
  pc,         \* where the query stands
  dist,       \* Dist(q, VectorAt(n)) for every node n: the current query
  current,    \* greedy descent: the node reached so far
  layer,      \* greedy descent: the layer it is on
  marks,      \* slot.marks
  gen,        \* slot.gen
  cands,      \* the nodes in slot.cands
  resIDs,     \* slot.resIDs[0..resCnt-1]; resDists[i] is dist[resIDs[i]]
  resWorstD,  \* slot.resWorstD
  resWorstI,  \* slot.resWorstI, counted from 1
  node,       \* the candidate being expanded
  nbIdx,      \* position in its neighbour list
  out         \* the answers picked so far

descent == <<current, layer>>
results == <<resIDs, resWorstD, resWorstI>>
expansion == <<node, nbIdx>>
vars == <<g, pc, dist, descent, marks, gen, cands, results, expansion, out>>

Results == Range(resIDs)
Visited == {n \in Node : marks[n] = gen}

-----------------------------------------------------------------------------
(* A new slot: marks and gen are zero, nothing has been asked yet. *)
Init ==
  /\ g \in Graphs
  /\ pc = "idle"
  /\ dist = [n \in Node |-> 0]
  /\ current = g.entry /\ layer = 0
  /\ marks = [n \in Node |-> 0] /\ gen = 0
  /\ cands = {}
  /\ resIDs = <<>> /\ resWorstD = 0 /\ resWorstI = 1
  /\ node = g.entry /\ nbIdx = 1
  /\ out = <<>>

(* QueryFast5 is called with the query vector whose distances are d. *)
StartQuery ==
  /\ pc = "idle"
  /\ dist' \in [Node -> 0 .. MaxDist]
  /\ current' = g.entry
  /\ layer' = Len(g.upper)
  /\ out' = <<>>
  /\ pc' = "descend"
  /\ UNCHANGED <<g, marks, gen, cands, results, expansion>>

(***************************************************************************)
(* greedyDescendUpper.  One pass over the neighbours of the node the pass  *)
(* started from keeps the first of the nearest ones that is strictly       *)
(* closer than it.                                                         *)
(***************************************************************************)
NotFarther(nbs) == {i \in DOMAIN nbs : dist[nbs[i]] <= dist[current]}  \* mutant
Closer(nbs) == {i \in DOMAIN nbs : dist[nbs[i]] < dist[current]}
FirstNearest(nbs, i) ==
  \A j \in DOMAIN nbs : \/ dist[nbs[i]] < dist[nbs[j]]
                        \/ dist[nbs[i]] = dist[nbs[j]] /\ i <= j

(* The pass improved: another pass starts from the nearest neighbour. *)
DescendHop ==
  /\ pc = "descend" /\ layer >= 1
  /\ LET nbs == g.upper[layer][current]
     IN  \E i \in Closer(nbs) : FirstNearest(nbs, i) /\ current' = nbs[i]
  /\ UNCHANGED <<g, pc, dist, layer, marks, gen, cands, results, expansion, out>>

(* The pass did not improve: the next layer down starts from here. *)
DescendLayer ==
  /\ pc = "descend" /\ layer >= 1
  /\ Closer(g.upper[layer][current]) = {}
  /\ layer' = layer - 1
  /\ UNCHANGED <<g, pc, dist, current, marks, gen, cands, results, expansion, out>>

(***************************************************************************)
(* Start of searchLayer0Fast.  The generation is bumped modulo its width;  *)
(* when it wraps, every mark is zeroed and generation 0 is skipped.        *)
(***************************************************************************)
WideNextGen == gen + 1  \* mutant
NextGen == IF gen + 1 = GenMod THEN 0 ELSE gen + 1
FreshGen == IF NextGen = 0 THEN 1 ELSE NextGen
UnclearedMarks == marks  \* mutant
FreshMarks == IF NextGen = 0 THEN [n \in Node |-> 0] ELSE marks

BeginLayer0 ==
  /\ pc = "descend" /\ layer = 0
  /\ gen' = FreshGen
  /\ marks' = [FreshMarks EXCEPT ![current] = FreshGen]
  /\ cands' = {current}
  /\ resIDs' = <<current>>
  /\ resWorstD' = dist[current] /\ resWorstI' = 1
  /\ pc' = "expand"
  /\ UNCHANGED <<g, dist, descent, expansion, out>>

(* popMin, and the termination test against the worst kept result. *)
Nearest(c, S) == \A o \in S : dist[c] <= dist[o]

PopCandidate ==
  /\ pc = "expand"
  /\ \E c \in cands :
       /\ Nearest(c, cands)
       /\ dist[c] <= resWorstD
       /\ cands' = cands \ {c}
       /\ node' = c /\ nbIdx' = 1
  /\ pc' = "visit"
  /\ UNCHANGED <<g, dist, descent, marks, gen, results, out>>

StopAtTie ==  \* mutant
  /\ pc = "expand"
  /\ \/ cands = {} /\ UNCHANGED cands
     \/ \E c \in cands : /\ Nearest(c, cands)
                         /\ dist[c] >= resWorstD
                         /\ cands' = cands \ {c}
  /\ pc' = "pick"
  /\ UNCHANGED <<g, dist, descent, marks, gen, results, expansion, out>>

StopSearch ==
  /\ pc = "expand"
  /\ \/ cands = {} /\ UNCHANGED cands
     \/ \E c \in cands : /\ Nearest(c, cands)
                         /\ dist[c] > resWorstD
                         /\ cands' = cands \ {c}
  /\ pc' = "pick"
  /\ UNCHANGED <<g, dist, descent, marks, gen, results, expansion, out>>

-----------------------------------------------------------------------------
(* The loop over the layer-0 neighbours of the popped candidate. *)
Neighbors0 == g.nbr0[node]
AtNeighbor == pc = "visit" /\ nbIdx \in DOMAIN Neighbors0
Neighbor == Neighbors0[nbIdx]

EndOfNeighbors ==
  /\ pc = "visit" /\ nbIdx = Len(Neighbors0) + 1
  /\ pc' = "expand"
  /\ UNCHANGED <<g, dist, descent, marks, gen, cands, results, expansion, out>>

SkipVisited ==
  /\ AtNeighbor
  /\ marks[Neighbor] = gen
  /\ nbIdx' = nbIdx + 1
  /\ UNCHANGED <<g, pc, dist, descent, marks, gen, cands, results, node, out>>

VisitUnmarked ==  \* mutant
  /\ AtNeighbor
  /\ marks[Neighbor] # gen
  /\ nbIdx' = nbIdx + 1
  /\ UNCHANGED <<g, pc, dist, descent, marks, gen, node, out>>

(* Every neighbour not visited yet is marked, whether or not it is kept. *)
VisitNew ==
  /\ AtNeighbor
  /\ marks[Neighbor] # gen
  /\ marks' = [marks EXCEPT ![Neighbor] = gen]
  /\ nbIdx' = nbIdx + 1
  /\ UNCHANGED <<g, pc, dist, descent, gen, node, out>>

AdmitWithoutExploring ==  \* mutant
  /\ VisitNew
  /\ Len(resIDs) < QueryEf
  /\ resIDs' = Append(resIDs, Neighbor)
  /\ IF dist[Neighbor] > resWorstD
     THEN /\ resWorstD' = dist[Neighbor] /\ resWorstI' = Len(resIDs) + 1
          /\ UNCHANGED cands
     ELSE /\ UNCHANGED <<resWorstD, resWorstI>>
          /\ cands' = cands \cup {Neighbor}

(* Room left among the QueryEf results: the neighbour is appended. *)
AdmitWithRoom ==
  /\ VisitNew
  /\ Len(resIDs) < QueryEf
  /\ resIDs' = Append(resIDs, Neighbor)
  /\ IF dist[Neighbor] > resWorstD
     THEN resWorstD' = dist[Neighbor] /\ resWorstI' = Len(resIDs) + 1
     ELSE UNCHANGED <<resWorstD, resWorstI>>
  /\ cands' = cands \cup {Neighbor}

(* The results are full and the neighbour beats the worst one: it takes    *)
(* its place, and a re-scan finds the first of the new worst ones.         *)
FirstWorst(ids, i) ==
  \A j \in DOMAIN ids : \/ dist[ids[i]] > dist[ids[j]]
                        \/ dist[ids[i]] = dist[ids[j]] /\ i <= j

ReplaceWithoutRescan ==  \* mutant
  /\ VisitNew
  /\ Len(resIDs) >= QueryEf
  /\ dist[Neighbor] < resWorstD
  /\ resIDs' = [resIDs EXCEPT ![resWorstI] = Neighbor]
  /\ resWorstD' = dist[Neighbor] /\ UNCHANGED resWorstI
  /\ cands' = cands \cup {Neighbor}

ReplaceOldest ==  \* mutant
  /\ VisitNew
  /\ Len(resIDs) >= QueryEf
  /\ dist[Neighbor] < resWorstD
  /\ resIDs' = [resIDs EXCEPT ![1] = Neighbor]
  /\ \E i \in Positions : /\ FirstWorst(resIDs', i)
                          /\ resWorstI' = i
                          /\ resWorstD' = dist[resIDs'[i]]
  /\ cands' = cands \cup {Neighbor}

ReplaceWorst ==
  /\ VisitNew
  /\ Len(resIDs) >= QueryEf
  /\ dist[Neighbor] < resWorstD
  /\ resIDs' = [resIDs EXCEPT ![resWorstI] = Neighbor]
  /\ \E i \in Positions : /\ FirstWorst(resIDs', i)
                          /\ resWorstI' = i
                          /\ resWorstD' = dist[resIDs'[i]]
  /\ cands' = cands \cup {Neighbor}

RejectFar ==
  /\ VisitNew
  /\ Len(resIDs) >= QueryEf
  /\ dist[Neighbor] >= resWorstD
  /\ UNCHANGED <<results, cands>>

-----------------------------------------------------------------------------
(***************************************************************************)
(* top5FromResults.  Each of the K picks takes the first of the nearest    *)
(* results not taken yet, or answers node 0 when none is left.             *)
(***************************************************************************)
Untaken == {i \in DOMAIN resIDs : \A p \in DOMAIN out : out[p] # resIDs[i]}

PickFirst ==  \* mutant
  /\ pc = "pick" /\ Len(out) < K
  /\ \E i \in Untaken :
       /\ \A j \in Untaken : i <= j
       /\ out' = Append(out, resIDs[i])
  /\ UNCHANGED <<g, pc, dist, descent, marks, gen, cands, results, expansion>>

PickNearest ==
  /\ pc = "pick" /\ Len(out) < K
  /\ \E i \in Untaken :
       /\ \A j \in Untaken : \/ dist[resIDs[i]] < dist[resIDs[j]]
                             \/ dist[resIDs[i]] = dist[resIDs[j]] /\ i <= j
       /\ out' = Append(out, resIDs[i])
  /\ UNCHANGED <<g, pc, dist, descent, marks, gen, cands, results, expansion>>

PickPadding ==
  /\ pc = "pick" /\ Len(out) < K
  /\ Untaken = {}
  /\ out' = Append(out, 0)
  /\ UNCHANGED <<g, pc, dist, descent, marks, gen, cands, results, expansion>>

Return ==
  /\ pc = "pick" /\ Len(out) = K
  /\ pc' = "idle"
  /\ UNCHANGED <<g, dist, descent, marks, gen, cands, results, expansion, out>>

-----------------------------------------------------------------------------
Visit == AdmitWithRoom \/ ReplaceWorst \/ RejectFar
Step ==
  \/ DescendHop \/ DescendLayer \/ BeginLayer0
  \/ PopCandidate \/ StopSearch
  \/ EndOfNeighbors \/ SkipVisited \/ Visit
  \/ PickNearest \/ PickPadding \/ Return
Next == StartQuery \/ Step

(* The goroutine that runs a query is never blocked inside it. *)
Fairness == WF_vars(Step)
Spec == Init /\ [][Next]_vars /\ Fairness

-----------------------------------------------------------------------------
TypeOK ==
  /\ g \in Graphs
  /\ pc \in {"idle", "descend", "expand", "visit", "pick"}
  /\ dist \in [Node -> 0 .. MaxDist]
  /\ current \in Node /\ layer \in 0 .. Len(g.upper)
  /\ marks \in [Node -> 0 .. GenMod - 1] /\ gen \in 0 .. GenMod - 1
  /\ cands \subseteq Node
  /\ resIDs \in Seq(Node) /\ Len(resIDs) <= QueryEf
  /\ resWorstD \in 0 .. MaxDist /\ resWorstI \in Positions
  /\ node \in Node /\ nbIdx \in Nat \ {0}
  /\ out \in Seq(Node) /\ Len(out) <= K

Searching == pc \in {"expand", "visit", "pick"}
Full == Len(resIDs) = QueryEf

(***************************************************************************)
(* A reused slot starts its search knowing only the node it starts from,   *)
(* however many queries it has served: no mark of an earlier query, not    *)
(* even one 255 queries old, is taken for a visit of this one.             *)
(***************************************************************************)
FreshStart == [][BeginLayer0 => Visited' = {current}]_vars

(***************************************************************************)
(* The bound the search prunes with is the distance of the farthest result *)
(* kept, and resWorstI is where that result is: the replacement re-scan    *)
(* and the appends keep the cached pair true.                              *)
(***************************************************************************)
WorstTracked ==
  Searching => /\ resWorstI \in DOMAIN resIDs
               /\ resWorstD = dist[resIDs[resWorstI]]
               /\ \A r \in Results : dist[r] <= resWorstD

(***************************************************************************)
(* What the search saw and did not keep could not improve the results:     *)
(* every node visited is a result, or the results are full and it is at    *)
(* least as far as the farthest of them.  No node is a result twice.       *)
(***************************************************************************)
KeepsNearest ==
  Searching =>
    /\ \A i, j \in DOMAIN resIDs : resIDs[i] = resIDs[j] => i = j
    /\ \A n \in Visited : n \in Results \/ (Full /\ dist[n] >= resWorstD)

(***************************************************************************)
(* The search stops at a local optimum: every layer-0 neighbour of a       *)
(* result has been looked at, so stopping at the first candidate farther   *)
(* than the worst result loses nothing next to a result.                   *)
(***************************************************************************)
LocallyComplete ==
  pc = "pick" => \A r \in Results : Range(g.nbr0[r]) \subseteq Visited

(***************************************************************************)
(* When the results do not fill up, they are exactly the nodes that can be *)
(* reached over layer 0 from where the descent ended: a node is missing,   *)
(* and the answer padded, only because no path leads to it.                *)
(***************************************************************************)
Closed(S) == \A n \in S : Range(g.nbr0[n]) \subseteq S
ExactWhenSmall ==
  (pc = "pick" /\ ~ Full) =>
    /\ current \in Results /\ Closed(Results)
    /\ \A S \in SUBSET Node : (current \in S /\ Closed(S)) => Results \subseteq S

(***************************************************************************)
(* The answers are the K nearest of all the nodes the search visited,      *)
(* nearest first and each once; node 0 pads them only when every node      *)
(* visited has been answered already.                                      *)
(***************************************************************************)
Answered(p) == {out[q] : q \in 1 .. p}
AnswersAreNearest ==
  pc = "pick" => \A p \in DOMAIN out :
    \/ /\ out[p] \in Visited \ Answered(p - 1)
       /\ \A n \in Visited \ Answered(p - 1) : dist[out[p]] <= dist[n]
    \/ out[p] = 0 /\ Visited \subseteq Answered(p - 1)

(***************************************************************************)
(* The first answer is never farther than the graph's entry point: neither *)
(* the descent nor the bounded search loses ground it has gained.          *)
(***************************************************************************)
NeverWorseThanEntry ==
  (pc = "pick" /\ out # <<>>) => dist[out[1]] <= dist[g.entry]

(***************************************************************************)
(* Every query is answered: the hill climb does not run around a plateau   *)
(* of equal distances, and the candidate loop drains.                      *)
(***************************************************************************)
QueryReturns == pc = "descend" ~> pc = "idle"
=============================================================================
