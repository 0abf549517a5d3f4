-------------------------- MODULE QueryFast5Proofs --------------------------
(***************************************************************************)
(* Proofs about QueryFast5, and about the exact scan of RecallCheck that   *)
(* its answers are measured against, for every graph, search width, number *)
(* of answers, generation width and distance range.                        *)
(***************************************************************************)
EXTENDS RecallCheck, TLAPS, FiniteSetTheorems, SequenceTheorems, WellFoundedInduction

LEMMA GraphFacts ==
  ASSUME TypeOK
  PROVE  /\ g.entry \in Node
         /\ g.nbr0 \in [Node -> Seq(Node)]
         /\ g.upper \in Seq(Adjacency)
         /\ \A n \in Node : /\ g.nbr0[n] \in Seq(Node)
                            /\ \A i \in DOMAIN g.nbr0[n] : g.nbr0[n][i] \in Node
         /\ \A L \in 1 .. Len(g.upper), n \in Node : g.upper[L][n] \in Seq(Node)
<1>1. g \in GraphType
  BY GraphAssumption DEF TypeOK
<1>2. /\ g.entry \in Node
      /\ g.nbr0 \in [Node -> Seq(Node)]
      /\ g.upper \in Seq(Adjacency)
  BY <1>1 DEF GraphType, Adjacency
<1>3. ASSUME NEW n \in Node
      PROVE  /\ g.nbr0[n] \in Seq(Node)
             /\ \A i \in DOMAIN g.nbr0[n] : g.nbr0[n][i] \in Node
  <2>1. g.nbr0[n] \in Seq(Node)
    BY <1>2
  <2> QED
    BY <2>1
<1>4. ASSUME NEW L \in 1 .. Len(g.upper), NEW n \in Node
      PROVE  g.upper[L][n] \in Seq(Node)
  <2>1. g.upper[L] \in Adjacency
    BY <1>2
  <2> QED
    BY <2>1 DEF Adjacency
<1> QED
  BY <1>2, <1>3, <1>4

LEMMA ResultFacts ==
  ASSUME TypeOK
  PROVE  /\ Results \subseteq Node /\ DOMAIN resIDs = 1 .. Len(resIDs)
         /\ Len(resIDs) \in 0 .. QueryEf
         /\ \A i \in DOMAIN resIDs : resIDs[i] \in Node /\ resIDs[i] \in Results
<1>1. resIDs \in Seq(Node) /\ Len(resIDs) <= QueryEf
  BY DEF TypeOK
<1>2. DOMAIN resIDs = 1 .. Len(resIDs) /\ Len(resIDs) \in Nat
  BY <1>1, LenProperties
<1>3. \A i \in DOMAIN resIDs : resIDs[i] \in Node
  BY <1>1, <1>2, ElementOfSeq
<1> QED
  BY <1>1, <1>2, <1>3, SizeAssumption DEF Results, Range

LEMMA AppendFacts ==
  ASSUME NEW S, NEW s \in Seq(S), NEW e \in S
  PROVE  /\ Append(s, e) \in Seq(S)
         /\ Len(s) \in Nat /\ Len(Append(s, e)) = Len(s) + 1
         /\ DOMAIN s = 1 .. Len(s) /\ DOMAIN Append(s, e) = 1 .. Len(s) + 1
         /\ \A i \in 1 .. Len(s) : Append(s, e)[i] = s[i]
         /\ Append(s, e)[Len(s) + 1] = e
         /\ Range(Append(s, e)) = Range(s) \cup {e}
<1>1. /\ Append(s, e) \in Seq(S)
      /\ Len(s) \in Nat /\ Len(Append(s, e)) = Len(s) + 1
      /\ DOMAIN s = 1 .. Len(s) /\ DOMAIN Append(s, e) = 1 .. Len(s) + 1
      /\ \A i \in 1 .. Len(s) : Append(s, e)[i] = s[i]
      /\ Append(s, e)[Len(s) + 1] = e
  OBVIOUS
<1>2. Range(Append(s, e)) = Range(s) \cup {e}
  BY <1>1, SMTT(20) DEF Range
<1> QED
  BY <1>1, <1>2

LEMMA ReplaceFacts ==
  ASSUME TypeOK, ReplaceWorst, Neighbor \in Node
  PROVE  /\ Full /\ resWorstI \in DOMAIN resIDs
         /\ DOMAIN resIDs = Positions
         /\ resIDs' \in Seq(Node) /\ Len(resIDs') = QueryEf
         /\ DOMAIN resIDs' = Positions
         /\ \A i \in Positions :
              resIDs'[i] = IF i = resWorstI THEN Neighbor ELSE resIDs[i]
         /\ resWorstI' \in Positions
         /\ resWorstD' = dist[resIDs'[resWorstI']]
         /\ \A r \in Range(resIDs') : dist[r] <= resWorstD'
<1> USE SizeAssumption
<1>1. /\ resIDs \in Seq(Node) /\ Len(resIDs) = QueryEf /\ resWorstI \in 1 .. QueryEf
      /\ DOMAIN resIDs = 1 .. QueryEf
      /\ resIDs' = [resIDs EXCEPT ![resWorstI] = Neighbor]
  BY DEF TypeOK, ReplaceWorst, Positions
<1>2. /\ resIDs' \in Seq(Node) /\ Len(resIDs') = QueryEf
      /\ \A i \in 1 .. QueryEf :
           resIDs'[i] = IF i = resWorstI THEN Neighbor ELSE resIDs[i]
  BY <1>1, ExceptSeq
<1>3. DOMAIN resIDs' = 1 .. QueryEf
  BY <1>2, LenProperties
<1>4. PICK k \in Positions : FirstWorst(resIDs', k) /\ resWorstI' = k
                            /\ resWorstD' = dist[resIDs'[k]]
  BY DEF ReplaceWorst
<1>5. \A i \in 1 .. QueryEf : resIDs'[i] \in Node
  BY <1>2, ElementOfSeq
<1>6. \A n \in Node : dist[n] \in Int
  BY DEF TypeOK
<1>7. \A r \in Range(resIDs') : dist[r] <= resWorstD'
  BY <1>3, <1>4, <1>5, <1>6 DEF FirstWorst, Range, Positions
<1> QED
  BY <1>1, <1>2, <1>3, <1>4, <1>7 DEF Full, Positions

(* Every variable keeps the range its Go type and its use give it; in     *)
(* particular the generation never leaves the width of the counter and no *)
(* result or answer is other than a node of the graph.                    *)
LEMMA TypeInit == Init => TypeOK
BY SizeAssumption, GraphAssumption
   DEF Init, TypeOK, Node, Positions, GraphType, Adjacency

LEMMA TypeStep == TypeOK /\ [Next]_vars => TypeOK'
<1> SUFFICES ASSUME TypeOK, [Next]_vars
             PROVE  TypeOK'
  OBVIOUS
<1> USE SizeAssumption
<1>g. /\ g.entry \in Node /\ Len(g.upper) \in Nat
      /\ \A n \in Node : \A i \in DOMAIN g.nbr0[n] : g.nbr0[n][i] \in Node
  BY GraphFacts
<1>0. 0 \in Node
  BY DEF Node
<1>1. CASE StartQuery
  <2>1. /\ UNCHANGED <<g, marks, gen, cands, resIDs, resWorstD, resWorstI, node, nbIdx>>
        /\ pc' = "descend" /\ dist' \in [Node -> 0 .. MaxDist] /\ out' = <<>>
        /\ current' = g.entry /\ layer' = Len(g.upper)
    BY <1>1 DEF StartQuery, results, expansion
  <2>2. current' \in Node /\ layer' \in 0 .. Len(g'.upper)
    BY <1>g, <2>1
  <2>3. out' \in Seq(Node) /\ Len(out') <= K
    BY <2>1
  <2> QED
    BY <2>1, <2>2, <2>3 DEF TypeOK
<1>2. CASE DescendHop
  <2>1. PICK i \in Closer(g.upper[layer][current]) :
              current' = g.upper[layer][current][i]
    BY <1>2 DEF DescendHop
  <2>2. g.upper[layer][current] \in Seq(Node)
    <3>1. layer \in 1 .. Len(g.upper) /\ current \in Node
      BY <1>2, <1>g DEF DescendHop, TypeOK
    <3> QED
      BY <3>1, GraphFacts
  <2>3. current' \in Node
    BY <2>1, <2>2 DEF Closer
  <2> QED
    BY <1>2, <2>3 DEF DescendHop, TypeOK, results, expansion
<1>3. CASE DescendLayer
  <2>1. layer' \in 0 .. Len(g.upper)
    <3>1. layer \in 0 .. Len(g.upper) /\ layer >= 1 /\ layer' = layer - 1
      BY <1>3 DEF DescendLayer, TypeOK
    <3> QED
      BY <3>1, <1>g
  <2> QED
    BY <1>3, <2>1 DEF DescendLayer, TypeOK, results, expansion
<1>4. CASE BeginLayer0
  <2>1. FreshGen \in 1 .. GenMod - 1 /\ FreshMarks \in [Node -> 0 .. GenMod - 1]
    BY DEF FreshGen, FreshMarks, NextGen, TypeOK
  <2> QED
    BY <1>4, <2>1 DEF BeginLayer0, TypeOK, descent, expansion, Positions
<1>5. CASE PopCandidate
  BY <1>5 DEF PopCandidate, TypeOK, descent, results
<1>6. CASE StopSearch
  BY <1>6 DEF StopSearch, TypeOK, descent, results, expansion
<1>7. CASE EndOfNeighbors
  BY <1>7 DEF EndOfNeighbors, TypeOK, descent, results, expansion
<1>8. CASE SkipVisited
  <2>1. /\ UNCHANGED <<g, pc, dist, current, layer, marks, gen, cands, resIDs, resWorstD,
                       resWorstI, node, out>>
        /\ nbIdx' = nbIdx + 1
    BY <1>8 DEF SkipVisited, descent, results
  <2>2. nbIdx' \in Nat \ {0}
    BY <2>1 DEF TypeOK
  <2> QED
    BY <2>1, <2>2 DEF TypeOK
<1>9. CASE Visit
  <2>1. AtNeighbor /\ VisitNew
    BY <1>9 DEF Visit, AdmitWithRoom, ReplaceWorst, RejectFar, VisitNew
  <2>2. Neighbor \in Node /\ dist[Neighbor] \in 0 .. MaxDist
    BY <1>g, <2>1 DEF AtNeighbor, Neighbor, Neighbors0, TypeOK
  <2>3. /\ marks' \in [Node -> 0 .. GenMod - 1] /\ nbIdx' \in Nat \ {0}
        /\ UNCHANGED <<g, pc, dist, current, layer, gen, node, out>>
    BY <2>1, <2>2 DEF VisitNew, TypeOK, descent
  <2>4. CASE AdmitWithRoom
    <3>1. resIDs' \in Seq(Node) /\ Len(resIDs') <= QueryEf
      BY <2>4, <2>2 DEF AdmitWithRoom, TypeOK
    <3>2. resWorstD' \in 0 .. MaxDist /\ resWorstI' \in Positions
      <4>1. resIDs \in Seq(Node) /\ Len(resIDs) \in Nat /\ Len(resIDs) < QueryEf
            /\ resWorstD \in 0 .. MaxDist /\ resWorstI \in 1 .. QueryEf
        BY <2>4 DEF AdmitWithRoom, TypeOK, Positions
      <4> QED
        BY <4>1, <2>4, <2>2 DEF AdmitWithRoom, Positions
    <3>3. cands' \subseteq Node
      BY <2>4, <2>2 DEF AdmitWithRoom, TypeOK
    <3> QED
      BY <2>3, <3>1, <3>2, <3>3 DEF TypeOK
  <2>5. CASE ReplaceWorst
    <3>1. /\ resIDs' \in Seq(Node) /\ Len(resIDs') = QueryEf
          /\ resWorstI' \in Positions /\ resWorstD' = dist[resIDs'[resWorstI']]
      BY <2>5, <2>2, ReplaceFacts
    <3>2. resWorstD' \in 0 .. MaxDist
      <4>1. resIDs'[resWorstI'] \in Node
        BY <3>1, ElementOfSeq DEF Positions
      <4>2. dist \in [Node -> 0 .. MaxDist]
        BY DEF TypeOK
      <4> QED
        BY <3>1, <4>1, <4>2
    <3>3. cands' \subseteq Node
      BY <2>5, <2>2 DEF ReplaceWorst, TypeOK
    <3>4. resIDs' \in Seq(Node) /\ Len(resIDs') <= QueryEf /\ resWorstI' \in Positions
      BY <3>1
    <3> HIDE <2>5
    <3> QED
      BY <2>3, <3>2, <3>3, <3>4 DEF TypeOK
  <2>6. CASE RejectFar
    BY <2>6, <2>3 DEF RejectFar, TypeOK, results
  <2> QED
    BY <1>9, <2>4, <2>5, <2>6 DEF Visit
<1>10. CASE PickNearest
  <2>1. PICK i \in DOMAIN resIDs : out' = Append(out, resIDs[i])
    BY <1>10 DEF PickNearest, Untaken
  <2>2. resIDs[i] \in Node /\ out \in Seq(Node) /\ Len(out) < K
    BY <1>10 DEF PickNearest, TypeOK
  <2>3. out' \in Seq(Node) /\ Len(out') <= K
    BY <2>1, <2>2, AppendFacts
  <2> QED
    BY <1>10, <2>3 DEF PickNearest, TypeOK, descent, results, expansion
<1>11. CASE PickPadding
  <2>1. out \in Seq(Node) /\ Len(out) < K /\ out' = Append(out, 0)
    BY <1>11 DEF PickPadding, TypeOK
  <2>2. out' \in Seq(Node) /\ Len(out') <= K
    BY <1>0, <2>1, AppendFacts
  <2> QED
    BY <1>11, <2>2 DEF PickPadding, TypeOK, descent, results, expansion
<1>12. CASE Return
  BY <1>12 DEF Return, TypeOK, descent, results, expansion
<1>13. CASE UNCHANGED vars
  BY <1>13 DEF vars, TypeOK, descent, results, expansion
<1> QED
  BY <1>1, <1>2, <1>3, <1>4, <1>5, <1>6, <1>7, <1>8, <1>9, <1>10, <1>11,
     <1>12, <1>13 DEF Next, Step

THEOREM TypeCorrect == Spec => []TypeOK
BY TypeInit, TypeStep, PTL DEF Spec

-----------------------------------------------------------------------------
(***************************************************************************)
(* The inductive invariant of the search.  The marks never run ahead of    *)
(* the generation, so bumping it forgets every visit.  While a query       *)
(* searches, a result is still a candidate, is being expanded, or has all  *)
(* its neighbours visited; and what is visited lies in every set that      *)
(* holds the starting node and is closed under the layer-0 edges.          *)
(***************************************************************************)
MarksNotAhead == \A n \in Node : marks[n] <= gen

Explored(r) == Range(g.nbr0[r]) \subseteq Visited
Frontier ==
  Searching =>
    /\ current \in Visited /\ Results \subseteq Visited /\ cands \subseteq Visited
    /\ \A r \in Results : r \in cands \/ (pc = "visit" /\ r = node) \/ Explored(r)
Expanding ==
  pc = "visit" =>
    /\ node \in Visited /\ nbIdx <= Len(Neighbors0) + 1
    /\ \A j \in 1 .. nbIdx - 1 : Neighbors0[j] \in Visited
WithinReach ==
  Searching => \A S \in SUBSET Node : current \in S /\ Closed(S) => Visited \subseteq S

IInv == /\ TypeOK /\ MarksNotAhead /\ WorstTracked /\ KeepsNearest
        /\ Frontier /\ Expanding /\ WithinReach /\ LocallyComplete

LEMMA InvInit == Init => IInv
<1> SUFFICES ASSUME Init PROVE IInv
  OBVIOUS
<1>1. TypeOK
  BY TypeInit
<1> QED
  BY <1>1 DEF Init, IInv, MarksNotAhead, WorstTracked, KeepsNearest, Frontier,
              Expanding, WithinReach, LocallyComplete, Searching, Node

(* A step that leaves the search alone, or is taken outside it. *)
LEMMA InvOutsideSearch ==
  ASSUME IInv, TypeOK', UNCHANGED <<g, marks, gen>>, pc' \notin {"expand", "visit"},
         \/ pc' # "pick"
         \/ UNCHANGED <<pc, dist, current, cands, results, expansion>>
  PROVE  IInv'
<1>1. CASE pc' # "pick"
  <2>1. ~ Searching'
    BY <1>1 DEF Searching
  <2> QED
    BY <1>1, <2>1 DEF IInv, MarksNotAhead, WorstTracked, KeepsNearest, Frontier,
                      Expanding, WithinReach, LocallyComplete
<1>2. CASE UNCHANGED <<pc, dist, current, cands, results, expansion>>
  BY <1>2 DEF IInv, MarksNotAhead, WorstTracked, KeepsNearest, Frontier, Expanding,
              WithinReach, LocallyComplete, Searching, Results, Visited, Full,
              Explored, Closed, Neighbors0, results, expansion
<1> QED
  BY <1>1, <1>2

(* The bumped generation is ahead of every mark. *)
LEMMA FreshGenIsNew ==
  ASSUME TypeOK, MarksNotAhead
  PROVE  /\ FreshGen \in 1 .. GenMod - 1
         /\ FreshMarks \in [Node -> 0 .. GenMod - 1]
         /\ \A n \in Node : FreshMarks[n] < FreshGen
BY SizeAssumption DEF TypeOK, MarksNotAhead, FreshGen, FreshMarks, NextGen

LEMMA BeginVisited ==
  ASSUME TypeOK, MarksNotAhead, BeginLayer0
  PROVE  Visited' = {current}
<1>1. current \in Node
  BY DEF TypeOK
<1> QED
  BY <1>1, FreshGenIsNew DEF BeginLayer0, Visited

LEMMA InvBegin ==
  ASSUME IInv, TypeOK', BeginLayer0
  PROVE  IInv'
<1>1. /\ TypeOK /\ MarksNotAhead /\ current \in Node /\ dist \in [Node -> 0 .. MaxDist]
  BY DEF IInv, TypeOK
<1>2. /\ Visited' = {current} /\ cands' = {current} /\ pc' = "expand"
      /\ UNCHANGED <<g, dist, current>>
      /\ resIDs' = <<current>> /\ resWorstD' = dist[current] /\ resWorstI' = 1
  BY <1>1, BeginVisited DEF BeginLayer0, descent
<1>3. Results' = {current} /\ DOMAIN resIDs' = {1} /\ resIDs'[1] = current
  BY <1>2 DEF Results, Range
<1>4. MarksNotAhead'
  BY <1>1, FreshGenIsNew DEF BeginLayer0, MarksNotAhead
<1>5. WorstTracked' /\ KeepsNearest'
  <2>1. dist[current] <= dist[current]
    BY <1>1
  <2> QED
    BY <1>1, <1>2, <1>3, <2>1 DEF WorstTracked, KeepsNearest
<1>6. Frontier' /\ Expanding' /\ WithinReach' /\ LocallyComplete'
  BY <1>2, <1>3 DEF Frontier, Expanding, WithinReach, LocallyComplete
<1> QED
  BY <1>4, <1>5, <1>6 DEF IInv

(* The steps of a search that visit nothing new. *)
LEMMA InvSameVisits ==
  ASSUME IInv, TypeOK', Searching, Searching',
         UNCHANGED <<g, dist, descent, marks, gen, results>>
  PROVE  /\ MarksNotAhead' /\ WorstTracked' /\ KeepsNearest' /\ WithinReach'
         /\ Visited' = Visited /\ Results' = Results
         /\ \A r \in Results : Explored(r)' <=> Explored(r)
<1>1. Visited' = Visited /\ Results' = Results
  BY DEF Visited, Results, results
<1>2. MarksNotAhead' /\ WorstTracked' /\ KeepsNearest'
  BY <1>1 DEF IInv, MarksNotAhead, WorstTracked, KeepsNearest, Full, results
<1>3. WithinReach'
  BY <1>1 DEF IInv, WithinReach, Closed, descent
<1> QED
  BY <1>1, <1>2, <1>3 DEF Explored

LEMMA InvPop ==
  ASSUME IInv, TypeOK', PopCandidate
  PROVE  IInv'
<1>1. /\ UNCHANGED <<g, dist, descent, marks, gen, results>> /\ Searching /\ Searching'
      /\ pc = "expand" /\ pc' = "visit" /\ nbIdx' = 1
  BY DEF PopCandidate, Searching
<1>2. /\ MarksNotAhead' /\ WorstTracked' /\ KeepsNearest' /\ WithinReach'
      /\ Visited' = Visited /\ Results' = Results
      /\ \A r \in Results : Explored(r)' <=> Explored(r)
  BY <1>1, InvSameVisits
<1>3. node' \in cands /\ cands' = cands \ {node'}
  BY DEF PopCandidate
<1>4. Frontier'
  BY <1>1, <1>2, <1>3 DEF IInv, Frontier, descent
<1>5. Expanding'
  <2>1. node' \in Node /\ g' = g /\ Len(g.nbr0[node']) \in Nat
    <3>1. node' \in Node /\ g' = g
      BY <1>1, <1>3 DEF IInv, TypeOK
    <3>2. g.nbr0[node'] \in Seq(Node)
      BY <3>1, GraphFacts DEF IInv
    <3> QED
      BY <3>1, <3>2
  <2>2. node' \in Visited'
    BY <1>1, <1>2, <1>3 DEF IInv, Frontier
  <2> QED
    BY <1>1, <2>1, <2>2 DEF Expanding, Neighbors0
<1> QED
  BY <1>1, <1>2, <1>4, <1>5 DEF IInv, LocallyComplete

(* No candidate left is a result: each is farther than the worst one. *)
LEMMA InvStop ==
  ASSUME IInv, TypeOK', StopSearch
  PROVE  IInv'
<1>1. /\ UNCHANGED <<g, dist, descent, marks, gen, results>> /\ Searching /\ Searching'
      /\ pc = "expand" /\ pc' = "pick" /\ cands' \subseteq cands
  BY DEF StopSearch, Searching
<1>2. /\ MarksNotAhead' /\ WorstTracked' /\ KeepsNearest' /\ WithinReach'
      /\ Visited' = Visited /\ Results' = Results
      /\ \A r \in Results : Explored(r)' <=> Explored(r)
  BY <1>1, InvSameVisits
<1>3. ASSUME NEW r \in Results
      PROVE  Explored(r)
  <2>1. \A n \in Node : dist[n] \in Int
    BY DEF IInv, TypeOK
  <2>2. r \in Node /\ dist[r] <= resWorstD /\ resWorstD \in Int
    <3>1. r \in Node
      BY ResultFacts DEF IInv
    <3>2. resWorstD \in Int
      BY DEF IInv, TypeOK
    <3> QED
      BY <1>1, <3>1, <3>2 DEF IInv, WorstTracked
  <2>3. r \notin cands
    <3>1. CASE cands = {}
      BY <3>1
    <3>2. CASE \E c \in cands : Nearest(c, cands) /\ dist[c] > resWorstD
      <4>1. PICK c \in cands : Nearest(c, cands) /\ dist[c] > resWorstD
        BY <3>2
      <4>2. c \in Node
        BY DEF IInv, TypeOK
      <4>3. SUFFICES ASSUME r \in cands PROVE FALSE
        OBVIOUS
      <4>4. dist[c] <= dist[r]
        BY <4>1, <4>3 DEF Nearest
      <4> QED
        BY <2>1, <2>2, <4>1, <4>2, <4>4
    <3> QED
      BY <3>1, <3>2 DEF StopSearch
  <2> QED
    BY <1>1, <2>3 DEF IInv, Frontier
<1>4. LocallyComplete'
  BY <1>1, <1>2, <1>3 DEF LocallyComplete, Explored
<1>5. Frontier' /\ Expanding'
  BY <1>1, <1>2, <1>3 DEF IInv, Frontier, Expanding, descent
<1> QED
  BY <1>2, <1>4, <1>5 DEF IInv

LEMMA InvEnd ==
  ASSUME IInv, TypeOK', EndOfNeighbors
  PROVE  IInv'
<1>1. /\ UNCHANGED <<g, dist, descent, marks, gen, cands, results, expansion>>
      /\ Searching /\ Searching' /\ pc = "visit" /\ pc' = "expand"
  BY DEF EndOfNeighbors, Searching
<1>2. /\ MarksNotAhead' /\ WorstTracked' /\ KeepsNearest' /\ WithinReach'
      /\ Visited' = Visited /\ Results' = Results
      /\ \A r \in Results : Explored(r)' <=> Explored(r)
  BY <1>1, InvSameVisits
<1>3. Explored(node)
  <2>1. /\ DOMAIN g.nbr0[node] = 1 .. Len(g.nbr0[node]) /\ Len(g.nbr0[node]) \in Nat
        /\ nbIdx = Len(g.nbr0[node]) + 1
    BY GraphFacts, LenProperties DEF IInv, TypeOK, EndOfNeighbors, Neighbors0
  <2>2. \A j \in 1 .. Len(g.nbr0[node]) : g.nbr0[node][j] \in Visited
    BY <1>1, <2>1 DEF IInv, Expanding, Neighbors0
  <2> QED
    BY <2>1, <2>2 DEF Explored, Range
<1>4. Frontier' /\ Expanding' /\ LocallyComplete'
  BY <1>1, <1>2, <1>3 DEF IInv, Frontier, Expanding, LocallyComplete, descent
<1> QED
  BY <1>2, <1>4 DEF IInv

LEMMA NeighborFacts ==
  ASSUME IInv, AtNeighbor
  PROVE  /\ Neighbor \in Node /\ node \in Node /\ node \in Visited /\ Neighbor \in Range(g.nbr0[node])
         /\ nbIdx \in 1 .. Len(Neighbors0) /\ Len(Neighbors0) \in Nat
         /\ Searching /\ pc = "visit"
<1>1. pc = "visit" /\ node \in Node /\ nbIdx \in DOMAIN g.nbr0[node]
  BY DEF IInv, TypeOK, AtNeighbor, Neighbors0
<1>2. g.nbr0[node] \in Seq(Node) /\ Neighbor \in Node
  BY <1>1, GraphFacts DEF IInv, Neighbor, Neighbors0
<1>3. Neighbor \in Range(g.nbr0[node])
  BY <1>1 DEF Neighbor, Neighbors0, Range
<1>4. nbIdx \in 1 .. Len(Neighbors0) /\ Len(Neighbors0) \in Nat
  BY <1>1, <1>2, LenProperties DEF Neighbors0
<1> QED
  BY <1>1, <1>2, <1>3, <1>4 DEF IInv, Expanding, Searching

LEMMA InvSkip ==
  ASSUME IInv, TypeOK', SkipVisited
  PROVE  IInv'
<1>1. /\ UNCHANGED <<g, pc, dist, descent, marks, gen, cands, results, node>>
      /\ Searching /\ Searching' /\ pc = "visit" /\ nbIdx' = nbIdx + 1
      /\ nbIdx \in 1 .. Len(Neighbors0) /\ Len(Neighbors0) \in Nat
  BY NeighborFacts DEF SkipVisited, Searching
<1>2. /\ MarksNotAhead' /\ WorstTracked' /\ KeepsNearest' /\ WithinReach'
      /\ Visited' = Visited /\ Results' = Results
      /\ \A r \in Results : Explored(r)' <=> Explored(r)
  BY <1>1, InvSameVisits
<1>3. Neighbor \in Visited
  BY NeighborFacts DEF SkipVisited, Visited
<1>4. Expanding'
  <2>1. Neighbors0' = Neighbors0 /\ node' \in Visited'
    BY <1>1, <1>2 DEF IInv, Expanding, Neighbors0
  <2>2. \A j \in 1 .. nbIdx : Neighbors0[j] \in Visited
    BY <1>1, <1>3 DEF IInv, Expanding, Neighbor
  <2> QED
    BY <1>1, <1>2, <2>1, <2>2 DEF Expanding
<1>5. Frontier' /\ LocallyComplete'
  BY <1>1, <1>2 DEF IInv, Frontier, LocallyComplete, descent
<1> QED
  BY <1>2, <1>4, <1>5 DEF IInv

-----------------------------------------------------------------------------
(* What every visit of a new neighbour does, whether or not it is kept. *)
LEMMA VisitFacts ==
  ASSUME IInv, TypeOK', VisitNew
  PROVE  /\ Neighbor \in Node /\ Neighbor \notin Visited
         /\ Visited' = Visited \cup {Neighbor}
         /\ Searching /\ Searching' /\ pc = "visit" /\ pc' = "visit"
         /\ UNCHANGED <<g, dist, current, node>>
         /\ MarksNotAhead' /\ Expanding' /\ WithinReach' /\ LocallyComplete'
         /\ \A r \in Node : Explored(r) => Explored(r)'
<1>1. AtNeighbor
  BY DEF VisitNew
<1>2. /\ Neighbor \in Node /\ node \in Node /\ node \in Visited
      /\ Neighbor \in Range(g.nbr0[node])
      /\ nbIdx \in 1 .. Len(Neighbors0) /\ Len(Neighbors0) \in Nat
      /\ Searching /\ pc = "visit"
  BY <1>1, NeighborFacts
<1>3. /\ UNCHANGED <<g, pc, dist, current, gen, node>> /\ nbIdx' = nbIdx + 1
      /\ marks' = [marks EXCEPT ![Neighbor] = gen]
      /\ marks[Neighbor] # gen
  BY DEF VisitNew, descent
<1>4. pc' = "visit" /\ Searching'
  BY <1>2, <1>3 DEF Searching
<1>5. marks \in [Node -> 0 .. GenMod - 1] /\ gen \in 0 .. GenMod - 1 /\ GenMod \in Nat
  BY SizeAssumption DEF IInv, TypeOK
<1>6. Visited' = Visited \cup {Neighbor} /\ Neighbor \notin Visited
  BY <1>2, <1>3, <1>5 DEF Visited
<1>7. MarksNotAhead'
  BY <1>2, <1>3, <1>5 DEF IInv, MarksNotAhead
<1>8. Expanding'
  <2>1. Neighbors0' = Neighbors0 /\ node' \in Visited'
    BY <1>2, <1>3, <1>6 DEF Neighbors0
  <2>2. \A j \in 1 .. nbIdx : Neighbors0[j] \in Visited'
    BY <1>2, <1>6 DEF IInv, Expanding, Neighbor
  <2> QED
    BY <1>2, <1>3, <2>1, <2>2 DEF Expanding
<1>9. WithinReach'
  <2>1. SUFFICES ASSUME NEW S \in SUBSET Node, current \in S, Closed(S)
                 PROVE  Visited' \subseteq S
    BY <1>3 DEF WithinReach, Closed
  <2>2. Visited \subseteq S
    BY <1>2, <2>1 DEF IInv, WithinReach
  <2>3. Neighbor \in S
    BY <1>2, <2>1, <2>2 DEF Closed
  <2> QED
    BY <1>6, <2>2, <2>3
<1>10. \A r \in Node : Explored(r) => Explored(r)'
  BY <1>3, <1>6 DEF Explored
<1>11. LocallyComplete'
  BY <1>4 DEF LocallyComplete
<1> QED
  BY <1>2, <1>3, <1>4, <1>6, <1>7, <1>8, <1>9, <1>10, <1>11

LEMMA InvAdmit ==
  ASSUME IInv, TypeOK', AdmitWithRoom
  PROVE  IInv'
<1>0. TypeOK /\ VisitNew
  BY DEF IInv, AdmitWithRoom
<1>1. /\ Neighbor \in Node /\ Neighbor \notin Visited
      /\ Visited' = Visited \cup {Neighbor}
      /\ Searching /\ Searching' /\ pc = "visit" /\ pc' = "visit"
      /\ UNCHANGED <<g, dist, current, node>>
      /\ MarksNotAhead' /\ Expanding' /\ WithinReach' /\ LocallyComplete'
      /\ \A r \in Node : Explored(r) => Explored(r)'
  BY <1>0, VisitFacts
<1>2. /\ resIDs \in Seq(Node) /\ resWorstD \in Int
      /\ \A n \in Node : dist[n] \in Int
  BY DEF IInv, TypeOK
<1>3. /\ Results \subseteq Node /\ DOMAIN resIDs = 1 .. Len(resIDs)
      /\ Len(resIDs) \in Nat
      /\ \A i \in DOMAIN resIDs : resIDs[i] \in Node /\ resIDs[i] \in Results
  BY <1>0, ResultFacts, SizeAssumption
<1>4. /\ Len(resIDs') = Len(resIDs) + 1 /\ DOMAIN resIDs' = 1 .. Len(resIDs) + 1
      /\ \A i \in 1 .. Len(resIDs) : resIDs'[i] = resIDs[i]
      /\ resIDs'[Len(resIDs) + 1] = Neighbor
      /\ Results' = Results \cup {Neighbor}
  BY <1>1, <1>2, AppendFacts DEF AdmitWithRoom, Results
<1>5. /\ resWorstI \in DOMAIN resIDs /\ resWorstD = dist[resIDs[resWorstI]]
      /\ \A r \in Results : dist[r] <= resWorstD
  BY <1>1 DEF IInv, WorstTracked
<1>6. WorstTracked'
  <2>1. CASE dist[Neighbor] > resWorstD
    <3>1. resWorstD' = dist[Neighbor] /\ resWorstI' = Len(resIDs) + 1
      BY <2>1 DEF AdmitWithRoom
    <3> QED
      BY <1>1, <1>2, <1>3, <1>4, <1>5, <2>1, <3>1 DEF WorstTracked
  <2>2. CASE ~ (dist[Neighbor] > resWorstD)
    <3>1. resWorstD' = resWorstD /\ resWorstI' = resWorstI
      BY <2>2 DEF AdmitWithRoom
    <3> QED
      BY <1>1, <1>2, <1>3, <1>4, <1>5, <2>2, <3>1 DEF WorstTracked
  <2> QED
    BY <2>1, <2>2
<1>7. Visited = Results
  <2>1. ~ Full
    <3>1. Len(resIDs) < QueryEf
      BY DEF AdmitWithRoom
    <3>2. Len(resIDs) \in Nat /\ QueryEf \in Nat
      BY <1>3, SizeAssumption
    <3> HIDE DEF TypeOK
    <3> QED
      BY <3>1, <3>2 DEF Full
  <2>2. \A n \in Visited : n \in Results
    BY <1>1, <2>1 DEF IInv, KeepsNearest
  <2>3. Results \subseteq Visited
    BY <1>1 DEF IInv, Frontier
  <2> QED
    BY <2>2, <2>3
<1>8. KeepsNearest'
  <2>1. \A i, j \in DOMAIN resIDs : resIDs[i] = resIDs[j] => i = j
    BY <1>1 DEF IInv, KeepsNearest
  <2>2. \A i, j \in DOMAIN resIDs' : resIDs'[i] = resIDs'[j] => i = j
    BY <1>1, <1>3, <1>4, <1>7, <2>1
  <2> QED
    BY <1>1, <1>4, <1>7, <2>2 DEF KeepsNearest
<1>9. Frontier'
  <2>1. cands' = cands \cup {Neighbor}
    BY DEF AdmitWithRoom
  <2> QED
    BY <1>1, <1>3, <1>4, <2>1 DEF IInv, Frontier
<1> QED
  BY <1>1, <1>6, <1>8, <1>9 DEF IInv

LEMMA InvReplace ==
  ASSUME IInv, TypeOK', ReplaceWorst
  PROVE  IInv'
<1>0. TypeOK /\ VisitNew
  BY DEF IInv, ReplaceWorst
<1>1. /\ Neighbor \in Node /\ Neighbor \notin Visited
      /\ Visited' = Visited \cup {Neighbor}
      /\ Searching /\ Searching' /\ pc = "visit" /\ pc' = "visit"
      /\ UNCHANGED <<g, dist, current, node>>
      /\ MarksNotAhead' /\ Expanding' /\ WithinReach' /\ LocallyComplete'
      /\ \A r \in Node : Explored(r) => Explored(r)'
  BY <1>0, VisitFacts
<1>2. /\ resWorstI \in Positions
      /\ DOMAIN resIDs = Positions /\ DOMAIN resIDs' = Positions /\ Full'
      /\ \A i \in Positions :
           resIDs'[i] = IF i = resWorstI THEN Neighbor ELSE resIDs[i]
      /\ resWorstI' \in Positions /\ resWorstD' = dist[resIDs'[resWorstI']]
      /\ \A r \in Range(resIDs') : dist[r] <= resWorstD'
  BY <1>0, <1>1, ReplaceFacts DEF Full
<1>3. /\ Results \subseteq Node
      /\ \A i \in Positions : resIDs[i] \in Node /\ resIDs[i] \in Results
  BY <1>0, <1>2, ResultFacts
<1>4. \A n \in Node : dist[n] \in Int
  BY <1>0 DEF TypeOK
<1>5. /\ resWorstD = dist[resIDs[resWorstI]]
      /\ \A r \in Results : dist[r] <= resWorstD
      /\ \A i, j \in Positions : resIDs[i] = resIDs[j] => i = j
      /\ \A n \in Visited \ Results : dist[n] >= resWorstD
  BY <1>1, <1>2 DEF IInv, WorstTracked, KeepsNearest
<1>6. Results \subseteq Visited
  BY <1>1 DEF IInv, Frontier
<1>7. WorstTracked'
  BY <1>1, <1>2 DEF WorstTracked, Results
<1>8. resWorstD' <= resWorstD
  BY <1>1, <1>2, <1>3, <1>4, <1>5 DEF ReplaceWorst
<1>9. /\ Results' \subseteq Results \cup {Neighbor} /\ Neighbor \in Results'
      /\ \A r \in Results : r # resIDs[resWorstI] => r \in Results'
  <2>1. /\ \A r \in Results : \E i \in Positions : r = resIDs[i]
        /\ \A r \in Results' : \E i \in Positions : r = resIDs'[i]
        /\ \A i \in Positions : resIDs'[i] \in Results'
    BY <1>2 DEF Results, Range
  <2> QED
    BY <1>2, <1>3, <2>1
<1>10. KeepsNearest'
  <2>1. \A i, j \in Positions : resIDs'[i] = resIDs'[j] => i = j
    BY <1>1, <1>2, <1>3, <1>5, <1>6
  <2>2. ASSUME NEW n \in Visited', n \notin Results'
        PROVE  dist[n] >= resWorstD'
    <3>1. n \in Visited /\ n \in Node /\ (n \notin Results \/ n = resIDs[resWorstI])
      BY <1>1, <1>9, <2>2 DEF Visited
    <3>2. resWorstD \in Int /\ resWorstD' \in Int
      BY <1>0 DEF TypeOK
    <3>3. dist[n] >= resWorstD
      BY <1>4, <1>5, <3>1, <3>2
    <3> QED
      BY <1>4, <1>8, <3>1, <3>2, <3>3
  <2> QED
    BY <1>1, <1>2, <2>1, <2>2 DEF KeepsNearest
<1>11. Frontier'
  <2>1. cands' = cands \cup {Neighbor}
    BY DEF ReplaceWorst
  <2>2. current' \in Visited' /\ Results' \subseteq Visited' /\ cands' \subseteq Visited'
    BY <1>1, <1>6, <1>9, <2>1 DEF IInv, Frontier
  <2>3. ASSUME NEW r \in Results'
        PROVE  r \in cands' \/ r = node' \/ Explored(r)'
    BY <1>1, <1>3, <1>9, <2>1 DEF IInv, Frontier
  <2> QED
    BY <1>1, <2>2, <2>3 DEF Frontier
<1> QED
  BY <1>1, <1>7, <1>10, <1>11 DEF IInv

LEMMA InvReject ==
  ASSUME IInv, TypeOK', RejectFar
  PROVE  IInv'
<1>0. TypeOK /\ VisitNew
  BY DEF IInv, RejectFar
<1>1. /\ Neighbor \in Node /\ Neighbor \notin Visited
      /\ Visited' = Visited \cup {Neighbor}
      /\ Searching /\ Searching' /\ pc = "visit" /\ pc' = "visit"
      /\ UNCHANGED <<g, dist, current, node>>
      /\ MarksNotAhead' /\ Expanding' /\ WithinReach' /\ LocallyComplete'
      /\ \A r \in Node : Explored(r) => Explored(r)'
  BY <1>0, VisitFacts
<1>2. UNCHANGED <<resIDs, resWorstD, resWorstI, cands>> /\ Results' = Results
  BY DEF RejectFar, results, Results
<1>3. WorstTracked'
  BY <1>1, <1>2 DEF IInv, WorstTracked
<1>4. Full /\ Full' /\ dist[Neighbor] >= resWorstD
  <2>1. Len(resIDs) \in 0 .. QueryEf /\ QueryEf \in Nat
    BY <1>0, ResultFacts, SizeAssumption
  <2>2. Len(resIDs) >= QueryEf /\ dist[Neighbor] >= resWorstD
    BY DEF RejectFar
  <2> QED
    BY <1>2, <2>1, <2>2 DEF Full
<1>5. KeepsNearest'
  BY <1>1, <1>2, <1>4 DEF IInv, KeepsNearest
<1>6. Frontier'
  BY <1>0, <1>1, <1>2, ResultFacts DEF IInv, Frontier
<1> QED
  BY <1>1, <1>3, <1>5, <1>6 DEF IInv

LEMMA InvStep == IInv /\ [Next]_vars => IInv'
<1> SUFFICES ASSUME IInv, [Next]_vars PROVE IInv'
  OBVIOUS
<1>0. TypeOK'
  BY TypeStep DEF IInv
<1>1. CASE StartQuery \/ DescendHop \/ DescendLayer \/ Return
  <2>1. UNCHANGED <<g, marks, gen>> /\ pc' \notin {"expand", "visit", "pick"}
    BY <1>1 DEF StartQuery, DescendHop, DescendLayer, Return
  <2> QED
    BY <1>0, <2>1, InvOutsideSearch
<1>2. CASE PickNearest \/ PickPadding
  <2>1. /\ UNCHANGED <<g, marks, gen>> /\ pc' = "pick"
        /\ UNCHANGED <<pc, dist, current, cands, results, expansion>>
    BY <1>2 DEF PickNearest, PickPadding, descent
  <2> QED
    BY <1>0, <2>1, InvOutsideSearch
<1>3. CASE BeginLayer0
  BY <1>0, <1>3, InvBegin
<1>4. CASE PopCandidate
  BY <1>0, <1>4, InvPop
<1>5. CASE StopSearch
  BY <1>0, <1>5, InvStop
<1>6. CASE EndOfNeighbors
  BY <1>0, <1>6, InvEnd
<1>7. CASE SkipVisited
  BY <1>0, <1>7, InvSkip
<1>8. CASE Visit
  BY <1>0, <1>8, InvAdmit, InvReplace, InvReject DEF Visit
<1>9. CASE UNCHANGED vars
  BY <1>9 DEF vars, IInv, TypeOK, MarksNotAhead, WorstTracked, KeepsNearest, Frontier,
              Expanding, WithinReach, LocallyComplete, Searching, Results, Visited,
              Full, Explored, Closed, Neighbors0, results, expansion, descent
<1> QED
  BY <1>1, <1>2, <1>3, <1>4, <1>5, <1>6, <1>7, <1>8, <1>9 DEF Next, Step

LEMMA Invariance == Spec => []IInv
BY InvInit, InvStep, PTL DEF Spec

-----------------------------------------------------------------------------
(* The cached worst result is the farthest one kept, for every width. *)
THEOREM WorstIsTracked == Spec => []WorstTracked
<1>1. IInv => WorstTracked
  BY DEF IInv
<1> QED
  BY <1>1, Invariance, PTL

(* What was visited and not kept could not improve full results. *)
THEOREM NearestAreKept == Spec => []KeepsNearest
<1>1. IInv => KeepsNearest
  BY DEF IInv
<1> QED
  BY <1>1, Invariance, PTL

(* The search never stops before every neighbour of a result was seen. *)
THEOREM SearchIsLocallyComplete == Spec => []LocallyComplete
<1>1. IInv => LocallyComplete
  BY DEF IInv
<1> QED
  BY <1>1, Invariance, PTL

(* A search that does not fill its results found all that can be reached. *)
THEOREM SmallSearchIsExact == Spec => []ExactWhenSmall
<1>1. IInv => ExactWhenSmall
  <2> SUFFICES ASSUME IInv, pc = "pick", ~ Full
               PROVE  /\ current \in Results /\ Closed(Results)
                      /\ \A S \in SUBSET Node :
                           (current \in S /\ Closed(S)) => Results \subseteq S
    BY DEF ExactWhenSmall
  <2>1. Searching
    BY DEF Searching
  <2>2. Results = Visited
    <3>1. \A n \in Visited : n \in Results
      BY <2>1 DEF IInv, KeepsNearest
    <3>2. Results \subseteq Visited
      BY <2>1 DEF IInv, Frontier
    <3> QED
      BY <3>1, <3>2
  <2>3. current \in Visited
    BY <2>1 DEF IInv, Frontier
  <2>4. Closed(Results)
    BY <2>2 DEF IInv, LocallyComplete, Closed
  <2>5. \A S \in SUBSET Node : (current \in S /\ Closed(S)) => Results \subseteq S
    BY <2>1, <2>2 DEF IInv, WithinReach
  <2> QED
    BY <2>2, <2>3, <2>4, <2>5
<1> QED
  BY <1>1, Invariance, PTL

(* No mark of an earlier query survives into a new one, for every width   *)
(* of the generation counter.                                             *)
THEOREM SlotStartsFresh == Spec => FreshStart
<1>1. IInv /\ [Next]_vars => [BeginLayer0 => Visited' = {current}]_vars
  BY BeginVisited DEF IInv
<1> QED
  BY <1>1, Invariance, PTL DEF Spec, FreshStart

-----------------------------------------------------------------------------
(***************************************************************************)
(* The answers.  Fewer picks than results leave a result to pick, by the   *)
(* pigeonhole principle: full results are never padded.                    *)
(***************************************************************************)
AnswersInv ==
  /\ pc \in {"descend", "expand", "visit"} => out = <<>>
  /\ pc # "idle" => dist[current] <= dist[g.entry]
  /\ AnswersAreNearest

LEMMA CardinalityUpTo ==
  ASSUME NEW n \in Nat
  PROVE  IsFiniteSet(1 .. n) /\ Cardinality(1 .. n) = n
<1>1. 1 \in Int /\ n \in Int
  OBVIOUS
<1>2. IsFiniteSet(1 .. n) /\ Cardinality(1 .. n) = IF 1 > n THEN 0 ELSE n - 1 + 1
  BY <1>1, FS_Interval, Zenon
<1>3. (IF 1 > n THEN 0 ELSE n - 1 + 1) = n
  OBVIOUS
<1> QED
  BY <1>2, <1>3

LEMMA FullIsNotPadded ==
  ASSUME TypeOK, Full, \A i, j \in DOMAIN resIDs : resIDs[i] = resIDs[j] => i = j,
         Len(out) < K
  PROVE  Untaken # {}
<1> USE SizeAssumption
<1>1. /\ out \in Seq(Node) /\ Len(out) \in Nat /\ DOMAIN out = 1 .. Len(out)
      /\ Len(out) < QueryEf
  BY LenProperties DEF TypeOK
<1>2. DOMAIN resIDs = 1 .. QueryEf
  BY ResultFacts DEF Full
<1>3. SUFFICES ASSUME Untaken = {} PROVE FALSE
  OBVIOUS
<1>4. \A i \in 1 .. QueryEf : \E p \in 1 .. Len(out) : out[p] = resIDs[i]
  BY <1>1, <1>2, <1>3 DEF Untaken
<1> DEFINE f == [i \in 1 .. QueryEf |-> CHOOSE p \in 1 .. Len(out) : out[p] = resIDs[i]]
<1>5. f \in [1 .. QueryEf -> 1 .. Len(out)] /\ \A i \in 1 .. QueryEf : out[f[i]] = resIDs[i]
  BY <1>4
<1>6. /\ IsFiniteSet(1 .. QueryEf) /\ Cardinality(1 .. QueryEf) = QueryEf
      /\ IsFiniteSet(1 .. Len(out)) /\ Cardinality(1 .. Len(out)) = Len(out)
  <2> HIDE DEF f
  <2> QED
    BY <1>1, CardinalityUpTo, SizeAssumption
<1>7. \E i, j \in 1 .. QueryEf : i # j /\ f[i] = f[j]
  <2> HIDE DEF f
  <2> DEFINE S == 1 .. QueryEf
             T == 1 .. Len(out)
  <2>1. /\ IsFiniteSet(S) /\ IsFiniteSet(T) /\ Cardinality(T) < Cardinality(S)
        /\ f \in [S -> T]
    BY <1>1, <1>5, <1>6
  <2>2. \E x, y \in S : x # y /\ f[x] = f[y]
    <3> HIDE DEF S, T
    <3> QED
      BY <2>1, FS_PigeonHole
  <2> QED
    BY <2>2
<1> QED
  <2> HIDE DEF f
  <2>1. PICK i \in 1 .. QueryEf, j \in 1 .. QueryEf : i # j /\ f[i] = f[j]
    BY <1>7
  <2>2. resIDs[i] = resIDs[j]
    BY <1>5, <2>1
  <2> QED
    BY <1>2, <2>1, <2>2

(* One more answer, itself right, leaves the earlier ones right. *)
LEMMA OneMoreAnswer ==
  ASSUME IInv, AnswersAreNearest, pc = "pick", pc' = "pick",
         UNCHANGED <<g, dist, marks, gen>>,
         NEW e \in Node, out' = Append(out, e),
         \/ /\ e \in Visited \ Range(out)
            /\ \A n \in Visited \ Range(out) : dist[e] <= dist[n]
         \/ e = 0 /\ Visited \subseteq Range(out)
  PROVE  AnswersAreNearest'
<1>1. out \in Seq(Node) /\ Visited' = Visited
  BY DEF IInv, TypeOK, Visited
<1>2. /\ Len(out) \in Nat /\ DOMAIN out = 1 .. Len(out)
      /\ DOMAIN out' = 1 .. Len(out) + 1
      /\ \A i \in 1 .. Len(out) : out'[i] = out[i]
      /\ out'[Len(out) + 1] = e
  BY <1>1, AppendFacts
<1>3. \A p \in 1 .. Len(out) + 1 : Answered(p - 1)' = Answered(p - 1)
  BY <1>2 DEF Answered
<1>4. Answered(Len(out)) = Range(out)
  BY <1>2 DEF Answered, Range
<1>5. ASSUME NEW p \in DOMAIN out'
      PROVE  \/ /\ out'[p] \in Visited \ Answered(p - 1)
                /\ \A n \in Visited \ Answered(p - 1) : dist[out'[p]] <= dist[n]
             \/ out'[p] = 0 /\ Visited \subseteq Answered(p - 1)
  <2>1. CASE p \in 1 .. Len(out)
    BY <1>2, <2>1 DEF AnswersAreNearest
  <2>2. CASE p = Len(out) + 1
    <3>1. p - 1 = Len(out)
      BY <1>2, <2>2
    <3> QED
      BY <1>2, <1>4, <2>2, <3>1
  <2> QED
    BY <1>2, <2>1, <2>2
<1> QED
  BY <1>1, <1>2, <1>3, <1>5 DEF AnswersAreNearest

LEMMA AnswersInit == Init => AnswersInv
<1> SUFFICES ASSUME Init PROVE AnswersInv
  OBVIOUS
<1>1. pc = "idle"
  BY DEF Init
<1> QED
  BY <1>1 DEF AnswersInv, AnswersAreNearest

LEMMA AnswersStep == IInv /\ IInv' /\ AnswersInv /\ [Next]_vars => AnswersInv'
<1> SUFFICES ASSUME IInv, IInv', AnswersInv, [Next]_vars PROVE AnswersInv'
  OBVIOUS
<1> USE DEF AnswersInv
<1>0. TypeOK /\ \A n \in Node : dist[n] \in Int
  <2>1. TypeOK
    BY DEF IInv
  <2> QED
    BY <2>1 DEF TypeOK
<1>1. CASE StartQuery
  <2>1. /\ pc' = "descend" /\ out' = <<>> /\ current' = g.entry /\ g' = g
        /\ dist' \in [Node -> 0 .. MaxDist] /\ g.entry \in Node
    BY <1>0, <1>1, GraphFacts DEF StartQuery
  <2>2. dist'[current'] <= dist'[g'.entry]
    BY <2>1
  <2> QED
    BY <2>1, <2>2 DEF AnswersAreNearest
<1>2. CASE DescendHop
  <2>1. /\ pc = "descend" /\ UNCHANGED <<g, pc, dist, out>>
        /\ \E i \in Closer(g.upper[layer][current]) :
             current' = g.upper[layer][current][i]
    BY <1>2 DEF DescendHop
  <2>2. dist[current'] < dist[current]
    BY <2>1 DEF Closer
  <2>3. current \in Node /\ current' \in Node /\ g.entry \in Node
    BY <1>0, GraphFacts DEF IInv, TypeOK
  <2> QED
    BY <1>0, <2>1, <2>2, <2>3 DEF AnswersAreNearest
<1>3. CASE DescendLayer \/ BeginLayer0 \/ PopCandidate \/ EndOfNeighbors
           \/ SkipVisited \/ Visit
  <2>1. /\ UNCHANGED <<g, dist, current, out>> /\ pc \in {"descend", "expand", "visit"}
        /\ pc' \in {"descend", "expand", "visit"}
    BY <1>3 DEF DescendLayer, BeginLayer0, PopCandidate, EndOfNeighbors, SkipVisited,
                Visit, AdmitWithRoom, ReplaceWorst, RejectFar, VisitNew, AtNeighbor, descent
  <2> QED
    BY <2>1 DEF AnswersAreNearest
<1>4. CASE StopSearch
  <2>1. UNCHANGED <<g, dist, current, out>> /\ pc = "expand" /\ pc' = "pick"
    BY <1>4 DEF StopSearch, descent
  <2> QED
    BY <2>1 DEF AnswersAreNearest
<1>5. CASE PickNearest \/ PickPadding
  <2>1. /\ pc = "pick" /\ pc' = "pick" /\ Len(out) < K
        /\ UNCHANGED <<g, dist, marks, gen, current>>
    BY <1>5 DEF PickNearest, PickPadding, descent
  <2>2. /\ Searching
        /\ \A i, j \in DOMAIN resIDs : resIDs[i] = resIDs[j] => i = j
        /\ \A n \in Visited : n \in Results \/ (Full /\ dist[n] >= resWorstD)
        /\ \A r \in Results : dist[r] <= resWorstD
        /\ Results \subseteq Visited
        /\ resWorstD \in Int
    <3>1. Searching
      BY <2>1 DEF Searching
    <3>2. KeepsNearest /\ WorstTracked /\ Frontier
      BY DEF IInv
    <3>3. resWorstD \in Int
      BY <1>0 DEF TypeOK
    <3> QED
      BY <3>1, <3>2, <3>3 DEF KeepsNearest, WorstTracked, Frontier
  <2>3. /\ Results \subseteq Node
        /\ \A i \in DOMAIN resIDs : resIDs[i] \in Node /\ resIDs[i] \in Results
    BY <1>0, ResultFacts
  <2>4. \A i \in DOMAIN resIDs : i \in Untaken <=> resIDs[i] \notin Range(out)
    BY DEF Untaken, Range
  <2>5. CASE PickNearest
    <3>1. PICK i \in Untaken :
            /\ \A j \in Untaken : \/ dist[resIDs[i]] < dist[resIDs[j]]
                                  \/ dist[resIDs[i]] = dist[resIDs[j]] /\ i <= j
            /\ out' = Append(out, resIDs[i])
      BY <2>5 DEF PickNearest
    <3>2. /\ i \in DOMAIN resIDs /\ resIDs[i] \in Node
          /\ resIDs[i] \in Visited \ Range(out)
      BY <2>2, <2>3, <2>4, <3>1 DEF Untaken
    <3>3. ASSUME NEW n \in Visited \ Range(out)
          PROVE  dist[resIDs[i]] <= dist[n]
      <4>1. n \in Node
        BY DEF Visited
      <4>2. CASE n \in Results
        <5>1. PICK j \in DOMAIN resIDs : n = resIDs[j]
          BY <4>2 DEF Results, Range
        <5> QED
          BY <1>0, <2>3, <2>4, <3>1, <3>2, <4>1, <5>1
      <4>3. CASE n \notin Results
        BY <1>0, <2>2, <2>3, <3>2, <4>1, <4>3
      <4> QED
        BY <4>2, <4>3
    <3>4. AnswersAreNearest'
      BY <2>1, <3>1, <3>2, <3>3, OneMoreAnswer
    <3> QED
      BY <2>1, <3>4
  <2>6. CASE PickPadding
    <3>1. Untaken = {} /\ out' = Append(out, 0) /\ 0 \in Node
      BY <2>6, SizeAssumption DEF PickPadding, Node
    <3>2. ~ Full
      BY <1>0, <2>1, <2>2, <3>1, FullIsNotPadded
    <3>3. Visited \subseteq Results /\ Results \subseteq Range(out)
      BY <2>2, <2>4, <3>1, <3>2 DEF Results, Range
    <3>4. AnswersAreNearest'
      BY <2>1, <3>1, <3>3, OneMoreAnswer
    <3> QED
      BY <2>1, <3>4
  <2> QED
    BY <1>5, <2>5, <2>6
<1>6. CASE Return
  BY <1>6 DEF Return, AnswersAreNearest
<1>7. CASE UNCHANGED vars
  BY <1>7 DEF vars, AnswersAreNearest, Answered, Visited, descent
<1> QED
  BY <1>1, <1>2, <1>3, <1>4, <1>5, <1>6, <1>7 DEF Next, Step

LEMMA AnswersInvariance == Spec => []AnswersInv
BY AnswersInit, AnswersStep, Invariance, PTL DEF Spec

(* The answers are the nearest of all nodes visited, nearest first, each   *)
(* once, and padded only when every node visited has been answered.        *)
THEOREM NearestAreAnswered == Spec => []AnswersAreNearest
<1>1. AnswersInv => AnswersAreNearest
  BY DEF AnswersInv
<1> QED
  BY <1>1, AnswersInvariance, PTL

(* Neither the descent nor the search loses ground on the entry point. *)
THEOREM EntryIsNeverBeaten == Spec => []NeverWorseThanEntry
<1>1. IInv /\ AnswersInv => NeverWorseThanEntry
  <2> SUFFICES ASSUME IInv, AnswersInv, pc = "pick", out # <<>>
               PROVE  dist[out[1]] <= dist[g.entry]
    BY DEF NeverWorseThanEntry
  <2>1. \A n \in Node : dist[n] \in Int
    BY DEF IInv, TypeOK
  <2>2. current \in Node /\ current \in Visited /\ g.entry \in Node
    BY GraphFacts DEF IInv, TypeOK, Frontier, Searching
  <2>3. 1 \in DOMAIN out
    BY EmptySeq, LenProperties DEF IInv, TypeOK
  <2>4. Answered(0) = {}
    BY DEF Answered
  <2>5. out[1] \in Visited /\ dist[out[1]] <= dist[current]
    BY <2>2, <2>3, <2>4 DEF AnswersInv, AnswersAreNearest
  <2>6. out[1] \in Node /\ dist[current] <= dist[g.entry]
    BY <2>5 DEF AnswersInv, Visited
  <2> QED
    BY <2>1, <2>2, <2>5, <2>6
<1> QED
  BY <1>1, Invariance, AnswersInvariance, PTL

-----------------------------------------------------------------------------
(***************************************************************************)
(* The scan that recall is measured against (RecallCheck).                 *)
(***************************************************************************)
LEMMA Smallest ==
  ASSUME NEW S \in SUBSET Nat, S # {}
  PROVE  \E x \in S : \A y \in S : x <= y
<1>1. PICK x \in S : \A y \in S : ~ (<<y, x>> \in OpToRel(<, Nat))
  BY NatLessThanWellFounded, WFMin
<1>2. \A y \in S : ~ (y < x)
  BY <1>1 DEF OpToRel
<1> QED  BY <1>2

(* K distances have a first of the greatest ones. *)
LEMMA WorstExists ==
  ASSUME NEW dists \in [1 .. K -> 0 .. MaxDist]
  PROVE  \E p \in 1 .. K : IsWorst(dists, p)
<1> DEFINE d(p) == dists[p]
           Gaps == {x \in Nat : \E p \in 1 .. K : x = MaxDist - d(p)}
           Worst(x) == {p \in 1 .. K : x = MaxDist - d(p)}
<1>1. K \in Nat \ {0} /\ MaxDist \in Nat
  BY SizeAssumption
<1>2. \A p \in 1 .. K : d(p) \in Nat /\ MaxDist - d(p) \in Nat
  BY <1>1
<1>3. 1 \in 1 .. K
  BY <1>1
<1> HIDE DEF d
<1>4. MaxDist - d(1) \in Gaps
  BY <1>2, <1>3
<1>5. PICK x \in Gaps : \A y \in Gaps : x <= y
  BY <1>4, Smallest
<1>6. PICK p \in Worst(x) : \A q \in Worst(x) : p <= q
  <2>1. Worst(x) # {} /\ Worst(x) \in SUBSET Nat
    BY <1>1, <1>5
  <2> QED  BY <2>1, Smallest
<1>7. ASSUME NEW q \in 1 .. K PROVE d(p) > d(q) \/ (d(p) = d(q) /\ p <= q)
  <2>1. MaxDist - d(q) \in Gaps
    BY <1>2
  <2>2. MaxDist - d(p) <= MaxDist - d(q)
    BY <2>1, <1>5, <1>6
  <2>3. d(p) >= d(q)
    <3>1. p \in 1 .. K
      BY <1>6
    <3>2. d(p) \in Nat /\ d(q) \in Nat
      BY <3>1, <1>2
    <3> QED  BY <1>1, <2>2, <3>2
  <2>4. CASE d(p) = d(q)
    BY <2>4, <1>6
  <2>5. CASE d(p) # d(q)
    BY <2>3, <2>5, <1>2, <1>6
  <2> QED  BY <2>4, <2>5
<1> QED  BY <1>6, <1>7 DEF IsWorst, d

(* A slot of an array written over. *)
LEMMA SlotFacts ==
  ASSUME NEW S, NEW a \in [1 .. K -> S], NEW i \in 1 .. K, NEW e \in S
  PROVE  /\ [a EXCEPT ![i] = e] \in [1 .. K -> S] /\ [a EXCEPT ![i] = e][i] = e
         /\ \A p \in 1 .. K : p # i => [a EXCEPT ![i] = e][p] = a[p]
OBVIOUS

(***************************************************************************)
(* What the scan has kept when it has seen the first n nodes: different    *)
(* nodes with their distances; the slot and the distance of the farthest   *)
(* of them where the code believes them; and of the nodes it let go none   *)
(* is nearer than that.                                                    *)
(***************************************************************************)
SlotsFilled(s, n) ==
  /\ s.ids \in [1 .. K -> Node] /\ s.dists \in [1 .. K -> 0 .. MaxDist]
  /\ s.cnt \in 0 .. K /\ s.cnt <= n /\ (s.cnt < K => s.cnt = n)
  /\ \A p \in 1 .. s.cnt : s.ids[p] \in 0 .. n - 1 /\ s.dists[p] = dist[s.ids[p]]
  /\ \A p, q \in 1 .. s.cnt : s.ids[p] = s.ids[q] => p = q
WorstCached(s) ==
  s.cnt > 0 => /\ s.worstI \in 1 .. s.cnt /\ s.worstD = s.dists[s.worstI]
               /\ \A p \in 1 .. s.cnt : s.dists[p] <= s.worstD
NoneNearerLetGo(s, n) ==
  \A m \in 0 .. n - 1 : \/ \E p \in 1 .. s.cnt : s.ids[p] = m
                        \/ s.cnt = K /\ s.worstD <= dist[m]
Kept(s, n) == SlotsFilled(s, n) /\ WorstCached(s) /\ NoneNearerLetGo(s, n)

LEMMA FilledIsKept ==
  ASSUME dist \in [Node -> 0 .. MaxDist], NEW n \in Node, NEW s, Kept(s, n), s.cnt < K
  PROVE  Kept(Filled(s, n), n + 1)
<1> DEFINE new == Filled(s, n)
<1>1. /\ n \in Nat /\ K \in Nat \ {0} /\ MaxDist \in Nat
      /\ \A m \in 0 .. n : m \in Node /\ dist[m] \in 0 .. MaxDist
  BY SizeAssumption DEF Node
<1>2. SlotsFilled(s, n) /\ WorstCached(s) /\ NoneNearerLetGo(s, n) /\ s.cnt = n /\ n + 1 \in 1 .. K
  BY <1>1 DEF Kept, SlotsFilled
<1>3. /\ new.cnt = n + 1 /\ new.ids = [s.ids EXCEPT ![n + 1] = n]
      /\ new.dists = [s.dists EXCEPT ![n + 1] = dist[n]]
      /\ new.worstD = IF n = 0 \/ dist[n] > s.worstD THEN dist[n] ELSE s.worstD
      /\ new.worstI = IF n = 0 \/ dist[n] > s.worstD THEN n + 1 ELSE s.worstI
  BY <1>2 DEF Filled
<1> HIDE DEF new
<1>4. /\ new.ids \in [1 .. K -> Node] /\ new.dists \in [1 .. K -> 0 .. MaxDist]
      /\ new.ids[n + 1] = n /\ new.dists[n + 1] = dist[n]
      /\ \A p \in 1 .. n : new.ids[p] = s.ids[p] /\ new.dists[p] = s.dists[p]
  <2>1. s.ids \in [1 .. K -> Node] /\ s.dists \in [1 .. K -> 0 .. MaxDist]
        /\ dist[n] \in 0 .. MaxDist
    BY <1>1, <1>2 DEF SlotsFilled
  <2>2. /\ new.ids \in [1 .. K -> Node] /\ new.ids[n + 1] = n
        /\ \A p \in 1 .. K : p # n + 1 => new.ids[p] = s.ids[p]
    BY <1>2, <1>3, <2>1, SlotFacts
  <2>3. /\ new.dists \in [1 .. K -> 0 .. MaxDist] /\ new.dists[n + 1] = dist[n]
        /\ \A p \in 1 .. K : p # n + 1 => new.dists[p] = s.dists[p]
    BY <1>2, <1>3, <2>1, SlotFacts
  <2>4. \A p \in 1 .. n : p \in 1 .. K /\ p # n + 1
    BY <1>1, <1>2
  <2> QED  BY <2>2, <2>3, <2>4
<1>5. SlotsFilled(new, n + 1)
  <2>1. \A p \in 1 .. n + 1 : new.ids[p] \in 0 .. (n + 1) - 1 /\ new.dists[p] = dist[new.ids[p]]
    <3> TAKE p \in 1 .. n + 1
    <3>1. CASE p = n + 1
      BY <3>1, <1>1, <1>4
    <3>2. CASE p # n + 1
      <4>1. p \in 1 .. n
        BY <3>2, <1>1
      <4>2. new.ids[p] = s.ids[p] /\ new.dists[p] = s.dists[p]
        BY <4>1, <1>4
      <4>3. s.ids[p] \in 0 .. n - 1 /\ s.dists[p] = dist[s.ids[p]]
        BY <4>1, <1>2 DEF SlotsFilled
      <4> QED  BY <4>2, <4>3, <1>1
    <3> QED  BY <3>1, <3>2
  <2>2. \A p \in 1 .. n : new.ids[p] \in 0 .. n - 1
    BY <1>2, <1>4 DEF SlotsFilled
  <2>3. \A p, q \in 1 .. n + 1 : new.ids[p] = new.ids[q] => p = q
    <3> SUFFICES ASSUME NEW p \in 1 .. n + 1, NEW q \in 1 .. n + 1, new.ids[p] = new.ids[q]
                 PROVE  p = q
      OBVIOUS
    <3>1. CASE p = n + 1 \/ q = n + 1
      <4>1. \A k \in 1 .. n + 1 : new.ids[k] = n => k = n + 1
        BY <1>1, <2>2
      <4> QED  BY <3>1, <4>1, <1>4
    <3>2. CASE p # n + 1 /\ q # n + 1
      <4>1. p \in 1 .. n /\ q \in 1 .. n
        BY <3>2, <1>1
      <4>2. s.ids[p] = s.ids[q]
        BY <4>1, <1>4
      <4>3. \A k, l \in 1 .. n : s.ids[k] = s.ids[l] => k = l
        BY <1>2 DEF SlotsFilled
      <4> QED  BY <4>1, <4>2, <4>3
    <3> QED  BY <3>1, <3>2
  <2>4. new.cnt \in 0 .. K /\ new.cnt <= n + 1 /\ new.cnt = n + 1
    BY <1>1, <1>2, <1>3
  <2>5. /\ \A p \in 1 .. new.cnt : new.ids[p] \in 0 .. (n + 1) - 1
                                  /\ new.dists[p] = dist[new.ids[p]]
        /\ \A p, q \in 1 .. new.cnt : new.ids[p] = new.ids[q] => p = q
    BY <2>1, <2>3, <2>4, Zenon
  <2>6. new.ids \in [1 .. K -> Node] /\ new.dists \in [1 .. K -> 0 .. MaxDist]
    BY <1>4
  <2> QED  BY <2>4, <2>5, <2>6 DEF SlotsFilled
<1>6. WorstCached(new)
  <2>1. n # 0 => s.worstI \in 1 .. n /\ s.worstD = s.dists[s.worstI]
                 /\ s.worstD \in 0 .. MaxDist /\ \A p \in 1 .. n : s.dists[p] <= s.worstD
    <3> SUFFICES ASSUME n # 0
                 PROVE  /\ s.worstI \in 1 .. n /\ s.worstD = s.dists[s.worstI]
                        /\ s.worstD \in 0 .. MaxDist /\ \A p \in 1 .. n : s.dists[p] <= s.worstD
      OBVIOUS
    <3>1. /\ s.worstI \in 1 .. n /\ s.worstD = s.dists[s.worstI]
          /\ \A p \in 1 .. n : s.dists[p] <= s.worstD
      BY <1>1, <1>2 DEF WorstCached
    <3>2. s.worstI \in 1 .. K
      BY <3>1, <1>1, <1>2
    <3>3. s.dists[s.worstI] \in 0 .. MaxDist
      BY <3>2, <1>2 DEF SlotsFilled
    <3> QED  BY <3>1, <3>3
  <2>2. CASE n = 0 \/ dist[n] > s.worstD
    <3>1. new.worstD = dist[n] /\ new.worstI = n + 1
      BY <2>2, <1>3
    <3>2. \A p \in 1 .. n + 1 : new.dists[p] <= dist[n]
      <4> TAKE p \in 1 .. n + 1
      <4>1. CASE p = n + 1
        BY <4>1, <1>1, <1>4
      <4>2. CASE p # n + 1
        <5>1. p \in 1 .. n /\ n # 0
          BY <4>2, <1>1
        <5>2. new.dists[p] = s.dists[p] /\ s.dists[p] \in 0 .. MaxDist
          <6>1. p \in 1 .. K /\ s.dists \in [1 .. K -> 0 .. MaxDist]
            BY <5>1, <1>1, <1>2 DEF SlotsFilled
          <6> QED  BY <5>1, <6>1, <1>4
        <5>3. s.dists[p] <= s.worstD /\ dist[n] \in 0 .. MaxDist
          BY <5>1, <1>1, <2>1
        <5> QED  BY <5>1, <5>2, <5>3, <1>1, <2>1, <2>2
      <4> QED  BY <4>1, <4>2
    <3> QED  BY <3>1, <3>2, <1>1, <1>3, <1>4 DEF WorstCached
  <2>3. CASE ~ (n = 0 \/ dist[n] > s.worstD)
    <3>1. new.worstD = s.worstD /\ new.worstI = s.worstI /\ dist[n] <= s.worstD
      BY <2>1, <2>3, <1>1, <1>3
    <3>2. \A p \in 1 .. n + 1 : new.dists[p] <= s.worstD
      <4> TAKE p \in 1 .. n + 1
      <4>1. CASE p = n + 1
        BY <4>1, <1>4, <3>1
      <4>2. CASE p # n + 1
        <5>1. p \in 1 .. n /\ n # 0
          BY <4>2, <1>1
        <5> QED  BY <5>1, <1>4, <2>1
      <4> QED  BY <4>1, <4>2
    <3>3. new.worstI \in 1 .. n + 1 /\ new.worstD = new.dists[new.worstI]
      <4>1. PICK k \in 1 .. n : k = s.worstI /\ s.worstD = s.dists[k]
        BY <2>1, <2>3
      <4>2. new.dists[k] = s.dists[k]
        BY <1>4
      <4>3. k \in 1 .. n + 1
        BY <1>1
      <4> QED  BY <4>1, <4>2, <4>3, <3>1
    <3> QED  BY <3>1, <3>2, <3>3, <1>3 DEF WorstCached
  <2> QED  BY <2>2, <2>3
<1>7. NoneNearerLetGo(new, n + 1)
  <2> SUFFICES ASSUME NEW m \in 0 .. (n + 1) - 1
               PROVE  \E p \in 1 .. n + 1 : new.ids[p] = m
    BY <1>3 DEF NoneNearerLetGo
  <2>1. CASE m = n
    BY <2>1, <1>1, <1>4
  <2>2. CASE m # n
    <3>1. m \in 0 .. n - 1 /\ ~ (s.cnt = K)
      BY <2>2, <1>1, <1>2
    <3>2. PICK p \in 1 .. n : s.ids[p] = m
      BY <3>1, <1>2 DEF NoneNearerLetGo
    <3>3. p \in 1 .. n + 1
      BY <1>1
    <3>4. new.ids[p] = s.ids[p]
      BY <1>4
    <3> QED  BY <3>2, <3>3, <3>4
  <2> QED  BY <2>1, <2>2
<1> QED  BY <1>5, <1>6, <1>7 DEF Kept, new

LEMMA ReplacedIsKept ==
  ASSUME dist \in [Node -> 0 .. MaxDist], NEW n \in Node, NEW s, Kept(s, n),
         ~ (s.cnt < K), dist[n] < s.worstD
  PROVE  Kept(Replaced(s, n), n + 1)
<1> DEFINE new == Replaced(s, n)
           w == s.worstI
           v == CHOOSE p \in 1 .. K : IsWorst(new.dists, p)
<1>1. /\ n \in Nat /\ K \in Nat \ {0} /\ MaxDist \in Nat
      /\ \A m \in 0 .. n : m \in Node /\ dist[m] \in 0 .. MaxDist
  BY SizeAssumption DEF Node
<1>2. SlotsFilled(s, n) /\ WorstCached(s) /\ NoneNearerLetGo(s, n) /\ s.cnt = K
  <2>1. s.cnt \in 0 .. K /\ ~ (s.cnt < K)
    BY DEF Kept, SlotsFilled
  <2> QED  BY <1>1, <2>1 DEF Kept
<1>3. /\ w \in 1 .. K /\ s.worstD = s.dists[w] /\ \A p \in 1 .. K : s.dists[p] <= s.worstD
      /\ s.worstD \in 0 .. MaxDist /\ s.ids[w] \in 0 .. n - 1
      /\ s.dists[w] = dist[s.ids[w]] /\ K <= n
  <2>1. w \in 1 .. K /\ s.worstD = s.dists[w] /\ \A p \in 1 .. K : s.dists[p] <= s.worstD
    BY <1>1, <1>2 DEF WorstCached
  <2>2. s.dists[w] \in 0 .. MaxDist
    BY <1>2, <2>1 DEF SlotsFilled
  <2>3. s.ids[w] \in 0 .. n - 1 /\ s.dists[w] = dist[s.ids[w]] /\ K <= n
    BY <1>2, <2>1 DEF SlotsFilled
  <2> QED  BY <2>1, <2>2, <2>3
<1>4. /\ new.cnt = K /\ new.ids = [s.ids EXCEPT ![w] = n]
      /\ new.dists = [s.dists EXCEPT ![w] = dist[n]]
      /\ new.worstD = new.dists[v] /\ new.worstI = v
  BY <1>2 DEF Replaced
<1> HIDE DEF new
<1>5. /\ new.ids \in [1 .. K -> Node] /\ new.dists \in [1 .. K -> 0 .. MaxDist]
      /\ new.ids[w] = n /\ new.dists[w] = dist[n]
      /\ \A p \in 1 .. K : p # w => new.ids[p] = s.ids[p] /\ new.dists[p] = s.dists[p]
  <2>1. s.ids \in [1 .. K -> Node] /\ s.dists \in [1 .. K -> 0 .. MaxDist]
        /\ dist[n] \in 0 .. MaxDist /\ w \in 1 .. K
    BY <1>1, <1>2, <1>3 DEF SlotsFilled
  <2> HIDE DEF w
  <2>2. /\ new.ids \in [1 .. K -> Node] /\ new.ids[w] = n
        /\ \A p \in 1 .. K : p # w => new.ids[p] = s.ids[p]
    BY <1>4, <2>1, SlotFacts
  <2>3. /\ new.dists \in [1 .. K -> 0 .. MaxDist] /\ new.dists[w] = dist[n]
        /\ \A p \in 1 .. K : p # w => new.dists[p] = s.dists[p]
    BY <1>4, <2>1, SlotFacts
  <2> QED  BY <2>2, <2>3
<1>6. v \in 1 .. K /\ IsWorst(new.dists, v)
  BY <1>5, WorstExists
<1> HIDE DEF v, w
<1>7. WorstCached(new) /\ \A p \in 1 .. K : new.dists[p] <= new.worstD
  <2>1. \A p \in 1 .. K : new.dists[p] <= new.dists[v]
    <3> TAKE p \in 1 .. K
    <3>1. new.dists[p] \in 0 .. MaxDist /\ new.dists[v] \in 0 .. MaxDist
      BY <1>5, <1>6
    <3>2. new.dists[v] > new.dists[p] \/ new.dists[v] = new.dists[p]
      BY <1>6 DEF IsWorst
    <3> QED  BY <1>1, <3>1, <3>2
  <2> QED  BY <2>1, <1>4, <1>6 DEF WorstCached
<1>8. SlotsFilled(new, n + 1)
  <2>1. \A p \in 1 .. K : new.ids[p] \in 0 .. (n + 1) - 1 /\ new.dists[p] = dist[new.ids[p]]
    <3> TAKE p \in 1 .. K
    <3>1. CASE p = w
      BY <3>1, <1>1, <1>5
    <3>2. CASE p # w
      <4>1. new.ids[p] = s.ids[p] /\ new.dists[p] = s.dists[p]
        BY <3>2, <1>5
      <4>2. s.ids[p] \in 0 .. n - 1 /\ s.dists[p] = dist[s.ids[p]]
        BY <1>2 DEF SlotsFilled
      <4>3. s.ids[p] \in 0 .. (n + 1) - 1
        BY <4>2, <1>1
      <4> QED  BY <4>1, <4>2, <4>3
    <3> QED  BY <3>1, <3>2
  <2>2. \A p, q \in 1 .. K : new.ids[p] = new.ids[q] => p = q
    <3> SUFFICES ASSUME NEW p \in 1 .. K, NEW q \in 1 .. K, new.ids[p] = new.ids[q]
                 PROVE  p = q
      OBVIOUS
    <3>1. \A k \in 1 .. K : s.ids[k] # n
      <4>1. \A k \in 1 .. K : s.ids[k] \in 0 .. n - 1
        BY <1>2 DEF SlotsFilled
      <4> QED  BY <4>1, <1>1
    <3>2. CASE p = w \/ q = w
      BY <3>1, <3>2, <1>5
    <3>3. CASE p # w /\ q # w
      <4>1. \A k, l \in 1 .. K : s.ids[k] = s.ids[l] => k = l
        BY <1>2 DEF SlotsFilled
      <4> QED  BY <4>1, <3>3, <1>5
    <3> QED  BY <3>2, <3>3
  <2>3. K <= n + 1 /\ K \in 0 .. K
    BY <1>1, <1>3
  <2> QED  BY <1>4, <1>5, <2>1, <2>2, <2>3 DEF SlotsFilled
<1>9. NoneNearerLetGo(new, n + 1)
  <2> SUFFICES ASSUME NEW m \in 0 .. (n + 1) - 1, \A p \in 1 .. K : new.ids[p] # m
               PROVE  new.worstD <= dist[m]
    BY <1>4 DEF NoneNearerLetGo
  <2>1. m # n /\ m \in 0 .. n - 1
    <3>1. w \in 1 .. K /\ new.ids[w] = n
      BY <1>3, <1>5
    <3>2. m # n
      BY <3>1
    <3> QED  BY <3>2, <1>1
  <2>2. s.worstD <= dist[m]
    <3>1. CASE \E p \in 1 .. K : s.ids[p] = m
      <4>1. PICK p \in 1 .. K : s.ids[p] = m
        BY <3>1
      <4>2. p = w
        BY <4>1, <1>5
      <4> QED  BY <4>1, <4>2, <1>1, <1>3, <2>1
    <3>2. CASE ~ \E p \in 1 .. K : s.ids[p] = m
      BY <3>2, <2>1, <1>2 DEF NoneNearerLetGo
    <3> QED  BY <3>1, <3>2
  <2>3. new.worstD <= s.worstD
    <3>1. CASE v = w
      BY <3>1, <1>1, <1>3, <1>4, <1>5
    <3>2. CASE v # w
      BY <3>2, <1>3, <1>4, <1>5, <1>6
    <3> QED  BY <3>1, <3>2
  <2>4. new.worstD \in 0 .. MaxDist /\ s.worstD \in 0 .. MaxDist /\ dist[m] \in 0 .. MaxDist
    <3>1. new.dists[v] \in 0 .. MaxDist
      BY <1>5, <1>6
    <3> QED  BY <1>1, <1>3, <1>4, <2>1, <3>1
  <2> QED  BY <1>1, <2>2, <2>3, <2>4
<1> QED  BY <1>7, <1>8, <1>9 DEF Kept, new

LEMMA KeepKeeps ==
  ASSUME dist \in [Node -> 0 .. MaxDist], NEW n \in Node, NEW s, Kept(s, n)
  PROVE  Kept(Keep(s, n), n + 1)
<1>1. /\ n \in Nat /\ K \in Nat \ {0} /\ MaxDist \in Nat
      /\ \A m \in 0 .. n : dist[m] \in 0 .. MaxDist
  BY SizeAssumption DEF Node
<1>2. CASE s.cnt < K
  BY <1>2, FilledIsKept DEF Keep
<1>3. CASE ~ (s.cnt < K) /\ dist[n] < s.worstD
  BY <1>3, ReplacedIsKept DEF Keep
<1>4. CASE ~ (s.cnt < K) /\ ~ (dist[n] < s.worstD)
  <2>1. SlotsFilled(s, n) /\ WorstCached(s) /\ NoneNearerLetGo(s, n) /\ s.cnt = K
    BY <1>1, <1>4 DEF Kept, SlotsFilled
  <2>2. s.worstD \in 0 .. MaxDist /\ s.worstD <= dist[n]
    <3>1. s.worstD \in 0 .. MaxDist
      BY <1>1, <2>1 DEF WorstCached, SlotsFilled
    <3> QED  BY <3>1, <1>1, <1>4
  <2>3. SlotsFilled(s, n + 1)
    BY <1>1, <2>1 DEF SlotsFilled
  <2>4. NoneNearerLetGo(s, n + 1)
    <3> SUFFICES ASSUME NEW m \in 0 .. (n + 1) - 1
                 PROVE  (\E p \in 1 .. s.cnt : s.ids[p] = m) \/ s.worstD <= dist[m]
      BY <2>1 DEF NoneNearerLetGo
    <3>1. CASE m = n
      BY <3>1, <2>2
    <3>2. CASE m # n
      <4>1. m \in 0 .. n - 1
        BY <3>2, <1>1
      <4> QED  BY <4>1, <2>1 DEF NoneNearerLetGo
    <3> QED  BY <3>1, <3>2
  <2> QED  BY <1>4, <2>1, <2>3, <2>4 DEF Keep, Kept
<1> QED  BY <1>2, <1>3, <1>4

(***************************************************************************)
(* The scan is defined by recursion over the nodes.  The definition makes  *)
(* sense up to any node, because there is no first one where it fails to.  *)
(***************************************************************************)
ScanRule(f, m) == f = [n \in 0 .. m |-> IF n = 0 THEN Nothing ELSE Keep(f[n - 1], n - 1)]

LEMMA ScanExists ==
  ASSUME NEW m \in Nat
  PROVE  \E f : ScanRule(f, m)
<1> DEFINE Bad == {k \in Nat : ~ \E f : ScanRule(f, k)}
<1> SUFFICES ASSUME m \in Bad PROVE FALSE
  OBVIOUS
<1>1. PICK k \in Bad : \A l \in Bad : k <= l
  BY Smallest
<1>2. k # 0
  <2>1. ScanRule([n \in 0 .. 0 |-> Nothing], 0)
    BY DEF ScanRule
  <2> QED  BY <2>1, <1>1
<1>3. k - 1 \in Nat /\ k - 1 \notin Bad
  BY <1>1, <1>2
<1>4. PICK f : ScanRule(f, k - 1)
  BY <1>3
<1> DEFINE h == [n \in 0 .. k |-> IF n < k THEN f[n] ELSE Keep(f[k - 1], k - 1)]
<1>5. \A n \in 0 .. k : h[n] = IF n = 0 THEN Nothing ELSE Keep(h[n - 1], n - 1)
  <2> TAKE n \in 0 .. k
  <2>1. CASE n = k
    <3>1. h[n] = Keep(f[k - 1], k - 1) /\ h[n - 1] = f[k - 1]
      BY <2>1, <1>2, <1>3
    <3> QED  BY <3>1, <2>1, <1>2
  <2>2. CASE n < k
    <3>1. n \in 0 .. k - 1 /\ (n # 0 => n - 1 \in 0 .. k - 1)
      BY <2>2, <1>1
    <3>2. f[n] = IF n = 0 THEN Nothing ELSE Keep(f[n - 1], n - 1)
      BY <3>1, <1>4 DEF ScanRule
    <3>3. h[n] = f[n] /\ (n # 0 => h[n - 1] = f[n - 1])
      BY <2>2, <3>1, <1>1
    <3> QED  BY <3>2, <3>3
  <2> QED  BY <2>1, <2>2, <1>1
<1>6. ScanRule(h, k)
  BY <1>5 DEF ScanRule
<1> QED  BY <1>1, <1>6

LEMMA ScannedIsKept ==
  ASSUME dist \in [Node -> 0 .. MaxDist]
  PROVE  Kept(Scanned, N)
<1> DEFINE scan == CHOOSE f : ScanRule(f, N)
<1>1. Scanned = scan[N] /\ N \in Nat
  BY SizeAssumption DEF Scanned, ScanRule
<1>2. ScanRule(scan, N)
  BY <1>1, ScanExists
<1> HIDE DEF scan
<1>3. scan[0] = Nothing /\ \A n \in 1 .. N : scan[n] = Keep(scan[n - 1], n - 1)
  BY <1>1, <1>2 DEF ScanRule
<1> DEFINE Bad == {n \in 0 .. N : ~ Kept(scan[n], n)}
<1>4. ASSUME Bad # {} PROVE FALSE
  <2>1. PICK n \in Bad : \A k \in Bad : n <= k
    <3>1. Bad \in SUBSET Nat
      OBVIOUS
    <3> QED  BY <1>4, <3>1, Smallest
  <2>2. n # 0
    <3>1. 0 \in Node /\ 0 \in 0 .. MaxDist
      BY SizeAssumption DEF Node
    <3>2. Kept(Nothing, 0)
      BY <3>1, SizeAssumption
         DEF Nothing, Kept, SlotsFilled, WorstCached, NoneNearerLetGo
    <3> QED  BY <3>2, <1>3, <2>1
  <2>3. n - 1 \in Node /\ n - 1 \in 0 .. N /\ ~ (n <= n - 1) /\ n \in 1 .. N
    BY <1>1, <2>1, <2>2 DEF Node
  <2>4. Kept(scan[n - 1], n - 1)
    BY <2>1, <2>3
  <2>5. Kept(Keep(scan[n - 1], n - 1), (n - 1) + 1)
    <3> HIDE DEF Bad
    <3> QED  BY <2>3, <2>4, KeepKeeps
  <2>6. (n - 1) + 1 = n
    BY <2>3
  <2> QED  BY <1>3, <2>1, <2>3, <2>5, <2>6
<1>5. N \in 0 .. N
  BY <1>1
<1> QED  BY <1>1, <1>4, <1>5

(***************************************************************************)
(* The insertion sort.  Between two turns the entries up to slot i are in  *)
(* order but for the one at slot j, which no entry before it bounds yet.   *)
(***************************************************************************)
Arrays == [ids : [1 .. K -> Node], dists : [1 .. K -> 0 .. MaxDist], j : Int]
InPairs(s, R) ==
  /\ s \in Arrays /\ Range(s.ids) = R /\ Distinct(s.ids)
  /\ \A p \in 1 .. K : s.dists[p] = dist[s.ids[p]]
InOrderBut(s, i) ==
  s.j \in 1 .. i /\ \A p, q \in 1 .. i : p < q /\ q # s.j => s.dists[p] <= s.dists[q]
InOrder(s, i) == \A p, q \in 1 .. i : p < q => s.dists[p] <= s.dists[q]
Stopped(s) == ~ (s.j > 1 /\ s.dists[s.j - 1] > s.dists[s.j])

LEMMA SwapFacts ==
  ASSUME NEW a, DOMAIN a = 1 .. K, NEW i \in 1 .. K, NEW j \in 1 .. K, i # j
  PROVE  /\ DOMAIN Swap(a, i, j) = 1 .. K
         /\ Swap(a, i, j)[i] = a[j] /\ Swap(a, i, j)[j] = a[i]
         /\ \A p \in 1 .. K : p # i /\ p # j => Swap(a, i, j)[p] = a[p]
         /\ Range(Swap(a, i, j)) = Range(a)
         /\ Distinct(a) => Distinct(Swap(a, i, j))
<1> DEFINE new == Swap(a, i, j)
<1>1. /\ DOMAIN new = 1 .. K /\ new[i] = a[j] /\ new[j] = a[i]
      /\ \A p \in 1 .. K : p # i /\ p # j => new[p] = a[p]
  BY DEF Swap
<1> HIDE DEF new
<1>2. ASSUME NEW p \in 1 .. K PROVE new[p] \in Range(a) /\ a[p] \in Range(new)
  <2>1. PICK q \in 1 .. K : new[p] = a[q] /\ a[p] = new[q]
    BY <1>1
  <2> QED  BY <1>1, <2>1 DEF Range
<1>3. Range(new) = Range(a)
  BY <1>1, <1>2 DEF Range
<1>4. Distinct(a) => Distinct(new)
  BY <1>1 DEF Distinct
<1> QED  BY <1>1, <1>3, <1>4 DEF new

LEMMA TurnFacts ==
  ASSUME NEW R, NEW i \in 1 .. K, NEW s, InPairs(s, R), InOrderBut(s, i)
  PROVE  /\ InPairs(Turn(s), R) /\ InOrderBut(Turn(s), i)
         /\ IF Stopped(s) THEN Turn(s) = s ELSE Turn(s).j = s.j - 1
<1> DEFINE j == s.j
           new == Turn(s)
<1>1. /\ s.ids \in [1 .. K -> Node] /\ s.dists \in [1 .. K -> 0 .. MaxDist] /\ K \in Nat
      /\ MaxDist \in Nat
  BY SizeAssumption DEF InPairs, Arrays
<1>2. CASE Stopped(s)
  BY <1>2 DEF Stopped, Turn
<1>3. CASE ~ Stopped(s)
  <2>1. /\ j \in 1 .. K /\ j - 1 \in 1 .. K /\ j - 1 # j /\ j \in 1 .. i
        /\ s.dists[j - 1] > s.dists[j]
    BY <1>1, <1>3 DEF Stopped, InOrderBut
  <2>2. /\ new.ids = Swap(s.ids, j - 1, j) /\ new.dists = Swap(s.dists, j - 1, j)
        /\ new.j = j - 1
        /\ new = [ids |-> new.ids, dists |-> new.dists, j |-> new.j]
    BY <1>3 DEF Stopped, Turn
  <2> HIDE DEF new
  <2> DEFINE e == new.ids
             d == new.dists
  <2>3. /\ e \in [1 .. K -> Node] /\ e[j - 1] = s.ids[j] /\ e[j] = s.ids[j - 1]
        /\ \A p \in 1 .. K : p # j - 1 /\ p # j => e[p] = s.ids[p]
        /\ Range(e) = R /\ Distinct(e)
    <3>1. Range(s.ids) = R /\ Distinct(s.ids)
      BY DEF InPairs
    <3>2. PICK k \in 1 .. K, l \in 1 .. K : k = j - 1 /\ l = j /\ k # l
      BY <2>1
    <3>3. PICK a \in [1 .. K -> Node] : a = s.ids
      BY <1>1
    <3>4. /\ Swap(a, k, l) \in [1 .. K -> Node]
          /\ Swap(a, k, l)[k] = a[l] /\ Swap(a, k, l)[l] = a[k]
          /\ \A p \in 1 .. K : p # k /\ p # l => Swap(a, k, l)[p] = a[p]
          /\ Range(Swap(a, k, l)) = R /\ Distinct(Swap(a, k, l))
      <4>1. Range(a) = R /\ Distinct(a)
        BY <3>1, <3>3
      <4>2. Swap(a, k, l) \in [1 .. K -> Node]
        <5>1. a[k] \in Node /\ a[l] \in Node
          OBVIOUS
        <5> QED  BY <5>1 DEF Swap
      <4>3. DOMAIN a = 1 .. K /\ k # l
        BY <3>2
      <4>4. /\ Swap(a, k, l)[k] = a[l] /\ Swap(a, k, l)[l] = a[k]
            /\ \A p \in 1 .. K : p # k /\ p # l => Swap(a, k, l)[p] = a[p]
            /\ Range(Swap(a, k, l)) = Range(a)
            /\ Distinct(a) => Distinct(Swap(a, k, l))
        BY <4>3, SwapFacts, ZenonT(40)
      <4> QED  BY <4>1, <4>2, <4>4, Zenon
    <3> QED  BY <2>2, <3>2, <3>3, <3>4
  <2>4. /\ d \in [1 .. K -> 0 .. MaxDist] /\ d[j - 1] = s.dists[j] /\ d[j] = s.dists[j - 1]
        /\ \A p \in 1 .. K : p # j - 1 /\ p # j => d[p] = s.dists[p]
    <3>1. PICK k \in 1 .. K, l \in 1 .. K : k = j - 1 /\ l = j /\ k # l
      BY <2>1
    <3>2. PICK a \in [1 .. K -> 0 .. MaxDist] : a = s.dists
      BY <1>1
    <3>3. /\ Swap(a, k, l) \in [1 .. K -> 0 .. MaxDist]
          /\ Swap(a, k, l)[k] = a[l] /\ Swap(a, k, l)[l] = a[k]
          /\ \A p \in 1 .. K : p # k /\ p # l => Swap(a, k, l)[p] = a[p]
      <4>1. Swap(a, k, l) \in [1 .. K -> 0 .. MaxDist]
        <5>1. a[k] \in 0 .. MaxDist /\ a[l] \in 0 .. MaxDist
          OBVIOUS
        <5> QED  BY <5>1 DEF Swap
      <4>2. DOMAIN a = 1 .. K /\ k # l
        BY <3>1
      <4>3. /\ Swap(a, k, l)[k] = a[l] /\ Swap(a, k, l)[l] = a[k]
            /\ \A p \in 1 .. K : p # k /\ p # l => Swap(a, k, l)[p] = a[p]
        BY <4>2, SwapFacts, ZenonT(40)
      <4> QED  BY <4>1, <4>3, Zenon
    <3> QED  BY <2>2, <3>1, <3>2, <3>3
  <2> HIDE DEF e, d
  <2>5. InPairs(new, R)
    <3>1. \A p \in 1 .. K : d[p] = dist[e[p]]
      <4> TAKE p \in 1 .. K
      <4>1. \A q \in 1 .. K : s.dists[q] = dist[s.ids[q]]
        BY DEF InPairs
      <4>2. CASE p = j - 1
        BY <4>1, <4>2, <2>1, <2>3, <2>4
      <4>3. CASE p = j
        BY <4>1, <4>3, <2>1, <2>3, <2>4
      <4>4. CASE p # j - 1 /\ p # j
        BY <4>1, <4>4, <2>3, <2>4
      <4> QED  BY <4>2, <4>3, <4>4
    <3>2. new \in Arrays
      BY <2>1, <2>2, <2>3, <2>4 DEF e, d, Arrays
    <3> QED  BY <2>3, <3>1, <3>2 DEF e, d, InPairs
  <2>6. InOrderBut(new, i)
    <3>1. ASSUME NEW p \in 1 .. i, NEW q \in 1 .. i, p < q, q # j - 1
          PROVE  d[p] <= d[q]
      <4>1. p \in 1 .. K /\ q \in 1 .. K
            /\ \A k \in 1 .. K : s.dists[k] \in Int /\ d[k] \in Int
        <5>1. i \in 1 .. K /\ \A k \in 1 .. K : s.dists[k] \in 0 .. MaxDist /\ d[k] \in 0 .. MaxDist
          BY <1>1, <2>4
        <5> QED  BY <1>1, <5>1
      <4>2. \A k, l \in 1 .. i : k < l /\ l # j => s.dists[k] <= s.dists[l]
        BY DEF InOrderBut
      <4>3. CASE q = j
        <5>1. CASE p = j - 1
          BY <5>1, <4>1, <4>3, <2>1, <2>4
        <5>2. CASE p # j - 1
          <6>1. p < j - 1 /\ j - 1 \in 1 .. i
            BY <5>2, <3>1, <4>3, <2>1
          <6>2. s.dists[p] <= s.dists[j - 1] /\ d[p] = s.dists[p] /\ d[q] = s.dists[j - 1]
            BY <6>1, <4>1, <4>2, <4>3, <2>1, <2>4
          <6> QED  BY <6>2
        <5> QED  BY <5>1, <5>2
      <4>4. CASE q # j
        <5>1. d[q] = s.dists[q]
          BY <4>1, <4>4, <3>1, <2>4
        <5>2. CASE p = j - 1
          <6>1. j < q /\ d[p] = s.dists[j]
            BY <5>2, <4>4, <3>1, <2>1, <2>4
          <6> QED  BY <5>1, <6>1, <4>2, <4>4, <2>1
        <5>3. CASE p = j
          <6>1. j - 1 < q /\ j - 1 \in 1 .. i /\ d[p] = s.dists[j - 1]
            BY <5>3, <3>1, <2>1, <2>4
          <6> QED  BY <5>1, <6>1, <4>2, <4>4
        <5>4. CASE p # j - 1 /\ p # j
          BY <5>1, <5>4, <3>1, <4>1, <4>2, <4>4, <2>4
        <5> QED  BY <5>2, <5>3, <5>4
      <4> QED  BY <4>3, <4>4
    <3>2. j - 1 \in 1 .. i
      BY <2>1
    <3> QED  BY <2>2, <3>1, <3>2 DEF d, InOrderBut
  <2> QED  BY <1>3, <2>2, <2>5, <2>6 DEF new
<1> QED  BY <1>2, <1>3

(* The turns of the inner loop are counted by recursion, as the scan is. *)
TurnRule(f, s, i, m) ==
  f = [t \in 0 .. m |-> IF t = 0 THEN [s EXCEPT !.j = i] ELSE Turn(f[t - 1])]

LEMMA TurnsExist ==
  ASSUME NEW s, NEW i, NEW m \in Nat
  PROVE  \E f : TurnRule(f, s, i, m)
<1> DEFINE Bad == {k \in Nat : ~ \E f : TurnRule(f, s, i, k)}
<1> SUFFICES ASSUME m \in Bad PROVE FALSE
  OBVIOUS
<1>1. PICK k \in Bad : \A l \in Bad : k <= l
  BY Smallest
<1>2. k # 0
  <2>1. TurnRule([t \in 0 .. 0 |-> [s EXCEPT !.j = i]], s, i, 0)
    BY DEF TurnRule
  <2> QED  BY <2>1, <1>1
<1>3. k - 1 \in Nat /\ k - 1 \notin Bad
  BY <1>1, <1>2
<1>4. PICK f : TurnRule(f, s, i, k - 1)
  BY <1>3
<1> DEFINE a == [s EXCEPT !.j = i]
           h == [t \in 0 .. k |-> IF t < k THEN f[t] ELSE Turn(f[k - 1])]
<1>5. \A t \in 0 .. k - 1 : f[t] = IF t = 0 THEN a ELSE Turn(f[t - 1])
  BY <1>4 DEF TurnRule
<1> HIDE DEF a
<1>6. \A t \in 0 .. k : h[t] = IF t = 0 THEN a ELSE Turn(h[t - 1])
  <2> TAKE t \in 0 .. k
  <2>1. CASE t = k
    <3>1. h[t] = Turn(f[k - 1]) /\ h[t - 1] = f[k - 1]
      BY <2>1, <1>2, <1>3
    <3> QED  BY <3>1, <2>1, <1>2
  <2>2. CASE t < k
    <3>1. t \in 0 .. k - 1 /\ (t # 0 => t - 1 \in 0 .. k - 1)
      BY <2>2, <1>1
    <3>2. h[t] = f[t] /\ (t # 0 => h[t - 1] = f[t - 1])
      BY <2>2, <3>1, <1>1
    <3> QED  BY <3>1, <3>2, <1>5
  <2> QED  BY <2>1, <2>2, <1>1
<1>7. TurnRule(h, s, i, k)
  BY <1>6 DEF TurnRule, a
<1> QED  BY <1>1, <1>7

LEMMA InsertedFacts ==
  ASSUME NEW R, NEW i \in 2 .. K, NEW s, InPairs(s, R), InOrder(s, i - 1)
  PROVE  InPairs(Inserted(s, i), R) /\ InOrder(Inserted(s, i), i)
<1> DEFINE turned == CHOOSE f : TurnRule(f, s, i, i - 1)
           Sinking(t) == /\ InPairs(turned[t], R) /\ InOrderBut(turned[t], i)
                         /\ Stopped(turned[t]) \/ turned[t].j = i - t
<1>1. Inserted(s, i) = turned[i - 1] /\ i \in 1 .. K /\ i - 1 \in Nat \ {0} /\ K \in Nat
  BY SizeAssumption DEF Inserted, TurnRule
<1>2. TurnRule(turned, s, i, i - 1)
  BY <1>1, TurnsExist
<1> HIDE DEF turned
<1>3. /\ turned[0] = [s EXCEPT !.j = i]
      /\ \A t \in 1 .. i - 1 : turned[t] = Turn(turned[t - 1])
  <2>1. \A t \in 0 .. i - 1 : turned[t] = IF t = 0 THEN [s EXCEPT !.j = i] ELSE Turn(turned[t - 1])
    BY <1>2 DEF TurnRule
  <2>2. 0 \in 0 .. i - 1 /\ \A t \in 1 .. i - 1 : t \in 0 .. i - 1 /\ t # 0
    BY <1>1
  <2> QED  BY <2>1, <2>2
<1>4. Sinking(0)
  <2>1. turned[0].ids = s.ids /\ turned[0].dists = s.dists /\ turned[0].j = i
        /\ turned[0] \in Arrays
    <3>1. s \in Arrays /\ i \in Int
      BY <1>1 DEF InPairs
    <3> QED  BY <1>3, <3>1 DEF Arrays
  <2>2. InPairs(turned[0], R)
    BY <2>1 DEF InPairs
  <2>3. InOrderBut(turned[0], i)
    <3> SUFFICES ASSUME NEW p \in 1 .. i, NEW q \in 1 .. i, p < q, q # i
                 PROVE  s.dists[p] <= s.dists[q]
      BY <1>1, <2>1 DEF InOrderBut
    <3>1. p \in 1 .. i - 1 /\ q \in 1 .. i - 1
      BY <1>1
    <3> QED  BY <3>1 DEF InOrder
  <2> QED  BY <1>1, <2>1, <2>2, <2>3
<1>5. ASSUME NEW t \in 1 .. i - 1, Sinking(t - 1) PROVE Sinking(t)
  <2> DEFINE old == turned[t - 1]
             new == turned[t]
  <2>1. new = Turn(old)
    BY <1>3
  <2>2. InPairs(old, R) /\ InOrderBut(old, i) /\ (Stopped(old) \/ old.j = i - (t - 1))
    BY <1>5
  <2> HIDE DEF old
  <2>3. InPairs(new, R) /\ InOrderBut(new, i)
        /\ IF Stopped(old) THEN new = old ELSE new.j = old.j - 1
    BY <1>1, <2>1, <2>2, TurnFacts
  <2>4. Stopped(new) \/ new.j = i - t
    <3>1. CASE Stopped(old)
      BY <3>1, <2>3
    <3>2. CASE ~ Stopped(old)
      <4>1. new.j = (i - (t - 1)) - 1
        BY <3>2, <2>2, <2>3
      <4> QED  BY <4>1, <1>1
    <3> QED  BY <3>1, <3>2
  <2> QED  BY <2>3, <2>4
<1> HIDE DEF Sinking
<1> DEFINE Bad == {t \in 0 .. i - 1 : ~ Sinking(t)}
<1>6. ASSUME Bad # {} PROVE FALSE
  <2>1. PICK t \in Bad : \A k \in Bad : t <= k
    <3>1. Bad \in SUBSET Nat
      OBVIOUS
    <3> QED  BY <1>6, <3>1, Smallest
  <2>2. t # 0
    BY <1>4, <2>1
  <2>3. t \in 1 .. i - 1 /\ t - 1 \in 0 .. i - 1 /\ ~ (t <= t - 1)
    BY <1>1, <2>1, <2>2
  <2>4. Sinking(t - 1)
    BY <2>1, <2>3
  <2> QED  BY <1>5, <2>1, <2>3, <2>4
<1>7. Sinking(i - 1)
  BY <1>1, <1>6
<1> DEFINE end == turned[i - 1]
<1>8. InPairs(end, R) /\ InOrderBut(end, i) /\ (Stopped(end) \/ end.j = i - (i - 1))
  BY <1>7 DEF Sinking
<1> HIDE DEF end
<1>9. InOrder(end, i)
  <2> DEFINE d == end.dists
             j == end.j
  <2>1. /\ j \in 1 .. i /\ \A p \in 1 .. i : d[p] \in Int
        /\ \A p, q \in 1 .. i : p < q /\ q # j => d[p] <= d[q]
    <3>1. d \in [1 .. K -> 0 .. MaxDist] /\ MaxDist \in Nat
      BY <1>8, SizeAssumption DEF InPairs, Arrays
    <3> QED  BY <1>1, <1>8, <3>1 DEF InOrderBut
  <2>2. j > 1 => d[j - 1] <= d[j]
    <3>1. CASE Stopped(end)
      <4>1. j > 1 => ~ (d[j - 1] > d[j]) /\ j - 1 \in 1 .. i
        BY <3>1, <1>1, <2>1 DEF Stopped
      <4> QED  BY <2>1, <4>1
    <3>2. CASE end.j = i - (i - 1)
      BY <3>2, <1>1
    <3> QED  BY <1>8, <3>1, <3>2
  <2> HIDE DEF d, j
  <2>3. ASSUME NEW p \in 1 .. i, NEW q \in 1 .. i, p < q PROVE d[p] <= d[q]
    <3>1. CASE q # j
      BY <2>1, <2>3, <3>1
    <3>2. CASE q = j /\ p = j - 1
      BY <1>1, <2>2, <2>3, <3>2
    <3>3. CASE q = j /\ p # j - 1
      <4>1. j - 1 \in 1 .. i /\ p < j - 1 /\ j - 1 # j /\ j > 1
        BY <1>1, <2>1, <2>3, <3>3
      <4>2. d[p] <= d[j - 1] /\ d[j - 1] <= d[j]
        BY <2>1, <2>2, <4>1
      <4>3. d[p] \in Int /\ d[j - 1] \in Int /\ d[j] \in Int
        BY <2>1, <4>1
      <4> QED  BY <3>3, <4>2, <4>3
    <3> QED  BY <3>1, <3>2, <3>3
  <2> QED  BY <2>3 DEF d, InOrder
<1> QED  BY <1>1, <1>8, <1>9 DEF end

SortRule(f, s, m) ==
  f = [i \in 1 .. m |-> IF i = 1 THEN [ids |-> s.ids, dists |-> s.dists, j |-> 1]
                        ELSE Inserted(f[i - 1], i)]

LEMMA SortExists ==
  ASSUME NEW s, NEW m \in Nat
  PROVE  \E f : SortRule(f, s, m)
<1> DEFINE Bad == {k \in Nat : ~ \E f : SortRule(f, s, k)}
<1> SUFFICES ASSUME m \in Bad PROVE FALSE
  OBVIOUS
<1>1. PICK k \in Bad : \A l \in Bad : k <= l
  BY Smallest
<1> DEFINE a == [ids |-> s.ids, dists |-> s.dists, j |-> 1]
<1>2. k > 1
  <2>1. SortRule([i \in 1 .. 0 |-> a], s, 0)
    BY DEF SortRule
  <2>2. SortRule([i \in 1 .. 1 |-> a], s, 1)
    BY DEF SortRule
  <2> QED  BY <2>1, <2>2, <1>1
<1>3. k - 1 \in Nat /\ k - 1 \notin Bad
  BY <1>1, <1>2
<1>4. PICK f : SortRule(f, s, k - 1)
  BY <1>3
<1> DEFINE h == [i \in 1 .. k |-> IF i < k THEN f[i] ELSE Inserted(f[k - 1], k)]
<1>5. \A i \in 1 .. k - 1 : f[i] = IF i = 1 THEN a ELSE Inserted(f[i - 1], i)
  BY <1>4 DEF SortRule
<1> HIDE DEF a
<1>6. \A i \in 1 .. k : h[i] = IF i = 1 THEN a ELSE Inserted(h[i - 1], i)
  <2> TAKE i \in 1 .. k
  <2>1. CASE i = k
    <3>1. h[i] = Inserted(f[k - 1], k) /\ h[i - 1] = f[k - 1]
      BY <2>1, <1>2, <1>3
    <3> QED  BY <3>1, <2>1, <1>2
  <2>2. CASE i < k
    <3>1. i \in 1 .. k - 1 /\ (i # 1 => i - 1 \in 1 .. k - 1)
      BY <2>2, <1>1
    <3>2. h[i] = f[i] /\ (i # 1 => h[i - 1] = f[i - 1])
      BY <2>2, <3>1, <1>1
    <3> QED  BY <3>1, <3>2, <1>5
  <2> QED  BY <2>1, <2>2, <1>1
<1>7. SortRule(h, s, k)
  BY <1>6 DEF SortRule, a
<1> QED  BY <1>1, <1>7

(* The insertion sort gives the same nodes, nearest first. *)
LEMMA SortedFacts ==
  ASSUME NEW s, s.ids \in [1 .. K -> Node], s.dists \in [1 .. K -> 0 .. MaxDist],
         Distinct(s.ids), \A p \in 1 .. K : s.dists[p] = dist[s.ids[p]]
  PROVE  /\ Sorted(s).ids \in [1 .. K -> Node] /\ Range(Sorted(s).ids) = Range(s.ids)
         /\ Distinct(Sorted(s).ids) /\ NearestFirst(Sorted(s).ids)
<1> DEFINE sorted == CHOOSE f : SortRule(f, s, K)
           R == Range(s.ids)
           Done(i) == InPairs(sorted[i], R) /\ InOrder(sorted[i], i)
<1>1. Sorted(s) = sorted[K] /\ K \in Nat \ {0} /\ MaxDist \in Nat
  BY SizeAssumption DEF Sorted, SortRule
<1>2. SortRule(sorted, s, K)
  BY <1>1, SortExists
<1> HIDE DEF sorted
<1>3. /\ sorted[1] = [ids |-> s.ids, dists |-> s.dists, j |-> 1]
      /\ \A i \in 2 .. K : sorted[i] = Inserted(sorted[i - 1], i)
  <2>1. \A i \in 1 .. K : sorted[i] = IF i = 1 THEN [ids |-> s.ids, dists |-> s.dists, j |-> 1]
                                      ELSE Inserted(sorted[i - 1], i)
    BY <1>2 DEF SortRule
  <2> QED  BY <1>1, <2>1
<1>4. Done(1)
  BY <1>3 DEF InPairs, Arrays, InOrder
<1>5. ASSUME NEW i \in 2 .. K, Done(i - 1) PROVE Done(i)
  BY <1>3, <1>5, InsertedFacts
<1> HIDE DEF Done
<1> DEFINE Bad == {i \in 1 .. K : ~ Done(i)}
<1>6. ASSUME Bad # {} PROVE FALSE
  <2>1. PICK i \in Bad : \A k \in Bad : i <= k
    <3>1. Bad \in SUBSET Nat
      OBVIOUS
    <3> QED  BY <1>6, <3>1, Smallest
  <2>2. i # 1
    BY <1>4, <2>1
  <2>3. i \in 2 .. K /\ i - 1 \in 1 .. K /\ ~ (i <= i - 1)
    BY <1>1, <2>1, <2>2
  <2>4. Done(i - 1)
    BY <2>1, <2>3
  <2> QED  BY <1>5, <2>1, <2>3, <2>4
<1>7. InPairs(sorted[K], R) /\ InOrder(sorted[K], K)
  BY <1>1, <1>6 DEF Done
<1>8. NearestFirst(sorted[K].ids)
  <2> SUFFICES ASSUME NEW p \in 1 .. K - 1
               PROVE  dist[sorted[K].ids[p]] <= dist[sorted[K].ids[p + 1]]
    BY DEF NearestFirst
  <2>1. p \in 1 .. K /\ p + 1 \in 1 .. K /\ p < p + 1
    BY <1>1
  <2> QED  BY <2>1, <1>7 DEF InPairs, InOrder
<1> QED  BY <1>1, <1>7, <1>8 DEF InPairs, Arrays

(* Recall is measured against a right scan, at every size: the K nodes it  *)
(* finds are different, in order, and none of the others is nearer; and a  *)
(* query that scores in full has answered with nodes none is nearer than.  *)
THEOREM MeasuredRecallIsHonest == Spec => []RecallIsHonest
<1>1. ASSUME TypeOK PROVE RecallIsHonest
  <2> DEFINE truth == bruteTop5
  <2> SUFFICES ASSUME K <= N, Len(out) = K
               PROVE  /\ Distinct(truth) /\ NoneNearer(truth) /\ NearestFirst(truth)
                      /\ (Hits(truth) = K /\ Distinct(out)) => NoneNearer(out)
    BY DEF RecallIsHonest
  <2>1. dist \in [Node -> 0 .. MaxDist] /\ out \in Seq(Node) /\ K \in Nat \ {0} /\ N \in Nat
    BY <1>1, SizeAssumption DEF TypeOK
  <2>2. Kept(Scanned, N)
    BY <2>1, ScannedIsKept
  <2> DEFINE s == Scanned
  <2>3. /\ s.cnt = K /\ s.ids \in [1 .. K -> Node] /\ s.dists \in [1 .. K -> 0 .. MaxDist]
        /\ \A p \in 1 .. K : s.dists[p] = dist[s.ids[p]]
        /\ \A p \in 1 .. K : s.dists[p] <= s.worstD
        /\ \A m \in Node : (\E p \in 1 .. K : s.ids[p] = m) \/ s.worstD <= dist[m]
        /\ s.worstD \in Int
    <3>1. SlotsFilled(s, N) /\ WorstCached(s) /\ NoneNearerLetGo(s, N)
      BY <2>2 DEF Kept
    <3>2. s.cnt = K
      BY <2>1, <3>1 DEF SlotsFilled
    <3>3. /\ s.ids \in [1 .. K -> Node] /\ s.dists \in [1 .. K -> 0 .. MaxDist]
          /\ \A p \in 1 .. K : s.dists[p] = dist[s.ids[p]]
      BY <3>1, <3>2 DEF SlotsFilled
    <3>4. /\ s.worstI \in 1 .. K /\ s.worstD = s.dists[s.worstI]
          /\ \A p \in 1 .. K : s.dists[p] <= s.worstD
      BY <2>1, <3>1, <3>2 DEF WorstCached
    <3>5. s.worstD \in Int
      <4>1. s.worstD \in 0 .. MaxDist
        BY <3>3, <3>4
      <4> QED  BY <4>1
    <3>6. \A m \in Node : (\E p \in 1 .. K : s.ids[p] = m) \/ s.worstD <= dist[m]
      BY <3>1, <3>2 DEF NoneNearerLetGo, Node
    <3> QED  BY <3>2, <3>3, <3>4, <3>5, <3>6
  <2>4. Distinct(s.ids)
    BY <2>2, <2>3 DEF Kept, SlotsFilled, Distinct
  <2>5. NoneNearer(s.ids)
    <3> SUFFICES ASSUME NEW p \in 1 .. K, NEW n \in Node, n \notin Range(s.ids)
                 PROVE  dist[s.ids[p]] <= dist[n]
      BY <2>3 DEF NoneNearer, Range
    <3>1. s.worstD <= dist[n]
      BY <2>3 DEF Range
    <3>2. dist[s.ids[p]] \in Int /\ dist[n] \in Int /\ dist[s.ids[p]] <= s.worstD
      <4>1. s.ids[p] \in Node /\ MaxDist \in Nat
        BY <2>3, SizeAssumption
      <4> QED  BY <4>1, <2>1, <2>3
    <3> QED  BY <2>3, <3>1, <3>2
  <2> HIDE DEF s
  <2>6. /\ truth \in [1 .. K -> Node] /\ Range(truth) = Range(s.ids)
        /\ Distinct(truth) /\ NearestFirst(truth) /\ NoneNearer(truth)
    <3>1. truth = Sorted(s).ids
      BY DEF s, bruteTop5
    <3>2. /\ truth \in [1 .. K -> Node] /\ Range(truth) = Range(s.ids)
          /\ Distinct(truth) /\ NearestFirst(truth)
      BY <3>1, <2>1, <2>3, <2>4, SortedFacts
    <3> QED  BY <3>2, <2>5 DEF NoneNearer
  <2> HIDE DEF truth
  <2>7. ASSUME Hits(truth) = K, Distinct(out) PROVE NoneNearer(out)
    <3>1. DOMAIN out = 1 .. K
      BY <2>1
    <3>2. IsFiniteSet(1 .. K) /\ Cardinality(1 .. K) = K
      BY <2>1, CardinalityUpTo
    <3>3. \A p \in 1 .. K : out[p] \in Range(truth)
      <4> DEFINE H == {p \in 1 .. K : out[p] \in Range(truth)}
      <4>1. Cardinality(H) = K
        BY <2>7, <3>1 DEF Hits
      <4>2. H \in SUBSET (1 .. K)
        OBVIOUS
      <4>3. H = 1 .. K
        <5> HIDE DEF H
        <5> QED  BY <3>2, <4>1, <4>2, FS_Subset
      <4> QED  BY <4>3
    <3> DEFINE R == Range(truth)
    <3>4. IsFiniteSet(R) /\ Cardinality(R) = K
      <4>1. truth \in Bijection(1 .. K, R)
        <5>1. truth \in [1 .. K -> R]
          <6>1. \A p \in 1 .. K : truth[p] \in R
            BY <2>6 DEF Range
          <6> QED  BY <6>1, <2>6
        <5>2. truth \in Injection(1 .. K, R)
          BY <2>6, <5>1 DEF Distinct, Injection, IsInjective
        <5>3. truth \in Surjection(1 .. K, R)
          BY <2>6, <5>1 DEF Surjection, Range
        <5> QED  BY <5>2, <5>3 DEF Bijection
      <4> HIDE DEF R
      <4> QED  BY <3>2, <4>1, FS_Bijection DEF ExistsBijection
    <3>5. out \in Injection(1 .. K, R)
      <4>1. out \in [1 .. K -> R]
        BY <2>1, <3>1, <3>3
      <4> QED  BY <2>7, <3>1, <4>1 DEF Distinct, Injection, IsInjective
    <3> HIDE DEF R
    <3>6. out \in Surjection(1 .. K, R)
      BY <3>2, <3>4, <3>5, FS_Injection
    <3>7. Range(out) = R
      BY <3>1, <3>5, <3>6 DEF Injection, Surjection, Range
    <3> QED  BY <2>6, <3>7 DEF R, NoneNearer
  <2> QED  BY <2>6, <2>7
<1> QED  BY TypeCorrect, <1>1, PTL

-----------------------------------------------------------------------------
(***************************************************************************)
(* A query takes finitely many steps.  Work is what is left of it: the     *)
(* stage it is at and, by stage, the layers below and the distance (a hop  *)
(* of the descent is strictly nearer); the nodes not visited, the          *)
(* candidates, and the neighbours of the one being expanded; the answers   *)
(* to pick.  The first part to change gets smaller.                        *)
(***************************************************************************)
Unseen == Cardinality(Node \ Visited)
Work ==
  IF pc = "descend" THEN <<3, layer, dist[current], 0>>
  ELSE IF pc = "expand" THEN <<2, Unseen, Cardinality(cands), 0>>
  ELSE IF pc = "visit" THEN <<2, Unseen, Cardinality(cands), Len(Neighbors0) + 2 - nbIdx>>
  ELSE IF pc = "pick" THEN <<1, K - Len(out), 0, 0>>
  ELSE <<0, 0, 0, 0>>
Less == LexProductOrdering(OpToRel(<, Nat), Nat, 4)

(* There is no infinite descent in Less. *)
LEMMA LessIsWellFounded == IsWellFoundedOn(Less, [1 .. 4 -> Nat])
<1>1. 4 \in Nat
  OBVIOUS
<1> QED  BY <1>1, NatLessThanWellFounded, WFLexProductOrdering DEF Less

LEMMA FirstIsLess ==
  ASSUME NEW a \in Nat, NEW b \in Nat, NEW c \in Nat, NEW d \in Nat,
         NEW e \in Nat, NEW f \in Nat, NEW h \in Nat, NEW k \in Nat,
         \/ a < e
         \/ a = e /\ b < f
         \/ a = e /\ b = f /\ c < h
         \/ a = e /\ b = f /\ c = h /\ d < k
  PROVE  << <<a, b, c, d>>, <<e, f, h, k>> >> \in Less
<1> DEFINE r == <<a, b, c, d>>
           s == <<e, f, h, k>>
<1>1. r \in [1 .. 4 -> Nat] /\ s \in [1 .. 4 -> Nat]
  OBVIOUS
<1>2. /\ r[1] = a /\ r[2] = b /\ r[3] = c /\ r[4] = d
      /\ s[1] = e /\ s[2] = f /\ s[3] = h /\ s[4] = k
  OBVIOUS
<1> HIDE DEF r, s
<1>3. \E j \in 1 .. 4 : (\A i \in 1 .. j - 1 : r[i] = s[i]) /\ r[j] < s[j]
  <2>1. CASE a < e
    <3>1. (\A i \in 1 .. 1 - 1 : r[i] = s[i]) /\ r[1] < s[1]
      BY <1>2, <2>1
    <3> QED  BY <3>1
  <2>2. CASE a = e /\ b < f
    <3>1. (\A i \in 1 .. 2 - 1 : r[i] = s[i]) /\ r[2] < s[2]
      BY <1>2, <2>2
    <3> QED  BY <3>1
  <2>3. CASE a = e /\ b = f /\ c < h
    <3>1. (\A i \in 1 .. 3 - 1 : r[i] = s[i]) /\ r[3] < s[3]
      <4>1. \A i \in 1 .. 3 - 1 : i = 1 \/ i = 2
        OBVIOUS
      <4> QED  BY <4>1, <1>2, <2>3
    <3> QED  BY <3>1
  <2>4. CASE a = e /\ b = f /\ c = h /\ d < k
    <3>1. (\A i \in 1 .. 4 - 1 : r[i] = s[i]) /\ r[4] < s[4]
      <4>1. \A i \in 1 .. 4 - 1 : i = 1 \/ i = 2 \/ i = 3
        OBVIOUS
      <4> QED  BY <4>1, <1>2, <2>4
    <3> QED  BY <3>1
  <2> QED  BY <2>1, <2>2, <2>3, <2>4
<1>4. PICK j \in 1 .. 4 : (\A i \in 1 .. j - 1 : r[i] = s[i]) /\ r[j] < s[j]
  BY <1>3
<1>5. <<r[j], s[j]>> \in OpToRel(<, Nat)
  <2>1. r[j] \in Nat /\ s[j] \in Nat
    BY <1>1
  <2> QED  BY <1>4, <2>1 DEF OpToRel
<1>6. <<r, s>> \in [1 .. 4 -> Nat] \X [1 .. 4 -> Nat]
  BY <1>1
<1>7. <<r, s>>[1] = r /\ <<r, s>>[2] = s
  OBVIOUS
<1>8. <<r, s>> \in LexProductOrdering(OpToRel(<, Nat), Nat, 4)
  BY <1>4, <1>5, <1>6, <1>7, Zenon DEF LexProductOrdering
<1> QED  BY <1>8 DEF Less, r, s

(* The part that gets smaller may be the first, or another one. *)
LEMMA StageIsLess ==
  ASSUME NEW a \in Nat, NEW b \in Nat, NEW c \in Nat, NEW d \in Nat,
         NEW e \in Nat, NEW f \in Nat, NEW h \in Nat, NEW k \in Nat, a < e
  PROVE  << <<a, b, c, d>>, <<e, f, h, k>> >> \in Less
BY FirstIsLess

LEMMA SecondIsLess ==
  ASSUME NEW a \in Nat, NEW b \in Nat, NEW c \in Nat, NEW d \in Nat,
         NEW f \in Nat, NEW h \in Nat, NEW k \in Nat, b < f
  PROVE  << <<a, b, c, d>>, <<a, f, h, k>> >> \in Less
BY FirstIsLess

LEMMA ThirdIsLess ==
  ASSUME NEW a \in Nat, NEW b \in Nat, NEW c \in Nat, NEW d \in Nat,
         NEW h \in Nat, NEW k \in Nat, c < h
  PROVE  << <<a, b, c, d>>, <<a, b, h, k>> >> \in Less
BY FirstIsLess

LEMMA FourthIsLess ==
  ASSUME NEW a \in Nat, NEW b \in Nat, NEW c \in Nat, NEW d \in Nat, NEW k \in Nat, d < k
  PROVE  << <<a, b, c, d>>, <<a, b, c, k>> >> \in Less
BY FirstIsLess

(* The sizes in Work. *)
LEMMA WorkSizes ==
  ASSUME IInv
  PROVE  /\ Unseen \in Nat /\ Cardinality(cands) \in Nat
         /\ IsFiniteSet(cands) /\ IsFiniteSet(Node \ Visited)
<1>1. IsFiniteSet(Node)
  <2>1. 0 \in Int /\ N - 1 \in Int
    BY SizeAssumption
  <2> QED  BY <2>1, FS_Interval, Zenon DEF Node
<1>2. IsFiniteSet(cands) /\ IsFiniteSet(Node \ Visited)
  <2>1. cands \subseteq Node /\ Node \ Visited \subseteq Node
    BY DEF IInv, TypeOK
  <2> QED  BY <1>1, <2>1, FS_Subset
<1> QED  BY <1>2, FS_CardinalityType DEF Unseen

(* What is left while a query searches: a natural number of neighbours. *)
LEMMA NeighborsLeft ==
  ASSUME IInv, pc = "visit"
  PROVE  Len(Neighbors0) + 2 - nbIdx \in Nat \ {0}
<1>1. nbIdx \in Nat \ {0} /\ nbIdx <= Len(Neighbors0) + 1
  BY DEF IInv, TypeOK, Expanding
<1>2. Len(Neighbors0) \in Nat
  <2>1. g.nbr0[node] \in Seq(Node)
    BY GraphFacts DEF IInv, TypeOK
  <2> QED  BY <2>1, LenProperties DEF Neighbors0
<1> QED  BY <1>1, <1>2

Measured ==
  /\ layer \in Nat /\ dist[current] \in Nat /\ K - Len(out) \in Nat
  /\ Unseen \in Nat /\ Cardinality(cands) \in Nat
  /\ pc = "visit" => Len(Neighbors0) + 2 - nbIdx \in Nat \ {0}

LEMMA MeasuredIs == IInv => Measured
<1> SUFFICES ASSUME IInv PROVE Measured
  OBVIOUS
<1>1. Len(g.upper) \in Nat
  BY GraphFacts DEF IInv
<1>2. layer \in Nat /\ dist[current] \in Nat
  BY <1>1, SizeAssumption DEF IInv, TypeOK
<1>3. K - Len(out) \in Nat
  <2>1. Len(out) \in Nat /\ Len(out) <= K /\ K \in Nat
    BY SizeAssumption, LenProperties DEF IInv, TypeOK
  <2> QED  BY <2>1
<1> QED  BY <1>2, <1>3, WorkSizes, NeighborsLeft DEF Measured

(***************************************************************************)
(* Every query ends: whatever step is taken while one runs, less of it is  *)
(* left.  With the scheduler's fairness that is QueryReturns, and no graph *)
(* or distances, plateaus of equal ones included, make an exception.       *)
(***************************************************************************)
THEOREM QueriesEnd == Spec => [][pc # "idle" => <<Work', Work>> \in Less]_vars
<1>1. ASSUME IInv, IInv', Measured, Measured', pc # "idle", Next
      PROVE  <<Work', Work>> \in Less
  <2>1. /\ Unseen \in Nat /\ Cardinality(cands) \in Nat
        /\ IsFiniteSet(cands) /\ IsFiniteSet(Node \ Visited)
    BY <1>1, WorkSizes
  <2>2. Unseen' \in Nat /\ Cardinality(cands') \in Nat
    BY <1>1 DEF Measured
  <2>3. pc = "visit" => Len(Neighbors0) + 2 - nbIdx \in Nat \ {0}
    BY <1>1 DEF Measured
  <2>4. /\ layer \in Nat /\ layer' \in Nat
        /\ dist[current] \in Nat /\ dist'[current'] \in Nat
        /\ K - Len(out) \in Nat /\ K - Len(out') \in Nat
    BY <1>1 DEF Measured
  <2>5. CASE StartQuery
    BY <1>1, <2>5 DEF StartQuery
  <2>6. CASE DescendHop
    <3>1. /\ pc = "descend" /\ pc' = "descend" /\ layer' = layer /\ dist' = dist
          /\ dist[current'] < dist[current]
      BY <2>6 DEF DescendHop, Closer
    <3>2. Work = <<3, layer, dist[current], 0>> /\ Work' = <<3, layer, dist[current'], 0>>
      BY <3>1 DEF Work
    <3>3. dist[current'] \in Nat
      BY <2>4, <3>1
    <3>4. << <<3, layer, dist[current'], 0>>, <<3, layer, dist[current], 0>> >> \in Less
      BY <2>4, <3>1, <3>3, ThirdIsLess
    <3> QED  BY <3>2, <3>4
  <2>7. CASE DescendLayer
    <3>1. /\ pc = "descend" /\ pc' = "descend" /\ layer' = layer - 1 /\ dist' = dist
          /\ current' = current
      BY <2>7 DEF DescendLayer
    <3>2. Work = <<3, layer, dist[current], 0>> /\ Work' = <<3, layer - 1, dist[current], 0>>
      BY <3>1 DEF Work
    <3>3. << <<3, layer - 1, dist[current], 0>>, <<3, layer, dist[current], 0>> >> \in Less
      <4>1. layer - 1 \in Nat /\ layer - 1 < layer
        BY <2>4, <2>7 DEF DescendLayer
      <4> QED  BY <2>4, <4>1, SecondIsLess
    <3> QED  BY <3>2, <3>3
  <2>8. CASE BeginLayer0
    <3>1. pc = "descend" /\ pc' = "expand"
      BY <2>8 DEF BeginLayer0
    <3>2. Work = <<3, layer, dist[current], 0>> /\ Work' = <<2, Unseen', Cardinality(cands'), 0>>
      BY <3>1 DEF Work
    <3>3. << <<2, Unseen', Cardinality(cands'), 0>>, <<3, layer, dist[current], 0>> >> \in Less
      <4>1. 2 \in Nat /\ 3 \in Nat /\ 0 \in Nat /\ 2 < 3
        OBVIOUS
      <4> QED  BY <2>2, <2>4, <4>1, StageIsLess
    <3> QED  BY <3>2, <3>3
  <2>9. CASE PopCandidate
    <3>1. /\ pc = "expand" /\ pc' = "visit" /\ marks' = marks /\ gen' = gen
      BY <2>9 DEF PopCandidate
    <3>2. PICK c \in cands : cands' = cands \ {c}
      BY <2>9 DEF PopCandidate
    <3>3. Cardinality(cands') = Cardinality(cands) - 1
      BY <2>1, <3>2, FS_RemoveElement
    <3>4. Unseen' = Unseen
      BY <3>1 DEF Unseen, Visited
    <3> DEFINE left == Len(Neighbors0) + 2 - nbIdx
    <3>5. left' \in Nat
      <4>1. left' \in Nat \ {0}
        BY <1>1, <3>1 DEF Measured
      <4> QED  BY <4>1
    <3>6. /\ Work = <<2, Unseen, Cardinality(cands), 0>>
          /\ Work' = <<2, Unseen, Cardinality(cands'), left'>>
      BY <3>1, <3>4 DEF Work
    <3> HIDE DEF left
    <3>7. << <<2, Unseen, Cardinality(cands'), left'>>, <<2, Unseen, Cardinality(cands), 0>> >> \in Less
      <4>1. Cardinality(cands') < Cardinality(cands)
        BY <2>1, <3>3
      <4> QED  BY <2>1, <2>2, <3>5, <4>1, ThirdIsLess
    <3> QED  BY <3>6, <3>7
  <2>10. CASE StopSearch
    <3>1. pc = "expand" /\ pc' = "pick"
      BY <2>10 DEF StopSearch
    <3>2. Work = <<2, Unseen, Cardinality(cands), 0>> /\ Work' = <<1, K - Len(out'), 0, 0>>
      BY <3>1 DEF Work
    <3>3. << <<1, K - Len(out'), 0, 0>>, <<2, Unseen, Cardinality(cands), 0>> >> \in Less
      <4>1. 1 \in Nat /\ 2 \in Nat /\ 0 \in Nat /\ 1 < 2
        OBVIOUS
      <4> QED  BY <2>1, <2>4, <4>1, StageIsLess
    <3> QED  BY <3>2, <3>3
  <2>11. CASE EndOfNeighbors
    <3>1. pc = "visit" /\ pc' = "expand" /\ UNCHANGED <<marks, gen, cands>>
      BY <2>11 DEF EndOfNeighbors
    <3>2. Unseen' = Unseen
      BY <3>1 DEF Unseen, Visited
    <3>3. /\ Work = <<2, Unseen, Cardinality(cands), Len(Neighbors0) + 2 - nbIdx>>
          /\ Work' = <<2, Unseen, Cardinality(cands), 0>>
      BY <3>1, <3>2 DEF Work
    <3>4. << <<2, Unseen, Cardinality(cands), 0>>, <<2, Unseen, Cardinality(cands), Len(Neighbors0) + 2 - nbIdx>> >> \in Less
      <4>1. 0 < Len(Neighbors0) + 2 - nbIdx /\ Len(Neighbors0) + 2 - nbIdx \in Nat
        BY <2>3, <3>1
      <4> QED  BY <2>1, <4>1, FourthIsLess
    <3> QED  BY <3>3, <3>4
  <2>12. CASE SkipVisited
    <3>1. /\ pc = "visit" /\ pc' = "visit" /\ UNCHANGED <<g, marks, gen, cands, node>>
          /\ nbIdx' = nbIdx + 1
      BY <2>12 DEF SkipVisited, AtNeighbor
    <3>2. Unseen' = Unseen /\ Neighbors0' = Neighbors0
      BY <3>1 DEF Unseen, Visited, Neighbors0
    <3> DEFINE left == Len(Neighbors0) + 2 - nbIdx
    <3>3. /\ Work = <<2, Unseen, Cardinality(cands), left>>
          /\ Work' = <<2, Unseen, Cardinality(cands), left'>>
      BY <3>1, <3>2 DEF Work
    <3>4. left' = left - 1 /\ left \in Nat \ {0}
      <4>1. Len(Neighbors0) \in Nat /\ nbIdx \in Nat
        BY <1>1, <2>12, NeighborFacts DEF SkipVisited
      <4> QED  BY <2>3, <3>1, <3>2, <4>1
    <3>5. left' \in Nat /\ left' < left
      BY <3>4
    <3> HIDE DEF left
    <3>6. << <<2, Unseen, Cardinality(cands), left'>>, <<2, Unseen, Cardinality(cands), left>> >> \in Less
      BY <2>1, <3>4, <3>5, FourthIsLess
    <3> QED  BY <3>3, <3>6
  <2>13. CASE Visit
    <3>1. VisitNew
      BY <2>13 DEF Visit, AdmitWithRoom, ReplaceWorst, RejectFar
    <3>2. /\ Neighbor \in Node /\ Neighbor \notin Visited
          /\ Visited' = Visited \cup {Neighbor} /\ pc = "visit" /\ pc' = "visit"
      <4>1. TypeOK'
        BY <1>1 DEF IInv
      <4> QED  BY <1>1, <3>1, <4>1, VisitFacts
    <3>3. Unseen' = Unseen - 1
      <4>1. Node \ Visited' = (Node \ Visited) \ {Neighbor} /\ Neighbor \in Node \ Visited
        BY <3>2
      <4>2. Cardinality((Node \ Visited) \ {Neighbor}) = Cardinality(Node \ Visited) - 1
        BY <2>1, <4>1, FS_RemoveElement
      <4>3. Unseen' = Cardinality(Node \ Visited')
        BY DEF Unseen, Node
      <4> QED  BY <4>1, <4>2, <4>3 DEF Unseen
    <3> DEFINE left == Len(Neighbors0) + 2 - nbIdx
    <3>4. left \in Nat /\ left' \in Nat
      <4>1. left' \in Nat \ {0}
        BY <1>1, <3>2 DEF Measured
      <4> QED  BY <2>3, <3>2, <4>1
    <3>5. /\ Work = <<2, Unseen, Cardinality(cands), left>>
          /\ Work' = <<2, Unseen', Cardinality(cands'), left'>>
      BY <3>2 DEF Work
    <3>6. Unseen' < Unseen
      BY <2>1, <3>3
    <3> HIDE DEF left
    <3>7. << <<2, Unseen', Cardinality(cands'), left'>>, <<2, Unseen, Cardinality(cands), left>> >> \in Less
      BY <2>1, <2>2, <3>4, <3>6, SecondIsLess
    <3> QED  BY <3>5, <3>7
  <2>14. CASE PickNearest \/ PickPadding
    <3>1. /\ pc = "pick" /\ pc' = "pick" /\ Len(out') = Len(out) + 1 /\ Len(out) \in Nat
      <4>1. out \in Seq(Node)
        BY <1>1 DEF IInv, TypeOK
      <4>2. pc = "pick" /\ pc' = "pick" /\ \E a : out' = Append(out, a)
        BY <2>14 DEF PickNearest, PickPadding
      <4>3. \A a : Len(Append(out, a)) = Len(out) + 1
        BY <4>1
      <4> QED  BY <4>1, <4>2, <4>3, LenProperties
    <3>2. Work = <<1, K - Len(out), 0, 0>> /\ Work' = <<1, K - Len(out'), 0, 0>>
      BY <3>1 DEF Work
    <3>3. << <<1, K - Len(out'), 0, 0>>, <<1, K - Len(out), 0, 0>> >> \in Less
      <4>1. K - Len(out') < K - Len(out)
        BY <2>4, <3>1, SizeAssumption
      <4> QED  BY <2>4, <4>1, SecondIsLess
    <3> QED  BY <3>2, <3>3
  <2>15. CASE Return
    <3>1. pc = "pick" /\ pc' = "idle"
      BY <2>15 DEF Return
    <3>2. Work = <<1, K - Len(out), 0, 0>> /\ Work' = <<0, 0, 0, 0>>
      BY <3>1 DEF Work
    <3>3. << <<0, 0, 0, 0>>, <<1, K - Len(out), 0, 0>> >> \in Less
      <4>1. 1 \in Nat /\ 0 \in Nat /\ 0 < 1
        OBVIOUS
      <4> QED  BY <2>4, <4>1, StageIsLess
    <3> QED  BY <3>2, <3>3
  <2> QED
    BY <1>1, <2>5, <2>6, <2>7, <2>8, <2>9, <2>10, <2>11, <2>12, <2>13, <2>14, <2>15
       DEF Next, Step
<1>2. IInv /\ IInv' /\ Measured /\ Measured' /\ [Next]_vars =>
        [pc # "idle" => <<Work', Work>> \in Less]_vars
  BY <1>1
<1> QED  BY <1>2, MeasuredIs, Invariance, PTL DEF Spec
=============================================================================
