--------------------------- MODULE CandidateHeap ---------------------------
(***************************************************************************)
(* The binary min-heap of the query's candidates, written by hand in       *)
(* internal/hnsw/query.go: pushMin sifts the new item up from the end, and *)
(* popMin puts the last item at the root and sifts it down.  Each step of  *)
(* a sift is a step here, so that what holds between two swaps is stated   *)
(* as well as what holds between two operations.                           *)
(*                                                                         *)
(* A search pushes a node at most once (marks), and the distance of a      *)
(* distItem is that of its node, so that an item is a node.                *)
(***************************************************************************)
EXTENDS Integers, Sequences

CONSTANTS
  Node,      \* nodes of the graph
  Distances, \* Dist of a node to the query
  None

ASSUME HeapAssumption == Distances \subseteq Nat /\ None \notin Node

VARIABLES
  dist,   \* the distances to the query being answered
  h,      \* slot.cands
  i,      \* the index of the item being sifted
  pc,     \* the loop that is running
  taken   \* the item read from h[0] before the last popMin

vars == <<dist, h, i, pc, taken>>

(* Indices count from 0, as in the code. *)
Index == 0 .. Len(h) - 1
At(k) == h[k + 1]
D(k) == dist[At(k)]
Swap(s, j, k) == [s EXCEPT ![j + 1] = s[k + 1], ![k + 1] = s[j + 1]]
Parent(k) == (k - 1) \div 2
Left(k) == 2 * k + 1
Right(k) == 2 * k + 2
Items == {At(k) : k \in Index}

Init ==
  /\ dist \in [Node -> Distances]
  /\ h = << >> /\ i = 0 /\ pc = "ready" /\ taken = None

PushPastEnd ==  \* mutant: the index is the new length
  /\ pc = "ready"
  /\ \E n \in Node \ Items : h' = Append(h, n)
  /\ i' = Len(h) + 1 /\ pc' = "up"
  /\ UNCHANGED <<dist, taken>>

(* pushMin: append, then swap with the parent while that is farther. *)
Push ==
  /\ pc = "ready"
  /\ \E n \in Node \ Items : h' = Append(h, n)
  /\ i' = Len(h) /\ pc' = "up"
  /\ UNCHANGED <<dist, taken>>

SiftUpInPlace ==  \* mutant: ties are swapped, and the index stays
  /\ pc = "up" /\ i > 0
  /\ D(Parent(i)) >= D(i)
  /\ h' = Swap(h, Parent(i), i)
  /\ UNCHANGED <<dist, i, pc, taken>>

SiftUp ==
  /\ pc = "up" /\ i > 0
  /\ D(Parent(i)) > D(i)
  /\ h' = Swap(h, Parent(i), i) /\ i' = Parent(i)
  /\ UNCHANGED <<dist, pc, taken>>

EndUpEarly ==  \* mutant: the loop runs while i > 1
  /\ pc = "up"
  /\ i > 1 => D(Parent(i)) <= D(i)
  /\ i' = 0 /\ pc' = "ready"
  /\ UNCHANGED <<dist, h, taken>>

EndUp ==
  /\ pc = "up"
  /\ i > 0 => D(Parent(i)) <= D(i)
  /\ i' = 0 /\ pc' = "ready"
  /\ UNCHANGED <<dist, h, taken>>

(* popMin: the last item replaces the root, which the caller has read. *)
Pop ==
  /\ pc = "ready" /\ h # << >>
  /\ taken' = At(0)
  /\ h' = IF Len(h) <= 1 THEN << >>
          ELSE [SubSeq(h, 1, Len(h) - 1) EXCEPT ![1] = h[Len(h)]]
  /\ i' = 0 /\ pc' = IF Len(h) <= 1 THEN "ready" ELSE "down"
  /\ UNCHANGED dist

LeftOnly(k) == Left(k)  \* mutant: the right child is forgotten
Smallest(k) ==
  IF Right(k) < Len(h) /\ D(Right(k)) < D(Left(k)) THEN Right(k) ELSE Left(k)

SiftDown ==
  /\ pc = "down" /\ Left(i) < Len(h)
  /\ D(i) > D(Smallest(i))
  /\ h' = Swap(h, i, Smallest(i)) /\ i' = Smallest(i)
  /\ UNCHANGED <<dist, pc, taken>>

EndDown ==
  /\ pc = "down"
  /\ Left(i) < Len(h) => D(i) <= D(Smallest(i))
  /\ i' = 0 /\ pc' = "ready"
  /\ UNCHANGED <<dist, h, taken>>

(***************************************************************************)
(* searchLayer0Fast starts by emptying the heap.  The distances stay: the  *)
(* next query, with others, is another initial state.                      *)
(***************************************************************************)
Clear ==
  /\ pc = "ready" /\ h # << >>
  /\ h' = << >> /\ taken' = None
  /\ UNCHANGED <<dist, i, pc>>

Sift == SiftUp \/ EndUp \/ SiftDown \/ EndDown
Next == Push \/ Pop \/ Clear \/ Sift

(* A loop that runs is not left before it ends. *)
Spec == Init /\ [][Next]_vars /\ WF_vars(Sift)

-----------------------------------------------------------------------------
TypeOK ==
  /\ dist \in [Node -> Distances]
  /\ h \in Seq(Node)
  /\ i \in 0 .. Len(h) /\ pc \in {"ready", "up", "down"}
  /\ pc # "ready" => i \in Index
  /\ taken \in Node \cup {None}

(* The item at j is no farther than the item at k. *)
NoFarther(j, k) == D(j) <= D(k)

(***************************************************************************)
(* Between operations the heap is ordered: no item is farther than its     *)
(* children.  While an item is sifted up, only it may be nearer than its   *)
(* parent; while one is sifted down, only it may be farther than its       *)
(* children; and in both cases its parent is no farther than its children, *)
(* which is why the next swap repairs one pair and breaks at most one.     *)
(***************************************************************************)
HeapOrdered ==
  /\ \A k \in Index \ {0} :
       \/ NoFarther(Parent(k), k)
       \/ pc = "up" /\ k = i
       \/ pc = "down" /\ Parent(k) = i
  /\ pc # "ready" /\ i > 0 =>
       \A k \in Index \ {0} : Parent(k) = i => NoFarther(Parent(i), k)

(***************************************************************************)
(* The heap implements a queue of nearest nodes: no operation loses or     *)
(* duplicates a node, and the root the caller reads before popMin is one   *)
(* of the nearest.                                                         *)
(***************************************************************************)
Queue == INSTANCE NearestQueue WITH queue <- Items
ImplementsQueue == Queue!Spec

(* Each operation ends: a sift reaches the root or the leaves. *)
SiftsEnd == pc # "ready" ~> pc = "ready"
=============================================================================
