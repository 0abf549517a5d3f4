---------------------------- MODULE NearestQueue ----------------------------
(***************************************************************************)
(* What a search asks of its candidates: a set of nodes to which it adds   *)
(* nodes, and from which it takes a nearest one.                           *)
(***************************************************************************)
EXTENDS Integers

CONSTANTS Node, None

VARIABLES
  dist,   \* the distance of every node to the query
  queue,  \* nodes added and not yet taken
  taken   \* the node taken last
vars == <<dist, queue, taken>>

Init == dist \in [Node -> Nat] /\ queue = {} /\ taken = None

Add ==
  /\ \E n \in Node \ queue : queue' = queue \cup {n}
  /\ UNCHANGED <<dist, taken>>

Take ==
  /\ \E n \in queue :
       /\ \A other \in queue : dist[n] <= dist[other]
       /\ taken' = n /\ queue' = queue \ {n}
  /\ UNCHANGED dist

(* Another search starts: what the last one left is thrown away. *)
Empty == queue' = {} /\ taken' = None /\ UNCHANGED dist

Next == Add \/ Take \/ Empty

Spec == Init /\ [][Next]_vars
=============================================================================
