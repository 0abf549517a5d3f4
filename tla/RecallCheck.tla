---------------------------- MODULE RecallCheck ----------------------------
(***************************************************************************)
(* The recall cmd/build-index measures before it calls an index good       *)
(* (internal/buildindex/buildindex.go): the answers of a query are         *)
(* compared with those of a scan over all nodes.  The index is shipped on  *)
(* the word of this scan, and nothing else checks the search at full size. *)
(***************************************************************************)
EXTENDS QueryFast5, FiniteSets

(***************************************************************************)
(* bruteTop5 takes the nodes in order into two arrays of K slots, ids and  *)
(* dists.  The first cnt are filled; worstI is the slot of the farthest of *)
(* them and worstD its distance, kept from one node to the next.  (Slots   *)
(* count from 1.)                                                          *)
(***************************************************************************)
Nothing == [ids |-> [p \in 1 .. K |-> 0], dists |-> [p \in 1 .. K |-> 0],
            cnt |-> 0, worstD |-> 0, worstI |-> 1]

(* The first slot of the greatest distance: a later one is taken for > only. *)
IsWorst(dists, p) ==
  \A q \in 1 .. K : dists[p] > dists[q] \/ (dists[p] = dists[q] /\ p <= q)

Filled(s, n) ==
  LET worse == s.cnt = 0 \/ dist[n] > s.worstD
  IN  [ids |-> [s.ids EXCEPT ![s.cnt + 1] = n],
       dists |-> [s.dists EXCEPT ![s.cnt + 1] = dist[n]],
       cnt |-> s.cnt + 1,
       worstD |-> IF worse THEN dist[n] ELSE s.worstD,
       worstI |-> IF worse THEN s.cnt + 1 ELSE s.worstI]

Replaced(s, n) ==
  LET dists == [s.dists EXCEPT ![s.worstI] = dist[n]]
      worst == CHOOSE p \in 1 .. K : IsWorst(dists, p)
  IN  [ids |-> [s.ids EXCEPT ![s.worstI] = n], dists |-> dists, cnt |-> s.cnt,
       worstD |-> dists[worst], worstI |-> worst]

KeepWithStaleWorst(s, n) ==  \* mutant: the worst is not looked for again
  IF s.cnt < K THEN Filled(s, n)
  ELSE IF dist[n] < s.worstD
  THEN [Replaced(s, n) EXCEPT !.worstD = dist[n], !.worstI = s.worstI]
  ELSE s

Keep(s, n) ==
  IF s.cnt < K THEN Filled(s, n)
  ELSE IF dist[n] < s.worstD THEN Replaced(s, n) ELSE s

(* scan[n] is what is kept when the nodes below n have been seen. *)
Scanned ==
  LET scan[n \in 0 .. N] == IF n = 0 THEN Nothing ELSE Keep(scan[n - 1], n - 1)
  IN  scan[N]

(***************************************************************************)
(* The insertion sort of the two arrays.  One turn of the inner loop moves *)
(* the entry at slot j past a farther one; once the loop has stopped, a    *)
(* turn changes nothing, so the i - 1 turns it can take are enough.        *)
(***************************************************************************)
Swap(a, i, j) == [a EXCEPT ![i] = a[j], ![j] = a[i]]
Turn(s) ==
  IF s.j > 1 /\ s.dists[s.j - 1] > s.dists[s.j]
  THEN [ids |-> Swap(s.ids, s.j - 1, s.j), dists |-> Swap(s.dists, s.j - 1, s.j),
        j |-> s.j - 1]
  ELSE s
Inserted(s, i) ==
  LET turned[t \in 0 .. i - 1] == IF t = 0 THEN [s EXCEPT !.j = i] ELSE Turn(turned[t - 1])
  IN  turned[i - 1]
Sorted(s) ==
  LET sorted[i \in 1 .. K] ==
        IF i = 1 THEN [ids |-> s.ids, dists |-> s.dists, j |-> 1]
        ELSE Inserted(sorted[i - 1], i)
  IN  sorted[K]
bruteTop5 == Sorted(Scanned).ids

(* MeasureRecallAt5 counts the answers that are among the true ones. *)
Hits(truth) == Cardinality({p \in DOMAIN out : out[p] \in Range(truth)})

(***************************************************************************)
(* The yardstick is right, on every distribution of distances: the scan    *)
(* finds K different nodes, nearest first, and no other node is nearer     *)
(* than any of them; and a query of which every answer counts as a hit has *)
(* answered with nodes none is nearer than.  (A padded answer, node 0 more *)
(* than once, may count without having been found.)  With fewer than K     *)
(* nodes there is nothing to measure: node 0 fills the slots left over.    *)
(***************************************************************************)
Distinct(ids) == \A i, j \in DOMAIN ids : ids[i] = ids[j] => i = j
NoneNearer(ids) == \A t \in Range(ids) : \A n \in Node \ Range(ids) : dist[t] <= dist[n]
NearestFirst(ids) == \A p \in 1 .. K - 1 : dist[ids[p]] <= dist[ids[p + 1]]
RecallIsHonest ==
  (K <= N /\ pc = "pick" /\ Len(out) = K) =>
    LET truth == bruteTop5
    IN  /\ Distinct(truth) /\ NoneNearer(truth) /\ NearestFirst(truth)
        /\ (Hits(truth) = K /\ Distinct(out)) => NoneNearer(out)
=============================================================================
