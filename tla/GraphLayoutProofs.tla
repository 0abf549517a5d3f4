------------------------- MODULE GraphLayoutProofs -------------------------
(***************************************************************************)
(* Proofs about GraphLayout, for any number of nodes and layers and any    *)
(* links: Finalize packs every layer so that the binary search finds what  *)
(* the builder's maps have, the walk of Reorder gives every id once and    *)
(* numbers nearer nodes first, and the permuted arrays are those of the    *)
(* original under the new ids.                                             *)
(***************************************************************************)
EXTENDS GraphLayout, FiniteSetTheorems, SequenceTheorems, WellFoundedInduction, TLAPS

-----------------------------------------------------------------------------
(* The inductive invariant.  The arrays of the nodes are the builder's     *)
(* until they are permuted.                                                *)
Shape ==
  /\ built \in Built
  /\ stage # "done" =>
       g = [vectors |-> [n \in Node |-> n], conn0 |-> built.conn0, fraud |-> built.fraud,
            upperOff |-> g.upperOff, upperNodes |-> g.upperNodes, upperConn |-> g.upperConn,
            entry |-> built.entry]

(* Numbers are given one after the other, each to one node; those that     *)
(* the walk has given are the positions in its queue.                      *)
Numbering ==
  /\ \A n \in Node : oldToNew[n] # None => oldToNew[n] \in 0 .. next - 1
  /\ \A m, n \in Node : oldToNew[m] # None /\ oldToNew[m] = oldToNew[n] => m = n
  /\ \A k \in 0 .. next - 1 : \E n \in Node : oldToNew[n] = k
InQueue(n) == \E j \in 1 .. Len(queue) : queue[j] = n
InOrder ==
  /\ \A j \in 1 .. Len(queue) : oldToNew[queue[j]] = j - 1
  /\ Len(queue) <= next
Progress ==
  /\ stage \in {"finalize", "start"} => queue = << >> /\ head = 0 /\ next = 0
  /\ stage \in {"walk", "done"} => queue # << >> /\ queue[1] = built.entry
  /\ stage = "walk" /\ head < Len(queue) => next = Len(queue)
  /\ stage = "done" => head = Len(queue) /\ \A n \in Node : oldToNew[n] # None

(* The queue is in the order of the distances and spans at most two of     *)
(* them; the neighbours of the visited nodes are in it, and so are all     *)
(* nodes that are no farther than the current one.                         *)
Breadth(d) ==
  /\ \A j \in 1 .. Len(queue) : d[queue[j]] < N
  /\ \A i, j \in 1 .. Len(queue) : i < j => d[queue[i]] <= d[queue[j]]
  /\ \A i \in 1 .. head : \A n \in Node : LinksTo(queue[i], n) => InQueue(n)
  /\ head < Len(queue) =>
       /\ \A j \in 1 .. Len(queue) : d[queue[j]] <= d[queue[head + 1]] + 1
       /\ \A n \in Node : d[n] <= d[queue[head + 1]] => InQueue(n)
       /\ \A s \in DOMAIN built.conn0[queue[head + 1]] :
            s <= seen => InQueue(built.conn0[queue[head + 1]][s])
BreadthFirst == stage \in {"walk", "done"} => \A d \in Distances : Breadth(d)

Renaming == stage = "done" => NodesRenamed

IInv == TypeOK /\ Shape /\ Numbering /\ InOrder /\ Progress /\ BreadthFirst /\ Renaming

-----------------------------------------------------------------------------
LEMMA Smallest ==
  ASSUME NEW S \in SUBSET Nat, S # {}
  PROVE  \E x \in S : \A y \in S : x <= y
<1>1. PICK x \in S : \A y \in S : ~ (<<y, x>> \in OpToRel(<, Nat))
  BY NatLessThanWellFounded, WFMin
<1>2. \A y \in S : ~ (y < x)
  BY <1>1 DEF OpToRel
<1> QED  BY <1>2

LEMMA NodesAreFinite == IsFiniteSet(Node) /\ Cardinality(Node) = N
<1>1. N \in Nat /\ N >= 1 /\ N - 1 \in Int
  BY LayoutAssumption
<1> QED  BY <1>1, FS_Interval DEF Node

LEMMA BuiltFacts ==
  ASSUME built \in Built
  PROVE  /\ built.conn0 \in [Node -> Seq(Node)] /\ built.entry \in Node
         /\ built.fraud \subseteq Node
BY LayoutAssumption

(* As many numbers are given as there are nodes that have one. *)
LEMMA NextCounts ==
  ASSUME TypeOK, Numbering
  PROVE  next = Cardinality({n \in Node : oldToNew[n] # None})
<1> DEFINE S == {n \in Node : oldToNew[n] # None}
           f == [n \in S |-> oldToNew[n]]
<1>1. next \in Nat
  BY LayoutAssumption DEF TypeOK
<1>2. f \in [S -> 0 .. next - 1]
  BY DEF Numbering
<1>3. f \in Injection(S, 0 .. next - 1)
  BY <1>2 DEF Numbering, Injection, IsInjective
<1>4. \A k \in 0 .. next - 1 : \E n \in S : f[n] = k
  <2> TAKE k \in 0 .. next - 1
  <2>1. PICK n \in Node : oldToNew[n] = k
    BY DEF Numbering
  <2>2. k \in Node
    BY <1>1, LayoutAssumption DEF TypeOK, Node
  <2>3. n \in S
    BY <2>1, <2>2, LayoutAssumption
  <2> QED  BY <2>1, <2>3
<1>5. f \in Surjection(S, 0 .. next - 1)
  BY <1>2, <1>4 DEF Surjection
<1>6. IsFiniteSet(S)
  BY NodesAreFinite, FS_Subset
<1>7. IsFiniteSet(0 .. next - 1) /\ Cardinality(0 .. next - 1) = next
  <2>1. 0 \in Int /\ next - 1 \in Int
    BY <1>1
  <2> QED  BY <2>1, <1>1, FS_Interval
<1>8. Cardinality(0 .. next - 1) = Cardinality(S)
  BY <1>3, <1>5, <1>6, FS_Surjection
<1> QED  BY <1>7, <1>8

(* So there is a number for a node that has none, and none is left over. *)
LEMMA RoomForOneMore ==
  ASSUME TypeOK, Numbering, NEW n \in Node, oldToNew[n] = None
  PROVE  next \in Node
<1> DEFINE S == {m \in Node : oldToNew[m] # None}
<1>1. Cardinality(S) = N => S = Node
  <2>1. S \in SUBSET Node
    OBVIOUS
  <2> QED  BY <2>1, NodesAreFinite, FS_Subset
<1>2. n \notin S
  OBVIOUS
<1>3. next = Cardinality(S) /\ next # N
  BY <1>1, <1>2, NextCounts
<1>4. N \in Nat /\ next \in 0 .. N
  BY LayoutAssumption DEF TypeOK
<1> QED  BY <1>3, <1>4 DEF Node

LEMMA AllNumbered ==
  ASSUME TypeOK, Numbering, \A n \in Node : oldToNew[n] # None
  PROVE  next = N
<1>1. {n \in Node : oldToNew[n] # None} = Node
  OBVIOUS
<1> QED  BY <1>1, NextCounts, NodesAreFinite

(* While nodes wait in the queue, those with a number are those in it. *)
LEMMA NumberedAreQueued ==
  ASSUME TypeOK, Numbering, InOrder, next = Len(queue), NEW n \in Node
  PROVE  oldToNew[n] # None <=> InQueue(n)
<1>1. ASSUME oldToNew[n] # None PROVE InQueue(n)
  <2>1. oldToNew[n] \in 0 .. Len(queue) - 1
    BY <1>1 DEF Numbering
  <2>2. oldToNew[n] + 1 \in 1 .. Len(queue) /\ queue[oldToNew[n] + 1] \in Node
    BY <2>1 DEF TypeOK
  <2>3. oldToNew[queue[oldToNew[n] + 1]] = oldToNew[n]
    BY <2>1, <2>2 DEF InOrder
  <2>4. queue[oldToNew[n] + 1] = n
    BY <1>1, <2>2, <2>3 DEF Numbering
  <2> QED  BY <2>2, <2>4 DEF InQueue
<1>2. ASSUME InQueue(n) PROVE oldToNew[n] # None
  <2>1. PICK j \in 1 .. Len(queue) : queue[j] = n
    BY <1>2 DEF InQueue
  <2>2. oldToNew[n] \in 0 .. next - 1
    BY <2>1 DEF InOrder, TypeOK
  <2>3. oldToNew[n] \in Node
    BY <2>2, LayoutAssumption DEF TypeOK, Node
  <2> QED  BY <2>3, LayoutAssumption
<1> QED  BY <1>1, <1>2
(* What giving a number to a node that has none does. *)
LEMMA NumberGiven ==
  ASSUME TypeOK, Numbering, NEW n \in Node, Unnumbered(n), Number(n)
  PROVE  /\ oldToNew' \in [Node -> Node \cup {None}] /\ next' \in 0 .. N
         /\ next' = next + 1 /\ oldToNew'[n] = next
         /\ \A m \in Node : m # n => oldToNew'[m] = oldToNew[m]
         /\ Numbering'
<1>1. next \in Node /\ next \in Nat /\ N \in Nat
  BY RoomForOneMore, LayoutAssumption DEF Unnumbered, TypeOK
<1>2. next' = next + 1 /\ next' \in 0 .. N
  BY <1>1 DEF Number, Node
<1>3. /\ oldToNew' \in [Node -> Node \cup {None}] /\ oldToNew'[n] = next
      /\ \A m \in Node : m # n => oldToNew'[m] = oldToNew[m]
  BY <1>1 DEF Number, TypeOK
<1>4. \A m \in Node : oldToNew'[m] # None => oldToNew'[m] \in 0 .. next' - 1
  BY <1>1, <1>2, <1>3 DEF Numbering
<1>5. \A l, m \in Node : oldToNew'[l] # None /\ oldToNew'[l] = oldToNew'[m] => l = m
  <2> SUFFICES ASSUME NEW l \in Node, NEW m \in Node,
                      oldToNew'[l] # None, oldToNew'[l] = oldToNew'[m]
               PROVE  l = m
    OBVIOUS
  <2>1. \A k \in Node : k # n /\ oldToNew'[k] # None => oldToNew'[k] # next
    BY <1>1, <1>3 DEF Numbering
  <2>2. CASE l = n \/ m = n
    BY <2>1, <2>2, <1>3
  <2>3. CASE l # n /\ m # n
    BY <2>3, <1>3 DEF Numbering
  <2> QED  BY <2>2, <2>3
<1>6. \A k \in 0 .. next' - 1 : \E m \in Node : oldToNew'[m] = k
  <2> TAKE k \in 0 .. next' - 1
  <2>1. CASE k = next
    BY <2>1, <1>3
  <2>2. CASE k # next
    <3>1. k \in 0 .. next - 1
      BY <2>2, <1>1, <1>2
    <3>2. PICK m \in Node : oldToNew[m] = k
      BY <3>1 DEF Numbering
    <3>3. k \in Node
      BY <3>1, <1>1 DEF Node
    <3>4. m # n
      BY <3>2, <3>3, LayoutAssumption DEF Unnumbered
    <3> QED  BY <3>2, <3>4, <1>3
  <2> QED  BY <2>1, <2>2
<1> QED  BY <1>2, <1>3, <1>4, <1>5, <1>6 DEF Numbering

-----------------------------------------------------------------------------
(* Counting and sorting: a set of ids has one ascending enumeration, and   *)
(* what Finalize and sortUpperLayer sort into is that.                     *)
LEMMA SetsOfNodes ==
  ASSUME NEW S \in SUBSET Node
  PROVE  /\ IsFiniteSet(S) /\ Cardinality(S) \in Nat
         /\ \A T \in SUBSET S : T # S => Cardinality(T) < Cardinality(S)
<1>1. IsFiniteSet(S)
  BY NodesAreFinite, FS_Subset
<1>2. \A T \in SUBSET S :
        /\ IsFiniteSet(T) /\ Cardinality(T) <= Cardinality(S)
        /\ Cardinality(S) = Cardinality(T) => S = T
  BY <1>1, FS_Subset
<1>3. Cardinality(S) \in Nat /\ \A T \in SUBSET S : Cardinality(T) \in Nat
  BY <1>1, <1>2, FS_CardinalityType
<1> QED  BY <1>1, <1>2, <1>3

LEMMA Positions ==
  ASSUME NEW c \in Nat
  PROVE  IsFiniteSet(0 .. c - 1) /\ Cardinality(0 .. c - 1) = c
<1>1. 0 \in Int /\ c - 1 \in Int
  OBVIOUS
<1> QED  BY <1>1, FS_Interval

LEMMA AscendingFacts ==
  ASSUME NEW S \in SUBSET Node
  PROVE  LET c == Cardinality(S)
             s == Ascending(S)
         IN  /\ c \in Nat /\ s \in [0 .. c - 1 -> S]
             /\ \A i, j \in 0 .. c - 1 : i < j => s[i] < s[j]
             /\ \A n \in S : \E i \in 0 .. c - 1 : s[i] = n
<1> DEFINE c == Cardinality(S)
           below(n) == {m \in S : m < n}
           rank == [n \in S |-> Cardinality(below(n))]
           enum == [i \in 0 .. c - 1 |-> CHOOSE n \in S : rank[n] = i]
<1>1. IsFiniteSet(S) /\ c \in Nat /\ IsFiniteSet(0 .. c - 1) /\ Cardinality(0 .. c - 1) = c
  BY SetsOfNodes, Positions
<1>2. \A n \in S : n \in Int
  BY LayoutAssumption DEF Node
<1>3. \A n \in S : rank[n] \in 0 .. c - 1
  <2> TAKE n \in S
  <2>1. below(n) \in SUBSET S /\ below(n) # S /\ below(n) \in SUBSET Node
    BY <1>2
  <2>2. Cardinality(below(n)) < c /\ Cardinality(below(n)) \in Nat
    BY <2>1, SetsOfNodes
  <2> QED  BY <2>2, <1>1
<1>4. \A m, n \in S : m < n => rank[m] < rank[n]
  <2> SUFFICES ASSUME NEW m \in S, NEW n \in S, m < n PROVE rank[m] < rank[n]
    OBVIOUS
  <2>1. below(m) \in SUBSET below(n) /\ m \in below(n) /\ m \notin below(m)
    BY <1>2
  <2>2. below(n) \in SUBSET Node
    OBVIOUS
  <2>3. Cardinality(below(m)) < Cardinality(below(n))
    BY <2>1, <2>2, SetsOfNodes
  <2> QED  BY <2>3
<1> HIDE DEF rank
<1>5. rank \in [S -> 0 .. c - 1]
  BY <1>3 DEF rank
<1>6. rank \in Injection(S, 0 .. c - 1)
  <2>1. \A m, n \in S : rank[m] = rank[n] => m = n
    BY <1>2, <1>3, <1>4
  <2> QED  BY <1>5, <2>1 DEF Injection, IsInjective
<1>7. \A i \in 0 .. c - 1 : \E n \in S : rank[n] = i
  <2>1. rank \in Surjection(S, 0 .. c - 1)
    BY <1>1, <1>6, FS_Injection
  <2> QED  BY <2>1 DEF Surjection
<1>8. enum \in [Upto(c) -> S] /\ \A i \in 0 .. c - 1 : rank[enum[i]] = i
  BY <1>7 DEF Upto
<1> HIDE DEF enum
<1>9. \A i, j \in DOMAIN enum : i < j => enum[i] < enum[j]
  <2> SUFFICES ASSUME NEW i \in 0 .. c - 1, NEW j \in 0 .. c - 1, i < j
               PROVE  enum[i] < enum[j]
    BY <1>8 DEF Upto
  <2>1. enum[i] \in S /\ enum[j] \in S /\ rank[enum[i]] = i /\ rank[enum[j]] = j
    BY <1>8 DEF Upto
  <2>2. ~ (enum[j] < enum[i]) /\ enum[i] # enum[j]
    BY <1>1, <1>4, <2>1
  <2> QED  BY <1>2, <2>1, <2>2
<1>10. /\ Ascending(S) \in [Upto(c) -> S]
       /\ \A i, j \in DOMAIN Ascending(S) : i < j => Ascending(S)[i] < Ascending(S)[j]
  BY <1>8, <1>9 DEF Ascending
<1>11. /\ Ascending(S) \in [0 .. c - 1 -> S]
       /\ \A i, j \in 0 .. c - 1 : i < j => Ascending(S)[i] < Ascending(S)[j]
  BY <1>10 DEF Upto
<1>12. Ascending(S) \in Injection(0 .. c - 1, S)
  <2>1. \A i, j \in 0 .. c - 1 : Ascending(S)[i] = Ascending(S)[j] => i = j
    <3> SUFFICES ASSUME NEW i \in 0 .. c - 1, NEW j \in 0 .. c - 1,
                        Ascending(S)[i] = Ascending(S)[j]
                 PROVE  ~ (i < j) /\ ~ (j < i)
      BY <1>1
    <3>1. Ascending(S)[i] \in Int
      BY <1>2, <1>11
    <3> QED  BY <3>1, <1>11
  <2> QED  BY <1>11, <2>1 DEF Injection, IsInjective
<1>13. \A n \in S : \E i \in 0 .. c - 1 : Ascending(S)[i] = n
  BY <1>1, <1>12, FS_Injection DEF Surjection
<1> QED  BY <1>1, <1>11, <1>13

(***************************************************************************)
(* The offsets are defined by recursion over the layers; the definition    *)
(* makes sense because no shortest part of it fails to.                    *)
(***************************************************************************)
OffsetRule(layers, f, n) ==
  f = [L \in 0 .. n |-> IF L = 0 THEN 0 ELSE f[L - 1] + Cardinality(DOMAIN layers[L])]

LEMMA OffsetsExist ==
  ASSUME NEW layers, NEW n \in Nat
  PROVE  \E f : OffsetRule(layers, f, n)
<1> DEFINE Bad == {m \in Nat : ~ \E f : OffsetRule(layers, f, m)}
<1> SUFFICES ASSUME n \in Bad PROVE FALSE
  OBVIOUS
<1>1. PICK m \in Bad : \A k \in Bad : m <= k
  BY Smallest
<1>2. m # 0
  <2> SUFFICES OffsetRule(layers, [L \in 0 .. 0 |-> 0], 0)
    BY <1>1
  <2> QED  BY DEF OffsetRule
<1>3. m - 1 \in Nat /\ m - 1 \notin Bad
  BY <1>1, <1>2
<1>4. PICK f : OffsetRule(layers, f, m - 1)
  BY <1>3
<1> DEFINE h == [L \in 0 .. m |-> IF L < m THEN f[L]
                                  ELSE f[m - 1] + Cardinality(DOMAIN layers[m])]
<1>5. \A L \in 0 .. m : h[L] = IF L = 0 THEN 0 ELSE h[L - 1] + Cardinality(DOMAIN layers[L])
  <2> TAKE L \in 0 .. m
  <2>1. CASE L = m
    BY <2>1, <1>1, <1>2
  <2>2. CASE L < m
    <3>1. L \in 0 .. m - 1 /\ (L # 0 => L - 1 \in 0 .. m - 1)
      BY <2>2, <1>1
    <3>2. f[L] = IF L = 0 THEN 0 ELSE f[L - 1] + Cardinality(DOMAIN layers[L])
      BY <3>1, <1>4 DEF OffsetRule
    <3>3. h[L] = f[L] /\ (L # 0 => h[L - 1] = f[L - 1])
      BY <2>2, <3>1, <1>1
    <3> QED  BY <3>2, <3>3
  <2> QED  BY <2>1, <2>2, <1>1
<1>6. OffsetRule(layers, h, m)
  BY <1>5 DEF OffsetRule
<1> QED  BY <1>1, <1>6

LEMMA OffsetFacts ==
  ASSUME built \in Built
  PROVE  LET off == OffsetsOf(built.layers)
         IN  /\ off \in [0 .. MaxLayer -> Nat] /\ off[0] = 0
             /\ \A L \in 1 .. MaxLayer : off[L] = off[L - 1] + Cardinality(DOMAIN built.layers[L])
             /\ \A K, L \in 0 .. MaxLayer : K <= L => off[K] <= off[L]
<1> DEFINE off == OffsetsOf(built.layers)
           size(L) == Cardinality(DOMAIN built.layers[L])
<1>1. MaxLayer \in Nat /\ MaxLayer = Len(built.layers)
  BY LayoutAssumption DEF MaxLayer
<1>2. \A L \in 1 .. MaxLayer : size(L) \in Nat
  <2> TAKE L \in 1 .. MaxLayer
  <2>1. DOMAIN built.layers[L] \in SUBSET Node
    BY <1>1, LayoutAssumption
  <2> QED  BY <2>1, SetsOfNodes
<1>3. off = CHOOSE f : f = [L \in 0 .. Len(built.layers) |->
                              IF L = 0 THEN 0 ELSE f[L - 1] + Cardinality(DOMAIN built.layers[L])]
  BY DEF OffsetsOf
<1>4. off = CHOOSE f : OffsetRule(built.layers, f, MaxLayer)
  BY <1>1, <1>3 DEF OffsetRule
<1>5. OffsetRule(built.layers, off, MaxLayer)
  BY <1>1, <1>4, OffsetsExist
<1> HIDE DEF off, size
<1>6. off = [L \in 0 .. MaxLayer |-> IF L = 0 THEN 0 ELSE off[L - 1] + size(L)]
  BY <1>5 DEF OffsetRule, size
<1>7. off[0] = 0 /\ \A L \in 1 .. MaxLayer : off[L] = off[L - 1] + size(L)
  BY <1>1, <1>6
<1>8. \A L \in 0 .. MaxLayer : off[L] \in Nat
  <2> DEFINE Bad == {L \in 0 .. MaxLayer : off[L] \notin Nat}
  <2> SUFFICES ASSUME Bad # {} PROVE FALSE
    OBVIOUS
  <2>1. Bad \in SUBSET Nat
    OBVIOUS
  <2>2. PICK L \in Bad : \A k \in Bad : L <= k
    BY <2>1, Smallest
  <2>3. L \in 1 .. MaxLayer /\ L - 1 \in 0 .. MaxLayer /\ L - 1 \notin Bad
    BY <1>1, <1>7, <2>2
  <2> QED  BY <1>2, <1>7, <2>2, <2>3
<1>9. \A K, L \in 0 .. MaxLayer : K <= L => off[K] <= off[L]
  <2> TAKE K \in 0 .. MaxLayer
  <2> DEFINE Bad == {L \in 0 .. MaxLayer : K <= L /\ ~ (off[K] <= off[L])}
  <2> SUFFICES ASSUME Bad # {} PROVE FALSE
    OBVIOUS
  <2>1. Bad \in SUBSET Nat
    OBVIOUS
  <2>2. PICK L \in Bad : \A k \in Bad : L <= k
    BY <2>1, Smallest
  <2>3. L # K /\ L \in 1 .. MaxLayer /\ L - 1 \in 0 .. MaxLayer /\ K <= L - 1
    BY <1>1, <1>8, <2>2
  <2>4. L - 1 \notin Bad
    BY <2>2, <2>3
  <2>5. off[L - 1] \in Nat /\ off[K] \in Nat /\ off[K] <= off[L - 1] /\ size(L) \in Nat
    BY <1>2, <1>8, <2>3, <2>4
  <2> QED  BY <1>7, <2>2, <2>3, <2>5
<1>10. off \in [0 .. MaxLayer -> Nat]
  BY <1>6, <1>8
<1> QED  BY <1>7, <1>9, <1>10 DEF off, size

(***************************************************************************)
(* The binary search: over ascending rows it ends at the first that is not *)
(* below the target.  Its recursion is well defined there, and whatever    *)
(* satisfies it is the boundary, cut to the interval that is left.         *)
(***************************************************************************)
SearchRule(nodes, from, to, target, f) ==
  f = [span \in (from .. to) \X (from .. to) |->
         LET lo == span[1]
             hi == span[2]
             mid == (lo + hi) \div 2
         IN  IF lo >= hi THEN lo
             ELSE IF nodes[mid] < target THEN f[<<mid + 1, hi>>] ELSE f[<<lo, mid>>]]

LEMMA SearchFacts ==
  ASSUME NEW nodes, NEW from \in Nat, NEW to \in Nat, from <= to, NEW target \in Int,
         \A s \in from .. to - 1 : nodes[s] \in Int,
         \A s, t \in from .. to - 1 : s < t => nodes[s] < nodes[t]
  PROVE  /\ FirstNotBelow(nodes, from, to, target) \in from .. to
         /\ \A s \in from .. to - 1 :
              s < FirstNotBelow(nodes, from, to, target) <=> nodes[s] < target
<1> DEFINE Ends == {p \in from .. to : p = to \/ ~ (nodes[p] < target)}
           Cut(b, lo, hi) == IF lo >= hi \/ b <= lo THEN lo ELSE IF b >= hi THEN hi ELSE b
<1>1. PICK b \in Ends : \A p \in Ends : b <= p
  <2>1. to \in Ends /\ Ends \in SUBSET Nat
    OBVIOUS
  <2> QED  BY <2>1, Smallest
<1>2. b \in from .. to /\ \A s \in from .. to - 1 : s < b <=> nodes[s] < target
  <2>1. b \in from .. to /\ (b = to \/ ~ (nodes[b] < target))
    BY <1>1
  <2>2. ASSUME NEW s \in from .. to - 1 PROVE s < b <=> nodes[s] < target
    <3>1. CASE s < b
      <4>1. s \in from .. to /\ s # to /\ s \notin Ends
        BY <3>1, <1>1
      <4> QED  BY <3>1, <4>1
    <3>2. CASE ~ (s < b)
      <4>1. b \in from .. to - 1 /\ (b = s \/ b < s) /\ ~ (nodes[b] < target)
        BY <3>2, <2>1
      <4>2. nodes[b] \in Int /\ nodes[s] \in Int /\ nodes[b] <= nodes[s]
        BY <4>1
      <4> QED  BY <3>2, <4>1, <4>2
    <3> QED  BY <3>1, <3>2
  <2> QED  BY <2>1, <2>2
<1>3. ASSUME NEW lo \in from .. to, NEW hi \in from .. to, lo < hi
      PROVE  LET mid == (lo + hi) \div 2
             IN  /\ mid \in from .. to - 1 /\ lo <= mid /\ mid < hi /\ mid + 1 \in from .. to
                 /\ nodes[mid] < target <=> mid < b
  <2>1. LET mid == (lo + hi) \div 2
        IN  mid \in Int /\ lo <= mid /\ mid < hi
    BY <1>3
  <2> QED  BY <2>1, <1>2, <1>3
<1> DEFINE F == [span \in (from .. to) \X (from .. to) |-> Cut(b, span[1], span[2])]
<1>4. SearchRule(nodes, from, to, target, F)
  <2>1. ASSUME NEW lo \in from .. to, NEW hi \in from .. to
        PROVE  Cut(b, lo, hi) =
                 LET mid == (lo + hi) \div 2
                 IN  IF lo >= hi THEN lo
                     ELSE IF nodes[mid] < target THEN F[<<mid + 1, hi>>] ELSE F[<<lo, mid>>]
    <3>1. CASE lo >= hi
      BY <3>1
    <3>2. CASE lo < hi
      <4> DEFINE mid == (lo + hi) \div 2
      <4>1. /\ mid \in from .. to - 1 /\ lo <= mid /\ mid < hi /\ mid + 1 \in from .. to
            /\ mid \in from .. to /\ (nodes[mid] < target <=> mid < b)
        BY <1>3, <3>2
      <4> HIDE DEF mid
      <4>2. F[<<mid + 1, hi>>] = Cut(b, mid + 1, hi) /\ F[<<lo, mid>>] = Cut(b, lo, mid)
        BY <4>1
      <4>3. mid < b => Cut(b, lo, hi) = Cut(b, mid + 1, hi)
        BY <4>1, <3>2, <1>2
      <4>4. ~ (mid < b) => Cut(b, lo, hi) = Cut(b, lo, mid)
        BY <4>1, <3>2, <1>2
      <4>5. Cut(b, lo, hi) = IF lo >= hi THEN lo
                             ELSE IF nodes[mid] < target THEN F[<<mid + 1, hi>>] ELSE F[<<lo, mid>>]
        BY <4>1, <4>2, <4>3, <4>4, <3>2
      <4> QED  BY <4>5 DEF mid
    <3> QED  BY <3>1, <3>2
  <2> QED  BY <2>1 DEF SearchRule
<1> HIDE DEF F
<1>5. ASSUME NEW f, SearchRule(nodes, from, to, target, f)
      PROVE  \A lo, hi \in from .. to : f[<<lo, hi>>] = Cut(b, lo, hi)
  <2> DEFINE Bad == {w \in Nat : \E lo, hi \in from .. to :
                                   lo <= hi /\ w = hi - lo /\ f[<<lo, hi>>] # Cut(b, lo, hi)}
  <2>1. \A lo, hi \in from .. to :
          f[<<lo, hi>>] = LET mid == (lo + hi) \div 2
                      IN  IF lo >= hi THEN lo
                          ELSE IF nodes[mid] < target THEN f[<<mid + 1, hi>>] ELSE f[<<lo, mid>>]
    BY <1>5 DEF SearchRule
  <2>2. /\ Bad \in SUBSET Nat
        /\ \A lo, hi \in from .. to :
             lo <= hi /\ hi - lo \notin Bad => f[<<lo, hi>>] = Cut(b, lo, hi)
    OBVIOUS
  <2>3. \A w \in Bad : \E lo, hi \in from .. to :
          lo <= hi /\ w = hi - lo /\ f[<<lo, hi>>] # Cut(b, lo, hi)
    OBVIOUS
  <2> HIDE DEF Bad
  <2>4. ASSUME Bad # {} PROVE FALSE
    <3>1. PICK w \in Bad : \A v \in Bad : w <= v
      BY <2>4, <2>2, Smallest
    <3>2. PICK lo \in from .. to, hi \in from .. to :
            lo <= hi /\ w = hi - lo /\ f[<<lo, hi>>] # Cut(b, lo, hi)
      BY <2>3
    <3>3. CASE lo = hi
      BY <3>2, <3>3, <2>1
    <3>4. CASE lo < hi
      <4> DEFINE mid == (lo + hi) \div 2
      <4>1. /\ mid \in from .. to - 1 /\ lo <= mid /\ mid < hi /\ mid + 1 \in from .. to
            /\ mid \in from .. to /\ (nodes[mid] < target <=> mid < b)
        BY <1>3, <3>4
      <4>2. f[<<lo, hi>>] = IF nodes[mid] < target THEN f[<<mid + 1, hi>>] ELSE f[<<lo, mid>>]
        BY <2>1, <3>4
      <4> HIDE DEF mid
      <4>3. /\ hi - (mid + 1) \in Nat /\ hi - (mid + 1) < w
            /\ mid - lo \in Nat /\ mid - lo < w
        BY <4>1, <3>2
      <4>4. hi - (mid + 1) \notin Bad /\ mid - lo \notin Bad
        BY <4>3, <3>1, <2>2
      <4>5. f[<<mid + 1, hi>>] = Cut(b, mid + 1, hi) /\ f[<<lo, mid>>] = Cut(b, lo, mid)
        BY <4>1, <4>3, <4>4, <2>2
      <4>6. mid < b => Cut(b, lo, hi) = Cut(b, mid + 1, hi)
        BY <4>1, <3>4, <1>2
      <4>7. ~ (mid < b) => Cut(b, lo, hi) = Cut(b, lo, mid)
        BY <4>1, <3>4, <1>2
      <4> QED  BY <4>1, <4>2, <4>5, <4>6, <4>7, <3>2
    <3> QED  BY <3>2, <3>3, <3>4
  <2>5. ASSUME NEW lo \in from .. to, NEW hi \in from .. to PROVE f[<<lo, hi>>] = Cut(b, lo, hi)
    <3>1. CASE lo > hi
      <4>1. lo >= hi
        BY <3>1
      <4>2. f[<<lo, hi>>] = lo
        BY <4>1, <2>1
      <4> QED  BY <4>1, <4>2
    <3>2. CASE lo <= hi
      <4>1. hi - lo \in Nat /\ hi - lo \notin Bad
        BY <2>4, <3>2
      <4> QED  BY <4>1, <3>2, <2>2
    <3> QED  BY <3>1, <3>2
  <2> QED  BY <2>5
<1> DEFINE search == CHOOSE f : SearchRule(nodes, from, to, target, f)
<1>6. FirstNotBelow(nodes, from, to, target) = search[<<from, to>>]
  BY DEF FirstNotBelow, SearchRule
<1>7. SearchRule(nodes, from, to, target, search)
  BY <1>4
<1> HIDE DEF search
<1>8. FirstNotBelow(nodes, from, to, target) = Cut(b, from, to)
  BY <1>5, <1>6, <1>7
<1>9. Cut(b, from, to) = b
  BY <1>2
<1> QED  BY <1>2, <1>8, <1>9

(* A lookup in ascending rows finds the row of the node, if it has one. *)
LEMMA LookupFacts ==
  ASSUME NEW gr, NEW L, NEW n \in Int,
         NEW from \in Nat, NEW to \in Nat, from <= to,
         from = gr.upperOff[L - 1], to = gr.upperOff[L],
         \A s \in from .. to - 1 : gr.upperNodes[s] \in Int,
         \A s, t \in from .. to - 1 : s < t => gr.upperNodes[s] < gr.upperNodes[t]
  PROVE  /\ \A s \in from .. to - 1 :
              gr.upperNodes[s] = n => UpperNeighbors(gr, n, L) = gr.upperConn[s]
         /\ (\A s \in from .. to - 1 : gr.upperNodes[s] # n) => UpperNeighbors(gr, n, L) = None
<1> DEFINE slot == FirstNotBelow(gr.upperNodes, from, to, n)
<1>1. /\ slot \in from .. to
      /\ \A s \in from .. to - 1 : s < slot <=> gr.upperNodes[s] < n
  BY SearchFacts
<1>2. UpperNeighbors(gr, n, L) =
        IF slot < to /\ gr.upperNodes[slot] = n THEN gr.upperConn[slot] ELSE None
  BY DEF UpperNeighbors
<1> HIDE DEF slot
<1>3. ASSUME NEW s \in from .. to - 1, gr.upperNodes[s] = n PROVE s = slot
  <2>1. ~ (s < slot)
    BY <1>1, <1>3
  <2>2. CASE slot < s
    <3>1. slot \in from .. to - 1 /\ ~ (slot < slot)
      BY <1>1, <2>2
    <3>2. gr.upperNodes[slot] < n /\ ~ (gr.upperNodes[slot] < n)
      BY <1>1, <1>3, <2>2, <3>1
    <3> QED  BY <3>2
  <2> QED  BY <1>1, <2>1, <2>2
<1>4. ASSUME NEW s \in from .. to - 1, gr.upperNodes[s] = n
      PROVE  UpperNeighbors(gr, n, L) = gr.upperConn[s]
  <2>1. s = slot /\ slot < to
    BY <1>3, <1>4
  <2> QED  BY <1>2, <1>4, <2>1
<1>5. ASSUME \A s \in from .. to - 1 : gr.upperNodes[s] # n
      PROVE  UpperNeighbors(gr, n, L) = None
  <2>1. slot < to => slot \in from .. to - 1
    BY <1>1
  <2> QED  BY <1>2, <1>5, <2>1
<1> QED  BY <1>4, <1>5

(* The row a slot belongs to. *)
LEMMA RowsArePartition ==
  ASSUME built \in Built, NEW off, off = OffsetsOf(built.layers)
  PROVE  /\ \A L \in 1 .. MaxLayer : \A s \in off[L - 1] .. off[L] - 1 :
              /\ s \in Upto(off[MaxLayer])
              /\ \A K \in 1 .. MaxLayer : off[K - 1] <= s /\ s < off[K] <=> K = L
         /\ \A s \in Upto(off[MaxLayer]) :
              \E L \in 1 .. MaxLayer : off[L - 1] <= s /\ s < off[L]
<1>1. /\ off \in [0 .. MaxLayer -> Nat] /\ off[0] = 0 /\ MaxLayer \in Nat
      /\ \A K, L \in 0 .. MaxLayer : K <= L => off[K] <= off[L]
  BY OffsetFacts, LayoutAssumption DEF MaxLayer
<1>2. ASSUME NEW L \in 1 .. MaxLayer, NEW s \in off[L - 1] .. off[L] - 1
      PROVE  /\ s \in Upto(off[MaxLayer])
             /\ \A K \in 1 .. MaxLayer : off[K - 1] <= s /\ s < off[K] <=> K = L
  <2>1. L - 1 \in 0 .. MaxLayer /\ L \in 0 .. MaxLayer /\ MaxLayer \in 0 .. MaxLayer
    BY <1>1
  <2>2. off[L - 1] \in Nat /\ off[L] \in Nat /\ off[L] <= off[MaxLayer] /\ off[MaxLayer] \in Nat
    BY <1>1, <2>1
  <2>3. s \in Upto(off[MaxLayer])
    BY <2>2 DEF Upto
  <2>4. ASSUME NEW K \in 1 .. MaxLayer PROVE off[K - 1] <= s /\ s < off[K] <=> K = L
    <3>1. K - 1 \in 0 .. MaxLayer /\ K \in 0 .. MaxLayer
      BY <1>1
    <3>2. off[K - 1] \in Nat /\ off[K] \in Nat
      BY <1>1, <3>1
    <3>3. CASE K < L
      <4>1. off[K] <= off[L - 1]
        BY <1>1, <2>1, <3>1, <3>3
      <4> QED  BY <4>1, <3>2, <3>3, <2>2
    <3>4. CASE L < K
      <4>1. off[L] <= off[K - 1]
        BY <1>1, <2>1, <3>1, <3>4
      <4> QED  BY <4>1, <3>2, <3>4, <2>2
    <3>5. CASE K = L
      BY <3>5, <2>2
    <3> QED  BY <3>3, <3>4, <3>5
  <2> QED  BY <2>3, <2>4
<1>3. ASSUME NEW s \in Upto(off[MaxLayer])
      PROVE  \E L \in 1 .. MaxLayer : off[L - 1] <= s /\ s < off[L]
  <2> DEFINE Beyond == {L \in 0 .. MaxLayer : s < off[L]}
  <2>1. MaxLayer \in Beyond /\ Beyond \in SUBSET Nat /\ s \in Nat
    BY <1>1 DEF Upto
  <2>2. PICK L \in Beyond : \A K \in Beyond : L <= K
    BY <2>1, Smallest
  <2>3. L # 0 /\ L \in 1 .. MaxLayer /\ L - 1 \in 0 .. MaxLayer /\ ~ (L <= L - 1)
    BY <1>1, <2>1, <2>2
  <2>4. ~ (s < off[L - 1])
    BY <2>2, <2>3
  <2>5. off[L - 1] <= s
    BY <1>1, <2>1, <2>3, <2>4
  <2> QED  BY <2>2, <2>3, <2>5
<1> QED  BY <1>2, <1>3

-----------------------------------------------------------------------------
(***************************************************************************)
(* The packed rows of the upper layers, the nodes in them having the names *)
(* that ren gives: in ascending order, one for each node of the layer, and *)
(* with the list the builder's map has for it.                             *)
(***************************************************************************)
RowsOf(gr, L) == gr.upperOff[L - 1] .. gr.upperOff[L] - 1
NamedList(ren, list) == [k \in DOMAIN list |-> ren[list[k]]]
PackedLayer(gr, ren, L) ==
  /\ \A s \in RowsOf(gr, L) : \E n \in DOMAIN built.layers[L] :
       /\ gr.upperNodes[s] = ren[n]
       /\ gr.upperConn[s] = NamedList(ren, built.layers[L][n])
  /\ \A s, t \in RowsOf(gr, L) : s < t => gr.upperNodes[s] < gr.upperNodes[t]
  /\ \A n \in DOMAIN built.layers[L] : \E s \in RowsOf(gr, L) : gr.upperNodes[s] = ren[n]
Packed(gr, ren) ==
  /\ gr.upperOff = OffsetsOf(built.layers)
  /\ DOMAIN gr.upperNodes = Upto(gr.upperOff[MaxLayer])
  /\ DOMAIN gr.upperConn = Upto(gr.upperOff[MaxLayer])
  /\ \A L \in 1 .. MaxLayer : PackedLayer(gr, ren, L)

OldNames == [n \in Node |-> n]
LayersPacked ==
  /\ stage \in {"start", "walk"} => Packed(g, OldNames)
  /\ stage = "done" => Packed(g, oldToNew)

LEMMA LayerFacts ==
  ASSUME built \in Built, NEW L \in 1 .. MaxLayer
  PROVE  /\ DOMAIN built.layers[L] \in SUBSET Node
         /\ \A n \in DOMAIN built.layers[L] :
              /\ built.layers[L][n] \in Seq(Node) /\ Len(built.layers[L][n]) <= M
<1>1. PICK S \in SUBSET Node :
        /\ built.layers[L] \in [S -> Seq(S)] /\ \A n \in S : Len(built.layers[L][n]) <= M
  BY LayoutAssumption DEF MaxLayer
<1>2. ASSUME NEW n \in S PROVE built.layers[L][n] \in Seq(Node)
  <2>1. built.layers[L][n] \in Seq(S)
    BY <1>1
  <2> QED  BY <2>1
<1> QED  BY <1>1, <1>2

LEMMA PackedIsFound ==
  ASSUME built \in Built, NEW gr, NEW ren \in [Node -> Node], Packed(gr, ren),
         \A m, n \in Node : ren[m] = ren[n] => m = n,
         NEW L \in 1 .. MaxLayer, NEW n \in Node
  PROVE  UpperNeighbors(gr, ren[n], L) =
           IF n \in DOMAIN built.layers[L] THEN NamedList(ren, built.layers[L][n]) ELSE None
<1>1. /\ DOMAIN built.layers[L] \in SUBSET Node /\ ren[n] \in Int
      /\ \A m \in Node : ren[m] \in Int
  BY LayerFacts, LayoutAssumption DEF Node
<1>2. L - 1 \in 0 .. MaxLayer /\ L \in 0 .. MaxLayer /\ MaxLayer \in Nat /\ L - 1 <= L
  BY LayoutAssumption DEF MaxLayer
<1>3. /\ gr.upperOff[L - 1] \in Nat /\ gr.upperOff[L] \in Nat
      /\ gr.upperOff[L - 1] <= gr.upperOff[L]
  BY <1>2, OffsetFacts DEF Packed
<1>4. PackedLayer(gr, ren, L)
  BY DEF Packed
<1>5. \A s \in RowsOf(gr, L) : gr.upperNodes[s] \in Int
  BY <1>1, <1>4 DEF PackedLayer
<1>6. /\ \A s \in RowsOf(gr, L) :
           gr.upperNodes[s] = ren[n] => UpperNeighbors(gr, ren[n], L) = gr.upperConn[s]
      /\ (\A s \in RowsOf(gr, L) : gr.upperNodes[s] # ren[n]) =>
           UpperNeighbors(gr, ren[n], L) = None
  <2> DEFINE from == gr.upperOff[L - 1]
             to == gr.upperOff[L]
  <2>1. \A s \in from .. to - 1 : gr.upperNodes[s] \in Int
    BY <1>5 DEF RowsOf
  <2>2. \A s, t \in from .. to - 1 : s < t => gr.upperNodes[s] < gr.upperNodes[t]
    BY <1>4 DEF PackedLayer, RowsOf
  <2> QED  BY <1>1, <1>3, <2>1, <2>2, LookupFacts DEF RowsOf
<1>7. CASE n \in DOMAIN built.layers[L]
  <2>1. PICK s \in RowsOf(gr, L) : gr.upperNodes[s] = ren[n]
    BY <1>4, <1>7 DEF PackedLayer
  <2>2. PICK m \in DOMAIN built.layers[L] :
          gr.upperNodes[s] = ren[m] /\ gr.upperConn[s] = NamedList(ren, built.layers[L][m])
    BY <1>4 DEF PackedLayer
  <2>3. m = n
    BY <1>1, <2>1, <2>2
  <2> QED  BY <1>6, <1>7, <2>1, <2>2, <2>3
<1>8. CASE n \notin DOMAIN built.layers[L]
  <2>1. \A s \in RowsOf(gr, L) : gr.upperNodes[s] # ren[n]
    BY <1>1, <1>4, <1>8 DEF PackedLayer
  <2> QED  BY <1>6, <1>8, <2>1
<1> QED  BY <1>7, <1>8

-----------------------------------------------------------------------------
(* The steps of the walk keep what is known of the distances. *)
LEMMA DistanceFacts ==
  ASSUME built \in Built, NEW d \in Distances
  PROVE  /\ \A n \in Node : d[n] \in 0 .. N
         /\ d[built.entry] = 0
         /\ \A m, n \in Node : LinksTo(m, n) /\ d[m] < N => d[n] < N /\ d[n] <= d[m] + 1
         /\ \A n \in Node \ {built.entry} :
              d[n] < N => \E m \in Node : LinksTo(m, n) /\ d[n] = d[m] + 1
BY DEF Distances

LEMMA VisitBreadth ==
  ASSUME IInv, VisitNeighbor, NEW d \in Distances, Breadth(d)
  PROVE  Breadth(d)'
<1>1. /\ stage = "walk" /\ head < Len(queue) /\ head \in Nat /\ Len(queue) \in Nat
      /\ queue \in Seq(Node) /\ seen \in Nat /\ N \in Nat
  BY LayoutAssumption DEF IInv, TypeOK, VisitNeighbor
<1>2. PICK cur \in Node : cur = queue[head + 1]
  BY <1>1
<1>3. built \in Built /\ g.conn0 = built.conn0
  BY <1>1 DEF IInv, Shape
<1>4. PICK list \in Seq(Node) : list = built.conn0[cur]
  BY <1>3, BuiltFacts
<1>5. seen + 1 \in DOMAIN list
  BY <1>1, <1>2, <1>3, <1>4 DEF VisitNeighbor, Neighbors
<1>6. PICK n \in Node : n = list[seen + 1]
  BY <1>5
<1>7. LinksTo(cur, n)
  BY <1>4, <1>5, <1>6 DEF LinksTo
<1>8. /\ IF Unnumbered(n) THEN Number(n) /\ queue' = Append(queue, n)
         ELSE UNCHANGED <<oldToNew, next, queue>>
      /\ seen' = seen + 1 /\ built' = built /\ head' = head
  BY <1>2, <1>3, <1>4, <1>6 DEF VisitNeighbor, Neighbors
<1>9. next = Len(queue)
  BY <1>1 DEF IInv, Progress
<1>10. /\ d[cur] \in Nat /\ d[n] \in Nat
       /\ d[cur] < N => d[n] < N /\ d[n] <= d[cur] + 1
  BY <1>1, <1>3, <1>7, DistanceFacts
<1>11. CASE Unnumbered(n)
  <2>1. /\ Len(queue') = Len(queue) + 1 /\ queue' \in Seq(Node)
        /\ \A j \in 1 .. Len(queue) : queue'[j] = queue[j]
        /\ queue'[Len(queue) + 1] = n
    <3>1. queue' = Append(queue, n)
      BY <1>8, <1>11
    <3> QED  BY <3>1, <1>1, AppendProperties
  <2>2. \A m \in Node : InQueue(m) => InQueue(m)'
    BY <2>1, <1>1 DEF InQueue
  <2>3. InQueue(n)'
    <3>1. Len(queue) + 1 \in 1 .. Len(queue') /\ queue'[Len(queue) + 1] = n
      BY <2>1, <1>1
    <3> QED  BY <3>1 DEF InQueue
  <2>4. ~ InQueue(n)
    BY <1>9, <1>11, NumberedAreQueued DEF IInv, Unnumbered
  <2>5. d[cur] < N /\ d[n] = d[cur] + 1 /\ d[n] < N
    <3>1. d[cur] < N
      BY <1>1, <1>2 DEF Breadth
    <3>2. ~ (d[n] <= d[cur])
      BY <1>1, <1>2, <2>4 DEF Breadth
    <3> QED  BY <1>1, <1>10, <3>1, <3>2
  <2>6. queue'[head' + 1] = cur
    BY <2>1, <1>1, <1>2, <1>8
  <2>7. \A j \in 1 .. Len(queue') : d[queue'[j]] < N
    BY <2>1, <2>5 DEF Breadth
  <2>8. \A i, j \in 1 .. Len(queue') : i < j => d[queue'[i]] <= d[queue'[j]]
    <3> SUFFICES ASSUME NEW i \in 1 .. Len(queue'), NEW j \in 1 .. Len(queue'), i < j
                 PROVE  d[queue'[i]] <= d[queue'[j]]
      OBVIOUS
    <3>1. i \in 1 .. Len(queue) /\ (j \in 1 .. Len(queue) \/ j = Len(queue) + 1)
      BY <2>1, <1>1
    <3> QED  BY <3>1, <2>1, <2>5, <1>1, <1>2 DEF Breadth
  <2>9. \A i \in 1 .. head' : \A m \in Node : LinksTo(queue[i], m)' => InQueue(m)'
    <3> SUFFICES ASSUME NEW i \in 1 .. head, NEW m \in Node, LinksTo(queue[i], m)'
                 PROVE  InQueue(m)'
      BY <1>8
    <3>1. queue'[i] = queue[i]
      BY <2>1, <1>1
    <3>2. LinksTo(queue[i], m)
      BY <3>1, <1>8 DEF LinksTo
    <3> QED  BY <3>2, <2>2 DEF Breadth
  <2>10. \A j \in 1 .. Len(queue') : d[queue'[j]] <= d[cur] + 1
    <3> TAKE j \in 1 .. Len(queue')
    <3>1. j \in 1 .. Len(queue) \/ j = Len(queue) + 1
      BY <2>1, <1>1
    <3>2. d[n] <= d[cur] + 1
      BY <2>5, <1>10, <1>1
    <3> QED  BY <3>1, <3>2, <2>1, <1>1, <1>2 DEF Breadth
  <2>11. \A m \in Node : d[m] <= d[cur] => InQueue(m)'
    BY <2>2, <1>1, <1>2 DEF Breadth
  <2>12. \A s \in DOMAIN list : s <= seen' => InQueue(list[s])'
    <3> SUFFICES ASSUME NEW s \in DOMAIN list, s <= seen'
                 PROVE  InQueue(list[s])'
      OBVIOUS
    <3>1. CASE s = seen + 1
      BY <3>1, <2>3, <1>6
    <3>2. CASE s # seen + 1
      <4>1. s <= seen
        BY <3>2, <1>1, <1>8
      <4>2. InQueue(list[s]) /\ list[s] \in Node
        BY <4>1, <1>1, <1>2, <1>4 DEF Breadth
      <4> QED  BY <4>2, <2>2
    <3> QED  BY <3>1, <3>2
  <2> QED  BY <2>6, <2>7, <2>8, <2>9, <2>10, <2>11, <2>12, <1>4, <1>8 DEF Breadth
<1>12. CASE ~ Unnumbered(n)
  <2>1. queue' = queue
    BY <1>8, <1>12
  <2>2. InQueue(n)
    BY <1>9, <1>12, NumberedAreQueued DEF IInv, Unnumbered
  <2>3. \A s \in DOMAIN list : s <= seen' => InQueue(list[s])
    <3> SUFFICES ASSUME NEW s \in DOMAIN list, s <= seen'
                 PROVE  InQueue(list[s])
      OBVIOUS
    <3>1. s = seen + 1 \/ s <= seen
      BY <1>1, <1>8
    <3> QED  BY <3>1, <2>2, <1>1, <1>2, <1>4, <1>6 DEF Breadth
  <2>4. \A m \in Node : InQueue(m)' <=> InQueue(m)
    BY <2>1 DEF InQueue
  <2>5. \A m, l \in Node : LinksTo(m, l)' <=> LinksTo(m, l)
    BY <1>8 DEF LinksTo
  <2>6. \A i \in 1 .. head : \A m \in Node : LinksTo(queue[i], m)' => InQueue(m)'
    BY <2>1, <2>4, <2>5, <1>1 DEF Breadth
  <2>7. \A s \in DOMAIN list : list[s] \in Node
    OBVIOUS
  <2>8. \A s \in DOMAIN list : s <= seen' => InQueue(list[s])'
    BY <2>3, <2>4, <2>7
  <2>9. \A m \in Node : d[m] <= d[cur] => InQueue(m)'
    BY <2>4, <1>1, <1>2 DEF Breadth
  <2> QED  BY <2>1, <2>6, <2>8, <2>9, <1>2, <1>4, <1>8 DEF Breadth
<1> QED  BY <1>11, <1>12

LEMMA NextNodeBreadth ==
  ASSUME IInv, NextNode, NEW d \in Distances, Breadth(d)
  PROVE  Breadth(d)'
<1>1. /\ stage = "walk" /\ head < Len(queue) /\ head \in Nat /\ Len(queue) \in Nat
      /\ queue \in Seq(Node) /\ seen \in Nat /\ N \in Nat
  BY LayoutAssumption DEF IInv, TypeOK, NextNode
<1>2. PICK cur \in Node : cur = queue[head + 1]
  BY <1>1
<1>3. built \in Built /\ g.conn0 = built.conn0
  BY <1>1 DEF IInv, Shape
<1>4. PICK list \in Seq(Node) : list = built.conn0[cur]
  BY <1>3, BuiltFacts
<1>5. /\ seen = Len(list) /\ head' = head + 1 /\ seen' = 0
      /\ UNCHANGED <<built, queue>>
  BY <1>2, <1>3, <1>4 DEF NextNode, Neighbors
<1>6. \A m \in Node : InQueue(m)' <=> InQueue(m)
  BY <1>5 DEF InQueue
<1>7. \A m, n \in Node : LinksTo(m, n)' <=> LinksTo(m, n)
  BY <1>5 DEF LinksTo
<1>8. \A i \in 1 .. head + 1 : \A n \in Node : LinksTo(queue[i], n) => InQueue(n)
  <2> SUFFICES ASSUME NEW n \in Node, LinksTo(cur, n) PROVE InQueue(n)
    BY <1>1, <1>2 DEF Breadth
  <2>1. PICK s \in DOMAIN list : list[s] = n
    BY <1>4 DEF LinksTo
  <2>2. s <= seen
    BY <1>5
  <2> QED  BY <2>1, <2>2, <1>1, <1>2, <1>4 DEF Breadth
<1>9. \A i \in 1 .. head' : \A n \in Node : LinksTo(queue[i], n)' => InQueue(n)'
  <2>1. \A i \in 1 .. head' : queue[i] \in Node /\ queue'[i] = queue[i]
    BY <1>1, <1>5
  <2> QED  BY <2>1, <1>5, <1>6, <1>7, <1>8
<1>10. ASSUME head' < Len(queue)
       PROVE  /\ \A j \in 1 .. Len(queue) : d[queue[j]] <= d[queue[head' + 1]] + 1
              /\ \A n \in Node : d[n] <= d[queue[head' + 1]] => InQueue(n)
  <2>1. PICK new \in Node : new = queue[head + 2]
    BY <1>1, <1>5, <1>10
  <2>2. d[cur] \in Nat /\ d[new] \in Nat /\ \A n \in Node : d[n] \in Nat
    BY <1>1, <1>3, DistanceFacts
  <2>3. d[cur] <= d[new] /\ d[new] <= d[cur] + 1 /\ d[new] < N /\ d[cur] < N
    BY <1>1, <1>2, <1>5, <1>10, <2>1 DEF Breadth
  <2>4. \A j \in 1 .. Len(queue) : d[queue[j]] <= d[new] + 1
    <3> TAKE j \in 1 .. Len(queue)
    <3>1. d[queue[j]] <= d[cur] + 1 /\ queue[j] \in Node
      BY <1>1, <1>2 DEF Breadth
    <3> QED  BY <3>1, <2>2, <2>3
  <2>5. ASSUME NEW n \in Node, d[n] <= d[new] PROVE InQueue(n)
    <3>1. CASE d[n] <= d[cur]
      BY <3>1, <1>1, <1>2 DEF Breadth
    <3>2. CASE ~ (d[n] <= d[cur])
      <4>1. d[n] = d[cur] + 1 /\ d[n] = d[new] /\ d[n] < N /\ d[n] # 0
        BY <3>2, <2>2, <2>3, <2>5, <1>1
      <4>2. n # built.entry
        BY <4>1, <1>3, DistanceFacts
      <4>3. PICK m \in Node : LinksTo(m, n) /\ d[n] = d[m] + 1
        BY <4>1, <4>2, <1>3, DistanceFacts
      <4>4. d[m] = d[cur]
        BY <4>1, <4>3, <2>2
      <4>5. PICK i \in 1 .. Len(queue) : queue[i] = m
        BY <4>4, <2>2, <1>1, <1>2 DEF Breadth, InQueue
      <4>6. i <= head + 1
        <5> SUFFICES ASSUME ~ (i <= head + 1) PROVE FALSE
          OBVIOUS
        <5>1. head + 2 \in 1 .. Len(queue) /\ (head + 2 = i \/ head + 2 < i)
          BY <1>1, <1>5, <1>10
        <5>2. d[new] <= d[m]
          BY <5>1, <4>5, <2>1, <2>2 DEF Breadth
        <5> QED  BY <5>2, <4>1, <4>4, <2>2
      <4> QED  BY <4>3, <4>5, <4>6, <1>1, <1>8
    <3> QED  BY <3>1, <3>2
  <2>6. queue[head' + 1] = new
    BY <2>1, <1>1, <1>5
  <2> QED  BY <2>4, <2>5, <2>6
<1>11. ASSUME head' < Len(queue),
              NEW s \in DOMAIN built.conn0[queue[head' + 1]], s <= seen'
       PROVE  FALSE
  <2>1. built.conn0[queue[head' + 1]] \in Seq(Node)
    BY <1>1, <1>3, <1>5, <1>11, BuiltFacts
  <2> QED  BY <2>1, <1>5, <1>11
<1>12. /\ \A j \in 1 .. Len(queue) : d[queue[j]] < N
       /\ \A i, j \in 1 .. Len(queue) : i < j => d[queue[i]] <= d[queue[j]]
  BY DEF Breadth
<1> QED  BY <1>5, <1>6, <1>9, <1>10, <1>11, <1>12 DEF Breadth

LEMMA StartBreadth ==
  ASSUME IInv, StartWalk, NEW d \in Distances
  PROVE  Breadth(d)'
<1>1. /\ queue' = <<built.entry>> /\ head' = 0 /\ seen' = 0 /\ built' = built
      /\ built \in Built
  BY DEF IInv, Shape, StartWalk
<1>2. /\ Len(queue') = 1 /\ queue'[1] = built.entry /\ built.entry \in Node
      /\ built.conn0[built.entry] \in Seq(Node)
  BY <1>1, BuiltFacts
<1>3. N \in Nat /\ N >= 1 /\ d[built.entry] = 0 /\ \A n \in Node : d[n] \in Nat
  BY <1>1, DistanceFacts, LayoutAssumption
<1>4. \A n \in Node : d[n] = 0 => n = built.entry
  <2> SUFFICES ASSUME NEW n \in Node, d[n] = 0, n # built.entry PROVE FALSE
    OBVIOUS
  <2>1. PICK m \in Node : d[n] = d[m] + 1
    BY <1>1, <1>3, DistanceFacts
  <2> QED  BY <2>1, <1>3
<1>5. \A n \in Node : d[n] <= d[queue'[1]] => InQueue(n)'
  <2>1. InQueue(built.entry)'
    BY <1>1, <1>2 DEF InQueue
  <2>2. \A n \in Node : d[n] <= 0 => n = built.entry
    BY <1>3, <1>4
  <2>3. \A n \in Node : n = built.entry => InQueue(n)'
    BY <1>1, <1>2 DEF InQueue
  <2> QED  BY <2>2, <2>3, <1>2, <1>3
<1>6. \A s \in DOMAIN built.conn0[queue'[1]] : ~ (s <= seen')
  BY <1>1, <1>2
<1>7. \A j \in 1 .. Len(queue') : j = 1
  BY <1>2
<1> QED  BY <1>1, <1>2, <1>3, <1>5, <1>6, <1>7 DEF Breadth

-----------------------------------------------------------------------------
(* The invariant holds at the start and every action keeps it. *)
LEMMA Initially ==
  ASSUME Init
  PROVE  IInv
<1>1. /\ built \in Built /\ g.conn0 = built.conn0 /\ g.entry = built.entry
      /\ g.vectors = [n \in Node |-> n]
      /\ stage = "finalize" /\ queue = << >> /\ head = 0 /\ seen = 0 /\ next = 0
      /\ oldToNew = [n \in Node |-> None] /\ N \in Nat /\ Len(queue) = 0
  BY LayoutAssumption DEF Init
<1>2. TypeOK
  BY <1>1, BuiltFacts DEF TypeOK
<1>3. Shape
  BY DEF Init, Shape
<1>4. Numbering /\ InOrder /\ Progress
  BY <1>1 DEF Numbering, InOrder, Progress
<1> QED  BY <1>1, <1>2, <1>3, <1>4 DEF IInv, BreadthFirst, Renaming

LEMMA BreadthKept ==
  ASSUME UNCHANGED <<built, queue, head, seen>>
  PROVE  Distances' = Distances /\ \A d \in Distances : Breadth(d) => Breadth(d)'
<1>1. Distances' = Distances
  BY DEF Distances, LinksTo
<1>2. \A n : InQueue(n)' <=> InQueue(n)
  BY DEF InQueue
<1>3. \A m, n : LinksTo(m, n)' <=> LinksTo(m, n)
  BY DEF LinksTo
<1>4. ASSUME NEW d \in Distances, Breadth(d) PROVE Breadth(d)'
  BY <1>2, <1>3, <1>4 DEF Breadth
<1> QED  BY <1>1, <1>4

LEMMA KeepsFinalize ==
  ASSUME IInv, Finalize
  PROVE  IInv'
<1>1. /\ stage = "finalize" /\ stage' = "start"
      /\ UNCHANGED <<built, queue, head, seen, oldToNew, next>>
  BY DEF Finalize
<1>2. PICK off, nodes, conn :
        g' = [g EXCEPT !.upperOff = off, !.upperNodes = nodes, !.upperConn = conn]
  BY Zenon DEF Finalize
<1>3. Shape'
  <2>1. PICK a, b, c :
          g = [vectors |-> [n \in Node |-> n], conn0 |-> built.conn0, fraud |-> built.fraud,
               upperOff |-> a, upperNodes |-> b, upperConn |-> c, entry |-> built.entry]
    BY <1>1 DEF IInv, Shape
  <2>2. g' = [vectors |-> [n \in Node |-> n], conn0 |-> built.conn0, fraud |-> built.fraud,
              upperOff |-> off, upperNodes |-> nodes, upperConn |-> conn, entry |-> built.entry]
    BY <1>2, <2>1
  <2>3. g'.upperOff = off /\ g'.upperNodes = nodes /\ g'.upperConn = conn
    BY <2>2
  <2> QED  BY <1>1, <2>2, <2>3 DEF IInv, Shape
<1>4. TypeOK'
  <2>1. g'.entry = built.entry /\ g'.conn0 = built.conn0 /\ g'.vectors = [n \in Node |-> n]
    BY <1>1, <1>3 DEF Shape
  <2> QED  BY <1>1, <2>1, BuiltFacts DEF IInv, Shape, TypeOK
<1>5. Numbering' /\ InOrder' /\ Progress'
  BY <1>1 DEF IInv, Numbering, InOrder, Progress
<1> QED  BY <1>1, <1>3, <1>4, <1>5 DEF IInv, BreadthFirst, Renaming

LEMMA KeepsStartWalk ==
  ASSUME IInv, StartWalk
  PROVE  IInv'
<1>1. /\ stage = "start" /\ stage' = "walk" /\ UNCHANGED <<built, g>>
      /\ queue' = <<built.entry>> /\ head' = 0 /\ seen' = 0 /\ next' = 1
      /\ oldToNew' = [oldToNew EXCEPT ![built.entry] = 0]
      /\ built \in Built /\ next = 0 /\ g.entry = built.entry
  <2>1. stage = "start"
    BY DEF StartWalk
  <2>2. built \in Built /\ next = 0 /\ g.entry = built.entry
    BY <2>1 DEF IInv, Shape, Progress
  <2> QED  BY <2>1, <2>2 DEF StartWalk
<1>2. built.entry \in Node /\ N \in Nat /\ N >= 1 /\ 0 \in Node /\ None # 0
  <2>1. built.entry \in Node /\ N \in Nat /\ N >= 1
    BY <1>1, BuiltFacts, LayoutAssumption
  <2>2. 0 \in Node
    BY <2>1 DEF Node
  <2> QED  BY <2>1, <2>2, LayoutAssumption
<1>3. \A n \in Node : oldToNew[n] = None
  BY <1>1 DEF IInv, Numbering
<1>4. /\ oldToNew'[built.entry] = 0
      /\ \A n \in Node : n # built.entry => oldToNew'[n] = None
      /\ oldToNew' \in [Node -> Node \cup {None}]
  BY <1>1, <1>2, <1>3 DEF IInv, TypeOK
<1>5. /\ queue' \in Seq(Node) /\ Len(queue') = 1 /\ queue'[1] = built.entry
      /\ queue' # << >>
  BY <1>1, <1>2
<1>6. TypeOK'
  BY <1>1, <1>2, <1>4, <1>5 DEF IInv, TypeOK
<1>7. Shape'
  BY <1>1 DEF IInv, Shape
<1>8. Numbering'
  BY <1>1, <1>2, <1>4 DEF Numbering
<1>9. InOrder' /\ Progress'
  BY <1>1, <1>4, <1>5 DEF InOrder, Progress
<1>10. BreadthFirst'
  BY <1>1, StartBreadth DEF BreadthFirst, Distances, LinksTo
<1> QED  BY <1>1, <1>6, <1>7, <1>8, <1>9, <1>10 DEF IInv, Renaming

LEMMA KeepsVisitNeighbor ==
  ASSUME IInv, VisitNeighbor
  PROVE  IInv'
<1>1. /\ stage = "walk" /\ head < Len(queue) /\ head \in Nat /\ Len(queue) \in Nat
      /\ queue \in Seq(Node) /\ seen \in Nat /\ next = Len(queue)
      /\ UNCHANGED <<built, g, stage, head>> /\ seen' = seen + 1
  BY DEF IInv, TypeOK, Progress, VisitNeighbor
<1>2. Neighbors \in Seq(Node)
  BY <1>1 DEF IInv, TypeOK, Neighbors
<1>3. PICK n \in Node : n = Neighbors[seen + 1]
  BY <1>1, <1>2 DEF VisitNeighbor
<1>4. Shape'
  BY <1>1 DEF IInv, Shape
<1>5. Renaming'
  BY <1>1 DEF Renaming
<1>6. BreadthFirst'
  <2>1. Distances' = Distances
    BY <1>1 DEF Distances, LinksTo
  <2> QED  BY <1>1, <2>1, VisitBreadth DEF IInv, BreadthFirst
<1>7. CASE Unnumbered(n)
  <2>1. Number(n) /\ queue' = Append(queue, n)
    BY <1>3, <1>7 DEF VisitNeighbor
  <2>2. /\ oldToNew' \in [Node -> Node \cup {None}] /\ next' \in 0 .. N
        /\ next' = next + 1 /\ oldToNew'[n] = next
        /\ \A m \in Node : m # n => oldToNew'[m] = oldToNew[m]
        /\ Numbering'
    BY <1>7, <2>1, NumberGiven DEF IInv
  <2>3. /\ queue' \in Seq(Node) /\ Len(queue') = Len(queue) + 1
        /\ \A j \in 1 .. Len(queue) : queue'[j] = queue[j]
        /\ queue'[Len(queue) + 1] = n
    BY <2>1, <1>1, AppendProperties
  <2>4. TypeOK'
    BY <1>1, <2>2, <2>3 DEF IInv, TypeOK
  <2>5. InOrder'
    <3>1. ~ InQueue(n)
      BY <1>1, <1>7, NumberedAreQueued DEF IInv, Unnumbered
    <3>2. ASSUME NEW j \in 1 .. Len(queue') PROVE oldToNew'[queue'[j]] = j - 1
      <4>1. CASE j = Len(queue) + 1
        BY <4>1, <1>1, <2>2, <2>3
      <4>2. CASE j # Len(queue) + 1
        <5>1. j \in 1 .. Len(queue) /\ queue[j] \in Node
          BY <4>2, <1>1, <2>3
        <5>2. queue[j] # n
          BY <5>1, <3>1 DEF InQueue
        <5> QED  BY <5>1, <5>2, <2>2, <2>3 DEF IInv, InOrder
      <4> QED  BY <4>1, <4>2
    <3>3. Len(queue') <= next'
      BY <1>1, <2>2, <2>3
    <3> QED  BY <3>2, <3>3 DEF InOrder
  <2>6. Progress'
    <3>1. queue' # << >> /\ queue'[1] = built.entry
      BY <1>1, <2>3 DEF IInv, Progress
    <3>2. next' = Len(queue')
      BY <1>1, <2>2, <2>3
    <3> QED  BY <1>1, <3>1, <3>2 DEF Progress
  <2> QED  BY <1>4, <1>5, <1>6, <2>2, <2>4, <2>5, <2>6 DEF IInv
<1>8. CASE ~ Unnumbered(n)
  <2>1. UNCHANGED <<oldToNew, next, queue>>
    BY <1>3, <1>8 DEF VisitNeighbor
  <2>2. TypeOK'
    BY <1>1, <2>1 DEF IInv, TypeOK
  <2>3. Numbering' /\ InOrder' /\ Progress'
    BY <1>1, <2>1 DEF IInv, Numbering, InOrder, Progress
  <2> QED  BY <1>4, <1>5, <1>6, <2>2, <2>3 DEF IInv
<1> QED  BY <1>7, <1>8

LEMMA KeepsNextNode ==
  ASSUME IInv, NextNode
  PROVE  IInv'
<1>1. /\ stage = "walk" /\ head < Len(queue)
      /\ head' = head + 1 /\ seen' = 0
      /\ UNCHANGED <<built, g, stage, queue, oldToNew, next>>
  BY DEF NextNode
<1>2. TypeOK'
  BY <1>1 DEF IInv, TypeOK
<1>3. Shape' /\ Numbering' /\ InOrder' /\ Renaming'
  BY <1>1 DEF IInv, Shape, Numbering, InOrder, Renaming
<1>4. Progress'
  BY <1>1 DEF IInv, Progress
<1>5. Distances' = Distances
  BY <1>1 DEF Distances, LinksTo
<1>6. BreadthFirst'
  BY <1>1, <1>5, NextNodeBreadth DEF IInv, BreadthFirst
<1> QED  BY <1>2, <1>3, <1>4, <1>6 DEF IInv

LEMMA KeepsAppendRest ==
  ASSUME IInv, AppendRest
  PROVE  IInv'
<1>1. /\ stage = "walk" /\ head = Len(queue)
      /\ UNCHANGED <<built, g, stage, queue, head, seen>>
  BY DEF AppendRest
<1>2. PICK n \in Node : Unnumbered(n) /\ Number(n)
  BY DEF AppendRest
<1>3. /\ oldToNew' \in [Node -> Node \cup {None}] /\ next' \in 0 .. N
      /\ next' = next + 1 /\ Numbering'
      /\ \A m \in Node : m # n => oldToNew'[m] = oldToNew[m]
  BY <1>2, NumberGiven DEF IInv
<1>4. TypeOK'
  BY <1>1, <1>3 DEF IInv, TypeOK
<1>5. Shape' /\ Progress' /\ Renaming'
  BY <1>1 DEF IInv, Shape, Progress, Renaming
<1>6. InOrder'
  <2>1. ASSUME NEW j \in 1 .. Len(queue) PROVE oldToNew'[queue[j]] = j - 1
    <3>1. queue[j] \in Node /\ oldToNew[queue[j]] = j - 1
      BY DEF IInv, TypeOK, InOrder
    <3>2. j - 1 \in Node
      <4>1. Len(queue) <= next /\ next \in 0 .. N /\ N \in Nat /\ Len(queue) \in Nat
        BY LayoutAssumption DEF IInv, TypeOK, InOrder
      <4> QED  BY <4>1 DEF Node
    <3>3. queue[j] # n
      BY <3>1, <3>2, <1>2, LayoutAssumption DEF Unnumbered
    <3> QED  BY <3>1, <3>3, <1>3
  <2>2. Len(queue) <= next'
    BY <1>3 DEF IInv, TypeOK, InOrder
  <2> QED  BY <2>1, <2>2, <1>1 DEF InOrder
<1>7. BreadthFirst'
  BY <1>1, BreadthKept DEF IInv, BreadthFirst
<1> QED  BY <1>3, <1>4, <1>5, <1>6, <1>7 DEF IInv

LEMMA KeepsPermute ==
  ASSUME IInv, Permute
  PROVE  IInv'
<1>1. /\ stage = "walk" /\ stage' = "done" /\ head = Len(queue)
      /\ \A n \in Node : oldToNew[n] # None
      /\ UNCHANGED <<built, queue, head, seen, oldToNew, next>>
  BY DEF Permute, Unnumbered
<1>2. /\ g'.vectors = [n \in Node |-> g.vectors[Old(n)]]
      /\ g'.conn0 = [n \in Node |-> Renamed(g.conn0[Old(n)])]
      /\ g'.fraud = {oldToNew[o] : o \in g.fraud}
      /\ g'.entry = oldToNew[g.entry]
  BY DEF Permute
<1>3. /\ built \in Built /\ g.vectors = [n \in Node |-> n] /\ g.conn0 = built.conn0
      /\ g.fraud = built.fraud /\ g.entry = built.entry
  BY <1>1 DEF IInv, Shape
<1>4. \A n \in Node : oldToNew[n] \in Node
  BY <1>1 DEF IInv, TypeOK
<1>5. \A n \in Node : Old(oldToNew[n]) = n
  BY <1>1 DEF IInv, Numbering, Old
<1>6. \A k \in Node : Old(k) \in Node
  <2> TAKE k \in Node
  <2>1. next = N /\ N \in Nat
    BY <1>1, AllNumbered, LayoutAssumption DEF IInv
  <2>2. \E n \in Node : oldToNew[n] = k
    BY <2>1 DEF IInv, Numbering, Node
  <2> QED  BY <2>2 DEF Old
<1>7. \A list \in Seq(Node) : Renamed(list) \in Seq(Node)
  <2> TAKE list \in Seq(Node)
  <2>1. Renamed(list) = [k \in 1 .. Len(list) |-> oldToNew[list[k]]] /\ Len(list) \in Nat
    BY DEF Renamed
  <2>2. \A k \in 1 .. Len(list) : oldToNew[list[k]] \in Node
    BY <1>4
  <2> QED  BY <2>1, <2>2, IsASeq
<1>8. TypeOK'
  <2>1. g'.entry \in Node /\ g'.vectors \in [Node -> Node]
    BY <1>2, <1>3, <1>4, <1>6, BuiltFacts
  <2>2. g'.conn0 \in [Node -> Seq(Node)]
    BY <1>2, <1>3, <1>6, <1>7, BuiltFacts
  <2> QED  BY <1>1, <2>1, <2>2 DEF IInv, TypeOK
<1>9. Shape' /\ Numbering' /\ InOrder' /\ Progress'
  BY <1>1 DEF IInv, Shape, Numbering, InOrder, Progress
<1>10. BreadthFirst'
  BY <1>1, BreadthKept DEF IInv, BreadthFirst
<1>11. Renaming'
  <2>1. g'.entry = oldToNew[built.entry]
    BY <1>2, <1>3
  <2>2. ASSUME NEW n \in Node
        PROVE  /\ g'.vectors[oldToNew[n]] = n
               /\ g'.conn0[oldToNew[n]] = Renamed(built.conn0[n])
               /\ oldToNew[n] \in g'.fraud <=> n \in built.fraud
    <3>1. oldToNew[n] \in Node /\ Old(oldToNew[n]) = n
      BY <1>4, <1>5
    <3>2. /\ g'.vectors[oldToNew[n]] = n
          /\ g'.conn0[oldToNew[n]] = Renamed(built.conn0[n])
      BY <3>1, <1>2, <1>3
    <3>3. oldToNew[n] \in g'.fraud <=> n \in built.fraud
      BY <1>1, <1>2, <1>3, BuiltFacts DEF IInv, Numbering
    <3> QED  BY <3>2, <3>3
  <2> QED  BY <1>1, <2>1, <2>2 DEF Renaming, NodesRenamed, Renamed
<1> QED  BY <1>8, <1>9, <1>10, <1>11 DEF IInv

LEMMA Start == Init => IInv
BY Initially

LEMMA Stutter ==
  ASSUME IInv, UNCHANGED vars
  PROVE  IInv'
<1>1. UNCHANGED <<built, g, stage, queue, head, seen, oldToNew, next>>
  BY DEF vars
<1>2. TypeOK' /\ Shape' /\ Numbering' /\ InOrder' /\ Progress'
  BY <1>1 DEF IInv, TypeOK, Shape, Numbering, InOrder, Progress
<1>3. BreadthFirst'
  BY <1>1, BreadthKept DEF IInv, BreadthFirst
<1>4. Renaming'
  BY <1>1 DEF IInv, Renaming, NodesRenamed, Renamed
<1> QED  BY <1>2, <1>3, <1>4 DEF IInv

-----------------------------------------------------------------------------
(* The rows of the upper layers: Finalize packs the builder's maps, the    *)
(* walk leaves the rows alone, and Permute packs them under the new names. *)
LEMMA OldNamesKeepLists ==
  ASSUME NEW list \in Seq(Node)
  PROVE  NamedList(OldNames, list) = list
<1>1. \A k \in DOMAIN list : list[k] \in Node
  OBVIOUS
<1>2. NamedList(OldNames, list) = [k \in DOMAIN list |-> list[k]]
  BY <1>1 DEF NamedList, OldNames
<1> QED  BY <1>2

LEMMA FinalizePacks ==
  ASSUME IInv, Finalize
  PROVE  Packed(g, OldNames)'
<1> DEFINE off == OffsetsOf(built.layers)
           LayerOf(s) == CHOOSE L \in 1 .. MaxLayer : off[L - 1] <= s /\ s < off[L]
           NodeAt(s) == Ascending(DOMAIN built.layers[LayerOf(s)])[s - off[LayerOf(s) - 1]]
           ListAt(s) == AtMostM(built.layers[LayerOf(s)][NodeAt(s)])
<1>1. /\ g' = [g EXCEPT !.upperOff = off,
                        !.upperNodes = [s \in Upto(off[MaxLayer]) |-> NodeAt(s)],
                        !.upperConn = [s \in Upto(off[MaxLayer]) |-> ListAt(s)]]
      /\ built' = built /\ stage = "finalize"
  BY Zenon DEF Finalize
<1>2. /\ g'.upperOff = off
      /\ g'.upperNodes = [s \in Upto(off[MaxLayer]) |-> NodeAt(s)]
      /\ g'.upperConn = [s \in Upto(off[MaxLayer]) |-> ListAt(s)]
  <2>1. g = [vectors |-> [n \in Node |-> n], conn0 |-> built.conn0, fraud |-> built.fraud,
             upperOff |-> g.upperOff, upperNodes |-> g.upperNodes, upperConn |-> g.upperConn,
             entry |-> built.entry]
    BY <1>1 DEF IInv, Shape
  <2>2. {"upperOff", "upperNodes", "upperConn"} \subseteq DOMAIN g
    <3> HIDE DEF off, NodeAt, ListAt
    <3>1. DOMAIN g = DOMAIN [vectors |-> [n \in Node |-> n], conn0 |-> built.conn0,
                             fraud |-> built.fraud, upperOff |-> g.upperOff,
                             upperNodes |-> g.upperNodes, upperConn |-> g.upperConn,
                             entry |-> built.entry]
      BY <2>1
    <3> QED  BY <3>1
  <2> HIDE DEF off, NodeAt, ListAt
  <2> QED  BY <1>1, <2>2
<1>3. built \in Built
  BY DEF IInv, Shape
<1>4. ASSUME NEW L \in 1 .. MaxLayer PROVE PackedLayer(g, OldNames, L)'
  <2> DEFINE D == DOMAIN built.layers[L]
             c == Cardinality(D)
             from == off[L - 1]
  <2>1. D \in SUBSET Node /\ \A n \in D :
          built.layers[L][n] \in Seq(Node) /\ Len(built.layers[L][n]) <= M
    BY <1>3, LayerFacts
  <2>2. /\ c \in Nat /\ Ascending(D) \in [0 .. c - 1 -> D]
        /\ \A i, j \in 0 .. c - 1 : i < j => Ascending(D)[i] < Ascending(D)[j]
        /\ \A n \in D : \E i \in 0 .. c - 1 : Ascending(D)[i] = n
    BY <2>1, AscendingFacts
  <2>3. from \in Nat /\ off[L] = from + c
    <3>1. MaxLayer \in Nat /\ L - 1 \in 0 .. MaxLayer
      BY <1>3, LayoutAssumption DEF MaxLayer
    <3> QED  BY <3>1, <1>3, OffsetFacts
  <2> HIDE DEF D, c, from, off
  <2>4. ASSUME NEW s \in from .. off[L] - 1
        PROVE  /\ s - from \in 0 .. c - 1
               /\ g'.upperNodes[s] = Ascending(D)[s - from]
               /\ g'.upperConn[s] = AtMostM(built.layers[L][Ascending(D)[s - from]])
    <3>1. s \in Upto(off[MaxLayer]) /\ LayerOf(s) = L
      BY <1>3, RowsArePartition DEF off, from
    <3>2. s - from \in 0 .. c - 1
      BY <2>2, <2>3
    <3>3. NodeAt(s) = Ascending(D)[s - from]
      BY <3>1 DEF D, from
    <3>4. ListAt(s) = AtMostM(built.layers[L][Ascending(D)[s - from]])
      BY <3>1, <3>3
    <3> HIDE DEF NodeAt, ListAt, LayerOf
    <3>5. g'.upperNodes[s] = NodeAt(s) /\ g'.upperConn[s] = ListAt(s)
      BY <1>2, <3>1
    <3> QED  BY <3>2, <3>3, <3>4, <3>5
  <2>5. RowsOf(g, L)' = from .. off[L] - 1
    BY <1>2 DEF RowsOf, from
  <2>6. ASSUME NEW n \in D
        PROVE  AtMostM(built.layers[L][n]) = NamedList(OldNames, built.layers[L][n])
    <3>1. built.layers[L][n] \in Seq(Node) /\ Len(built.layers[L][n]) <= M /\ M \in Nat
      BY <2>1, LayoutAssumption
    <3>2. AtMostM(built.layers[L][n]) = built.layers[L][n]
      BY <3>1 DEF AtMostM
    <3> QED  BY <3>1, <3>2, OldNamesKeepLists
  <2>7. \A s \in from .. off[L] - 1 : \E n \in D :
          /\ g'.upperNodes[s] = OldNames[n]
          /\ g'.upperConn[s] = NamedList(OldNames, built.layers[L][n])
    <3> TAKE s \in from .. off[L] - 1
    <3>1. PICK n \in D : n = Ascending(D)[s - from]
      BY <2>2, <2>4
    <3>2. OldNames[n] = n
      BY <2>1 DEF OldNames
    <3> QED  BY <2>4, <2>6, <3>1, <3>2
  <2>8. \A s, t \in from .. off[L] - 1 : s < t => g'.upperNodes[s] < g'.upperNodes[t]
    <3> SUFFICES ASSUME NEW s \in from .. off[L] - 1, NEW t \in from .. off[L] - 1, s < t
                 PROVE  g'.upperNodes[s] < g'.upperNodes[t]
      OBVIOUS
    <3>1. s - from < t - from
      BY <2>3
    <3> QED  BY <3>1, <2>2, <2>4
  <2>9. \A n \in D : \E s \in from .. off[L] - 1 : g'.upperNodes[s] = OldNames[n]
    <3> TAKE n \in D
    <3>1. PICK i \in 0 .. c - 1 : Ascending(D)[i] = n
      BY <2>2
    <3>2. from + i \in from .. off[L] - 1 /\ (from + i) - from = i
      BY <2>2, <2>3
    <3>3. OldNames[n] = n
      BY <2>1 DEF OldNames
    <3> QED  BY <2>4, <3>1, <3>2, <3>3
  <2>10. OldNames' = OldNames
    BY DEF OldNames
  <2>11. DOMAIN built'.layers[L] = D /\ \A n \in D : built'.layers[L][n] = built.layers[L][n]
    BY <1>1 DEF D
  <2> QED  BY <2>5, <2>7, <2>8, <2>9, <2>10, <2>11 DEF PackedLayer
<1>5. MaxLayer' = MaxLayer
  BY <1>1 DEF MaxLayer
<1> HIDE DEF off, NodeAt, ListAt
<1>6. DOMAIN g'.upperNodes = Upto(off[MaxLayer]) /\ DOMAIN g'.upperConn = Upto(off[MaxLayer])
  BY <1>2
<1>7. g'.upperOff = OffsetsOf(built'.layers)
  BY <1>1, <1>2 DEF off
<1> QED  BY <1>2, <1>4, <1>5, <1>6, <1>7 DEF Packed

LEMMA PermutePacks ==
  ASSUME IInv, Packed(g, OldNames), Permute
  PROVE  Packed(g, oldToNew)'
<1>1. /\ stage = "walk" /\ built' = built /\ oldToNew' = oldToNew
      /\ \A n \in Node : oldToNew[n] # None
      /\ g'.upperOff = g.upperOff
      /\ g'.upperNodes = [s \in DOMAIN g.upperNodes |-> oldToNew[g.upperNodes[SortedSlot(s)]]]
      /\ g'.upperConn = [s \in DOMAIN g.upperConn |-> Renamed(g.upperConn[SortedSlot(s)])]
  BY DEF Permute, Unnumbered
<1>2. built \in Built
  BY DEF IInv, Shape
<1>3. /\ oldToNew \in [Node -> Node]
      /\ \A m, n \in Node : oldToNew[m] = oldToNew[n] => m = n
  BY <1>1 DEF IInv, TypeOK, Numbering
<1>4. ASSUME NEW L \in 1 .. MaxLayer PROVE PackedLayer(g, oldToNew, L)'
  <2> DEFINE D == DOMAIN built.layers[L]
             New == {oldToNew[n] : n \in D}
             c == Cardinality(D)
             from == g.upperOff[L - 1]
             to == g.upperOff[L]
  <2>1. D \in SUBSET Node /\ \A n \in D : built.layers[L][n] \in Seq(Node)
    BY <1>2, LayerFacts
  <2>2. c \in Nat /\ from \in Nat /\ to = from + c
    <3>1. MaxLayer \in Nat /\ L - 1 \in 0 .. MaxLayer
      BY <1>2, LayoutAssumption DEF MaxLayer
    <3> QED  BY <3>1, <1>2, <2>1, SetsOfNodes, OffsetFacts DEF Packed
  <2>3. PackedLayer(g, OldNames, L)
    BY DEF Packed
  <2>4. /\ \A s \in from .. to - 1 :
             /\ g.upperNodes[s] \in D
             /\ g.upperConn[s] = built.layers[L][g.upperNodes[s]]
        /\ \A n \in D : \E s \in from .. to - 1 : g.upperNodes[s] = n
    <3>1. ASSUME NEW s \in from .. to - 1
          PROVE  /\ g.upperNodes[s] \in D
                 /\ g.upperConn[s] = built.layers[L][g.upperNodes[s]]
      <4>1. PICK n \in D : /\ g.upperNodes[s] = OldNames[n]
                           /\ g.upperConn[s] = NamedList(OldNames, built.layers[L][n])
        BY <2>3 DEF PackedLayer, RowsOf
      <4>2. OldNames[n] = n
        BY <2>1 DEF OldNames
      <4>3. NamedList(OldNames, built.layers[L][n]) = built.layers[L][n]
        BY <2>1, OldNamesKeepLists
      <4> QED  BY <4>1, <4>2, <4>3
    <3>2. ASSUME NEW n \in D PROVE \E s \in from .. to - 1 : g.upperNodes[s] = n
      <4>1. OldNames[n] = n
        BY <2>1 DEF OldNames
      <4> QED  BY <4>1, <2>3 DEF PackedLayer, RowsOf
    <3> QED  BY <3>1, <3>2
  <2>5. New \in SUBSET Node /\ Cardinality(New) = c
    <3> DEFINE f == [n \in D |-> oldToNew[n]]
    <3>1. New \in SUBSET Node
      BY <1>3, <2>1
    <3>2. f \in Surjection(D, New)
      BY DEF Surjection
    <3>3. f \in Injection(D, New)
      BY <1>3, <2>1 DEF Injection, IsInjective
    <3>4. IsFiniteSet(D)
      BY <2>1, SetsOfNodes
    <3> QED  BY <3>1, <3>2, <3>3, <3>4, FS_Surjection
  <2> HIDE DEF D, c, from, to
  <2>6. {oldToNew[g.upperNodes[s]] : s \in from .. to - 1} = New
    BY <2>4
  <2> DEFINE news == Ascending(New)
  <2>7. /\ news \in [0 .. c - 1 -> New]
        /\ \A i, j \in 0 .. c - 1 : i < j => news[i] < news[j]
        /\ \A n \in New : \E i \in 0 .. c - 1 : news[i] = n
    BY <2>5, AscendingFacts
  <2> HIDE DEF news, New
  <2>8. ASSUME NEW s \in from .. to - 1
        PROVE  /\ s - from \in 0 .. c - 1
               /\ s \in DOMAIN g.upperNodes /\ s \in DOMAIN g.upperConn
               /\ SortedSlot(s) \in from .. to - 1
               /\ oldToNew[g.upperNodes[SortedSlot(s)]] = news[s - from]
    <3>1. s - from \in 0 .. c - 1
      BY <2>2
    <3>2. /\ s \in Upto(g.upperOff[MaxLayer])
          /\ (CHOOSE l \in 1 .. MaxLayer : g.upperOff[l - 1] <= s /\ s < g.upperOff[l]) = L
      BY <1>2, RowsArePartition DEF Packed, from, to
    <3>3. SortedSlot(s) = CHOOSE t \in from .. to - 1 :
                            oldToNew[g.upperNodes[t]] = news[s - from]
      BY <2>6, <3>2 DEF SortedSlot, from, to, news
    <3>4. \E t \in from .. to - 1 : oldToNew[g.upperNodes[t]] = news[s - from]
      BY <2>6, <2>7, <3>1
    <3>5. /\ SortedSlot(s) \in from .. to - 1
          /\ oldToNew[g.upperNodes[SortedSlot(s)]] = news[s - from]
      BY <3>3, <3>4
    <3> QED  BY <3>1, <3>2, <3>5 DEF Packed
  <2>9. ASSUME NEW s \in from .. to - 1
        PROVE  /\ g'.upperNodes[s] = news[s - from]
               /\ \E n \in D : /\ g'.upperNodes[s] = oldToNew[n]
                               /\ g'.upperConn[s] = NamedList(oldToNew, built.layers[L][n])
    <3>1. PICK t \in from .. to - 1 : t = SortedSlot(s)
      BY <2>8
    <3>2. PICK n \in D : n = g.upperNodes[t]
      BY <2>4
    <3>3. g'.upperNodes[s] = news[s - from] /\ g'.upperNodes[s] = oldToNew[n]
      BY <1>1, <2>8, <3>1, <3>2
    <3>4. g'.upperConn[s] = Renamed(built.layers[L][n])
      BY <1>1, <2>4, <2>8, <3>1, <3>2
    <3> QED  BY <3>3, <3>4 DEF Renamed, NamedList
  <2>10. \A s, t \in from .. to - 1 : s < t => g'.upperNodes[s] < g'.upperNodes[t]
    <3> SUFFICES ASSUME NEW s \in from .. to - 1, NEW t \in from .. to - 1, s < t
                 PROVE  g'.upperNodes[s] < g'.upperNodes[t]
      OBVIOUS
    <3>1. s - from < t - from /\ s - from \in 0 .. c - 1 /\ t - from \in 0 .. c - 1
      BY <2>2
    <3> QED  BY <3>1, <2>7, <2>9
  <2>11. \A n \in D : \E s \in from .. to - 1 : g'.upperNodes[s] = oldToNew[n]
    <3> TAKE n \in D
    <3>1. PICK i \in 0 .. c - 1 : news[i] = oldToNew[n]
      BY <2>7 DEF New
    <3>2. from + i \in from .. to - 1 /\ (from + i) - from = i
      BY <2>2
    <3> QED  BY <2>9, <3>1, <3>2
  <2>12. RowsOf(g, L)' = from .. to - 1
    BY <1>1 DEF RowsOf, from, to
  <2> QED  BY <1>1, <2>9, <2>10, <2>11, <2>12 DEF PackedLayer, D
<1>5. MaxLayer' = MaxLayer
  BY <1>1 DEF MaxLayer
<1>6. /\ DOMAIN g'.upperNodes = Upto(g.upperOff[MaxLayer])
      /\ DOMAIN g'.upperConn = Upto(g.upperOff[MaxLayer])
  BY <1>1 DEF Packed
<1>7. g'.upperOff = OffsetsOf(built'.layers)
  BY <1>1 DEF Packed
<1> QED  BY <1>1, <1>4, <1>5, <1>6, <1>7 DEF Packed

-----------------------------------------------------------------------------
(* The invariant that carries all of the following holds throughout.       *)
THEOREM Inductive == Spec => []IInv
<1>1. IInv /\ [Next]_vars => IInv'
  <2> SUFFICES ASSUME IInv, [Next]_vars PROVE IInv'
    OBVIOUS
  <2>1. CASE Finalize
    BY <2>1, KeepsFinalize
  <2>2. CASE StartWalk
    BY <2>2, KeepsStartWalk
  <2>3. CASE VisitNeighbor
    BY <2>3, KeepsVisitNeighbor
  <2>4. CASE NextNode
    BY <2>4, KeepsNextNode
  <2>5. CASE AppendRest
    BY <2>5, KeepsAppendRest
  <2>6. CASE Permute
    BY <2>6, KeepsPermute
  <2>7. CASE UNCHANGED vars
    BY <2>7, Stutter
  <2> QED  BY <2>1, <2>2, <2>3, <2>4, <2>5, <2>6, <2>7 DEF Next, Layout, Done
<1> QED  BY Start, <1>1, PTL DEF Spec

(* Ids are given only to nodes and only below N, and the moved arrays      *)
(* still lead from nodes to nodes.                                         *)
THEOREM TypeCorrect == Spec => []TypeOK
<1>1. IInv => TypeOK
  BY DEF IInv
<1> QED  BY Inductive, <1>1, PTL

(* Reorder never gives an id twice or leaves one out, however the nodes    *)
(* are linked and whichever of them the walk does not reach.               *)
THEOREM NumbersAreGivenOnce == Spec => []NumbersAreDense
<1>1. ASSUME IInv PROVE NumbersAreDense
  <2>1. next \in 0 .. N /\ N \in Nat
    BY <1>1, LayoutAssumption DEF IInv, TypeOK
  <2>2. ASSUME NEW k \in Node
        PROVE  Cardinality({n \in Node : oldToNew[n] = k}) = IF k < next THEN 1 ELSE 0
    <3>1. CASE k < next
      <4>1. k \in 0 .. next - 1 /\ k # None
        BY <3>1, <2>1, LayoutAssumption DEF Node
      <4>2. PICK n \in Node : oldToNew[n] = k
        BY <1>1, <4>1 DEF IInv, Numbering
      <4>3. {m \in Node : oldToNew[m] = k} = {n}
        BY <1>1, <4>1, <4>2 DEF IInv, Numbering
      <4> QED  BY <3>1, <4>3, FS_Singleton
    <3>2. CASE ~ (k < next)
      <4>1. k # None /\ k \notin 0 .. next - 1
        BY <3>2, <2>1, LayoutAssumption DEF Node
      <4>2. {m \in Node : oldToNew[m] = k} = {}
        BY <1>1, <4>1 DEF IInv, Numbering
      <4> QED  BY <3>2, <4>2, FS_EmptySet
    <3> QED  BY <3>1, <3>2
  <2>3. \A j \in DOMAIN queue : oldToNew[queue[j]] = j - 1
    BY <1>1 DEF IInv, TypeOK, InOrder
  <2>4. stage = "done" => next = N
    BY <1>1, AllNumbered DEF IInv, Progress
  <2> QED  BY <2>2, <2>3, <2>4 DEF NumbersAreDense
<1> QED  BY Inductive, <1>1, PTL

(* A node nearer to the entry point has the smaller id, in every graph.    *)
THEOREM NearerNodesFirst == Spec => []NearerFirst
<1>1. ASSUME IInv PROVE NearerFirst
  <2> SUFFICES ASSUME stage = "done", NEW d \in Distances,
                      NEW m \in Node, NEW n \in Node, d[m] < d[n]
               PROVE  oldToNew[m] < oldToNew[n]
    BY DEF NearerFirst
  <2>1. /\ built \in Built /\ queue \in Seq(Node) /\ head = Len(queue) /\ N \in Nat
        /\ Len(queue) \in Nat /\ queue # << >> /\ queue[1] = built.entry /\ Breadth(d)
    BY <1>1, LayoutAssumption DEF IInv, TypeOK, Shape, Progress, BreadthFirst
  <2>2. \A l \in Node : d[l] \in Nat /\ d[l] <= N
    BY <2>1, DistanceFacts
  <2>3. ASSUME NEW l \in Node, d[l] < N, ~ InQueue(l) PROVE FALSE
    <3> DEFINE S == {x \in Nat : \E k \in Node : d[k] = x /\ x < N /\ ~ InQueue(k)}
    <3>1. d[l] \in S
      BY <2>2, <2>3
    <3>2. PICK x \in S : \A y \in S : x <= y
      BY <3>1, Smallest
    <3>3. PICK k \in Node : d[k] = x /\ x < N /\ ~ InQueue(k)
      BY <3>2
    <3>4. k # built.entry
      <4>1. 1 \in 1 .. Len(queue)
        BY <2>1
      <4> QED  BY <4>1, <2>1, <3>3 DEF InQueue
    <3>5. PICK p \in Node : LinksTo(p, k) /\ d[k] = d[p] + 1
      BY <2>1, <3>3, <3>4, DistanceFacts
    <3>6. d[p] \in Nat /\ d[p] < x /\ d[p] < N
      BY <2>1, <2>2, <3>3, <3>5
    <3>7. InQueue(p)
      BY <3>2, <3>6
    <3>8. PICK i \in 1 .. Len(queue) : queue[i] = p
      BY <3>7 DEF InQueue
    <3> QED  BY <2>1, <3>3, <3>5, <3>8 DEF Breadth
  <2>4. PICK i \in 1 .. Len(queue) : queue[i] = m
    BY <2>1, <2>2, <2>3 DEF InQueue
  <2>5. oldToNew[m] = i - 1
    BY <1>1, <2>4 DEF IInv, InOrder
  <2>6. oldToNew[n] \in Nat
    BY <1>1 DEF IInv, Progress, Numbering
  <2>7. ASSUME oldToNew[n] <= i - 1 PROVE FALSE
    <3>1. oldToNew[n] + 1 \in 1 .. Len(queue) /\ oldToNew[n] + 1 <= i
      BY <2>1, <2>6, <2>7
    <3>2. PICK j \in 1 .. Len(queue) : j = oldToNew[n] + 1
      BY <3>1
    <3>3. queue[j] \in Node /\ oldToNew[queue[j]] = oldToNew[n]
      BY <1>1, <2>1, <2>6, <3>2 DEF IInv, InOrder
    <3>4. queue[j] = n
      BY <1>1, <3>3 DEF IInv, Numbering, Progress
    <3>5. d[n] <= d[m]
      BY <2>1, <2>2, <2>4, <3>1, <3>2, <3>4 DEF Breadth
    <3> QED  BY <2>2, <3>5
  <2> QED  BY <2>5, <2>6, <2>7
<1> QED  BY Inductive, <1>1, PTL

-----------------------------------------------------------------------------
(* The rows are packed at every step, first under the old names and after  *)
(* Permute under the new ones.                                             *)
LEMMA RowsStayPacked == Spec => []LayersPacked
<1>1. Init => LayersPacked
  BY DEF Init, LayersPacked
<1>2. IInv /\ LayersPacked /\ [Next]_vars => LayersPacked'
  <2> SUFFICES ASSUME IInv, LayersPacked, [Next]_vars PROVE LayersPacked'
    OBVIOUS
  <2>1. CASE Finalize
    <3>1. stage' = "start"
      BY <2>1 DEF Finalize
    <3>2. Packed(g, OldNames)'
      BY <2>1, FinalizePacks
    <3> QED  BY <3>1, <3>2 DEF LayersPacked
  <2>2. CASE StartWalk \/ VisitNeighbor \/ NextNode \/ AppendRest
    <3>1. /\ UNCHANGED <<built, g>>
          /\ stage \in {"start", "walk"} /\ stage' \in {"start", "walk"}
      BY <2>2 DEF StartWalk, VisitNeighbor, NextNode, AppendRest
    <3>2. Packed(g, OldNames)
      BY <3>1 DEF LayersPacked
    <3>3. UNCHANGED OldNames
      BY DEF OldNames
    <3>4. Packed(g, OldNames)'
      BY <3>1, <3>2, <3>3 DEF Packed, PackedLayer, RowsOf, MaxLayer
    <3> QED  BY <3>1, <3>4 DEF LayersPacked
  <2>3. CASE Permute
    <3>1. stage = "walk" /\ stage' = "done"
      BY <2>3 DEF Permute
    <3>2. Packed(g, OldNames)
      BY <3>1 DEF LayersPacked
    <3>3. Packed(g, oldToNew)'
      BY <2>3, <3>2, PermutePacks
    <3> QED  BY <3>1, <3>3 DEF LayersPacked
  <2>4. CASE UNCHANGED vars
    <3>1. UNCHANGED <<built, g, stage, oldToNew>> /\ UNCHANGED OldNames
      BY <2>4 DEF vars, OldNames
    <3> QED  BY <3>1 DEF LayersPacked, Packed, PackedLayer, RowsOf, MaxLayer
  <2> QED  BY <2>1, <2>2, <2>3, <2>4 DEF Next, Layout, Done
<1> QED  BY Inductive, <1>1, <1>2, PTL DEF Spec

(* Finalize loses nothing, whatever the layers hold: from then on a lookup *)
(* in the packed rows finds the list the builder's map has for the node,   *)
(* and nothing for a node that is not in the map.                          *)
THEOREM FinalizeLosesNothing == Spec => []FinalizeKeepsLayers
<1>1. ASSUME IInv, LayersPacked PROVE FinalizeKeepsLayers
  <2> SUFFICES ASSUME stage \in {"start", "walk"}, NEW L \in 1 .. MaxLayer, NEW n \in Node
               PROVE  UpperNeighbors(g, n, L) = InMap(n, L)
    BY DEF FinalizeKeepsLayers
  <2>1. built \in Built /\ Packed(g, OldNames)
    BY <1>1 DEF IInv, Shape, LayersPacked
  <2>2. /\ OldNames \in [Node -> Node] /\ OldNames[n] = n
        /\ \A k, m \in Node : OldNames[k] = OldNames[m] => k = m
    BY DEF OldNames
  <2>3. UpperNeighbors(g, OldNames[n], L) =
          IF n \in DOMAIN built.layers[L] THEN NamedList(OldNames, built.layers[L][n]) ELSE None
    BY <2>1, <2>2, PackedIsFound
  <2>4. n \in DOMAIN built.layers[L] =>
          NamedList(OldNames, built.layers[L][n]) = built.layers[L][n]
    BY <2>1, LayerFacts, OldNamesKeepLists
  <2> QED  BY <2>2, <2>3, <2>4 DEF InMap
<1> QED  BY Inductive, RowsStayPacked, <1>1, PTL

(* Reordering is a renaming on every layer: after it a search finds, under *)
(* the new id of a node, what it would have found under the old one.       *)
THEOREM ReorderIsARenaming == Spec => []SameGraphRenamed
<1>1. ASSUME IInv, LayersPacked PROVE SameGraphRenamed
  <2> SUFFICES ASSUME stage = "done" PROVE NodesRenamed /\ LayersRenamed
    BY DEF SameGraphRenamed
  <2>1. NodesRenamed /\ built \in Built /\ Packed(g, oldToNew)
    BY <1>1 DEF IInv, Renaming, Shape, LayersPacked
  <2>2. /\ oldToNew \in [Node -> Node]
        /\ \A k, m \in Node : oldToNew[k] = oldToNew[m] => k = m
    <3>1. \A n \in Node : oldToNew[n] # None
      BY <1>1 DEF IInv, Progress
    <3>2. oldToNew \in [Node -> Node \cup {None}]
      BY <1>1 DEF IInv, TypeOK
    <3>3. oldToNew \in [Node -> Node]
      BY <3>1, <3>2
    <3> QED  BY <1>1, <3>1, <3>3 DEF IInv, Numbering
  <2>3. ASSUME NEW n \in Node, NEW L \in 1 .. MaxLayer
        PROVE  UpperNeighbors(g, oldToNew[n], L) =
                 IF n \in DOMAIN built.layers[L] THEN Renamed(built.layers[L][n]) ELSE None
    <3>1. UpperNeighbors(g, oldToNew[n], L) =
            IF n \in DOMAIN built.layers[L] THEN NamedList(oldToNew, built.layers[L][n]) ELSE None
      BY <2>1, <2>2, PackedIsFound
    <3> QED  BY <3>1 DEF NamedList, Renamed
  <2> QED  BY <2>1, <2>3 DEF LayersRenamed
<1> QED  BY Inductive, RowsStayPacked, <1>1, PTL
=============================================================================
