------------------------ MODULE CandidateHeapProofs ------------------------
(***************************************************************************)
(* Proofs about CandidateHeap, for any number of nodes and any distances:  *)
(* the order of the heap between two swaps, and that the heap implements   *)
(* NearestQueue.                                                           *)
(***************************************************************************)
EXTENDS CandidateHeap, SequenceTheorems, WellFoundedInduction, TLAPS

-----------------------------------------------------------------------------
(***************************************************************************)
(* The tree of the indices: a parent is smaller than its child, and its    *)
(* children are the two indices whose parent it is.                        *)
(***************************************************************************)
LEMMA ParentFacts ==
  ASSUME NEW k \in Nat \ {0}
  PROVE  /\ Parent(k) \in Nat /\ Parent(k) < k
         /\ k = Left(Parent(k)) \/ k = Right(Parent(k))
BY SMT DEF Parent, Left, Right

LEMMA ChildFacts ==
  ASSUME NEW k \in Nat
  PROVE  /\ Left(k) \in Nat \ {0} /\ Right(k) \in Nat \ {0}
         /\ k < Left(k) /\ k < Right(k) /\ Left(k) < Right(k)
         /\ Parent(Left(k)) = k /\ Parent(Right(k)) = k
BY SMT DEF Parent, Left, Right

(* Every nonempty set of naturals has a smallest element. *)
LEMMA SmallestOf ==
  ASSUME NEW S \in SUBSET Nat, S # {}
  PROVE  \E x \in S : \A y \in S : x <= y
<1>1. PICK x \in S : \A y \in S : ~ (<<y, x>> \in OpToRel(<, Nat))
  BY NatLessThanWellFounded, WFMin
<1>2. \A y \in S : ~ (y < x)
  BY <1>1 DEF OpToRel
<1> QED  BY <1>2

(* Exchanging two items of a sequence changes nothing else. *)
LEMMA SwapFacts ==
  ASSUME NEW s \in Seq(Node), NEW j \in 0 .. Len(s) - 1, NEW k \in 0 .. Len(s) - 1
  PROVE  /\ Swap(s, j, k) \in Seq(Node) /\ Len(Swap(s, j, k)) = Len(s)
         /\ \A m \in 0 .. Len(s) - 1 :
              Swap(s, j, k)[m + 1] =
                IF m = k THEN s[j + 1] ELSE IF m = j THEN s[k + 1] ELSE s[m + 1]
<1> DEFINE t == [s EXCEPT ![j + 1] = s[k + 1]]
<1>0. Len(s) \in Nat
  BY LenProperties
<1>1. j + 1 \in 1 .. Len(s) /\ k + 1 \in 1 .. Len(s)
  BY <1>0
<1>2. s[j + 1] \in Node /\ s[k + 1] \in Node
  BY <1>1, ElementOfSeq
<1>3. /\ t \in Seq(Node) /\ Len(t) = Len(s)
      /\ \A m \in 1 .. Len(s) : t[m] = IF m = j + 1 THEN s[k + 1] ELSE s[m]
  BY <1>1, <1>2, ExceptSeq
<1> HIDE DEF t
<1>4. /\ [t EXCEPT ![k + 1] = s[j + 1]] \in Seq(Node)
      /\ Len([t EXCEPT ![k + 1] = s[j + 1]]) = Len(t)
      /\ \A m \in 1 .. Len(t) :
           [t EXCEPT ![k + 1] = s[j + 1]][m] = IF m = k + 1 THEN s[j + 1] ELSE t[m]
  BY <1>1, <1>2, <1>3, ExceptSeq
<1>5. Swap(s, j, k) = [t EXCEPT ![k + 1] = s[j + 1]]
  BY DEF Swap, t
<1>6. ASSUME NEW m \in 0 .. Len(s) - 1
      PROVE  Swap(s, j, k)[m + 1] =
               IF m = k THEN s[j + 1] ELSE IF m = j THEN s[k + 1] ELSE s[m + 1]
  <2>1. m + 1 \in 1 .. Len(s) /\ (m + 1 = k + 1 <=> m = k) /\ (m + 1 = j + 1 <=> m = j)
    BY <1>0
  <2> QED  BY <2>1, <1>3, <1>4, <1>5
<1> QED  BY <1>3, <1>4, <1>5, <1>6

-----------------------------------------------------------------------------
(***************************************************************************)
(* The inductive invariant: HeapOrdered is inductive as it stands, given   *)
(* that an index is in range while a sift runs (TypeOK) and zero when none *)
(* does, and, for the refinement, that no node is in the heap twice.       *)
(***************************************************************************)
AtRest == pc = "ready" => i = 0
Distinct == \A j, k \in Index : At(j) = At(k) => j = k

IInv == TypeOK /\ HeapOrdered /\ AtRest /\ Distinct

LEMMA HeapFacts ==
  ASSUME TypeOK
  PROVE  /\ Len(h) \in Nat /\ Index \subseteq Nat
         /\ \A k \in Index : At(k) \in Node /\ D(k) \in Nat
<1>1. Len(h) \in Nat
  BY LenProperties DEF TypeOK
<1>2. ASSUME NEW k \in Index PROVE At(k) \in Node /\ D(k) \in Nat
  <2>1. k + 1 \in 1 .. Len(h)
    BY <1>1 DEF Index
  <2>2. At(k) \in Node
    BY <2>1, ElementOfSeq DEF TypeOK, At
  <2> QED  BY <2>2, HeapAssumption DEF TypeOK, D
<1> QED  BY <1>1, <1>2 DEF Index

(***************************************************************************)
(* Item k and its distance after a step.  (The index is not primed: it is  *)
(* not At(k)' when k is a variable.)                                       *)
(***************************************************************************)
NextAt(k) == h'[k + 1]
NextD(k) == dist'[NextAt(k)]

LEMMA NextOrder ==
  ASSUME \A k \in Index' \ {0} :
           \/ NextD(Parent(k)) <= NextD(k)
           \/ pc' = "up" /\ k = i'
           \/ pc' = "down" /\ Parent(k) = i',
         pc' # "ready" /\ i' > 0 =>
           \A k \in Index' \ {0} : Parent(k) = i' => NextD(Parent(i')) <= NextD(k)
  PROVE  HeapOrdered'
BY DEF HeapOrdered, NoFarther, NextD, NextAt, D, At, Parent

(* One swap: two items change places, and the set of items stays. *)
LEMMA SwapStep ==
  ASSUME TypeOK, NEW j \in Index, NEW k \in Index, h' = Swap(h, j, k), dist' = dist
  PROVE  /\ h' \in Seq(Node) /\ Len(h') = Len(h) /\ Index' = Index
         /\ \A m \in Index :
              NextD(m) = IF m = k THEN D(j) ELSE IF m = j THEN D(k) ELSE D(m)
         /\ Items' = Items
         /\ Distinct => Distinct'
<1>0. h \in Seq(Node) /\ j \in 0 .. Len(h) - 1 /\ k \in 0 .. Len(h) - 1
  BY DEF TypeOK, Index
<1>1. /\ h' \in Seq(Node) /\ Len(h') = Len(h)
      /\ \A m \in 0 .. Len(h) - 1 :
           h'[m + 1] = IF m = k THEN h[j + 1] ELSE IF m = j THEN h[k + 1] ELSE h[m + 1]
  BY <1>0, SwapFacts
<1>2. Index' = Index
  BY <1>1 DEF Index
<1>3. \A m \in Index :
        NextAt(m) = IF m = k THEN At(j) ELSE IF m = j THEN At(k) ELSE At(m)
  BY <1>1 DEF NextAt, At, Index
<1>4. \A m \in Index :
        NextD(m) = IF m = k THEN D(j) ELSE IF m = j THEN D(k) ELSE D(m)
  BY <1>3 DEF NextD, D
<1>5. Items' = {NextAt(m) : m \in Index}
  BY <1>2 DEF Items, At, NextAt
<1>6. Items' = Items
  BY <1>3, <1>5 DEF Items
<1>7. Distinct' = \A a, b \in Index : NextAt(a) = NextAt(b) => a = b
  BY <1>2 DEF Distinct, At, NextAt
<1>8. Distinct => Distinct'
  BY <1>3, <1>7 DEF Distinct
<1> QED  BY <1>1, <1>2, <1>4, <1>6, <1>8

-----------------------------------------------------------------------------
LEMMA InitIInv == Init => IInv
<1> SUFFICES ASSUME Init PROVE IInv
  OBVIOUS
<1>1. Len(h) = 0 /\ h \in Seq(Node) /\ Index = {}
  BY EmptySeq DEF Init, Index
<1> QED  BY <1>1 DEF Init, IInv, TypeOK, HeapOrdered, AtRest, Distinct

LEMMA PushKeeps == ASSUME IInv, Push PROVE IInv'
<1>0. TypeOK /\ HeapOrdered /\ Distinct
  BY DEF IInv
<1>1. PICK n \in Node \ Items : h' = Append(h, n)
  BY DEF Push
<1>2. /\ Len(h) \in Nat /\ Index \subseteq Nat
      /\ \A k \in Index : At(k) \in Node /\ D(k) \in Nat
  BY <1>0, HeapFacts
<1>3. /\ h' \in Seq(Node) /\ Len(h') = Len(h) + 1
      /\ \A m \in 1 .. Len(h) : h'[m] = h[m]
      /\ h'[Len(h) + 1] = n
  BY <1>0, <1>1, AppendProperties DEF TypeOK
<1>4. Index' = Index \cup {Len(h)} /\ Len(h) \notin Index
  BY <1>2, <1>3 DEF Index
<1>5. NextAt(Len(h)) = n /\ \A k \in Index : NextAt(k) = At(k) /\ NextD(k) = D(k)
  BY <1>2, <1>3 DEF Push, NextAt, NextD, At, D, Index
<1>6. TypeOK'
  BY <1>0, <1>2, <1>3, <1>4 DEF TypeOK, Push
<1>7. Distinct'
  <2>1. \A a, b \in Index' : NextAt(a) = NextAt(b) => a = b
    BY <1>0, <1>4, <1>5 DEF Distinct, Items
  <2> QED  BY <2>1 DEF Distinct, At, NextAt
<1>8. ASSUME NEW k \in Index' \ {0}, k # Len(h)
      PROVE  NextD(Parent(k)) <= NextD(k)
  <2>1. k \in Index \ {0} /\ k \in Nat \ {0}
    BY <1>2, <1>4, <1>8
  <2>2. Parent(k) \in Index
    BY <1>2, <2>1, ParentFacts DEF Index
  <2>3. D(Parent(k)) <= D(k)
    BY <1>0, <2>1 DEF HeapOrdered, Push, NoFarther
  <2> QED  BY <1>5, <2>1, <2>2, <2>3
<1>9. ASSUME NEW k \in Index' \ {0} PROVE Parent(k) # i'
  <2>1. k \in Nat \ {0} /\ k <= Len(h)
    BY <1>2, <1>4 DEF Index
  <2> QED  BY <1>2, <2>1, ParentFacts DEF Push
<1>10. i' = Len(h) /\ pc' = "up"
  BY DEF Push
<1>11. HeapOrdered'
  BY <1>8, <1>9, <1>10, NextOrder
<1> QED  BY <1>6, <1>7, <1>10, <1>11 DEF IInv, AtRest

LEMMA SiftUpKeeps == ASSUME IInv, SiftUp PROVE IInv'
<1> DEFINE p == Parent(i)
<1>0. TypeOK /\ HeapOrdered /\ Distinct
  BY DEF IInv
<1>1. i \in Index \ {0} /\ p \in Index /\ p < i
  BY <1>0, HeapFacts, ParentFacts DEF SiftUp, TypeOK, Index
<1>2. /\ h' \in Seq(Node) /\ Len(h') = Len(h) /\ Index' = Index
      /\ \A m \in Index :
           NextD(m) = IF m = i THEN D(p) ELSE IF m = p THEN D(i) ELSE D(m)
      /\ Distinct'
  BY <1>0, <1>1, SwapStep DEF SiftUp
<1>3. \A k \in Index : D(k) \in Nat
  BY <1>0, HeapFacts
<1>4. TypeOK'
  BY <1>0, <1>1, <1>2 DEF TypeOK, SiftUp, Index
<1>5. /\ D(i) < D(p)
      /\ \A k \in Index \ {0} : k # i => D(Parent(k)) <= D(k)
      /\ \A k \in Index \ {0} : Parent(k) = i => D(p) <= D(k)
  BY <1>0, <1>1, <1>3 DEF HeapOrdered, SiftUp, NoFarther
<1>6. \A k \in Index \ {0} : Parent(k) \in Index /\ Parent(k) # k
  BY <1>0, HeapFacts, ParentFacts DEF Index
<1> HIDE DEF p
<1>7. ASSUME NEW k \in Index \ {0}, k # p PROVE NextD(Parent(k)) <= NextD(k)
  <2>1. Parent(k) \in Index /\ Parent(k) # k
    BY <1>6
  <2>2. CASE k = i
    <3>1. Parent(k) = p
      BY <2>2 DEF p
    <3> QED  BY <1>1, <1>2, <1>3, <1>5, <2>2, <3>1
  <2>3. CASE k # i /\ Parent(k) = i
    BY <1>1, <1>2, <1>3, <1>5, <1>7, <2>1, <2>3
  <2>4. CASE k # i /\ Parent(k) = p
    BY <1>1, <1>2, <1>3, <1>5, <1>7, <2>1, <2>4
  <2>5. CASE k # i /\ Parent(k) # i /\ Parent(k) # p
    BY <1>1, <1>2, <1>3, <1>5, <1>7, <2>1, <2>5
  <2> QED  BY <2>2, <2>3, <2>4, <2>5
<1>8. ASSUME NEW k \in Index \ {0}, p > 0, Parent(k) = p
      PROVE  NextD(Parent(p)) <= NextD(k)
  <2>1. /\ p \in Index \ {0} /\ Parent(p) \in Index /\ Parent(p) < p
        /\ k # p /\ D(Parent(p)) <= D(p)
    BY <1>0, <1>1, <1>5, <1>6, <1>8, HeapFacts, ParentFacts DEF Index
  <2>2. NextD(Parent(p)) = D(Parent(p))
    <3>1. i \in Nat /\ p \in Nat /\ Parent(p) \in Nat
      BY <1>0, <1>1, <2>1, HeapFacts
    <3> QED  BY <1>1, <1>2, <2>1, <3>1
  <2>3. CASE k = i
    BY <1>2, <2>1, <2>2, <2>3
  <2>4. CASE k # i
    <3>1. D(p) <= D(k) /\ NextD(k) = D(k)
      BY <1>2, <1>5, <1>8, <2>1, <2>4
    <3> QED  BY <1>3, <2>1, <2>2, <3>1
  <2> QED  BY <2>3, <2>4
<1>9. pc' = "up" /\ i' = p
  BY DEF SiftUp, p
<1>10. HeapOrdered'
  BY <1>2, <1>7, <1>8, <1>9, NextOrder
<1> QED  BY <1>2, <1>4, <1>9, <1>10 DEF IInv, AtRest

LEMMA EndUpKeeps == ASSUME IInv, EndUp PROVE IInv'
<1>0. TypeOK /\ HeapOrdered /\ Distinct
  BY DEF IInv
<1>1. /\ h' = h /\ dist' = dist /\ taken' = taken /\ i' = 0 /\ pc' = "ready"
      /\ pc = "up" /\ (i > 0 => D(Parent(i)) <= D(i)) /\ i \in Nat
  BY <1>0, HeapFacts DEF EndUp, TypeOK
<1>2. TypeOK' /\ Distinct' /\ Index' = Index
  BY <1>0, <1>1, HeapFacts DEF TypeOK, Distinct, Index, At
<1>3. \A k \in Index : NextD(k) = D(k)
  BY <1>1 DEF NextD, NextAt, D, At
<1>4. ASSUME NEW k \in Index \ {0} PROVE NextD(Parent(k)) <= NextD(k)
  <2>1. k \in Nat \ {0} /\ Parent(k) \in Index
    BY <1>0, HeapFacts, ParentFacts DEF Index
  <2>2. D(Parent(k)) <= D(k)
    BY <1>0, <1>1, <2>1 DEF HeapOrdered, NoFarther
  <2> QED  BY <1>3, <2>1, <2>2
<1>5. HeapOrdered'
  BY <1>1, <1>2, <1>4, NextOrder
<1> QED  BY <1>1, <1>2, <1>5 DEF IInv, AtRest

(* The root leaves, and the last item takes its place. *)
LEMMA PopFacts ==
  ASSUME TypeOK, Pop
  PROVE  \/ /\ Len(h) = 1 /\ h' = << >> /\ pc' = "ready"
         \/ /\ Len(h) > 1 /\ pc' = "down"
            /\ h' \in Seq(Node) /\ Len(h') = Len(h) - 1
            /\ NextAt(0) = At(Len(h) - 1)
            /\ \A m \in 1 .. Len(h) - 2 : NextAt(m) = At(m)
<1>0. Len(h) \in Nat \ {0} /\ h \in Seq(Node)
  BY EmptySeq DEF Pop, TypeOK
<1>1. CASE Len(h) <= 1
  BY <1>0, <1>1 DEF Pop
<1>2. CASE Len(h) > 1
  <2> DEFINE s == SubSeq(h, 1, Len(h) - 1)
  <2>1. \A m \in 1 .. Len(h) : h[m] \in Node
    BY <1>0, ElementOfSeq
  <2>2. /\ s \in Seq(Node) /\ Len(s) = Len(h) - 1
        /\ \A m \in 1 .. Len(h) - 1 : s[m] = h[m]
    <3>1. \A m \in 1 .. Len(h) - 1 : h[m] \in Node
      BY <1>0, <2>1
    <3>2. 1 \in Int /\ Len(h) - 1 \in Int
      BY <1>0
    <3>3. /\ s \in Seq(Node)
          /\ Len(s) = IF 1 <= Len(h) - 1 THEN Len(h) - 1 - 1 + 1 ELSE 0
          /\ \A m \in 1 .. Len(h) - 1 - 1 + 1 : s[m] = h[1 + m - 1]
      BY <3>1, <3>2, SubSeqProperties
    <3>4. Len(s) = Len(h) - 1
      BY <1>0, <1>2, <3>3
    <3>5. ASSUME NEW m \in 1 .. Len(h) - 1 PROVE s[m] = h[m]
      <4>1. m \in 1 .. Len(h) - 1 - 1 + 1 /\ 1 + m - 1 = m
        BY <1>0
      <4> QED  BY <3>3, <4>1
    <3> QED  BY <3>3, <3>4, <3>5
  <2> HIDE DEF s
  <2>3. h' = [s EXCEPT ![1] = h[Len(h)]] /\ pc' = "down"
    BY <1>0, <1>2 DEF Pop, s
  <2>4. /\ h' \in Seq(Node) /\ Len(h') = Len(s)
        /\ \A m \in 1 .. Len(s) : h'[m] = IF m = 1 THEN h[Len(h)] ELSE s[m]
    <3>1. 1 \in 1 .. Len(s) /\ h[Len(h)] \in Node
      BY <1>0, <1>2, <2>1, <2>2
    <3> QED  BY <2>2, <2>3, <3>1, ExceptSeq
  <2>5. NextAt(0) = At(Len(h) - 1)
    <3>1. 0 + 1 = 1 /\ 1 \in 1 .. Len(s) /\ Len(h) - 1 + 1 = Len(h)
      BY <1>0, <1>2, <2>2
    <3> QED  BY <2>4, <3>1 DEF NextAt, At
  <2>6. ASSUME NEW m \in 1 .. Len(h) - 2 PROVE NextAt(m) = At(m)
    <3>1. m + 1 \in 1 .. Len(h) - 1 /\ m + 1 # 1
      BY <1>0, <1>2
    <3> QED  BY <2>2, <2>4, <3>1 DEF NextAt, At
  <2> QED  BY <1>2, <2>2, <2>3, <2>4, <2>5, <2>6
<1> QED  BY <1>0, <1>1, <1>2

LEMMA PopKeeps == ASSUME IInv, Pop PROVE IInv'
<1>0. TypeOK /\ HeapOrdered /\ Distinct
  BY DEF IInv
<1>1. /\ pc = "ready" /\ dist' = dist /\ taken' = At(0) /\ i' = 0
      /\ Len(h) \in Nat \ {0} /\ Index \subseteq Nat
  BY <1>0, HeapFacts, EmptySeq DEF Pop, TypeOK
<1>2. taken' \in Node
  <2>1. 0 \in Index
    BY <1>1 DEF Index
  <2> QED  BY <1>0, <1>1, <2>1, HeapFacts
<1>3. CASE h' = << >> /\ pc' = "ready"
  <2>1. Len(h') = 0 /\ h' \in Seq(Node) /\ Index' = {}
    BY <1>3, EmptySeq DEF Index
  <2> QED  BY <1>0, <1>1, <1>2, <1>3, <2>1 DEF IInv, TypeOK, HeapOrdered, AtRest, Distinct
<1>4. CASE /\ Len(h) > 1 /\ pc' = "down"
           /\ h' \in Seq(Node) /\ Len(h') = Len(h) - 1
           /\ NextAt(0) = At(Len(h) - 1)
           /\ \A m \in 1 .. Len(h) - 2 : NextAt(m) = At(m)
  <2>1. Index' = 0 .. Len(h) - 2 /\ 0 \in Index' /\ Index' \subseteq Index
    BY <1>1, <1>4 DEF Index
  <2>2. TypeOK'
    BY <1>0, <1>1, <1>2, <1>4, <2>1 DEF TypeOK
  <2>3. \A m \in Index' \ {0} : NextAt(m) = At(m) /\ NextD(m) = D(m)
    BY <1>1, <1>4, <2>1 DEF NextD, D
  <2>4. Distinct'
    <3>1. \A a, b \in Index' : NextAt(a) = NextAt(b) => a = b
      BY <1>0, <1>1, <1>4, <2>1, <2>3 DEF Distinct, Index
    <3> QED  BY <3>1 DEF Distinct, At, NextAt
  <2>5. ASSUME NEW k \in Index' \ {0}, Parent(k) # 0 PROVE NextD(Parent(k)) <= NextD(k)
    <3>1. k \in Nat \ {0} /\ k \in Index
      BY <1>1, <2>1
    <3>2. Parent(k) \in Index' \ {0}
      BY <1>1, <2>1, <2>5, <3>1, ParentFacts
    <3>3. D(Parent(k)) <= D(k)
      BY <1>0, <1>1, <3>1 DEF HeapOrdered, NoFarther
    <3> QED  BY <2>3, <3>2, <3>3
  <2>6. HeapOrdered'
    BY <1>1, <1>4, <2>5, NextOrder
  <2> QED  BY <1>4, <2>2, <2>4, <2>6 DEF IInv, AtRest
<1> QED  BY <1>0, <1>3, <1>4, PopFacts

LEMMA SiftDownKeeps == ASSUME IInv, SiftDown PROVE IInv'
<1> DEFINE c == Smallest(i)
<1>0. TypeOK /\ HeapOrdered /\ Distinct
  BY DEF IInv
<1>1. \A k \in Index : D(k) \in Nat
  BY <1>0, HeapFacts
<1>2. /\ pc = "down" /\ i \in Index /\ i \in Nat /\ Left(i) < Len(h) /\ Len(h) \in Nat
      /\ Index \subseteq Nat
  BY <1>0, HeapFacts DEF SiftDown, TypeOK
<1>3. /\ Left(i) \in Index \ {0} /\ (Right(i) < Len(h) => Right(i) \in Index \ {0})
      /\ Left(i) \in Nat \ {0} /\ Right(i) \in Nat \ {0} /\ Left(i) > i /\ Right(i) > i
      /\ Parent(Left(i)) = i /\ Parent(Right(i)) = i
  <2>1. /\ Left(i) \in Nat \ {0} /\ Right(i) \in Nat \ {0} /\ Left(i) > i /\ Right(i) > i
        /\ Parent(Left(i)) = i /\ Parent(Right(i)) = i
    BY <1>2, ChildFacts
  <2> QED  BY <1>2, <2>1 DEF Index
<1>4. /\ c \in Index \ {0} /\ Parent(c) = i /\ i < c
      /\ D(c) <= D(Left(i)) /\ (Right(i) < Len(h) => D(c) <= D(Right(i)))
  BY <1>1, <1>2, <1>3 DEF Smallest
<1> HIDE DEF c
<1>5. /\ h' = Swap(h, i, c) /\ i' = c /\ pc' = "down" /\ dist' = dist /\ taken' = taken
      /\ D(c) < D(i)
  BY <1>1, <1>2, <1>4 DEF SiftDown, c
<1>6. /\ h' \in Seq(Node) /\ Len(h') = Len(h) /\ Index' = Index
      /\ \A m \in Index :
           NextD(m) = IF m = c THEN D(i) ELSE IF m = i THEN D(c) ELSE D(m)
      /\ Distinct'
  BY <1>0, <1>2, <1>4, <1>5, SwapStep
<1>7. TypeOK'
  BY <1>0, <1>2, <1>4, <1>5, <1>6 DEF TypeOK, Index
<1>8. \A k \in Index \ {0} : Parent(k) # i => D(Parent(k)) <= D(k)
  BY <1>0, <1>2 DEF HeapOrdered, NoFarther
<1>9. ASSUME NEW k \in Index \ {0}, Parent(k) = i PROVE D(c) <= D(k)
  <2>1. k \in Nat \ {0} /\ k < Len(h)
    BY <1>2 DEF Index
  <2>2. k = Left(i) \/ k = Right(i)
    BY <1>9, <2>1, ParentFacts
  <2> QED  BY <1>4, <2>1, <2>2
<1>10. ASSUME NEW k \in Index \ {0}
       PROVE  k \in Nat \ {0} /\ Parent(k) \in Index /\ Parent(k) < k
  BY <1>2, ParentFacts DEF Index
<1>11. i > 0 => \A k \in Index \ {0} : Parent(k) = i => D(Parent(i)) <= D(k)
  BY <1>0, <1>2 DEF HeapOrdered, NoFarther
<1>12. ASSUME NEW k \in Index \ {0}, Parent(k) # c PROVE NextD(Parent(k)) <= NextD(k)
  <2>1. k \in Nat \ {0} /\ Parent(k) \in Index /\ Parent(k) < k
    BY <1>10
  <2>2. CASE k = c
    BY <1>1, <1>2, <1>4, <1>5, <1>6, <2>2
  <2>3. CASE k # c /\ Parent(k) = i
    <3>1. NextD(Parent(k)) = D(c) /\ NextD(k) = D(k)
      BY <1>2, <1>4, <1>6, <2>1, <2>3
    <3> QED  BY <1>9, <2>3, <3>1
  <2>4. CASE k = i
    <3>0. k # c /\ Parent(k) # i
      BY <1>2, <1>4, <2>1, <2>4
    <3>1. NextD(Parent(k)) = D(Parent(k)) /\ NextD(k) = D(c)
      BY <1>6, <1>12, <2>1, <2>4, <3>0
    <3>2. D(Parent(k)) <= D(c)
      BY <1>2, <1>4, <1>11, <2>1, <2>4
    <3> QED  BY <3>1, <3>2
  <2>5. CASE k # c /\ k # i /\ Parent(k) # i
    <3>1. NextD(Parent(k)) = D(Parent(k)) /\ NextD(k) = D(k)
      BY <1>6, <1>12, <2>1, <2>5
    <3> QED  BY <1>8, <2>5, <3>1
  <2> QED  BY <2>2, <2>3, <2>4, <2>5
<1>13. ASSUME NEW k \in Index \ {0}, Parent(k) = c PROVE NextD(Parent(c)) <= NextD(k)
  <2>1. k \in Nat \ {0} /\ c < k /\ k # c /\ k # i
    BY <1>2, <1>4, <1>10, <1>13
  <2>2. NextD(Parent(c)) = D(c) /\ NextD(k) = D(k)
    BY <1>2, <1>4, <1>6, <2>1
  <2>3. D(Parent(k)) <= D(k)
    <3>1. Parent(k) # i
      BY <1>2, <1>4, <1>13
    <3> QED  BY <1>8, <3>1
  <2> QED  BY <1>13, <2>2, <2>3
<1>14. HeapOrdered'
  BY <1>5, <1>6, <1>12, <1>13, NextOrder
<1> QED  BY <1>5, <1>6, <1>7, <1>14 DEF IInv, AtRest

LEMMA EndDownKeeps == ASSUME IInv, EndDown PROVE IInv'
<1>0. TypeOK /\ HeapOrdered /\ Distinct
  BY DEF IInv
<1>1. /\ h' = h /\ dist' = dist /\ taken' = taken /\ i' = 0 /\ pc' = "ready"
      /\ pc = "down" /\ i \in Index /\ i \in Nat /\ Len(h) \in Nat /\ Index \subseteq Nat
  BY <1>0, HeapFacts DEF EndDown, TypeOK
<1>2. TypeOK' /\ Distinct' /\ Index' = Index
  BY <1>0, <1>1 DEF TypeOK, Distinct, Index, At
<1>3. \A k \in Index : NextD(k) = D(k) /\ D(k) \in Nat
  BY <1>0, <1>1, HeapFacts DEF NextD, NextAt, D, At
<1>4. ASSUME NEW k \in Index \ {0} PROVE NextD(Parent(k)) <= NextD(k)
  <2>1. k \in Nat \ {0} /\ Parent(k) \in Index /\ k < Len(h)
    BY <1>1, ParentFacts DEF Index
  <2>2. CASE Parent(k) # i
    BY <1>0, <1>1, <1>3, <2>1, <2>2 DEF HeapOrdered, NoFarther
  <2>3. CASE Parent(k) = i
    <3>1. k = Left(i) \/ k = Right(i)
      BY <2>1, <2>3, ParentFacts
    <3>2. Left(i) \in Nat /\ Right(i) \in Nat /\ Left(i) < Right(i)
      BY <1>1, ChildFacts
    <3>3. Left(i) \in Index /\ D(i) <= D(Smallest(i))
      BY <1>1, <2>1, <3>1, <3>2 DEF EndDown, Index
    <3>4. D(Smallest(i)) <= D(k)
      <4>1. CASE k = Left(i)
        <5>1. Right(i) < Len(h) => Right(i) \in Index
          BY <1>1, <3>2 DEF Index
        <5>2. D(Left(i)) \in Nat /\ (Right(i) < Len(h) => D(Right(i)) \in Nat)
          BY <1>3, <3>3, <5>1
        <5> QED  BY <4>1, <5>2 DEF Smallest
      <4>2. CASE k = Right(i)
        BY <1>3, <2>1, <3>2, <3>3, <4>2 DEF Smallest
      <4> QED  BY <3>1, <4>1, <4>2
    <3>5. Smallest(i) \in Index
      BY <1>1, <3>2, <3>3 DEF Smallest, Index
    <3>6. NextD(Parent(k)) = D(i) /\ NextD(k) = D(k)
      BY <1>1, <1>3, <2>1, <2>3
    <3>7. D(i) \in Nat /\ D(Smallest(i)) \in Nat /\ D(k) \in Nat
      BY <1>1, <1>3, <3>5
    <3> QED  BY <3>3, <3>4, <3>6, <3>7
  <2> QED  BY <2>2, <2>3
<1>5. HeapOrdered'
  BY <1>1, <1>2, <1>4, NextOrder
<1> QED  BY <1>1, <1>2, <1>5 DEF IInv, AtRest

LEMMA ClearKeeps == ASSUME IInv, Clear PROVE IInv'
<1>1. Len(h') = 0 /\ h' \in Seq(Node) /\ Index' = {}
  BY EmptySeq DEF Clear, Index
<1>2. pc' = "ready" /\ dist' = dist /\ taken' = None /\ i' = i /\ i = 0
  BY DEF Clear, IInv, AtRest
<1> QED  BY <1>1, <1>2 DEF IInv, TypeOK, HeapOrdered, AtRest, Distinct

(***************************************************************************)
(* The type of the heap, its order, and that it holds no node twice are an *)
(* inductive invariant.                                                    *)
(***************************************************************************)
THEOREM Inductive == Spec => []IInv
<1>1. IInv /\ [Next]_vars => IInv'
  <2> SUFFICES ASSUME IInv, [Next]_vars PROVE IInv'
    OBVIOUS
  <2>1. CASE UNCHANGED vars
    BY <2>1 DEF vars, IInv, TypeOK, HeapOrdered, AtRest, Distinct, NoFarther, D, At, Index,
                Parent
  <2> QED  BY <2>1, PushKeeps, PopKeeps, ClearKeeps, SiftUpKeeps, EndUpKeeps,
              SiftDownKeeps, EndDownKeeps DEF Next, Sift
<1> QED  BY <1>1, InitIInv, PTL DEF Spec

(***************************************************************************)
(* Every variable of the heap keeps its type: no sift of pushMin or popMin *)
(* leaves the slice.                                                       *)
(***************************************************************************)
THEOREM TypeCorrect == Spec => []TypeOK
<1>1. IInv => TypeOK
  BY DEF IInv
<1> QED  BY <1>1, Inductive, PTL

(***************************************************************************)
(* The heap is ordered between operations, and between two swaps of a sift *)
(* everywhere but at the item being moved, however many nodes there are.   *)
(***************************************************************************)
THEOREM HeapIsOrdered == Spec => []HeapOrdered
<1>1. IInv => HeapOrdered
  BY DEF IInv
<1> QED  BY <1>1, Inductive, PTL

-----------------------------------------------------------------------------
(***************************************************************************)
(* In an ordered heap the root is a nearest item: otherwise the nearer     *)
(* item of smallest index would have a nearer parent.                      *)
(***************************************************************************)
LEMMA RootIsNearest ==
  ASSUME TypeOK, HeapOrdered, pc = "ready", h # << >>
  PROVE  0 \in Index /\ \A k \in Index : D(0) <= D(k)
<1>1. /\ Len(h) \in Nat \ {0} /\ Index \subseteq Nat /\ 0 \in Index
      /\ \A k \in Index : D(k) \in Nat
  BY HeapFacts, EmptySeq DEF TypeOK, Index
<1> DEFINE nearer == {k \in Index : D(k) < D(0)}
<1>2. ASSUME nearer # {} PROVE FALSE
  <2>1. PICK x \in nearer : \A y \in nearer : x <= y
    BY <1>1, <1>2, SmallestOf
  <2>2. x \in Index /\ x \in Nat \ {0} /\ D(x) < D(0)
    BY <1>1
  <2>3. Parent(x) \in Index /\ Parent(x) \in Nat /\ Parent(x) < x
    BY <1>1, <2>2, ParentFacts DEF Index
  <2>4. Parent(x) \notin nearer
    BY <2>1, <2>2, <2>3
  <2>5. D(Parent(x)) <= D(x)
    BY <2>2 DEF HeapOrdered, NoFarther
  <2>6. D(x) \in Nat /\ D(0) \in Nat /\ D(Parent(x)) \in Nat
    BY <1>1, <2>2, <2>3
  <2> QED  BY <2>2, <2>3, <2>4, <2>5, <2>6
<1> QED  BY <1>1, <1>2

LEMMA PushAdds == ASSUME IInv, Push PROVE Queue!Add
<1>1. PICK n \in Node \ Items : h' = Append(h, n)
  BY DEF Push
<1>2. /\ Len(h) \in Nat /\ Len(h') = Len(h) + 1
      /\ \A m \in 1 .. Len(h) : h'[m] = h[m]
      /\ h'[Len(h) + 1] = n
  BY <1>1, HeapFacts, AppendProperties DEF IInv, TypeOK
<1>3. Index' = Index \cup {Len(h)} /\ \A k \in Index : NextAt(k) = At(k)
  BY <1>2 DEF Index, NextAt, At
<1>4. NextAt(Len(h)) = n
  BY <1>2 DEF NextAt
<1>5. Items' = {NextAt(k) : k \in Index'}
  BY DEF Items, At, NextAt
<1>6. Items' = Items \cup {n}
  BY <1>3, <1>4, <1>5 DEF Items
<1> QED  BY <1>1, <1>6 DEF Queue!Add, Push

LEMMA PopTakes == ASSUME IInv, Pop PROVE Queue!Take
<1>0. TypeOK /\ HeapOrdered /\ Distinct /\ pc = "ready" /\ h # << >>
  BY DEF IInv, Pop
<1>1. 0 \in Index /\ \A k \in Index : D(0) <= D(k)
  BY <1>0, RootIsNearest
<1>2. At(0) \in Items /\ \A other \in Items : dist[At(0)] <= dist[other]
  BY <1>1 DEF Items, D
<1>3. Items' = {NextAt(k) : k \in Index'}
  BY DEF Items, At, NextAt
<1>4. Len(h) \in Nat \ {0}
  BY <1>0, EmptySeq DEF TypeOK
<1>5. ASSUME Len(h) = 1, h' = << >> PROVE Items' = Items \ {At(0)}
  <2>1. Index = {0} /\ Index' = {}
    BY <1>5, EmptySeq DEF Index
  <2> QED  BY <1>3, <2>1 DEF Items
<1>6. ASSUME Len(h) > 1, Len(h') = Len(h) - 1, NextAt(0) = At(Len(h) - 1),
             \A m \in 1 .. Len(h) - 2 : NextAt(m) = At(m)
      PROVE  Items' = Items \ {At(0)}
  <2>1. /\ Index' = {0} \cup (1 .. Len(h) - 2)
        /\ Index \ {0} = {Len(h) - 1} \cup (1 .. Len(h) - 2)
    BY <1>4, <1>6 DEF Index
  <2>2. {NextAt(k) : k \in Index'} = {At(k) : k \in Index \ {0}}
    BY <1>6, <2>1
  <2>3. {At(k) : k \in Index \ {0}} = Items \ {At(0)}
    BY <1>0, <1>1 DEF Items, Distinct
  <2> QED  BY <1>3, <2>2, <2>3
<1>7. Items' = Items \ {At(0)}
  BY <1>0, <1>5, <1>6, PopFacts
<1> QED  BY <1>2, <1>7 DEF Queue!Take, Pop

LEMMA SiftsAreInvisible == ASSUME IInv, Sift PROVE UNCHANGED Queue!vars
<1>0. TypeOK /\ Index \subseteq Nat /\ Len(h) \in Nat
  BY HeapFacts DEF IInv
<1>1. CASE SiftUp
  <2>1. i \in Index /\ Parent(i) \in Index
    BY <1>0, <1>1, ParentFacts DEF SiftUp, TypeOK, Index
  <2> QED  BY <1>0, <1>1, <2>1, SwapStep DEF SiftUp, Queue!vars
<1>2. CASE SiftDown
  <2>1. i \in Index /\ i \in Nat /\ Left(i) < Len(h)
    BY <1>0, <1>2 DEF SiftDown, TypeOK
  <2>2. Left(i) \in Nat /\ Right(i) \in Nat
    BY <2>1, ChildFacts
  <2>3. Smallest(i) \in Index
    BY <1>0, <2>1, <2>2 DEF Smallest, Index
  <2> QED  BY <1>0, <1>2, <2>1, <2>3, SwapStep DEF SiftDown, Queue!vars
<1>3. CASE EndUp \/ EndDown
  BY <1>3 DEF EndUp, EndDown, Queue!vars, Items, Index, At
<1> QED  BY <1>1, <1>2, <1>3 DEF Sift

(***************************************************************************)
(* The heap implements the queue of nearest nodes that the search takes    *)
(* its candidates to be: popMin takes a nearest one, and no operation      *)
(* loses or repeats a node, for any number of nodes and any distances.     *)
(***************************************************************************)
THEOREM HeapIsAQueue == Spec => ImplementsQueue
<1>1. Init => Queue!Init
  <2> SUFFICES ASSUME Init PROVE Queue!Init
    OBVIOUS
  <2>1. Index = {}
    BY EmptySeq DEF Init, Index
  <2> QED  BY <2>1, HeapAssumption DEF Init, Queue!Init, Items
<1>2. IInv /\ [Next]_vars => [Queue!Next]_(Queue!vars)
  <2> SUFFICES ASSUME IInv, [Next]_vars PROVE [Queue!Next]_(Queue!vars)
    OBVIOUS
  <2>1. CASE Clear
    <3>1. Index' = {}
      BY <2>1, EmptySeq DEF Clear, Index
    <3> QED  BY <2>1, <3>1 DEF Clear, Queue!Next, Queue!Empty, Items
  <2>2. CASE UNCHANGED vars
    BY <2>2 DEF vars, Queue!vars, Items, Index, At
  <2> QED  BY <2>1, <2>2, PushAdds, PopTakes, SiftsAreInvisible DEF Next, Queue!Next
<1> QED  BY <1>1, <1>2, Inductive, PTL DEF Spec, ImplementsQueue, Queue!Spec

-----------------------------------------------------------------------------
(***************************************************************************)
(* A sift ends: it moves towards the root, or towards the leaves, and      *)
(* SwapsLeft is how far it may still go.                                   *)
(***************************************************************************)
SwapsLeft == IF pc = "up" THEN i + 1 ELSE IF pc = "down" THEN Len(h) - i ELSE 0

(***************************************************************************)
(* Every step of a running pushMin or popMin leaves fewer swaps to make.   *)
(* With the fairness of the loop that is SiftsEnd.                         *)
(***************************************************************************)
THEOREM SiftsRunOut ==
  Spec => [][pc # "ready" => SwapsLeft' \in Nat /\ SwapsLeft' < SwapsLeft]_vars
<1>1. ASSUME IInv, pc # "ready", Next
      PROVE  SwapsLeft' \in Nat /\ SwapsLeft' < SwapsLeft
  <2>1. /\ Len(h) \in Nat /\ i \in 0 .. Len(h) - 1 /\ i \in Nat /\ h \in Seq(Node)
    BY <1>1, LenProperties DEF IInv, TypeOK, Index
  <2>2. CASE Push \/ Pop \/ Clear
    BY <1>1, <2>2 DEF Push, Pop, Clear
  <2>3. CASE SiftUp
    <3>1. pc = "up" /\ pc' = "up" /\ i # 0 /\ i' = Parent(i)
      BY <2>1, <2>3 DEF SiftUp
    <3>2. Parent(i) \in Nat /\ Parent(i) < i
      BY <2>1, <3>1, ParentFacts
    <3> QED  BY <2>1, <3>1, <3>2 DEF SwapsLeft
  <2>4. CASE EndUp
    BY <2>1, <2>4 DEF EndUp, SwapsLeft
  <2>5. CASE SiftDown
    <3>1. /\ pc = "down" /\ pc' = "down" /\ Left(i) < Len(h) /\ i' = Smallest(i)
          /\ h' = Swap(h, i, Smallest(i))
      BY <2>5 DEF SiftDown
    <3>2. /\ Left(i) \in Nat /\ Right(i) \in Nat /\ i < Left(i) /\ i < Right(i)
      BY <2>1, ChildFacts
    <3>3. Smallest(i) \in Nat /\ i < Smallest(i) /\ Smallest(i) < Len(h)
      BY <3>1, <3>2 DEF Smallest
    <3>4. Len(h') = Len(h)
      BY <2>1, <3>1, <3>3, SwapFacts
    <3> QED  BY <2>1, <3>1, <3>3, <3>4 DEF SwapsLeft
  <2>6. CASE EndDown
    BY <2>1, <2>6 DEF EndDown, SwapsLeft
  <2> QED  BY <1>1, <2>2, <2>3, <2>4, <2>5, <2>6 DEF Next, Sift
<1>2. IInv /\ [Next]_vars =>
        [pc # "ready" => SwapsLeft' \in Nat /\ SwapsLeft' < SwapsLeft]_vars
  BY <1>1
<1> QED  BY <1>2, Inductive, PTL DEF Spec
=============================================================================
