-------------------------- MODULE IndexFileProofs --------------------------
(***************************************************************************)
(* Proofs about IndexFile, for any number of builds and instances, graphs  *)
(* of any sizes, and any alignment that is a multiple of four: whatever is *)
(* cut short, the header's write included, an instance serves the nodes of *)
(* one build; and a build that wrote its header reads its file back.       *)
(***************************************************************************)
EXTENDS IndexFile, SequenceTheorems, TLAPS

-----------------------------------------------------------------------------
(* Division with remainder, and what a multiple leaves. *)
LEMMA DivMod ==
  ASSUME NEW n \in Nat, NEW d \in Nat \ {0}
  PROVE  n = d * (n \div d) + (n % d) /\ n % d \in 0 .. d - 1 /\ n \div d \in Nat
BY SMT

LEMMA MultipleMod ==
  ASSUME NEW q \in Nat, NEW d \in Nat \ {0}
  PROVE  (d * q) % d = 0
BY SMT

LEMMA SmallMod ==
  ASSUME NEW d \in Nat \ {0}, NEW r \in 0 .. d - 1
  PROVE  r % d = r /\ d % d = 0
BY SMT

(* The padding writeSection computes moves any position to a multiple. *)
LEMMA PaddingAligns ==
  ASSUME NEW p \in Nat, NEW d \in Nat \ {0}
  PROVE  (d - (p % d)) % d \in Nat /\ (p + ((d - (p % d)) % d)) % d = 0
<1> DEFINE r == p % d
           q == p \div d
<1>1. p = d * q + r /\ r \in 0 .. d - 1 /\ q \in Nat
  BY DivMod
<1> HIDE DEF r, q
<1>2. CASE r = 0
  <2>1. (d - r) % d = 0
    BY <1>2, SmallMod
  <2>2. p = d * q
    BY <1>1, <1>2
  <2> QED  BY <1>1, <2>1, <2>2, MultipleMod DEF r
<1>3. CASE r # 0
  <2>1. (d - r) % d = d - r
    BY <1>1, <1>3, SmallMod
  <2>2. p + (d - r) = d * (q + 1)
    BY <1>1
  <2>3. (d * (q + 1)) % d = 0
    BY <1>1, MultipleMod
  <2> QED  BY <1>1, <2>1, <2>2, <2>3 DEF r
<1> QED  BY <1>2, <1>3

(* The same, with a name for the padding. *)
LEMMA PaddingFits ==
  ASSUME NEW p \in Nat, NEW d \in Nat \ {0}
  PROVE  \E n : n = (d - (p % d)) % d /\ n \in Nat /\ (p + n) % d = 0
BY PaddingAligns

LEMMA MultipleOfFour ==
  ASSUME NEW p \in Nat, NEW d \in Nat \ {0}, p % d = 0, d % 4 = 0
  PROVE  p % 4 = 0
<1> DEFINE a == p \div d
           b == d \div 4
<1>1. p = d * a /\ d = 4 * b /\ a \in Nat /\ b \in Nat
  BY DivMod
<1> HIDE DEF a, b
<1>2. p = 4 * (b * a) /\ b * a \in Nat
  BY <1>1
<1> QED  BY <1>2, MultipleMod

-----------------------------------------------------------------------------
(* The eight sections. *)
LEMMA Sections ==
  /\ Len(Section) = 8 /\ DOMAIN Section = 1 .. 8
  /\ Section[1] = "Vectors" /\ Section[2] = "Conn0Cnt" /\ Section[3] = "Conn0"
  /\ Section[4] = "Labels" /\ Section[5] = "UpperOff" /\ Section[6] = "UpperNodes"
  /\ Section[7] = "UpperCnt" /\ Section[8] = "UpperConn"
BY DEF Section

LEMMA NamesOfSections ==
  ASSUME NEW k \in DOMAIN Section
  PROVE  /\ Section[k] \in Name
         /\ Section[k] \in {"Vectors", "Conn0Cnt", "Conn0", "Labels",
                            "UpperOff", "UpperNodes", "UpperCnt", "UpperConn"}
BY Sections DEF Name

LEMMA LengthFacts ==
  ASSUME NEW g \in Graphs, NEW k \in DOMAIN Section
  PROVE  /\ LengthOf(g, Section[k]) \in Nat
         /\ Section[k] \in Int32Sections => LengthOf(g, Section[k]) % 4 = 0
<1>1. /\ g.n \in Nat /\ g.m \in Nat /\ g.m0 \in Nat /\ g.maxLayer \in Nat
      /\ g.upperNodes \in Nat /\ VectorDim \in Nat
  BY IndexAssumption
<1>2. /\ g.n * VectorDim \in Nat /\ g.n * g.m0 \in Nat /\ g.upperNodes * g.m \in Nat
      /\ (g.n + 7) \div 8 \in Nat
  <2>1. g.n + 7 \in Nat /\ 8 \in Nat \ {0}
    BY <1>1
  <2>2. (g.n + 7) \div 8 \in Nat
    BY <2>1, DivMod
  <2>3. \A x, y \in Nat : x * y \in Nat
    OBVIOUS
  <2> QED  BY <1>1, <2>2, <2>3
<1>3. 4 * g.n * g.m0 = 4 * (g.n * g.m0) /\ 4 * g.upperNodes * g.m = 4 * (g.upperNodes * g.m)
  BY <1>1
<1>4. \A x \in Nat : 4 * x \in Nat /\ (4 * x) % 4 = 0
  BY MultipleMod
<1>5. \/ Section[k] = "Vectors" /\ LengthOf(g, Section[k]) = g.n * VectorDim
      \/ Section[k] = "Conn0Cnt" /\ LengthOf(g, Section[k]) = g.n
      \/ Section[k] = "Conn0" /\ LengthOf(g, Section[k]) = 4 * g.n * g.m0
      \/ Section[k] = "Labels" /\ LengthOf(g, Section[k]) = (g.n + 7) \div 8
      \/ Section[k] = "UpperOff" /\ LengthOf(g, Section[k]) = 4 * (g.maxLayer + 1)
      \/ Section[k] = "UpperNodes" /\ LengthOf(g, Section[k]) = 4 * g.upperNodes
      \/ Section[k] = "UpperCnt" /\ LengthOf(g, Section[k]) = g.upperNodes
      \/ Section[k] = "UpperConn" /\ LengthOf(g, Section[k]) = 4 * g.upperNodes * g.m
  BY NamesOfSections DEF LengthOf
<1> HIDE DEF LengthOf
<1> QED  BY <1>1, <1>2, <1>3, <1>4, <1>5 DEF Int32Sections

(* The lengths that are checked follow from the sizes in the header. *)
LEMMA SizesGiveLengths ==
  ASSUME NEW g \in Graphs
  PROVE  \A s \in {"Vectors", "Conn0", "Conn0Cnt", "Labels"} :
           LengthOf(SizesOf(g), s) = LengthOf(g, s)
BY DEF LengthOf, SizesOf

LEMMA CellSeq ==
  ASSUME NEW n \in Nat, NEW s \in Name, NEW b \in Nat
  PROVE  /\ [j \in 1 .. n |-> [section |-> s, byte |-> j, build |-> b]] \in Seq(Cell)
         /\ Len([j \in 1 .. n |-> [section |-> s, byte |-> j, build |-> b]]) = n
BY DEF Cell

(* The bytes of a section are cells; with every record inserted they are   *)
(* what is written.                                                        *)
LEMMA BytesFacts ==
  ASSUME NEW g \in Graphs, NEW k \in DOMAIN Section, NEW b \in Nat
  PROVE  /\ BytesOf(g, Section[k], b) \in Seq(Cell)
         /\ Len(BytesOf(g, Section[k], b)) = LengthOf(g, Section[k])
         /\ \A j \in 1 .. LengthOf(g, Section[k]) :
              BytesOf(g, Section[k], b)[j] =
                [section |-> Section[k], byte |-> j, build |-> b]
<1>1. LengthOf(g, Section[k]) \in Nat /\ Section[k] \in Name
  BY LengthFacts, NamesOfSections
<1> QED  BY <1>1, CellSeq DEF BytesOf

LEMMA WrittenFacts ==
  ASSUME NEW g \in Graphs, NEW k \in DOMAIN Section, NEW b \in Nat
  PROVE  Written(g, Section[k], b, g.n) = BytesOf(g, Section[k], b)
<1>1. LengthOf(g, Section[k]) \in Nat
  BY LengthFacts
<1>2. ASSUME NEW j \in 1 .. LengthOf(g, Section[k])
      PROVE  ~ (Section[k] = "Vectors" /\ j > g.n * VectorDim)
  <2>1. g.n * VectorDim \in Nat
    BY IndexAssumption
  <2>2. Section[k] = "Vectors" => LengthOf(g, Section[k]) = g.n * VectorDim
    BY DEF LengthOf
  <2> QED  BY <1>1, <2>1, <2>2
<1>3. Written(g, Section[k], b, g.n)
        = [j \in 1 .. LengthOf(g, Section[k]) |-> BytesOf(g, Section[k], b)[j]]
  BY <1>2 DEF Written
<1>4. BytesOf(g, Section[k], b) =
        [j \in 1 .. LengthOf(g, Section[k]) |-> BytesOf(g, Section[k], b)[j]]
  BY DEF BytesOf
<1> QED  BY <1>3, <1>4

-----------------------------------------------------------------------------
(***************************************************************************)
(* The inductive invariant.  The bytes at a place are those of a section;  *)
(* while a build writes, the places noted so far are; a file with anything *)
(* in its header has all its sections, from one build, and its header is   *)
(* theirs up to where it was cut: a number is no greater than it should    *)
(* be, and behind one that is not whole there are only zeros.              *)
(***************************************************************************)
SectionAt(body, at, k, g, b) ==
  /\ at.len = LengthOf(g, Section[k])
  /\ at.off >= HeaderSize /\ at.off % Align = 0
  /\ at.off + at.len <= HeaderSize + Len(body)
  /\ \A j \in 1 .. at.len :
       body[at.off - HeaderSize + j] = [section |-> Section[k], byte |-> j, build |-> b]

Laid(body, places, g, b) ==
  /\ places \in Seq(Place) /\ Len(places) = Len(Section)
  /\ \A k \in DOMAIN Section : SectionAt(body, places[k], k, g, b)

CutOf(h, whole) ==
  \A j \in Field : /\ h[j] <= whole[j]
                   /\ h[j] # 0 => \A i \in 1 .. j - 1 : h[i] = whole[i]

FromOneBuild(f) ==
  f # None /\ f.header # Blank =>
    \E g \in Graphs, b \in 1 .. Builds, places \in Seq(Place) :
      Laid(f.body, places, g, b) /\ CutOf(f.header, HeaderOf(g, places))

Counted ==
  stage \in {"create", "write", "reload", "measure", "done", "refused"} =>
    graph.inserted = graph.sizes.n

Progress ==
  stage = "write" =>
    /\ file.header = Blank
    /\ \A k \in 1 .. next - 1 : SectionAt(file.body, header[k], k, graph.sizes, build)

Finished ==
  stage \in {"reload", "measure", "done"} =>
    /\ file # None /\ file.header = HeaderOf(graph.sizes, header)
    /\ Laid(file.body, header, graph.sizes, build)

IInv ==
  /\ TypeOK /\ Counted /\ Progress /\ Finished
  /\ FromOneBuild(file) /\ FromOneBuild(image) /\ ServesOneBuild

(* What is appended to a file leaves the sections in it where they are. *)
LEMMA AppendKeepsSection ==
  ASSUME NEW body \in Seq(Cell), NEW more \in Seq(Cell), NEW at \in Place,
         NEW k \in DOMAIN Section, NEW g \in Graphs, NEW b \in Nat,
         SectionAt(body, at, k, g, b)
  PROVE  SectionAt(body \o more, at, k, g, b)
<1>1. /\ Len(body) \in Nat /\ Len(more) \in Nat /\ HeaderSize \in Nat
      /\ at.off \in Nat /\ at.len \in Nat
  BY LenProperties, IndexAssumption DEF Place
<1>2. /\ Len(body \o more) = Len(body) + Len(more)
      /\ \A j \in 1 .. Len(body) : (body \o more)[j] = body[j]
  <2>1. /\ Len(body \o more) = Len(body) + Len(more)
        /\ \A j \in 1 .. Len(body) + Len(more) :
             (body \o more)[j] = IF j <= Len(body) THEN body[j] ELSE more[j - Len(body)]
    BY ConcatProperties
  <2> QED  BY <1>1, <2>1
<1> DEFINE c == body \o more
<1> HIDE DEF c
<1>3. /\ at.len = LengthOf(g, Section[k])
      /\ at.off >= HeaderSize /\ at.off % Align = 0
      /\ at.off + at.len <= HeaderSize + Len(body)
      /\ \A j \in 1 .. at.len :
           body[at.off - HeaderSize + j] = [section |-> Section[k], byte |-> j, build |-> b]
  BY DEF SectionAt
<1>4. ASSUME NEW j \in 1 .. at.len
      PROVE  c[at.off - HeaderSize + j] = [section |-> Section[k], byte |-> j, build |-> b]
  <2>1. at.off - HeaderSize + j \in 1 .. Len(body)
    BY <1>1, <1>3, SMTT(30)
  <2> QED  BY <1>2, <1>3, <2>1 DEF c
<1>5. at.off + at.len <= HeaderSize + Len(c)
  BY <1>1, <1>2, <1>3 DEF c
<1> QED  BY <1>3, <1>4, <1>5 DEF SectionAt, c

(* The bytes of a section behind any cells are a section at that place. *)
LEMMA NewSection ==
  ASSUME NEW before \in Seq(Cell), NEW k \in DOMAIN Section, NEW g \in Graphs,
         NEW b \in Nat, (HeaderSize + Len(before)) % Align = 0
  PROVE  SectionAt(before \o BytesOf(g, Section[k], b),
                   [off |-> HeaderSize + Len(before), len |-> LengthOf(g, Section[k])],
                   k, g, b)
<1> DEFINE bytes == BytesOf(g, Section[k], b)
           n == LengthOf(g, Section[k])
           c == before \o bytes
           at == [off |-> HeaderSize + Len(before), len |-> n]
<1>1. /\ bytes \in Seq(Cell) /\ Len(bytes) = n /\ n \in Nat
      /\ \A j \in 1 .. n : bytes[j] = [section |-> Section[k], byte |-> j, build |-> b]
  BY BytesFacts, LengthFacts
<1>2. Len(before) \in Nat /\ HeaderSize \in Nat
  BY LenProperties, IndexAssumption
<1> HIDE DEF bytes, n
<1>3. /\ Len(c) = Len(before) + n
      /\ \A j \in 1 .. Len(before) + n :
           c[j] = IF j <= Len(before) THEN before[j] ELSE bytes[j - Len(before)]
  BY <1>1, ConcatProperties
<1> HIDE DEF c
<1>4. at.off = HeaderSize + Len(before) /\ at.len = n
  OBVIOUS
<1> HIDE DEF at
<1>5. ASSUME NEW j \in 1 .. n
      PROVE  c[at.off - HeaderSize + j] = [section |-> Section[k], byte |-> j, build |-> b]
  <2>1. /\ at.off - HeaderSize + j = Len(before) + j
        /\ Len(before) + j \in 1 .. Len(before) + n /\ ~ (Len(before) + j <= Len(before))
        /\ Len(before) + j - Len(before) = j
    BY <1>1, <1>2, <1>4
  <2> QED  BY <1>1, <1>3, <2>1
<1>6. at.off >= HeaderSize /\ at.off + at.len <= HeaderSize + Len(c)
  BY <1>1, <1>2, <1>3, <1>4
<1>7. at.len = LengthOf(g, Section[k])
  BY <1>4 DEF n
<1> QED  BY <1>4, <1>5, <1>6, <1>7 DEF SectionAt, c, bytes, at, n

-----------------------------------------------------------------------------
(* Where the header has the sizes, and offset and length of a section. *)
LEMMA FieldFacts ==
  /\ 1 \in Field /\ 2 \in Field /\ 3 \in Field /\ 4 \in Field /\ 5 \in Field /\ 13 \in Field
  /\ \A k \in DOMAIN Section :
       /\ k \in 1 .. 8 /\ 2 * k + 4 \in Field /\ 2 * k + 5 \in Field
       /\ 2 * k + 4 \in 1 .. (2 * k + 5) - 1
       /\ \A l \in DOMAIN Section : k < l =>
            2 * k + 4 \in 1 .. (2 * l + 5) - 1 /\ 2 * k + 5 \in 1 .. (2 * l + 5) - 1
BY Sections DEF Field

(* The fields of a header. *)
LEMMA HeaderFacts ==
  ASSUME NEW g \in Graphs, NEW places \in Seq(Place), Len(places) = Len(Section)
  PROVE  /\ HeaderOf(g, places) \in [Field -> Nat] /\ HeaderOf(g, places)[1] = 1
         /\ SizesIn(HeaderOf(g, places)) = SizesOf(g)
         /\ \A k \in DOMAIN Section : PlaceIn(HeaderOf(g, places), k) = places[k]
<1> DEFINE h == HeaderOf(g, places)
           PlaceOf(j) == places[(j - 4) \div 2]
           Value(j) == CASE j = 1 -> 1 [] j = 2 -> g.n [] j = 3 -> g.m [] j = 4 -> g.m0
                         [] j = 5 -> g.maxLayer
                         [] OTHER -> IF j % 2 = 0 THEN PlaceOf(j).off ELSE PlaceOf(j).len
<1>1. h = [j \in Field |-> Value(j)]
  BY DEF HeaderOf
<1>2. \A k \in 1 .. 8 : places[k] \in Place
  BY ElementOfSeq, Sections
<1>3. /\ Value(1) = 1 /\ Value(2) = g.n /\ Value(3) = g.m /\ Value(4) = g.m0
      /\ Value(5) = g.maxLayer
      /\ \A j \in Field : j > 5 =>
           Value(j) = IF j % 2 = 0 THEN PlaceOf(j).off ELSE PlaceOf(j).len
  BY DEF Field
<1> HIDE DEF Value
<1>4. \A k \in 1 .. 8 : /\ 2 * k + 4 \in Field /\ 2 * k + 5 \in Field
                        /\ 2 * k + 4 > 5 /\ 2 * k + 5 > 5
                        /\ (2 * k + 4) % 2 = 0 /\ (2 * k + 5) % 2 # 0
                        /\ ((2 * k + 4) - 4) \div 2 = k /\ ((2 * k + 5) - 4) \div 2 = k
  BY DEF Field
<1>5. \A k \in 1 .. 8 : h[2 * k + 4] = places[k].off /\ h[2 * k + 5] = places[k].len
  <2> TAKE k \in 1 .. 8
  <2>1. h[2 * k + 4] = Value(2 * k + 4) /\ h[2 * k + 5] = Value(2 * k + 5)
    BY <1>1, <1>4
  <2>2. Value(2 * k + 4) = places[k].off /\ Value(2 * k + 5) = places[k].len
    BY <1>3, <1>4
  <2> QED  BY <2>1, <2>2
<1>6. ASSUME NEW j \in Field PROVE Value(j) \in Nat
  <2>1. CASE j <= 5
    <3>1. j = 1 \/ j = 2 \/ j = 3 \/ j = 4 \/ j = 5
      BY <2>1 DEF Field
    <3>2. {g.n, g.m, g.m0, g.maxLayer} \subseteq Nat
      BY IndexAssumption
    <3> QED  BY <1>3, <3>1, <3>2
  <2>2. CASE j > 5
    <3>1. (j - 4) \div 2 \in 1 .. 8
      BY <2>2 DEF Field
    <3>2. PlaceOf(j) \in Place
      BY <1>2, <3>1
    <3>3. PlaceOf(j).off \in Nat /\ PlaceOf(j).len \in Nat
      BY <3>2 DEF Place
    <3> HIDE DEF PlaceOf
    <3> QED  BY <1>3, <2>2, <3>3
  <2> QED  BY <2>1, <2>2 DEF Field
<1>7. h \in [Field -> Nat]
  BY <1>1, <1>6
<1>8. h[1] = 1 /\ h[2] = g.n /\ h[3] = g.m /\ h[4] = g.m0 /\ h[5] = g.maxLayer
  BY <1>1, <1>3 DEF Field
<1> HIDE DEF h
<1>9. SizesIn(h) = SizesOf(g)
  BY <1>8 DEF SizesIn, SizesOf
<1>10. ASSUME NEW k \in 1 .. 8 PROVE PlaceIn(h, k) = places[k]
  <2>1. places[k] = [off |-> places[k].off, len |-> places[k].len]
    BY <1>2 DEF Place
  <2> QED  BY <1>5, <2>1 DEF PlaceIn
<1> QED  BY <1>7, <1>8, <1>9, <1>10, Sections DEF h

(* The first bytes read at the place of a section are its first bytes. *)
LEMMA BytesRead ==
  ASSUME NEW body \in Seq(Cell), NEW at \in Place, NEW g \in Graphs, NEW b \in Nat,
         NEW k \in DOMAIN Section, SectionAt(body, at, k, g, b), NEW n \in 0 .. at.len
  PROVE  LET read == SubSeq(body, at.off - HeaderSize + 1, at.off - HeaderSize + n)
         IN  /\ read \in Seq(Cell) /\ Len(read) = n
             /\ IsPrefix(read, BytesOf(g, Section[k], b))
             /\ n = at.len => read = BytesOf(g, Section[k], b)
<1> DEFINE from == at.off - HeaderSize + 1
           to == at.off - HeaderSize + n
           read == SubSeq(body, from, to)
           bytes == BytesOf(g, Section[k], b)
<1>1. /\ at.off \in Nat /\ at.len \in Nat /\ at.off >= HeaderSize /\ HeaderSize \in Nat
      /\ at.len = LengthOf(g, Section[k]) /\ n \in Nat /\ n <= at.len
      /\ at.off + at.len <= HeaderSize + Len(body) /\ Len(body) \in Nat
      /\ \A j \in 1 .. at.len : body[at.off - HeaderSize + j] =
                                  [section |-> Section[k], byte |-> j, build |-> b]
  BY LenProperties, IndexAssumption DEF SectionAt, Place
<1>2. /\ bytes \in Seq(Cell) /\ Len(bytes) = at.len
      /\ \A j \in 1 .. at.len : bytes[j] = [section |-> Section[k], byte |-> j, build |-> b]
  <2>1. /\ bytes \in Seq(Cell) /\ Len(bytes) = LengthOf(g, Section[k])
        /\ \A j \in 1 .. LengthOf(g, Section[k]) :
             bytes[j] = [section |-> Section[k], byte |-> j, build |-> b]
    BY BytesFacts
  <2> HIDE DEF bytes
  <2> QED  BY <1>1, <2>1
<1> HIDE DEF bytes
<1>3. from \in Int /\ to \in Int /\ to - from + 1 = n /\ (from <= to <=> n > 0)
  <2>1. \A x, y \in Int : /\ x + y - (x + 1) + 1 = y
                          /\ x + 1 <= x + y <=> y > 0
    OBVIOUS
  <2>2. at.off - HeaderSize \in Int /\ n \in Int
    BY <1>1
  <2> QED  BY <2>1, <2>2
<1>4. \A j \in from .. to : body[j] \in Cell
  <2>1. from .. to \subseteq 1 .. Len(body)
    BY <1>1
  <2> QED  BY <2>1, ElementOfSeq
<1>5. \A j \in 1 .. at.len : from + j - 1 = at.off - HeaderSize + j
  BY <1>1
<1> HIDE DEF from, to
<1>6. /\ read \in Seq(Cell)
      /\ Len(read) = IF from <= to THEN to - from + 1 ELSE 0
      /\ \A j \in 1 .. to - from + 1 : read[j] = body[from + j - 1]
  BY <1>3, <1>4, SubSeqProperties
<1> HIDE DEF read
<1>7. Len(read) = n /\ \A j \in 1 .. n : read[j] = bytes[j]
  <2>1. Len(read) = n
    BY <1>1, <1>3, <1>6
  <2>2. \A j \in 1 .. n : j \in 1 .. at.len /\ read[j] = body[from + j - 1]
    BY <1>1, <1>3, <1>6
  <2> QED  BY <1>1, <1>2, <1>5, <2>1, <2>2
<1>8. IsPrefix(read, bytes)
  <2> DEFINE x == SubSeq(read, 1, n)
             y == SubSeq(bytes, 1, n)
  <2>1. \A j \in 1 .. n : read[j] \in Cell /\ bytes[j] \in Cell
    <3>1. \A j \in 1 .. n : j \in 1 .. Len(read) /\ j \in 1 .. Len(bytes)
      BY <1>1, <1>2, <1>7
    <3> QED  BY <1>2, <1>6, <3>1, ElementOfSeq
  <2>2. 1 \in Int /\ n \in Int /\ n - 1 + 1 = n
    BY <1>1
  <2>3. /\ x \in Seq(Cell) /\ Len(x) = (IF 1 <= n THEN n - 1 + 1 ELSE 0)
        /\ \A j \in 1 .. n - 1 + 1 : x[j] = read[1 + j - 1]
    BY <2>1, <2>2, SubSeqProperties
  <2>4. /\ y \in Seq(Cell) /\ Len(y) = (IF 1 <= n THEN n - 1 + 1 ELSE 0)
        /\ \A j \in 1 .. n - 1 + 1 : y[j] = bytes[1 + j - 1]
    BY <2>1, <2>2, SubSeqProperties
  <2> HIDE DEF x, y
  <2>5. Len(x) = n /\ Len(y) = n /\ \A j \in 1 .. n : x[j] = read[j] /\ y[j] = bytes[j]
    <3>1. \A j \in 1 .. n : j \in 1 .. n - 1 + 1 /\ 1 + j - 1 = j
      BY <1>1
    <3> QED  BY <1>1, <2>3, <2>4, <3>1
  <2>6. x = y
    BY <1>7, <2>3, <2>4, <2>5, SeqEqual
  <2> QED  BY <1>1, <1>2, <1>7, <2>6 DEF IsPrefix, x, y
<1>9. n = at.len => read = bytes
  BY <1>2, <1>6, <1>7, SeqEqual
<1> QED  BY <1>6, <1>7, <1>8, <1>9 DEF read, from, to, bytes

(***************************************************************************)
(* The views of a file from one build whose header may be cut: the first   *)
(* bytes of each section, as many as its length in the header says.        *)
(***************************************************************************)
LEMMA CutPlace ==
  ASSUME NEW h \in [Field -> Nat], NEW g \in Graphs, NEW places \in Seq(Place),
         Len(places) = Len(Section), CutOf(h, HeaderOf(g, places)), NEW k \in DOMAIN Section
  PROVE  /\ PlaceIn(h, k).off \in Nat /\ PlaceIn(h, k).len \in 0 .. places[k].len
         /\ PlaceIn(h, k).len # 0 => PlaceIn(h, k).off = places[k].off
         /\ \A l \in DOMAIN Section :
              k < l /\ PlaceIn(h, l).len # 0 => PlaceIn(h, k) = places[k]
<1> DEFINE whole == HeaderOf(g, places)
           o == 2 * k + 4
           n == 2 * k + 5
<1>1. /\ whole \in [Field -> Nat] /\ PlaceIn(whole, k) = places[k] /\ k \in 1 .. 8
  BY HeaderFacts, Sections
<1>2. o \in Field /\ n \in Field /\ o \in 1 .. n - 1
  BY FieldFacts
<1>3. /\ h[o] \in Nat /\ h[n] \in Nat /\ whole[n] \in Nat /\ h[n] <= whole[n]
      /\ h[n] # 0 => h[o] = whole[o]
  BY <1>1, <1>2 DEF CutOf
<1>4. PlaceIn(h, k) = [off |-> h[o], len |-> h[n]]
      /\ places[k] = [off |-> whole[o], len |-> whole[n]]
  BY <1>1 DEF PlaceIn
<1>5. ASSUME NEW l \in DOMAIN Section, k < l, PlaceIn(h, l).len # 0
      PROVE  h[o] = whole[o] /\ h[n] = whole[n]
  <2>1. 2 * l + 5 \in Field
    BY FieldFacts
  <2>2. h[2 * l + 5] # 0
    BY <1>5 DEF PlaceIn
  <2>3. o \in 1 .. (2 * l + 5) - 1 /\ n \in 1 .. (2 * l + 5) - 1
    BY <1>5, FieldFacts
  <2> HIDE DEF o, n, whole
  <2>4. \A i \in 1 .. (2 * l + 5) - 1 : h[i] = whole[i]
    BY <2>1, <2>2 DEF CutOf, whole
  <2> QED  BY <2>3, <2>4
<1> HIDE DEF whole, o, n
<1> QED  BY <1>3, <1>4, <1>5

LEMMA CutView ==
  ASSUME NEW f \in File, NEW g \in Graphs, NEW b \in Nat, NEW places \in Seq(Place),
         Laid(f.body, places, g, b), CutOf(f.header, HeaderOf(g, places)),
         NEW k \in DOMAIN Section
  PROVE  /\ View(f, k) \in Seq(Cell)
         /\ IsPrefix(View(f, k), BytesOf(g, Section[k], b))
         /\ PlaceIn(f.header, k).len = 0 => View(f, k) = << >>
         /\ PlaceIn(f.header, k).len = places[k].len => View(f, k) = BytesOf(g, Section[k], b)
<1> DEFINE at == PlaceIn(f.header, k)
<1>1. /\ f.header \in [Field -> Nat] /\ f.body \in Seq(Cell)
      /\ Len(places) = Len(Section) /\ SectionAt(f.body, places[k], k, g, b)
  BY DEF File, Laid
<1>2. places[k] \in Place
  BY <1>1, ElementOfSeq, Sections
<1>3. /\ at.off \in Nat /\ at.len \in 0 .. places[k].len
      /\ at.len # 0 => at.off = places[k].off
  BY <1>1, CutPlace
<1>4. View(f, k) = SubSeq(f.body, at.off - HeaderSize + 1, at.off - HeaderSize + at.len)
  BY DEF View
<1>5. /\ BytesOf(g, Section[k], b) \in Seq(Cell) /\ places[k].len \in Nat
      /\ Len(BytesOf(g, Section[k], b)) = places[k].len
  BY <1>1, <1>2, BytesFacts DEF SectionAt, Place
<1> HIDE DEF at
<1>6. CASE at.len # 0
  <2>1. View(f, k) = SubSeq(f.body, places[k].off - HeaderSize + 1,
                                    places[k].off - HeaderSize + at.len)
    BY <1>3, <1>4, <1>6
  <2> DEFINE read == SubSeq(f.body, places[k].off - HeaderSize + 1,
                                    places[k].off - HeaderSize + at.len)
  <2>2. /\ read \in Seq(Cell) /\ Len(read) = at.len
        /\ IsPrefix(read, BytesOf(g, Section[k], b))
        /\ at.len = places[k].len => read = BytesOf(g, Section[k], b)
    <3>1. PICK n \in 0 .. places[k].len : n = at.len
      BY <1>3
    <3>2. PICK p \in Place : p = places[k]
      BY <1>2
    <3>3. n \in 0 .. p.len /\ SectionAt(f.body, p, k, g, b) /\ f.body \in Seq(Cell)
      BY <1>1, <3>1, <3>2
    <3> HIDE DEF read
    <3> DEFINE r == SubSeq(f.body, p.off - HeaderSize + 1, p.off - HeaderSize + n)
    <3>4. /\ r \in Seq(Cell) /\ Len(r) = n /\ IsPrefix(r, BytesOf(g, Section[k], b))
          /\ n = p.len => r = BytesOf(g, Section[k], b)
      BY <3>3, BytesRead
    <3> QED  BY <3>1, <3>2, <3>4 DEF read
  <2> QED  BY <1>6, <2>1, <2>2 DEF at
<1>7. CASE at.len = 0
  <2>1. View(f, k) = << >>
    <3> DEFINE x == at.off - HeaderSize
    <3>1. x \in Int /\ x + 1 \in Int /\ x + at.len \in Int /\ x + at.len < x + 1
      BY <1>3, <1>7, IndexAssumption
    <3>2. View(f, k) = SubSeq(f.body, x + 1, x + at.len)
      BY <1>4
    <3> HIDE DEF x
    <3> QED  BY <3>1, <3>2, SubSeqEmpty
  <2>2. << >> \in Seq(Cell) /\ Len(<< >>) = 0
    BY EmptySeq
  <2>3. IsPrefix(<< >>, BytesOf(g, Section[k], b))
    <3>1. SubSeq(<< >>, 1, 0) = << >> /\ SubSeq(BytesOf(g, Section[k], b), 1, 0) = << >>
      BY SubSeqEmpty
    <3> QED  BY <1>5, <2>2, <3>1 DEF IsPrefix
  <2>4. at.len = places[k].len => << >> = BytesOf(g, Section[k], b)
    BY <1>5, <1>7, EmptySeq
  <2> QED  BY <2>1, <2>2, <2>3, <2>4 DEF at
<1> QED  BY <1>6, <1>7

(* A whole header is cut nowhere. *)
LEMMA WholeIsCut ==
  ASSUME NEW g \in Graphs, NEW places \in Seq(Place), Len(places) = Len(Section)
  PROVE  CutOf(HeaderOf(g, places), HeaderOf(g, places))
<1> DEFINE h == HeaderOf(g, places)
<1>1. h \in [Field -> Nat]
  BY HeaderFacts
<1> HIDE DEF h
<1>2. CutOf(h, h)
  BY <1>1 DEF CutOf
<1> QED  BY <1>2 DEF h

(* A whole file passes every check of loadFromBytes. *)
LEMMA WholeLoads ==
  ASSUME NEW f \in File, NEW g \in Graphs, NEW b \in Nat, NEW places \in Seq(Place),
         Laid(f.body, places, g, b), f.header = HeaderOf(g, places)
  PROVE  Loads(f)
<1>1. /\ f # None /\ f.header[1] = 1 /\ SizesIn(f.header) = SizesOf(g)
      /\ Len(places) = Len(Section)
      /\ \A k \in DOMAIN Section : PlaceIn(f.header, k) = places[k]
  BY HeaderFacts, IndexAssumption DEF Laid
<1>2. ASSUME NEW k \in DOMAIN Section PROVE Placed(f, k) /\ SizeAsExpected(f, k)
  <2> DEFINE at == PlaceIn(f.header, k)
  <2>1. at \in Place
    BY <1>1, ElementOfSeq, Sections
  <2>2. SectionAt(f.body, at, k, g, b)
    BY <1>1 DEF Laid
  <2> HIDE DEF at
  <2>3. /\ at.len = LengthOf(g, Section[k]) /\ at.off % Align = 0
        /\ at.off + at.len <= HeaderSize + Len(f.body) /\ at.off \in Nat
    BY <2>1, <2>2 DEF SectionAt, Place
  <2>4. at.off % 4 = 0 /\ (Section[k] \in Int32Sections => at.len % 4 = 0)
    BY <2>3, MultipleOfFour, LengthFacts, IndexAssumption
  <2>5. Placed(f, k)
    BY <2>3, <2>4 DEF Placed, Length, at
  <2>6. SizeAsExpected(f, k)
    BY <1>1, <2>3, SizesGiveLengths DEF SizeAsExpected, at
  <2> QED  BY <2>5, <2>6
<1> QED  BY <1>1, <1>2 DEF Loads

(***************************************************************************)
(* A file from one build that loads with nodes has the sizes of its build, *)
(* and the sections of layer 0: the length of Labels is checked against    *)
(* the number of nodes, so it is not zero, and what comes before it in the *)
(* header is whole.                                                        *)
(***************************************************************************)
LEMMA LoadedIsOfOneBuild ==
  ASSUME NEW f \in File, NEW g \in Graphs, NEW b \in Nat, NEW places \in Seq(Place),
         Laid(f.body, places, g, b), CutOf(f.header, HeaderOf(g, places)),
         Loads(f), f.header[2] > 0
  PROVE  OfOneBuild(Loaded(f), g, b)
<1> DEFINE h == f.header
           whole == HeaderOf(g, places)
           view(k) == View(f, k)
<1>1. /\ h \in [Field -> Nat] /\ whole \in [Field -> Nat]
      /\ SizesIn(whole) = SizesOf(g) /\ Len(places) = Len(Section)
  BY HeaderFacts DEF File, Laid
<1>2. h[13] = (h[2] + 7) \div 8
  <2>1. 4 \in DOMAIN Section /\ Section[4] = "Labels"
    BY Sections
  <2>2. PlaceIn(h, 4).len = LengthOf(SizesIn(h), "Labels")
    BY <2>1 DEF Loads, SizeAsExpected
  <2>3. LengthOf(SizesIn(h), "Labels") = (SizesIn(h).n + 7) \div 8
    BY DEF LengthOf
  <2> QED  BY <2>2, <2>3 DEF PlaceIn, SizesIn
<1>3. h[13] \in Nat /\ h[13] # 0
  <2>1. h[2] \in Nat
    BY <1>1, FieldFacts
  <2>2. h[2] > 0
    OBVIOUS
  <2> HIDE DEF h
  <2> QED  BY <1>2, <2>1, <2>2
<1>4. \A i \in 1 .. 12 : h[i] = whole[i]
  <2>1. 13 \in Field /\ 13 - 1 = 12
    BY DEF Field
  <2> QED  BY <1>3, <2>1 DEF CutOf
<1> HIDE DEF h, whole, view
<1>5. SizesIn(h) = SizesOf(g)
  <2>1. h[2] = whole[2] /\ h[3] = whole[3] /\ h[4] = whole[4] /\ h[5] = whole[5]
    BY <1>4
  <2>2. SizesIn(h) = SizesIn(whole)
    BY <2>1 DEF SizesIn
  <2> QED  BY <1>1, <2>2
<1>6. ASSUME NEW k \in DOMAIN Section
      PROVE  /\ view(k) \in Seq(Cell) /\ IsPrefix(view(k), BytesOf(g, Section[k], b))
             /\ PlaceIn(h, k).len = 0 => view(k) = << >>
             /\ PlaceIn(h, k).len = places[k].len => view(k) = BytesOf(g, Section[k], b)
  BY CutView DEF h, view
<1>7. ASSUME NEW k \in 1 .. 4 PROVE view(k) = BytesOf(g, Section[k], b)
  <2>1. k \in DOMAIN Section /\ 4 \in DOMAIN Section /\ Section[4] = "Labels"
    BY Sections
  <2>2. PlaceIn(h, 4).len = h[13]
    BY DEF PlaceIn
  <2>3. CASE k < 4
    <3>1. PlaceIn(h, 4).len # 0 => PlaceIn(h, k) = places[k]
      <4>1. CutOf(h, HeaderOf(g, places))
        BY DEF h
      <4>2. h \in [Field -> Nat] /\ Len(places) = Len(Section)
        BY <1>1
      <4>3. k \in DOMAIN Section /\ 4 \in DOMAIN Section /\ k < 4
        BY <2>1, <2>3
      <4> QED  BY <4>1, <4>2, <4>3, CutPlace
    <3>2. PlaceIn(h, k) = places[k]
      BY <1>3, <2>2, <3>1
    <3> QED  BY <1>6, <2>1, <3>2
  <2>4. CASE k = 4
    <3>1. places[4].len = LengthOf(g, "Labels")
      BY <2>1 DEF Laid, SectionAt
    <3>2. LengthOf(g, "Labels") = (g.n + 7) \div 8
      BY DEF LengthOf
    <3>3. h[2] = g.n
      BY <1>5 DEF SizesIn, SizesOf
    <3> QED  BY <1>2, <1>6, <2>1, <2>2, <2>4, <3>1, <3>2, <3>3
  <2> QED  BY <2>3, <2>4
<1>8. ASSUME NEW k \in DOMAIN Section, NEW l \in DOMAIN Section, k < l,
             view(k) # BytesOf(g, Section[k], b)
      PROVE  view(l) = << >>
  <2>1. PlaceIn(h, k) # places[k]
    BY <1>6, <1>8
  <2>2. PlaceIn(h, l).len = 0
    BY <1>1, <1>8, <2>1, CutPlace DEF h, whole
  <2> QED  BY <1>6, <2>2
<1>9. /\ Loaded(f).sizes = SizesIn(h)
      /\ \A k \in DOMAIN Section : Loaded(f).views[k] = view(k)
  BY DEF Loaded, h, view
<1> DEFINE loaded == Loaded(f)
<1>10. loaded.sizes = SizesOf(g) /\ \A k \in DOMAIN Section : loaded.views[k] = view(k)
  BY <1>5, <1>9
<1> HIDE DEF loaded
<1>11. \A k \in 1 .. 4 : loaded.views[k] = BytesOf(g, Section[k], b)
  BY <1>7, <1>10, Sections
<1>12. \A k \in DOMAIN Section : IsPrefix(loaded.views[k], BytesOf(g, Section[k], b))
  BY <1>6, <1>10
<1>13. \A k, l \in DOMAIN Section :
         k < l /\ ~ (loaded.views[k] = BytesOf(g, Section[k], b)) => loaded.views[l] = << >>
  BY <1>8, <1>10
<1>14. OfOneBuild(loaded, g, b)
  BY <1>10, <1>11, <1>12, <1>13 DEF OfOneBuild
<1> QED  BY <1>14 DEF loaded

-----------------------------------------------------------------------------
LEMMA InitIInv == Init => IInv
<1> SUFFICES ASSUME Init PROVE IInv
  OBVIOUS
<1>1. TypeOK
  BY Sections, IndexAssumption, EmptySeq DEF Init, TypeOK
<1>2. \A a \in Instance : api[a].state # "serving"
  BY DEF Init, Down
<1> QED  BY <1>1, <1>2 DEF Init, IInv, Counted, Progress, Finished, FromOneBuild, ServesOneBuild

(* The steps of a build that do not touch the output file. *)
LEMMA FileUntouched ==
  ASSUME IInv, TypeOK', Counted', Finished',
         UNCHANGED <<header, next, file, image, api>>, stage' # "write"
  PROVE  IInv'
<1>1. FromOneBuild(file)' /\ FromOneBuild(image)'
  BY DEF IInv, FromOneBuild, Laid, SectionAt
<1>2. ServesOneBuild'
  BY DEF IInv, ServesOneBuild
<1>3. Progress'
  BY DEF Progress
<1> QED  BY <1>1, <1>2, <1>3 DEF IInv

LEMMA StartKeeps == ASSUME IInv, StartBuild PROVE IInv'
<1>1. PICK g \in Graphs, recall \in BOOLEAN :
        graph' = [sizes |-> g, inserted |-> 0, recall |-> recall]
  BY DEF StartBuild
<1>2. PICK n \in 0 .. MaxRecords, malformed \in BOOLEAN :
        input' = [records |-> n, malformed |-> malformed]
  BY DEF StartBuild
<1>3. /\ graph' \in [sizes : Graphs, inserted : Nat, recall : BOOLEAN]
      /\ graph'.inserted <= graph'.sizes.n
  BY <1>1, IndexAssumption
<1>4. /\ stage' = "insert" /\ build' = build + 1 /\ build' \in 0 .. Builds /\ build' >= 1
      /\ UNCHANGED <<header, next, file, image, api>>
  BY IndexAssumption DEF StartBuild, IInv, TypeOK
<1>5. TypeOK'
  BY <1>2, <1>3, <1>4 DEF IInv, TypeOK
<1> QED  BY <1>4, <1>5, FileUntouched DEF Counted, Finished

LEMMA InsertKeeps == ASSUME IInv, InsertRecord PROVE IInv'
<1>1. /\ graph \in [sizes : Graphs, inserted : Nat, recall : BOOLEAN]
      /\ input \in [records : 0 .. MaxRecords, malformed : BOOLEAN]
      /\ graph.sizes.n \in Nat /\ graph.inserted <= graph.sizes.n /\ build >= 1
  BY IndexAssumption DEF InsertRecord, IInv, TypeOK
<1>2. input' \in [records : 0 .. MaxRecords, malformed : BOOLEAN]
  BY <1>1, IndexAssumption DEF InsertRecord
<1>3. /\ graph' \in [sizes : Graphs, inserted : Nat, recall : BOOLEAN]
      /\ graph'.inserted <= graph'.sizes.n /\ stage' \in {"insert", "exited"}
  BY <1>1 DEF InsertRecord
<1>4. UNCHANGED <<build, header, next, file, image, api>>
  BY DEF InsertRecord
<1>5. TypeOK'
  BY <1>1, <1>2, <1>3, <1>4 DEF IInv, TypeOK
<1> QED  BY <1>3, <1>4, <1>5, FileUntouched DEF Counted, Finished

LEMMA EndOfInputKeeps == ASSUME IInv, EndOfInput PROVE IInv'
<1>1. /\ stage = "insert" /\ stage' \in {"exited", "create"}
      /\ stage' = "create" => graph.inserted = graph.sizes.n
      /\ UNCHANGED <<build, graph, input, header, next, file, image, api>>
  BY DEF EndOfInput
<1>2. TypeOK'
  BY <1>1 DEF IInv, TypeOK
<1> QED  BY <1>1, <1>2, FileUntouched DEF Counted, Finished

(* The steps after the header is written, and the end of the process. *)
LEMMA LaterKeeps == ASSUME IInv, Reload \/ SkipRecall \/ Measure \/ Exit PROVE IInv'
<1>1. /\ UNCHANGED <<build, graph, input, header, next, file, image, api>>
      /\ \/ stage' = "exited" /\ stage # "idle"
         \/ /\ stage \in {"reload", "measure"}
            /\ stage' \in {"measure", "done", "refused"}
  BY DEF Reload, SkipRecall, Measure, Exit
<1>2. TypeOK' /\ Counted'
  BY <1>1 DEF IInv, TypeOK, Counted
<1>3. Finished'
  BY <1>1 DEF IInv, Finished, Laid, SectionAt
<1> QED  BY <1>1, <1>2, <1>3, FileUntouched

-----------------------------------------------------------------------------
(* What a file without a header, or with that of a whole graph, leads to. *)
LEMMA OthersKept ==
  ASSUME IInv, UNCHANGED <<image, api>>
  PROVE  FromOneBuild(image)' /\ ServesOneBuild'
BY DEF IInv, FromOneBuild, Laid, SectionAt, ServesOneBuild

LEMMA CreateKeeps == ASSUME IInv, Create PROVE IInv'
<1>1. /\ stage = "create" /\ stage' = "write" /\ file' = [header |-> Blank, body |-> << >>]
      /\ header' = << >> /\ next' = 1 /\ UNCHANGED <<build, graph, input, image, api>>
  BY DEF Create
<1>2. << >> \in Seq(Cell) /\ << >> \in Seq(Place) /\ Len(<< >>) = 0
  BY EmptySeq
<1>3. file' \in File /\ file'.header = Blank /\ file' # None
  <2>1. file' \in File /\ file'.header = Blank
    BY <1>1, <1>2 DEF File, Blank
  <2> QED  BY <2>1, IndexAssumption
<1>4. TypeOK'
  BY <1>1, <1>2, <1>3, Sections DEF IInv, TypeOK
<1>5. Counted' /\ Progress' /\ Finished' /\ FromOneBuild(file)'
  BY <1>1, <1>3 DEF IInv, Counted, Progress, Finished, FromOneBuild
<1> QED  BY <1>1, <1>4, <1>5, OthersKept DEF IInv

(* The padding in front of a section: cells up to an aligned position. *)
LEMMA AppendedFacts ==
  ASSUME IInv, stage = "write", next <= Len(Section)
  PROVE  /\ next \in DOMAIN Section /\ graph.sizes \in Graphs /\ build \in Nat
         /\ file \in File /\ file.body \in Seq(Cell) /\ file.header = Blank
         /\ Padding \in Seq(Cell) /\ (Position + Len(Padding)) % Align = 0
         /\ Position = HeaderSize + Len(file.body)
         /\ Appended = Padding \o BytesOf(graph.sizes, Section[next], build)
         /\ Appended \in Seq(Cell)
<1>1. /\ next \in DOMAIN Section /\ graph.sizes \in Graphs /\ build \in Nat
      /\ file \in File /\ file.header = Blank
      /\ graph.inserted = graph.sizes.n
  BY Sections, IndexAssumption DEF IInv, TypeOK, Progress, Counted
<1>2. file.body \in Seq(Cell)
  BY <1>1 DEF File
<1>3. Position \in Nat /\ Position = HeaderSize + Len(file.body)
  BY <1>2, LenProperties, IndexAssumption DEF Position
<1>4. PICK n \in Nat : Padding = [k \in 1 .. n |-> Pad] /\ (Position + n) % Align = 0
  <2> DEFINE p == Position
  <2>1. p \in Nat /\ Align \in Nat \ {0}
    BY <1>3, IndexAssumption
  <2>2. Padding = [k \in 1 .. (Align - (p % Align)) % Align |-> Pad]
    BY DEF Padding
  <2> HIDE DEF p
  <2>3. \E n : n = (Align - (p % Align)) % Align /\ n \in Nat /\ (p + n) % Align = 0
    BY <2>1, PaddingFits
  <2>4. PICK n : n = (Align - (p % Align)) % Align /\ n \in Nat /\ (p + n) % Align = 0
    BY <2>3
  <2>5. Padding = [k \in 1 .. n |-> Pad]
    BY <2>2, <2>4
  <2> QED  BY <2>4, <2>5 DEF p
<1>6. Pad \in Cell
  BY DEF Pad, Cell
<1>7. Padding \in Seq(Cell) /\ Len(Padding) = n
  BY <1>4, <1>6
<1>8. Appended = Padding \o BytesOf(graph.sizes, Section[next], build)
  BY <1>1, WrittenFacts DEF Appended
<1>9. Appended \in Seq(Cell)
  BY <1>1, <1>7, <1>8, BytesFacts, ConcatProperties
<1> QED  BY <1>1, <1>2, <1>3, <1>4, <1>7, <1>8, <1>9

LEMMA WriteSectionKeeps == ASSUME IInv, WriteSection PROVE IInv'
<1> DEFINE bytes == BytesOf(graph.sizes, Section[next], build)
           at == [off |-> Position + Len(Padding), len |-> LengthOf(graph.sizes, Section[next])]
<1>1. /\ stage = "write" /\ next <= Len(Section) /\ stage' = "write" /\ next' = next + 1
      /\ file' = [file EXCEPT !.body = file.body \o Appended] /\ header' = Append(header, at)
      /\ UNCHANGED <<build, graph, input, image, api>>
  BY DEF WriteSection
<1>2. /\ next \in DOMAIN Section /\ graph.sizes \in Graphs /\ build \in Nat
      /\ file \in File /\ file.body \in Seq(Cell) /\ file.header = Blank
      /\ Padding \in Seq(Cell) /\ (Position + Len(Padding)) % Align = 0
      /\ Position = HeaderSize + Len(file.body)
      /\ Appended = Padding \o bytes /\ Appended \in Seq(Cell)
  BY <1>1, AppendedFacts
<1>3. /\ bytes \in Seq(Cell) /\ LengthOf(graph.sizes, Section[next]) \in Nat
      /\ Len(Padding) \in Nat /\ Len(file.body) \in Nat /\ HeaderSize \in Nat
  BY <1>2, BytesFacts, LengthFacts, LenProperties, IndexAssumption
<1> HIDE DEF bytes
<1>4. /\ file.body \o Padding \in Seq(Cell)
      /\ Len(file.body \o Padding) = Len(file.body) + Len(Padding)
      /\ file.body \o Appended = (file.body \o Padding) \o bytes
      /\ file.body \o Appended \in Seq(Cell)
  <2>1. /\ file.body \o Padding \in Seq(Cell)
        /\ Len(file.body \o Padding) = Len(file.body) + Len(Padding)
        /\ file.body \o Appended \in Seq(Cell)
    BY <1>2, ConcatProperties
  <2>2. /\ file.body \in Seq(Cell) /\ Padding \in Seq(Cell) /\ bytes \in Seq(Cell)
    BY <1>2, <1>3
  <2>3. \A a, b, c \in Seq(Cell) : (a \o b) \o c = a \o (b \o c)
    BY ConcatAssociative
  <2>4. (file.body \o Padding) \o bytes = file.body \o (Padding \o bytes)
    BY <2>2, <2>3, Zenon
  <2> QED  BY <1>2, <2>1, <2>4
<1>5. at \in Place /\ at = [off |-> HeaderSize + Len(file.body \o Padding),
                            len |-> LengthOf(graph.sizes, Section[next])]
  BY <1>2, <1>3, <1>4 DEF Place
<1>6. SectionAt((file.body \o Padding) \o bytes, at, next, graph.sizes, build)
  <2>1. (HeaderSize + Len(file.body \o Padding)) % Align = 0
    <3>1. HeaderSize + Len(file.body \o Padding) = Position + Len(Padding)
      BY <1>2, <1>3, <1>4
    <3> QED  BY <1>2, <3>1
  <2> QED  BY <1>2, <1>4, <1>5, <2>1, NewSection DEF bytes
<1> HIDE DEF at
<1>7. /\ file' \in File /\ file'.header = Blank /\ file' # None
      /\ file'.body = file.body \o Appended
  BY <1>1, <1>2, <1>4, IndexAssumption DEF File
<1>8. /\ header \in Seq(Place) /\ Len(header) = next - 1 /\ next \in 1 .. 8
  BY <1>1, <1>2, Sections DEF IInv, TypeOK
<1>9. /\ header' \in Seq(Place) /\ Len(header') = next' - 1
      /\ header'[next] = at /\ \A k \in 1 .. next - 1 : header'[k] = header[k]
  BY <1>1, <1>5, <1>8, AppendProperties
<1>10. TypeOK'
  <2>1. next' \in 1 .. Len(Section) + 1
    BY <1>1, <1>8, Sections
  <2> QED  BY <1>1, <1>7, <1>9, <2>1 DEF IInv, TypeOK
<1>11. ASSUME NEW k \in 1 .. next
       PROVE  SectionAt(file'.body, header'[k], k, graph.sizes, build)
  <2>1. CASE k = next
    BY <1>4, <1>6, <1>7, <1>9, <2>1
  <2>2. CASE k # next
    <3>1. k \in 1 .. next - 1 /\ k \in DOMAIN Section
      BY <1>8, <2>2, Sections
    <3>2. header[k] \in Place
      BY <1>8, <3>1, ElementOfSeq
    <3>3. SectionAt(file.body, header[k], k, graph.sizes, build)
      BY <1>1, <3>1 DEF IInv, Progress
    <3>4. SectionAt(file.body \o Appended, header[k], k, graph.sizes, build)
      BY <1>2, <3>1, <3>2, <3>3, AppendKeepsSection
    <3> QED  BY <1>7, <1>9, <3>1, <3>4
  <2> QED  BY <2>1, <2>2
<1>12. Progress'
  <2>1. next' - 1 = next
    BY <1>1, <1>8
  <2> QED  BY <1>1, <1>7, <1>11, <2>1 DEF Progress, SectionAt
<1>13. Counted' /\ Finished' /\ FromOneBuild(file)'
  BY <1>1, <1>7 DEF IInv, Counted, Finished, FromOneBuild
<1> QED  BY <1>1, <1>10, <1>12, <1>13, OthersKept DEF IInv

(* What an error leaves of a section has no header in front of it. *)
LEMMA WriteIsCutKeeps == ASSUME IInv, WriteIsCut PROVE IInv'
<1>1. /\ stage = "write" /\ next <= Len(Section) /\ stage' = "exited"
      /\ UNCHANGED <<build, graph, input, header, next, image, api>>
  BY DEF WriteIsCut
<1>2. PICK n \in 0 .. Len(Appended) :
        file' = [file EXCEPT !.body = file.body \o SubSeq(Appended, 1, n)]
  BY DEF WriteIsCut
<1>3. file \in File /\ file.header = Blank /\ file.body \in Seq(Cell) /\ Appended \in Seq(Cell)
  BY <1>1, AppendedFacts
<1>4. SubSeq(Appended, 1, n) \in Seq(Cell)
  <2>1. Len(Appended) \in Nat /\ n \in Int /\ 1 .. n \subseteq 1 .. Len(Appended)
    BY <1>2, <1>3, LenProperties
  <2>2. \A j \in 1 .. n : Appended[j] \in Cell
    BY <1>3, <2>1, ElementOfSeq
  <2> QED  BY <2>1, <2>2, SubSeqProperties
<1>5. file.body \o SubSeq(Appended, 1, n) \in Seq(Cell)
  BY <1>3, <1>4, ConcatProperties
<1>6. file' \in File /\ file'.header = Blank
  BY <1>2, <1>3, <1>5 DEF File
<1>7. TypeOK'
  BY <1>1, <1>6 DEF IInv, TypeOK
<1>8. Counted' /\ Progress' /\ Finished' /\ FromOneBuild(file)'
  BY <1>1, <1>6 DEF Counted, Progress, Finished, FromOneBuild
<1> QED  BY <1>1, <1>7, <1>8, OthersKept DEF IInv

(* What holds before the header is written. *)
LEMMA HeaderDue ==
  ASSUME IInv, stage = "write", next > Len(Section)
  PROVE  /\ graph.sizes \in Graphs /\ build \in 1 .. Builds /\ file \in File /\ file # None
         /\ header \in Seq(Place) /\ Len(header) = Len(Section)
         /\ Laid(file.body, header, graph.sizes, build)
         /\ HeaderOf(graph.sizes, header) \in [Field -> Nat]
<1>1. /\ next \in 1 .. Len(Section) + 1 /\ Len(header) = next - 1 /\ header \in Seq(Place)
      /\ graph.sizes \in Graphs /\ file \in File
      /\ build \in 0 .. Builds /\ build >= 1
  BY DEF IInv, TypeOK
<1>2. next = 9
  BY <1>1, Sections
<1>3. \A k \in 1 .. 8 : SectionAt(file.body, header[k], k, graph.sizes, build)
  BY <1>2 DEF IInv, Progress
<1>4. Laid(file.body, header, graph.sizes, build)
  BY <1>1, <1>2, <1>3, Sections DEF Laid
<1>5. HeaderOf(graph.sizes, header) \in [Field -> Nat]
  BY <1>1, <1>2, Sections, HeaderFacts
<1> QED  BY <1>1, <1>2, <1>4, <1>5, Sections, IndexAssumption

LEMMA WriteHeaderKeeps == ASSUME IInv, WriteHeader PROVE IInv'
<1> DEFINE h == HeaderOf(graph.sizes, header)
<1>1. /\ stage = "write" /\ next > Len(Section) /\ stage' = "reload"
      /\ file' = [file EXCEPT !.header = h]
      /\ UNCHANGED <<build, graph, input, header, next, image, api>>
  BY DEF WriteHeader
<1>2. /\ graph.sizes \in Graphs /\ build \in 1 .. Builds /\ file \in File
      /\ header \in Seq(Place) /\ Len(header) = Len(Section)
      /\ Laid(file.body, header, graph.sizes, build) /\ h \in [Field -> Nat]
      /\ CutOf(h, h)
  BY <1>1, HeaderDue, WholeIsCut
<1> HIDE DEF h
<1>3. file' \in File /\ file'.header = h /\ file'.body = file.body /\ file' # None
  <2>1. file' \in File /\ file'.header = h /\ file'.body = file.body
    BY <1>1, <1>2 DEF File
  <2> QED  BY <2>1, IndexAssumption
<1>4. TypeOK'
  BY <1>1, <1>3 DEF IInv, TypeOK
<1>5. Counted' /\ Progress'
  BY <1>1 DEF IInv, Counted, Progress
<1>6. Finished'
  BY <1>1, <1>2, <1>3 DEF Finished, Laid, SectionAt, h
<1>7. FromOneBuild(file')
  BY <1>2, <1>3 DEF FromOneBuild, h
<1> QED  BY <1>1, <1>4, <1>5, <1>6, <1>7, OthersKept DEF IInv

(* A header cut anywhere: what is in front of the cut is whole, and there  *)
(* is nothing behind it.                                                   *)
LEMMA CutIsCut ==
  ASSUME NEW h \in [Field -> Nat], NEW i \in Field, NEW span \in Nat \ {0}
  PROVE  CutAt(h, i, span) \in [Field -> Nat] /\ CutOf(CutAt(h, i, span), h)
<1> DEFINE c == CutAt(h, i, span)
<1>1. h[i] \in Nat /\ h[i] % span \in Nat /\ h[i] % span <= h[i]
  <2>1. h[i] \in Nat
    OBVIOUS
  <2>2. /\ h[i] = span * (h[i] \div span) + (h[i] % span)
        /\ h[i] % span \in 0 .. span - 1 /\ h[i] \div span \in Nat
    BY <2>1, DivMod
  <2>3. \A x, y \in Nat : x * y \in Nat
    OBVIOUS
  <2>4. span * (h[i] \div span) \in Nat
    BY <2>2, <2>3
  <2> QED  BY <2>1, <2>2, <2>4
<1>2. \A j \in Field : c[j] = IF j < i THEN h[j] ELSE IF j = i THEN h[j] % span ELSE 0
  BY DEF CutAt
<1>3. \A j \in Field : c[j] \in Nat /\ c[j] <= h[j] /\ (c[j] # 0 => j <= i)
  <2> TAKE j \in Field
  <2>1. CASE j = i
    <3>1. c[i] = h[i] % span
      <4>1. ~ (i < i)
        BY DEF Field
      <4>2. c[i] = IF i < i THEN h[i] ELSE IF i = i THEN h[i] % span ELSE 0
        BY <1>2
      <4> HIDE DEF c
      <4> QED  BY <4>1, <4>2
    <3>2. c[i] \in Nat /\ c[i] <= h[i]
      BY <1>1, <3>1
    <3>3. j <= i
      BY <2>1 DEF Field
    <3> QED  BY <2>1, <3>2, <3>3
  <2>2. CASE j # i
    BY <1>2, <2>2 DEF Field
  <2> QED  BY <2>1, <2>2
<1>4. c \in [Field -> Nat]
  BY <1>3 DEF CutAt
<1> HIDE DEF c
<1>5. ASSUME NEW j \in Field, c[j] # 0, NEW k \in 1 .. j - 1 PROVE c[k] = h[k]
  <2>1. k \in Field /\ k < i
    BY <1>3, <1>5 DEF Field
  <2> QED  BY <1>2, <2>1
<1> QED  BY <1>3, <1>4, <1>5 DEF CutOf, c

LEMMA HeaderIsCutKeeps == ASSUME IInv, HeaderIsCut PROVE IInv'
<1> DEFINE h == HeaderOf(graph.sizes, header)
<1>1. /\ stage = "write" /\ next > Len(Section) /\ stage' = "exited"
      /\ UNCHANGED <<build, graph, input, header, next, image, api>>
  BY DEF HeaderIsCut
<1>2. PICK i \in Field, span \in ByteSpans : file' = [file EXCEPT !.header = CutAt(h, i, span)]
  BY DEF HeaderIsCut
<1>3. /\ graph.sizes \in Graphs /\ build \in 1 .. Builds /\ file \in File
      /\ header \in Seq(Place) /\ Laid(file.body, header, graph.sizes, build)
      /\ h \in [Field -> Nat]
  BY <1>1, HeaderDue
<1> HIDE DEF h
<1>4. CutAt(h, i, span) \in [Field -> Nat] /\ CutOf(CutAt(h, i, span), h)
  <2>1. span \in Nat \ {0}
    BY IndexAssumption
  <2> QED  BY <1>3, <2>1, CutIsCut
<1>5. /\ file' \in File /\ file'.header = CutAt(h, i, span) /\ file'.body = file.body
  BY <1>2, <1>3, <1>4 DEF File
<1>6. TypeOK'
  BY <1>1, <1>5 DEF IInv, TypeOK
<1>7. Counted' /\ Progress' /\ Finished'
  BY <1>1 DEF Counted, Progress, Finished
<1>8. FromOneBuild(file')
  BY <1>3, <1>4, <1>5 DEF FromOneBuild, h
<1> QED  BY <1>1, <1>6, <1>7, <1>8, OthersKept DEF IInv

-----------------------------------------------------------------------------
LEMMA BuildImageKeeps == ASSUME IInv, BuildImage PROVE IInv'
<1>1. image' = file /\ UNCHANGED <<stage, build, graph, input, header, next, file, api>>
  BY DEF BuildImage
<1>2. TypeOK'
  BY <1>1 DEF IInv, TypeOK
<1>3. Counted' /\ Progress' /\ Finished' /\ ServesOneBuild'
  BY <1>1 DEF IInv, Counted, Progress, Finished, Laid, SectionAt, ServesOneBuild
<1>4. FromOneBuild(file)' /\ FromOneBuild(image)'
  BY <1>1 DEF IInv, FromOneBuild, Laid, SectionAt
<1> QED  BY <1>2, <1>3, <1>4 DEF IInv

(* What does not concern the instances is kept with everything else. *)
LEMMA FilesKept ==
  ASSUME IInv, UNCHANGED <<stage, build, graph, input, header, next, file, image>>
  PROVE  Counted' /\ Progress' /\ Finished' /\ FromOneBuild(file)' /\ FromOneBuild(image)'
BY SMTT(30) DEF IInv, Counted, Progress, Finished, FromOneBuild, Laid, SectionAt

LEMMA StartInstanceKeeps ==
  ASSUME IInv, NEW a \in Instance, StartInstance(a) PROVE IInv'
<1> DEFINE new == IF Loads(image) THEN Loaded(image) ELSE [state |-> "failed"]
<1>1. /\ image # None /\ api' = [api EXCEPT ![a] = new]
      /\ UNCHANGED <<stage, build, graph, input, header, next, file, image>>
  BY DEF StartInstance
<1>2. CASE Loads(image)
  <2>1. /\ image \in File /\ image # None /\ image.header \in [Field -> Nat]
        /\ image.header # Blank
    <3>1. image \in File /\ image.header[1] = 1
      BY <1>1, <1>2 DEF IInv, TypeOK, Loads
    <3>2. Blank[1] = 0
      BY DEF Blank, Field
    <3> QED  BY <1>1, <3>1, <3>2 DEF File
  <2>2. PICK g \in Graphs, b \in 1 .. Builds, places \in Seq(Place) :
          Laid(image.body, places, g, b) /\ CutOf(image.header, HeaderOf(g, places))
    BY <2>1 DEF IInv, FromOneBuild
  <2>3. b \in Nat
    BY <2>2, IndexAssumption
  <2>4. \A k \in DOMAIN Section : View(image, k) \in Seq(Cell)
    BY <2>1, <2>2, <2>3, CutView
  <2>5. SizesIn(image.header) \in SizesRead
    <3>1. /\ image.header[2] \in Nat /\ image.header[3] \in Nat
          /\ image.header[4] \in Nat /\ image.header[5] \in Nat
      BY <2>1, FieldFacts
    <3> QED  BY <3>1 DEF SizesIn, SizesRead
  <2>6. new \in Serving /\ new = Loaded(image) /\ new.sizes.n = image.header[2]
    BY <1>2, <2>4, <2>5 DEF Loaded, Serving, SizesIn
  <2>7. new.sizes.n > 0 => OfOneBuild(new, g, b)
    BY <1>2, <2>1, <2>2, <2>3, <2>6, LoadedIsOfOneBuild
  <2> HIDE DEF new
  <2>8. api' \in [Instance -> {Down, [state |-> "failed"]} \cup Serving]
    BY <1>1, <2>6 DEF IInv, TypeOK
  <2>9. api'[a] = new /\ \A c \in Instance \ {a} : api'[c] = api[c]
    BY <1>1 DEF IInv, TypeOK
  <2>10. TypeOK'
    BY <1>1, <2>8 DEF IInv, TypeOK
  <2>11. ServesOneBuild'
    <3> SUFFICES ASSUME NEW c \in Instance, api'[c].state = "serving", api'[c].sizes.n > 0
                 PROVE  \E k \in Graphs, d \in 1 .. Builds : OfOneBuild(api'[c], k, d)
      BY DEF ServesOneBuild
    <3>1. CASE c = a
      BY <2>2, <2>7, <2>9, <3>1
    <3>2. CASE c # a
      BY <2>9, <3>2 DEF IInv, ServesOneBuild
    <3> QED  BY <3>1, <3>2
  <2> QED  BY <1>1, <2>10, <2>11, FilesKept DEF IInv
<1>3. CASE ~ Loads(image)
  <2>1. new = [state |-> "failed"]
    BY <1>3
  <2> HIDE DEF new
  <2>2. api' \in [Instance -> {Down, [state |-> "failed"]} \cup Serving]
    BY <1>1, <2>1 DEF IInv, TypeOK
  <2>3. api'[a].state = "failed" /\ \A c \in Instance \ {a} : api'[c] = api[c]
    BY <1>1, <2>1 DEF IInv, TypeOK
  <2>4. TypeOK'
    BY <1>1, <2>2 DEF IInv, TypeOK
  <2>5. ServesOneBuild'
    BY <2>3 DEF IInv, ServesOneBuild
  <2> QED  BY <1>1, <2>4, <2>5, FilesKept DEF IInv
<1> QED  BY <1>2, <1>3

LEMMA StopInstanceKeeps ==
  ASSUME IInv, NEW a \in Instance, StopInstance(a) PROVE IInv'
<1>1. /\ api' = [api EXCEPT ![a] = Down]
      /\ UNCHANGED <<stage, build, graph, input, header, next, file, image>>
  BY DEF StopInstance
<1>2. api' \in [Instance -> {Down, [state |-> "failed"]} \cup Serving]
  BY <1>1 DEF IInv, TypeOK
<1>3. api'[a].state = "down" /\ \A c \in Instance \ {a} : api'[c] = api[c]
  BY <1>1 DEF IInv, TypeOK, Down
<1>4. TypeOK'
  BY <1>1, <1>2 DEF IInv, TypeOK
<1>5. ServesOneBuild'
  BY <1>3 DEF IInv, ServesOneBuild
<1> QED  BY <1>1, <1>4, <1>5, FilesKept DEF IInv

-----------------------------------------------------------------------------
(* IInv holds initially and every step keeps it. *)
THEOREM Inductive == Spec => []IInv
<1>1. IInv /\ [Next]_vars => IInv'
  <2> SUFFICES ASSUME IInv, [Next]_vars PROVE IInv'
    OBVIOUS
  <2>1. CASE Next
    BY <2>1, StartKeeps, InsertKeeps, EndOfInputKeeps, LaterKeeps, CreateKeeps,
       WriteSectionKeeps, WriteIsCutKeeps, WriteHeaderKeeps, HeaderIsCutKeeps, BuildImageKeeps,
       StartInstanceKeeps, StopInstanceKeeps DEF Next
  <2>2. CASE UNCHANGED vars
    <3>1. TypeOK'
      BY <2>2 DEF vars, IInv, TypeOK
    <3>2. ServesOneBuild'
      BY <2>2 DEF vars, IInv, ServesOneBuild
    <3> QED  BY <2>2, <3>1, <3>2, FilesKept DEF vars, IInv
  <2> QED  BY <2>1, <2>2
<1> QED  BY <1>1, InitIInv, PTL DEF Spec

(* The file, its copy and what every instance has loaded have their types. *)
THEOREM TypeCorrect == Spec => []TypeOK
<1>1. IInv => TypeOK
  BY DEF IInv
<1> QED  BY <1>1, Inductive, PTL

(***************************************************************************)
(* Every instance that serves nodes serves those of one build, whatever    *)
(* inputs, builds and writes were cut short: Create zeroes the header      *)
(* before the first section and WriteHeader is last, so whatever is in a   *)
(* header is of the build whose sections are behind it; and its Labels     *)
(* prove all that comes before them.                                       *)
(***************************************************************************)
THEOREM OneBuildIsServed == Spec => []ServesOneBuild
<1>1. IInv => ServesOneBuild
  BY DEF IInv
<1> QED  BY <1>1, Inductive, PTL

(* What Save wrote, loadFromBytes accepts and hands back section by section. *)
THEOREM SavedIsReadBack == Spec => []RoundTrip
<1>1. IInv => RoundTrip
  <2> SUFFICES ASSUME IInv, stage \in {"reload", "measure", "done"}
               PROVE  /\ Loads(file) /\ Loaded(file).sizes = SizesOf(graph.sizes)
                      /\ \A k \in DOMAIN Section :
                           View(file, k) = BytesOf(graph.sizes, Section[k], build)
    BY DEF RoundTrip
  <2>1. /\ file \in File /\ graph.sizes \in Graphs /\ build \in Nat
        /\ header \in Seq(Place) /\ Len(header) = Len(Section)
        /\ file.header = HeaderOf(graph.sizes, header)
        /\ Laid(file.body, header, graph.sizes, build)
    BY IndexAssumption DEF IInv, TypeOK, Finished, Laid
  <2>2. Loads(file)
    BY <2>1, WholeLoads
  <2>3. Loaded(file).sizes = SizesOf(graph.sizes)
    BY <2>1, HeaderFacts DEF Loaded
  <2>4. ASSUME NEW k \in DOMAIN Section
        PROVE  View(file, k) = BytesOf(graph.sizes, Section[k], build)
    <3>1. CutOf(file.header, HeaderOf(graph.sizes, header))
      BY <2>1, WholeIsCut
    <3>2. PlaceIn(file.header, k) = header[k]
      BY <2>1, HeaderFacts
    <3> QED  BY <2>1, <3>1, <3>2, CutView
  <2> QED  BY <2>2, <2>3, <2>4
<1> QED  BY <1>1, Inductive, PTL
=============================================================================
