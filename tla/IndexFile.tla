----------------------------- MODULE IndexFile -----------------------------
(***************************************************************************)
(* The life of the index file hnsw.bin: cmd/build-index writes it (Save of *)
(* internal/hnsw/persist.go), reads it back and measures its recall; the   *)
(* image of the API takes a copy of it; an API instance loads the copy     *)
(* (LoadMmap, loadFromBytes) before it serves.  A build may fail or be     *)
(* killed at every step, and the next one may start on what it left.       *)
(*                                                                         *)
(* A file is the fields of its header and the cells behind it, one for     *)
(* each byte: byte k of a section of a build, or padding.  What the bytes  *)
(* of a section say is left out; which bytes a reader gets for a section   *)
(* is not.                                                                 *)
(***************************************************************************)
EXTENDS Integers, Sequences, FiniteSets, SequencesExt

CONSTANTS
  Instance,    \* API instances
  Builds,      \* number of builds that are run, one after the other
  Graphs,      \* sizes of the graphs that can be built; n is what -n says
  MaxRecords,  \* records the input may have
  VectorDim,   \* bytes of a vector (14)
  HeaderSize,  \* headerSize (256)
  Align,       \* sectionAlgn (16)
  ByteSpans,   \* how many values the first bytes of a number can tell apart:
               \* none of them 1, one of them 256, two of them 256 * 256, ...
  None

(* Sections in the order Save writes them, and their lengths in bytes. *)
Section == <<"Vectors", "Conn0Cnt", "Conn0", "Labels",
             "UpperOff", "UpperNodes", "UpperCnt", "UpperConn">>
Int32Sections == {"Conn0", "UpperOff", "UpperNodes", "UpperConn"}
Name == {Section[k] : k \in DOMAIN Section}

LengthOf(g, s) ==
  CASE s = "Vectors" -> g.n * VectorDim
    [] s = "Conn0Cnt" -> g.n
    [] s = "Conn0" -> 4 * g.n * g.m0
    [] s = "Labels" -> (g.n + 7) \div 8
    [] s = "UpperOff" -> 4 * (g.maxLayer + 1)
    [] s = "UpperNodes" -> 4 * g.upperNodes
    [] s = "UpperCnt" -> g.upperNodes
    [] s = "UpperConn" -> 4 * g.upperNodes * g.m

(***************************************************************************)
(* The fields of the header, in their order: the magic and the version     *)
(* (1 when they are there), the sizes, and offset and length of each       *)
(* section.  (EntryPoint, between M0 and MaxLayer, is not read here.)      *)
(***************************************************************************)
Field == 1 .. 21
Place == [off : Nat, len : Nat]
SizesIn(h) == [n |-> h[2], m |-> h[3], m0 |-> h[4], maxLayer |-> h[5]]
PlaceIn(h, k) == [off |-> h[2 * k + 4], len |-> h[2 * k + 5]]
HeaderOf(g, places) ==
  [j \in Field |->
     CASE j = 1 -> 1 [] j = 2 -> g.n [] j = 3 -> g.m [] j = 4 -> g.m0 [] j = 5 -> g.maxLayer
       [] OTHER -> LET at == places[(j - 4) \div 2]
                   IN  IF j % 2 = 0 THEN at.off ELSE at.len]
Blank == [j \in Field |-> 0]

(* A header that is written up to somewhere in field i: the bytes of a     *)
(* number come lowest first, and behind them are the zeros of Create.      *)
CutAt(h, i, span) ==
  [j \in Field |-> IF j < i THEN h[j] ELSE IF j = i THEN h[j] % span ELSE 0]

(* A cell of a file, and a file. *)
Cell == [section : Name \cup {"pad", "zero"}, byte : Nat, build : Nat]
File == [header : [Field -> Nat], body : Seq(Cell)]

ASSUME IndexAssumption ==
  /\ Builds \in Nat /\ MaxRecords \in Nat /\ VectorDim \in Nat \ {0}
  /\ HeaderSize \in Nat /\ HeaderSize % Align = 0
  /\ Align \in Nat \ {0} /\ Align % 4 = 0
  /\ \A g \in Graphs :
       {g.n, g.m, g.m0, g.maxLayer, g.upperNodes} \subseteq Nat
  /\ ByteSpans \subseteq Nat \ {0}
  /\ None \notin File

Pad == [section |-> "pad", byte |-> 0, build |-> 0]
BytesOf(g, s, build) ==
  [k \in 1 .. LengthOf(g, s) |-> [section |-> s, byte |-> k, build |-> build]]

(* A node no record was inserted for has the zeros NewBuilder gave it. *)
Zero == [section |-> "zero", byte |-> 0, build |-> 0]
Written(g, s, build, inserted) ==
  [k \in 1 .. LengthOf(g, s) |->
     IF s = "Vectors" /\ k > inserted * VectorDim THEN Zero ELSE BytesOf(g, s, build)[k]]

VARIABLES
  stage,   \* where the build in progress stands
  build,   \* its number
  graph,   \* the graph it makes: its sizes, the records inserted in it, and
           \* whether its recall is enough
  input,   \* what the decoder has yet to read
  header,  \* the header Save fills in: offset and length of each section
  next,    \* the section Save writes next
  file,    \* the output file
  image,   \* the copy of it in the image of the API
  api      \* what each instance has loaded

vars == <<stage, build, graph, input, header, next, file, image, api>>

Down == [state |-> "down"]

Init ==
  /\ stage = "idle" /\ build = 0 /\ graph = None /\ input = None
  /\ header = << >> /\ next = 1
  /\ file = None /\ image = None
  /\ api = [a \in Instance |-> Down]

-----------------------------------------------------------------------------
(***************************************************************************)
(* The builder is made for the number of records -n says.  The input has   *)
(* some records and then a malformed one, or no more: the end of the array *)
(* and the end of a file cut behind a record are the same to the decoder.  *)
(***************************************************************************)
StartBuild ==
  /\ stage \in {"idle", "exited", "refused", "done"} /\ build < Builds
  /\ build' = build + 1
  /\ \E g \in Graphs, recall \in BOOLEAN :
       graph' = [sizes |-> g, inserted |-> 0, recall |-> recall]
  /\ \E n \in 0 .. MaxRecords, malformed \in BOOLEAN :
       input' = [records |-> n, malformed |-> malformed]
  /\ stage' = "insert"
  /\ UNCHANGED <<header, next, file, image, api>>

(* StreamRecords and BuildIndex: a record more than -n is an error.        *)
InsertRecord ==
  /\ stage = "insert" /\ input.records > 0
  /\ input' = [input EXCEPT !.records = @ - 1]
  /\ IF graph.inserted >= graph.sizes.n
     THEN stage' = "exited" /\ UNCHANGED graph
     ELSE graph' = [graph EXCEPT !.inserted = @ + 1] /\ UNCHANGED stage
  /\ UNCHANGED <<build, header, next, file, image, api>>

EndUncounted ==  \* mutant: the records are not counted
  /\ stage = "insert" /\ input.records = 0
  /\ stage' = IF input.malformed THEN "exited" ELSE "create"
  /\ UNCHANGED <<build, graph, input, header, next, file, image, api>>

(* The input ends: every node must have got its record.  The graph is then *)
(* finalized and reordered, and only now the output file is touched.       *)
EndOfInput ==
  /\ stage = "insert" /\ input.records = 0
  /\ stage' = IF input.malformed \/ graph.inserted # graph.sizes.n
              THEN "exited" ELSE "create"
  /\ UNCHANGED <<build, graph, input, header, next, file, image, api>>

(***************************************************************************)
(* os.Create empties the file, and the space of the header is zeroed.  (A  *)
(* file still shorter than a header is refused like one without a magic.)  *)
(***************************************************************************)
Create ==
  /\ stage = "create"
  /\ file' = [header |-> Blank, body |-> << >>]
  /\ header' = << >> /\ next' = 1
  /\ stage' = "write"
  /\ UNCHANGED <<build, graph, input, image, api>>

(***************************************************************************)
(* writeSection pads to the alignment, notes the offset and writes.  An    *)
(* error, or the end of the process, leaves some of it in the file.        *)
(***************************************************************************)
Position == HeaderSize + Len(file.body)
Padding == [k \in 1 .. (Align - (Position % Align)) % Align |-> Pad]
Appended ==
  Padding \o Written(graph.sizes, Section[next], build, graph.inserted)

WriteBeforePadding ==  \* mutant: the offset is noted before the padding
  /\ stage = "write" /\ next <= Len(Section)
  /\ file' = [file EXCEPT !.body = @ \o Appended]
  /\ header' = Append(header, [off |-> Position, len |-> LengthOf(graph.sizes, Section[next])])
  /\ next' = next + 1
  /\ UNCHANGED <<stage, build, graph, input, image, api>>

WriteNonEmpty ==  \* mutant: an empty section gets no place in the header
  /\ stage = "write" /\ next <= Len(Section)
  /\ file' = [file EXCEPT !.body = @ \o Appended]
  /\ header' = IF LengthOf(graph.sizes, Section[next]) = 0 THEN header
               ELSE Append(header, [off |-> Position + Len(Padding),
                                    len |-> LengthOf(graph.sizes, Section[next])])
  /\ next' = next + 1
  /\ UNCHANGED <<stage, build, graph, input, image, api>>

WriteSection ==
  /\ stage = "write" /\ next <= Len(Section)
  /\ file' = [file EXCEPT !.body = @ \o Appended]
  /\ header' = Append(header, [off |-> Position + Len(Padding),
                               len |-> LengthOf(graph.sizes, Section[next])])
  /\ next' = next + 1
  /\ UNCHANGED <<stage, build, graph, input, image, api>>

WriteIsCut ==
  /\ stage = "write" /\ next <= Len(Section)
  /\ \E n \in 0 .. Len(Appended) :
       file' = [file EXCEPT !.body = @ \o SubSeq(Appended, 1, n)]
  /\ stage' = "exited"
  /\ UNCHANGED <<build, graph, input, header, next, image, api>>

(* The header is written last, over the zeros at the front: by one write,  *)
(* which may fail part-way as those of the sections may.                   *)
WriteHeader ==
  /\ stage = "write" /\ next > Len(Section)
  /\ file' = [file EXCEPT !.header = HeaderOf(graph.sizes, header)]
  /\ stage' = "reload"
  /\ UNCHANGED <<build, graph, input, header, next, image, api>>

HeaderIsCut ==
  /\ stage = "write" /\ next > Len(Section)
  /\ \E i \in Field, span \in ByteSpans :
       file' = [file EXCEPT !.header = CutAt(HeaderOf(graph.sizes, header), i, span)]
  /\ stage' = "exited"
  /\ UNCHANGED <<build, graph, input, header, next, image, api>>

(* Between any two steps the process may end, or fail to go on. *)
Exit ==
  /\ stage \in {"insert", "create", "write", "reload", "measure"}
  /\ stage' = "exited"
  /\ UNCHANGED <<build, graph, input, header, next, file, image, api>>

-----------------------------------------------------------------------------
(***************************************************************************)
(* loadFromBytes: the magic and the version, every section inside the      *)
(* file, int32 sections aligned, and the four sizes that are checked.      *)
(***************************************************************************)
Length(f) == HeaderSize + Len(f.body)
Placed(f, k) ==
  LET at == PlaceIn(f.header, k)
  IN  /\ at.off + at.len <= Length(f)
      /\ Section[k] \in Int32Sections =>
           at.len % 4 = 0 /\ (at.len > 0 => at.off % 4 = 0)
SizeAsExpected(f, k) ==
  Section[k] \in {"Vectors", "Conn0", "Conn0Cnt", "Labels"} =>
    PlaceIn(f.header, k).len = LengthOf(SizesIn(f.header), Section[k])
Loads(f) ==
  f # None /\ f.header[1] = 1
  /\ \A k \in DOMAIN Section : Placed(f, k) /\ SizeAsExpected(f, k)

(* The views of the sections the loaded graph gets. *)
View(f, k) ==
  LET at == PlaceIn(f.header, k)
  IN  SubSeq(f.body, at.off - HeaderSize + 1, at.off - HeaderSize + at.len)
Loaded(f) ==
  [state |-> "serving", sizes |-> SizesIn(f.header),
   views |-> [k \in DOMAIN Section |-> View(f, k)]]

(* The build reads its own output back, and measures the recall. *)
Reload ==
  /\ stage = "reload"
  /\ stage' = IF Loads(file) THEN "measure" ELSE "exited"
  /\ UNCHANGED <<build, graph, input, header, next, file, image, api>>

(* With -recall-queries 0 the build ends with the file it wrote. *)
SkipRecall ==
  /\ stage = "reload" /\ stage' = "done"
  /\ UNCHANGED <<build, graph, input, header, next, file, image, api>>

Measure ==
  /\ stage = "measure"
  /\ stage' = IF graph.recall THEN "done" ELSE "refused"
  /\ UNCHANGED <<build, graph, input, header, next, file, image, api>>

(* docker build copies the file, whatever it is. *)
BuildImage ==
  /\ file # None /\ image' = file
  /\ UNCHANGED <<stage, build, graph, input, header, next, file, api>>

(* An instance starts on the image there is: log.Fatalf if it cannot load. *)
StartInstance(a) ==
  /\ image # None
  /\ api' = [api EXCEPT ![a] = IF Loads(image) THEN Loaded(image) ELSE [state |-> "failed"]]
  /\ UNCHANGED <<stage, build, graph, input, header, next, file, image>>

StopInstance(a) ==
  /\ api[a] # Down /\ api' = [api EXCEPT ![a] = Down]
  /\ UNCHANGED <<stage, build, graph, input, header, next, file, image>>

Next == \/ StartBuild \/ InsertRecord \/ EndOfInput \/ Create
        \/ WriteSection \/ WriteIsCut \/ WriteHeader \/ HeaderIsCut
        \/ Reload \/ SkipRecall \/ Measure \/ Exit \/ BuildImage
        \/ \E a \in Instance : StartInstance(a) \/ StopInstance(a)

Spec == Init /\ [][Next]_vars

-----------------------------------------------------------------------------
SizesRead == [n : Nat, m : Nat, m0 : Nat, maxLayer : Nat]
Serving == [state : {"serving"}, sizes : SizesRead, views : [DOMAIN Section -> Seq(Cell)]]
TypeOK ==
  /\ stage \in {"idle", "insert", "create", "write", "reload", "measure", "done",
                "refused", "exited"}
  /\ build \in 0 .. Builds /\ next \in 1 .. Len(Section) + 1
  /\ stage # "idle" =>
       /\ graph \in [sizes : Graphs, inserted : Nat, recall : BOOLEAN]
       /\ graph.inserted <= graph.sizes.n /\ build >= 1
  /\ stage = "insert" => input \in [records : 0 .. MaxRecords, malformed : BOOLEAN]
  /\ header \in Seq(Place)
  /\ stage = "write" => Len(header) = next - 1 /\ file # None
  /\ file \in File \cup {None} /\ image \in File \cup {None}
  /\ api \in [Instance -> {Down, [state |-> "failed"]} \cup Serving]

(***************************************************************************)
(* Whatever inputs, builds or writes were cut short before the image was   *)
(* made, an instance that serves nodes serves those of one build: of the   *)
(* sizes that build had, with all its bytes for vectors, labels and the    *)
(* links of layer 0 and so a record for every node.  Its upper layers may  *)
(* be cut short, by a header of which not all was written and which        *)
(* loadFromBytes takes: the sections up to one are whole, that one gives   *)
(* its first bytes, and the ones after it none.  (A header cut before N    *)
(* is taken for a graph without nodes.)                                    *)
(***************************************************************************)
SizesOf(g) == [n |-> g.n, m |-> g.m, m0 |-> g.m0, maxLayer |-> g.maxLayer]
OfOneBuild(loaded, g, b) ==
  LET whole(k) == loaded.views[k] = BytesOf(g, Section[k], b)
  IN  /\ loaded.sizes = SizesOf(g)
      /\ \A k \in 1 .. 4 : whole(k)
      /\ \A k \in DOMAIN Section : IsPrefix(loaded.views[k], BytesOf(g, Section[k], b))
      /\ \A k, l \in DOMAIN Section : k < l /\ ~ whole(k) => loaded.views[l] = << >>
ServesOneBuild ==
  \A a \in Instance : (api[a].state = "serving" /\ api[a].sizes.n > 0) =>
    \E g \in Graphs, b \in 1 .. Builds : OfOneBuild(api[a], g, b)

(***************************************************************************)
(* What Save wrote, Load reads: a build that wrote its header can read its *)
(* file back and finds every section as it left it.                        *)
(***************************************************************************)
RoundTrip ==
  stage \in {"reload", "measure", "done"} =>
    /\ Loads(file)
    /\ Loaded(file).sizes = SizesOf(graph.sizes)
    /\ \A k \in DOMAIN Section :
         View(file, k) = BytesOf(graph.sizes, Section[k], build)

(***************************************************************************)
(* What the last message of cmd/build-index says: it refuses to ship an    *)
(* index whose recall is too low, so that no image that is made after the  *)
(* refusal contains an index an instance would load.                       *)
(***************************************************************************)
RefusedIsNotShipped ==
  [][stage = "refused" /\ image' # image => ~ Loads(image')]_vars
=============================================================================
