# Verification of the fraud-detection API

TLA+ models of the fraud-detection API, the TLC configurations that check them on small
instances, and TLAPS proofs about eleven of them in eight proof modules. Sources are named by their
path in the repository; `PROJECT.json` maps every definition to the lines it models and lists the
components, runs, mutants, hazards, findings and theorems.

## The system

`POST /fraud-score` is parsed, turned into a 14-dimensional vector, quantized to bytes, and the
five nearest reference vectors are looked up in a read-only HNSW graph; the number of frauds among
the five selects one of six precomputed answers. The graph is built offline from three million
records, finalized, renumbered for locality and saved to `hnsw.bin`, which the image of the API
contains. Two API instances behind nginx map it into memory.

| Component (source) | State | Operations | Interacts with |
|---|---|---|---|
| Query (`internal/hnsw/query.go`) | `VisitSlot`: marks, generation, candidates, results | `QueryFast5`: descent, layer-0 search, top five | reads the graph; called by the handler with the slot of a `workBuf` |
| Candidate heap (`query.go`) | `slot.cands` | `pushMin`, `popMin` | used by the layer-0 search |
| Builder (`internal/hnsw/hnsw.go`) | growing graph, levels, `upperConns`, heaps, marks | `Insert` and all it calls, `SetLabel` | fed by the build pipeline |
| Layout (`hnsw.go`, `reorder.go`) | the graph's arrays | `Finalize`, `Reorder`, the readers | between builder and file |
| Index file (`persist.go`, `persist_mmap_*.go`) | the file; the mapping | `Save`, `Load`, `LoadMmap` | build pipeline writes, instances read |
| Build pipeline (`cmd/build-index`, `internal/buildindex`, `Dockerfile`) | stage of the build | read, insert, finalize, reorder, save, reload, measure, exit | everything offline |
| Handler (`internal/api/handler.go`) | `sync.Pool` of `workBuf`s; what each request holds | `Handle`, `handleScore` | fasthttp's goroutine per connection calls it |
| Parser (`internal/api/parse_strict.go`) | none; fills `workBuf.req` | `parseStrictRequest` | strings alias the request body |
| Vectorize, quantize, distance (`internal/vectorize`, `quantize.go`, `dist.go`) | none | pure functions | handler, builder |
| Server (`cmd/api/main.go`) | process, its connections | load, warm, listen, close idle connections | index file, handler, nginx |
| Deployment (`nginx.conf`, `docker-compose.yml`) | upstream connections and their cache, the passive health check | route, reuse, connect, answer, fail | clients, instances |

What is hard in it:

* **Concurrency.** Handlers run at the same time and recycle `workBuf`s; a `workBuf` holds the only
  slot a search may write, and strings that point into memory another request will overwrite.
* **Reuse without clearing.** A slot answers queries for as long as the process lives; its marks are
  cleared once in 255 queries. Upstream connections outlive the requests sent on them, and clients.
* **Bounded search.** Stopping early, replacing the worst result in place and pruning neighbour
  lists are correct for reasons that span many steps.
* **Crashes.** A build overwrites the previous index in place and can be cut short anywhere. An
  instance may end with requests in its handlers, and nothing restarts it.
* **Late knowledge.** The two ends of an upstream connection close at different times: nginx may send
  a request on a connection the instance has just closed.
* **Order.** The header last; the rows sorted again after a renaming; the entry point promoted after
  the links are made; the recall measured after the file is in place.
* **Edges of numbers.** Counts that wrap, distances that are infinite, quotients that are NaN, a
  level converted to `int8`.

What makes each component correct is the list of properties below; `PROJECT.json` lists the
hazards at their lines, with the property that covers each or the reason why none does.

## The modules

| Module | Models | Abstract specification it implements | Proofs |
|---|---|---|---|
| `QueryFast5` | a query, one neighbour per step | – | `QueryFast5Proofs` |
| `RecallCheck` | the brute-force scan the recall is measured against | – | `QueryFast5Proofs` |
| `CandidateHeap` | the binary heap, one swap per step | `NearestQueue` | `CandidateHeapProofs` |
| `HnswBuilder` | `Insert`, one hop, visit or link per step | – | `HnswBuilderProofs` |
| `GraphLayout` | `Finalize`, the walk of `Reorder`, the permutation, each layer's sort | – | `GraphLayoutProofs` |
| `IndexFile` | the build and its file, write by write; image, instances | – | `IndexFileProofs` |
| `FraudHandler` | connections, pool and `workBuf`s, one part of a request per step | `ScoreService` | `FraudHandlerProofs` |
| `StrictParser` | the parser, token by token | – | `ScorePayloadProofs` |
| `FraudVector` | `Vectorize`, both quantizations, the distance | – | `ScorePayloadProofs` |
| `ScorePayload` | bodies, edited or not, through parser and vector to the query | – | `ScorePayloadProofs` |
| `Deployment` | nginx, its upstream connections, the instances, the clients | `Delivery` | `DeploymentProofs` |

The `MC...` modules give the constants their values for TLC.

They compose by abstraction: `CandidateHeap` implements the queue of nearest nodes that
`QueryFast5` takes its candidates to be; `QueryFast5` is the search that `FraudHandler` uses as the
function `NearestTo` and runs on a slot nobody else writes (`BuffersExclusive`); `ScorePayload`
composes `StrictParser` and `FraudVector` into the query that the search gets; `HnswBuilder`
hands `GraphLayout` maps of layers, whose arrays are the sections `IndexFile` writes and the graph
`QueryFast5` reads; `RecallCheck` extends `QueryFast5` with the scan that judges its answers; and a
run of a handler in `Deployment` is a request of `FraudHandler`.

### Correspondence with the code

**QueryFast5.** A query vector matters only through its distance to each node, so `dist`, chosen
anew for every query, stands for it. `marks` and `gen` are the slot's, with `GenMod` for 256.
`resIDs`, `resWorstD`, `resWorstI` are the slot's; `cands` is the set of nodes in the heap. Actions
are the descent's hop and step down, `BeginLayer0` (with the generation's wrap), popping a
candidate, looking at one neighbour (already marked, appended, replacing the worst, rejected), the
early stop, and one pick of `top5FromResults`, padding included.

**RecallCheck.** `Keep` is one turn of the loop of `bruteTop5` over the nodes: it fills a slot
(`Filled`), or overwrites the slot `worstI` and looks through the slots for the new worst
(`Replaced`); `worstD` and `worstI` are carried from one node to the next, as in the code. `Turn` is
one turn of the inner loop of the insertion sort, which swaps ids and distances together. Three
functions iterate them: over the nodes, over the entries to insert, over the turns of one insertion.
`Hits` counts as `MeasureRecallAt5` does.

**CandidateHeap.** `Push` and `Pop` do what precedes the loop of `pushMin` and `popMin`; `SiftUp`
and `SiftDown` are one iteration each. Distances are drawn at the start of a behaviour, so every
heap that distances can produce is a state.

**HnswBuilder.** A neighbour list is a set; the order of equally near nodes, in the lists and in
`sort.Slice`, is left open. `marks` and `visGen` are `visited` and `visGen`, with `MarkMod` for
2^32. `PickLevel` keeps the conversion to `int8` before the cap. `Outcomes` is the pruning heuristic:
what it keeps (`Selections`) and what stands behind that in the buffer it overwrites, in which
`Insert` then looks for its next entry (`NextEntry`). Its two callers besides, at a full layer-0 list (`relinkLayer0`) and at an upper layer
(`pruneIfOverCapacity`), are `LinkBack`.

**GraphLayout.** The walk looks at one neighbour per step. Arrays count from 0. A lookup is the binary search of `upperLocalIndex`, so rows
that are out of order are really not found.

**IndexFile.** The decoder reads the input record by record until it ends, is malformed, or the
capacity is reached; nodes without a record keep the zeros of `NewBuilder`, and a count that does
not match ends the build. A byte of a section is the triple of section, position and build that
wrote it; the header is its fields, in order: magic and version, the sizes, offset and length of each
section. `Loads` is every check of `loadFromBytes`. A build may end between any two steps, and inside
a write after any number of bytes: of a section (`WriteIsCut`), or of the header (`HeaderIsCut`), which
lies over the zeros of `Create`, so that a number cut in the middle keeps its low bytes. The measurement of the recall may be skipped (`-recall-queries 0`).

**FraudHandler.** A string field of a request is the connection whose body it points into; reading
it reads what that body is by then. The parts "known", "merchant" and "last" stand for the twelve
fields in the order of the body. `GetPooled` and `GetNew` are both possible whenever the pool is not
empty, since `sync.Pool` keeps a list per processor; `Collect` is a garbage collection. The answer
goes out when the handler returns, after the deferred `Put`. `Reset` is modelled where the code has
it, but no answer depends on it: a parse that succeeds assigns every field `Vectorize` reads.

**StrictParser, FraudVector, ScorePayload.** A body is a sequence of tokens, white space left out; a
token is its kind and value, so that every reader refuses what its code refuses: an escape in a
string, an exponent, a decimal point behind an integer field, a month 13. `readInt32At` wraps at
`IntMod`. A float is a fraction, with a zero denominator for the infinities and NaN; comparisons and
quotients are then those of the machine, without its rounding. The conversion of a NaN to a byte,
which Go leaves open, is a choice. `Receive` takes a body as `docs/API.md` writes it, or one such
body with one token dropped, exchanged or inserted, cut anywhere, or followed by another token.

**Deployment.** An upstream connection has nginx's end (`near`: busy with the request it has
`asked`, or idle in the cache) and the instance's end (`far`: reading or handling); `load` is the
request on its way or being handled, `reply` what is on its way back. `peer` is nginx's passive
health check (`max_fails=1`, `fail_timeout=10s`, one probe when it has passed); `api` is the
process. Actions are those of the clients (`Send`, `GiveUp`), of nginx (`Reuse`, `Connect`,
`Refused`, `NoLiveUpstream`, `Deliver`, `Reset`, `Discard`, `FailTimeout`) and of the instances
(`Listen`, `Read`, `Respond`, `CloseIdle`, `Stop`). nginx is external: it is modelled by what the
directives of `nginx.conf` make it do.

Definitions marked `\* mutant` are not part of any behaviour: each is a plausible mistake in the
code, and the property named beside it in `PROJECT.json` is violated when it replaces the original.

## The runs

| Run | Instance | What it checks | States |
|---|---|---|---|
| `query` | 6 graphs of 5 nodes, 3 distances, `QueryEf` 3, 2 answers, 3 generations | see below | 449 611 |
| `heap` | 5 nodes, 3 distances | `HeapOrdered`, `ImplementsQueue`, `SiftsEnd` | 538 398 |
| `builder` | 6 inputs of 4 points on a line, levels 0–2, M 1, M0 2, ef 2, 3 marks | see below | 115 596 |
| `layout` | 4802 graphs of 4 nodes, with and without two upper layers | `FinalizeKeepsLayers`, `NumbersAreDense`, `NearerFirst`, `SameGraphRenamed` | 57 226 |
| `index` | 2 builds of 2 sizes, inputs of up to 4 records, 1 instance, writes cut anywhere | `ServesOneBuild`, `RoundTrip` | 662 609 |
| `handler` | 2 connections, 2 `workBuf`s, 4 requests, 2 answers | `BuffersExclusive`, `StringsAreLive`, `ImplementsService` | 53 091 |
| `payload` | 4 requests, 10 misprints, every single edit | `ReadsWhatIsWritten`, `PresentNeverLooksMissing`, `QueryMeetsReference` | 14 420 |
| `deployment` | 2 instances, 3 requests, 3 connections, 1 cached, 1 served per instance | `AtMostOnce`, `ImplementsDelivery` | 255 061 |

Every module but `ScorePayload` also has its type invariant checked.

*query.* `FreshStart`: a search starts with only its first node marked, across wraps of the
generation. `WorstTracked`, `KeepsNearest`: the cached worst result is right, and what was visited
and let go is no nearer. `LocallyComplete`: the early stop never leaves a neighbour of a result
unvisited. `ExactWhenSmall`: results that do not fill up are exactly the reachable nodes.
`AnswersAreNearest`: the answers are the nearest of all visited nodes, in order and each once,
padded only when there is no other. `NeverWorseThanEntry`, `QueryReturns`. `RecallIsHonest`: the
scan the recall is measured against finds the nearest nodes, which a stale worst would make it miss,
in order, and a query all of whose answers are counted, each once, has answered with nodes none is
nearer than. (With two answers the sort makes at most one swap; the proof is about any number.)

*heap.* What is ordered between two swaps of a sift; that no operation loses or repeats a node and
that the root is a nearest one (refinement of `NearestQueue`); that sifts end.

*builder.* `LayersMatchLevels`, `EntryOnTop`, `LinksAreLocal`: a layer's map holds exactly the nodes
whose level reaches it, the entry point lives on the top layer, links stay on their layer and within
capacity. `NoDeadEnd`: pruning at layer 0 does not drop a node's last link; `NearestLinkKept`: on no
layer does it drop the link to a nearest neighbour for a farther one. `SearchKeepsNearest`: an insert search keeps the nearest of what it visits,
visits everything it can reach when it finds fewer than its width (so no mark survives from an
earlier search, across wraps), and starts no farther away than the entry point and than any node the
search of the layer above visited, although the selection has overwritten what that search returned.
`BuildCompletes`.

*layout.* Finalized rows answer what the builder's maps hold; ids are given once each, nearer nodes
first; the reordered graph is the original up to names, through the readers the query uses.

*index.* `ServesOneBuild`: an instance that serves nodes has those of one build, with that build's
sizes and all its vectors, labels and lists of layer 0, and a record for every node. Only its upper
layers may be short, and only as a single cut of the header leaves them (see below). `RoundTrip`: a
build that wrote its header reads back what it wrote.

*handler.* `ImplementsService` is the refinement of `ScoreService`, liveness included: whatever the
interleaving, a request is answered, once, as if it were alone. `BuffersExclusive` and
`StringsAreLive` are the two reasons.

*payload.* `ReadsWhatIsWritten`: what a client writes is accepted with its values, and whatever is
accepted begins with the writing of what was read; nothing cut short, with a member missing, doubled
or of another type is ever scored. `PresentNeverLooksMissing`: the two sentinel dimensions of a
query are 0 only if there was no last transaction, NaN or not. `QueryMeetsReference`: queries and
references are quantized alike, and no distance leaves its range.

*deployment.* `ImplementsDelivery` is the refinement of `Delivery`, liveness included: an answer
reaches the client whose request was run for it, an error without a lost process means that nothing
was run, and every client that waits hears of its request. `AtMostOnce`: no request runs twice.

### Findings

Four runs check what a comment or a message says and find it false.

* `builder_must_admit`: "the new edge MUST be admitted" (`hnsw.go:496-498`). The heuristic at a full
  neighbour may drop it. Four points of the plane without equal distances suffice, and the node
  inserted last is then in no list of layer 0: only an upper layer, if it lives on one, leads to it.
  For the same reason `relinkLayer0` does not always leave its list full, as its comment says.
* `builder_level_cap`: "Cap at 31" (`hnsw.go:231`). The conversion to `int8` comes first; the very
  case the code guards (`u == 0`) gives the raw level 385, stored as -127. (Go leaves the conversion
  of a float out of range to the implementation; the model takes the low byte of the truncated
  integer, as amd64 does.) The probability is 2^-63 a draw; the cap is what is wrong.
* `handler_slots`: "GOMAXPROCS=2 in production → two slots" (`query.go:9-10`). The pool makes one per
  request in flight.
* `index_ship`: "refusing to ship this index" (`cmd/build-index/main.go:101`). By then the file is in
  place, and the next image contains it.

Worth knowing although no document denies it: with `proxy_next_upstream off`, a request that meets a
connection the instance has just closed (30 s idle there, 60 s at nginx) is a 502, and with
`max_fails=1` that error takes a healthy instance out for ten seconds; two such races leave "no live
upstreams". Beyond `Concurrency` connections a client gets a 503. `Delivery` allows all three: they
are errors without a run.

A header that was written only in part can load. It goes over zeros in one write of 160 bytes
(`persist.go:153`), and the sizes of the last four sections are not checked: cut behind `LabelsLen`,
the file loads with upper layers that are short or missing, and cut before `N` as a graph without
nodes; a query that goes there panics. `ServesOneBuild` says how far this can go. No
document of the repository promises more: the one test that speaks of a corrupt file
(`persist_test.go:100`) has a header of zeros, which is refused.

### Bounds

Every bound is a constant of a module or of its MC module.

* *Five nodes, `QueryEf` 3, `K` 2* (query): there are nodes left when the results are full, so that
  rejection, replacement and the early stop happen; the islands and one-way graphs leave fewer
  results than answers, so that padding happens. `GenMod` 3 wraps after two queries and a behaviour
  has any number of them. Three distances give ties and strict orders.
* *Five nodes* (heap): three levels, nodes with one child and with two.
* *Four records, M0 2* (builder): the fourth insertion finds full lists, and M 1 makes upper layers
  prune already at the third. Raw levels 0–2 promote the entry point and skip layers. `MarkMod` 3
  wraps within one insertion on three layers.
* *Four nodes, lists of at most two* (layout): all such graphs, with unreachable nodes.
* *Two builds* (index): the second starts on whatever the first left. The sizes differ, so that
  cells of one build are never mistaken for the other's, and give empty sections, padding of
  several lengths and none. Four records are one more than the larger capacity. A header is cut in
  every field; with `ByteSpans` {1, 8, 64} a byte holds eight values, so that the numbers of these
  small files have up to three bytes, of which a cut leaves none, one or two.
* *Two connections* (handler): all the ways two requests interleave; no action involves three
  connections, and the proofs cover any number.
* *Four requests* (payload): an ordinary one, a first one without a last transaction whose amounts
  are infinite, one with dates and numbers beyond every limit, and one whose counts no int32 holds.
  `IntMod` 256 and `Overflow` 30000 bring those edges within reach of small numbers; `QByte` is 255
  as in the code. One edit per body: the parser never looks back, so it refuses at the first edit that
  matters and reaches no other.
* *Two instances, three requests, `Keepalive` 1, `Concurrency` 1* (deployment): two requests can hold
  both instances while the third is refused, finds a stale connection, or has its own evicted.

Deadlock is checked except in the `index` runs, because the builds run out, and in `deployment`,
because every request may be settled and every instance ended. A behaviour of another module that is
done stutters explicitly.

### Fairness

* `QueryFast5`, `HnswBuilder`, `CandidateHeap`: weak fairness of the running loop. It is plain
  sequential code that nothing blocks; a query need not be followed by another.
* `FraudHandler`: weak fairness of each connection's handler. The Go scheduler is preemptive, a
  handler waits for nothing, and `sync.Pool` never blocks. Clients need not send anything.
* `Deployment`: weak fairness of each waiting request's next step (`Advance`), by nginx's event loop
  or the goroutine of a live instance. Nothing is assumed of the loading, of clients, of timeouts or
  of the health check: an instance may never listen, and the request then fails.
* `GraphLayout`, `IndexFile` and `ScorePayload` state safety only, and no fairness.

## The proofs

Proved by TLAPS for every value of the constants that the named assumptions allow. TLC checks each
inductive invariant's checked parts on the instances above.

**`QueryFast5Proofs`**: for every graph, width, number of answers, generation width and distance
range allowed by `SizeAssumption` and `GraphAssumption`. The inductive invariant `IInv` adds to the
checked properties what they do not say themselves:

* `MarksNotAhead`: no mark is greater than the generation, so that the next generation is new and a
  wrap, which clears the marks, is the only way back (`FreshStart`);
* `Frontier` and `Expanding`: a result is still a candidate, is being expanded, or has all its
  neighbours visited, and of the node being expanded the neighbours passed so far are visited. When
  the nearest candidate is farther than the worst result, no result is a candidate any more, which
  gives `LocallyComplete` at the early stop;
* `WithinReach`: only nodes reachable from the start are visited (`ExactWhenSmall`).

From it follow `TypeCorrect`, `WorstIsTracked`, `NearestAreKept`, `SearchIsLocallyComplete`,
`SmallSearchIsExact`, `SlotStartsFresh`, `NearestAreAnswered` (one more invariant, about the answers
picked so far) and `EntryIsNeverBeaten`.

`MeasuredRecallIsHonest` is about the scan of `RecallCheck`, for any distances and any `K <= N`
(with fewer nodes than answers the array of the scan has slots nobody wrote, and there is nothing to
measure). The invariant of the scan has three parts: the filled slots hold different nodes seen so far
with their distances (`SlotsFilled`); the cached worst is the greatest of those distances, at the
slot `worstI` (`WorstCached`); and no node seen and not kept is nearer than the worst
(`NoneNearerLetGo`). Of the sort: a turn swaps two entries, so ids keep their distances and stay
different, and after the turns of an insertion the slots up to it ascend.

`QueriesEnd` is termination: each step of a running query decreases `Work`, whose first part is the
stage. The others are, in the descent, the layers left and the distance of the current node, which a
hop strictly lowers; in the search, the unvisited nodes, the candidates and the neighbours still to
look at; then the answers still to pick. `LessIsWellFounded` shows that the order has no infinite
descent.

**`FraudHandlerProofs`**: for any number of connections, `workBuf`s, requests and answers, and any
search. `BuffersExclusive` alone is inductive, but says nothing of what a `workBuf` contains;
`ServedAlone` states that at each place a handler can stand: which strings it has parsed, that the
number and flag are those of its request, that no part read so far was bad, that its vector and the
answers written so far are those of its request. `Frame` shows that a handler nobody touches stays
so, `OthersUntouched` that a step of one leaves the others untouched because their `workBuf`s
differ, `OwnStep` that each step establishes the next place's facts. Results: `TypeCorrect` (the
fraud count always indexes the response table), `BuffersHaveOneUser`, `StringsStayLive`, and
`ServiceIsImplemented`, the safety half of the refinement of `ScoreService`.

**`HnswBuilderProofs`**: for any records, distances, level draws, capacities and width of the
marks. Three lemmas carry the argument about pruning (`SortedCovers`, `KeptFacts`,
`OutcomeFacts`): the order the heuristic sorts into is a permutation, its first node is always
kept, and the last place kept has fewer than `m` kept before it, so a selection is not empty, has at
most `m` nodes and one that no candidate is nearer than (`NextEntryIsNearest`: nor is any node left
behind it in the buffer). The invariant adds to the checked ones
`Position` (what the insertion works with lives on the layer it works on), `TopLayer` (how many
layers there are in the middle of an insertion) and `Unlinked` (on the layers an insertion has not
reached, nothing names its node, which is why a new node never finds itself). `LinkingFacts` shows
that a link writes one list and no other. Results: `TypeCorrect`, `LayersAreRight`, `EntryIsOnTop`,
`LinksStayLocal`, `NearestLinkIsKept`, `SearchesKeepNearest` and `NoDeadEnds`. The one before the
last rests on a second invariant, `Searching`: no mark is ahead of the generation, a result is still
a candidate or has all its neighbours visited (`Frontier`), every set of nodes closed under the
links of the layer that contains the start contains what was visited (`WithinReach`), and the entry
chosen for the next layer is no farther than any node visited (`EnteredNearest`). The last assumes that no level drawn is
negative (`LevelsNotNegative`): a node of the negative level of `builder_level_cap` lives on no
layer, and the assumption cannot be dropped. `BuildsEnd` is termination, with a measure of seven
parts: the records; the part of the insertion; the layers; the distance of the descent; the
unvisited nodes, or the neighbours still to link back; the candidates; the visit under way.

**`CandidateHeapProofs`**: for any nodes and distances. `HeapOrdered` is stated between any two
swaps, with the one item being sifted as the exception, and is inductive with `AtRest` (between
operations there is no exception) and `Distinct` (each node in the buffer once). That the root of an
ordered heap is a minimum follows by taking the smallest index of an item nearer than the root: its
parent would be another. Results: `TypeCorrect`, `HeapIsOrdered`, `HeapIsAQueue`, the whole
refinement of `NearestQueue`, which states no liveness, and `SiftsRunOut`: every step of a sift
leaves fewer swaps to make.

**`GraphLayoutProofs`**: for any number of nodes and layers and any links. `Numbering` says that the
ids given are `0 .. next - 1`, each to one node, so `next` counts the nodes that have one
(`NextCounts`): there is an id left for a node without one, and none is left over at the end.
`Breadth` is about an assignment of distances and the queue: the queue is sorted by distance and
spans at most two of them, the neighbours of visited nodes are in it, and so is every node no farther
than the current one. When the walk moves on to a greater distance, a node of that distance has a
neighbour one nearer, which has been visited, so the node is in the queue; and the nearest node in
reach that the walk missed cannot exist for the same reason.

The rows of the upper layers have an invariant of their own, `LayersPacked` (theorem
`RowsStayPacked`): under the names in force, old or new, a layer's rows are its nodes in ascending
order, and the slots of a row hold the list that the builder's map has, renamed. It rests on three
groups of lemmas. A set of ids has exactly one ascending enumeration, so `Finalize` and
`sortUpperLayer` sort into the same thing; the offsets of the rows ascend, so every slot belongs to
one row; and the binary search ends at the first row not below its target, whichever rows those are
as long as they ascend. A lookup in packed rows therefore finds what the map had, and that the rows
ascend again after `Permute`, the one line of `sortUpperLayer` it would be easy to lose, is what
makes it find anything. Results: `TypeCorrect`, `NumbersAreGivenOnce`, `NearerNodesFirst`,
`FinalizeLosesNothing` and `ReorderIsARenaming` (vectors, labels, entry point and the links of every
layer).

**`IndexFileProofs`**: for graphs of any sizes, any number of builds and instances, and any
alignment that is a multiple of four, and any set of `ByteSpans`. The header is written last, so a
file has any of it only when the build that truncated it has written every section behind it:
`Progress` says which sections those are at each place of the build, `Counted` that as many records as
nodes were inserted by then, `FromOneBuild` that a file or image whose header is not blank has all
sections of one build (`Laid`) and a header that is that build's up to one field, no more than it in
that field, and zero behind (`CutOf`). If such a header has nodes and passes the checks, the length of
`Labels` is there, and so is everything in front of it (`LoadedIsOfOneBuild`). Padding to a multiple
of the alignment makes every 4-byte view aligned (`PaddingAligns`, `MultipleOfFour`).
Results: `TypeCorrect`, `OneBuildIsServed`, `SavedIsReadBack`.

**`DeploymentProofs`**: for any number of instances, connections and requests, any size of the cache
and any limit of the instances. `Accounts` adds what every connection carries (`Carries`): what the
instance's end holds is what nginx asks for or was abandoned, a reply is the reply to what was
asked, and a request asked over a connection that is dead has not run or was lost with its process;
that no two connections are asked or carry the same request (`Apart`); and that a request still to
be routed has not run and is nowhere (`Untouched`).
Results: `TypeCorrect`, `RunAtMostOnce`, and `DeploymentKeepsPromises`, the safety half of the
refinement of `Delivery`.

**`ScorePayloadProofs`**: for every body, every set of requests and misprints, any width of the
counts, any strings, limits and risks, and any largest byte. The pass of the parser is a list of
items. What an item takes from the body is a *piece* (`Takes`), and one lemma for each kind of item
shows both directions: an item that is read has its piece at the cursor, and an item with its piece
at the cursor is read with the value the piece tells. A pass that succeeds is a sequence of cursors,
each behind the piece of its item (`Trail`), and pieces laid end to end make such a sequence; as every
field is read by one item only, what it read of the field stays. That gives

* `ParserIsSound`, about *all* sequences of tokens, not only the edited ones: what
  `parseStrictRequest` accepts begins with the writing of the request it read, up to the last brace,
  with every member in its place, and with times in their range;
* `ParserIsComplete`: what `docs/API.md` writes for a request is accepted and read as it is, with or
  without a comma behind the last known merchant, but for counts that wrap.

`BodiesAreReadAsWritten` puts the two together through an invariant that remembers where the body
came from. For the vector, every dimension is shown to be a fraction that quantizes to a byte,
whatever byte a NaN becomes; the two sentinels of a last transaction are at least half of the largest byte, because
`clamp` leaves them 0 or more before they are shifted, and a NaN is never one of them
(`LastTransactionsShow`); queries and references quantize alike and a sum of fourteen squares stays
in range (`QueriesMeetReferences`).

**Recursion.** `bruteTop5`, the offsets and the binary search of the rows, the parser's pass and the
concatenation of pieces are recursive functions. The induction theorems of the library are out of
reach, because they take an operator as a parameter. The proofs use sets instead: the places up to
which the definition makes sense (or up to which the property holds) are a set of naturals, and if it
left one out there would be a least one. So each function is first shown to exist as it is defined,
and then to have the property; nothing is assumed about it.

**Assumptions.** Only the named assumptions on the constants, which TLC evaluates in the runs (sizes
are naturals in range, graphs and requests have their types, a layer's lists name nodes of the layer
and have no more than `M` of them, which `LinksStayLocal` proves of the builder, the names of the
members are among the strings, limits are positive, counts a client writes are not negative,
distances are symmetric, `None` is none of the other values), and `LevelsNotNegative` of `NoDeadEnds`,
a hypothesis of that theorem, which the levels of the `builder` run satisfy.

**Model-checked only.** Liveness, which is beyond the prover: `QueryReturns`, `BuildCompletes`,
`SiftsEnd`, and the halves of `ImplementsService` and `ImplementsDelivery` that say a request is
settled. Of the first three everything but the fairness is proved (`QueriesEnd`, `BuildsEnd`,
`SiftsRunOut`): what is missing is that a step is always possible while the loop runs (`ENABLED`),
and the rule that carries fairness along a well-founded order. The properties of the four violation
runs are false and have a counterexample each. Every other property of a run is a theorem.

## Not modelled, and why

* *Functions nothing calls*: the scanners of `parse_strict.go` from `findObject` to `findTime`, and
  `valueStart`, `indexKey` and `numberEnd`, which only they use.
* *Rounding of float32, years and seconds*: a fraction is exact, and the year of a time only fixes
  its weekday. The digits of a number are a value.
* *JSON decoding of the records, how many queries the recall samples*: input formatting, and an
  estimate whose verdict is a free choice in `IndexFile`; an index of no nodes, on which the sampling
  panics, is one more way a build ends. The recall can overcount: an answer padded with node 0 is a
  hit each time (`buildindex.go:114`), as the comment of `RecallIsHonest` says.
* *fasthttp, nginx, `sync.Pool`, the file system, docker*: external; only what the code uses of them
  is an action. Of nginx, `keepalive_requests`, name resolution and the limits on bodies are left
  out; nothing restarts an instance, so no action does.
* *Page warming, GC tuning, GOMAXPROCS*: they change no state a client sees.
* *Power loss, and truncating a file that is mapped*: outside `IndexFile`, whose writes reach the
  file in order and whose instances map the image.
* *M or M0 of 256 and more*: the counts, a byte each, wrap to an empty list. `BuilderAssumption`
  excludes them.
* *k6 scripts*: clients, covered by "any request at any time".

## Plan

Done, in the order of their importance to a request: `QueryFast5`, `FraudHandler`, `HnswBuilder`,
`CandidateHeap`, `GraphLayout`, `IndexFile`, `Deployment`, `RecallCheck`, and `StrictParser`,
`FraudVector` and `ScorePayload`, all with their proofs.

Nothing of the plan is left to model. What could still be proved is termination of a request: a
measure for `FraudHandler` and for `Deployment`, as there is for the query. What stays out of the proofs is listed under "Model-checked
only", with the reason.
