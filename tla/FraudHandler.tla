---------------------------- MODULE FraudHandler ----------------------------
(***************************************************************************)
(* The HTTP handler of internal/api/handler.go: fasthttp runs Handle in a  *)
(* goroutine per connection, and each /fraud-score request borrows a       *)
(* workBuf from a sync.Pool, parses the body into it, builds the vector,   *)
(* searches, counts the frauds among the answers and gives the workBuf     *)
(* back.                                                                   *)
(*                                                                         *)
(* The strings of a parsed request are not copies: readStringAt makes them *)
(* point into the body, whose memory fasthttp reuses for the next request  *)
(* of the connection.  A string field is therefore the connection whose    *)
(* body it points into, and reading it reads what is there at that moment. *)
(*                                                                         *)
(* A request has three parts that stand for the twelve the parser reads:   *)
(* "known" (a list of strings), "merchant" (a string) and "last" (a number *)
(* or null), in the order of the body.  Parsing fails at part r.bad, or    *)
(* nowhere.  The search is that of QueryFast5, taken here as a function of *)
(* the vector, which it reads once per answer.                             *)
(***************************************************************************)
EXTENDS Integers, FiniteSets

CONSTANTS
  Conn,        \* connections, each served by a goroutine of its own
  WorkBuf,     \* identities of workBufs, enough for one per connection
  Request,     \* requests clients send
  Node,        \* nodes of the graph
  K,           \* answers of a query (5)
  NearestTo,   \* for a vector, its K nearest nodes
  Fraud,       \* nodes labelled as fraud
  Procs,       \* GOMAXPROCS
  None

Picks == 1 .. K
Number == {0} \cup {r.last : r \in Request}
Vector == BOOLEAN \X (Number \cup {-1})

ASSUME HandlerAssumption ==
  /\ IsFiniteSet(Conn) /\ IsFiniteSet(WorkBuf) /\ K \in Nat
  /\ Cardinality(WorkBuf) >= Cardinality(Conn)
  /\ NearestTo \in [Vector -> [Picks -> Node]]
  /\ None \notin Conn \cup WorkBuf \cup Request
  /\ \A r \in Request :
       /\ r.route \in {"score", "ready", "wrong method", "other path"}
       /\ r.bad \in {"known", "merchant", "last", "nowhere"}

Parts == {"known", "merchant", "last"}

VARIABLES
  pc,       \* where the goroutine of a connection stands
  request,  \* its RequestCtx: the request read last, its body included
  response, \* what the handler has written
  pool,     \* the free workBufs
  held,     \* the workBuf a handler holds
  req,      \* workBuf.req: where its strings point, and its number
  vec,      \* workBuf.vec and workBuf.qvec
  out,      \* workBuf.out
  picked    \* how many answers the search of a connection has written

vars == <<pc, request, response, pool, held, req, vec, out, picked>>

Zero == [known |-> None, merchant |-> None, hasLast |-> FALSE, last |-> 0]
Blank == [k \in Picks |-> None]
w(c) == held[c]

(* Vectorize, of strings and number as they are when it runs. *)
VectorOf(merchant, known, hasLast, last) ==
  <<merchant \notin known, IF hasLast THEN last ELSE -1>>

(* Entries of the response table: approved is fraud_score < 0.6. *)
Score(n) == [status |-> 200, fraudScore |-> n, approved |-> 5 * n < 3 * K]
Fallback == Score(K)
Ready == [status |-> 200, text |-> "ok"]
WrongMethod == [status |-> 405, text |-> ""]
NotFound == [status |-> 404, text |-> ""]
Response == {Ready, WrongMethod, NotFound} \cup {Score(n) : n \in 0 .. K}

Init ==
  /\ pc = [c \in Conn |-> "idle"]
  /\ request = [c \in Conn |-> None] /\ response = [c \in Conn |-> None]
  /\ pool = {} /\ held = [c \in Conn |-> None]
  /\ req = [b \in WorkBuf |-> Zero]
  /\ vec = [b \in WorkBuf |-> None] /\ out = [b \in WorkBuf |-> Blank]
  /\ picked = [c \in Conn |-> 0]

-----------------------------------------------------------------------------
(* fasthttp reads a request into the connection's RequestCtx. *)
Arrive(c) ==
  /\ pc[c] = "idle"
  /\ \E r \in Request : request' = [request EXCEPT ![c] = r]
  /\ response' = [response EXCEPT ![c] = None]
  /\ pc' = [pc EXCEPT ![c] = "handle"]
  /\ UNCHANGED <<pool, held, req, vec, out, picked>>

(* Handle: the paths and methods other than POST /fraud-score. *)
HandleOther(c) ==
  /\ pc[c] = "handle" /\ request[c].route # "score"
  /\ response' = [response EXCEPT ![c] =
       CASE request[c].route = "ready" -> Ready
         [] request[c].route = "wrong method" -> WrongMethod
         [] request[c].route = "other path" -> NotFound]
  /\ pc' = [pc EXCEPT ![c] = "idle"]
  /\ UNCHANGED <<request, pool, held, req, vec, out, picked>>

(***************************************************************************)
(* sync.Pool hands out any free workBuf, as the last user left it, or a    *)
(* new one, even when some are free (those of another processor).          *)
(***************************************************************************)
InUse == {held[c] : c \in Conn} \ {None}

GetShared(c) ==  \* mutant: the workBuf stays in the pool
  /\ pc[c] = "handle" /\ request[c].route = "score"
  /\ \E b \in pool : held' = [held EXCEPT ![c] = b]
  /\ pc' = [pc EXCEPT ![c] = "reset"]
  /\ UNCHANGED <<request, response, pool, req, vec, out, picked>>

GetPooled(c) ==
  /\ pc[c] = "handle" /\ request[c].route = "score"
  /\ \E b \in pool : held' = [held EXCEPT ![c] = b] /\ pool' = pool \ {b}
  /\ pc' = [pc EXCEPT ![c] = "reset"]
  /\ UNCHANGED <<request, response, req, vec, out, picked>>

GetNew(c) ==
  /\ pc[c] = "handle" /\ request[c].route = "score"
  /\ \E b \in WorkBuf \ (pool \cup InUse) :
       held' = [held EXCEPT ![c] = b]
  /\ pc' = [pc EXCEPT ![c] = "reset"]
  /\ UNCHANGED <<request, response, pool, req, vec, out, picked>>

(* A garbage collection takes workBufs nobody used lately out of the pool; *)
(* its identity then stands for a workBuf that New has yet to make.        *)
Collect(b) ==
  /\ b \in pool
  /\ pool' = pool \ {b}
  /\ req' = [req EXCEPT ![b] = Zero]
  /\ vec' = [vec EXCEPT ![b] = None] /\ out' = [out EXCEPT ![b] = Blank]
  /\ UNCHANGED <<pc, request, response, held, picked>>

(* Request.Reset. *)
Reset(c) ==
  /\ pc[c] = "reset"
  /\ req' = [req EXCEPT ![w(c)] = Zero]
  /\ pc' = [pc EXCEPT ![c] = "known"]
  /\ UNCHANGED <<request, response, pool, held, vec, out, picked>>

(***************************************************************************)
(* parseStrictRequest reads the parts in order.  At the first bad one it   *)
(* returns an error, leaving the rest of the request unread, and the       *)
(* handler answers that this is a fraud.                                   *)
(***************************************************************************)
Following(part) ==
  CASE part = "known" -> "merchant" [] part = "merchant" -> "last"
    [] part = "last" -> "vectorize"

ParsePart(c, part) ==
  /\ pc[c] = part /\ request[c].bad # part
  /\ req' = [req EXCEPT ![w(c)] =
       IF part = "last"
       THEN IF request[c].last = None
            THEN [@ EXCEPT !.hasLast = FALSE]
            ELSE [@ EXCEPT !.hasLast = TRUE, !.last = request[c].last]
       ELSE [@ EXCEPT ![part] = c]]
  /\ pc' = [pc EXCEPT ![c] = Following(part)]
  /\ UNCHANGED <<request, response, pool, held, vec, out, picked>>

ParseFailsAndPuts(c, part) ==  \* mutant: a Put of its own on the error path
  /\ pc[c] = part /\ request[c].bad = part
  /\ response' = [response EXCEPT ![c] = Fallback]
  /\ pool' = pool \cup {w(c)}
  /\ pc' = [pc EXCEPT ![c] = "put"]
  /\ UNCHANGED <<request, held, req, vec, out, picked>>

ParseFailsAndGoesOn(c, part) ==  \* mutant: no return after the fallback
  /\ pc[c] = part /\ request[c].bad = part
  /\ response' = [response EXCEPT ![c] = Fallback]
  /\ pc' = [pc EXCEPT ![c] = IF part = "last" THEN "vectorize" ELSE "put"]
  /\ UNCHANGED <<request, pool, held, req, vec, out, picked>>

ParseFails(c, part) ==
  /\ pc[c] = part /\ request[c].bad = part
  /\ req' = [req EXCEPT ![w(c)] =
       CASE part = "known" -> [@ EXCEPT !.known = None]        \* nil
         [] part = "merchant" -> [@ EXCEPT !.merchant = None]  \* ""
         [] part = "last" -> [@ EXCEPT !.hasLast = TRUE]]
  /\ response' = [response EXCEPT ![c] = Fallback]
  /\ pc' = [pc EXCEPT ![c] = "put"]
  /\ UNCHANGED <<request, pool, held, vec, out, picked>>

(* Vectorize and QuantizeQuery follow the strings into the bodies. *)
Vectorize(c) ==
  /\ pc[c] = "vectorize"
  /\ LET r == req[w(c)]
     IN  vec' = [vec EXCEPT ![w(c)] =
           VectorOf(request[r.merchant].merchant, request[r.known].known,
                    r.hasLast, r.last)]
  /\ pc' = [pc EXCEPT ![c] = "search"]
  /\ UNCHANGED <<request, response, pool, held, req, out, picked>>

(* QueryFast5 writes its answers one by one, over those of an earlier user. *)
Search(c) ==
  /\ pc[c] = "search" /\ picked[c] < K
  /\ LET k == picked[c] + 1
     IN  /\ out' = [out EXCEPT ![w(c)][k] = NearestTo[vec[w(c)]][k]]
         /\ picked' = [picked EXCEPT ![c] = k]
  /\ UNCHANGED <<pc, request, response, pool, held, req, vec>>

(* The frauds among the answers select the response. *)
Frauds(nodes) == Cardinality({k \in Picks : nodes[k] \in Fraud})
Respond(c) ==
  /\ pc[c] = "search" /\ picked[c] = K
  /\ response' = [response EXCEPT ![c] = Score(Frauds(out[w(c)]))]
  /\ picked' = [picked EXCEPT ![c] = 0]
  /\ pc' = [pc EXCEPT ![c] = "put"]
  /\ UNCHANGED <<request, pool, held, req, vec, out>>

PutAndKeep(c) ==  \* mutant: the connection keeps the workBuf it put back
  /\ pc[c] = "put"
  /\ pool' = pool \cup {w(c)}
  /\ pc' = [pc EXCEPT ![c] = "idle"]
  /\ UNCHANGED <<request, response, held, req, vec, out, picked>>

(* The deferred Put, and the response goes out. *)
Put(c) ==
  /\ pc[c] = "put"
  /\ pool' = pool \cup {w(c)}
  /\ held' = [held EXCEPT ![c] = None]
  /\ pc' = [pc EXCEPT ![c] = "idle"]
  /\ UNCHANGED <<request, response, req, vec, out, picked>>

Handle(c) ==
  \/ HandleOther(c) \/ GetPooled(c) \/ GetNew(c) \/ Reset(c)
  \/ \E part \in Parts : ParsePart(c, part) \/ ParseFails(c, part)
  \/ Vectorize(c) \/ Search(c) \/ Respond(c) \/ Put(c)

Next == \/ \E c \in Conn : Arrive(c) \/ Handle(c)
        \/ \E b \in WorkBuf : Collect(b)

(* The Go scheduler runs every goroutine; nothing in a handler blocks. *)
Spec == Init /\ [][Next]_vars /\ \A c \in Conn : WF_vars(Handle(c))

-----------------------------------------------------------------------------
Serving(c) == held[c] # None

TypeOK ==
  /\ pc \in [Conn -> Parts \cup {"idle", "handle", "reset", "vectorize", "search", "put"}]
  /\ request \in [Conn -> Request \cup {None}]
  /\ \A c \in Conn : pc[c] # "idle" => request[c] # None
  /\ response \in [Conn -> Response \cup {None}]
  /\ pool \subseteq WorkBuf /\ held \in [Conn -> WorkBuf \cup {None}]
  /\ \A c \in Conn : Serving(c) <=> pc[c] \notin {"idle", "handle"}
  /\ req \in [WorkBuf -> [known : Conn \cup {None}, merchant : Conn \cup {None},
                          hasLast : BOOLEAN, last : Number]]
  /\ vec \in [WorkBuf -> Vector \cup {None}]
  /\ out \in [WorkBuf -> [Picks -> Node \cup {None}]]
  /\ picked \in [Conn -> 0 .. K]

(***************************************************************************)
(* A workBuf has one user: no two requests being served hold the same one, *)
(* and the pool does not offer one that is held.  It contains the only     *)
(* VisitSlot and request a search or a parse writes.                       *)
(***************************************************************************)
BuffersExclusive ==
  /\ \A c, d \in Conn : Serving(c) /\ held[c] = held[d] => c = d
  /\ \A c \in Conn : held[c] \notin pool

(***************************************************************************)
(* The strings a handler is about to read point into the body of its own   *)
(* request, which is still there, although free workBufs keep strings that *)
(* point into bodies long since overwritten.                               *)
(***************************************************************************)
StringsAreLive ==
  \A c \in Conn : pc[c] = "vectorize" =>
    req[w(c)].known = c /\ req[w(c)].merchant = c

(***************************************************************************)
(* The whole handler implements ScoreService: each request is answered, by *)
(* what a handler with the process to itself would answer.                 *)
(***************************************************************************)
ExpectedAnswer(r) ==
  CASE r.route = "ready" -> Ready
    [] r.route = "wrong method" -> WrongMethod
    [] r.route = "other path" -> NotFound
    [] r.route = "score" ->
         IF r.bad # "nowhere" THEN Fallback
         ELSE Score(Frauds(NearestTo[VectorOf(r.merchant, r.known, r.last # None, r.last)]))

Service == INSTANCE ScoreService WITH
  AnswerTo <- ExpectedAnswer,
  asked <- [c \in Conn |-> IF pc[c] = "idle" THEN None ELSE request[c]],
  answer <- [c \in Conn |-> IF pc[c] = "idle" THEN response[c] ELSE None]
ImplementsService == Service!Spec

(* What the comment of VisitSlot says: GOMAXPROCS = 2, so two slots. *)
OneSlotPerProc == Cardinality(pool \cup InUse) <= Procs
=============================================================================
