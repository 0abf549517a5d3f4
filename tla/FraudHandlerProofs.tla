------------------------- MODULE FraudHandlerProofs -------------------------
(***************************************************************************)
(* Theorems about FraudHandler, for every number of connections and        *)
(* workBufs, every set of requests and every search.                       *)
(*                                                                         *)
(* The argument: a workBuf has one user (BuffersExclusive), so that what a *)
(* handler writes into its own stays there until it puts it back.          *)
(* ServedAlone states, for each place a handler can stand, what its        *)
(* workBuf then holds: what it would hold if it were alone.                *)
(***************************************************************************)
EXTENDS FraudHandler, TLAPS, FiniteSetTheorems

Past(c, stages) == pc[c] \in stages

StringsAreOwn(c) ==
  /\ Past(c, {"merchant", "last", "vectorize"}) => req[w(c)].known = c
  /\ Past(c, {"last", "vectorize"}) => req[w(c)].merchant = c

NumberIsOwn(c) ==
  Past(c, {"vectorize"}) =>
    /\ req[w(c)].hasLast = (request[c].last # None)
    /\ request[c].last # None => req[w(c)].last = request[c].last

PartsWereGood(c) ==
  /\ Past(c, {"merchant", "last", "vectorize", "search"}) => request[c].bad # "known"
  /\ Past(c, {"last", "vectorize", "search"}) => request[c].bad # "merchant"
  /\ Past(c, {"vectorize", "search"}) => request[c].bad # "last"

OwnVector(c) ==
  VectorOf(request[c].merchant, request[c].known, request[c].last # None, request[c].last)

SearchIsOwn(c) ==
  Past(c, {"search"}) =>
    /\ vec[w(c)] = OwnVector(c)
    /\ \A k \in 1 .. picked[c] : out[w(c)][k] = NearestTo[OwnVector(c)][k]

AnswerIsOwn(c) ==
  /\ Past(c, {"put"}) => response[c] = ExpectedAnswer(request[c])
  /\ Past(c, {"idle"}) /\ request[c] # None => response[c] = ExpectedAnswer(request[c])

PlaceIsConsistent(c) ==
  /\ ~ Past(c, {"search"}) => picked[c] = 0
  /\ ~ Past(c, {"idle", "handle"}) => request[c].route = "score"

Alone(c) ==
  /\ StringsAreOwn(c) /\ NumberIsOwn(c) /\ PartsWereGood(c)
  /\ SearchIsOwn(c) /\ AnswerIsOwn(c) /\ PlaceIsConsistent(c)

ServedAlone == \A c \in Conn : Alone(c)

IInv == TypeOK /\ BuffersExclusive /\ ServedAlone

-----------------------------------------------------------------------------
(* A goroutine whose own state no step of another touches stays alone. *)
Untouched(d) ==
  /\ pc'[d] = pc[d] /\ request'[d] = request[d] /\ response'[d] = response[d]
  /\ picked'[d] = picked[d] /\ held'[d] = held[d]
  /\ Serving(d) => /\ req'[held[d]] = req[held[d]]
                   /\ vec'[held[d]] = vec[held[d]]
                   /\ out'[held[d]] = out[held[d]]

LEMMA Frame ==
  ASSUME TypeOK, NEW d \in Conn, Alone(d), Untouched(d)
  PROVE  Alone(d)'
<1>1. Serving(d) <=> pc[d] \notin {"idle", "handle"}
  BY DEF TypeOK
<1>2. (StringsAreOwn(d) /\ NumberIsOwn(d))'
  BY <1>1 DEF Untouched, Alone, StringsAreOwn, NumberIsOwn, Past, w
<1>3. (PartsWereGood(d) /\ PlaceIsConsistent(d))'
  BY DEF Untouched, Alone, PartsWereGood, PlaceIsConsistent, Past
<1>4. SearchIsOwn(d)'
  BY <1>1 DEF Untouched, Alone, SearchIsOwn, OwnVector, Past, w
<1>5. AnswerIsOwn(d)'
  BY DEF Untouched, Alone, AnswerIsOwn, ExpectedAnswer, Past
<1> QED
  BY <1>2, <1>3, <1>4, <1>5 DEF Alone

LEMMA TypeFacts ==
  ASSUME TypeOK, NEW c \in Conn
  PROVE  /\ None \notin Conn /\ None \notin WorkBuf /\ None \notin Request
         /\ pc[c] # "idle" => request[c] \in Request
         /\ pc[c] \notin {"idle", "handle"} => held[c] \in WorkBuf
         /\ pc[c] \in {"idle", "handle"} => held[c] = None
         /\ request[c] \in Request =>
              /\ request[c].route \in {"score", "ready", "wrong method", "other path"}
              /\ request[c].bad \in {"known", "merchant", "last", "nowhere"}
              /\ request[c].last \in Number
BY HandlerAssumption DEF TypeOK, Serving, Number

ReqType == [known : Conn \cup {None}, merchant : Conn \cup {None},
            hasLast : BOOLEAN, last : Number]

(* What reading a part leaves in the request of its workBuf, and only there. *)
LEMMA ParsePartFacts ==
  ASSUME TypeOK, NEW c \in Conn, NEW part \in Parts, ParsePart(c, part)
  PROVE  /\ held[c] \in WorkBuf /\ req'[held[c]] \in ReqType
         /\ req' = [req EXCEPT ![held[c]] = req'[held[c]]]
         /\ part = "known" => req'[held[c]].known = c
         /\ part # "known" => req'[held[c]].known = req[held[c]].known
         /\ part = "merchant" => req'[held[c]].merchant = c
         /\ part # "merchant" => req'[held[c]].merchant = req[held[c]].merchant
         /\ part = "last" => req'[held[c]].hasLast = (request[c].last # None)
         /\ part = "last" /\ request[c].last # None =>
              req'[held[c]].last = request[c].last
<1>1. held[c] \in WorkBuf /\ request[c].last \in Number
  BY TypeFacts DEF ParsePart, Parts
<1>2. req[held[c]] \in ReqType /\ DOMAIN req = WorkBuf
  BY <1>1 DEF TypeOK, ReqType
<1>3. CASE part = "last" /\ request[c].last = None
  <2>1. req' = [req EXCEPT ![held[c]] = [req[held[c]] EXCEPT !.hasLast = FALSE]]
    BY <1>3 DEF ParsePart, w
  <2>2. req'[held[c]] = [req[held[c]] EXCEPT !.hasLast = FALSE]
    BY <1>1, <1>2, <2>1
  <2> QED
    BY <1>1, <1>2, <1>3, <2>1, <2>2 DEF ReqType
<1>4. CASE part = "last" /\ request[c].last # None
  <2>1. req' = [req EXCEPT ![held[c]] =
                 [req[held[c]] EXCEPT !.hasLast = TRUE, !.last = request[c].last]]
    BY <1>4 DEF ParsePart, w
  <2>2. req'[held[c]] = [req[held[c]] EXCEPT !.hasLast = TRUE, !.last = request[c].last]
    BY <1>1, <1>2, <2>1
  <2> QED
    BY <1>1, <1>2, <1>4, <2>1, <2>2 DEF ReqType
<1>5. CASE part = "known"
  <2>1. req' = [req EXCEPT ![held[c]] = [req[held[c]] EXCEPT !.known = c]]
    BY <1>5 DEF ParsePart, w
  <2>2. req'[held[c]] = [req[held[c]] EXCEPT !.known = c]
    BY <1>1, <1>2, <2>1
  <2> QED
    BY <1>1, <1>2, <1>5, <2>1, <2>2 DEF ReqType
<1>6. CASE part = "merchant"
  <2>1. req' = [req EXCEPT ![held[c]] = [req[held[c]] EXCEPT !.merchant = c]]
    BY <1>6 DEF ParsePart, w
  <2>2. req'[held[c]] = [req[held[c]] EXCEPT !.merchant = c]
    BY <1>1, <1>2, <2>1
  <2> QED
    BY <1>1, <1>2, <1>6, <2>1, <2>2 DEF ReqType
<1> QED
  BY <1>3, <1>4, <1>5, <1>6 DEF Parts

LEMMA ParseFailsFacts ==
  ASSUME TypeOK, NEW c \in Conn, NEW part \in Parts, ParseFails(c, part)
  PROVE  /\ held[c] \in WorkBuf /\ req'[held[c]] \in ReqType
         /\ req' = [req EXCEPT ![held[c]] = req'[held[c]]]
<1>1. held[c] \in WorkBuf
  BY TypeFacts DEF ParseFails, Parts
<1>2. req[held[c]] \in ReqType /\ DOMAIN req = WorkBuf
  BY <1>1 DEF TypeOK, ReqType
<1>3. CASE part = "last"
  <2>1. req' = [req EXCEPT ![held[c]] = [req[held[c]] EXCEPT !.hasLast = TRUE]]
    BY <1>3 DEF ParseFails, w
  <2> QED
    BY <1>1, <1>2, <2>1 DEF ReqType
<1>4. CASE part = "known"
  <2>1. req' = [req EXCEPT ![held[c]] = [req[held[c]] EXCEPT !.known = None]]
    BY <1>4 DEF ParseFails, w
  <2> QED
    BY <1>1, <1>2, <2>1 DEF ReqType
<1>5. CASE part = "merchant"
  <2>1. req' = [req EXCEPT ![held[c]] = [req[held[c]] EXCEPT !.merchant = None]]
    BY <1>5 DEF ParseFails, w
  <2> QED
    BY <1>1, <1>2, <2>1 DEF ReqType
<1> QED
  BY <1>3, <1>4, <1>5 DEF Parts

-----------------------------------------------------------------------------
(* The count of frauds indexes the response table, whose length is K + 1. *)
LEMMA FraudsInTable == \A nodes : Frauds(nodes) \in 0 .. K
<1> SUFFICES ASSUME NEW nodes PROVE Frauds(nodes) \in 0 .. K
  OBVIOUS
<1>1. K \in Nat
  BY HandlerAssumption
<1>2. IsFiniteSet(Picks) /\ Cardinality(Picks) = K
  <2>1. 1 \in Int /\ K \in Int
    BY <1>1
  <2> QED
    BY <1>1, <2>1, FS_Interval DEF Picks
<1>3. {k \in Picks : nodes[k] \in Fraud} \subseteq Picks
  OBVIOUS
<1>4. /\ Cardinality({k \in Picks : nodes[k] \in Fraud}) <= K
      /\ IsFiniteSet({k \in Picks : nodes[k] \in Fraud})
  BY <1>2, <1>3, FS_Subset
<1>5. Cardinality({k \in Picks : nodes[k] \in Fraud}) \in Nat
  BY <1>4, FS_CardinalityType
<1> QED
  BY <1>1, <1>4, <1>5 DEF Frauds

LEMMA InitIInv == Init => IInv
<1> SUFFICES ASSUME Init PROVE IInv
  OBVIOUS
<1>1. None \notin Conn \cup WorkBuf \cup Request /\ K \in Nat /\ 0 \in Number
  BY HandlerAssumption DEF Number
<1>2. TypeOK
  BY <1>1 DEF Init, TypeOK, Zero, Blank, Serving, Parts, Picks
<1>3. BuffersExclusive
  BY <1>1 DEF Init, BuffersExclusive, Serving
<1>4. ServedAlone
  BY <1>1 DEF Init, ServedAlone, Alone, StringsAreOwn, NumberIsOwn, PartsWereGood,
     SearchIsOwn, AnswerIsOwn, PlaceIsConsistent, Past
<1> QED
  BY <1>2, <1>3, <1>4 DEF IInv

(* Each step keeps the types. *)
LEMMA TypeStep == TypeOK /\ ServedAlone /\ [Next]_vars => TypeOK'
<1> SUFFICES ASSUME TypeOK, ServedAlone, [Next]_vars PROVE TypeOK'
  OBVIOUS
<1>k. /\ K \in Nat /\ Picks = 1 .. K /\ 0 \in Number
      /\ None \notin WorkBuf /\ Fallback \in Response
  <2>1. K \in Nat /\ None \notin WorkBuf /\ 0 \in Number
    BY HandlerAssumption DEF Number
  <2> QED
    BY <2>1 DEF Picks, Fallback, Response
<1>1. ASSUME NEW c \in Conn, Arrive(c) PROVE TypeOK'
  <2>1. PICK r \in Request : request' = [request EXCEPT ![c] = r]
    BY <1>1 DEF Arrive
  <2>2. r # None
    BY HandlerAssumption
  <2> QED
    BY <1>1, <2>1, <2>2 DEF TypeOK, Arrive, Serving
<1>2. ASSUME NEW c \in Conn, HandleOther(c) PROVE TypeOK'
  <2>1. request[c] \in Request
    BY <1>2, TypeFacts DEF HandleOther
  <2>2. request[c].route \in {"ready", "wrong method", "other path"}
    BY <1>2, <2>1, TypeFacts DEF HandleOther
  <2>3. response' \in [Conn -> Response \cup {None}]
    BY <1>2, <2>2 DEF HandleOther, TypeOK, Response
  <2> QED
    BY <1>2, <2>3 DEF TypeOK, HandleOther, Serving
<1>3. ASSUME NEW c \in Conn, GetPooled(c) PROVE TypeOK'
  <2>1. PICK b \in pool : held' = [held EXCEPT ![c] = b] /\ pool' = pool \ {b}
    BY <1>3 DEF GetPooled
  <2>2. b \in WorkBuf /\ b # None
    BY <1>k DEF TypeOK
  <2> QED
    BY <1>3, <2>1, <2>2 DEF TypeOK, GetPooled, Serving
<1>4. ASSUME NEW c \in Conn, GetNew(c) PROVE TypeOK'
  <2>1. PICK b \in WorkBuf : held' = [held EXCEPT ![c] = b]
    BY <1>4 DEF GetNew
  <2>2. b # None
    BY HandlerAssumption
  <2> QED
    BY <1>4, <2>1, <2>2 DEF TypeOK, GetNew, Serving
<1>5. ASSUME NEW c \in Conn, Reset(c) PROVE TypeOK'
  BY <1>5, <1>k, TypeFacts DEF TypeOK, Reset, Serving, Zero, w, Parts
<1>6. ASSUME NEW c \in Conn, NEW part \in Parts, ParsePart(c, part) PROVE TypeOK'
  <2>1. pc' \in [Conn -> Parts \cup {"idle", "handle", "reset", "vectorize", "search", "put"}]
    BY <1>6 DEF ParsePart, Following, Parts, TypeOK
  <2>2. /\ request[c] \in Request /\ held[c] \in WorkBuf
        /\ request[c].last \in Number
    BY <1>6, TypeFacts DEF ParsePart, Parts
  <2>3. \A d \in Conn : /\ pc'[d] # "idle" => request[d] # None
                        /\ Serving(d) <=> pc'[d] \notin {"idle", "handle"}
    BY <1>6 DEF ParsePart, Following, Parts, TypeOK
  <2>4. req' \in [WorkBuf -> ReqType]
    BY <1>6, ParsePartFacts DEF TypeOK, ReqType
  <2> QED
    BY <1>6, <2>1, <2>3, <2>4 DEF ParsePart, TypeOK, Serving, ReqType
<1>7. ASSUME NEW c \in Conn, NEW part \in Parts, ParseFails(c, part) PROVE TypeOK'
  <2>2. req' \in [WorkBuf -> ReqType]
    BY <1>7, ParseFailsFacts DEF TypeOK, ReqType
  <2>3. /\ pc' \in [Conn -> Parts \cup {"idle", "handle", "reset", "vectorize", "search", "put"}]
        /\ \A d \in Conn : /\ pc'[d] # "idle" => request[d] # None
                           /\ Serving(d) <=> pc'[d] \notin {"idle", "handle"}
    BY <1>7 DEF ParseFails, Parts, TypeOK
  <2> QED
    BY <1>7, <1>k, <2>2, <2>3 DEF ParseFails, TypeOK, Serving, ReqType
<1>8. ASSUME NEW c \in Conn, Vectorize(c) PROVE TypeOK'
  <2> DEFINE r == req[w(c)]
             v == VectorOf(request[r.merchant].merchant, request[r.known].known,
                           r.hasLast, r.last)
  <2>1. held[c] \in WorkBuf
    BY <1>8, TypeFacts DEF Vectorize
  <2>2. r.last \in Number
    BY <2>1 DEF TypeOK, w
  <2>3. v \in Vector
    BY <2>2 DEF VectorOf, Vector
  <2>4. vec' = [vec EXCEPT ![w(c)] = v]
    BY <1>8 DEF Vectorize
  <2>5. vec' \in [WorkBuf -> Vector \cup {None}]
    BY <2>3, <2>4 DEF TypeOK
  <2> QED
    BY <1>8, <2>5 DEF Vectorize, TypeOK, Serving
<1>9. ASSUME NEW c \in Conn, Search(c) PROVE TypeOK'
  <2> DEFINE k == picked[c] + 1
             v == vec[held[c]]
  <2>0. picked[c] \in 0 .. K /\ picked[c] < K
    BY <1>9 DEF Search, TypeOK
  <2>00. k \in Picks
    BY <2>0, <1>k
  <2>1. k \in Picks /\ held[c] \in WorkBuf /\ pc[c] = "search" /\ request[c] \in Request
    BY <1>9, <2>00, TypeFacts DEF Search
  <2>2. v = OwnVector(c)
    BY <2>1 DEF ServedAlone, Alone, SearchIsOwn, Past, w
  <2>3. OwnVector(c) \in Vector
    BY <2>1, TypeFacts DEF OwnVector, VectorOf, Vector
  <2>4. NearestTo[v][k] \in Node
    BY <2>1, <2>2, <2>3, HandlerAssumption
  <2>5. out' = [out EXCEPT ![held[c]][k] = NearestTo[v][k]] /\ picked' = [picked EXCEPT ![c] = k]
    BY <1>9 DEF Search, w
  <2>6. out' \in [WorkBuf -> [Picks -> Node \cup {None}]]
    BY <2>1, <2>4, <2>5 DEF TypeOK
  <2>7. picked' \in [Conn -> 0 .. K]
    BY <1>k, <2>1, <2>5 DEF TypeOK
  <2> QED
    BY <1>9, <2>6, <2>7 DEF TypeOK, Search, Serving
<1>10. ASSUME NEW c \in Conn, Respond(c) PROVE TypeOK'
  <2>1. Frauds(out[w(c)]) \in 0 .. K
    BY FraudsInTable
  <2>2. response' \in [Conn -> Response \cup {None}]
    BY <1>10, <2>1 DEF Respond, TypeOK, Response
  <2> QED
    BY <1>10, <1>k, <2>2 DEF TypeOK, Respond, Serving
<1>11. ASSUME NEW c \in Conn, Put(c) PROVE TypeOK'
  BY <1>11, TypeFacts DEF TypeOK, Put, Serving, w
<1>12. ASSUME NEW b \in WorkBuf, Collect(b) PROVE TypeOK'
  BY <1>12, <1>k DEF TypeOK, Collect, Serving, Zero, Blank
<1>13. CASE UNCHANGED vars
  BY <1>13 DEF TypeOK, vars, Serving
<1> QED
  BY <1>1, <1>2, <1>3, <1>4, <1>5, <1>6, <1>7, <1>8, <1>9, <1>10, <1>11, <1>12, <1>13
     DEF Next, Handle

-----------------------------------------------------------------------------
(* A workBuf passes from the pool, or from New, to one handler, and back. *)
LEMMA BuffersStep == TypeOK /\ BuffersExclusive /\ [Next]_vars => BuffersExclusive'
<1> SUFFICES ASSUME TypeOK, BuffersExclusive, [Next]_vars PROVE BuffersExclusive'
  OBVIOUS
<1>n. None \notin WorkBuf
  BY HandlerAssumption
<1>1. ASSUME NEW c \in Conn, GetPooled(c) PROVE BuffersExclusive'
  <2>1. PICK b \in pool : held' = [held EXCEPT ![c] = b] /\ pool' = pool \ {b}
    BY <1>1 DEF GetPooled
  <2>2. \A d \in Conn : held[d] # b
    BY <2>1 DEF BuffersExclusive
  <2>3. held' \in [Conn -> WorkBuf \cup {None}] /\ held'[c] = b
        /\ \A d \in Conn \ {c} : held'[d] = held[d]
    BY <2>1 DEF TypeOK
  <2> QED
    BY <2>1, <2>2, <2>3 DEF BuffersExclusive, Serving
<1>2. ASSUME NEW c \in Conn, GetNew(c) PROVE BuffersExclusive'
  <2>1. PICK b \in WorkBuf \ (pool \cup InUse) : held' = [held EXCEPT ![c] = b]
    BY <1>2 DEF GetNew
  <2>2. b \notin pool /\ \A d \in Conn : held[d] # b
    BY <2>1, <1>n DEF InUse
  <2>3. held'[c] = b /\ \A d \in Conn \ {c} : held'[d] = held[d]
    BY <2>1 DEF TypeOK
  <2>4. pool' = pool
    BY <1>2 DEF GetNew
  <2> QED
    BY <2>2, <2>3, <2>4 DEF BuffersExclusive, Serving
<1>3. ASSUME NEW c \in Conn, Put(c) PROVE BuffersExclusive'
  <2>1. held[c] \in WorkBuf /\ Serving(c)
    BY <1>3, TypeFacts, <1>n DEF Put, Serving
  <2>2. held'[c] = None /\ \A d \in Conn \ {c} : held'[d] = held[d]
    BY <1>3 DEF Put, TypeOK
  <2>3. pool' = pool \cup {held[c]} /\ pool \subseteq WorkBuf
    BY <1>3 DEF Put, TypeOK, w
  <2> QED
    BY <1>n, <2>1, <2>2, <2>3 DEF BuffersExclusive, Serving
<1>4. ASSUME NEW b \in WorkBuf, Collect(b) PROVE BuffersExclusive'
  BY <1>4 DEF Collect, BuffersExclusive, Serving
<1>5. ASSUME UNCHANGED <<held, pool>> PROVE BuffersExclusive'
  BY <1>5 DEF BuffersExclusive, Serving
<1> QED
  BY <1>1, <1>2, <1>3, <1>4, <1>5
     DEF Next, Handle, vars, Arrive, HandleOther, Reset, ParsePart, ParseFails, Vectorize,
         Search, Respond

(* A goroutine that keeps its workBuf leaves the others untouched. *)
LEMMA OthersUntouched ==
  ASSUME TypeOK, BuffersExclusive, NEW c \in Conn, Arrive(c) \/ Handle(c),
         NEW d \in Conn \ {c}
  PROVE  Untouched(d)
<1>h. Serving(d) => held[d] # held[c] \/ held[c] = None
  BY DEF BuffersExclusive, Serving
<1>b. None \notin WorkBuf /\ (Serving(d) => held[d] \in WorkBuf)
  BY HandlerAssumption DEF Serving, TypeOK
<1>1. CASE \E part \in Parts : ParsePart(c, part) \/ ParseFails(c, part)
  <2>1. PICK part \in Parts : ParsePart(c, part) \/ ParseFails(c, part)
    BY <1>1
  <2>2. held[c] \in WorkBuf /\ req' = [req EXCEPT ![held[c]] = req'[held[c]]]
    BY <2>1, ParsePartFacts, ParseFailsFacts
  <2>3. Serving(d) => held[d] \in WorkBuf /\ held[d] # held[c]
    BY <1>h, <1>b, <2>2
  <2>4. Serving(d) => req'[held[d]] = req[held[d]]
    BY <2>2, <2>3 DEF TypeOK
  <2>5. UNCHANGED <<request, held, picked, vec, out>>
    BY <2>1 DEF ParsePart, ParseFails
  <2>6. pc'[d] = pc[d] /\ response'[d] = response[d]
    BY <2>1 DEF ParsePart, ParseFails, TypeOK
  <2> QED
    BY <2>4, <2>5, <2>6 DEF Untouched
<1>2. CASE Reset(c) \/ Vectorize(c) \/ Search(c)
  <2>1. held[c] \in WorkBuf
    BY <1>2, TypeFacts DEF Reset, Vectorize, Search
  <2>2. Serving(d) => held[d] \in WorkBuf /\ held[d] # held[c]
    BY <1>h, <1>b, <2>1
  <2> QED
    BY <1>2, <2>1, <2>2 DEF Untouched, Reset, Vectorize, Search, TypeOK, w
<1>3. CASE Arrive(c) \/ HandleOther(c) \/ GetPooled(c) \/ GetNew(c) \/ Respond(c) \/ Put(c)
  <2>1. UNCHANGED <<req, vec, out>>
    BY <1>3 DEF Arrive, HandleOther, GetPooled, GetNew, Respond, Put
  <2>2. /\ pc'[d] = pc[d] /\ held'[d] = held[d] /\ picked'[d] = picked[d]
    BY <1>3 DEF Arrive, HandleOther, GetPooled, GetNew, Respond, Put, TypeOK
  <2>3. /\ request'[d] = request[d]
    BY <1>3 DEF Arrive, HandleOther, GetPooled, GetNew, Respond, Put, TypeOK
  <2>4. response'[d] = response[d]
    BY <1>3 DEF Arrive, HandleOther, GetPooled, GetNew, Respond, Put, TypeOK
  <2> QED
    BY <2>1, <2>2, <2>3, <2>4 DEF Untouched
<1> QED
  BY <1>1, <1>2, <1>3 DEF Handle

(* Each step of a goroutine leaves in its workBuf what it would leave alone. *)
LEMMA OwnStep ==
  ASSUME TypeOK, NEW c \in Conn, Alone(c), Arrive(c) \/ Handle(c)
  PROVE  Alone(c)'
<1> USE DEF Past
<1>1. CASE Arrive(c)
  <2>1. pc'[c] = "handle" /\ picked'[c] = picked[c] /\ pc[c] = "idle"
    BY <1>1 DEF Arrive, TypeOK
  <2> QED
    BY <2>1 DEF Alone, StringsAreOwn, NumberIsOwn, PartsWereGood, SearchIsOwn, AnswerIsOwn,
                PlaceIsConsistent
<1>2. CASE HandleOther(c)
  <2>1. /\ pc'[c] = "idle" /\ picked'[c] = picked[c] /\ pc[c] = "handle"
        /\ request'[c] = request[c]
    BY <1>2 DEF HandleOther, TypeOK
  <2>2. response'[c] = ExpectedAnswer(request[c])
    <3>1. request[c].route \in {"ready", "wrong method", "other path"}
      BY <1>2, TypeFacts DEF HandleOther
    <3> QED
      BY <1>2, <3>1 DEF HandleOther, ExpectedAnswer, TypeOK
  <2>3. AnswerIsOwn(c)'
    BY <2>1, <2>2 DEF AnswerIsOwn, ExpectedAnswer
  <2> QED
    BY <2>1, <2>3 DEF Alone, StringsAreOwn, NumberIsOwn, PartsWereGood, SearchIsOwn,
                      PlaceIsConsistent
<1>3. CASE GetPooled(c) \/ GetNew(c)
  <2>1. /\ pc'[c] = "reset" /\ picked'[c] = picked[c] /\ pc[c] = "handle"
        /\ request'[c] = request[c] /\ request[c].route = "score"
    BY <1>3 DEF GetPooled, GetNew, TypeOK
  <2> QED
    BY <2>1 DEF Alone, StringsAreOwn, NumberIsOwn, PartsWereGood, SearchIsOwn, AnswerIsOwn,
                PlaceIsConsistent
<1>4. CASE Reset(c)
  <2>1. /\ pc'[c] = "known" /\ picked'[c] = picked[c] /\ pc[c] = "reset"
        /\ request'[c] = request[c]
    BY <1>4 DEF Reset, TypeOK
  <2> QED
    BY <2>1 DEF Alone, StringsAreOwn, NumberIsOwn, PartsWereGood, SearchIsOwn, AnswerIsOwn,
                PlaceIsConsistent
<1>5. ASSUME NEW part \in Parts, ParsePart(c, part) PROVE Alone(c)'
  <2>1. /\ pc[c] = part /\ pc'[c] = Following(part) /\ request[c].bad # part
        /\ request' = request /\ held' = held /\ picked' = picked
    BY <1>5 DEF ParsePart, TypeOK
  <2>2. /\ part = "known" => req'[held[c]].known = c
        /\ part # "known" => req'[held[c]].known = req[held[c]].known
        /\ part = "merchant" => req'[held[c]].merchant = c
        /\ part # "merchant" => req'[held[c]].merchant = req[held[c]].merchant
        /\ part = "last" => req'[held[c]].hasLast = (request[c].last # None)
        /\ part = "last" /\ request[c].last # None => req'[held[c]].last = request[c].last
    BY <1>5, ParsePartFacts
  <2>3. StringsAreOwn(c)'
    BY <2>1, <2>2 DEF Alone, StringsAreOwn, Following, Parts, w
  <2>4. NumberIsOwn(c)'
    BY <2>1, <2>2 DEF NumberIsOwn, Following, Parts, w
  <2>5. (PartsWereGood(c) /\ PlaceIsConsistent(c) /\ AnswerIsOwn(c) /\ SearchIsOwn(c))'
    BY <2>1 DEF Alone, PartsWereGood, PlaceIsConsistent, AnswerIsOwn, SearchIsOwn,
                Following, Parts
  <2> QED
    BY <2>3, <2>4, <2>5 DEF Alone
<1>6. ASSUME NEW part \in Parts, ParseFails(c, part) PROVE Alone(c)'
  <2>1. /\ pc[c] = part /\ pc'[c] = "put" /\ request[c].bad = part
        /\ request' = request /\ picked' = picked /\ response'[c] = Fallback
    BY <1>6 DEF ParseFails, TypeOK
  <2>2. request[c].route = "score" /\ request[c].bad # "nowhere" /\ picked[c] = 0
    BY <2>1 DEF Alone, PlaceIsConsistent, Parts
  <2>3. AnswerIsOwn(c)'
    BY <2>1, <2>2 DEF AnswerIsOwn, ExpectedAnswer
  <2> QED
    BY <2>1, <2>2, <2>3 DEF Alone, StringsAreOwn, NumberIsOwn, PartsWereGood, SearchIsOwn,
                            PlaceIsConsistent
<1>7. CASE Vectorize(c)
  <2>1. /\ pc[c] = "vectorize" /\ pc'[c] = "search" /\ request' = request /\ held' = held
        /\ picked' = picked
    BY <1>7 DEF Vectorize, TypeOK
  <2>2. held[c] \in WorkBuf /\ request[c] \in Request /\ picked[c] = 0
    BY <2>1, TypeFacts DEF Alone, PlaceIsConsistent
  <2>3. vec'[held[c]] = VectorOf(request[c].merchant, request[c].known,
                                 req[held[c]].hasLast, req[held[c]].last)
    BY <1>7, <2>1, <2>2 DEF Vectorize, TypeOK, Alone, StringsAreOwn, w
  <2>4. vec'[held[c]] = OwnVector(c)
    BY <2>1, <2>3 DEF Alone, NumberIsOwn, OwnVector, VectorOf, w
  <2>5. SearchIsOwn(c)'
    BY <2>1, <2>2, <2>4 DEF SearchIsOwn, OwnVector, w
  <2>6. PartsWereGood(c)' /\ PlaceIsConsistent(c)'
    BY <2>1 DEF Alone, PartsWereGood, PlaceIsConsistent
  <2> QED
    BY <2>1, <2>5, <2>6 DEF Alone, StringsAreOwn, NumberIsOwn, AnswerIsOwn
<1>8. CASE Search(c)
  <2> DEFINE k == picked[c] + 1
  <2>1. /\ pc[c] = "search" /\ pc' = pc /\ request' = request /\ held' = held
        /\ vec' = vec /\ picked'[c] = k
    BY <1>8 DEF Search, TypeOK
  <2>k. K \in Nat /\ Picks = 1 .. K
    BY HandlerAssumption DEF Picks
  <2>p. picked[c] \in 0 .. K /\ picked[c] < K
    BY <1>8 DEF Search, TypeOK
  <2>n. picked[c] \in Nat /\ k \in Picks
    BY <2>k, <2>p
  <2>2. held[c] \in WorkBuf /\ vec[held[c]] = OwnVector(c)
    BY <2>1, TypeFacts DEF Alone, SearchIsOwn, w
  <2>3. out' = [out EXCEPT ![held[c]][k] = NearestTo[OwnVector(c)][k]]
    BY <1>8, <2>2 DEF Search, w
  <2>4. \A i \in Picks : out'[held[c]][i] =
          IF i = k THEN NearestTo[OwnVector(c)][k] ELSE out[held[c]][i]
    BY <2>2, <2>3, <2>n DEF TypeOK
  <2>5. SearchIsOwn(c)'
    <3>1. SUFFICES ASSUME NEW i \in 1 .. k
                   PROVE  out'[held[c]][i] = NearestTo[OwnVector(c)][i]
      BY <2>1, <2>2 DEF SearchIsOwn, OwnVector, w
    <3>2. i \in Picks /\ (i = k \/ i \in 1 .. picked[c])
      BY <2>k, <2>p
    <3> QED
      BY <2>1, <2>4, <3>2 DEF Alone, SearchIsOwn, w
  <2>6. PartsWereGood(c)' /\ PlaceIsConsistent(c)'
    BY <2>1 DEF Alone, PartsWereGood, PlaceIsConsistent
  <2> QED
    BY <2>1, <2>5, <2>6 DEF Alone, StringsAreOwn, NumberIsOwn, AnswerIsOwn
<1>9. CASE Respond(c)
  <2>1. /\ pc[c] = "search" /\ pc'[c] = "put" /\ request' = request /\ picked'[c] = 0
        /\ picked[c] = K /\ response'[c] = Score(Frauds(out[held[c]]))
    BY <1>9 DEF Respond, TypeOK, w
  <2>2. Frauds(out[held[c]]) = Frauds(NearestTo[OwnVector(c)])
    BY <2>1 DEF Alone, SearchIsOwn, Frauds, Picks, w
  <2>3. request[c].route = "score" /\ request[c].bad = "nowhere"
    BY <2>1, TypeFacts DEF Alone, PartsWereGood, PlaceIsConsistent
  <2>4. AnswerIsOwn(c)'
    BY <2>1, <2>2, <2>3 DEF AnswerIsOwn, ExpectedAnswer, OwnVector
  <2> QED
    BY <2>1, <2>3, <2>4 DEF Alone, StringsAreOwn, NumberIsOwn, PartsWereGood, SearchIsOwn,
                            PlaceIsConsistent
<1>10. CASE Put(c)
  <2>1. /\ pc[c] = "put" /\ pc'[c] = "idle" /\ request' = request /\ picked' = picked
        /\ response' = response
    BY <1>10 DEF Put, TypeOK
  <2>2. AnswerIsOwn(c)'
    BY <2>1 DEF Alone, AnswerIsOwn, ExpectedAnswer
  <2> QED
    BY <2>1, <2>2 DEF Alone, StringsAreOwn, NumberIsOwn, PartsWereGood, SearchIsOwn,
                      PlaceIsConsistent
<1> QED
  BY <1>1, <1>2, <1>3, <1>4, <1>5, <1>6, <1>7, <1>8, <1>9, <1>10 DEF Handle

LEMMA AloneStep == IInv /\ [Next]_vars => ServedAlone'
<1> SUFFICES ASSUME IInv, [Next]_vars, NEW d \in Conn PROVE Alone(d)'
  BY DEF ServedAlone
<1>i. TypeOK /\ BuffersExclusive /\ Alone(d)
  BY DEF IInv, ServedAlone
<1>1. ASSUME NEW c \in Conn, Arrive(c) \/ Handle(c) PROVE Alone(d)'
  <2>1. CASE d = c
    BY <1>i, <1>1, <2>1, OwnStep
  <2>2. CASE d # c
    BY <1>i, <1>1, <2>2, OthersUntouched, Frame
  <2> QED
    BY <2>1, <2>2
<1>2. ASSUME NEW b \in WorkBuf, Collect(b) PROVE Alone(d)'
  <2>1. held[d] # b
    BY <1>i, <1>2 DEF Collect, BuffersExclusive
  <2>2. Serving(d) => held[d] \in WorkBuf
    BY <1>i DEF TypeOK, Serving
  <2>3. Untouched(d)
    BY <1>i, <1>2, <2>1, <2>2 DEF Collect, Untouched, TypeOK
  <2> QED
    BY <1>i, <2>3, Frame
<1>3. CASE UNCHANGED vars
  BY <1>i, <1>3, Frame DEF vars, Untouched
<1> QED
  BY <1>1, <1>2, <1>3 DEF Next

(***************************************************************************)
(* The inductive invariant of the handler: a workBuf has one user, and     *)
(* what it holds at each place is what its user put there.                 *)
(***************************************************************************)
THEOREM Inductive == Spec => []IInv
<1>1. IInv /\ [Next]_vars => IInv'
  BY TypeStep, BuffersStep, AloneStep DEF IInv
<1> QED
  BY InitIInv, <1>1, PTL DEF Spec

(* Every variable keeps its type; the response is one of the table's.      *)
THEOREM TypeCorrect == Spec => []TypeOK
<1>1. IInv => TypeOK
  BY DEF IInv
<1> QED
  BY Inductive, <1>1, PTL

(* However many connections there are, no two handlers share a workBuf.    *)
THEOREM BuffersHaveOneUser == Spec => []BuffersExclusive
<1>1. IInv => BuffersExclusive
  BY DEF IInv
<1> QED
  BY Inductive, <1>1, PTL

(* A handler never reads a string that points into another's body.         *)
THEOREM StringsStayLive == Spec => []StringsAreLive
<1>1. IInv => StringsAreLive
  BY DEF IInv, ServedAlone, Alone, StringsAreOwn, Past, StringsAreLive
<1> QED
  BY Inductive, <1>1, PTL

-----------------------------------------------------------------------------
(* A step of the handler is a step of the service, or none that it shows. *)
LEMMA ServiceStep == IInv /\ IInv' /\ [Next]_vars => [Service!Next]_(Service!vars)
<1> SUFFICES ASSUME IInv, IInv', [Next]_vars PROVE [Service!Next]_(Service!vars)
  OBVIOUS
<1> DEFINE asked == [c \in Conn |-> IF pc[c] = "idle" THEN None ELSE request[c]]
           answer == [c \in Conn |-> IF pc[c] = "idle" THEN response[c] ELSE None]
<1>i. TypeOK /\ TypeOK' /\ ServedAlone /\ ServedAlone'
  BY DEF IInv
<1>n. None \notin Request
  BY HandlerAssumption
<1>1. ASSUME NEW c \in Conn, Arrive(c) PROVE Service!Ask(c)
  <2>1. PICK r \in Request : request' = [request EXCEPT ![c] = r]
    BY <1>1 DEF Arrive
  <2>2. pc[c] = "idle" /\ pc' = [pc EXCEPT ![c] = "handle"]
        /\ response' = [response EXCEPT ![c] = None]
    BY <1>1 DEF Arrive
  <2>3. asked[c] = None /\ asked' = [asked EXCEPT ![c] = r]
    BY <1>i, <2>1, <2>2 DEF TypeOK
  <2>4. answer' = [answer EXCEPT ![c] = None]
    BY <1>i, <2>2 DEF TypeOK
  <2> QED
    BY <2>3, <2>4 DEF Service!Ask
<1>2. ASSUME NEW c \in Conn, HandleOther(c) \/ Put(c) PROVE Service!Respond(c)
  <2>1. /\ pc[c] # "idle" /\ pc' = [pc EXCEPT ![c] = "idle"] /\ request' = request
        /\ \A d \in Conn \ {c} : response'[d] = response[d]
    BY <1>i, <1>2 DEF HandleOther, Put, TypeOK
  <2>2. request[c] \in Request /\ request[c] # None
    BY <1>i, <2>1, TypeFacts, <1>n
  <2>3. response'[c] = ExpectedAnswer(request[c])
    <3>1. pc'[c] = "idle" /\ request'[c] # None
      BY <1>i, <2>1, <2>2 DEF TypeOK
    <3>2. AnswerIsOwn(c)'
      BY <1>i DEF ServedAlone, Alone
    <3> QED
      BY <2>1, <3>1, <3>2 DEF AnswerIsOwn, Past, ExpectedAnswer
  <2>4. asked[c] # None /\ asked' = [asked EXCEPT ![c] = None]
    BY <1>i, <2>1, <2>2 DEF TypeOK
  <2>5. answer' = [answer EXCEPT ![c] = ExpectedAnswer(asked[c])]
    BY <1>i, <2>1, <2>3 DEF TypeOK
  <2> QED
    BY <2>4, <2>5 DEF Service!Respond
<1>3. ASSUME /\ UNCHANGED request
             /\ \A c \in Conn : pc[c] = "idle" <=> pc'[c] = "idle"
             /\ \A c \in Conn : pc[c] = "idle" => response'[c] = response[c]
      PROVE  UNCHANGED Service!vars
  BY <1>3 DEF Service!vars
<1>4. ASSUME NEW c \in Conn, NEW next, pc[c] # "idle", next # "idle",
             pc' = [pc EXCEPT ![c] = next], UNCHANGED request,
             \A d \in Conn \ {c} : response'[d] = response[d]
      PROVE  UNCHANGED Service!vars
  BY <1>i, <1>3, <1>4 DEF TypeOK
<1>5. ASSUME NEW c \in Conn, NEW part \in Parts, ParsePart(c, part) \/ ParseFails(c, part)
      PROVE  UNCHANGED Service!vars
  <2>1. pc[c] # "idle" /\ UNCHANGED request /\ \A d \in Conn \ {c} : response'[d] = response[d]
    BY <1>i, <1>5 DEF ParsePart, ParseFails, Parts, TypeOK
  <2>2. pc' = [pc EXCEPT ![c] = Following(part)] \/ pc' = [pc EXCEPT ![c] = "put"]
    BY <1>5 DEF ParsePart, ParseFails
  <2>3. Following(part) # "idle"
    BY DEF Following, Parts
  <2> QED
    BY <1>4, <2>1, <2>2, <2>3
<1>6. ASSUME NEW c \in Conn,
             GetPooled(c) \/ GetNew(c) \/ Reset(c) \/ Vectorize(c) \/ Respond(c)
      PROVE  UNCHANGED Service!vars
  <2>1. pc[c] # "idle" /\ UNCHANGED request /\ \A d \in Conn \ {c} : response'[d] = response[d]
    BY <1>i, <1>6 DEF GetPooled, GetNew, Reset, Vectorize, Respond, TypeOK
  <2>2. PICK next \in {"reset", "known", "search", "put"} : pc' = [pc EXCEPT ![c] = next]
    BY <1>6 DEF GetPooled, GetNew, Reset, Vectorize, Respond
  <2> QED
    BY <1>4, <2>1, <2>2
<1>7. ASSUME NEW c \in Conn, Search(c) PROVE UNCHANGED Service!vars
  BY <1>3, <1>7 DEF Search
<1>8. ASSUME NEW b \in WorkBuf, Collect(b) PROVE UNCHANGED Service!vars
  BY <1>3, <1>8 DEF Collect
<1>9. CASE UNCHANGED vars
  BY <1>3, <1>9 DEF vars
<1> QED
  BY <1>1, <1>2, <1>5, <1>6, <1>7, <1>8, <1>9 DEF Next, Handle, Service!Next

(***************************************************************************)
(* The safety half of ImplementsService: whatever the handler answers is   *)
(* the answer to the connection's own request, served alone.               *)
(***************************************************************************)
THEOREM ServiceIsImplemented == Spec => Service!Init /\ [][Service!Next]_(Service!vars)
<1>1. Init => Service!Init
  BY DEF Init, Service!Init
<1> QED
  BY Inductive, <1>1, ServiceStep, PTL DEF Spec
=============================================================================
