----------------------------- MODULE Deployment -----------------------------
(***************************************************************************)
(* The service as docker-compose.yml deploys it: nginx shares the requests *)
(* between API instances and keeps idle connections to them (nginx.conf);  *)
(* each instance is a fasthttp server that loads its index before it       *)
(* listens, closes connections that stay idle, and refuses those beyond    *)
(* its limit (cmd/api/main.go).  An instance may end at any moment, and    *)
(* compose does not restart it.                                            *)
(*                                                                         *)
(* An upstream connection has two ends that learn of each other late:      *)
(* nginx may send a request on one the instance has just closed, and an    *)
(* instance may work for a client that has left.  What a request asks, and *)
(* what its handler answers, is the subject of FraudHandler.               *)
(***************************************************************************)
EXTENDS Integers, FiniteSets

CONSTANTS
  Instance,     \* API instances (api1, api2)
  Conn,         \* upstream connections, enough that a new one is never lacking
  Requests,     \* requests clients send, numbered as nginx receives them
  Keepalive,    \* idle connections nginx keeps (keepalive 256)
  Concurrency,  \* connections an instance serves (Concurrency: 1024)
  Busy,         \* fasthttp's 503: too many connections
  None

Request == 1 .. Requests

ASSUME DeploymentAssumption ==
  /\ Requests \in Nat
  /\ IsFiniteSet(Conn) /\ Cardinality(Conn) >= Requests
  /\ Keepalive \in Nat \ {0} /\ Concurrency \in Nat \ {0}
  /\ None \notin Request \cup Instance \cup Conn /\ Busy \notin Request \cup {None}

VARIABLES
  api,     \* where the process of each instance stands
  peer,    \* whether nginx sends requests to an instance
  client,  \* where the client of each request stands
  runs,    \* how often a handler has run for each request
  cut,     \* the requests whose run was lost with its process
  link     \* the upstream connections

vars == <<api, peer, client, runs, cut, link>>

(***************************************************************************)
(* near is nginx's end: "busy" with the request it has asked, or "idle" in *)
(* the cache.  far is the instance's end: "reading", or "handling".  load  *)
(* is the request on its way or being handled, reply what comes back.      *)
(***************************************************************************)
Unused == [to |-> None, near |-> "closed", far |-> "closed",
           asked |-> None, load |-> None, reply |-> None]

Init ==
  /\ api = [i \in Instance |-> "starting"]
  /\ peer = [i \in Instance |-> "live"]
  /\ client = [r \in Request |-> "unsent"]
  /\ runs = [r \in Request |-> 0] /\ cut = {}
  /\ link = [c \in Conn |-> Unused]

Becomes(r, state) == client' = [client EXCEPT ![r] = state]
IdleTo(i) == {c \in Conn : link[c].near = "idle" /\ link[c].to = i}
Idle == {c \in Conn : link[c].near = "idle"}
Served(i) == {c \in Conn : link[c].to = i /\ link[c].far # "closed"}

(* A connection whose two ends are closed is gone. *)
Tidy(l) == IF l.near = "closed" /\ l.far = "closed" THEN Unused ELSE l
Hung(c) == Tidy([link[c] EXCEPT !.near = "closed", !.asked = None, !.reply = None])

-----------------------------------------------------------------------------
(***************************************************************************)
(* The instances.  main loads and warms the index and only then listens;   *)
(* log.Fatalf, a panic or the memory limit end the process, closing its    *)
(* ends of all connections.  Bytes it had sent still arrive.               *)
(***************************************************************************)
Listen(i) ==
  /\ api[i] = "starting" /\ api' = [api EXCEPT ![i] = "listening"]
  /\ UNCHANGED <<peer, client, runs, cut, link>>

Stop(i) ==
  /\ api[i] # "exited" /\ api' = [api EXCEPT ![i] = "exited"]
  /\ cut' = cut \cup {link[c].load : c \in {d \in Served(i) : link[d].far = "handling"}}
  /\ link' = [c \in Conn |-> IF c \in Served(i)
                             THEN Tidy([link[c] EXCEPT !.far = "closed", !.load = None])
                             ELSE link[c]]
  /\ UNCHANGED <<peer, client, runs>>

(* The server reads a request and runs its handler. *)
Read(c) ==
  /\ link[c].far = "reading" /\ link[c].load # None
  /\ link' = [link EXCEPT ![c].far = "handling"]
  /\ runs' = [runs EXCEPT ![link[c].load] = @ + 1]
  /\ UNCHANGED <<api, peer, client, cut>>

(* The handler returns: the answer goes out, if there is someone to read it. *)
Respond(c) ==
  /\ link[c].far = "handling"
  /\ link' = [link EXCEPT ![c] =
       IF @.near = "busy" THEN [@ EXCEPT !.far = "reading", !.load = None, !.reply = link[c].load]
       ELSE Unused]
  /\ UNCHANGED <<api, peer, client, runs, cut>>

CloseSlow(c) ==  \* mutant: the timeout does not spare a running handler
  /\ link[c].far \in {"reading", "handling"}
  /\ link' = [link EXCEPT ![c] = Tidy([@ EXCEPT !.far = "closed", !.load = None])]
  /\ UNCHANGED <<api, peer, client, runs, cut>>

(***************************************************************************)
(* IdleTimeout, ReadTimeout for the first request, or the other end is     *)
(* closed: the server closes its end.  A request may be on its way.        *)
(***************************************************************************)
CloseIdle(c) ==
  /\ link[c].far = "reading"
  /\ link' = [link EXCEPT ![c] = Tidy([@ EXCEPT !.far = "closed", !.load = None])]
  /\ UNCHANGED <<api, peer, client, runs, cut>>

-----------------------------------------------------------------------------
(***************************************************************************)
(* nginx.  A failure makes it leave an instance alone (max_fails = 1);     *)
(* when fail_timeout has passed, one request is let through to probe it,   *)
(* and an answer brings it back.                                           *)
(***************************************************************************)
Eligible(i) == peer[i] \in {"live", "due"}
Chosen(i) == peer' = [peer EXCEPT ![i] = IF @ = "due" THEN "probed" ELSE @]
Failed(i) == peer' = [peer EXCEPT ![i] = "skipped"]
Worked(i) == peer' = [peer EXCEPT ![i] = IF @ = "probed" THEN "live" ELSE @]

FailTimeout(i) ==
  /\ peer[i] = "skipped" /\ peer' = [peer EXCEPT ![i] = "due"]
  /\ UNCHANGED <<api, client, runs, cut, link>>

Send(r) ==
  /\ client[r] = "unsent" /\ \A q \in 1 .. r - 1 : client[q] # "unsent"
  /\ Becomes(r, "waiting")
  /\ UNCHANGED <<api, peer, runs, cut, link>>

ToRoute(r) == client[r] = "waiting" /\ \A c \in Conn : link[c].asked # r

(* An idle connection is taken if there is one, open at the far end or not. *)
Reuse(r, i) ==
  /\ ToRoute(r) /\ Eligible(i) /\ Chosen(i)
  /\ \E c \in IdleTo(i) :
       link' = [link EXCEPT ![c] =
         [@ EXCEPT !.near = "busy", !.asked = r,
                   !.load = IF link[c].far = "closed" THEN None ELSE r]]
  /\ UNCHANGED <<api, client, runs, cut>>

Fresh == {c \in Conn : link[c] = Unused}
Asking(r, i) == [Unused EXCEPT !.to = i, !.near = "busy", !.asked = r]

(* Otherwise a new one is opened; beyond its limit the server answers 503,  *)
(* which the reset of the connection may overtake.                          *)
Connect(r, i) ==
  /\ ToRoute(r) /\ Eligible(i) /\ IdleTo(i) = {} /\ Chosen(i)
  /\ api[i] = "listening"
  /\ \E c \in Fresh :
       /\ c = CHOOSE d \in Fresh : TRUE
       /\ IF Cardinality(Served(i)) < Concurrency
          THEN link' = [link EXCEPT ![c] = [Asking(r, i) EXCEPT !.far = "reading", !.load = r]]
          ELSE \E answer \in {Busy, None} :
                 link' = [link EXCEPT ![c] = [Asking(r, i) EXCEPT !.reply = answer]]
  /\ UNCHANGED <<api, client, runs, cut>>

(* Nobody listens, or every instance is left alone: the client gets a 502. *)
Refused(r, i) ==
  /\ ToRoute(r) /\ Eligible(i) /\ IdleTo(i) = {}
  /\ api[i] # "listening"
  /\ Becomes(r, "failed") /\ Failed(i)
  /\ UNCHANGED <<api, runs, cut, link>>

NoLiveUpstream(r) ==
  /\ ToRoute(r) /\ \A i \in Instance : ~ Eligible(i)
  /\ Becomes(r, "failed")
  /\ UNCHANGED <<api, peer, runs, cut, link>>

DeliverAndHold(c) ==  \* mutant: an idle connection still waits for an answer
  /\ link[c].near = "busy" /\ link[c].reply # None
  /\ Worked(link[c].to)
  /\ Becomes(link[c].asked, IF link[c].reply = Busy THEN "failed" ELSE "answered")
  /\ link' = [link EXCEPT ![c] = [@ EXCEPT !.near = "idle", !.reply = None]]
  /\ UNCHANGED <<api, runs, cut>>

(***************************************************************************)
(* An answer is passed on, and the connection goes to the cache, in which  *)
(* it may take the place of another; after a 503 it is closed.             *)
(***************************************************************************)
Deliver(c) ==
  /\ link[c].near = "busy" /\ link[c].reply # None
  /\ Worked(link[c].to)
  /\ IF link[c].reply = Busy
     THEN Becomes(link[c].asked, "failed") /\ link' = [link EXCEPT ![c] = Unused]
     ELSE /\ Becomes(link[c].asked, "answered")
          /\ \E evicted \in {None} \cup Idle :
               /\ evicted = None <=> Cardinality(Idle) < Keepalive
               /\ link' = [d \in Conn |->
                    CASE d = c -> [link[c] EXCEPT !.near = "idle", !.asked = None, !.reply = None]
                      [] d = evicted -> Hung(d)
                      [] OTHER -> link[d]]
  /\ UNCHANGED <<api, runs, cut>>

ResetAndRetry(c) ==  \* mutant: proxy_next_upstream error non_idempotent
  /\ link[c].near = "busy" /\ link[c].far = "closed" /\ link[c].reply = None
  /\ link' = [link EXCEPT ![c] = Unused] /\ Failed(link[c].to)
  /\ UNCHANGED <<api, client, runs, cut>>

(* The connection ends without an answer: proxy_next_upstream is off.      *)
Reset(c) ==
  /\ link[c].near = "busy" /\ link[c].far = "closed" /\ link[c].reply = None
  /\ link' = [link EXCEPT ![c] = Unused]
  /\ Becomes(link[c].asked, "failed") /\ Failed(link[c].to)
  /\ UNCHANGED <<api, runs, cut>>

(* nginx learns that a cached connection is closed. *)
Discard(c) ==
  /\ link[c].near = "idle" /\ link[c].far = "closed"
  /\ link' = [link EXCEPT ![c] = Unused]
  /\ UNCHANGED <<api, peer, client, runs, cut>>

(* The client times out and leaves; nginx hangs up on the instance, and    *)
(* does not hold it against it.                                            *)
GiveUp(r) ==
  /\ client[r] = "waiting" /\ Becomes(r, "abandoned")
  /\ \/ ToRoute(r) /\ UNCHANGED <<peer, link>>
     \/ \E c \in Conn : /\ link[c].asked = r
                       /\ Worked(link[c].to)
                       /\ link' = [link EXCEPT ![c] = Hung(c)]
  /\ UNCHANGED <<api, runs, cut>>

-----------------------------------------------------------------------------
Route(r) ==
  \/ NoLiveUpstream(r)
  \/ \E i \in Instance : Reuse(r, i) \/ Connect(r, i) \/ Refused(r, i)

Process(i) == Listen(i) \/ Stop(i) \/ FailTimeout(i)
Serve(c) == Read(c) \/ Respond(c)
Return(c) == Deliver(c) \/ Reset(c)

Next ==
  \/ \E i \in Instance : Process(i)
  \/ \E r \in Request : Send(r) \/ Route(r) \/ GiveUp(r)
  \/ \E c \in Conn : Serve(c) \/ CloseIdle(c) \/ Return(c) \/ Discard(c)

(***************************************************************************)
(* nginx's event loop and the goroutines of a live instance run: whoever   *)
(* has the next step to take for a request takes it.  Nothing is assumed   *)
(* of the loading, the clients or the timeouts.                            *)
(***************************************************************************)
Advance(r) ==
  /\ client[r] = "waiting"
  /\ Route(r) \/ \E c \in Conn : link[c].asked = r /\ (Serve(c) \/ Return(c))
Fairness == \A r \in Request : WF_vars(Advance(r))
Spec == Init /\ [][Next]_vars /\ Fairness

-----------------------------------------------------------------------------
LinkType ==
  [to : Instance \cup {None}, near : {"closed", "busy", "idle"},
   far : {"closed", "reading", "handling"}, asked : Request \cup {None},
   load : Request \cup {None}, reply : Request \cup {None, Busy}]

TypeOK ==
  /\ api \in [Instance -> {"starting", "listening", "exited"}]
  /\ peer \in [Instance -> {"live", "skipped", "due", "probed"}]
  /\ client \in [Request -> {"unsent", "waiting", "answered", "failed", "abandoned"}]
  /\ runs \in [Request -> Nat] /\ cut \subseteq Request
  /\ link \in [Conn -> LinkType]
  /\ \A c \in Conn : /\ link[c].near = "busy" <=> link[c].asked # None
                     /\ link[c].far = "handling" => link[c].load # None

(***************************************************************************)
(* A request is never run twice, whatever connections are reset under it:  *)
(* nginx does not send it again, and an instance reads it once.            *)
(***************************************************************************)
AtMostOnce == \A r \in Request : runs[r] <= 1

(***************************************************************************)
(* The deployment implements Delivery: in particular an answer reaches the *)
(* client whose request was run for it, although connections are shared    *)
(* and outlive their requests; an error without a lost process means that  *)
(* nothing was run; and every client that waits hears of its request.      *)
(***************************************************************************)
Promise == INSTANCE Delivery
ImplementsDelivery == Promise!Spec
=============================================================================
