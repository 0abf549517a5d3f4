--------------------------- MODULE DeploymentProofs ---------------------------
(***************************************************************************)
(* Theorems about Deployment, for any number of instances, connections and *)
(* requests: no request is run twice, and every step of the deployment is  *)
(* one that Delivery allows.                                               *)
(***************************************************************************)
EXTENDS Deployment, TLAPS

(***************************************************************************)
(* What a connection carries.  Only a handled request has run; a request   *)
(* that is asked is on its way, handled, answered, refused, or lost with   *)
(* the far end; and one that is carried without being asked for was        *)
(* abandoned.                                                              *)
(***************************************************************************)
Carries(c) ==
  /\ link[c].near # "busy" => link[c].reply = None
  /\ link[c].near = "idle" \/ link[c].far = "closed" => link[c].load = None
  /\ link[c].load # None =>
       /\ link[c].load = link[c].asked \/ client[link[c].load] = "abandoned"
       /\ link[c].far = "reading" => runs[link[c].load] = 0
       /\ link[c].far = "handling" => runs[link[c].load] = 1 /\ link[c].load \notin cut
  /\ link[c].asked # None =>
       /\ client[link[c].asked] = "waiting"
       /\ \/ link[c].load = link[c].asked /\ link[c].reply = None
          \/ /\ link[c].load = None /\ link[c].reply = link[c].asked
             /\ runs[link[c].asked] = 1 /\ link[c].asked \notin cut
          \/ /\ link[c].load = None /\ link[c].reply = Busy
             /\ runs[link[c].asked] = 0
          \/ /\ link[c].load = None /\ link[c].reply = None /\ link[c].far = "closed"
             /\ runs[link[c].asked] = 0 \/ link[c].asked \in cut

(* No two connections are asked, or carry, the same request. *)
Apart(c, d) ==
  /\ link[c].asked # None => link[c].asked # link[d].asked
  /\ link[c].load # None => link[c].load # link[d].load

(* A request that is still to be routed has not been run, and is nowhere. *)
Untouched(r) == runs[r] = 0 /\ \A c \in Conn : link[c].load # r

Accounts ==
  /\ \A c \in Conn : Carries(c)
  /\ \A c, d \in Conn : c # d => Apart(c, d)
  /\ \A r \in Request : client[r] = "unsent" \/ ToRoute(r) => Untouched(r)
  /\ \A r \in Request : runs[r] \in {0, 1}
  /\ \A r \in cut : runs[r] = 1

IInv == TypeOK /\ Accounts

-----------------------------------------------------------------------------
LEMMA Distinct ==
  /\ None \notin Request /\ None \notin Instance /\ None \notin Conn
  /\ Busy \notin Request /\ Busy # None
BY DeploymentAssumption

LEMMA LinkFields ==
  ASSUME TypeOK, NEW c \in Conn
  PROVE  /\ link[c] \in LinkType
         /\ link[c].near = "busy" <=> link[c].asked # None
         /\ link[c].far = "handling" => link[c].load # None
         /\ link[c].asked # None => link[c].asked \in Request
         /\ link[c].load # None => link[c].load \in Request
BY DEF TypeOK, LinkType

LEMMA TidyType ==
  ASSUME NEW l \in LinkType,
         l.near = "busy" <=> l.asked # None, l.far = "handling" => l.load # None
  PROVE  /\ Tidy(l) \in LinkType
         /\ Tidy(l).near = "busy" <=> Tidy(l).asked # None
         /\ Tidy(l).far = "handling" => Tidy(l).load # None
BY DEF Tidy, Unused, LinkType

LEMMA HungType ==
  ASSUME TypeOK, NEW c \in Conn
  PROVE  /\ Hung(c) \in LinkType
         /\ Hung(c).near = "busy" <=> Hung(c).asked # None
         /\ Hung(c).far = "handling" => Hung(c).load # None
<1> DEFINE l == [link[c] EXCEPT !.near = "closed", !.asked = None, !.reply = None]
<1>1. l \in LinkType /\ l.near = "closed" /\ l.asked = None
        /\ (l.far = "handling" => l.load # None)
  BY LinkFields DEF LinkType
<1> HIDE DEF l
<1> QED
  BY <1>1, TidyType DEF Hung, l

(* Every step leaves every variable with its type. *)
LEMMA TypePreserved ==
  ASSUME TypeOK, [Next]_vars
  PROVE  TypeOK'
<1> USE Distinct
<1>1. ASSUME NEW i \in Instance, Process(i)
      PROVE  TypeOK'
  <2>1. CASE Listen(i)
    BY <2>1 DEF Listen, TypeOK
  <2>2. CASE FailTimeout(i)
    BY <2>2 DEF FailTimeout, TypeOK
  <2>3. CASE Stop(i)
    <3>1. \A c \in Conn : link'[c] = IF c \in Served(i)
            THEN Tidy([link[c] EXCEPT !.far = "closed", !.load = None]) ELSE link[c]
      BY <2>3 DEF Stop
    <3>2. ASSUME NEW c \in Conn
          PROVE  /\ link'[c] \in LinkType
                 /\ link'[c].near = "busy" <=> link'[c].asked # None
                 /\ link'[c].far = "handling" => link'[c].load # None
      <4> DEFINE l == [link[c] EXCEPT !.far = "closed", !.load = None]
      <4>1. l \in LinkType /\ (l.near = "busy" <=> l.asked # None) /\ l.far = "closed"
        BY LinkFields DEF LinkType
      <4> HIDE DEF l
      <4> QED
        BY <3>1, <4>1, TidyType, LinkFields DEF l
    <3>3. link' \in [Conn -> LinkType]
      BY <2>3, <3>2 DEF Stop
    <3>4. cut' \subseteq Request
      BY <2>3, LinkFields DEF Stop, Served, TypeOK
    <3> QED
      BY <2>3, <3>2, <3>3, <3>4 DEF Stop, TypeOK
  <2> QED
    BY <1>1, <2>1, <2>2, <2>3 DEF Process
<1>2. ASSUME NEW r \in Request, Send(r) \/ NoLiveUpstream(r)
      PROVE  TypeOK'
  BY <1>2 DEF Send, NoLiveUpstream, Becomes, TypeOK
<1>3. ASSUME NEW r \in Request, NEW i \in Instance, Reuse(r, i)
      PROVE  TypeOK'
  <2>1. PICK c \in IdleTo(i) : link' = [link EXCEPT ![c] =
         [@ EXCEPT !.near = "busy", !.asked = r,
                   !.load = IF link[c].far = "closed" THEN None ELSE r]]
    BY <1>3 DEF Reuse
  <2>2. c \in Conn
    BY DEF IdleTo
  <2> DEFINE l == [link[c] EXCEPT !.near = "busy", !.asked = r,
                   !.load = IF link[c].far = "closed" THEN None ELSE r]
  <2>3. l \in LinkType /\ l.near = "busy" /\ l.asked # None /\ (l.far = "handling" => l.load # None)
    BY <2>2, LinkFields DEF LinkType
  <2>4. link' = [link EXCEPT ![c] = l]
    BY <2>1
  <2> HIDE DEF l
  <2> QED
    BY <1>3, <2>2, <2>3, <2>4 DEF Reuse, Chosen, TypeOK
<1>4. ASSUME NEW r \in Request, NEW i \in Instance, Connect(r, i)
      PROVE  TypeOK'
  <2>1. PICK c \in Fresh :
           IF Cardinality(Served(i)) < Concurrency
           THEN link' = [link EXCEPT ![c] = [Asking(r, i) EXCEPT !.far = "reading", !.load = r]]
           ELSE \E answer \in {Busy, None} :
                  link' = [link EXCEPT ![c] = [Asking(r, i) EXCEPT !.reply = answer]]
    BY <1>4 DEF Connect
  <2>2. PICK l : /\ link' = [link EXCEPT ![c] = l] /\ l \in LinkType
                 /\ l.near = "busy" /\ l.asked # None /\ (l.far = "handling" => l.load # None)
    <3>1. CASE Cardinality(Served(i)) < Concurrency
      <4> DEFINE l == [Asking(r, i) EXCEPT !.far = "reading", !.load = r]
      <4>1. l \in LinkType /\ l.near = "busy" /\ l.asked # None /\ l.load # None
        BY DEF Asking, Unused, LinkType
      <4>2. link' = [link EXCEPT ![c] = l]
        BY <2>1, <3>1
      <4> HIDE DEF l
      <4> QED
        BY <4>1, <4>2
    <3>2. CASE ~ (Cardinality(Served(i)) < Concurrency)
      <4>1. PICK answer \in {Busy, None} :
              link' = [link EXCEPT ![c] = [Asking(r, i) EXCEPT !.reply = answer]]
        BY <2>1, <3>2
      <4> DEFINE l == [Asking(r, i) EXCEPT !.reply = answer]
      <4>2. l \in LinkType /\ l.near = "busy" /\ l.asked # None /\ l.far # "handling"
        BY DEF Asking, Unused, LinkType
      <4>3. link' = [link EXCEPT ![c] = l]
        BY <4>1
      <4> HIDE DEF l
      <4> QED
        BY <4>2, <4>3
    <3> QED
      BY <3>1, <3>2
  <2> QED
    BY <1>4, <2>2 DEF Connect, Chosen, Fresh, TypeOK
<1>5. ASSUME NEW r \in Request, NEW i \in Instance, Refused(r, i)
      PROVE  TypeOK'
  BY <1>5 DEF Refused, Becomes, Failed, TypeOK
<1>6. ASSUME NEW r \in Request, GiveUp(r)
      PROVE  TypeOK'
  <2>1. CASE UNCHANGED <<peer, link>>
    BY <1>6, <2>1 DEF GiveUp, Becomes, TypeOK
  <2>2. ASSUME NEW c \in Conn, link[c].asked = r, Worked(link[c].to),
               link' = [link EXCEPT ![c] = Hung(c)]
        PROVE  TypeOK'
    <3>1. Hung(c) \in LinkType /\ (Hung(c).near = "busy" <=> Hung(c).asked # None)
            /\ (Hung(c).far = "handling" => Hung(c).load # None)
      BY HungType
    <3> QED
      BY <1>6, <2>2, <3>1 DEF GiveUp, Becomes, Worked, TypeOK
  <2> QED
    BY <1>6, <2>1, <2>2 DEF GiveUp
<1>7. ASSUME NEW c \in Conn, Serve(c) \/ CloseIdle(c)
      PROVE  TypeOK'
  <2>1. CASE Read(c)
    <3>1. link[c].load \in Request
      BY <2>1, LinkFields DEF Read
    <3> QED
      BY <2>1, <3>1, LinkFields DEF Read, TypeOK, LinkType
  <2>2. CASE Respond(c)
    <3> DEFINE l == IF link[c].near = "busy"
                    THEN [link[c] EXCEPT !.far = "reading", !.load = None, !.reply = link[c].load]
                    ELSE Unused
    <3>1. l \in LinkType /\ (l.near = "busy" <=> l.asked # None) /\ l.far # "handling"
      BY LinkFields DEF LinkType, Unused
    <3>2. link' = [link EXCEPT ![c] = l]
      BY <2>2 DEF Respond
    <3> HIDE DEF l
    <3> QED
      BY <2>2, <3>1, <3>2 DEF Respond, TypeOK
  <2>3. CASE CloseIdle(c)
    <3> DEFINE l == [link[c] EXCEPT !.far = "closed", !.load = None]
    <3>1. l \in LinkType /\ (l.near = "busy" <=> l.asked # None) /\ l.far = "closed"
      BY LinkFields DEF LinkType
    <3>2. link' = [link EXCEPT ![c] = Tidy(l)]
      BY <2>3 DEF CloseIdle
    <3> HIDE DEF l
    <3>3. Tidy(l) \in LinkType /\ (Tidy(l).near = "busy" <=> Tidy(l).asked # None)
            /\ (Tidy(l).far = "handling" => Tidy(l).load # None)
      BY <3>1, TidyType
    <3> QED
      BY <2>3, <3>2, <3>3 DEF CloseIdle, TypeOK
  <2> QED
    BY <1>7, <2>1, <2>2, <2>3 DEF Serve
<1>8. ASSUME NEW c \in Conn, Deliver(c)
      PROVE  TypeOK'
  <2>1. link[c].asked \in Request
    BY <1>8, LinkFields DEF Deliver
  <2>2. CASE link[c].reply = Busy
    <3>1. Unused \in LinkType /\ Unused.near # "busy" /\ Unused.asked = None
            /\ Unused.far # "handling"
      BY DEF Unused, LinkType
    <3>2. /\ link' = [link EXCEPT ![c] = Unused]
          /\ Becomes(link[c].asked, "failed") /\ Worked(link[c].to)
          /\ UNCHANGED <<api, runs, cut>>
      BY <1>8, <2>2 DEF Deliver
    <3> QED
      BY <2>1, <3>1, <3>2 DEF Becomes, Worked, TypeOK
  <2>3. CASE link[c].reply # Busy
    <3>0. link[c] \in LinkType /\ (link[c].far = "handling" => link[c].load # None)
      BY LinkFields
    <3>1. PICK evicted \in {None} \cup Idle :
            link' = [d \in Conn |->
                    CASE d = c -> [link[c] EXCEPT !.near = "idle", !.asked = None, !.reply = None]
                      [] d = evicted -> Hung(d)
                      [] OTHER -> link[d]]
      BY <1>8, <2>3 DEF Deliver
    <3>2. ASSUME NEW d \in Conn
          PROVE  /\ link'[d] \in LinkType
                 /\ link'[d].near = "busy" <=> link'[d].asked # None
                 /\ link'[d].far = "handling" => link'[d].load # None
      <4>1. CASE d = c
        <5> DEFINE l == [link[c] EXCEPT !.near = "idle", !.asked = None, !.reply = None]
        <5>1. l \in LinkType /\ l.near = "idle" /\ l.asked = None
                /\ (l.far = "handling" => l.load # None)
          BY <3>0 DEF LinkType
        <5>2. d # evicted
          BY <1>8, <4>1 DEF Deliver, Idle
        <5>3. link'[d] = l
          BY <3>1, <4>1, <5>2
        <5> HIDE DEF l
        <5> QED
          BY <5>1, <5>3
      <4>2. CASE d # c /\ d = evicted
        BY <3>1, <4>2, HungType
      <4>3. CASE d # c /\ d # evicted
        BY <3>1, <4>3, LinkFields
      <4> QED
        BY <4>1, <4>2, <4>3
    <3>3. link' \in [Conn -> LinkType]
      BY <3>1, <3>2
    <3> QED
      BY <1>8, <2>1, <2>3, <3>2, <3>3 DEF Deliver, Becomes, Worked, TypeOK
  <2> QED
    BY <2>2, <2>3
<1>9. ASSUME NEW c \in Conn, Reset(c) \/ Discard(c)
      PROVE  TypeOK'
  <2>1. Unused \in LinkType /\ Unused.near # "busy" /\ Unused.asked = None /\ Unused.far # "handling"
    BY DEF Unused, LinkType
  <2> QED
    BY <1>9, <2>1 DEF Reset, Discard, Becomes, Failed, TypeOK
<1>10. CASE UNCHANGED vars
  BY <1>10 DEF vars, TypeOK
<1> QED
  BY <1>1, <1>2, <1>3, <1>4, <1>5, <1>6, <1>7, <1>8, <1>9, <1>10
  DEF Next, Route, Return

(* Each variable keeps its type, and each connection its shape. *)
THEOREM TypeCorrect == Spec => []TypeOK
<1>1. Init => TypeOK
  BY DEF Init, TypeOK, LinkType, Unused
<1>2. TypeOK /\ [Next]_vars => TypeOK'
  BY TypePreserved
<1> QED
  BY <1>1, <1>2, PTL DEF Spec

-----------------------------------------------------------------------------
(* What one connection is asked, or carries, no other has to do with. *)
LEMMA Elsewhere ==
  ASSUME IInv, NEW c \in Conn, NEW d \in Conn, c # d, NEW r \in Request,
         link[c].asked = r \/ link[c].load = r
  PROVE  link[d].asked # r /\ link[d].load # r
<1>1. Carries(c) /\ Carries(d) /\ Apart(c, d)
  BY DEF IInv, Accounts
<1> QED
  BY <1>1, Distinct DEF Carries, Apart

LEMMA Nowhere ==
  ASSUME IInv, NEW r \in Request, client[r] = "unsent" \/ ToRoute(r), NEW d \in Conn
  PROVE  link[d].asked # r /\ link[d].load # r
<1>1. Carries(d) /\ Untouched(r)
  BY DEF IInv, Accounts
<1> QED
  BY <1>1, Distinct DEF Carries, Untouched, ToRoute

(* A connection that a step has nothing to do with carries what it carried. *)
SameFor(r) ==
  /\ client'[r] = client[r] /\ runs'[r] = runs[r]
  /\ r \in cut' <=> r \in cut

LEMMA Frame ==
  ASSUME IInv, NEW d \in Conn, link'[d] = link[d],
         \A r \in Request : link[d].asked = r \/ link[d].load = r => SameFor(r)
  PROVE  Carries(d)'
<1>1. Carries(d) /\ TypeOK
  BY DEF IInv, Accounts
<1>2. /\ link[d].asked # None => SameFor(link[d].asked)
      /\ link[d].load # None => SameFor(link[d].load)
  BY <1>1, LinkFields
<1> QED
  BY <1>1, <1>2 DEF Carries, SameFor

(***************************************************************************)
(* Most steps only take away what connections are asked and carry.         *)
(***************************************************************************)
Takes ==
  /\ runs' = runs
  /\ \A d \in Conn : /\ link'[d].asked \in {None, link[d].asked}
                     /\ link'[d].load \in {None, link[d].load}
                     /\ link[d].asked # None /\ link'[d].asked = None
                          => client'[link[d].asked] # "waiting"
  /\ \A r \in Request : /\ client'[r] = "unsent" => client[r] = "unsent"
                        /\ client'[r] = "waiting" => client[r] \in {"unsent", "waiting"}

LEMMA TakingKeepsAccounts ==
  ASSUME IInv, Takes, \A d \in Conn : Carries(d)', \A r \in cut' : runs[r] = 1
  PROVE  Accounts'
<1>1. ASSUME NEW c \in Conn, NEW d \in Conn, c # d
      PROVE  Apart(c, d)'
  <2>1. Apart(c, d)
    BY <1>1 DEF IInv, Accounts
  <2> QED
    BY <2>1 DEF Apart, Takes
<1>2. ASSUME NEW r \in Request, client'[r] = "unsent" \/ ToRoute(r)'
      PROVE  Untouched(r)'
  <2>1. client[r] = "unsent" \/ ToRoute(r)
    <3>1. SUFFICES ASSUME client[r] = "waiting", client'[r] = "waiting",
                          NEW d \in Conn, link[d].asked = r
                   PROVE  link'[d].asked = r
      BY <1>2 DEF ToRoute, Takes
    <3> QED
      BY <3>1, Distinct DEF Takes
  <2>2. Untouched(r)
    BY <2>1 DEF IInv, Accounts
  <2> QED
    BY <2>2, Distinct DEF Untouched, Takes
<1>3. \A r \in Request : runs'[r] \in {0, 1}
  BY DEF IInv, Accounts, Takes
<1>4. \A r \in cut' : runs'[r] = 1
  BY DEF Takes
<1> QED
  BY <1>1, <1>2, <1>3, <1>4 DEF Accounts
-----------------------------------------------------------------------------
(* The shapes of the connections that a step leaves. *)
LEMMA UnusedCarries ==
  ASSUME NEW c \in Conn, link'[c] = Unused
  PROVE  Carries(c)' /\ link'[c].asked = None /\ link'[c].load = None
BY DEF Carries, Unused

LEMMA StopKeepsAccounts ==
  ASSUME IInv, NEW i \in Instance, Stop(i)
  PROVE  Accounts'
<1> USE Distinct
<1>1. TypeOK /\ client' = client /\ runs' = runs
  BY DEF IInv, Stop
<1>2. ASSUME NEW d \in Conn, d \notin Served(i)
      PROVE  link'[d] = link[d] /\ Carries(d)'
  <2>1. link'[d] = link[d]
    BY <1>2 DEF Stop
  <2>2. ASSUME NEW r \in Request, link[d].asked = r \/ link[d].load = r
        PROVE  r \in cut' <=> r \in cut
    <3>1. \A c \in Conn : c \in Served(i) => link[c].load # r
      BY <1>2, <2>2, Elsewhere
    <3> QED
      BY <3>1 DEF Stop, Served
  <2> QED
    BY <1>1, <2>1, <2>2, Frame DEF SameFor
<1>3. ASSUME NEW d \in Conn, d \in Served(i)
      PROVE  /\ link'[d].asked \in {None, link[d].asked} /\ link'[d].load = None
             /\ link'[d].asked = None => link[d].asked = None
             /\ Carries(d)'
  <2> DEFINE l == [link[d] EXCEPT !.far = "closed", !.load = None]
  <2>1. /\ l.near = link[d].near /\ l.far = "closed" /\ l.asked = link[d].asked
        /\ l.load = None /\ l.reply = link[d].reply
    BY <1>1, LinkFields DEF LinkType
  <2>2. link'[d] = Tidy(l)
    BY <1>3 DEF Stop
  <2> HIDE DEF l
  <2>3. Carries(d) /\ (link[d].near = "busy" <=> link[d].asked # None)
    BY <1>1, LinkFields DEF IInv, Accounts
  <2>4. CASE l.near = "closed"
    <3>1. link'[d] = Unused
      BY <2>1, <2>2, <2>4 DEF Tidy
    <3> QED
      BY <2>1, <2>3, <2>4, <3>1, UnusedCarries
  <2>5. CASE l.near # "closed"
    <3>1. link'[d] = l
      BY <2>2, <2>5 DEF Tidy
    <3>2. link[d].far = "handling" => link[d].load \in cut'
      BY <1>3 DEF Stop
    <3>3. cut \subseteq cut'
      BY DEF Stop
    <3>4. ASSUME link[d].asked # None, link[d].load = None, link[d].asked \notin cut
          PROVE  link[d].asked \notin cut'
      <4>1. link[d].asked \in Request
        BY <1>1, <3>4, LinkFields
      <4>2. \A c \in Conn : link[c].load # link[d].asked
        BY <3>4, <4>1, Elsewhere
      <4> QED
        BY <3>4, <4>2 DEF Stop, Served
    <3>5. link[d].far \in {"reading", "handling"}
      BY <1>1, <1>3, LinkFields DEF Served, LinkType
    <3> QED
      BY <1>1, <2>1, <2>3, <3>1, <3>2, <3>3, <3>4, <3>5 DEF Carries
  <2> QED
    BY <2>4, <2>5
<1>4. Takes
  BY <1>1, <1>2, <1>3 DEF Takes
<1>5. \A r \in cut' : runs[r] = 1
  <2>1. ASSUME NEW d \in Conn, link[d].far = "handling"
        PROVE  runs[link[d].load] = 1
    BY <1>1, <2>1, LinkFields DEF IInv, Accounts, Carries
  <2> QED
    BY <2>1 DEF Stop, Served, IInv, Accounts
<1> QED
  BY <1>2, <1>3, <1>4, <1>5, TakingKeepsAccounts

(* The steps of one connection: its new shape, and where its request is. *)
LEMMA OneLinkTaken ==
  ASSUME IInv, NEW c \in Conn, runs' = runs, cut' = cut,
         DOMAIN link' = Conn, \A d \in Conn : d # c => link'[d] = link[d],
         \/ client' = client
         \/ /\ link[c].asked # None
            /\ \E state \in {"answered", "failed", "abandoned"} : Becomes(link[c].asked, state),
         link'[c].asked \in {None, link[c].asked}, link'[c].load \in {None, link[c].load},
         link[c].asked # None /\ link'[c].asked = None => client' # client,
         Carries(c)'
  PROVE  Accounts'
<1>1. TypeOK /\ Carries(c)
  BY DEF IInv, Accounts
<1>2. \A r \in Request : \/ client'[r] = client[r]
                         \/ /\ link[c].asked = r
                            /\ client[r] = "waiting"
                            /\ client'[r] \in {"answered", "failed", "abandoned"}
  BY <1>1 DEF Becomes, Carries, TypeOK
<1>3. link[c].asked # None /\ link'[c].asked = None => client'[link[c].asked] # "waiting"
  BY <1>1, LinkFields DEF Becomes, TypeOK
<1>4. ASSUME NEW d \in Conn, d # c
      PROVE  Carries(d)'
  <2>1. \A r \in Request : link[d].asked = r \/ link[d].load = r => client'[r] = client[r]
    BY <1>2, <1>4, Elsewhere
  <2> QED
    BY <1>4, <2>1, Frame DEF SameFor
<1>5. Takes
  BY <1>2, <1>3 DEF Takes
<1> QED
  BY <1>4, <1>5, TakingKeepsAccounts DEF IInv, Accounts
LEMMA ReadKeepsAccounts ==
  ASSUME IInv, NEW c \in Conn, Read(c)
  PROVE  Accounts'
<1> USE Distinct
<1> DEFINE r == link[c].load
<1>1. TypeOK /\ Carries(c) /\ r \in Request /\ link[c] \in LinkType
  BY LinkFields DEF IInv, Accounts, Read
<1>2. /\ link' = [link EXCEPT ![c].far = "handling"] /\ client' = client /\ cut' = cut
      /\ runs[r] = 0 /\ runs' = [runs EXCEPT ![r] = 1] /\ link[c].far = "reading"
  <2>1. link[c].far = "reading" /\ link[c].load # None /\ runs' = [runs EXCEPT ![r] = @ + 1]
    BY DEF Read
  <2>2. runs[r] = 0
    BY <1>1, <2>1 DEF Carries
  <2>3. runs' = [runs EXCEPT ![r] = 1]
    BY <2>1, <2>2
  <2> QED
    BY <2>1, <2>2, <2>3 DEF Read
<1>3. runs' \in [Request -> Nat] /\ runs'[r] = 1 /\ \A q \in Request : q # r => runs'[q] = runs[q]
  BY <1>1, <1>2 DEF TypeOK
<1>4. /\ link'[c].near = link[c].near /\ link'[c].far = "handling"
      /\ link'[c].asked = link[c].asked /\ link'[c].load = r /\ link'[c].reply = link[c].reply
      /\ \A d \in Conn : d # c => link'[d] = link[d]
  BY <1>1, <1>2 DEF TypeOK, LinkType
<1>5. r \notin cut
  BY <1>2 DEF IInv, Accounts
<1> HIDE DEF r
<1>6. link[c].load = r
  BY DEF r
<1>7. Carries(c)'
  BY <1>1, <1>2, <1>3, <1>4, <1>5, <1>6 DEF Carries
<1>8. ASSUME NEW d \in Conn, d # c
      PROVE  Carries(d)'
  <2>1. link[d].asked # r /\ link[d].load # r
    BY <1>1, <1>6, <1>8, Elsewhere
  <2> QED
    BY <1>2, <1>3, <1>4, <1>8, <2>1, Frame DEF SameFor
<1>9. \A d, e \in Conn : d # e => Apart(d, e)'
  BY <1>4, <1>6 DEF IInv, Accounts, Apart
<1>10. ASSUME NEW q \in Request, client'[q] = "unsent" \/ ToRoute(q)'
       PROVE  Untouched(q)'
  <2>1. client[q] = "unsent" \/ ToRoute(q)
    BY <1>2, <1>4, <1>10 DEF ToRoute
  <2>2. Untouched(q) /\ q # r
    BY <1>6, <2>1, Nowhere DEF IInv, Accounts
  <2> QED
    BY <1>3, <1>4, <1>6, <2>2 DEF Untouched
<1>11. \A q \in Request : runs'[q] \in {0, 1} /\ (q \in cut' => runs'[q] = 1)
  BY <1>2, <1>3, <1>5 DEF IInv, Accounts
<1>12. cut' \subseteq Request
  BY <1>1, <1>2 DEF TypeOK
<1> QED
  BY <1>7, <1>8, <1>9, <1>10, <1>11, <1>12 DEF Accounts

LEMMA RespondKeepsAccounts ==
  ASSUME IInv, NEW c \in Conn, Respond(c)
  PROVE  Accounts'
<1> USE Distinct
<1>1. /\ TypeOK /\ Carries(c) /\ link[c] \in LinkType /\ link[c].load \in Request
      /\ link[c].near = "busy" <=> link[c].asked # None
      /\ client' = client /\ runs' = runs /\ cut' = cut /\ link[c].far = "handling"
  BY LinkFields DEF IInv, Accounts, Respond
<1>2. DOMAIN link' = Conn /\ \A d \in Conn : d # c => link'[d] = link[d]
  BY <1>1 DEF Respond, TypeOK
<1>3. CASE link[c].near = "busy"
  <2> DEFINE l == [link[c] EXCEPT !.far = "reading", !.load = None, !.reply = link[c].load]
  <2>1. /\ l.near = "busy" /\ l.far = "reading" /\ l.asked = link[c].asked
        /\ l.load = None /\ l.reply = link[c].load
    BY <1>1, <1>3 DEF LinkType
  <2>2. link'[c] = l
    BY <1>1, <1>3 DEF Respond, TypeOK
  <2> HIDE DEF l
  <2>3. link[c].load = link[c].asked /\ runs[link[c].asked] = 1 /\ link[c].asked \notin cut
    BY <1>1, <1>3 DEF Carries
  <2>4. Carries(c)'
    BY <1>1, <2>1, <2>2, <2>3 DEF Carries
  <2> QED
    BY <1>1, <1>2, <1>3, <2>1, <2>2, <2>4, OneLinkTaken
<1>4. CASE link[c].near # "busy"
  <2>1. link'[c] = Unused
    BY <1>1, <1>4 DEF Respond, TypeOK
  <2> QED
    BY <1>1, <1>2, <1>4, <2>1, UnusedCarries, OneLinkTaken
<1> QED
  BY <1>3, <1>4

LEMMA CloseIdleKeepsAccounts ==
  ASSUME IInv, NEW c \in Conn, CloseIdle(c)
  PROVE  Accounts'
<1> USE Distinct
<1> DEFINE l == [link[c] EXCEPT !.far = "closed", !.load = None]
<1>1. /\ TypeOK /\ Carries(c) /\ link[c] \in LinkType
      /\ link[c].near = "busy" <=> link[c].asked # None
      /\ client' = client /\ runs' = runs /\ cut' = cut /\ link[c].far = "reading"
  BY LinkFields DEF IInv, Accounts, CloseIdle
<1>2. /\ l.near = link[c].near /\ l.far = "closed" /\ l.asked = link[c].asked
      /\ l.load = None /\ l.reply = link[c].reply
  BY <1>1 DEF LinkType
<1>3. /\ DOMAIN link' = Conn /\ link'[c] = Tidy(l)
      /\ \A d \in Conn : d # c => link'[d] = link[d]
  BY <1>1 DEF CloseIdle, TypeOK
<1> HIDE DEF l
<1>4. CASE l.near = "closed"
  <2>1. link'[c] = Unused
    BY <1>2, <1>3, <1>4 DEF Tidy
  <2> QED
    BY <1>1, <1>2, <1>3, <1>4, <2>1, UnusedCarries, OneLinkTaken
<1>5. CASE l.near # "closed"
  <2>1. link'[c] = l
    BY <1>3, <1>5 DEF Tidy
  <2>2. Carries(c)'
    BY <1>1, <1>2, <2>1 DEF Carries
  <2> QED
    BY <1>1, <1>2, <1>3, <2>1, <2>2, OneLinkTaken
<1> QED
  BY <1>4, <1>5

LEMMA ResetKeepsAccounts ==
  ASSUME IInv, NEW c \in Conn, Reset(c) \/ Discard(c)
  PROVE  Accounts'
<1> USE Distinct
<1>1. /\ TypeOK /\ (link[c].near = "busy" <=> link[c].asked # None)
      /\ link[c].asked # None => link[c].asked \in Request /\ client[link[c].asked] = "waiting"
  BY LinkFields DEF IInv, Accounts, Carries
<1>2. /\ link' = [link EXCEPT ![c] = Unused] /\ runs' = runs /\ cut' = cut
      /\ link[c].asked # None => Becomes(link[c].asked, "failed")
      /\ link[c].asked = None => client' = client
  BY <1>1 DEF Reset, Discard
<1>3. link[c].asked # None => client' # client
  BY <1>1, <1>2 DEF Becomes, TypeOK
<1>4. /\ DOMAIN link' = Conn /\ link'[c] = Unused
      /\ \A d \in Conn : d # c => link'[d] = link[d]
  BY <1>1, <1>2 DEF TypeOK
<1> QED
  BY <1>2, <1>3, <1>4, UnusedCarries, OneLinkTaken
LEMMA HungCarries ==
  ASSUME IInv, NEW d \in Conn, link'[d] = Hung(d), runs' = runs, cut' = cut,
         link[d].load # None =>
           client'[link[d].load] = "abandoned" \/ client'[link[d].load] = client[link[d].load],
         link[d].asked # None => client'[link[d].asked] = "abandoned"
  PROVE  Carries(d)' /\ link'[d].asked = None /\ link'[d].load \in {None, link[d].load}
<1> USE Distinct
<1> DEFINE l == [link[d] EXCEPT !.near = "closed", !.asked = None, !.reply = None]
<1>1. Carries(d) /\ link[d] \in LinkType
  BY LinkFields DEF IInv, Accounts
<1>2. /\ l.near = "closed" /\ l.far = link[d].far /\ l.asked = None
      /\ l.load = link[d].load /\ l.reply = None
  BY <1>1 DEF LinkType
<1>3. link'[d] = Tidy(l)
  BY DEF Hung
<1> HIDE DEF l
<1>4. CASE l.far = "closed"
  <2>1. link'[d] = Unused
    BY <1>2, <1>3, <1>4 DEF Tidy
  <2> QED
    BY <2>1, UnusedCarries
<1>5. CASE l.far # "closed"
  <2>1. link'[d] = l
    BY <1>3, <1>5 DEF Tidy
  <2> QED
    BY <1>1, <1>2, <1>5, <2>1 DEF Carries
<1> QED
  BY <1>4, <1>5

LEMMA DeliverKeepsAccounts ==
  ASSUME IInv, NEW c \in Conn, Deliver(c)
  PROVE  Accounts'
<1> USE Distinct
<1>1. /\ TypeOK /\ Carries(c) /\ link[c] \in LinkType /\ link[c].near = "busy"
      /\ link[c].asked # None /\ link[c].asked \in Request /\ link[c].reply # None
      /\ client[link[c].asked] = "waiting" /\ link[c].load = None
      /\ runs' = runs /\ cut' = cut
  BY LinkFields DEF IInv, Accounts, Deliver, Carries
<1>2. CASE link[c].reply = Busy
  <2>1. link' = [link EXCEPT ![c] = Unused] /\ Becomes(link[c].asked, "failed")
    BY <1>2 DEF Deliver
  <2>2. client' # client
    BY <1>1, <2>1 DEF Becomes, TypeOK
  <2>3. /\ DOMAIN link' = Conn /\ link'[c] = Unused
        /\ \A d \in Conn : d # c => link'[d] = link[d]
    BY <1>1, <2>1 DEF TypeOK
  <2> QED
    BY <1>1, <2>1, <2>2, <2>3, UnusedCarries, OneLinkTaken
<1>3. CASE link[c].reply # Busy
  <2>1. Becomes(link[c].asked, "answered")
    BY <1>3 DEF Deliver
  <2>2. /\ client'[link[c].asked] = "answered"
        /\ \A r \in Request : r # link[c].asked => client'[r] = client[r]
    BY <1>1, <2>1 DEF Becomes, TypeOK
  <2>3. PICK evicted \in {None} \cup Idle :
          link' = [d \in Conn |->
                    CASE d = c -> [link[c] EXCEPT !.near = "idle", !.asked = None, !.reply = None]
                      [] d = evicted -> Hung(d)
                      [] OTHER -> link[d]]
    BY <1>3 DEF Deliver
  <2>4. evicted # c
    BY <1>1 DEF Idle
  <2> DEFINE l == [link[c] EXCEPT !.near = "idle", !.asked = None, !.reply = None]
  <2>5. /\ l.near = "idle" /\ l.far = link[c].far /\ l.asked = None
        /\ l.load = None /\ l.reply = None
    BY <1>1 DEF LinkType
  <2>6. link'[c] = l
    BY <2>3, <2>4
  <2> HIDE DEF l
  <2>7. Carries(c)'
    BY <2>5, <2>6 DEF Carries
  <2>8. ASSUME NEW d \in Conn, d # c, d = evicted
        PROVE  /\ Carries(d)' /\ link'[d].asked = None /\ link'[d].load \in {None, link[d].load}
               /\ link[d].asked = None
    <3>1. link'[d] = Hung(d)
      BY <2>3, <2>4, <2>8
    <3>2. link[d].near = "idle"
      BY <2>8 DEF Idle
    <3>3. link[d].asked = None /\ link[d].load = None
      BY <1>1, <3>2, LinkFields DEF IInv, Accounts, Carries
    <3> QED
      BY <1>1, <3>1, <3>3, HungCarries
  <2>9. ASSUME NEW d \in Conn, d # c, d # evicted
        PROVE  link'[d] = link[d] /\ Carries(d)'
    <3>1. link'[d] = link[d]
      BY <2>3, <2>9
    <3>2. link[d].asked # link[c].asked /\ link[d].load # link[c].asked
      BY <1>1, <2>9, Elsewhere
    <3> QED
      BY <1>1, <2>2, <3>1, <3>2, Frame DEF SameFor
  <2>10. Takes
    <3>1. \A d \in Conn : /\ link'[d].asked \in {None, link[d].asked}
                          /\ link'[d].load \in {None, link[d].load}
                          /\ d # c => link'[d].asked = link[d].asked
      BY <2>5, <2>6, <2>8, <2>9
    <3>2. \A r \in Request : client'[r] = client[r] \/ client'[r] = "answered"
      BY <2>2
    <3> QED
      BY <1>1, <2>2, <3>1, <3>2 DEF Takes
  <2> QED
    BY <1>1, <2>7, <2>8, <2>9, <2>10, TakingKeepsAccounts DEF IInv, Accounts
<1> QED
  BY <1>2, <1>3

LEMMA GiveUpKeepsAccounts ==
  ASSUME IInv, NEW r \in Request, GiveUp(r)
  PROVE  Accounts'
<1> USE Distinct
<1>1. /\ TypeOK /\ client[r] = "waiting" /\ runs' = runs /\ cut' = cut
      /\ Becomes(r, "abandoned")
  BY DEF IInv, GiveUp
<1>2. client'[r] = "abandoned" /\ \A q \in Request : q # r => client'[q] = client[q]
  BY <1>1 DEF Becomes, TypeOK
<1>3. CASE ToRoute(r) /\ link' = link
  <2>1. ASSUME NEW d \in Conn
        PROVE  Carries(d)'
    <3>1. link[d].asked # r /\ link[d].load # r
      BY <1>3, Nowhere
    <3> QED
      BY <1>1, <1>2, <1>3, <3>1, Frame DEF SameFor
  <2>2. Takes
    BY <1>1, <1>2, <1>3 DEF Takes
  <2> QED
    BY <1>1, <2>1, <2>2, TakingKeepsAccounts DEF IInv, Accounts
<1>4. ASSUME NEW c \in Conn, link[c].asked = r, link' = [link EXCEPT ![c] = Hung(c)]
      PROVE  Accounts'
  <2>1. /\ DOMAIN link' = Conn /\ link'[c] = Hung(c)
        /\ \A d \in Conn : d # c => link'[d] = link[d]
    BY <1>1, <1>4 DEF TypeOK
  <2>2. link[c].load # None => link[c].load \in Request
    BY <1>1, LinkFields
  <2>3. Carries(c)' /\ link'[c].asked = None /\ link'[c].load \in {None, link[c].load}
    BY <1>1, <1>2, <1>4, <2>1, <2>2, HungCarries
  <2>4. client' # client
    BY <1>1, <1>2
  <2> QED
    BY <1>1, <1>4, <2>1, <2>3, <2>4, OneLinkTaken
<1> QED
  BY <1>3, <1>4 DEF GiveUp
(* A request that is to be routed is given to a connection nobody uses. *)
LEMMA RoutingKeepsAccounts ==
  ASSUME IInv, NEW r \in Request, ToRoute(r), NEW c \in Conn, link[c].asked = None,
         client' = client, runs' = runs, cut' = cut,
         DOMAIN link' = Conn, \A d \in Conn : d # c => link'[d] = link[d],
         link'[c].asked = r, link'[c].load \in {None, r}, Carries(c)'
  PROVE  Accounts'
<1> USE Distinct
<1>1. ASSUME NEW d \in Conn, d # c
      PROVE  Carries(d)'
    BY <1>1, Frame DEF SameFor
<1>2. \A d \in Conn : link[d].asked # r /\ link[d].load # r
  BY Nowhere
<1>3. ASSUME NEW d \in Conn, NEW e \in Conn, d # e
      PROVE  Apart(d, e)'
  BY <1>2, <1>3 DEF IInv, Accounts, Apart
<1>4. ASSUME NEW q \in Request, client'[q] = "unsent" \/ ToRoute(q)'
      PROVE  Untouched(q)'
  <2>1. q # r
    BY <1>4 DEF ToRoute
  <2>2. client[q] = "unsent" \/ ToRoute(q)
    BY <1>4 DEF ToRoute
  <2>3. Untouched(q)
    BY <2>2 DEF IInv, Accounts
  <2> QED
    BY <2>1, <2>3 DEF Untouched
<1> QED
  BY <1>1, <1>3, <1>4 DEF IInv, Accounts

LEMMA ReuseKeepsAccounts ==
  ASSUME IInv, NEW r \in Request, NEW i \in Instance, Reuse(r, i)
  PROVE  Accounts'
<1> USE Distinct
<1>1. PICK c \in IdleTo(i) : link' = [link EXCEPT ![c] =
         [@ EXCEPT !.near = "busy", !.asked = r,
                   !.load = IF link[c].far = "closed" THEN None ELSE r]]
  BY DEF Reuse
<1>2. c \in Conn /\ link[c].near = "idle"
  BY DEF IdleTo
<1>3. /\ TypeOK /\ link[c] \in LinkType /\ Carries(c) /\ ToRoute(r) /\ client[r] = "waiting"
      /\ link[c].asked = None /\ (link[c].far = "handling" => link[c].load # None)
      /\ client' = client /\ runs' = runs /\ cut' = cut
  BY <1>2, LinkFields DEF IInv, Accounts, Reuse, ToRoute
<1>4. runs[r] = 0
  BY <1>3 DEF IInv, Accounts, Untouched
<1> DEFINE l == [link[c] EXCEPT !.near = "busy", !.asked = r,
                   !.load = IF link[c].far = "closed" THEN None ELSE r]
<1>5. /\ l.near = "busy" /\ l.far = link[c].far /\ l.asked = r /\ l.reply = link[c].reply
      /\ l.load = IF link[c].far = "closed" THEN None ELSE r
  BY <1>3 DEF LinkType
<1>6. DOMAIN link' = Conn /\ link'[c] = l /\ \A d \in Conn : d # c => link'[d] = link[d]
  BY <1>1, <1>2, <1>3 DEF TypeOK
<1> HIDE DEF l
<1>7. link[c].load = None /\ link[c].reply = None /\ link[c].far # "handling"
  BY <1>2, <1>3 DEF Carries
<1>8. Carries(c)'
  BY <1>3, <1>4, <1>5, <1>6, <1>7 DEF Carries
<1> QED
  BY <1>2, <1>3, <1>5, <1>6, <1>8, RoutingKeepsAccounts

LEMMA ConnectKeepsAccounts ==
  ASSUME IInv, NEW r \in Request, NEW i \in Instance, Connect(r, i)
  PROVE  Accounts'
<1> USE Distinct
<1>1. PICK c \in Fresh :
         IF Cardinality(Served(i)) < Concurrency
         THEN link' = [link EXCEPT ![c] = [Asking(r, i) EXCEPT !.far = "reading", !.load = r]]
         ELSE \E answer \in {Busy, None} :
                link' = [link EXCEPT ![c] = [Asking(r, i) EXCEPT !.reply = answer]]
  BY DEF Connect
<1>2. c \in Conn /\ link[c].asked = None
  BY DEF Fresh, Unused
<1>3. /\ TypeOK /\ ToRoute(r) /\ client[r] = "waiting"
      /\ client' = client /\ runs' = runs /\ cut' = cut
  BY DEF IInv, Connect, ToRoute
<1>4. runs[r] = 0
  BY <1>3 DEF IInv, Accounts, Untouched
<1>5. CASE Cardinality(Served(i)) < Concurrency
  <2> DEFINE l == [Asking(r, i) EXCEPT !.far = "reading", !.load = r]
  <2>1. /\ l.near = "busy" /\ l.far = "reading" /\ l.asked = r /\ l.load = r /\ l.reply = None
    BY DEF Asking, Unused
  <2>2. link' = [link EXCEPT ![c] = l]
    BY <1>1, <1>5
  <2> HIDE DEF l
  <2>3. DOMAIN link' = Conn /\ link'[c] = l /\ \A d \in Conn : d # c => link'[d] = link[d]
    BY <1>2, <1>3, <2>2 DEF TypeOK
  <2>4. Carries(c)'
    BY <1>3, <1>4, <2>1, <2>3 DEF Carries
  <2> QED
    BY <1>2, <1>3, <2>1, <2>3, <2>4, RoutingKeepsAccounts
<1>6. CASE ~ (Cardinality(Served(i)) < Concurrency)
  <2>1. PICK answer \in {Busy, None} :
          link' = [link EXCEPT ![c] = [Asking(r, i) EXCEPT !.reply = answer]]
    BY <1>1, <1>6
  <2> DEFINE l == [Asking(r, i) EXCEPT !.reply = answer]
  <2>2. /\ l.near = "busy" /\ l.far = "closed" /\ l.asked = r /\ l.load = None
        /\ l.reply = answer
    BY DEF Asking, Unused
  <2>3. link' = [link EXCEPT ![c] = l]
    BY <2>1
  <2> HIDE DEF l
  <2>4. DOMAIN link' = Conn /\ link'[c] = l /\ \A d \in Conn : d # c => link'[d] = link[d]
    BY <1>2, <1>3, <2>3 DEF TypeOK
  <2>5. Carries(c)'
    BY <1>3, <1>4, <2>2, <2>4 DEF Carries
  <2> QED
    BY <1>2, <1>3, <2>2, <2>4, <2>5, RoutingKeepsAccounts
<1> QED
  BY <1>5, <1>6

(* The steps that only a client or nginx's view of an instance takes part in. *)
LEMMA OthersKeepAccounts ==
  ASSUME IInv, link' = link, runs' = runs, cut' = cut,
         \/ client' = client
         \/ \E r \in Request : \/ client[r] = "unsent" /\ Becomes(r, "waiting")
                               \/ ToRoute(r) /\ Becomes(r, "failed")
  PROVE  Accounts'
<1>1. TypeOK
  BY DEF IInv
<1>2. \A q \in Request :
        \/ client'[q] = client[q]
        \/ client[q] = "unsent" /\ client'[q] = "waiting"
        \/ ToRoute(q) /\ client'[q] = "failed"
  BY <1>1 DEF Becomes, TypeOK
<1>3. ASSUME NEW d \in Conn
      PROVE  Carries(d)'
  <2>1. \A q \in Request : link[d].asked = q \/ link[d].load = q => client'[q] = client[q]
    BY <1>2, Nowhere
  <2> QED
    BY <2>1, Frame DEF SameFor
<1>4. Takes
  BY <1>2, Distinct DEF Takes, ToRoute
<1> QED
  BY <1>3, <1>4, TakingKeepsAccounts DEF IInv, Accounts

-----------------------------------------------------------------------------
LEMMA AccountsPreserved ==
  ASSUME IInv, [Next]_vars
  PROVE  Accounts'
<1>1. ASSUME NEW i \in Instance, Process(i)
      PROVE  Accounts'
  BY <1>1, StopKeepsAccounts, OthersKeepAccounts DEF Process, Listen, FailTimeout
<1>2. ASSUME NEW r \in Request, Send(r) \/ NoLiveUpstream(r)
      PROVE  Accounts'
  BY <1>2, OthersKeepAccounts DEF Send, NoLiveUpstream
<1>3. ASSUME NEW r \in Request, NEW i \in Instance, Reuse(r, i) \/ Connect(r, i)
      PROVE  Accounts'
  BY <1>3, ReuseKeepsAccounts, ConnectKeepsAccounts
<1>4. ASSUME NEW r \in Request, NEW i \in Instance, Refused(r, i)
      PROVE  Accounts'
  BY <1>4, OthersKeepAccounts DEF Refused
<1>5. ASSUME NEW r \in Request, GiveUp(r)
      PROVE  Accounts'
  BY <1>5, GiveUpKeepsAccounts
<1>6. ASSUME NEW c \in Conn, Serve(c) \/ CloseIdle(c)
      PROVE  Accounts'
  BY <1>6, ReadKeepsAccounts, RespondKeepsAccounts, CloseIdleKeepsAccounts DEF Serve
<1>7. ASSUME NEW c \in Conn, Return(c) \/ Discard(c)
      PROVE  Accounts'
  BY <1>7, DeliverKeepsAccounts, ResetKeepsAccounts DEF Return
<1>8. CASE UNCHANGED vars
  BY <1>8, OthersKeepAccounts DEF vars
<1> QED
  BY <1>1, <1>2, <1>3, <1>4, <1>5, <1>6, <1>7, <1>8 DEF Next, Route

LEMMA Invariance == Spec => []IInv
<1>1. Init => IInv
  <2>1. Init => TypeOK
    BY DEF Init, TypeOK, LinkType, Unused
  <2>2. Init => Accounts
    BY Distinct DEF Init, Accounts, Carries, Apart, Untouched, Unused
  <2> QED
    BY <2>1, <2>2 DEF IInv
<1>2. IInv /\ [Next]_vars => IInv'
  BY TypePreserved, AccountsPreserved DEF IInv
<1> QED
  BY <1>1, <1>2, PTL DEF Spec

(* No request is run twice, whatever connections are reset under it. *)
THEOREM RunAtMostOnce == Spec => []AtMostOnce
<1>1. IInv => AtMostOnce
  BY DEF IInv, Accounts, AtMostOnce
<1> QED
  BY <1>1, Invariance, PTL
-----------------------------------------------------------------------------
(***************************************************************************)
(* Every step of the deployment is a step of Delivery or changes nothing   *)
(* that Delivery speaks of: an answer is that of the client's own run, and *)
(* whoever is told of a failure was not served, or lost the run with its   *)
(* process.                                                                *)
(***************************************************************************)
LEMMA StepIsPromised ==
  ASSUME IInv, [Next]_vars
  PROVE  [Promise!Next]_<<client, runs, cut>>
<1> USE Distinct
<1>1. TypeOK
  BY DEF IInv
<1>2. ASSUME NEW i \in Instance, Process(i)
      PROVE  Promise!Lose \/ UNCHANGED <<client, runs, cut>>
  <2>1. CASE Stop(i)
    <3>1. ASSUME NEW d \in Conn, link[d].far = "handling"
          PROVE  link[d].load \in Request /\ runs[link[d].load] = 1
      BY <1>1, <3>1, LinkFields DEF IInv, Accounts, Carries
    <3>2. \A r \in cut : r \in Request /\ runs[r] = 1
      BY <1>1 DEF TypeOK, IInv, Accounts
    <3>3. cut' = cut \cup {link[c].load : c \in {d \in Served(i) : link[d].far = "handling"}}
      BY <2>1 DEF Stop
    <3>4. \A r \in cut' : r \in Request /\ runs[r] = 1
      BY <3>1, <3>2, <3>3 DEF Served
    <3>5. UNCHANGED <<client, runs>> /\ cut \subseteq cut'
      BY <2>1, <3>3 DEF Stop
    <3> QED
      BY <3>4, <3>5 DEF Promise!Lose
  <2> QED
    BY <1>2, <2>1 DEF Process, Listen, FailTimeout
<1>3. ASSUME NEW r \in Request, Send(r) \/ Route(r) \/ GiveUp(r)
      PROVE  \/ Promise!Send(r) \/ Promise!Fail(r) \/ Promise!GiveUp(r)
             \/ UNCHANGED <<client, runs, cut>>
  <2>1. CASE Send(r)
    BY <2>1 DEF Send, Becomes, Promise!Send, Promise!Becomes
  <2>2. CASE GiveUp(r)
    BY <2>2 DEF GiveUp, Becomes, Promise!GiveUp, Promise!Becomes
  <2>3. ASSUME ToRoute(r), Becomes(r, "failed"), runs' = runs, cut' = cut
        PROVE  Promise!Fail(r)
    <3>1. runs[r] = 0 /\ client[r] = "waiting"
      BY <2>3 DEF IInv, Accounts, Untouched, ToRoute
    <3> QED
      BY <2>3, <3>1 DEF Becomes, Promise!Fail, Promise!Becomes
  <2>4. CASE Route(r)
    BY <2>3, <2>4 DEF Route, NoLiveUpstream, Refused, Reuse, Connect
  <2> QED
    BY <1>3, <2>1, <2>2, <2>4
<1>4. ASSUME NEW c \in Conn, Read(c)
      PROVE  \E r \in Request : Promise!Run(r)
  <2> DEFINE r == link[c].load
  <2>1. Carries(c) /\ r \in Request /\ r # None /\ link[c].far = "reading"
    BY <1>1, <1>4, LinkFields DEF IInv, Accounts, Read
  <2>2. runs[r] = 0
    BY <2>1 DEF Carries
  <2>3. client[r] \in {"waiting", "abandoned"}
    BY <2>1 DEF Carries
  <2>4. runs' = [runs EXCEPT ![r] = @ + 1] /\ client' = client /\ cut' = cut
    BY <1>4 DEF Read
  <2>5. runs' = [runs EXCEPT ![r] = 1]
    BY <2>2, <2>4
  <2>6. Promise!Run(r)
    BY <2>2, <2>3, <2>4, <2>5 DEF Promise!Run
  <2> QED
    BY <2>1, <2>6
<1>5. ASSUME NEW c \in Conn, Return(c)
      PROVE  \E r \in Request : Promise!Answer(r) \/ Promise!Fail(r)
  <2> DEFINE r == link[c].asked
  <2>1. Carries(c) /\ r \in Request /\ r # None /\ client[r] = "waiting"
    BY <1>1, <1>5, LinkFields DEF IInv, Accounts, Return, Deliver, Reset, Carries
  <2>2. CASE Deliver(c) /\ link[c].reply = Busy
    <3>1. runs[r] = 0
      BY <2>1, <2>2 DEF Carries
    <3>2. Becomes(r, "failed") /\ runs' = runs /\ cut' = cut
      BY <2>2 DEF Deliver
    <3>3. Promise!Fail(r)
      BY <2>1, <3>1, <3>2 DEF Becomes, Promise!Fail, Promise!Becomes
    <3> QED
      BY <2>1, <3>3
  <2>3. CASE Deliver(c) /\ link[c].reply # Busy
    <3>1. link[c].reply # None
      BY <2>3 DEF Deliver
    <3>2. runs[r] = 1 /\ r \notin cut
      BY <2>1, <2>3, <3>1 DEF Carries
    <3>3. Becomes(r, "answered") /\ runs' = runs /\ cut' = cut
      BY <2>3 DEF Deliver
    <3>4. Promise!Answer(r)
      BY <2>1, <3>2, <3>3 DEF Becomes, Promise!Answer, Promise!Becomes
    <3> QED
      BY <2>1, <3>4
  <2>4. CASE Reset(c)
    <3>1. link[c].far = "closed" /\ link[c].reply = None /\ link[c].load = None
      BY <2>1, <2>4 DEF Reset, Carries
    <3>2. runs[r] = 0 \/ r \in cut
      BY <2>1, <3>1 DEF Carries
    <3>3. Becomes(r, "failed") /\ runs' = runs /\ cut' = cut
      BY <2>4 DEF Reset
    <3>4. Promise!Fail(r)
      BY <2>1, <3>2, <3>3 DEF Becomes, Promise!Fail, Promise!Becomes
    <3> QED
      BY <2>1, <3>4
  <2> QED
    BY <1>5, <2>2, <2>3, <2>4 DEF Return
<1>6. ASSUME NEW c \in Conn, Respond(c) \/ CloseIdle(c) \/ Discard(c)
      PROVE  UNCHANGED <<client, runs, cut>>
  BY <1>6 DEF Respond, CloseIdle, Discard
<1>7. CASE UNCHANGED vars
  BY <1>7 DEF vars
<1>8. CASE \E i \in Instance : Process(i)
  BY <1>2, <1>8 DEF Promise!Next
<1>9. CASE \E r \in Request : Send(r) \/ Route(r) \/ GiveUp(r)
  BY <1>3, <1>9 DEF Promise!Next
<1>10. CASE \E c \in Conn : Serve(c) \/ CloseIdle(c) \/ Return(c) \/ Discard(c)
  BY <1>4, <1>5, <1>6, <1>10 DEF Serve, Promise!Next
<1> QED
  BY <1>7, <1>8, <1>9, <1>10 DEF Next

(***************************************************************************)
(* The deployment implements Delivery, its liveness left to the run: the   *)
(* steps of nginx, the connections and the instances add up to those that  *)
(* Delivery allows, for any number of them.                                *)
(***************************************************************************)
THEOREM DeploymentKeepsPromises == Spec => Promise!Safety
<1>1. Init => Promise!Init
  BY DEF Init, Promise!Init
<1>2. IInv /\ [Next]_vars => [Promise!Next]_<<client, runs, cut>>
  BY StepIsPromised
<1> QED
  BY <1>1, <1>2, Invariance, PTL DEF Spec, Promise!Safety, Promise!vars
=============================================================================
