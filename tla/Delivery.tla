------------------------------ MODULE Delivery ------------------------------
(***************************************************************************)
(* What the deployed service promises about a request, nginx included: its *)
(* handler runs at most once; an answer is the answer of that run; a       *)
(* request that fails was not run, or its run was lost with a process that *)
(* ended; and a client that waits is answered or told of the failure.      *)
(***************************************************************************)
EXTENDS Integers

CONSTANT Request

VARIABLES
  client,  \* for each request, where its client stands
  runs,    \* for each request, how often a handler has run for it
  cut      \* the requests whose run was lost with its process

vars == <<client, runs, cut>>

Init ==
  /\ client = [r \in Request |-> "unsent"]
  /\ runs = [r \in Request |-> 0]
  /\ cut = {}

Becomes(r, from, to) == client[r] = from /\ client' = [client EXCEPT ![r] = to]

Send(r) == Becomes(r, "unsent", "waiting") /\ UNCHANGED <<runs, cut>>

(* A handler may run for a client that is no longer there. *)
Run(r) ==
  /\ client[r] \in {"waiting", "abandoned"} /\ runs[r] = 0
  /\ runs' = [runs EXCEPT ![r] = 1]
  /\ UNCHANGED <<client, cut>>

(* A process ends, and with it the runs it had not answered. *)
Lose ==
  /\ cut' # cut /\ cut \subseteq cut'
  /\ cut' \in SUBSET {r \in Request : runs[r] = 1}
  /\ UNCHANGED <<client, runs>>

Answer(r) ==
  /\ runs[r] = 1 /\ r \notin cut
  /\ Becomes(r, "waiting", "answered") /\ UNCHANGED <<runs, cut>>

Fail(r) ==
  /\ runs[r] = 0 \/ r \in cut
  /\ Becomes(r, "waiting", "failed") /\ UNCHANGED <<runs, cut>>

GiveUp(r) == Becomes(r, "waiting", "abandoned") /\ UNCHANGED <<runs, cut>>

Next == Lose \/ \E r \in Request : Send(r) \/ Run(r) \/ Answer(r) \/ Fail(r) \/ GiveUp(r)

Safety == Init /\ [][Next]_vars
Spec == Safety /\ \A r \in Request : WF_vars(Answer(r) \/ Fail(r))
=============================================================================
