---------------------------- MODULE ScoreService ----------------------------
(***************************************************************************)
(* What the HTTP service promises a client: every request on a connection  *)
(* gets one answer, and the answer depends on that request alone, whatever *)
(* other requests are being served at the same time.                       *)
(***************************************************************************)
CONSTANTS
  Conn,         \* connections
  Request,      \* what a client can send
  AnswerTo(_),  \* the answer to a request
  None          \* no request, or no answer, yet

VARIABLES asked, answer
vars == <<asked, answer>>

Init == asked = [c \in Conn |-> None] /\ answer = [c \in Conn |-> None]

Ask(c) ==
  /\ asked[c] = None
  /\ \E r \in Request : asked' = [asked EXCEPT ![c] = r]
  /\ answer' = [answer EXCEPT ![c] = None]

Respond(c) ==
  /\ asked[c] # None
  /\ answer' = [answer EXCEPT ![c] = AnswerTo(asked[c])]
  /\ asked' = [asked EXCEPT ![c] = None]

Next == \E c \in Conn : Ask(c) \/ Respond(c)

Spec == Init /\ [][Next]_vars /\ \A c \in Conn : WF_vars(Respond(c))
=============================================================================
