--------------------------- MODULE MCFraudHandler ---------------------------
(* Requests and answers for checking FraudHandler. *)
EXTENDS FraudHandler

Req(route, known, merchant, last, bad) ==
  [route |-> route, known |-> known, merchant |-> merchant, last |-> last, bad |-> bad]

(***************************************************************************)
(* Two good requests with every part different, one cut short after its    *)
(* strings, and one that needs no workBuf.                                 *)
(***************************************************************************)
Requests ==
  {Req("score", {"m1"}, "m1", 1, "nowhere"), Req("score", {"m1"}, "m2", None, "nowhere"),
   Req("score", {}, "m1", 1, "last"),
   Req("ready", {}, "m1", None, "nowhere")}

(* A single good request. *)
OneRequest == {Req("score", {"m1"}, "m1", 1, "nowhere")}

(* The nodes nearest to each vector: no two have the same number of frauds. *)
Nearest ==
  [v \in Vector |-> [k \in Picks |->
     CASE v = <<FALSE, 1>> -> 0 [] v = <<TRUE, -1>> -> 2
       [] OTHER -> IF k = 1 THEN 1 ELSE 2]]
Frauds2 == {0, 1}
=============================================================================
