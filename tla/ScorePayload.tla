---------------------------- MODULE ScorePayload ----------------------------
(***************************************************************************)
(* What handleScore makes of a body before it searches: the parser reads   *)
(* it, Vectorize and QuantizeQuery turn the request into a query.  The     *)
(* bodies are what a client writes for a request (docs/API.md), and those  *)
(* writings with one token lost or exchanged, cut short, or followed by    *)
(* more.                                                                   *)
(***************************************************************************)
EXTENDS StrictParser, FraudVector

CONSTANTS
  Requests,   \* requests, their numbers and strings as tokens
  Misprints,  \* tokens that may stand where another belongs
  None

Request ==
  [id : Texts, amount : Floats, installments : Int, requested_at : Times,
   avg_amount : Floats, tx_count_24h : Int, known_merchants : Seq(Texts),
   merchant_id : Texts, mcc : Texts, merchant_avg : Floats, is_online : BOOLEAN,
   card_present : BOOLEAN, km_from_home : Floats,
   has_last : BOOLEAN, timestamp : Times, km_from_current : Floats]

(* docs/API.md: the counts are not negative, and a transaction that is the *)
(* first has no last one.                                                  *)
ASSUME RequestAssumption ==
  /\ \A r \in Requests :
       /\ r \in Request /\ r.installments >= 0 /\ r.tx_count_24h >= 0
       /\ InRange(r.requested_at) /\ InRange(r.timestamp)
       /\ ~ r.has_last => r.timestamp = NoTime /\ r.km_from_current = <<"number", 0>>
  /\ Misprints \subseteq Tokens

VARIABLES
  stage,  \* how far the handler is
  body,   \* the tokens of the body
  edited, \* whether they are other than what a client writes
  asked,  \* the request the body was written for
  req,    \* what the parser has read of it
  vec,    \* its vector
  qvec    \* its query
vars == <<stage, body, edited, asked, req, vec, qvec>>

-----------------------------------------------------------------------------
(***************************************************************************)
(* A request as docs/API.md writes it, member by member.  trailing is the  *)
(* one liberty the parser grants: a comma behind the last known merchant.  *)
(***************************************************************************)
Said(key) == <<String(key), Punct("colon")>>
Left == <<Punct("lbrace")>>
Right == <<Punct("rbrace")>>
And == <<Punct("comma")>>
List(strings, trailing) ==
  <<Punct("lbracket")>>
    \o [k \in 1 .. 2 * Len(strings) - (IF trailing THEN 0 ELSE 1) |->
          IF k % 2 = 1 THEN strings[(k + 1) \div 2] ELSE Punct("comma")]
    \o <<Punct("rbracket")>>
Bool(b) == <<Word(IF b THEN "true" ELSE "false")>>
Time(t) == << <<"time", t>> >>
Number(n) == << <<"number", n>> >>

Members(r, trailing) ==
  <<Left, Said("id"), <<r.id>>, And,
    Said("transaction"), Left,
      Said("amount"), <<r.amount>>, And,
      Said("installments"), Number(r.installments), And,
      Said("requested_at"), Time(r.requested_at), Right, And,
    Said("customer"), Left,
      Said("avg_amount"), <<r.avg_amount>>, And,
      Said("tx_count_24h"), Number(r.tx_count_24h), And,
      Said("known_merchants"), List(r.known_merchants, trailing), Right, And,
    Said("merchant"), Left,
      Said("id"), <<r.merchant_id>>, And,
      Said("mcc"), <<r.mcc>>, And,
      Said("avg_amount"), <<r.merchant_avg>>, Right, And,
    Said("terminal"), Left,
      Said("is_online"), Bool(r.is_online), And,
      Said("card_present"), Bool(r.card_present), And,
      Said("km_from_home"), <<r.km_from_home>>, Right, And,
    Said("last_transaction")>>
LastMembers(r) ==
  <<Left, Said("timestamp"), Time(r.timestamp), And,
    Said("km_from_current"), <<r.km_from_current>>, Right>>
Written(r, trailing) ==
  FlattenSeq(Members(r, trailing))
    \o (IF r.has_last THEN FlattenSeq(LastMembers(r)) ELSE <<Word("null")>>) \o Right

Edits(b) ==
  {SubSeq(b, 1, k) : k \in 0 .. Len(b) - 1}
  \cup {RemoveAt(b, k) : k \in DOMAIN b}
  \cup {ReplaceAt(b, k, t) : k \in DOMAIN b, t \in Misprints}
  \cup {InsertAt(b, k, t) : k \in DOMAIN b, t \in Misprints}
  \cup {Append(b, t) : t \in Misprints}

-----------------------------------------------------------------------------
Init ==
  /\ stage = "idle" /\ body = <<>> /\ edited = FALSE /\ asked = None
  /\ req = None /\ vec = None /\ qvec = None

Receive ==
  /\ stage = "idle" /\ stage' = "parse"
  /\ \E r \in Requests :
       /\ asked' = r
       /\ \/ body' = Written(r, FALSE) /\ edited' = FALSE
          \/ body' \in Edits(Written(r, FALSE)) /\ edited' = TRUE
  /\ UNCHANGED <<req, vec, qvec>>

(* An error, and the handler answers the fallback. *)
Parse ==
  /\ stage = "parse"
  /\ LET c == parseStrictRequest(body)
     IN  IF c.ok THEN stage' = "vectorize" /\ req' = c.req
         ELSE stage' = "refused" /\ UNCHANGED req
  /\ UNCHANGED <<body, edited, asked, vec, qvec>>

VectorizeRequest ==
  /\ stage = "vectorize" /\ stage' = "quantize"
  /\ vec' = Vectorize(req)
  /\ UNCHANGED <<body, edited, asked, req, qvec>>

(* The least and the largest byte stand for what a NaN may become. *)
Quantize ==
  /\ stage = "quantize" /\ stage' = "search"
  /\ \E nan \in {0, QByte} : qvec' = QuantizeQuery(vec, nan)
  /\ UNCHANGED <<body, edited, asked, req, vec>>

Answer ==
  /\ stage \in {"search", "refused"} /\ stage' = "idle"
  /\ body' = <<>> /\ edited' = FALSE /\ asked' = None
  /\ req' = None /\ vec' = None /\ qvec' = None

Next == Receive \/ Parse \/ VectorizeRequest \/ Quantize \/ Answer
Spec == Init /\ [][Next]_vars

-----------------------------------------------------------------------------
(***************************************************************************)
(* The parser reads what is written: a body as docs/API.md has it is       *)
(* accepted with the values of all its members, the counts as an int32     *)
(* holds them; and a body that is accepted says what was read of it, from  *)
(* its first token to its last brace.  Nothing that was cut short, or has  *)
(* a member missing, doubled, or of another type, is ever scored.          *)
(***************************************************************************)
WithCounts(r, i, n) == [r EXCEPT !.installments = i, !.tx_count_24h = n]
Counts(b) == {b[k][2] : k \in {j \in DOMAIN b : b[j][1] = "number"}}
Reads(b, r) ==
  \E i, n \in Counts(b), trailing \in BOOLEAN :
    /\ r.installments = Wrapped(i) /\ r.tx_count_24h = Wrapped(n)
    /\ IsPrefix(Written(WithCounts(r, i, n), trailing), b)
ReadsWhatIsWritten ==
  /\ stage = "refused" => edited
  /\ stage = "vectorize" =>
       /\ Reads(body, req)
       /\ ~ edited => req = WithCounts(asked, Wrapped(asked.installments),
                                             Wrapped(asked.tx_count_24h))

(***************************************************************************)
(* A last transaction that is there never looks like one that is missing:  *)
(* the two dimensions of it are bytes from 128 on, whatever the times and  *)
(* distances were, and 0 only when the body said null.                     *)
(***************************************************************************)
PresentNeverLooksMissing ==
  stage = "search" =>
    \A i \in Sentinels : IF req.has_last THEN qvec[i] \in (QByte + 1) \div 2 .. QByte
                         ELSE qvec[i] = 0

(***************************************************************************)
(* Queries and references are measured alike: a reference with the vector  *)
(* of the query is at distance 0, one like it but without a last           *)
(* transaction is far from a query that has one, and no distance leaves    *)
(* the range of Dist.                                                      *)
(***************************************************************************)
Exact == \A i \in Dim : ~ IsNaN(vec[i])
WithoutLast == [i \in Dim |-> IF i \in Sentinels THEN Whole(-1) ELSE vec[i]]
QueryMeetsReference ==
  stage = "search" =>
    /\ qvec \in [Dim -> 0 .. QByte]
    /\ Exact => Dist(qvec, QuantizeVector(vec)) = 0
    /\ req.has_last => Dist(qvec, QuantizeVector(WithoutLast)) >= 2 * Square((QByte + 1) \div 2)
    /\ Dist(qvec, [i \in Dim |-> 0]) <= 14 * Square(QByte)
=============================================================================
