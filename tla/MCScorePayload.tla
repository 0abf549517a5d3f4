--------------------------- MODULE MCScorePayload ---------------------------
(* Requests and misprints for checking ScorePayload. *)
EXTENDS ScorePayload

MCStrings == Names \cup {"tx", "m1", "m2", "5411", "9999", "empty"}

Limits ==
  [MaxAmount |-> 10000, MaxInstallments |-> 12, AmountVsAvgRatio |-> 10,
   MaxMinutes |-> 1440, MaxKm |-> 1000, MaxTxCount24h |-> 20,
   MaxMerchantAvgAmount |-> 10000]
Risks == [mcc \in {String("5411"), String("7995")} |-> IF mcc[2] = "5411" THEN 15 ELSE 85]
Before2026 == <<0, 31, 59, 90, 120, 151, 181, 212, 243, 273, 304, 334>>

At(month, day, hour, minute) ==
  [month |-> month, day |-> day, hour |-> hour, minute |-> minute]

(* As in docs/API.md, with a last transaction. *)
Ordinary ==
  [id |-> String("tx"), amount |-> <<"decimal", 3848>>, installments |-> 3,
   requested_at |-> At(3, 11, 20, 23), avg_amount |-> <<"decimal", 7697>>,
   tx_count_24h |-> 3, known_merchants |-> <<String("m1"), String("m2")>>,
   merchant_id |-> String("m1"), mcc |-> String("5411"), merchant_avg |-> <<"number", 298>>,
   is_online |-> FALSE, card_present |-> TRUE, km_from_home |-> <<"decimal", 137>>,
   has_last |-> TRUE, timestamp |-> At(3, 11, 14, 58), km_from_current |-> <<"decimal", 188>>]

(* No last transaction, nothing known, an amount that is not a number. *)
First ==
  [Ordinary EXCEPT !.has_last = FALSE, !.timestamp = NoTime, !.known_merchants = <<>>,
                   !.km_from_current = <<"number", 0>>, !.mcc = String("9999"),
                   !.amount = <<"number", 30000>>, !.avg_amount = <<"number", 30000>>]

(* A last transaction that is later than this one, on the 31st of February, *)
(* and numbers below and above every limit.                                 *)
Odd ==
  [Ordinary EXCEPT !.timestamp = At(2, 31, 23, 59), !.requested_at = At(2, 28, 0, 0),
                   !.amount = <<"number", -5>>, !.avg_amount = <<"number", 0>>,
                   !.installments = 100, !.merchant_avg = <<"number", 29999>>,
                   !.km_from_current = <<"number", -7>>, !.km_from_home = <<"number", 2000>>]

(* Counts no int32 holds: one wraps to 1, the other to a negative number. *)
Wrapping == [Ordinary EXCEPT !.installments = 257, !.tx_count_24h = 130]

MCRequests == {Ordinary, First, Odd, Wrapping}

MCMisprints ==
  {Punct("comma"), Punct("rbrace"), Punct("rbracket"), String("id"), <<"escaped", "m1">>,
   <<"time", At(13, 1, 0, 0)>>, <<"number", -1>>, <<"exponent", 5>>,
   Word("null"), Word("true")}
=============================================================================
