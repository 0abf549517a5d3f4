----------------------------- MODULE FraudVector -----------------------------
(***************************************************************************)
(* From a parsed request to the query of the search: Vectorize and clamp   *)
(* of internal/vectorize/vectorize.go, the quantization and the distance   *)
(* of internal/hnsw/quantize.go and dist.go.                               *)
(*                                                                         *)
(* A float is a fraction <<n, d>> with d >= 0, of which <<n, 0>> is an     *)
(* infinity and <<0, 0>> is NaN: comparing and dividing numerators and     *)
(* denominators then does what the machine does with them, all but the     *)
(* rounding of float32.                                                    *)
(***************************************************************************)
EXTENDS Integers, Sequences

CONSTANTS
  Limit,        \* normalization limits of internal/config, by name
  MCCRisk,      \* risk of a merchant category, in hundredths
  DefaultRisk,  \* MCCRiskDefault, in hundredths
  DaysBefore,   \* days of the year before each month
  Overflow,     \* numbers from here on are infinite as a float32
  QByte         \* largest quantized value (255)

ASSUME VectorAssumption ==
  /\ \A name \in {"MaxAmount", "MaxInstallments", "AmountVsAvgRatio", "MaxMinutes", "MaxKm",
                  "MaxTxCount24h", "MaxMerchantAvgAmount"} : Limit[name] \in Nat \ {0}
  /\ DefaultRisk \in Nat /\ \A mcc \in DOMAIN MCCRisk : MCCRisk[mcc] \in Nat
  /\ DaysBefore \in [1 .. 12 -> Nat] /\ Overflow \in Nat \ {0} /\ QByte \in Nat \ {0}

Dim == 0 .. 13         \* VectorDim
Sentinels == {5, 6}    \* -1 when there is no last transaction

Float(token) ==
  LET n == token[2]
  IN  IF n >= Overflow THEN <<1, 0>> ELSE IF n <= - Overflow THEN <<-1, 0>>
      ELSE <<n, IF token[1] = "decimal" THEN 10 ELSE 1>>
Whole(n) == <<n, 1>>

(* x / y and x < y for a y that is not negative. *)
Div(x, y) == <<x[1] * y[2], x[2] * y[1]>>
Below(x, y) == x[1] * y[2] < y[1] * x[2]
IsNaN(x) == x = <<0, 0>>

ClampAbove(x) == IF x[1] > x[2] THEN Whole(1) ELSE x  \* mutant: no lower bound

(* Neither comparison holds of a NaN, which passes as it is. *)
clamp(x) == IF x[1] < 0 THEN Whole(0) ELSE IF x[1] > x[2] THEN Whole(1) ELSE x

(* time.Date of a time in the year: day 31 of a shorter month is a day of  *)
(* the next one.  The year begins on a Thursday, as 2026 does.             *)
Days(t) == DaysBefore[t.month] + t.day - 1
Minutes(t) == (Days(t) * 24 + t.hour) * 60 + t.minute
Hour(t) == t.hour
Weekday(t) == (Days(t) + 4) % 7  \* Sunday is 0

OneIf(b) == Whole(IF b THEN 1 ELSE 0)
Scaled(x, limit) == clamp(Div(x, Whole(Limit[limit])))
AmountVsAvg(amount, avg) ==
  IF Below(Whole(0), avg) THEN Scaled(Div(amount, avg), "AmountVsAvgRatio") ELSE Whole(1)

Vectorize(r) ==
  [i \in Dim |->
    CASE i = 0 -> Scaled(Float(r.amount), "MaxAmount")
      [] i = 1 -> Scaled(Whole(r.installments), "MaxInstallments")
      [] i = 2 -> AmountVsAvg(Float(r.amount), Float(r.avg_amount))
      [] i = 3 -> <<Hour(r.requested_at), 23>>
      [] i = 4 -> <<(Weekday(r.requested_at) + 6) % 7, 6>>
      [] i \in Sentinels /\ ~ r.has_last -> Whole(-1)
      [] i = 5 /\ r.has_last ->
           Scaled(Whole(Minutes(r.requested_at) - Minutes(r.timestamp)), "MaxMinutes")
      [] i = 6 /\ r.has_last -> Scaled(Float(r.km_from_current), "MaxKm")
      [] i = 7 -> Scaled(Float(r.km_from_home), "MaxKm")
      [] i = 8 -> Scaled(Whole(r.tx_count_24h), "MaxTxCount24h")
      [] i = 9 -> OneIf(r.is_online)
      [] i = 10 -> OneIf(r.card_present)
      [] i = 11 -> OneIf(\A k \in DOMAIN r.known_merchants :
                          r.known_merchants[k] # r.merchant_id)
      [] i = 12 -> <<IF r.mcc \in DOMAIN MCCRisk THEN MCCRisk[r.mcc]
                     ELSE DefaultRisk, 100>>
      [] i = 13 -> Scaled(Float(r.merchant_avg), "MaxMerchantAvgAmount")]

-----------------------------------------------------------------------------
(***************************************************************************)
(* Quantization rounds to the nearest byte: x to QByte * x, and what may   *)
(* be a sentinel to QByte * (x + 1) / 2.  What a NaN becomes is up to the  *)
(* processor: nan.                                                         *)
(***************************************************************************)
qStd(x, nan) ==
  IF IsNaN(x) THEN nan
  ELSE IF x[1] <= 0 THEN 0 ELSE IF x[1] >= x[2] THEN QByte
  ELSE (2 * QByte * x[1] + x[2]) \div (2 * x[2])

qSentinel(x, nan) ==
  IF IsNaN(x) THEN nan
  ELSE IF x[1] <= - x[2] THEN 0 ELSE IF x[1] >= x[2] THEN QByte
  ELSE (QByte * (x[1] + x[2]) + x[2]) \div (2 * x[2])

(* The vectors of the references, and those of the queries. *)
QuantizeVector(v) ==
  [i \in Dim |-> IF i \in Sentinels THEN qSentinel(v[i], 0) ELSE qStd(v[i], 0)]

QuantizeOneSentinel(v, nan) ==  \* mutant: one of the two dimensions is forgotten
  [i \in Dim |-> IF i = 5 THEN qSentinel(v[i], nan) ELSE qStd(v[i], nan)]
QuantizeQuery(v, nan) ==
  [i \in Dim |-> IF i \in Sentinels THEN qSentinel(v[i], nan) ELSE qStd(v[i], nan)]

(* Dist, and Dist2 of the builder: the squared Euclidean distance. *)
Square(n) == n * n
Dist(q, v) ==
  LET d(i) == Square(q[i] - v[i])
  IN  d(0) + d(1) + d(2) + d(3) + d(4) + d(5) + d(6)
        + d(7) + d(8) + d(9) + d(10) + d(11) + d(12) + d(13)
=============================================================================
