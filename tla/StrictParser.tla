---------------------------- MODULE StrictParser ----------------------------
(***************************************************************************)
(* parseStrictRequest of internal/api/parse_strict.go: one pass over the   *)
(* body that demands every member of the payload, in order, and looks at   *)
(* nothing behind the last brace.                                          *)
(*                                                                         *)
(* A body is a sequence of tokens, the white space between them left out.  *)
(* A token is its kind and its value:                                      *)
(*   punct, word       one of { } [ ] , : and true, false, null            *)
(*   string, escaped   a string, or one with a backslash in it             *)
(*   time              a string that has the form of a UTC time            *)
(*   number, decimal   an integer, or a number of tenths with a point      *)
(*   exponent          a number with an exponent                           *)
(***************************************************************************)
EXTENDS Integers, SequencesExt

CONSTANTS
  IntMod,  \* values of an int32 (2^32)
  Strings  \* what strings hold, the names of members among it

Marks == {"lbrace", "rbrace", "lbracket", "rbracket", "comma", "colon"}
Words == {"true", "false", "null"}
Names == {"id", "transaction", "amount", "installments", "requested_at", "customer",
          "avg_amount", "tx_count_24h", "known_merchants", "merchant", "mcc", "terminal",
          "is_online", "card_present", "km_from_home", "last_transaction", "timestamp",
          "km_from_current"}
ASSUME ParserAssumption == IntMod \in Nat \ {0} /\ Names \cup {"empty"} \subseteq Strings

Times == [month : Nat, day : Nat, hour : Nat, minute : Nat]
Texts == ({"string"} \X Strings) \cup ({"time"} \X Times)
Floats == {"number", "decimal"} \X Int
Tokens == Texts \cup Floats \cup ({"punct"} \X Marks) \cup ({"word"} \X Words)
            \cup ({"escaped"} \X Strings) \cup ({"exponent"} \X Int)

Punct(c) == <<"punct", c>>
String(s) == <<"string", s>>
Word(w) == <<"word", w>>
End == <<"end", 0>>

(***************************************************************************)
(* The cursor: how far the pass has come, the request read so far (fields  *)
(* not read are zero), and whether an error has ended it.                  *)
(***************************************************************************)
Empty == <<"string", "empty">>  \* the empty string
NoTime == [month |-> 1, day |-> 1, hour |-> 0, minute |-> 0]  \* zero time.Time
ZeroRequest ==
  [id |-> Empty, amount |-> <<"number", 0>>, installments |-> 0,
   requested_at |-> NoTime, avg_amount |-> <<"number", 0>>, tx_count_24h |-> 0,
   known_merchants |-> <<>>, merchant_id |-> Empty,
   mcc |-> Empty, merchant_avg |-> <<"number", 0>>, is_online |-> FALSE,
   card_present |-> FALSE, km_from_home |-> <<"number", 0>>,
   has_last |-> FALSE, timestamp |-> NoTime, km_from_current |-> <<"number", 0>>]
Start == [ok |-> TRUE, at |-> 1, req |-> ZeroRequest]

Token(body, k) == IF k <= Len(body) THEN body[k] ELSE End
Refuse(c) == [c EXCEPT !.ok = FALSE]
Skip(c, n) == [c EXCEPT !.at = @ + n]
Set(c, field, value) == [Skip(c, 1) EXCEPT !.req[field] = value]

expectByte(body, c, want) ==
  IF Token(body, c.at) = Punct(want) THEN Skip(c, 1) ELSE Refuse(c)
expectKeyAt(body, c, key) ==
  IF Token(body, c.at) = String(key) /\ Token(body, c.at + 1) = Punct("colon")
  THEN Skip(c, 2) ELSE Refuse(c)

IsString(t) == t[1] \in {"string", "time"}
readStringAt(body, c, field) ==
  LET t == Token(body, c.at) IN IF IsString(t) THEN Set(c, field, t) ELSE Refuse(c)

(* Of an exponent only the digits before it are read: the next byte, the   *)
(* e, is then refused, as is the point behind an integer field.            *)
readFloat32At(body, c, field) ==
  LET t == Token(body, c.at)
  IN  IF t[1] \in {"number", "decimal"} THEN Set(c, field, t) ELSE Refuse(c)

Wrapped(n) == ((n + IntMod \div 2) % IntMod) - IntMod \div 2

(* n*10 + digit, wrapping around: a sign is no digit. *)
readInt32At(body, c, field) ==
  LET t == Token(body, c.at)
  IN  IF t[1] = "number" /\ t[2] >= 0 THEN Set(c, field, Wrapped(t[2])) ELSE Refuse(c)

readBoolAt(body, c, field) ==
  LET t == Token(body, c.at)
  IN  IF t \in {Word("true"), Word("false")} THEN Set(c, field, t = Word("true"))
      ELSE Refuse(c)

(* parseFixedUTC bounds each part of the time alone: 31 days for any month. *)
InRange(t) ==
  t.month \in 1 .. 12 /\ t.day \in 1 .. 31 /\ t.hour \in 0 .. 23 /\ t.minute \in 0 .. 59
readTimeAt(body, c, field) ==
  LET t == Token(body, c.at)
  IN  IF t[1] = "time" /\ InRange(t[2]) THEN Set(c, field, t[2]) ELSE Refuse(c)

(***************************************************************************)
(* Behind the bracket strings and commas alternate up to the other one,    *)
(* which may come at once, behind a string, or behind a comma, too.        *)
(***************************************************************************)
readStringArrayAt(body, c, field) ==
  LET ReachesBracket(span) ==
        /\ \A j \in 1 .. span - 1 : IF j % 2 = 1 THEN IsString(Token(body, c.at + j))
                                  ELSE Token(body, c.at + j) = Punct("comma")
        /\ Token(body, c.at + span) = Punct("rbracket")
      spans == {span \in 1 .. Len(body) : ReachesBracket(span)}  \* there is at most one
      span == CHOOSE n \in spans : TRUE
      list == [j \in 1 .. span \div 2 |-> Token(body, c.at + 2 * j - 1)]
  IN  IF Token(body, c.at) = Punct("lbracket") /\ spans # {}
      THEN [Set(c, field, list) EXCEPT !.at = c.at + span + 1] ELSE Refuse(c)

-----------------------------------------------------------------------------
(***************************************************************************)
(* What is read, one item after the other: bytes, keys and the values of   *)
(* fields.                                                                 *)
(***************************************************************************)
Item(op, arg) == [op |-> op, arg |-> arg]
Byte(c) == Item("byte", c)
Key(k) == Item("key", k)
Open == Byte("lbrace")
Shut == Byte("rbrace")
Comma == Byte("comma")

(* All but the value of the last member, and what follows it. *)
Payload == <<
  Open, Key("id"), Item("string", "id"), Comma,
  Key("transaction"), Open,
    Key("amount"), Item("float", "amount"), Comma,
    Key("installments"), Item("int", "installments"), Comma,
    Key("requested_at"), Item("time", "requested_at"), Shut, Comma,
  Key("customer"), Open,
    Key("avg_amount"), Item("float", "avg_amount"), Comma,
    Key("tx_count_24h"), Item("int", "tx_count_24h"), Comma,
    Key("known_merchants"), Item("strings", "known_merchants"), Shut, Comma,
  Key("merchant"), Open,
    Key("id"), Item("string", "merchant_id"), Comma,
    Key("mcc"), Item("string", "mcc"), Comma,
    Key("avg_amount"), Item("float", "merchant_avg"), Shut, Comma,
  Key("terminal"), Open,
    Key("is_online"), Item("bool", "is_online"), Comma,
    Key("card_present"), Item("bool", "card_present"), Comma,
    Key("km_from_home"), Item("float", "km_from_home"), Shut, Comma,
  Key("last_transaction")>>

LastTransaction == <<
  Open, Key("timestamp"), Item("time", "timestamp"), Comma,
  Key("km_from_current"), Item("float", "km_from_current"), Shut>>

Close == <<Shut>>

ReadItem(body, c, item) ==
  CASE item.op = "byte" -> expectByte(body, c, item.arg)
    [] item.op = "key" -> expectKeyAt(body, c, item.arg)
    [] item.op = "string" -> readStringAt(body, c, item.arg)
    [] item.op = "strings" -> readStringArrayAt(body, c, item.arg)
    [] item.op = "float" -> readFloat32At(body, c, item.arg)
    [] item.op = "int" -> readInt32At(body, c, item.arg)
    [] item.op = "bool" -> readBoolAt(body, c, item.arg)
    [] item.op = "time" -> readTimeAt(body, c, item.arg)

(* The first error ends the pass, and nothing looks at the request after it. *)
ReadAll(body, c, items) ==
  LET read[k \in 0 .. Len(items)] ==
        IF k = 0 THEN c
        ELSE LET before == read[k - 1]
             IN  IF before.ok THEN ReadItem(body, before, items[k]) ELSE before
  IN  read[Len(items)]

ReadLast(body, c) ==
  IF c.ok /\ Token(body, c.at) = Word("null")
  THEN [Skip(c, 1) EXCEPT !.req.has_last = FALSE]
  ELSE ReadAll(body, [c EXCEPT !.req.has_last = TRUE], LastTransaction)

ParseLenient(body) ==  \* mutant: the last brace is not demanded
  ReadLast(body, ReadAll(body, Start, Payload))

parseStrictRequest(body) ==
  ReadAll(body, ReadLast(body, ReadAll(body, Start, Payload)), Close)
=============================================================================
