------------------------- MODULE ScorePayloadProofs -------------------------
(***************************************************************************)
(* Proofs about the way of a body to its query.                            *)
(*                                                                         *)
(* The parser is a fixed list of items, read one after the other.  What    *)
(* one item takes from a body is a piece: a few tokens that tell the value *)
(* of its field (Takes).  A pass that succeeds is a trail of cursors, each *)
(* behind the piece of its item (Trail); the pieces, laid end to end,      *)
(* are the writing of the request that was read.  The definitions by       *)
(* recursion, the pass itself and the concatenation of the pieces, are     *)
(* shown to make sense by a least counterexample.                          *)
(***************************************************************************)
EXTENDS ScorePayload, FiniteSetTheorems, SequenceTheorems, WellFoundedInduction, TLAPS

(***************************************************************************)
(* Induction over an interval, with a set for the property.                *)
(***************************************************************************)
LEMMA LeastOf ==
  ASSUME NEW S \in SUBSET Nat, S # {}
  PROVE  \E x \in S : \A y \in S : x <= y
<1>1. PICK x \in S : \A y \in S : ~ (<<y, x>> \in OpToRel(<, Nat))
  BY NatLessThanWellFounded, WFMin
<1>2. \A y \in S : ~ (y < x)
  BY <1>1 DEF OpToRel
<1> QED  BY <1>2

LEMMA Climb ==
  ASSUME NEW m \in Nat, NEW S, 0 \in S, \A k \in 0 .. m - 1 : k \in S => k + 1 \in S
  PROVE  \A k \in 0 .. m : k \in S
<1> DEFINE Bad == {k \in 0 .. m : k \notin S}
<1> SUFFICES ASSUME Bad # {} PROVE FALSE
  OBVIOUS
<1>1. PICK k \in Bad : \A l \in Bad : k <= l
  <2>1. Bad \in SUBSET Nat
    OBVIOUS
  <2> HIDE DEF Bad
  <2> QED  BY <2>1, LeastOf
<1>2. k # 0
  BY <1>1
<1>3. k - 1 \in 0 .. m - 1 /\ k - 1 \notin Bad
  BY <1>1, <1>2
<1>4. (k - 1) + 1 \in S
  BY <1>3
<1> QED  BY <1>1, <1>4

-----------------------------------------------------------------------------
(***************************************************************************)
(* The items, by the kind of their field.                                  *)
(***************************************************************************)
TextFields == {"id", "merchant_id", "mcc"}
FloatFields == {"amount", "avg_amount", "merchant_avg", "km_from_home", "km_from_current"}
IntFields == {"installments", "tx_count_24h"}
BoolFields == {"is_online", "card_present"}
TimeFields == {"requested_at", "timestamp"}
ListFields == {"known_merchants"}
Fields == TextFields \cup FloatFields \cup IntFields \cup BoolFields \cup TimeFields
            \cup ListFields

Items ==
  [op : {"byte"}, arg : Marks] \cup [op : {"key"}, arg : Names] \cup [op : {"string"}, arg : TextFields]
    \cup [op : {"float"}, arg : FloatFields] \cup [op : {"int"}, arg : IntFields]
    \cup [op : {"bool"}, arg : BoolFields] \cup [op : {"time"}, arg : TimeFields]
    \cup [op : {"strings"}, arg : ListFields]
ReadsField(item) == item.op \notin {"byte", "key"}

LEMMA ItemsTyped ==
  /\ Payload \in Seq(Items) /\ Len(Payload) = 53
  /\ LastTransaction \in Seq(Items) /\ Len(LastTransaction) = 7
  /\ Close \in Seq(Items) /\ Len(Close) = 1
<1>1. /\ \A c \in Marks : Byte(c) \in Items
      /\ \A k \in Names : Key(k) \in Items
      /\ Open \in Items /\ Shut \in Items /\ Comma \in Items
  BY DEF Items, Byte, Key, Item, Open, Shut, Comma, Marks
<1>2. \A f \in TextFields : Item("string", f) \in Items
  BY DEF Items, Item
<1>3. \A f \in FloatFields : Item("float", f) \in Items
  BY DEF Items, Item
<1>4. \A f \in IntFields : Item("int", f) \in Items
  BY DEF Items, Item
<1>5. \A f \in BoolFields : Item("bool", f) \in Items
  BY DEF Items, Item
<1>6. \A f \in TimeFields : Item("time", f) \in Items
  BY DEF Items, Item
<1>7. \A f \in ListFields : Item("strings", f) \in Items
  BY DEF Items, Item
<1>8. LastTransaction \in Seq(Items) /\ Len(LastTransaction) = 7
  BY <1>1, <1>3, <1>6 DEF LastTransaction, FloatFields, TimeFields, Marks, Names
<1>9. Close \in Seq(Items) /\ Len(Close) = 1
  BY <1>1 DEF Close, Marks
<1>10. Payload \in Seq(Items)
  BY <1>1, <1>2, <1>3, <1>4, <1>5, <1>6, <1>7
     DEF Payload, TextFields, FloatFields, IntFields, BoolFields, TimeFields, ListFields,
         Marks, Names
<1>11. Len(Payload) = 53
  BY DEF Payload
<1> QED  BY <1>8, <1>9, <1>10, <1>11

-----------------------------------------------------------------------------
(***************************************************************************)
(* What an item takes from a body: the piece p tells the value v.          *)
(***************************************************************************)
Cursor == [ok : BOOLEAN, at : Nat \ {0}, req : Request]

Takes(item, p, v) ==
  /\ item.op = "byte" => p = <<Punct(item.arg)>>
  /\ item.op = "key" => p = Said(item.arg)
  /\ item.op = "string" => v \in Texts /\ p = <<v>>
  /\ item.op = "float" => v \in Floats /\ p = <<v>>
  /\ item.op = "int" => \E n \in Nat : p = Number(n) /\ v = Wrapped(n)
  /\ item.op = "bool" => v \in BOOLEAN /\ p = Bool(v)
  /\ item.op = "time" => v \in Times /\ InRange(v) /\ p = Time(v)
  /\ item.op = "strings" => v \in Seq(Texts) /\ \E tr \in BOOLEAN : p = List(v, tr)

Lies(b, a, p) ==
  a + Len(p) - 1 <= Len(b) /\ \A j \in 1 .. Len(p) : b[a + j - 1] = p[j]

Told(item, r, v) == IF ReadsField(item) THEN [r EXCEPT ![item.arg] = v] ELSE r
Taken(c, item, n, v) == [ok |-> c.ok, at |-> c.at + n, req |-> Told(item, c.req, v)]

LEMMA RefuseIs ==
  ASSUME NEW c \in Cursor
  PROVE  ~ Refuse(c).ok
BY DEF Cursor, Refuse

LEMMA SkipIs ==
  ASSUME NEW c \in Cursor, NEW n
  PROVE  Skip(c, n) = [ok |-> c.ok, at |-> c.at + n, req |-> c.req]
BY DEF Cursor, Skip

LEMMA SetIs ==
  ASSUME NEW c \in Cursor, NEW f, NEW v
  PROVE  Set(c, f, v) = [ok |-> c.ok, at |-> c.at + 1, req |-> [c.req EXCEPT ![f] = v]]
<1> DEFINE d == Skip(c, 1)
<1>1. d = [ok |-> c.ok, at |-> c.at + 1, req |-> c.req]
  BY SkipIs
<1> HIDE DEF d
<1>2. [d EXCEPT !.req[f] = v] = [d EXCEPT !.req = [d.req EXCEPT ![f] = v]]
  OBVIOUS
<1>3. [d EXCEPT !.req = [d.req EXCEPT ![f] = v]]
        = [ok |-> c.ok, at |-> c.at + 1, req |-> [c.req EXCEPT ![f] = v]]
  BY <1>1
<1> QED  BY <1>2, <1>3 DEF Set, d

(* The kinds of an item tell where its field is read. *)
LEMMA ItemKinds ==
  ASSUME NEW item \in Items
  PROVE  \/ item.op = "byte" /\ item.arg \in Marks
         \/ item.op = "key" /\ item.arg \in Names
         \/ item.op = "string" /\ item.arg \in TextFields
         \/ item.op = "float" /\ item.arg \in FloatFields
         \/ item.op = "int" /\ item.arg \in IntFields
         \/ item.op = "bool" /\ item.arg \in BoolFields
         \/ item.op = "time" /\ item.arg \in TimeFields
         \/ item.op = "strings" /\ item.arg \in ListFields
BY DEF Items

(* A body token by token. *)
LEMMA TokenThere ==
  ASSUME NEW b \in Seq(Tokens), NEW k \in Nat \ {0}
  PROVE  /\ k <= Len(b) => Token(b, k) = b[k] /\ b[k] \in Tokens
         /\ k > Len(b) => Token(b, k) = <<"end", 0>>
BY DEF Token, End

LEMMA TokenKinds ==
  ASSUME NEW t \in Tokens
  PROVE  /\ IsString(t) <=> t \in Texts
         /\ t[1] \in {"number", "decimal"} <=> t \in Floats
         /\ t[1] = "number" <=> \E n \in Int : t = <<"number", n>>
         /\ t[1] = "time" <=> \E v \in Times : t = <<"time", v>>
BY DEF Tokens, Texts, Floats, IsString

(* The writing of a list: as many tokens as its strings and commas, and the *)
(* two brackets.                                                            *)
Between(n, tr) == IF n = 0 THEN 0 ELSE 2 * n - (IF tr THEN 0 ELSE 1)

LEMMA Halves ==
  ASSUME NEW n \in Nat, NEW tr \in BOOLEAN, NEW j \in 1 .. Between(n, tr)
  PROVE  j % 2 = 1 => (j + 1) \div 2 \in 1 .. n
<1>1. j \in Nat /\ 1 <= j /\ j <= 2 * n
  BY DEF Between
<1> QED  BY <1>1

LEMMA ConcatIs ==
  ASSUME NEW S, NEW s \in Seq(S), NEW t \in Seq(S)
  PROVE  /\ s \o t \in Seq(S) /\ Len(s) \in Nat /\ Len(t) \in Nat
         /\ Len(s \o t) = Len(s) + Len(t)
         /\ \A i \in 1 .. Len(s) : (s \o t)[i] = s[i]
         /\ \A i \in 1 .. Len(t) : (s \o t)[Len(s) + i] = t[i]
OBVIOUS

LEMMA ListIs ==
  ASSUME NEW v \in Seq(Texts), NEW tr \in BOOLEAN
  PROVE  LET m == Between(Len(v), tr)
         IN  /\ List(v, tr) \in Seq(Tokens) /\ Len(List(v, tr)) = m + 2
             /\ List(v, tr)[1] = Punct("lbracket") /\ List(v, tr)[m + 2] = Punct("rbracket")
             /\ \A j \in 1 .. m :
                  List(v, tr)[j + 1] = IF j % 2 = 1 THEN v[(j + 1) \div 2] ELSE Punct("comma")
<1> DEFINE m == Between(Len(v), tr)
           e == 2 * Len(v) - (IF tr THEN 0 ELSE 1)
           tok(k) == IF k % 2 = 1 THEN v[(k + 1) \div 2] ELSE Punct("comma")
           mid == [k \in 1 .. e |-> tok(k)]
           left == <<Punct("lbracket")>>
           right == <<Punct("rbracket")>>
<1>1. m \in Nat /\ Len(v) \in Nat /\ e \in Int /\ 1 .. e = 1 .. m
  <2>1. m \in Nat /\ Len(v) \in Nat /\ e \in Int /\ ((m = 0 /\ e <= 0) \/ m = e)
    <3>1. CASE tr
      BY <3>1 DEF Between
    <3>2. CASE ~ tr
      BY <3>2 DEF Between
    <3> QED  BY <3>1, <3>2
  <2> HIDE DEF m, e
  <2> QED  BY <2>1
<1>2. \A k \in 1 .. m : tok(k) \in Tokens
  <2> TAKE k \in 1 .. m
  <2>1. Punct("comma") \in Tokens
    BY DEF Tokens, Punct, Marks
  <2>2. k % 2 = 1 => v[(k + 1) \div 2] \in Tokens
    BY <1>1, Halves DEF Tokens
  <2> QED  BY <2>1, <2>2
<1>3. left \in Seq(Tokens) /\ right \in Seq(Tokens) /\ Len(left) = 1 /\ Len(right) = 1
      /\ left[1] = Punct("lbracket") /\ right[1] = Punct("rbracket")
  BY DEF Tokens, Punct, Marks
<1>4. List(v, tr) = left \o mid \o right
  BY DEF List
<1>5. mid = [k \in 1 .. m |-> tok(k)]
  <2> HIDE DEF tok, m, e
  <2> QED  BY <1>1
<1> HIDE DEF tok, left, right, mid, m, e
<1>6. mid \in Seq(Tokens) /\ Len(mid) = m /\ \A k \in 1 .. m : mid[k] = tok(k)
  BY <1>1, <1>2, <1>5
<1> DEFINE lm == left \o mid
           l == lm \o right
<1>7. /\ lm \in Seq(Tokens) /\ Len(lm) = 1 + m
      /\ \A i \in 1 .. 1 : lm[i] = left[i]
      /\ \A i \in 1 .. m : lm[1 + i] = mid[i]
  <2>1. /\ lm \in Seq(Tokens) /\ Len(lm) = Len(left) + Len(mid)
        /\ \A i \in 1 .. Len(left) : lm[i] = left[i]
        /\ \A i \in 1 .. Len(mid) : lm[Len(left) + i] = mid[i]
    <3>1. left \in Seq(Tokens) /\ mid \in Seq(Tokens)
      BY <1>3, <1>6
    <3> QED  BY <3>1, ConcatIs
  <2> HIDE DEF lm
  <2> QED  BY <2>1, <1>3, <1>6
<1> HIDE DEF lm
<1>8. /\ l \in Seq(Tokens) /\ Len(l) = (1 + m) + 1
      /\ \A i \in 1 .. 1 + m : l[i] = lm[i]
      /\ \A i \in 1 .. 1 : l[(1 + m) + i] = right[i]
  <2>1. /\ l \in Seq(Tokens) /\ Len(l) = Len(lm) + Len(right)
        /\ \A i \in 1 .. Len(lm) : l[i] = lm[i]
        /\ \A i \in 1 .. Len(right) : l[Len(lm) + i] = right[i]
    <3>1. lm \in Seq(Tokens) /\ right \in Seq(Tokens)
      BY <1>3, <1>7
    <3> QED  BY <3>1, ConcatIs
  <2> HIDE DEF l
  <2> QED  BY <2>1, <1>3, <1>7
<1>9. List(v, tr) = l
  BY <1>4 DEF lm
<1> HIDE DEF l
<1>10. \A j \in 1 .. m : l[j + 1] = tok(j)
  <2> TAKE j \in 1 .. m
  <2>1. j + 1 \in 1 .. 1 + m /\ j + 1 = 1 + j
    BY <1>1
  <2> QED  BY <2>1, <1>6, <1>7, <1>8
<1>11. l[1] = Punct("lbracket") /\ l[m + 2] = Punct("rbracket") /\ Len(l) = m + 2
  <2>1. 1 \in 1 .. 1 + m /\ 1 \in 1 .. 1 /\ (1 + m) + 1 = m + 2
    BY <1>1
  <2> QED  BY <2>1, <1>3, <1>7, <1>8
<1> QED  BY <1>8, <1>9, <1>10, <1>11 DEF m, tok

LEMMA PiecesTyped ==
  ASSUME NEW item \in Items, NEW p, NEW v, Takes(item, p, v)
  PROVE  p \in Seq(Tokens) /\ Len(p) \in Nat \ {0}
<1>1. CASE item.op = "byte" /\ item.arg \in Marks
  <2>1. Punct(item.arg) \in Tokens
    BY <1>1 DEF Punct, Tokens
  <2>2. p = <<Punct(item.arg)>>
    BY <1>1 DEF Takes
  <2> QED  BY <2>1, <2>2
<1>2. CASE item.op = "key" /\ item.arg \in Names
  <2>1. String(item.arg) \in Tokens /\ Punct("colon") \in Tokens
    BY <1>2, ParserAssumption DEF String, Punct, Tokens, Texts, Marks
  <2>2. p = <<String(item.arg), Punct("colon")>>
    BY <1>2 DEF Takes, Said
  <2> QED  BY <2>1, <2>2
<1>3. CASE item.op = "string" \/ item.op = "float"
  <2>1. v \in Tokens /\ p = <<v>>
    BY <1>3 DEF Takes, Tokens
  <2> QED  BY <2>1
<1>4. CASE item.op = "int"
  <2>1. PICK n \in Nat : p = Number(n)
    BY <1>4 DEF Takes
  <2>2. <<"number", n>> \in Tokens
    BY DEF Tokens, Floats
  <2> QED  BY <2>1, <2>2 DEF Number
<1>5. CASE item.op = "bool"
  <2>1. Word("true") \in Tokens /\ Word("false") \in Tokens
    BY DEF Tokens, Word, Words
  <2>2. p = <<Word("true")>> \/ p = <<Word("false")>>
    BY <1>5 DEF Takes, Bool
  <2>3. CASE p = <<Word("true")>>
    BY <2>1, <2>3
  <2>4. CASE p = <<Word("false")>>
    BY <2>1, <2>4
  <2> QED  BY <2>2, <2>3, <2>4
<1>6. CASE item.op = "time"
  <2>1. <<"time", v>> \in Tokens /\ p = << <<"time", v>> >>
    BY <1>6 DEF Takes, Time, Tokens, Texts
  <2> QED  BY <2>1
<1>7. CASE item.op = "strings"
  <2>1. PICK tr \in BOOLEAN : v \in Seq(Texts) /\ p = List(v, tr)
    BY <1>7 DEF Takes
  <2>2. Between(Len(v), tr) \in Nat
    BY <2>1 DEF Between
  <2> QED  BY <2>1, <2>2, ListIs
<1> QED  BY <1>1, <1>2, <1>3, <1>4, <1>5, <1>6, <1>7, ItemKinds

-----------------------------------------------------------------------------
(***************************************************************************)
(* The array of strings: where its bracket can be, and what is read.       *)
(***************************************************************************)
Reaches(b, a, span) ==
  /\ \A j \in 1 .. span - 1 : IF j % 2 = 1 THEN IsString(Token(b, a + j))
                              ELSE Token(b, a + j) = Punct("comma")
  /\ Token(b, a + span) = Punct("rbracket")
Spans(b, a) == {span \in 1 .. Len(b) : Reaches(b, a, span)}
Span(b, a) == CHOOSE n \in Spans(b, a) : TRUE
Strung(b, a) == [j \in 1 .. Span(b, a) \div 2 |-> Token(b, a + 2 * j - 1)]

LEMMA ArrayIs ==
  ASSUME NEW b, NEW c, NEW f
  PROVE  readStringArrayAt(b, c, f)
           = IF Token(b, c.at) = Punct("lbracket") /\ Spans(b, c.at) # {}
             THEN [Set(c, f, Strung(b, c.at)) EXCEPT !.at = c.at + Span(b, c.at) + 1]
             ELSE Refuse(c)
BY DEF readStringArrayAt, Spans, Span, Strung, Reaches

(* No mark is a string, and the two marks differ. *)
LEMMA MarksAreNoStrings ==
  /\ \A m : ~ IsString(Punct(m))
  /\ Punct("comma") # Punct("rbracket") /\ ~ IsString(<<"end", 0>>)
  /\ <<"end", 0>> # Punct("comma") /\ <<"end", 0>> # Punct("rbracket")
BY DEF IsString, Punct

LEMMA HalfSpan ==
  ASSUME NEW n \in Nat, NEW tr \in BOOLEAN
  PROVE  (Between(n, tr) + 1) \div 2 = n
<1>1. CASE n = 0
  BY <1>1 DEF Between
<1>2. CASE n # 0 /\ tr
  <2>1. Between(n, tr) = 2 * n /\ (2 * n + 1) \div 2 = n
    BY <1>2 DEF Between
  <2> QED  BY <2>1
<1>3. CASE n # 0 /\ ~ tr
  <2>1. Between(n, tr) = 2 * n - 1 /\ (2 * n - 1) + 1 = 2 * n /\ (2 * n) \div 2 = n
    BY <1>3 DEF Between
  <2> QED  BY <2>1
<1> QED  BY <1>1, <1>2, <1>3

(* There is at most one span. *)
LEMMA SpanUnique ==
  ASSUME NEW b, NEW a \in Nat, NEW m \in Spans(b, a)
  PROVE  Span(b, a) = m
<1> DEFINE n == Span(b, a)
<1>1. n \in Spans(b, a)
  BY DEF Span
<1>2. \A x, y \in Spans(b, a) : ~ (x < y)
  <2> SUFFICES ASSUME NEW x \in Spans(b, a), NEW y \in Spans(b, a), x < y PROVE FALSE
    OBVIOUS
  <2>1. x \in 1 .. Len(b) /\ y \in 1 .. Len(b) /\ Reaches(b, a, x) /\ Reaches(b, a, y)
    BY DEF Spans
  <2>2. x \in Nat /\ y \in Nat
    BY <2>1
  <2>3. x \in 1 .. y - 1
    BY <2>1, <2>2
  <2>4. IF x % 2 = 1 THEN IsString(Token(b, a + x)) ELSE Token(b, a + x) = Punct("comma")
    BY <2>1, <2>3 DEF Reaches
  <2>5. Token(b, a + x) = Punct("rbracket")
    BY <2>1 DEF Reaches
  <2> QED  BY <2>4, <2>5, MarksAreNoStrings
<1>3. n \in Nat /\ m \in Nat
  BY <1>1 DEF Spans
<1> HIDE DEF n
<1> QED  BY <1>1, <1>2, <1>3 DEF n

(* A list that lies at a is a span, and a span is a list. *)
LEMMA SpanIsList ==
  ASSUME NEW b \in Seq(Tokens), NEW a \in Nat \ {0}, NEW v \in Seq(Texts), NEW tr \in BOOLEAN,
         Lies(b, a, List(v, tr))
  PROVE  LET m == Between(Len(v), tr)
         IN  /\ Token(b, a) = Punct("lbracket") /\ m + 1 \in Spans(b, a)
             /\ Span(b, a) = m + 1 /\ Strung(b, a) = v
<1> DEFINE m == Between(Len(v), tr)
           l == List(v, tr)
<1>1. m \in Nat /\ Len(v) \in Nat
  <2>1. Len(v) \in Nat
    OBVIOUS
  <2> QED  BY <2>1 DEF Between
<1>2. /\ Len(l) = m + 2 /\ l[1] = Punct("lbracket") /\ l[m + 2] = Punct("rbracket")
      /\ \A j \in 1 .. m : l[j + 1] = IF j % 2 = 1 THEN v[(j + 1) \div 2] ELSE Punct("comma")
  BY ListIs
<1>3. (m + 1) \div 2 = Len(v)
  BY <1>1, HalfSpan
<1>4. \A j \in 1 .. m : j % 2 = 1 => (j + 1) \div 2 \in 1 .. Len(v)
  BY <1>1, Halves
<1> HIDE DEF m, l
<1>5. a + m + 1 <= Len(b) /\ \A j \in 1 .. m + 2 : Token(b, a + j - 1) = l[j]
  <2>1. a + Len(l) - 1 <= Len(b) /\ \A j \in 1 .. Len(l) : b[a + j - 1] = l[j]
    BY DEF Lies, l
  <2>2. Len(b) \in Nat
    OBVIOUS
  <2>3. ASSUME NEW j \in 1 .. m + 2 PROVE Token(b, a + j - 1) = l[j]
    <3>1. a + j - 1 \in Nat \ {0} /\ a + j - 1 <= Len(b)
      BY <1>1, <1>2, <2>1, <2>2
    <3> QED  BY <3>1, <2>1, <1>1, <1>2, TokenThere
  <2>4. a + m + 1 <= Len(b)
    BY <1>1, <1>2, <2>1, <2>2
  <2> QED  BY <2>3, <2>4
<1>6. \A j \in 1 .. m : Token(b, a + j) = l[j + 1]
  <2> TAKE j \in 1 .. m
  <2>1. j + 1 \in 1 .. m + 2 /\ a + (j + 1) - 1 = a + j
    BY <1>1
  <2> QED  BY <2>1, <1>5
<1>7. Token(b, a) = Punct("lbracket") /\ Token(b, a + (m + 1)) = Punct("rbracket")
  <2>1. 1 \in 1 .. m + 2 /\ m + 2 \in 1 .. m + 2 /\ a + 1 - 1 = a
        /\ a + (m + 2) - 1 = a + (m + 1)
    BY <1>1
  <2> QED  BY <2>1, <1>2, <1>5
<1>8. Reaches(b, a, m + 1)
  <2>1. ASSUME NEW j \in 1 .. (m + 1) - 1
        PROVE  IF j % 2 = 1 THEN IsString(Token(b, a + j))
               ELSE Token(b, a + j) = Punct("comma")
    <3>1. j \in 1 .. m
      BY <1>1
    <3>2. CASE j % 2 = 1
      <4>1. Token(b, a + j) = v[(j + 1) \div 2]
        BY <3>1, <3>2, <1>2, <1>6
      <4>2. v[(j + 1) \div 2] \in Texts
        BY <3>1, <3>2, <1>4
      <4> QED  BY <3>2, <4>1, <4>2 DEF IsString, Texts
    <3>3. CASE j % 2 # 1
      BY <3>1, <3>3, <1>2, <1>6
    <3> QED  BY <3>2, <3>3
  <2> QED  BY <2>1, <1>7 DEF Reaches
<1>9. m + 1 \in Spans(b, a)
  <2>1. Len(b) \in Nat
    OBVIOUS
  <2> QED  BY <2>1, <1>1, <1>5, <1>8 DEF Spans
<1>10. Span(b, a) = m + 1
  BY <1>9, SpanUnique
<1>11. \A j \in 1 .. Len(v) : Token(b, a + 2 * j - 1) = v[j]
  <2> TAKE j \in 1 .. Len(v)
  <2>1. j \in Nat /\ 1 <= j /\ 2 * j - 1 <= 2 * Len(v) - 1 /\ Len(v) # 0
    BY <1>1
  <2>2. 2 * j - 1 \in 1 .. m
    BY <2>1, <1>1 DEF m, Between
  <2>3. (2 * j - 1) % 2 = 1 /\ ((2 * j - 1) + 1) \div 2 = j
    BY <2>1
  <2>4. a + (2 * j - 1) = a + 2 * j - 1
    BY <2>1
  <2>5. Token(b, a + (2 * j - 1)) = v[((2 * j - 1) + 1) \div 2]
    BY <2>2, <2>3, <1>2, <1>6
  <2> QED  BY <2>3, <2>4, <2>5
<1>12. Strung(b, a) = v
  <2>1. Strung(b, a) = [j \in 1 .. Len(v) |-> Token(b, a + 2 * j - 1)]
    BY <1>3, <1>10 DEF Strung
  <2>2. v = [j \in 1 .. Len(v) |-> v[j]]
    OBVIOUS
  <2> QED  BY <2>1, <2>2, <1>11
<1> QED  BY <1>7, <1>9, <1>10, <1>12 DEF m

LEMMA ListOfSpan ==
  ASSUME NEW n \in Nat, n # 0
  PROVE  /\ n \div 2 \in Nat
         /\ \E tr \in BOOLEAN : Between(n \div 2, tr) = n - 1
         /\ \A j \in 1 .. n \div 2 : 2 * j - 1 \in 1 .. n - 1 /\ (2 * j - 1) % 2 = 1
<1>1. n \div 2 \in Nat /\ (n = 2 * (n \div 2) \/ n = 2 * (n \div 2) + 1)
  OBVIOUS
<1> DEFINE h == n \div 2
<1>2. h \in Nat /\ (n = 2 * h \/ n = 2 * h + 1)
  BY <1>1
<1> HIDE DEF h
<1>3. \E tr \in BOOLEAN : Between(h, tr) = n - 1
  <2>1. CASE n = 2 * h
    <3>1. h # 0 /\ Between(h, FALSE) = n - 1
      BY <1>2, <2>1 DEF Between
    <3> QED  BY <3>1
  <2>2. CASE n = 2 * h + 1
    <3>1. Between(h, TRUE) = n - 1
      BY <1>2, <2>2 DEF Between
    <3> QED  BY <3>1
  <2> QED  BY <1>2, <2>1, <2>2
<1>4. \A j \in 1 .. h : 2 * j - 1 \in 1 .. n - 1 /\ (2 * j - 1) % 2 = 1
  BY <1>2
<1> QED  BY <1>2, <1>3, <1>4 DEF h

LEMMA SpanReadsList ==
  ASSUME NEW b \in Seq(Tokens), NEW a \in Nat \ {0}, Token(b, a) = Punct("lbracket"),
         NEW n \in Spans(b, a)
  PROVE  /\ Strung(b, a) \in Seq(Texts)
         /\ \E tr \in BOOLEAN : /\ Lies(b, a, List(Strung(b, a), tr))
                                /\ Len(List(Strung(b, a), tr)) = n + 1
<1> DEFINE v == Strung(b, a)
           h == n \div 2
<1>1. n \in Nat /\ n # 0 /\ Reaches(b, a, n) /\ Span(b, a) = n /\ Len(b) \in Nat
  BY SpanUnique DEF Spans
<1>2. /\ h \in Nat /\ \E tr \in BOOLEAN : Between(h, tr) = n - 1
      /\ \A j \in 1 .. h : 2 * j - 1 \in 1 .. n - 1 /\ (2 * j - 1) % 2 = 1
  BY <1>1, ListOfSpan
<1>3. v = [j \in 1 .. h |-> Token(b, a + 2 * j - 1)]
  BY <1>1 DEF Strung
<1> HIDE DEF h, v
<1>4. \A k \in Nat \ {0} : k > Len(b) => Token(b, k) = <<"end", 0>>
  BY TokenThere
<1>5. \A j \in 1 .. n - 1 : IF j % 2 = 1 THEN IsString(Token(b, a + j))
                            ELSE Token(b, a + j) = Punct("comma")
  BY <1>1 DEF Reaches
<1>6. a + n <= Len(b) /\ Token(b, a + n) = Punct("rbracket")
  <2>1. Token(b, a + n) = Punct("rbracket")
    BY <1>1 DEF Reaches
  <2>2. a + n \in Nat \ {0}
    BY <1>1
  <2> QED  BY <1>1, <1>4, <2>1, <2>2, MarksAreNoStrings
<1>7. \A j \in 1 .. n - 1 : j % 2 = 1 => Token(b, a + j) \in Texts
  <2> TAKE j \in 1 .. n - 1
  <2>1. a + j \in Nat \ {0} /\ a + j <= Len(b)
    BY <1>1, <1>6
  <2>2. Token(b, a + j) \in Tokens
    BY <2>1, TokenThere
  <2> QED  BY <2>2, <1>5, TokenKinds
<1>8. \A j \in 1 .. h : v[j] = Token(b, a + (2 * j - 1)) /\ v[j] \in Texts
  <2> TAKE j \in 1 .. h
  <2>1. a + (2 * j - 1) = a + 2 * j - 1
    BY <1>2
  <2>2. v[j] = Token(b, a + (2 * j - 1))
    BY <1>3, <2>1
  <2> QED  BY <2>2, <1>2, <1>7
<1>9. v \in Seq(Texts) /\ Len(v) = h
  <2>1. v \in [1 .. h -> Texts]
    BY <1>3, <1>8
  <2> QED  BY <2>1, <1>2
<1>10. PICK tr \in BOOLEAN : Between(h, tr) = n - 1
  BY <1>2
<1> DEFINE l == List(v, tr)
<1>11. /\ Len(l) = n + 1 /\ l[1] = Punct("lbracket") /\ l[n + 1] = Punct("rbracket")
       /\ \A j \in 1 .. n - 1 : l[j + 1] = IF j % 2 = 1 THEN v[(j + 1) \div 2]
                                          ELSE Punct("comma")
  <2>1. /\ Len(l) = (n - 1) + 2 /\ l[1] = Punct("lbracket")
        /\ l[(n - 1) + 2] = Punct("rbracket")
        /\ \A j \in 1 .. n - 1 : l[j + 1] = IF j % 2 = 1 THEN v[(j + 1) \div 2]
                                            ELSE Punct("comma")
    BY <1>9, <1>10, ListIs
  <2>2. (n - 1) + 2 = n + 1
    BY <1>1
  <2> QED  BY <2>1, <2>2
<1> HIDE DEF l
<1>12. \A k \in 1 .. n + 1 : b[a + k - 1] = Token(b, a + (k - 1))
  <2> TAKE k \in 1 .. n + 1
  <2>1. a + k - 1 = a + (k - 1) /\ a + (k - 1) \in Nat \ {0} /\ a + (k - 1) <= Len(b)
    BY <1>1, <1>6
  <2> QED  BY <2>1, TokenThere
<1>13. \A j \in 1 .. n - 1 : Token(b, a + j) = l[j + 1]
  <2> TAKE j \in 1 .. n - 1
  <2>1. CASE j % 2 = 1
    <3> DEFINE i == (j + 1) \div 2
    <3>1. 2 * i - 1 = j /\ i \in 1 .. h
      BY <2>1, <1>1 DEF h
    <3>2. v[i] = Token(b, a + (2 * i - 1))
      BY <3>1, <1>8
    <3> QED  BY <3>1, <3>2, <2>1, <1>11
  <2>2. CASE j % 2 # 1
    BY <2>2, <1>5, <1>11
  <2> QED  BY <2>1, <2>2
<1>14. Lies(b, a, l)
  <2>1. ASSUME NEW k \in 1 .. Len(l) PROVE b[a + k - 1] = l[k]
    <3>1. k \in 1 .. n + 1
      BY <1>11
    <3>2. CASE k = 1
      <4>1. a + (k - 1) = a
        BY <3>2
      <4> QED  BY <3>1, <3>2, <4>1, <1>11, <1>12
    <3>3. CASE k = n + 1
      <4>1. a + (k - 1) = a + n
        BY <3>3, <1>1
      <4> QED  BY <3>1, <3>3, <4>1, <1>6, <1>11, <1>12
    <3>4. CASE k # 1 /\ k # n + 1
      <4>1. k - 1 \in 1 .. n - 1 /\ (k - 1) + 1 = k
        BY <3>1, <3>4, <1>1
      <4>2. Token(b, a + (k - 1)) = l[(k - 1) + 1]
        BY <4>1, <1>13
      <4> QED  BY <3>1, <4>1, <4>2, <1>12
    <3> QED  BY <3>2, <3>3, <3>4
  <2>2. a + Len(l) - 1 <= Len(b)
    BY <1>1, <1>6, <1>11
  <2> QED  BY <2>1, <2>2 DEF Lies
<1> QED  BY <1>9, <1>11, <1>14 DEF v, l

-----------------------------------------------------------------------------
(***************************************************************************)
(* One item: if reading it succeeds, its piece lies at the cursor; and if  *)
(* a piece of it lies there, reading succeeds with what the piece tells.   *)
(***************************************************************************)
LEMMA ReadItemIs ==
  ASSUME NEW b, NEW c, NEW item
  PROVE  /\ item.op = "byte" => ReadItem(b, c, item) = expectByte(b, c, item.arg)
         /\ item.op = "key" => ReadItem(b, c, item) = expectKeyAt(b, c, item.arg)
         /\ item.op = "string" => ReadItem(b, c, item) = readStringAt(b, c, item.arg)
         /\ item.op = "strings" => ReadItem(b, c, item) = readStringArrayAt(b, c, item.arg)
         /\ item.op = "float" => ReadItem(b, c, item) = readFloat32At(b, c, item.arg)
         /\ item.op = "int" => ReadItem(b, c, item) = readInt32At(b, c, item.arg)
         /\ item.op = "bool" => ReadItem(b, c, item) = readBoolAt(b, c, item.arg)
         /\ item.op = "time" => ReadItem(b, c, item) = readTimeAt(b, c, item.arg)
BY DEF ReadItem

(* A piece of one token lies where the token is. *)
LEMMA LiesOne ==
  ASSUME NEW b \in Seq(Tokens), NEW a \in Nat \ {0}, NEW t, t # <<"end", 0>>
  PROVE  Lies(b, a, <<t>>) <=> Token(b, a) = t
<1>1. Len(<<t>>) = 1 /\ <<t>>[1] = t /\ Len(b) \in Nat /\ a + 1 - 1 = a
  OBVIOUS
<1>2. Lies(b, a, <<t>>) <=> a <= Len(b) /\ b[a] = t
  BY <1>1 DEF Lies
<1> QED  BY <1>1, <1>2, TokenThere

LEMMA LiesTwo ==
  ASSUME NEW b \in Seq(Tokens), NEW a \in Nat \ {0}, NEW s, NEW t,
         s # <<"end", 0>>, t # <<"end", 0>>
  PROVE  Lies(b, a, <<s, t>>) <=> Token(b, a) = s /\ Token(b, a + 1) = t
<1> DEFINE p == <<s, t>>
<1>1. Len(p) = 2 /\ p[1] = s /\ p[2] = t /\ Len(b) \in Nat /\ a + 1 - 1 = a /\ a + 2 - 1 = a + 1
  OBVIOUS
<1> HIDE DEF p
<1>2. Lies(b, a, p) <=> a + 1 <= Len(b) /\ b[a] = s /\ b[a + 1] = t
  <2>1. Lies(b, a, p) <=> a + 1 <= Len(b) /\ \A j \in 1 .. 2 : b[a + j - 1] = p[j]
    BY <1>1 DEF Lies
  <2>2. (\A j \in 1 .. 2 : b[a + j - 1] = p[j]) <=> b[a] = s /\ b[a + 1] = t
    <3>1. \A j \in 1 .. 2 : j = 1 \/ j = 2
      OBVIOUS
    <3> QED  BY <1>1, <3>1
  <2> QED  BY <2>1, <2>2
<1>3. /\ a <= Len(b) => Token(b, a) = b[a]
      /\ a > Len(b) => Token(b, a) = <<"end", 0>>
      /\ a + 1 <= Len(b) => Token(b, a + 1) = b[a + 1]
      /\ a + 1 > Len(b) => Token(b, a + 1) = <<"end", 0>>
  <2>1. a + 1 \in Nat \ {0}
    OBVIOUS
  <2> QED  BY <2>1, TokenThere
<1> QED  BY <1>1, <1>2, <1>3 DEF p

(* Both facts of an item in one: what is read is what the piece tells. *)
Match(b, c, item, p, v) ==
  /\ Takes(item, p, v) /\ Lies(b, c.at, p)
  /\ ReadItem(b, c, item) = Taken(c, item, Len(p), v)

LEMMA NotEnd ==
  /\ \A m : Punct(m) # <<"end", 0>> /\ String(m) # <<"end", 0>> /\ Word(m) # <<"end", 0>>
  /\ \A m : <<"number", m>> # <<"end", 0>> /\ <<"time", m>> # <<"end", 0>>
  /\ \A t \in Texts : t # <<"end", 0>>
  /\ \A t \in Floats : t # <<"end", 0>>
BY DEF Punct, String, Word, Texts, Floats

LEMMA ByteRead ==
  ASSUME NEW b \in Seq(Tokens), NEW c \in Cursor, c.ok, NEW item \in Items,
         item.op = "byte", NEW p, NEW v
  PROVE  /\ ReadItem(b, c, item).ok => Match(b, c, item, <<Punct(item.arg)>>, v)
         /\ Takes(item, p, v) /\ Lies(b, c.at, p) => Match(b, c, item, p, v)
<1>1. c.at \in Nat \ {0}
  BY DEF Cursor
<1>2. ReadItem(b, c, item) = expectByte(b, c, item.arg)
  BY ReadItemIs
<1>3. Lies(b, c.at, <<Punct(item.arg)>>) <=> Token(b, c.at) = Punct(item.arg)
  BY <1>1, NotEnd, LiesOne
<1>4. \A q, w : Takes(item, q, w) <=> q = <<Punct(item.arg)>>
  BY DEF Takes
<1>5. Skip(c, 1) = Taken(c, item, 1, v) /\ Len(<<Punct(item.arg)>>) = 1
  BY SkipIs DEF Taken, Told, ReadsField
<1> QED  BY <1>2, <1>3, <1>4, <1>5, RefuseIs DEF Match, expectByte

LEMMA KeyRead ==
  ASSUME NEW b \in Seq(Tokens), NEW c \in Cursor, c.ok, NEW item \in Items,
         item.op = "key", NEW p, NEW v
  PROVE  /\ ReadItem(b, c, item).ok => Match(b, c, item, Said(item.arg), v)
         /\ Takes(item, p, v) /\ Lies(b, c.at, p) => Match(b, c, item, p, v)
<1>1. c.at \in Nat \ {0}
  BY DEF Cursor
<1>2. ReadItem(b, c, item) = expectKeyAt(b, c, item.arg)
  BY ReadItemIs
<1>3. Lies(b, c.at, Said(item.arg))
        <=> Token(b, c.at) = String(item.arg) /\ Token(b, c.at + 1) = Punct("colon")
  BY <1>1, NotEnd, LiesTwo DEF Said
<1>4. \A q, w : Takes(item, q, w) <=> q = Said(item.arg)
  BY DEF Takes
<1>5. Skip(c, 2) = Taken(c, item, 2, v) /\ Len(Said(item.arg)) = 2
  BY SkipIs DEF Taken, Told, ReadsField, Said
<1> QED  BY <1>2, <1>3, <1>4, <1>5, RefuseIs DEF Match, expectKeyAt

(* A field whose value is one token. *)
LEMMA SetTaken ==
  ASSUME NEW c \in Cursor, NEW item, ReadsField(item), NEW t, NEW v
  PROVE  Set(c, item.arg, v) = Taken(c, item, Len(<<t>>), v) /\ (c.ok => Set(c, item.arg, v).ok)
<1>1. Len(<<t>>) = 1
  OBVIOUS
<1> QED  BY <1>1, SetIs DEF Taken, Told

LEMMA WordRead ==
  ASSUME NEW b \in Seq(Tokens), NEW c \in Cursor, c.ok, NEW item \in Items,
         item.op \in {"string", "float"}
  PROVE  /\ ReadItem(b, c, item).ok => \E p, v : Match(b, c, item, p, v)
         /\ \A p, v : Takes(item, p, v) /\ Lies(b, c.at, p) => Match(b, c, item, p, v)
<1> DEFINE t == Token(b, c.at)
           Good == IF item.op = "string" THEN Texts ELSE Floats
<1>1. c.at \in Nat \ {0} /\ ReadsField(item)
  BY DEF Cursor, ReadsField
<1>2. ReadItem(b, c, item) = IF t \in Good THEN Set(c, item.arg, t) ELSE Refuse(c)
  <2>1. t \in Tokens \/ t = <<"end", 0>>
    BY <1>1, TokenThere
  <2>2. /\ IsString(t) <=> t \in Texts
        /\ t[1] \in {"number", "decimal"} <=> t \in Floats
    <3>1. CASE t \in Tokens
      BY <3>1, TokenKinds
    <3>2. CASE t = <<"end", 0>>
      BY <3>2, NotEnd DEF IsString
    <3> QED  BY <2>1, <3>1, <3>2
  <2> HIDE DEF t
  <2>3. CASE item.op = "string"
    BY <2>2, <2>3, ReadItemIs DEF readStringAt, t
  <2>4. CASE item.op = "float"
    BY <2>2, <2>4, ReadItemIs DEF readFloat32At, t
  <2> QED  BY <2>3, <2>4
<1>3. \A p, v : Takes(item, p, v) <=> v \in Good /\ p = <<v>>
  BY DEF Takes
<1>4. \A v \in Good : Lies(b, c.at, <<v>>) <=> t = v
  BY <1>1, NotEnd, LiesOne
<1> HIDE DEF t, Good
<1>5. ASSUME t \in Good PROVE Match(b, c, item, <<t>>, t)
  BY <1>1, <1>2, <1>3, <1>4, <1>5, SetTaken DEF Match
<1> QED  BY <1>2, <1>3, <1>4, <1>5, RefuseIs

LEMMA IntRead ==
  ASSUME NEW b \in Seq(Tokens), NEW c \in Cursor, c.ok, NEW item \in Items, item.op = "int"
  PROVE  /\ ReadItem(b, c, item).ok => \E p, v : Match(b, c, item, p, v)
         /\ \A p, v : Takes(item, p, v) /\ Lies(b, c.at, p) => Match(b, c, item, p, v)
<1> DEFINE t == Token(b, c.at)
           Counted(n) == <<"number", n>>
<1>1. c.at \in Nat \ {0} /\ ReadsField(item)
  BY DEF Cursor, ReadsField
<1>2. /\ ~ (\E n \in Nat : t = Counted(n)) => ReadItem(b, c, item) = Refuse(c)
      /\ \A n \in Nat : t = Counted(n) => ReadItem(b, c, item) = Set(c, item.arg, Wrapped(n))
  <2>1. ReadItem(b, c, item) = IF t[1] = "number" /\ t[2] >= 0
                               THEN Set(c, item.arg, Wrapped(t[2])) ELSE Refuse(c)
    BY ReadItemIs DEF readInt32At
  <2>2. t \in Tokens \/ t = <<"end", 0>>
    BY <1>1, TokenThere
  <2> HIDE DEF t
  <2>3. t[1] = "number" => \E n \in Int : t = Counted(n)
    <3>1. CASE t \in Tokens
      BY <3>1, TokenKinds
    <3>2. CASE t = <<"end", 0>>
      BY <3>2
    <3> QED  BY <2>2, <3>1, <3>2
  <2>4. \A n \in Int : Counted(n)[1] = "number" /\ Counted(n)[2] = n
    OBVIOUS
  <2> HIDE DEF Counted
  <2>5. t[1] = "number" /\ t[2] >= 0 => \E n \in Nat : t = Counted(n)
    BY <2>3, <2>4
  <2>6. \A n \in Nat : t = Counted(n) => t[1] = "number" /\ t[2] >= 0 /\ t[2] = n
    BY <2>4
  <2> QED  BY <2>1, <2>5, <2>6
<1>3. \A p, v : Takes(item, p, v) <=> \E n \in Nat : p = <<Counted(n)>> /\ v = Wrapped(n)
  BY DEF Takes, Number
<1>4. \A n \in Nat : Lies(b, c.at, <<Counted(n)>>) <=> t = Counted(n)
  BY <1>1, NotEnd, LiesOne
<1> HIDE DEF t, Counted
<1>5. ASSUME NEW n \in Nat, t = Counted(n)
      PROVE  Match(b, c, item, <<Counted(n)>>, Wrapped(n))
  BY <1>1, <1>2, <1>3, <1>4, <1>5, SetTaken DEF Match
<1>6. ReadItem(b, c, item).ok => \E p, v : Match(b, c, item, p, v)
  BY <1>2, <1>5, RefuseIs
<1>7. ASSUME NEW p, NEW v, Takes(item, p, v), Lies(b, c.at, p) PROVE Match(b, c, item, p, v)
  <2>1. PICK n \in Nat : p = <<Counted(n)>> /\ v = Wrapped(n)
    BY <1>3, <1>7
  <2>2. t = Counted(n)
    BY <2>1, <1>4, <1>7
  <2> QED  BY <2>1, <2>2, <1>5
<1> QED  BY <1>6, <1>7

LEMMA BoolRead ==
  ASSUME NEW b \in Seq(Tokens), NEW c \in Cursor, c.ok, NEW item \in Items, item.op = "bool"
  PROVE  /\ ReadItem(b, c, item).ok => \E p, v : Match(b, c, item, p, v)
         /\ \A p, v : Takes(item, p, v) /\ Lies(b, c.at, p) => Match(b, c, item, p, v)
<1> DEFINE t == Token(b, c.at)
<1>1. c.at \in Nat \ {0} /\ ReadsField(item)
  BY DEF Cursor, ReadsField
<1>2. Word("true") # Word("false")
  BY DEF Word
<1>3. ReadItem(b, c, item) = IF t \in {Word("true"), Word("false")}
                             THEN Set(c, item.arg, t = Word("true")) ELSE Refuse(c)
  BY ReadItemIs DEF readBoolAt
<1>4. \A w \in {"true", "false"} : Lies(b, c.at, <<Word(w)>>) <=> t = Word(w)
  BY <1>1, NotEnd, LiesOne
<1>5. \A p : /\ Takes(item, p, TRUE) <=> p = <<Word("true")>>
             /\ Takes(item, p, FALSE) <=> p = <<Word("false")>>
  BY DEF Takes, Bool
<1>6. \A p, v : Takes(item, p, v) => v = TRUE \/ v = FALSE
  BY DEF Takes
<1> HIDE DEF t
<1>7. ASSUME t = Word("true") PROVE Match(b, c, item, <<Word("true")>>, TRUE)
  <2>1. (t = Word("true")) = TRUE
    BY <1>7
  <2>2. ReadItem(b, c, item) = Set(c, item.arg, TRUE)
    BY <1>3, <1>7, <2>1
  <2> QED  BY <1>1, <1>4, <1>5, <1>7, <2>2, SetTaken DEF Match
<1>8. ASSUME t = Word("false") PROVE Match(b, c, item, <<Word("false")>>, FALSE)
  <2>1. (t = Word("true")) = FALSE
    BY <1>2, <1>8
  <2>2. ReadItem(b, c, item) = Set(c, item.arg, FALSE)
    BY <1>3, <1>8, <2>1
  <2> QED  BY <1>1, <1>4, <1>5, <1>8, <2>2, SetTaken DEF Match
<1>9. ReadItem(b, c, item).ok => \E p, v : Match(b, c, item, p, v)
  BY <1>3, <1>7, <1>8, RefuseIs
<1>10. ASSUME NEW p, NEW v, Takes(item, p, v), Lies(b, c.at, p) PROVE Match(b, c, item, p, v)
  <2>1. CASE v = TRUE
    <3>1. Takes(item, p, TRUE)
      BY <2>1, <1>10
    <3>2. p = <<Word("true")>>
      BY <3>1, <1>5
    <3>3. t = Word("true")
      BY <3>2, <1>4, <1>10
    <3> QED  BY <2>1, <3>2, <3>3, <1>7
  <2>2. CASE v = FALSE
    <3>1. Takes(item, p, FALSE)
      BY <2>2, <1>10
    <3>2. p = <<Word("false")>>
      BY <3>1, <1>5
    <3>3. t = Word("false")
      BY <3>2, <1>4, <1>10
    <3> QED  BY <2>2, <3>2, <3>3, <1>8
  <2> QED  BY <2>1, <2>2, <1>6, <1>10
<1> QED  BY <1>9, <1>10

LEMMA TimeRead ==
  ASSUME NEW b \in Seq(Tokens), NEW c \in Cursor, c.ok, NEW item \in Items, item.op = "time"
  PROVE  /\ ReadItem(b, c, item).ok => \E p, v : Match(b, c, item, p, v)
         /\ \A p, v : Takes(item, p, v) /\ Lies(b, c.at, p) => Match(b, c, item, p, v)
<1> DEFINE t == Token(b, c.at)
           Timed(v) == <<"time", v>>
<1>1. c.at \in Nat \ {0} /\ ReadsField(item)
  BY DEF Cursor, ReadsField
<1>2. ReadItem(b, c, item) = IF t[1] = "time" /\ InRange(t[2])
                             THEN Set(c, item.arg, t[2]) ELSE Refuse(c)
  BY ReadItemIs DEF readTimeAt
<1>3. t[1] = "time" => \E v \in Times : t = Timed(v)
  <2>1. t \in Tokens \/ t = <<"end", 0>>
    BY <1>1, TokenThere
  <2> HIDE DEF t
  <2>2. CASE t \in Tokens
    BY <2>2, TokenKinds
  <2>3. CASE t = <<"end", 0>>
    BY <2>3
  <2> QED  BY <2>1, <2>2, <2>3
<1>4. \A v : Timed(v)[1] = "time" /\ Timed(v)[2] = v
  OBVIOUS
<1>5. \A p, v : Takes(item, p, v) <=> v \in Times /\ InRange(v) /\ p = <<Timed(v)>>
  BY DEF Takes, Time
<1>6. \A v : Lies(b, c.at, <<Timed(v)>>) <=> t = Timed(v)
  BY <1>1, NotEnd, LiesOne
<1> HIDE DEF t, Timed
<1>7. ASSUME NEW v \in Times, InRange(v), t = Timed(v)
      PROVE  Match(b, c, item, <<Timed(v)>>, v)
  <2>1. ReadItem(b, c, item) = Set(c, item.arg, v)
    BY <1>2, <1>4, <1>7
  <2> QED  BY <2>1, <1>1, <1>5, <1>6, <1>7, SetTaken DEF Match
<1>8. ReadItem(b, c, item).ok => \E p, v : Match(b, c, item, p, v)
  <2> SUFFICES ASSUME ReadItem(b, c, item).ok PROVE \E p, v : Match(b, c, item, p, v)
    OBVIOUS
  <2>1. t[1] = "time" /\ InRange(t[2])
    BY <1>2, RefuseIs
  <2>2. PICK v \in Times : t = Timed(v)
    BY <2>1, <1>3
  <2> QED  BY <2>1, <2>2, <1>4, <1>7
<1> QED  BY <1>5, <1>6, <1>7, <1>8

LEMMA AtMoved ==
  ASSUME NEW c, NEW o, NEW x, NEW y, NEW r, c = [ok |-> o, at |-> x, req |-> r]
  PROVE  [c EXCEPT !.at = y] = [ok |-> o, at |-> y, req |-> r]
OBVIOUS

LEMMA StringsRead ==
  ASSUME NEW b \in Seq(Tokens), NEW c \in Cursor, c.ok, NEW item \in Items,
         item.op = "strings"
  PROVE  /\ ReadItem(b, c, item).ok => \E p, v : Match(b, c, item, p, v)
         /\ \A p, v : Takes(item, p, v) /\ Lies(b, c.at, p) => Match(b, c, item, p, v)
<1> DEFINE a == c.at
           v0 == Strung(b, a)
           there == Token(b, a) = Punct("lbracket") /\ Spans(b, a) # {}
<1>1. a \in Nat \ {0} /\ ReadsField(item)
  BY DEF Cursor, ReadsField
<1>2. ReadItem(b, c, item) = IF there THEN [Set(c, item.arg, v0) EXCEPT !.at = a + Span(b, a) + 1]
                             ELSE Refuse(c)
  BY ReadItemIs, ArrayIs
<1>3. ASSUME NEW n \in Nat
      PROVE  [Set(c, item.arg, v0) EXCEPT !.at = a + n + 1] = Taken(c, item, n + 1, v0)
  <2> DEFINE s == Set(c, item.arg, v0)
             r == [c.req EXCEPT ![item.arg] = v0]
             o == c.ok
             x == c.at + 1
             y == a + n + 1
  <2>1. s = [ok |-> o, at |-> x, req |-> r]
    BY SetIs
  <2>2. a + n + 1 = a + (n + 1)
    BY <1>1
  <2>3. Taken(c, item, n + 1, v0) = [ok |-> c.ok, at |-> a + (n + 1), req |-> r]
    BY <1>1 DEF Taken, Told
  <2> HIDE DEF s, r, o, x, y
  <2>4. [s EXCEPT !.at = y] = [ok |-> o, at |-> y, req |-> r]
    BY <2>1, AtMoved
  <2> QED  BY <2>2, <2>3, <2>4 DEF s, o, y
<1>4. \A p, v : Takes(item, p, v)
                  <=> v \in Seq(Texts) /\ \E tr \in BOOLEAN : p = List(v, tr)
  BY DEF Takes
<1>5. ReadItem(b, c, item).ok => \E p, v : Match(b, c, item, p, v)
  <2> SUFFICES ASSUME ReadItem(b, c, item).ok PROVE \E p, v : Match(b, c, item, p, v)
    OBVIOUS
  <2>1. there
    BY <1>2, RefuseIs
  <2>2. PICK n \in Spans(b, a) : TRUE
    BY <2>1
  <2>3. n \in Nat /\ Span(b, a) = n
    BY <1>1, <2>2, SpanUnique DEF Spans
  <2> HIDE DEF a
  <2>4. PICK tr \in BOOLEAN : Lies(b, a, List(v0, tr)) /\ Len(List(v0, tr)) = n + 1
    BY <2>1, <2>2, <1>1, SpanReadsList
  <2>5. v0 \in Seq(Texts)
    BY <2>1, <2>2, <1>1, SpanReadsList
  <2> HIDE DEF v0
  <2>6. Takes(item, List(v0, tr), v0)
    BY <2>5, <1>4
  <2>7. ReadItem(b, c, item) = Taken(c, item, Len(List(v0, tr)), v0)
    BY <2>1, <2>3, <2>4, <1>2, <1>3
  <2>8. Match(b, c, item, List(v0, tr), v0)
    BY <2>4, <2>6, <2>7 DEF Match, a
  <2> QED  BY <2>8
<1>6. ASSUME NEW p, NEW v, Takes(item, p, v), Lies(b, c.at, p) PROVE Match(b, c, item, p, v)
  <2>1. PICK tr \in BOOLEAN : v \in Seq(Texts) /\ p = List(v, tr)
    BY <1>4, <1>6
  <2> DEFINE m == Between(Len(v), tr)
  <2>2. /\ Token(b, a) = Punct("lbracket") /\ m + 1 \in Spans(b, a)
        /\ Span(b, a) = m + 1 /\ v0 = v
    BY <1>1, <1>6, <2>1, SpanIsList
  <2>3. Len(p) = m + 2
    BY <2>1, ListIs
  <2>4. m \in Nat
    <3>1. Len(v) \in Nat
      BY <2>1
    <3> QED  BY <3>1 DEF Between
  <2> HIDE DEF m
  <2>5. ReadItem(b, c, item) = Taken(c, item, (m + 1) + 1, v)
    <3>1. there
      BY <2>2
    <3>2. m + 1 \in Nat
      BY <2>4
    <3>3. [Set(c, item.arg, v0) EXCEPT !.at = a + (m + 1) + 1]
            = Taken(c, item, (m + 1) + 1, v0)
      BY <3>2, <1>3
    <3> HIDE DEF a, v0
    <3> QED  BY <1>2, <2>2, <3>1, <3>3
  <2>6. (m + 1) + 1 = m + 2
    BY <2>4
  <2> QED  BY <2>3, <2>5, <2>6, <1>6 DEF Match
<1> QED  BY <1>5, <1>6

LEMMA ItemRead ==
  ASSUME NEW b \in Seq(Tokens), NEW c \in Cursor, c.ok, NEW item \in Items
  PROVE  /\ ReadItem(b, c, item).ok => \E p, v : Match(b, c, item, p, v)
         /\ \A p, v : Takes(item, p, v) /\ Lies(b, c.at, p) => Match(b, c, item, p, v)
<1>1. CASE item.op = "byte"
  BY <1>1, ByteRead
<1>2. CASE item.op = "key"
  BY <1>2, KeyRead
<1>3. CASE item.op \in {"string", "float"}
  BY <1>3, WordRead
<1>4. CASE item.op = "int"
  BY <1>4, IntRead
<1>5. CASE item.op = "bool"
  BY <1>5, BoolRead
<1>6. CASE item.op = "time"
  BY <1>6, TimeRead
<1>7. CASE item.op = "strings"
  BY <1>7, StringsRead
<1> QED  BY <1>1, <1>2, <1>3, <1>4, <1>5, <1>6, <1>7, ItemKinds

-----------------------------------------------------------------------------
(***************************************************************************)
(* The pass over a list of items.  The definition of ReadAll, by recursion *)
(* over the items, makes sense up to any of them, because there is no      *)
(* first one where it fails to.                                            *)
(***************************************************************************)
PassStep(b, items, before, k) ==
  IF before.ok THEN ReadItem(b, before, items[k]) ELSE before
PassRule(b, c, items, m, f) ==
  f = [k \in 0 .. m |-> IF k = 0 THEN c ELSE PassStep(b, items, f[k - 1], k)]

LEMMA PassExists ==
  ASSUME NEW b, NEW c, NEW items, NEW m \in Nat
  PROVE  \E f : PassRule(b, c, items, m, f)
<1> DEFINE Good == {k \in Nat : \E f : PassRule(b, c, items, k, f)}
<1>1. 0 \in Good
  <2>1. PassRule(b, c, items, 0, [k \in 0 .. 0 |-> c])
    BY DEF PassRule
  <2> QED  BY <2>1
<1>2. ASSUME NEW k \in 0 .. m - 1, k \in Good PROVE k + 1 \in Good
  <2>1. PICK f : PassRule(b, c, items, k, f)
    BY <1>2
  <2> DEFINE h == [j \in 0 .. k + 1 |-> IF j <= k THEN f[j] ELSE PassStep(b, items, f[k], k + 1)]
  <2>2. \A j \in 0 .. k : f[j] = IF j = 0 THEN c ELSE PassStep(b, items, f[j - 1], j)
    BY <2>1 DEF PassRule
  <2>3. \A j \in 0 .. k + 1 : h[j] = IF j = 0 THEN c ELSE PassStep(b, items, h[j - 1], j)
    <3> TAKE j \in 0 .. k + 1
    <3>1. CASE j = k + 1
      <4>1. h[j] = PassStep(b, items, f[k], k + 1) /\ h[j - 1] = f[k] /\ j # 0
        BY <3>1
      <4> QED  BY <4>1, <3>1
    <3>2. CASE j <= k
      <4>1. h[j] = f[j] /\ (j # 0 => h[j - 1] = f[j - 1]) /\ j \in 0 .. k
        BY <3>2
      <4> HIDE DEF h
      <4> QED  BY <4>1, <2>2
    <3> QED  BY <3>1, <3>2
  <2>4. h = [j \in 0 .. k + 1 |-> IF j = 0 THEN c ELSE PassStep(b, items, h[j - 1], j)]
    <3>1. h = [j \in 0 .. k + 1 |-> h[j]]
      OBVIOUS
    <3> HIDE DEF h
    <3> QED  BY <3>1, <2>3
  <2> HIDE DEF h
  <2>5. PassRule(b, c, items, k + 1, h)
    BY <2>4 DEF PassRule
  <2> QED  BY <2>5
<1> HIDE DEF Good
<1>3. \A k \in 0 .. m : k \in Good
  BY <1>1, <1>2, Climb
<1> QED  BY <1>3 DEF Good

LEMMA PassIs ==
  ASSUME NEW b, NEW c, NEW items, Len(items) \in Nat
  PROVE  \E f : /\ f[0] = c /\ ReadAll(b, c, items) = f[Len(items)]
                /\ \A k \in 1 .. Len(items) : f[k] = PassStep(b, items, f[k - 1], k)
<1> DEFINE f == CHOOSE f : PassRule(b, c, items, Len(items), f)
<1>1. ReadAll(b, c, items) = f[Len(items)]
  BY DEF ReadAll, PassRule, PassStep
<1>2. PassRule(b, c, items, Len(items), f)
  BY PassExists
<1> HIDE DEF f
<1>3. \A k \in 0 .. Len(items) : f[k] = IF k = 0 THEN c ELSE PassStep(b, items, f[k - 1], k)
  BY <1>2 DEF PassRule
<1>4. f[0] = c /\ \A k \in 1 .. Len(items) : f[k] = PassStep(b, items, f[k - 1], k)
  BY <1>3
<1> QED  BY <1>1, <1>4

(* The cursor behind a piece is a cursor again. *)
LEMMA WrappedIsInt ==
  ASSUME NEW n \in Int
  PROVE  Wrapped(n) \in Int
<1> DEFINE h == IntMod \div 2
<1>1. IntMod \in Nat \ {0}
  BY ParserAssumption
<1>2. h \in Int
  BY <1>1
<1> HIDE DEF h
<1>3. ((n + h) % IntMod) \in Int
  BY <1>1, <1>2
<1> QED  BY <1>2, <1>3 DEF Wrapped, h

LEMMA ToldTyped ==
  ASSUME NEW r \in Request, NEW item \in Items, NEW p, NEW v, Takes(item, p, v)
  PROVE  Told(item, r, v) \in Request
<1>1. CASE item.op = "byte" \/ item.op = "key"
  BY <1>1 DEF Told, ReadsField
<1>2. CASE item.op = "string" /\ item.arg \in TextFields
  <2>1. v \in Texts
    BY <1>2 DEF Takes
  <2> QED  BY <1>2, <2>1 DEF Told, ReadsField, Request, TextFields
<1>3. CASE item.op = "float" /\ item.arg \in FloatFields
  <2>1. v \in Floats
    BY <1>3 DEF Takes
  <2> QED  BY <1>3, <2>1 DEF Told, ReadsField, Request, FloatFields
<1>4. CASE item.op = "int" /\ item.arg \in IntFields
  <2>1. v \in Int
    BY <1>4, WrappedIsInt DEF Takes
  <2> QED  BY <1>4, <2>1 DEF Told, ReadsField, Request, IntFields
<1>5. CASE item.op = "bool" /\ item.arg \in BoolFields
  <2>1. v \in BOOLEAN
    BY <1>5 DEF Takes
  <2> QED  BY <1>5, <2>1 DEF Told, ReadsField, Request, BoolFields
<1>6. CASE item.op = "time" /\ item.arg \in TimeFields
  <2>1. v \in Times
    BY <1>6 DEF Takes
  <2> QED  BY <1>6, <2>1 DEF Told, ReadsField, Request, TimeFields
<1>7. CASE item.op = "strings" /\ item.arg \in ListFields
  <2>1. v \in Seq(Texts)
    BY <1>7 DEF Takes
  <2> QED  BY <1>7, <2>1 DEF Told, ReadsField, Request, ListFields
<1> QED  BY <1>1, <1>2, <1>3, <1>4, <1>5, <1>6, <1>7, ItemKinds

LEMMA TakenTyped ==
  ASSUME NEW c \in Cursor, c.ok, NEW item \in Items, NEW p, NEW v, Takes(item, p, v)
  PROVE  /\ Taken(c, item, Len(p), v) \in Cursor /\ Taken(c, item, Len(p), v).ok
         /\ Taken(c, item, Len(p), v).at = c.at + Len(p)
         /\ Taken(c, item, Len(p), v).req = Told(item, c.req, v)
<1>1. Len(p) \in Nat
  BY PiecesTyped
<1>2. c.req \in Request /\ c.at \in Nat \ {0} /\ c.ok \in BOOLEAN
  BY DEF Cursor
<1>3. Told(item, c.req, v) \in Request
  BY <1>2, ToldTyped
<1>4. c.at + Len(p) \in Nat \ {0}
  BY <1>1, <1>2
<1> QED  BY <1>2, <1>3, <1>4 DEF Taken, Cursor

(***************************************************************************)
(* A trail of the pass: cursor f[k] is behind the piece ps[k] of item k,   *)
(* which tells vs[k].                                                      *)
(***************************************************************************)
Trail(b, items, f, ps, vs) ==
  /\ \A k \in 0 .. Len(items) : f[k] \in Cursor /\ f[k].ok
  /\ \A k \in 1 .. Len(items) :
       /\ Takes(items[k], ps[k], vs[k]) /\ Lies(b, f[k - 1].at, ps[k])
       /\ f[k] = Taken(f[k - 1], items[k], Len(ps[k]), vs[k])

(* A pass that succeeds has a trail. *)
LEMMA PassHasTrail ==
  ASSUME NEW b \in Seq(Tokens), NEW c \in Cursor, NEW items \in Seq(Items),
         ReadAll(b, c, items).ok
  PROVE  \E f, ps, vs : /\ f[0] = c /\ f[Len(items)] = ReadAll(b, c, items)
                        /\ Trail(b, items, f, ps, vs)
<1> DEFINE n == Len(items)
<1>1. n \in Nat /\ \A k \in 1 .. n : items[k] \in Items
  OBVIOUS
<1> HIDE DEF n
<1>2. PICK f : /\ f[0] = c /\ ReadAll(b, c, items) = f[n]
               /\ \A k \in 1 .. n : f[k] = PassStep(b, items, f[k - 1], k)
  BY <1>1, PassIs DEF n
<1>3. ASSUME NEW k \in 1 .. n PROVE f[k].ok => f[k - 1].ok
  BY <1>2 DEF PassStep
<1>4. \A k \in 0 .. n : f[k].ok
  <2> SUFFICES ASSUME NEW k \in 0 .. n, ~ f[k].ok PROVE FALSE
    OBVIOUS
  <2> DEFINE Bad == {j \in Nat : k <= j => ~ f[j].ok}
  <2>1. 0 \in Bad
    OBVIOUS
  <2>2. ASSUME NEW j \in 0 .. n - 1, j \in Bad PROVE j + 1 \in Bad
    <3>1. j + 1 \in 1 .. n /\ (j + 1) - 1 = j
      BY <1>1
    <3>2. f[j + 1].ok => f[j].ok
      BY <3>1, <1>3
    <3> QED  BY <3>2, <2>2
  <2> HIDE DEF Bad
  <2>3. \A j \in 0 .. n : j \in Bad
    BY <2>1, <2>2, <1>1, Climb
  <2>4. n \in Bad
    BY <2>3, <1>1
  <2> QED  BY <2>4, <1>1, <1>2 DEF Bad
<1>5. ASSUME NEW k \in 1 .. n, f[k - 1] \in Cursor
      PROVE  \E p, v : Match(b, f[k - 1], items[k], p, v)
  <2>1. f[k - 1].ok /\ f[k].ok /\ items[k] \in Items
    BY <1>1, <1>4
  <2>2. f[k] = ReadItem(b, f[k - 1], items[k])
    BY <2>1, <1>2 DEF PassStep
  <2> QED  BY <2>1, <2>2, <1>5, ItemRead
<1>6. \A k \in 0 .. n : f[k] \in Cursor
  <2> DEFINE Good == {k \in Nat : f[k] \in Cursor}
  <2>1. 0 \in Good
    BY <1>2
  <2>2. ASSUME NEW j \in 0 .. n - 1, j \in Good PROVE j + 1 \in Good
    <3>1. j + 1 \in 1 .. n /\ (j + 1) - 1 = j /\ f[j] \in Cursor /\ f[j].ok
      BY <1>1, <1>4, <2>2
    <3>2. PICK p, v : Match(b, f[j], items[j + 1], p, v)
      BY <3>1, <1>5
    <3>3. f[j + 1] = Taken(f[j], items[j + 1], Len(p), v)
      BY <3>1, <3>2, <1>2 DEF Match, PassStep
    <3>4. f[j + 1] \in Cursor
      BY <3>1, <3>2, <3>3, <1>1, TakenTyped DEF Match
    <3> QED  BY <3>4
  <2> HIDE DEF Good
  <2>3. \A k \in 0 .. n : k \in Good
    BY <2>1, <2>2, <1>1, Climb
  <2> QED  BY <2>3 DEF Good
<1> DEFINE x == [k \in 1 .. n |-> CHOOSE y : Match(b, f[k - 1], items[k], y[1], y[2])]
           ps == [k \in 1 .. n |-> x[k][1]]
           vs == [k \in 1 .. n |-> x[k][2]]
<1>7. ASSUME NEW k \in 1 .. n PROVE Match(b, f[k - 1], items[k], ps[k], vs[k])
  <2>1. k - 1 \in 0 .. n
    BY <1>1
  <2>2. PICK p, v : Match(b, f[k - 1], items[k], p, v)
    BY <2>1, <1>5, <1>6
  <2>3. Match(b, f[k - 1], items[k], <<p, v>>[1], <<p, v>>[2])
    BY <2>2
  <2>4. \E y : Match(b, f[k - 1], items[k], y[1], y[2])
    BY <2>3
  <2>5. Match(b, f[k - 1], items[k], x[k][1], x[k][2])
    BY <2>4
  <2> HIDE DEF x
  <2> QED  BY <2>5
<1> HIDE DEF x, ps, vs
<1>8. \A k \in 1 .. n : f[k] = ReadItem(b, f[k - 1], items[k])
  <2> TAKE k \in 1 .. n
  <2>1. k - 1 \in 0 .. n
    BY <1>1
  <2> QED  BY <2>1, <1>2, <1>4 DEF PassStep
<1>9. Trail(b, items, f, ps, vs)
  BY <1>4, <1>6, <1>7, <1>8 DEF Trail, Match, n
<1> QED  BY <1>2, <1>9 DEF n

(* Pieces of the items, laid end to end, are the trail of a pass. *)
Strewn(b, items, at, ps, vs) ==
  \A k \in 1 .. Len(items) :
    /\ at[k] = at[k - 1] + Len(ps[k])
    /\ Takes(items[k], ps[k], vs[k]) /\ Lies(b, at[k - 1], ps[k])

LEMMA TrailIsPass ==
  ASSUME NEW b \in Seq(Tokens), NEW c \in Cursor, c.ok, NEW items \in Seq(Items),
         NEW at, NEW ps, NEW vs, at[0] = c.at, Strewn(b, items, at, ps, vs)
  PROVE  \E f : /\ f[0] = c /\ f[Len(items)] = ReadAll(b, c, items)
                /\ f[Len(items)].at = at[Len(items)] /\ Trail(b, items, f, ps, vs)
<1> DEFINE n == Len(items)
<1>1. n \in Nat /\ \A k \in 1 .. n : items[k] \in Items
  OBVIOUS
<1> HIDE DEF n
<1>2. PICK f : /\ f[0] = c /\ ReadAll(b, c, items) = f[n]
               /\ \A k \in 1 .. n : f[k] = PassStep(b, items, f[k - 1], k)
  BY <1>1, PassIs DEF n
<1>3. \A k \in 1 .. n : /\ at[k] = at[k - 1] + Len(ps[k])
                        /\ Takes(items[k], ps[k], vs[k]) /\ Lies(b, at[k - 1], ps[k])
  BY DEF n, Strewn
<1>4. ASSUME NEW k \in 1 .. n, f[k - 1] \in Cursor, f[k - 1].ok, f[k - 1].at = at[k - 1]
      PROVE  /\ f[k] = Taken(f[k - 1], items[k], Len(ps[k]), vs[k])
             /\ f[k] \in Cursor /\ f[k].ok /\ f[k].at = at[k]
             /\ Takes(items[k], ps[k], vs[k]) /\ Lies(b, f[k - 1].at, ps[k])
  <2>1. Takes(items[k], ps[k], vs[k]) /\ Lies(b, f[k - 1].at, ps[k]) /\ items[k] \in Items
    BY <1>1, <1>3, <1>4
  <2>2. Match(b, f[k - 1], items[k], ps[k], vs[k])
    BY <2>1, <1>4, ItemRead
  <2>3. f[k] = Taken(f[k - 1], items[k], Len(ps[k]), vs[k])
    BY <2>2, <1>2, <1>4 DEF Match, PassStep
  <2> QED  BY <2>1, <2>3, <1>3, <1>4, TakenTyped
<1>5. \A k \in 0 .. n : f[k] \in Cursor /\ f[k].ok /\ f[k].at = at[k]
  <2> DEFINE Good == {k \in Nat : f[k] \in Cursor /\ f[k].ok /\ f[k].at = at[k]}
  <2>1. 0 \in Good
    BY <1>2
  <2>2. ASSUME NEW j \in 0 .. n - 1, j \in Good PROVE j + 1 \in Good
    <3>1. j + 1 \in 1 .. n /\ (j + 1) - 1 = j /\ f[j] \in Cursor /\ f[j].ok /\ f[j].at = at[j]
      BY <1>1, <2>2
    <3>2. f[j + 1] \in Cursor /\ f[j + 1].ok /\ f[j + 1].at = at[j + 1]
      BY <3>1, <1>4
    <3> QED  BY <3>2
  <2> HIDE DEF Good
  <2>3. \A k \in 0 .. n : k \in Good
    BY <2>1, <2>2, <1>1, Climb
  <2> QED  BY <2>3 DEF Good
<1>6. ASSUME NEW k \in 1 .. n
      PROVE  /\ Takes(items[k], ps[k], vs[k]) /\ Lies(b, f[k - 1].at, ps[k])
             /\ f[k] = Taken(f[k - 1], items[k], Len(ps[k]), vs[k])
  <2>1. k - 1 \in 0 .. n
    BY <1>1
  <2>2. f[k - 1] \in Cursor /\ f[k - 1].ok /\ f[k - 1].at = at[k - 1]
    BY <2>1, <1>5
  <2> QED  BY <2>2, <1>4
<1>7. Trail(b, items, f, ps, vs)
  BY <1>5, <1>6 DEF Trail, n
<1>8. f[n].at = at[n]
  BY <1>1, <1>5
<1> QED  BY <1>2, <1>7, <1>8 DEF n

-----------------------------------------------------------------------------
(***************************************************************************)
(* The fields.  Every one is read by one item only, so what the pass has   *)
(* read of it stays.                                                       *)
(***************************************************************************)
FieldNames == Fields \cup {"has_last"}

LEMMA ToldField ==
  ASSUME NEW r \in Request, NEW item \in Items, NEW v, NEW g \in FieldNames
  PROVE  Told(item, r, v)[g] = IF ReadsField(item) /\ item.arg = g THEN v ELSE r[g]
<1>1. r = [f \in FieldNames |-> r[f]]
  BY DEF Request, FieldNames, Fields, TextFields, FloatFields, IntFields, BoolFields,
         TimeFields, ListFields
<1> QED  BY <1>1 DEF Told

Slot ==
  [id |-> 3, amount |-> 8, installments |-> 11, requested_at |-> 14, avg_amount |-> 20,
   tx_count_24h |-> 23, known_merchants |-> 26, merchant_id |-> 32, mcc |-> 35,
   merchant_avg |-> 38, is_online |-> 44, card_present |-> 47, km_from_home |-> 50]
LastSlot == [timestamp |-> 3, km_from_current |-> 6]

ReadOnce(items, slot) ==
  \A k \in 1 .. Len(items) : ReadsField(items[k]) => slot[items[k].arg] = k

LEMMA PayloadReadOnce == ReadOnce(Payload, Slot)
<1>1. \A k \in 1 .. 53 : ReadsField(Payload[k]) => Slot[Payload[k].arg] = k
  BY DEF Payload, Open, Shut, Comma, Byte, Key, Item, ReadsField, Slot
<1> QED  BY <1>1, ItemsTyped DEF ReadOnce

LEMMA LastReadOnce == ReadOnce(LastTransaction, LastSlot)
<1>1. \A k \in 1 .. 7 : ReadsField(LastTransaction[k]) => LastSlot[LastTransaction[k].arg] = k
  BY DEF LastTransaction, Open, Shut, Comma, Byte, Key, Item, ReadsField, LastSlot
<1> QED  BY <1>1, ItemsTyped DEF ReadOnce

(* The fields that are not read by any of the items. *)
Unread(items, g) == \A k \in 1 .. Len(items) : ReadsField(items[k]) => items[k].arg # g

FieldsKept(items, first, last, vs) ==
  /\ \A k \in 1 .. Len(items) : ReadsField(items[k]) => last.req[items[k].arg] = vs[k]
  /\ \A g \in FieldNames : Unread(items, g) => last.req[g] = first.req[g]

LEMMA FieldsRead ==
  ASSUME NEW b, NEW items \in Seq(Items), NEW f, NEW ps, NEW vs, Trail(b, items, f, ps, vs),
         NEW slot, ReadOnce(items, slot)
  PROVE  FieldsKept(items, f[0], f[Len(items)], vs)
<1> DEFINE n == Len(items)
<1>1. n \in Nat /\ \A k \in 1 .. n : items[k] \in Items
  OBVIOUS
<1>2. /\ \A k \in 0 .. n : f[k] \in Cursor
      /\ \A k \in 1 .. n : f[k] = Taken(f[k - 1], items[k], Len(ps[k]), vs[k])
  BY DEF Trail
<1>3. \A k \in 1 .. n : ReadsField(items[k]) => items[k].arg \in FieldNames
  BY <1>1, ItemKinds DEF FieldNames, Fields, ReadsField
<1>4. \A j, k \in 1 .. n : ReadsField(items[j]) /\ ReadsField(items[k])
                             /\ items[j].arg = items[k].arg => j = k
  BY DEF ReadOnce
<1> HIDE DEF n
<1>5. ASSUME NEW k \in 1 .. n, NEW g \in FieldNames
      PROVE  f[k].req[g] = IF ReadsField(items[k]) /\ items[k].arg = g THEN vs[k]
                           ELSE f[k - 1].req[g]
  <2>1. k - 1 \in 0 .. n
    BY <1>1
  <2>2. f[k - 1] \in Cursor /\ f[k] = Taken(f[k - 1], items[k], Len(ps[k]), vs[k])
    BY <2>1, <1>2
  <2>3. f[k - 1].req \in Request /\ f[k].req = Told(items[k], f[k - 1].req, vs[k])
    BY <2>2 DEF Cursor, Taken
  <2> QED  BY <2>3, <1>1, ToldField
<1>6. ASSUME NEW k \in 1 .. n, ReadsField(items[k])
      PROVE  f[n].req[items[k].arg] = vs[k]
  <2> DEFINE g == items[k].arg
             Good == {m \in Nat : m >= k => f[m].req[g] = vs[k]}
  <2>1. g \in FieldNames
    BY <1>3, <1>6
  <2>2. 0 \in Good
    BY <1>1
  <2>3. ASSUME NEW m \in 0 .. n - 1, m \in Good PROVE m + 1 \in Good
    <3>1. m + 1 \in 1 .. n /\ (m + 1) - 1 = m /\ m \in Nat /\ k \in Nat
      BY <1>1
    <3>2. f[m + 1].req[g] = IF ReadsField(items[m + 1]) /\ items[m + 1].arg = g THEN vs[m + 1]
                            ELSE f[m].req[g]
      BY <3>1, <2>1, <1>5
    <3>3. CASE m + 1 = k
      BY <3>1, <3>2, <3>3, <1>6
    <3>4. CASE m + 1 > k
      <4>1. ~ (ReadsField(items[m + 1]) /\ items[m + 1].arg = g)
        BY <3>1, <3>4, <1>4, <1>6
      <4>2. f[m].req[g] = vs[k]
        BY <3>1, <3>4, <2>3
      <4> QED  BY <4>1, <4>2, <3>1, <3>2
    <3>5. CASE m + 1 < k
      BY <3>1, <3>5
    <3> QED  BY <3>1, <3>3, <3>4, <3>5
  <2> HIDE DEF Good
  <2>4. \A m \in 0 .. n : m \in Good
    BY <2>2, <2>3, <1>1, Climb
  <2>5. n \in Good /\ n >= k
    BY <2>4, <1>1
  <2> QED  BY <2>5 DEF Good
<1>7. ASSUME NEW g \in FieldNames, Unread(items, g) PROVE f[n].req[g] = f[0].req[g]
  <2> DEFINE Good == {m \in Nat : f[m].req[g] = f[0].req[g]}
  <2>1. 0 \in Good
    OBVIOUS
  <2>2. ASSUME NEW m \in 0 .. n - 1, m \in Good PROVE m + 1 \in Good
    <3>1. m + 1 \in 1 .. n /\ (m + 1) - 1 = m /\ m + 1 \in Nat
      BY <1>1
    <3>2. ~ (ReadsField(items[m + 1]) /\ items[m + 1].arg = g)
      BY <3>1, <1>7 DEF Unread, n
    <3>3. f[m + 1].req[g] = f[m].req[g]
      BY <3>1, <3>2, <1>5
    <3> QED  BY <3>1, <3>3, <2>2
  <2> HIDE DEF Good
  <2>3. \A m \in 0 .. n : m \in Good
    BY <2>1, <2>2, <1>1, Climb
  <2>4. n \in Good
    BY <2>3, <1>1
  <2> QED  BY <2>4 DEF Good
<1> QED  BY <1>6, <1>7 DEF n, FieldsKept

-----------------------------------------------------------------------------
(***************************************************************************)
(* The pieces of a request: what docs/API.md writes at an item.            *)
(***************************************************************************)
Piece(item, r, trailing) ==
  CASE item.op = "byte" -> <<Punct(item.arg)>>
    [] item.op = "key" -> Said(item.arg)
    [] item.op \in {"string", "float"} -> <<r[item.arg]>>
    [] item.op = "int" -> Number(r[item.arg])
    [] item.op = "bool" -> Bool(r[item.arg])
    [] item.op = "time" -> Time(r[item.arg])
    [] item.op = "strings" -> List(r[item.arg], trailing)

LEMMA MembersArePieces ==
  ASSUME NEW r, NEW trailing
  PROVE  /\ Len(Members(r, trailing)) = 53 /\ Len(LastMembers(r)) = 7
         /\ \A k \in 1 .. 53 : Members(r, trailing)[k] = Piece(Payload[k], r, trailing)
         /\ \A k \in 1 .. 7 : LastMembers(r)[k] = Piece(LastTransaction[k], r, trailing)
<1>1. Len(Members(r, trailing)) = 53 /\ Len(LastMembers(r)) = 7
  BY DEF Members, LastMembers
<1>2. \A k \in 1 .. 53 : Members(r, trailing)[k] = Piece(Payload[k], r, trailing)
  BY DEF Payload, Open, Shut, Comma, Byte, Key, Item, Members, Piece, Left, Right, And
<1>3. \A k \in 1 .. 7 : LastMembers(r)[k] = Piece(LastTransaction[k], r, trailing)
  BY DEF LastTransaction, Open, Shut, Comma, Byte, Key, Item, LastMembers, Piece, Left, Right, And
<1> QED  BY <1>1, <1>2, <1>3

(* Item by item: the piece of a request tells its field, a count as an int32. *)
Value(item, r) == IF item.op = "int" THEN Wrapped(r[item.arg]) ELSE r[item.arg]
Said32(r) == r.installments >= 0 /\ r.tx_count_24h >= 0
InRanges(r) == InRange(r.requested_at) /\ InRange(r.timestamp)

LEMMA PieceTaken ==
  ASSUME NEW r \in Request, Said32(r), InRanges(r), NEW trailing \in BOOLEAN, NEW item \in Items
  PROVE  Takes(item, Piece(item, r, trailing), Value(item, r))
<1> DEFINE p == Piece(item, r, trailing)
           g == item.arg
<1>1. CASE item.op = "byte" \/ item.op = "key"
  BY <1>1 DEF Takes, Piece
<1>2. CASE item.op = "string" /\ g \in TextFields
  <2>1. r[g] \in Texts
    BY <1>2 DEF Request, TextFields
  <2> QED  BY <1>2, <2>1 DEF Takes, Piece, Value
<1>3. CASE item.op = "float" /\ g \in FloatFields
  <2>1. r[g] \in Floats
    BY <1>3 DEF Request, FloatFields
  <2> QED  BY <1>3, <2>1 DEF Takes, Piece, Value
<1>4. CASE item.op = "int" /\ g \in IntFields
  <2>1. r[g] \in Nat
    BY <1>4 DEF Request, IntFields, Said32
  <2>2. p = Number(r[g]) /\ Value(item, r) = Wrapped(r[g])
    BY <1>4 DEF Piece, Value
  <2> QED  BY <1>4, <2>1, <2>2 DEF Takes
<1>5. CASE item.op = "bool" /\ g \in BoolFields
  <2>1. r[g] \in BOOLEAN
    BY <1>5 DEF Request, BoolFields
  <2>2. p = Bool(r[g]) /\ Value(item, r) = r[g]
    BY <1>5 DEF Piece, Value
  <2> QED  BY <1>5, <2>1, <2>2 DEF Takes
<1>6. CASE item.op = "time" /\ g \in TimeFields
  <2>1. r[g] \in Times /\ InRange(r[g])
    BY <1>6 DEF Request, TimeFields, InRanges
  <2>2. p = Time(r[g]) /\ Value(item, r) = r[g]
    BY <1>6 DEF Piece, Value
  <2> QED  BY <1>6, <2>1, <2>2 DEF Takes
<1>7. CASE item.op = "strings" /\ g \in ListFields
  <2>1. r[g] \in Seq(Texts)
    BY <1>7 DEF Request, ListFields
  <2>2. p = List(r[g], trailing) /\ Value(item, r) = r[g]
    BY <1>7 DEF Piece, Value
  <2> QED  BY <1>7, <2>1, <2>2 DEF Takes
<1> QED  BY <1>1, <1>2, <1>3, <1>4, <1>5, <1>6, <1>7, ItemKinds

(* A piece that tells the field of a request is the piece of it, but for what *)
(* the field does not know: the count before it wraps, the comma behind a list. *)
LEMMA TakenPiece ==
  ASSUME NEW r \in Request, NEW item \in Items, NEW p, Takes(item, p, r[item.arg]),
         NEW trailing
  PROVE  /\ item.op # "int" /\ item.op # "strings" => p = Piece(item, r, trailing)
         /\ item.op = "int" => \E n \in Nat : p = Number(n) /\ r[item.arg] = Wrapped(n)
         /\ item.op = "strings" => \E tr \in BOOLEAN : p = List(r[item.arg], tr)
<1>1. CASE item.op = "byte" \/ item.op = "key"
  BY <1>1 DEF Takes, Piece
<1>2. CASE item.op = "string" \/ item.op = "float"
  BY <1>2 DEF Takes, Piece
<1>3. CASE item.op = "int"
  BY <1>3 DEF Takes
<1>4. CASE item.op = "bool"
  BY <1>4 DEF Takes, Piece
<1>5. CASE item.op = "time"
  BY <1>5 DEF Takes, Piece
<1>6. CASE item.op = "strings"
  BY <1>6 DEF Takes
<1> QED  BY <1>1, <1>2, <1>3, <1>4, <1>5, <1>6, ItemKinds

-----------------------------------------------------------------------------
(***************************************************************************)
(* Pieces laid end to end: FlattenSeq, another definition by recursion.    *)
(***************************************************************************)
LEMMA LiesConcat ==
  ASSUME NEW b \in Seq(Tokens), NEW a \in Nat \ {0}, NEW s \in Seq(Tokens), NEW t \in Seq(Tokens)
  PROVE  Lies(b, a, s \o t) <=> Lies(b, a, s) /\ Lies(b, a + Len(s), t)
<1> DEFINE w == s \o t
           n == Len(s)
           m == Len(t)
<1>1. /\ n \in Nat /\ m \in Nat /\ Len(w) = n + m /\ Len(b) \in Nat
      /\ \A i \in 1 .. n : w[i] = s[i]
      /\ \A i \in 1 .. m : w[n + i] = t[i]
  BY ConcatIs
<1> HIDE DEF w, n, m
<1>2. ASSUME Lies(b, a, w) PROVE Lies(b, a, s) /\ Lies(b, a + n, t)
  <2>1. a + (n + m) - 1 <= Len(b) /\ \A i \in 1 .. n + m : b[a + i - 1] = w[i]
    BY <1>1, <1>2 DEF Lies
  <2>2. \A i \in 1 .. n : b[a + i - 1] = s[i]
    <3> TAKE i \in 1 .. n
    <3>1. i \in 1 .. n + m
      BY <1>1
    <3> QED  BY <3>1, <2>1, <1>1
  <2>3. \A i \in 1 .. m : b[(a + n) + i - 1] = t[i]
    <3> TAKE i \in 1 .. m
    <3>1. n + i \in 1 .. n + m /\ a + (n + i) - 1 = (a + n) + i - 1
      BY <1>1
    <3> QED  BY <3>1, <2>1, <1>1
  <2>4. a + n - 1 <= Len(b) /\ (a + n) + m - 1 <= Len(b)
    BY <2>1, <1>1
  <2> QED  BY <2>2, <2>3, <2>4 DEF Lies, n, m
<1>3. ASSUME Lies(b, a, s), Lies(b, a + n, t) PROVE Lies(b, a, w)
  <2>1. \A i \in 1 .. n : b[a + i - 1] = s[i]
    BY <1>3 DEF Lies, n
  <2>2. (a + n) + m - 1 <= Len(b) /\ \A i \in 1 .. m : b[(a + n) + i - 1] = t[i]
    BY <1>3 DEF Lies, m
  <2>3. \A i \in 1 .. n + m : b[a + i - 1] = w[i]
    <3> TAKE i \in 1 .. n + m
    <3>1. CASE i \in 1 .. n
      BY <3>1, <2>1, <1>1
    <3>2. CASE i \notin 1 .. n
      <4>1. i - n \in 1 .. m /\ n + (i - n) = i /\ (a + n) + (i - n) - 1 = a + i - 1
        BY <3>2, <1>1
      <4>2. w[n + (i - n)] = t[i - n] /\ b[(a + n) + (i - n) - 1] = t[i - n]
        BY <4>1, <2>2, <1>1
      <4> QED  BY <4>1, <4>2
    <3> QED  BY <3>1, <3>2
  <2>4. a + (n + m) - 1 <= Len(b)
    BY <2>2, <1>1
  <2> QED  BY <2>3, <2>4, <1>1 DEF Lies
<1> QED  BY <1>2, <1>3 DEF w, n

LEMMA LiesPrefix ==
  ASSUME NEW b \in Seq(Tokens), NEW w \in Seq(Tokens)
  PROVE  Lies(b, 1, w) <=> IsPrefix(w, b)
<1> DEFINE n == Len(w)
<1>1. n \in Nat /\ Len(b) \in Nat /\ 1 + n - 1 = n /\ \A j \in 1 .. n : 1 + j - 1 = j
  OBVIOUS
<1>2. SubSeq(w, 1, n) = w
  BY SubSeqFull
<1> HIDE DEF n
<1>3. Lies(b, 1, w) <=> n <= Len(b) /\ \A j \in 1 .. n : b[j] = w[j]
  BY <1>1 DEF Lies, n
<1>4. ASSUME n <= Len(b) PROVE (\A j \in 1 .. n : b[j] = w[j]) <=> w = SubSeq(b, 1, n)
  <2> DEFINE p == SubSeq(b, 1, n)
  <2>1. p \in Seq(Tokens) /\ Len(p) = n /\ \A i \in 1 .. n : p[i] = b[i]
    <3>1. \A i \in 1 .. n : b[i] \in Tokens
      BY <1>1, <1>4
    <3>2. n - 1 + 1 = n /\ \A i \in 1 .. n : 1 + i - 1 = i
      BY <1>1
    <3> QED  BY <3>1, <3>2, <1>1, SubSeqProperties
  <2> HIDE DEF p
  <2>2. w = p <=> \A i \in 1 .. n : w[i] = p[i]
    BY <2>1, SeqEqual DEF n
  <2> QED  BY <2>1, <2>2 DEF p
<1> QED  BY <1>2, <1>3, <1>4 DEF IsPrefix, n

(* The concatenations of the first pieces. *)
Joined(ps, m, fl) ==
  /\ fl[0] = <<>>
  /\ \A k \in 1 .. m : fl[k] \in Seq(Tokens) /\ fl[k] = fl[k - 1] \o ps[k]

FlattenRule(ps, m, f) ==
  f = [i \in 1 .. m |-> IF i = 1 THEN ps[i] ELSE f[i - 1] \o ps[i]]

LEMMA FlattenExists ==
  ASSUME NEW ps, NEW m \in Nat
  PROVE  \E f : FlattenRule(ps, m, f)
<1> DEFINE Good == {k \in Nat : \E f : FlattenRule(ps, k, f)}
<1>1. 0 \in Good
  <2>1. FlattenRule(ps, 0, [i \in 1 .. 0 |-> ps[i]])
    BY DEF FlattenRule
  <2> QED  BY <2>1
<1>2. ASSUME NEW k \in 0 .. m - 1, k \in Good PROVE k + 1 \in Good
  <2>1. PICK f : FlattenRule(ps, k, f)
    BY <1>2
  <2> DEFINE Next1 == IF k = 0 THEN ps[1] ELSE f[k] \o ps[k + 1]
             h == [j \in 1 .. k + 1 |-> IF j <= k THEN f[j] ELSE Next1]
  <2>2. \A j \in 1 .. k : f[j] = IF j = 1 THEN ps[j] ELSE f[j - 1] \o ps[j]
    BY <2>1 DEF FlattenRule
  <2>3. \A j \in 1 .. k + 1 : h[j] = IF j = 1 THEN ps[j] ELSE h[j - 1] \o ps[j]
    <3> TAKE j \in 1 .. k + 1
    <3>1. CASE j = k + 1
      <4>1. h[j] = Next1 /\ (k # 0 => h[j - 1] = f[k]) /\ (k = 0 <=> j = 1)
        BY <3>1
      <4> HIDE DEF h
      <4> QED  BY <4>1, <3>1
    <3>2. CASE j <= k
      <4>1. h[j] = f[j] /\ (j # 1 => h[j - 1] = f[j - 1]) /\ j \in 1 .. k
        BY <3>2
      <4> HIDE DEF h
      <4> QED  BY <4>1, <2>2
    <3> QED  BY <3>1, <3>2
  <2>4. h = [j \in 1 .. k + 1 |-> IF j = 1 THEN ps[j] ELSE h[j - 1] \o ps[j]]
    <3>1. h = [j \in 1 .. k + 1 |-> h[j]]
      OBVIOUS
    <3> HIDE DEF h
    <3> QED  BY <3>1, <2>3
  <2> HIDE DEF h
  <2>5. FlattenRule(ps, k + 1, h)
    BY <2>4 DEF FlattenRule
  <2> QED  BY <2>5
<1> HIDE DEF Good
<1>3. \A k \in 0 .. m : k \in Good
  BY <1>1, <1>2, Climb
<1> QED  BY <1>3 DEF Good

LEMMA FlattenIs ==
  ASSUME NEW ps, Len(ps) \in Nat \ {0}, \A k \in 1 .. Len(ps) : ps[k] \in Seq(Tokens)
  PROVE  \E fl : Joined(ps, Len(ps), fl) /\ FlattenSeq(ps) = fl[Len(ps)]
<1> DEFINE n == Len(ps)
           f == CHOOSE f : FlattenRule(ps, n, f)
           fl == [k \in 0 .. n |-> IF k = 0 THEN <<>> ELSE f[k]]
<1>1. FlattenSeq(ps) = f[n]
  BY DEF FlattenSeq, FlattenRule
<1>2. FlattenRule(ps, n, f)
  BY FlattenExists
<1> HIDE DEF f
<1>3. \A k \in 1 .. n : f[k] = IF k = 1 THEN ps[k] ELSE f[k - 1] \o ps[k]
  BY <1>2 DEF FlattenRule
<1> HIDE DEF n
<1>4. n \in Nat \ {0} /\ \A k \in 1 .. n : ps[k] \in Seq(Tokens)
  BY DEF n
<1>5. fl[0] = <<>> /\ \A k \in 1 .. n : fl[k] = f[k]
  BY <1>4
<1> HIDE DEF fl
<1>6. \A k \in 1 .. n : fl[k] = fl[k - 1] \o ps[k]
  <2> TAKE k \in 1 .. n
  <2>1. CASE k = 1
    <3>1. fl[k] = ps[k] /\ fl[k - 1] = <<>>
      BY <2>1, <1>3, <1>5
    <3> QED  BY <3>1, <1>4, ConcatEmptySeq
  <2>2. CASE k # 1
    <3>1. k - 1 \in 1 .. n
      BY <2>2, <1>4
    <3> QED  BY <3>1, <2>2, <1>3, <1>5
  <2> QED  BY <2>1, <2>2
<1>7. \A k \in 0 .. n : fl[k] \in Seq(Tokens)
  <2> DEFINE Good == {k \in Nat : fl[k] \in Seq(Tokens)}
  <2>1. 0 \in Good
    <3>1. <<>> \in Seq(Tokens)
      OBVIOUS
    <3> QED  BY <3>1, <1>5
  <2>2. ASSUME NEW k \in 0 .. n - 1, k \in Good PROVE k + 1 \in Good
    <3>1. k + 1 \in 1 .. n /\ (k + 1) - 1 = k /\ fl[k] \in Seq(Tokens)
      BY <1>4, <2>2
    <3>2. fl[k + 1] = fl[k] \o ps[k + 1] /\ ps[k + 1] \in Seq(Tokens)
      BY <3>1, <1>4, <1>6
    <3>3. fl[k + 1] \in Seq(Tokens)
      BY <3>1, <3>2, ConcatIs
    <3> QED  BY <3>3
  <2> HIDE DEF Good
  <2>3. \A k \in 0 .. n : k \in Good
    BY <2>1, <2>2, <1>4, Climb
  <2> QED  BY <2>3 DEF Good
<1>8. Joined(ps, n, fl)
  <2>1. \A k \in 1 .. n : fl[k] \in Seq(Tokens) /\ fl[k] = fl[k - 1] \o ps[k]
    <3> TAKE k \in 1 .. n
    <3>1. k \in 0 .. n
      BY <1>4
    <3> QED  BY <3>1, <1>6, <1>7
  <2>2. fl[0] = <<>>
    BY <1>5
  <2> QED  BY <2>1, <2>2 DEF Joined
<1>9. FlattenSeq(ps) = fl[n]
  BY <1>1, <1>4, <1>5 DEF n
<1> QED  BY <1>8, <1>9 DEF n

LEMMA PlusMoves ==
  ASSUME NEW a \in Nat, NEW x \in Nat, NEW y \in Nat
  PROVE  a + (x + y) = (a + x) + y
OBVIOUS

(* Where the pieces begin, and where they lie. *)
Begins(ps, a, at) ==
  at[0] = a /\ \A k \in 1 .. Len(ps) : at[k] = at[k - 1] + Len(ps[k])

LEMMA LaidOut ==
  ASSUME NEW b \in Seq(Tokens), NEW a \in Nat \ {0}, a - 1 <= Len(b), NEW ps,
         Len(ps) \in Nat \ {0}, \A k \in 1 .. Len(ps) : ps[k] \in Seq(Tokens)
  PROVE  /\ FlattenSeq(ps) \in Seq(Tokens)
         /\ \E at : Begins(ps, a, at)
         /\ \A at : Begins(ps, a, at) =>
              /\ at[Len(ps)] = a + Len(FlattenSeq(ps))
              /\ Lies(b, a, FlattenSeq(ps))
                   <=> \A k \in 1 .. Len(ps) : Lies(b, at[k - 1], ps[k])
<1> DEFINE n == Len(ps)
<1>1. n \in Nat \ {0} /\ \A k \in 1 .. n : ps[k] \in Seq(Tokens)
  OBVIOUS
<1>2. PICK fl : Joined(ps, n, fl) /\ FlattenSeq(ps) = fl[n]
  BY <1>1, FlattenIs
<1> HIDE DEF n
<1>3. /\ fl[0] = <<>> /\ Len(fl[0]) = 0 /\ <<>> \in Seq(Tokens) /\ Len(b) \in Nat
      /\ \A k \in 1 .. n : fl[k] \in Seq(Tokens) /\ fl[k] = fl[k - 1] \o ps[k]
  <2>1. fl[0] = <<>> /\ \A k \in 1 .. n : fl[k] \in Seq(Tokens) /\ fl[k] = fl[k - 1] \o ps[k]
    BY <1>2 DEF Joined
  <2>2. Len(<<>>) = 0 /\ <<>> \in Seq(Tokens) /\ Len(b) \in Nat
    OBVIOUS
  <2> QED  BY <2>1, <2>2
<1>4. ASSUME NEW k \in 0 .. n PROVE fl[k] \in Seq(Tokens) /\ Len(fl[k]) \in Nat
  <2>1. CASE k = 0
    BY <2>1, <1>3
  <2>2. CASE k # 0
    <3>1. k \in 1 .. n
      BY <2>2, <1>1
    <3>2. fl[k] \in Seq(Tokens)
      BY <3>1, <1>3
    <3> QED  BY <3>2
  <2> QED  BY <2>1, <2>2
<1>5. ASSUME NEW k \in 1 .. n
      PROVE  /\ Len(fl[k]) = Len(fl[k - 1]) + Len(ps[k])
             /\ Lies(b, a, fl[k])
                  <=> Lies(b, a, fl[k - 1]) /\ Lies(b, a + Len(fl[k - 1]), ps[k])
  <2>1. k - 1 \in 0 .. n
    BY <1>1
  <2>2. fl[k - 1] \in Seq(Tokens) /\ ps[k] \in Seq(Tokens) /\ fl[k] = fl[k - 1] \o ps[k]
    BY <2>1, <1>1, <1>3, <1>4
  <2>3. Len(fl[k - 1] \o ps[k]) = Len(fl[k - 1]) + Len(ps[k])
    BY <2>2, ConcatIs
  <2>4. Lies(b, a, fl[k - 1] \o ps[k])
          <=> Lies(b, a, fl[k - 1]) /\ Lies(b, a + Len(fl[k - 1]), ps[k])
    BY <2>2, LiesConcat
  <2> QED  BY <2>2, <2>3, <2>4
<1>6. \E at : Begins(ps, a, at)
  <2> DEFINE at == [k \in 0 .. n |-> a + Len(fl[k])]
  <2>1. at[0] = a
    <3>1. at[0] = a + Len(fl[0])
      BY <1>1
    <3>2. a + 0 = a
      OBVIOUS
    <3> HIDE DEF at
    <3> QED  BY <3>1, <3>2, <1>3
  <2>2. \A k \in 1 .. n : at[k] = at[k - 1] + Len(ps[k])
    <3> TAKE k \in 1 .. n
    <3>1. k - 1 \in 0 .. n /\ k \in 0 .. n
      BY <1>1
    <3>2. at[k] = a + Len(fl[k]) /\ at[k - 1] = a + Len(fl[k - 1])
      BY <3>1
    <3>3. ps[k] \in Seq(Tokens)
      BY <1>1
    <3>4. Len(ps[k]) \in Nat /\ Len(fl[k - 1]) \in Nat
      BY <3>1, <3>3, <1>4
    <3>5. Len(fl[k]) = Len(fl[k - 1]) + Len(ps[k])
      BY <1>5
    <3>6. a + (Len(fl[k - 1]) + Len(ps[k])) = (a + Len(fl[k - 1])) + Len(ps[k])
      BY <3>4, PlusMoves
    <3> HIDE DEF at
    <3> QED  BY <3>2, <3>4, <3>5, <3>6, <1>1
  <2> HIDE DEF at
  <2>3. Begins(ps, a, at)
    BY <2>1, <2>2 DEF Begins, n
  <2> QED  BY <2>3
<1>7. ASSUME NEW at, Begins(ps, a, at)
      PROVE  /\ at[n] = a + Len(fl[n])
             /\ Lies(b, a, fl[n]) <=> \A k \in 1 .. n : Lies(b, at[k - 1], ps[k])
  <2>1. at[0] = a /\ \A k \in 1 .. n : at[k] = at[k - 1] + Len(ps[k])
    BY <1>7 DEF Begins, n
  <2> DEFINE All(k) == \A j \in 1 .. k : Lies(b, at[j - 1], ps[j])
             Good == {k \in Nat : at[k] = a + Len(fl[k]) /\ (Lies(b, a, fl[k]) <=> All(k))}
  <2>2. 0 \in Good
    <3>1. Lies(b, a, fl[0])
      <4>1. \A j \in 1 .. 0 : b[a + j - 1] = fl[0][j]
        OBVIOUS
      <4>2. a + 0 - 1 <= Len(b)
        BY <1>3
      <4> QED  BY <4>1, <4>2, <1>3 DEF Lies
    <3>2. All(0)
      OBVIOUS
    <3>3. at[0] = a + Len(fl[0])
      BY <2>1, <1>3
    <3> HIDE DEF All
    <3> QED  BY <3>1, <3>2, <3>3
  <2>3. ASSUME NEW k \in 0 .. n - 1, k \in Good PROVE k + 1 \in Good
    <3>1. k + 1 \in 1 .. n /\ (k + 1) - 1 = k /\ k \in 0 .. n /\ k + 1 \in Nat
      BY <1>1
    <3>2. at[k] = a + Len(fl[k]) /\ (Lies(b, a, fl[k]) <=> All(k))
      BY <2>3
    <3>3. All(k + 1) <=> All(k) /\ Lies(b, at[k], ps[k + 1])
      <4>1. ASSUME All(k + 1) PROVE All(k) /\ Lies(b, at[k], ps[k + 1])
        <5>1. k + 1 \in 1 .. k + 1 /\ \A j \in 1 .. k : j \in 1 .. k + 1
          BY <3>1
        <5> QED  BY <5>1, <4>1, <3>1
      <4>2. ASSUME All(k), Lies(b, at[k], ps[k + 1]) PROVE All(k + 1)
        <5> TAKE j \in 1 .. k + 1
        <5>1. j \in 1 .. k \/ j = k + 1
          BY <3>1
        <5> QED  BY <5>1, <4>2, <3>1
      <4> QED  BY <4>1, <4>2
    <3> HIDE DEF All
    <3>4. Lies(b, a, fl[k + 1]) <=> Lies(b, a, fl[k]) /\ Lies(b, a + Len(fl[k]), ps[k + 1])
      BY <3>1, <1>5
    <3>5. ps[k + 1] \in Seq(Tokens)
      BY <3>1, <1>1
    <3>6. Len(ps[k + 1]) \in Nat /\ Len(fl[k]) \in Nat
      BY <3>1, <3>5, <1>4
    <3>7. at[k + 1] = at[k] + Len(ps[k + 1]) /\ Len(fl[k + 1]) = Len(fl[k]) + Len(ps[k + 1])
      BY <3>1, <2>1, <1>5
    <3>8. at[k + 1] = a + Len(fl[k + 1])
      <4> DEFINE x == Len(fl[k])
                 y == Len(ps[k + 1])
                 z == at[k]
      <4>1. at[k + 1] = z + y /\ z = a + x /\ Len(fl[k + 1]) = x + y
        BY <3>2, <3>7
      <4>2. x \in Nat /\ y \in Nat
        BY <3>6
      <4> HIDE DEF x, y, z
      <4> QED  BY <4>1, <4>2
    <3>9. Lies(b, a, fl[k + 1]) <=> All(k + 1)
      BY <3>2, <3>3, <3>4
    <3> QED  BY <3>1, <3>8, <3>9
  <2> HIDE DEF Good
  <2>4. \A k \in 0 .. n : k \in Good
    BY <2>2, <2>3, <1>1, Climb
  <2>5. n \in Good
    BY <2>4, <1>1
  <2> QED  BY <2>5 DEF Good
<1>8. fl[n] \in Seq(Tokens)
  <2>1. n \in 0 .. n
    BY <1>1
  <2> QED  BY <2>1, <1>4
<1> QED  BY <1>2, <1>6, <1>7, <1>8 DEF n

-----------------------------------------------------------------------------
(***************************************************************************)
(* The two directions for a list of items.                                 *)
(***************************************************************************)
LEMMA PassWrites ==
  ASSUME NEW b \in Seq(Tokens), NEW c \in Cursor, NEW items \in Seq(Items), Len(items) # 0,
         ReadAll(b, c, items).ok
  PROVE  LET n == Len(items)
             d == ReadAll(b, c, items)
         IN \E f, ps, vs :
              /\ f[0] = c /\ f[n] = d /\ Trail(b, items, f, ps, vs)
              /\ \A w : Len(w) = n /\ (\A k \in 1 .. n : w[k] = ps[k]) =>
                   /\ FlattenSeq(w) \in Seq(Tokens) /\ Lies(b, c.at, FlattenSeq(w))
                   /\ d.at = c.at + Len(FlattenSeq(w))
<1> DEFINE n == Len(items)
           d == ReadAll(b, c, items)
<1>1. PICK f, ps, vs : f[0] = c /\ f[n] = d /\ Trail(b, items, f, ps, vs)
  BY PassHasTrail
<1>2. n \in Nat \ {0} /\ \A k \in 1 .. n : items[k] \in Items
  OBVIOUS
<1> HIDE DEF n, d
<1>3. /\ \A k \in 0 .. n : f[k] \in Cursor /\ f[k].ok
      /\ \A k \in 1 .. n : Takes(items[k], ps[k], vs[k]) /\ Lies(b, f[k - 1].at, ps[k])
                           /\ f[k] = Taken(f[k - 1], items[k], Len(ps[k]), vs[k])
  BY <1>1 DEF Trail, n
<1>4. \A k \in 1 .. n : /\ ps[k] \in Seq(Tokens) /\ Len(ps[k]) \in Nat \ {0}
                        /\ f[k].at = f[k - 1].at + Len(ps[k])
  <2> TAKE k \in 1 .. n
  <2>1. items[k] \in Items /\ Takes(items[k], ps[k], vs[k])
        /\ f[k] = Taken(f[k - 1], items[k], Len(ps[k]), vs[k])
    BY <1>2, <1>3
  <2>2. ps[k] \in Seq(Tokens) /\ Len(ps[k]) \in Nat \ {0}
    BY <2>1, PiecesTyped
  <2> QED  BY <2>1, <2>2 DEF Taken
<1>5. ASSUME NEW w, Len(w) = n, \A k \in 1 .. n : w[k] = ps[k]
      PROVE  /\ FlattenSeq(w) \in Seq(Tokens) /\ Lies(b, c.at, FlattenSeq(w))
             /\ d.at = c.at + Len(FlattenSeq(w))
  <2> DEFINE at == [k \in 0 .. n |-> f[k].at]
  <2>1. c.at \in Nat \ {0}
    BY DEF Cursor
  <2>2. \A k \in 1 .. n : at[k] = at[k - 1] + Len(w[k]) /\ at[k - 1] = f[k - 1].at
    <3> TAKE k \in 1 .. n
    <3>1. k \in 0 .. n /\ k - 1 \in 0 .. n
      BY <1>2
    <3> QED  BY <3>1, <1>4, <1>5
  <2>3. at[0] = c.at /\ at[n] = d.at
    BY <1>1, <1>2
  <2> HIDE DEF at
  <2>4. Begins(w, c.at, at)
    BY <2>2, <2>3, <1>5 DEF Begins
  <2>5. c.at - 1 <= Len(b)
    <3>1. 1 \in 1 .. n /\ 1 - 1 = 0
      BY <1>2
    <3>2. Lies(b, c.at, ps[1]) /\ Len(ps[1]) \in Nat \ {0}
      BY <3>1, <1>1, <1>3, <1>4
    <3>3. c.at + Len(ps[1]) - 1 <= Len(b)
      BY <3>2 DEF Lies
    <3>4. Len(b) \in Nat
      OBVIOUS
    <3> QED  BY <3>2, <3>3, <3>4, <2>1
  <2>6. Len(w) \in Nat \ {0} /\ \A k \in 1 .. Len(w) : w[k] \in Seq(Tokens)
    BY <1>2, <1>4, <1>5
  <2>7. /\ FlattenSeq(w) \in Seq(Tokens)
        /\ at[Len(w)] = c.at + Len(FlattenSeq(w))
        /\ Lies(b, c.at, FlattenSeq(w)) <=> \A k \in 1 .. Len(w) : Lies(b, at[k - 1], w[k])
    BY <2>1, <2>4, <2>5, <2>6, LaidOut
  <2>8. \A k \in 1 .. n : Lies(b, at[k - 1], w[k])
    BY <2>2, <1>3, <1>5
  <2> QED  BY <2>3, <2>7, <2>8, <1>5
<1> QED  BY <1>1, <1>5 DEF n, d

LEMMA WritingPasses ==
  ASSUME NEW b \in Seq(Tokens), NEW c \in Cursor, c.ok, NEW items \in Seq(Items),
         Len(items) # 0, NEW ps, Len(ps) = Len(items), NEW vs,
         \A k \in 1 .. Len(items) : Takes(items[k], ps[k], vs[k]),
         Lies(b, c.at, FlattenSeq(ps))
  PROVE  LET n == Len(items)
             d == ReadAll(b, c, items)
         IN /\ d \in Cursor /\ d.ok /\ d.at = c.at + Len(FlattenSeq(ps))
            /\ \E f : f[0] = c /\ f[n] = d /\ Trail(b, items, f, ps, vs)
<1> DEFINE n == Len(items)
           d == ReadAll(b, c, items)
<1>1. n \in Nat \ {0} /\ c.at \in Nat \ {0} /\ \A k \in 1 .. n : items[k] \in Items
  BY DEF Cursor
<1>2. Len(ps) \in Nat \ {0} /\ \A k \in 1 .. Len(ps) : ps[k] \in Seq(Tokens)
  BY <1>1, PiecesTyped
<1>3. PICK fl : Joined(ps, Len(ps), fl) /\ FlattenSeq(ps) = fl[Len(ps)]
  BY <1>2, FlattenIs
<1>4. FlattenSeq(ps) \in Seq(Tokens)
  <2>1. Len(ps) \in 1 .. Len(ps)
    BY <1>2
  <2> QED  BY <2>1, <1>3 DEF Joined
<1>5. c.at - 1 <= Len(b)
  <2>1. Len(FlattenSeq(ps)) \in Nat /\ Len(b) \in Nat
    BY <1>4
  <2>2. c.at + Len(FlattenSeq(ps)) - 1 <= Len(b)
    BY DEF Lies
  <2> QED  BY <2>1, <2>2, <1>1
<1>6. PICK at : Begins(ps, c.at, at)
  BY <1>1, <1>2, <1>5, LaidOut
<1>7. /\ at[Len(ps)] = c.at + Len(FlattenSeq(ps))
      /\ \A k \in 1 .. Len(ps) : Lies(b, at[k - 1], ps[k])
  BY <1>1, <1>2, <1>5, <1>6, LaidOut
<1>8. at[0] = c.at /\ \A k \in 1 .. n : at[k] = at[k - 1] + Len(ps[k])
                                      /\ Takes(items[k], ps[k], vs[k]) /\ Lies(b, at[k - 1], ps[k])
  BY <1>6, <1>7 DEF Begins
<1>9. PICK f : f[0] = c /\ f[n] = d /\ f[n].at = at[n] /\ Trail(b, items, f, ps, vs)
  <2>1. \E f : /\ f[0] = c /\ f[Len(items)] = ReadAll(b, c, items)
               /\ f[Len(items)].at = at[Len(items)] /\ Trail(b, items, f, ps, vs)
    <3>1. at[0] = c.at /\ Strewn(b, items, at, ps, vs)
      BY <1>8 DEF Strewn
    <3> HIDE DEF d, n
    <3> QED  BY <3>1, TrailIsPass
  <2> QED  BY <2>1
<1>10. f[n] \in Cursor /\ f[n].ok
  BY <1>1, <1>9 DEF Trail
<1> QED  BY <1>7, <1>9, <1>10

-----------------------------------------------------------------------------
(***************************************************************************)
(* What is accepted was written.                                           *)
(***************************************************************************)
LEMMA PassKeepsError ==
  ASSUME NEW b, NEW c, ~ c.ok, NEW items, Len(items) \in Nat
  PROVE  ~ ReadAll(b, c, items).ok
<1> DEFINE n == Len(items)
<1>1. PICK f : /\ f[0] = c /\ ReadAll(b, c, items) = f[n]
               /\ \A k \in 1 .. n : f[k] = PassStep(b, items, f[k - 1], k)
  BY PassIs
<1>2. n \in Nat
  OBVIOUS
<1> HIDE DEF n
<1> DEFINE Good == {k \in Nat : ~ f[k].ok}
<1>3. 0 \in Good
  BY <1>1
<1>4. ASSUME NEW k \in 0 .. n - 1, k \in Good PROVE k + 1 \in Good
  <2>1. k + 1 \in 1 .. n /\ (k + 1) - 1 = k /\ k + 1 \in Nat
    BY <1>2
  <2>2. f[k + 1] = f[k]
    BY <2>1, <1>1, <1>4 DEF PassStep
  <2> QED  BY <2>1, <2>2, <1>4
<1> HIDE DEF Good
<1>5. \A k \in 0 .. n : k \in Good
  BY <1>2, <1>3, <1>4, Climb
<1>6. n \in Good
  BY <1>2, <1>5
<1> QED  BY <1>1, <1>6 DEF Good

LEMMA NoTimeIs == NoTime \in Times /\ InRange(NoTime)
BY DEF NoTime, Times, InRange

LEMMA StartIsCursor ==
  /\ Start \in Cursor /\ Start.ok /\ Start.at = 1 /\ Start.req = ZeroRequest
  /\ ZeroRequest.has_last = FALSE /\ ZeroRequest.timestamp = NoTime
  /\ ZeroRequest.km_from_current = <<"number", 0>>
<1>1. Empty \in Texts /\ <<"number", 0>> \in Floats /\ <<>> \in Seq(Texts)
  BY ParserAssumption DEF Texts, Floats, Empty
<1>2. ZeroRequest \in Request
  BY <1>1, NoTimeIs DEF ZeroRequest, Request
<1>3. /\ ZeroRequest.has_last = FALSE /\ ZeroRequest.timestamp = NoTime
      /\ ZeroRequest.km_from_current = <<"number", 0>>
  BY DEF ZeroRequest
<1> QED  BY <1>2, <1>3 DEF Start, Cursor

(* A request with other counts. *)
LEMMA WithCountsIs ==
  ASSUME NEW r \in Request, NEW i \in Int, NEW n \in Int
  PROVE  /\ WithCounts(r, i, n) \in Request
         /\ WithCounts(r, i, n).installments = i /\ WithCounts(r, i, n).tx_count_24h = n
         /\ \A g \in FieldNames \ IntFields : WithCounts(r, i, n)[g] = r[g]
<1>1. WithCounts(r, i, n) \in Request
  BY DEF WithCounts, Request
<1>2. r = [g \in FieldNames |-> r[g]]
  BY DEF Request, FieldNames, Fields, TextFields, FloatFields, IntFields, BoolFields,
         TimeFields, ListFields
<1>3. "installments" \in FieldNames /\ "tx_count_24h" \in FieldNames
  BY DEF FieldNames, Fields, IntFields
<1>4. WithCounts(r, i, n).installments = i /\ WithCounts(r, i, n).tx_count_24h = n
  BY <1>2, <1>3 DEF WithCounts
<1>5. \A g \in FieldNames \ IntFields : WithCounts(r, i, n)[g] = r[g]
  BY <1>2 DEF WithCounts, IntFields
<1> QED  BY <1>1, <1>4, <1>5

LEMMA SeqAt ==
  ASSUME NEW S, NEW s \in Seq(S), NEW k \in 1 .. Len(s)
  PROVE  s[k] \in S
OBVIOUS

LEMMA PieceAlike ==
  ASSUME NEW r, NEW s, NEW item \in Items, ReadsField(item) => r[item.arg] = s[item.arg],
         NEW trailing
  PROVE  Piece(item, r, trailing) = Piece(item, s, trailing)
<1>1. CASE item.op = "byte" \/ item.op = "key"
  BY <1>1 DEF Piece
<1>2. CASE ReadsField(item)
  BY <1>2 DEF Piece
<1> QED  BY <1>1, <1>2 DEF ReadsField

LEMMA SamePiece ==
  ASSUME NEW r \in Request, NEW s, NEW item \in Items, NEW p, NEW trailing,
         Takes(item, p, r[item.arg]), item.op \notin {"int", "strings"},
         ReadsField(item) => s[item.arg] = r[item.arg]
  PROVE  Piece(item, s, trailing) = p
<1>1. p = Piece(item, r, trailing)
  <2>1. \/ item.op = "int" \/ item.op = "strings" \/ p = Piece(item, r, trailing)
    BY TakenPiece
  <2> QED  BY <2>1
<1>2. Piece(item, s, trailing) = Piece(item, r, trailing)
  BY PieceAlike
<1> QED  BY <1>1, <1>2

LEMMA PayloadLeaves ==
  \A k \in 1 .. 53 : ReadsField(Payload[k]) =>
    Payload[k].arg \notin {"has_last", "timestamp", "km_from_current"}
BY DEF Payload, Open, Shut, Comma, Byte, Key, Item, ReadsField

LEMMA LastReads ==
  \A k \in 1 .. 7 : ReadsField(LastTransaction[k]) =>
    LastTransaction[k].arg \in {"timestamp", "km_from_current"}
BY DEF LastTransaction, Open, Shut, Comma, Byte, Key, Item, ReadsField

(* The number of a count is in the body. *)
LEMMA CountIsThere ==
  ASSUME NEW b \in Seq(Tokens), NEW a \in Nat \ {0}, NEW n, Lies(b, a, Number(n))
  PROVE  n \in Counts(b)
<1> DEFINE t == <<"number", n>>
<1>1. Lies(b, a, <<t>>) /\ t # <<"end", 0>> /\ t[1] = "number" /\ t[2] = n
  BY DEF Number
<1> HIDE DEF t
<1>2. Token(b, a) = t
  BY <1>1, LiesOne
<1>3. a <= Len(b) /\ b[a] = t
  BY <1>1, <1>2, TokenThere
<1>4. a \in DOMAIN b
  BY <1>3
<1> QED  BY <1>1, <1>3, <1>4 DEF Counts

(* What is said of the first part of an accepted body. *)
WritesMembers(b, c, i, n, trailing) ==
  LET w == FlattenSeq(Members(WithCounts(c.req, i, n), trailing))
  IN  /\ i \in Nat /\ n \in Nat /\ i \in Counts(b) /\ n \in Counts(b)
      /\ c.req.installments = Wrapped(i) /\ c.req.tx_count_24h = Wrapped(n)
      /\ w \in Seq(Tokens) /\ Lies(b, 1, w) /\ c.at = 1 + Len(w)

PayloadRead(b, c) ==
  /\ c \in Cursor /\ c.req.has_last = FALSE /\ c.req.timestamp = NoTime
  /\ c.req.km_from_current = <<"number", 0>> /\ InRange(c.req.requested_at)
  /\ \E i, n, trailing : trailing \in BOOLEAN /\ WritesMembers(b, c, i, n, trailing)

LEMMA PayloadSound ==
  ASSUME NEW b \in Seq(Tokens), ReadAll(b, Start, Payload).ok
  PROVE  PayloadRead(b, ReadAll(b, Start, Payload))
<1> DEFINE c == ReadAll(b, Start, Payload)
<1> DEFINE len == Len(Payload)
<1>0. Payload \in Seq(Items) /\ len = 53
  BY ItemsTyped
<1>1. \A k \in 1 .. 53 : Payload[k] \in Items
  BY <1>0, SeqAt
<1>2. \E f, ps, vs :
        /\ f[0] = Start /\ f[len] = c /\ Trail(b, Payload, f, ps, vs)
        /\ \A w : Len(w) = len /\ (\A k \in 1 .. len : w[k] = ps[k]) =>
             /\ FlattenSeq(w) \in Seq(Tokens) /\ Lies(b, Start.at, FlattenSeq(w))
             /\ c.at = Start.at + Len(FlattenSeq(w))
  <2>1. Payload \in Seq(Items) /\ Len(Payload) # 0 /\ Start \in Cursor
    BY <1>0, StartIsCursor
  <2> QED  BY <2>1, PassWrites
<1>2a. PICK f, ps, vs :
        /\ f[0] = Start /\ f[len] = c /\ Trail(b, Payload, f, ps, vs)
        /\ \A w : Len(w) = len /\ (\A k \in 1 .. len : w[k] = ps[k]) =>
             /\ FlattenSeq(w) \in Seq(Tokens) /\ Lies(b, Start.at, FlattenSeq(w))
             /\ c.at = Start.at + Len(FlattenSeq(w))
  BY <1>2
<1>2b. /\ \A k \in 0 .. len : f[k] \in Cursor
       /\ \A k \in 1 .. len : Takes(Payload[k], ps[k], vs[k]) /\ Lies(b, f[k - 1].at, ps[k])
  BY <1>2a DEF Trail
<1>2c. FieldsKept(Payload, f[0], f[len], vs)
  <2>1. Payload \in Seq(Items) /\ Trail(b, Payload, f, ps, vs)
    BY <1>0, <1>2a
  <2> QED  BY <2>1, FieldsRead, PayloadReadOnce
<1>2d. \A k \in 1 .. len : ReadsField(Payload[k]) => Slot[Payload[k].arg] = k
  BY PayloadReadOnce DEF ReadOnce
<1> HIDE DEF len
<1> HIDE DEF c
<1>3. /\ \A k \in 0 .. 53 : f[k] \in Cursor
      /\ \A k \in 1 .. 53 : Takes(Payload[k], ps[k], vs[k]) /\ Lies(b, f[k - 1].at, ps[k])
  BY <1>0, <1>2b
<1> DEFINE r == c.req
<1>4. c \in Cursor /\ r \in Request
  <2>1. 53 \in 0 .. 53 /\ f[53] = c
    BY <1>0, <1>2a
  <2>2. c \in Cursor
    BY <2>1, <1>3
  <2> QED  BY <2>2 DEF Cursor
<1>5. /\ \A k \in 1 .. 53 : ReadsField(Payload[k]) => r[Payload[k].arg] = vs[k]
      /\ \A g \in FieldNames : Unread(Payload, g) => r[g] = ZeroRequest[g]
  <2>1. f[0].req = ZeroRequest /\ f[len].req = r
    BY <1>2a, StartIsCursor
  <2> QED  BY <2>1, <1>0, <1>2c DEF FieldsKept, len
<1>6. \A g \in {"has_last", "timestamp", "km_from_current"} :
        g \in FieldNames /\ Unread(Payload, g)
  BY <1>0, PayloadLeaves DEF len, Unread, FieldNames, Fields, TimeFields, FloatFields
<1>7. /\ r.has_last = FALSE /\ r.timestamp = NoTime
      /\ r.km_from_current = <<"number", 0>>
  BY <1>5, <1>6, StartIsCursor
<1>8. /\ Payload[11] = Item("int", "installments") /\ Payload[23] = Item("int", "tx_count_24h")
      /\ Payload[26] = Item("strings", "known_merchants")
      /\ Payload[14] = Item("time", "requested_at")
  BY DEF Payload
<1>9. \A k \in {11, 14, 23, 26} : ReadsField(Payload[k]) /\ k \in 1 .. 53 /\ k - 1 \in 0 .. 53
  BY <1>8 DEF Item, ReadsField
<1> HIDE DEF r
<1>10. \A k \in 1 .. 53 : ReadsField(Payload[k]) => Takes(Payload[k], ps[k], r[Payload[k].arg])
  BY <1>3, <1>5
<1>11. InRange(r.requested_at)
  <2>1. Takes(Payload[14], ps[14], r[Payload[14].arg])
    BY <1>9, <1>10
  <2> QED  BY <2>1, <1>8 DEF Takes, Item
<1>12. PICK i \in Nat : ps[11] = Number(i) /\ r.installments = Wrapped(i)
  <2>1. Takes(Payload[11], ps[11], r[Payload[11].arg])
    BY <1>9, <1>10
  <2> QED  BY <2>1, <1>8 DEF Takes, Item
<1>13. PICK n \in Nat : ps[23] = Number(n) /\ r.tx_count_24h = Wrapped(n)
  <2>1. Takes(Payload[23], ps[23], r[Payload[23].arg])
    BY <1>9, <1>10
  <2> QED  BY <2>1, <1>8 DEF Takes, Item
<1>14. PICK tr \in BOOLEAN : ps[26] = List(r.known_merchants, tr)
  <2>1. Takes(Payload[26], ps[26], r[Payload[26].arg])
    BY <1>9, <1>10
  <2> QED  BY <2>1, <1>8 DEF Takes, Item
<1>15. i \in Counts(b) /\ n \in Counts(b)
  <2>1. /\ f[11 - 1].at \in Nat \ {0} /\ Lies(b, f[11 - 1].at, ps[11])
        /\ f[23 - 1].at \in Nat \ {0} /\ Lies(b, f[23 - 1].at, ps[23])
    BY <1>3, <1>9 DEF Cursor
  <2> QED  BY <2>1, <1>12, <1>13, CountIsThere
<1> DEFINE R == WithCounts(r, i, n)
<1>16. /\ R \in Request /\ R.installments = i /\ R.tx_count_24h = n
       /\ \A g \in FieldNames \ IntFields : R[g] = r[g]
  BY <1>4, WithCountsIs DEF r
<1>17. \A k \in 1 .. 53 : Payload[k].op = "int" => k = 11 \/ k = 23
  <2> TAKE k \in 1 .. 53
  <2> HAVE Payload[k].op = "int"
  <2>1. Payload[k].arg \in IntFields /\ ReadsField(Payload[k])
    BY <1>1, ItemKinds DEF ReadsField
  <2>2. Slot[Payload[k].arg] = k
    BY <2>1, <1>0, <1>2d
  <2> QED  BY <2>1, <2>2 DEF IntFields, Slot
<1>18. \A k \in 1 .. 53 : Payload[k].op = "strings" => k = 26
  <2> TAKE k \in 1 .. 53
  <2> HAVE Payload[k].op = "strings"
  <2>1. Payload[k].arg \in ListFields /\ ReadsField(Payload[k])
    BY <1>1, ItemKinds DEF ReadsField
  <2>2. Slot[Payload[k].arg] = k
    BY <2>1, <1>0, <1>2d
  <2> QED  BY <2>1, <2>2 DEF ListFields, Slot
<1> HIDE DEF R
<1>19. \A k \in 1 .. 53 : Piece(Payload[k], R, tr) = ps[k]
  <2> TAKE k \in 1 .. 53
  <2>1. Payload[k] \in Items
    BY <1>1
  <2>2. CASE Payload[k].op = "int"
    <3>1. CASE k = 11
      BY <3>1, <1>8, <1>12, <1>16 DEF Piece, Item
    <3>2. CASE k = 23
      BY <3>2, <1>8, <1>13, <1>16 DEF Piece, Item
    <3> QED  BY <3>1, <3>2, <2>2, <1>17
  <2>3. CASE Payload[k].op = "strings"
    <3>1. k = 26
      BY <2>3, <1>18
    <3>2. "known_merchants" \in FieldNames \ IntFields
      BY DEF FieldNames, Fields, ListFields, IntFields
    <3> QED  BY <3>1, <3>2, <1>8, <1>14, <1>16 DEF Piece, Item
  <2>4. CASE Payload[k].op # "int" /\ Payload[k].op # "strings"
    <3>1. Takes(Payload[k], ps[k], r[Payload[k].arg])
      <4>1. CASE ReadsField(Payload[k])
        BY <4>1, <1>10
      <4>2. CASE ~ ReadsField(Payload[k])
        BY <4>2, <1>3 DEF Takes, ReadsField
      <4> QED  BY <4>1, <4>2
    <3>2. ReadsField(Payload[k]) => R[Payload[k].arg] = r[Payload[k].arg]
      <4>1. ReadsField(Payload[k]) => Payload[k].arg \in FieldNames \ IntFields
        BY <2>1, <2>4, ItemKinds
           DEF ReadsField, FieldNames, Fields, TextFields, FloatFields, IntFields, BoolFields,
               TimeFields, ListFields
      <4> QED  BY <4>1, <1>16
    <3>3. r \in Request /\ Payload[k].op \notin {"int", "strings"}
      BY <1>4, <2>4
    <3> QED  BY <2>1, <3>1, <3>2, <3>3, SamePiece
  <2> QED  BY <2>2, <2>3, <2>4
<1> DEFINE m == Members(R, tr)
<1>20. Len(m) = 53 /\ \A k \in 1 .. 53 : m[k] = ps[k]
  <2>1. Len(m) = 53 /\ \A k \in 1 .. 53 : m[k] = Piece(Payload[k], R, tr)
    BY MembersArePieces
  <2> HIDE DEF m
  <2> QED  BY <2>1, <1>19
<1> HIDE DEF m
<1>21. FlattenSeq(m) \in Seq(Tokens) /\ Lies(b, 1, FlattenSeq(m)) /\ c.at = 1 + Len(FlattenSeq(m))
  <2>1. Len(m) = len /\ \A k \in 1 .. len : m[k] = ps[k]
    BY <1>0, <1>20
  <2>2. /\ FlattenSeq(m) \in Seq(Tokens) /\ Lies(b, Start.at, FlattenSeq(m))
        /\ c.at = Start.at + Len(FlattenSeq(m))
    BY <2>1, <1>2a
  <2> QED  BY <2>2, StartIsCursor
<1>22. WritesMembers(b, c, i, n, tr)
  BY <1>12, <1>13, <1>15, <1>21 DEF WritesMembers, m, R, r
<1>23. \E x, y, trailing : trailing \in BOOLEAN /\ WritesMembers(b, c, x, y, trailing)
  BY <1>14, <1>22
<1>24. PayloadRead(b, c)
  BY <1>4, <1>7, <1>11, <1>23 DEF PayloadRead, r
<1> QED  BY <1>24 DEF c

(* The same of a last transaction. *)
LastFields == {"timestamp", "km_from_current"}
LastRead(b, c, d) ==
  LET w == FlattenSeq(LastMembers(d.req))
  IN  /\ d \in Cursor /\ InRange(d.req.timestamp)
      /\ \A g \in FieldNames \ LastFields : d.req[g] = c.req[g]
      /\ w \in Seq(Tokens) /\ Lies(b, c.at, w) /\ d.at = c.at + Len(w)

LEMMA LastItems ==
  \A k \in 1 .. 7 : LastTransaction[k].op \notin {"int", "strings"}
BY DEF LastTransaction, Open, Shut, Comma, Byte, Key, Item

LEMMA LastSound ==
  ASSUME NEW b \in Seq(Tokens), NEW c \in Cursor, ReadAll(b, c, LastTransaction).ok
  PROVE  LastRead(b, c, ReadAll(b, c, LastTransaction))
<1> DEFINE d == ReadAll(b, c, LastTransaction)
           len == Len(LastTransaction)
<1>0. LastTransaction \in Seq(Items) /\ len = 7
  BY ItemsTyped
<1>1. \A k \in 1 .. 7 : LastTransaction[k] \in Items
  BY <1>0, SeqAt
<1>2. \E f, ps, vs :
        /\ f[0] = c /\ f[len] = d /\ Trail(b, LastTransaction, f, ps, vs)
        /\ \A w : Len(w) = len /\ (\A k \in 1 .. len : w[k] = ps[k]) =>
             /\ FlattenSeq(w) \in Seq(Tokens) /\ Lies(b, c.at, FlattenSeq(w))
             /\ d.at = c.at + Len(FlattenSeq(w))
  <2>1. LastTransaction \in Seq(Items) /\ Len(LastTransaction) # 0
    BY <1>0
  <2> QED  BY <2>1, PassWrites
<1>3. PICK f, ps, vs :
        /\ f[0] = c /\ f[len] = d /\ Trail(b, LastTransaction, f, ps, vs)
        /\ \A w : Len(w) = len /\ (\A k \in 1 .. len : w[k] = ps[k]) =>
             /\ FlattenSeq(w) \in Seq(Tokens) /\ Lies(b, c.at, FlattenSeq(w))
             /\ d.at = c.at + Len(FlattenSeq(w))
  BY <1>2
<1>4. /\ \A k \in 0 .. len : f[k] \in Cursor
      /\ \A k \in 1 .. len : Takes(LastTransaction[k], ps[k], vs[k])
  BY <1>3 DEF Trail
<1>5. FieldsKept(LastTransaction, f[0], f[len], vs)
  <2>1. LastTransaction \in Seq(Items) /\ Trail(b, LastTransaction, f, ps, vs)
    BY <1>0, <1>3
  <2> QED  BY <2>1, FieldsRead, LastReadOnce
<1> HIDE DEF len, d
<1> DEFINE r == d.req
<1>6. d \in Cursor /\ r \in Request
  <2>1. len \in 0 .. len /\ f[len] = d
    BY <1>0, <1>3
  <2>2. d \in Cursor
    BY <2>1, <1>4
  <2> QED  BY <2>2 DEF Cursor
<1>7. /\ \A k \in 1 .. 7 : ReadsField(LastTransaction[k]) => r[LastTransaction[k].arg] = vs[k]
      /\ \A g \in FieldNames : Unread(LastTransaction, g) => r[g] = c.req[g]
  <2>1. f[0].req = c.req /\ f[len].req = r
    BY <1>3
  <2> QED  BY <2>1, <1>0, <1>5 DEF FieldsKept, len
<1> HIDE DEF r
<1>8. \A k \in 1 .. 7 : Takes(LastTransaction[k], ps[k], vs[k])
  BY <1>0, <1>4
<1>9. \A g \in FieldNames \ LastFields : r[g] = c.req[g]
  <2>1. \A g \in FieldNames \ LastFields : Unread(LastTransaction, g)
    BY <1>0, LastReads DEF Unread, LastFields, len
  <2> QED  BY <2>1, <1>7
<1>10. \A k \in 1 .. 7 : Takes(LastTransaction[k], ps[k], r[LastTransaction[k].arg])
  <2> TAKE k \in 1 .. 7
  <2>1. CASE ReadsField(LastTransaction[k])
    BY <2>1, <1>7, <1>8
  <2>2. CASE ~ ReadsField(LastTransaction[k])
    BY <2>2, <1>8 DEF Takes, ReadsField
  <2> QED  BY <2>1, <2>2
<1>11. InRange(r.timestamp)
  <2>1. LastTransaction[3] = Item("time", "timestamp") /\ 3 \in 1 .. 7
    BY DEF LastTransaction
  <2>2. Takes(LastTransaction[3], ps[3], r[LastTransaction[3].arg])
    BY <1>10, <2>1
  <2> QED  BY <2>1, <2>2 DEF Takes, Item
<1> DEFINE m == LastMembers(r)
<1>12. Len(m) = len /\ \A k \in 1 .. len : m[k] = ps[k]
  <2>0. PICK tr \in BOOLEAN : TRUE
    OBVIOUS
  <2>1. Len(m) = 7 /\ \A k \in 1 .. 7 : m[k] = Piece(LastTransaction[k], r, tr)
    BY MembersArePieces
  <2> HIDE DEF m
  <2>2. \A k \in 1 .. 7 : Piece(LastTransaction[k], r, tr) = ps[k]
    <3> TAKE k \in 1 .. 7
    <3>1. /\ LastTransaction[k] \in Items /\ LastTransaction[k].op \notin {"int", "strings"}
          /\ Takes(LastTransaction[k], ps[k], r[LastTransaction[k].arg]) /\ r \in Request
      BY <1>1, <1>6, <1>10, LastItems
    <3> DEFINE one == LastTransaction[k]
    <3>2. /\ one \in Items /\ one.op \notin {"int", "strings"}
          /\ Takes(one, ps[k], r[one.arg]) /\ r \in Request
          /\ (ReadsField(one) => r[one.arg] = r[one.arg])
      BY <3>1
    <3> HIDE DEF one
    <3>3. Piece(one, r, tr) = ps[k]
      BY <3>2, SamePiece
    <3> QED  BY <3>3 DEF one
  <2> QED  BY <2>1, <2>2, <1>0
<1> HIDE DEF m
<1>13. FlattenSeq(m) \in Seq(Tokens) /\ Lies(b, c.at, FlattenSeq(m)) /\ d.at = c.at + Len(FlattenSeq(m))
  BY <1>12, <1>3
<1>14. LastRead(b, c, d)
  BY <1>6, <1>9, <1>11, <1>13 DEF LastRead, r, m
<1> QED  BY <1>14 DEF d

(* The last brace, and the cursor before it. *)
LEMMA CloseSound ==
  ASSUME NEW b \in Seq(Tokens), NEW c \in Cursor, ReadAll(b, c, Close).ok
  PROVE  c.ok /\ Lies(b, c.at, Right) /\ ReadAll(b, c, Close).req = c.req
<1>1. Len(Close) = 1 /\ Close[1] = Byte("rbrace")
  BY DEF Close, Shut
<1>2. c.ok
  <2>1. Len(Close) \in Nat
    BY <1>1
  <2> QED  BY <2>1, PassKeepsError
<1>3. PICK f : /\ f[0] = c /\ ReadAll(b, c, Close) = f[Len(Close)]
               /\ \A k \in 1 .. Len(Close) : f[k] = PassStep(b, Close, f[k - 1], k)
  <2>1. Len(Close) \in Nat
    BY <1>1
  <2> QED  BY <2>1, PassIs
<1>4. ReadAll(b, c, Close) = f[1] /\ f[1] = PassStep(b, Close, f[0], 1)
  BY <1>1, <1>3
<1>5. ReadAll(b, c, Close) = expectByte(b, c, "rbrace")
  BY <1>1, <1>2, <1>3, <1>4, ReadItemIs DEF PassStep, Byte, Item
<1>6. ~ Refuse(c).ok
  BY RefuseIs
<1>7. Token(b, c.at) = Punct("rbrace") /\ ReadAll(b, c, Close) = Skip(c, 1)
  BY <1>5, <1>6 DEF expectByte
<1>8. Lies(b, c.at, <<Punct("rbrace")>>)
  <2>1. Punct("rbrace") # <<"end", 0>> /\ c.at \in Nat \ {0}
    BY NotEnd DEF Cursor
  <2> QED  BY <2>1, <1>7, LiesOne
<1>9. Skip(c, 1).req = c.req
  BY SkipIs
<1> QED  BY <1>2, <1>7, <1>8, <1>9 DEF Right

(* Whether a last transaction is there. *)
LEMMA HasLastIs ==
  ASSUME NEW r \in Request, NEW x \in BOOLEAN
  PROVE  /\ [r EXCEPT !.has_last = x] \in Request
         /\ [r EXCEPT !.has_last = x].has_last = x
         /\ \A g \in FieldNames \ {"has_last"} : [r EXCEPT !.has_last = x][g] = r[g]
         /\ r.has_last = x => [r EXCEPT !.has_last = x] = r
<1>1. [r EXCEPT !.has_last = x] \in Request
  BY DEF Request
<1>2. r = [g \in FieldNames |-> r[g]]
  BY DEF Request, FieldNames, Fields, TextFields, FloatFields, IntFields, BoolFields,
         TimeFields, ListFields
<1>3. "has_last" \in FieldNames
  BY DEF FieldNames
<1>4. [r EXCEPT !.has_last = x].has_last = x
  BY <1>2, <1>3
<1>5. \A g \in FieldNames \ {"has_last"} : [r EXCEPT !.has_last = x][g] = r[g]
  BY <1>2
<1>6. ASSUME r.has_last = x PROVE [r EXCEPT !.has_last = x] = r
  BY <1>2, <1>6
<1> QED  BY <1>1, <1>4, <1>5, <1>6

LEMMA HasLastSet ==
  ASSUME NEW c, NEW o \in BOOLEAN, NEW a \in Nat \ {0}, NEW r \in Request,
         c = [ok |-> o, at |-> a, req |-> r], NEW x \in BOOLEAN
  PROVE  LET d == [c EXCEPT !.req.has_last = x]
         IN  d \in Cursor /\ d.ok = o /\ d.at = a /\ d.req = [r EXCEPT !.has_last = x]
<1> DEFINE q == [r EXCEPT !.has_last = x]
<1>1. q \in Request
  BY HasLastIs
<1>2. c.req = r
  OBVIOUS
<1>3. [c EXCEPT !.req.has_last = x] = [c EXCEPT !.req = [c.req EXCEPT !.has_last = x]]
  OBVIOUS
<1>4. [c EXCEPT !.req.has_last = x] = [c EXCEPT !.req = q]
  BY <1>2, <1>3
<1> HIDE DEF q
<1>5. [c EXCEPT !.req = q] = [ok |-> o, at |-> a, req |-> q]
  OBVIOUS
<1> DEFINE d == [ok |-> o, at |-> a, req |-> q]
<1>6. d \in Cursor /\ d.ok = o /\ d.at = a /\ d.req = q
  BY <1>1 DEF Cursor
<1> QED  BY <1>4, <1>5, <1>6 DEF q

(* The member null, and the cursor before the members of a last transaction. *)
LEMMA NullRead ==
  ASSUME NEW b \in Seq(Tokens), NEW c \in Cursor, c.ok, c.req.has_last = FALSE,
         Token(b, c.at) = Word("null")
  PROVE  LET d == ReadLast(b, c)
         IN  /\ d \in Cursor /\ d.ok /\ d.at = c.at + 1 /\ d.req = c.req
             /\ Lies(b, c.at, <<Word("null")>>)
<1>1. ReadLast(b, c) = [Skip(c, 1) EXCEPT !.req.has_last = FALSE]
  BY DEF ReadLast
<1>2. Skip(c, 1) = [ok |-> c.ok, at |-> c.at + 1, req |-> c.req]
  BY SkipIs
<1>3. c.ok \in BOOLEAN /\ c.at \in Nat \ {0} /\ c.at + 1 \in Nat \ {0} /\ c.req \in Request
  BY DEF Cursor
<1> DEFINE s == Skip(c, 1)
           d == [s EXCEPT !.req.has_last = FALSE]
<1>4. d \in Cursor /\ d.ok = c.ok /\ d.at = c.at + 1 /\ d.req = [c.req EXCEPT !.has_last = FALSE]
  <2> HIDE DEF s
  <2>1. s = [ok |-> c.ok, at |-> c.at + 1, req |-> c.req]
    BY <1>2 DEF s
  <2> QED  BY <2>1, <1>3, HasLastSet
<1>5. [c.req EXCEPT !.has_last = FALSE] = c.req
  BY <1>3, HasLastIs
<1>6. Lies(b, c.at, <<Word("null")>>)
  BY <1>3, NotEnd, LiesOne
<1>7. ReadLast(b, c) = d
  BY <1>1
<1> HIDE DEF d
<1> QED  BY <1>4, <1>5, <1>6, <1>7

LEMMA LastStart ==
  ASSUME NEW c \in Cursor
  PROVE  LET d == [c EXCEPT !.req.has_last = TRUE]
         IN  /\ d \in Cursor /\ d.ok = c.ok /\ d.at = c.at /\ d.req.has_last = TRUE
             /\ \A g \in FieldNames \ {"has_last"} : d.req[g] = c.req[g]
<1> DEFINE d == [c EXCEPT !.req.has_last = TRUE]
<1>0. c = [ok |-> c.ok, at |-> c.at, req |-> c.req]
  BY DEF Cursor
<1>1. c.ok \in BOOLEAN /\ c.at \in Nat \ {0} /\ c.req \in Request
  BY DEF Cursor
<1>2. d \in Cursor /\ d.ok = c.ok /\ d.at = c.at /\ d.req = [c.req EXCEPT !.has_last = TRUE]
  BY <1>0, <1>1, HasLastSet
<1> HIDE DEF d
<1>3. d.req.has_last = TRUE /\ \A g \in FieldNames \ {"has_last"} : d.req[g] = c.req[g]
  <2> DEFINE q == c.req
  <2>1. q \in Request
    BY <1>1
  <2> HIDE DEF q
  <2>2. /\ [q EXCEPT !.has_last = TRUE].has_last = TRUE
        /\ \A g \in FieldNames \ {"has_last"} : [q EXCEPT !.has_last = TRUE][g] = q[g]
    BY <2>1, HasLastIs
  <2> QED  BY <2>2, <1>2 DEF q
<1> QED  BY <1>2, <1>3 DEF d

(* What is written before last_transaction depends on the fields before it. *)
FirstFields == FieldNames \ ({"has_last"} \cup LastFields)

LEMMA MembersAlike ==
  ASSUME NEW r, NEW s, \A g \in FirstFields : r[g] = s[g], NEW trailing
  PROVE  Members(r, trailing) = Members(s, trailing)
<1>1. \A g \in {"id", "amount", "installments", "requested_at", "avg_amount", "tx_count_24h",
                "known_merchants", "merchant_id", "mcc", "merchant_avg", "is_online",
                "card_present", "km_from_home"} : r[g] = s[g]
  BY DEF FirstFields, FieldNames, LastFields, Fields, TextFields, FloatFields, IntFields,
         BoolFields, TimeFields, ListFields
<1>2. /\ r.id = s.id /\ r.amount = s.amount /\ r.installments = s.installments
      /\ r.requested_at = s.requested_at /\ r.avg_amount = s.avg_amount
      /\ r.tx_count_24h = s.tx_count_24h /\ r.known_merchants = s.known_merchants
      /\ r.merchant_id = s.merchant_id /\ r.mcc = s.mcc /\ r.merchant_avg = s.merchant_avg
      /\ r.is_online = s.is_online /\ r.card_present = s.card_present
      /\ r.km_from_home = s.km_from_home
  BY <1>1
<1> QED  BY <1>2, Zenon DEF Members

LEMMA LastAlike ==
  ASSUME NEW r, NEW s, r.timestamp = s.timestamp, r.km_from_current = s.km_from_current
  PROVE  LastMembers(r) = LastMembers(s)
BY Zenon DEF LastMembers

(* The members of the body, where the last one begins and where it ends. *)
Parts(r, tr, m, l, a, e) ==
  /\ m \in Seq(Tokens) /\ m = FlattenSeq(Members(r, tr))
  /\ l \in Seq(Tokens)
  /\ l = IF r.has_last THEN FlattenSeq(LastMembers(r)) ELSE <<Word("null")>>
  /\ a \in Nat /\ a = 1 + Len(m) /\ e \in Nat /\ e = a + Len(l)

LEMMA WrittenLies ==
  ASSUME NEW b \in Seq(Tokens), NEW r, NEW tr, NEW m, NEW l, NEW a, NEW e,
         Parts(r, tr, m, l, a, e)
  PROVE  /\ Written(r, tr) \in Seq(Tokens)
         /\ (Lies(b, 1, m) /\ Lies(b, a, l) /\ Lies(b, e, Right)) => IsPrefix(Written(r, tr), b)
         /\ IsPrefix(Written(r, tr), b) => Lies(b, 1, m) /\ Lies(b, a, l) /\ Lies(b, e, Right)
<1>0. /\ m \in Seq(Tokens) /\ l \in Seq(Tokens) /\ a \in Nat /\ a = 1 + Len(m)
      /\ e \in Nat /\ e = a + Len(l)
  BY DEF Parts
<1>1. Written(r, tr) = (m \o l) \o Right
  BY DEF Written, Parts
<1>2. Right \in Seq(Tokens)
  BY DEF Right, Tokens, Marks, Punct
<1>3. /\ m \o l \in Seq(Tokens) /\ (m \o l) \o Right \in Seq(Tokens) /\ Len(m \o l) = Len(m) + Len(l)
      /\ Len(m) \in Nat /\ Len(l) \in Nat
  BY <1>0, <1>2, ConcatIs
<1> DEFINE ml == m \o l
           one == 1
<1>3a. one \in Nat \ {0} /\ ml \in Seq(Tokens)
  BY <1>3
<1> HIDE DEF one, ml
<1>4. Lies(b, one, ml \o Right) <=> Lies(b, one, ml) /\ Lies(b, one + Len(ml), Right)
  BY <1>2, <1>3a, LiesConcat
<1>5. Lies(b, one, m \o l) <=> Lies(b, one, m) /\ Lies(b, one + Len(m), l)
  BY <1>0, <1>3a, LiesConcat
<1>6. one + Len(ml) = e /\ one + Len(m) = a
  <2> DEFINE x == Len(m)
             y == Len(l)
             z == Len(ml)
  <2>1. z = x + y
    BY <1>3 DEF ml
  <2>2. x \in Nat /\ y \in Nat /\ a = 1 + x /\ e = a + y
    BY <1>0
  <2> HIDE DEF x, y, z
  <2>3. 1 + z = e /\ 1 + x = a
    <3>1. \A p, q \in Nat : 1 + (p + q) = (1 + p) + q
      OBVIOUS
    <3>2. 1 + (x + y) = (1 + x) + y
      BY <2>2, <3>1
    <3> QED  BY <2>1, <2>2, <3>2
  <2>4. one = 1
    BY DEF one
  <2>5. z = Len(ml) /\ x = Len(m)
    BY DEF z, x
  <2> QED  BY <2>3, <2>4, <2>5
<1> DEFINE w == (m \o l) \o Right
<1>7. w \in Seq(Tokens)
  BY <1>3
<1> HIDE DEF w
<1>8. Lies(b, 1, w) <=> IsPrefix(w, b)
  BY <1>7, LiesPrefix
<1>9. Lies(b, 1, w) <=> Lies(b, 1, m) /\ Lies(b, a, l) /\ Lies(b, e, Right)
  <2>1. w = ml \o Right
    BY DEF w, ml
  <2>2. one = 1
    BY DEF one
  <2>3. Lies(b, one, ml) <=> Lies(b, one, m) /\ Lies(b, a, l)
    BY <1>5, <1>6 DEF ml
  <2>4. Lies(b, one, w) <=> Lies(b, one, ml) /\ Lies(b, e, Right)
    BY <1>4, <1>6, <2>1
  <2> QED  BY <2>2, <2>3, <2>4
<1> QED  BY <1>1, <1>7, <1>8, <1>9 DEF w

(* A pass ends at a cursor, whether it ends in an error or not. *)
LEMMA RefuseTyped ==
  ASSUME NEW c \in Cursor
  PROVE  Refuse(c) \in Cursor
BY DEF Cursor, Refuse

LEMMA ItemRefused ==
  ASSUME NEW b, NEW c \in Cursor, c.ok, NEW item \in Items
  PROVE  ReadItem(b, c, item) = Refuse(c) \/ ReadItem(b, c, item).ok
<1> DEFINE d == ReadItem(b, c, item)
<1>0. Skip(c, 1).ok /\ Skip(c, 2).ok /\ \A f, v : Set(c, f, v).ok
  <2>1. \A n : Skip(c, n).ok
    BY SkipIs
  <2>2. \A f, v : Set(c, f, v).ok
    BY SetIs
  <2> QED  BY <2>1, <2>2
<1>1. CASE item.op = "byte"
  <2>1. d = expectByte(b, c, item.arg)
    BY <1>1, ReadItemIs
  <2> QED  BY <2>1, <1>0 DEF expectByte
<1>2. CASE item.op = "key"
  <2>1. d = expectKeyAt(b, c, item.arg)
    BY <1>2, ReadItemIs
  <2> QED  BY <2>1, <1>0 DEF expectKeyAt
<1>3. CASE item.op = "string"
  <2>1. d = readStringAt(b, c, item.arg)
    BY <1>3, ReadItemIs
  <2> QED  BY <2>1, <1>0 DEF readStringAt
<1>4. CASE item.op = "float"
  <2>1. d = readFloat32At(b, c, item.arg)
    BY <1>4, ReadItemIs
  <2> QED  BY <2>1, <1>0 DEF readFloat32At
<1>5. CASE item.op = "int"
  <2>1. d = readInt32At(b, c, item.arg)
    BY <1>5, ReadItemIs
  <2> QED  BY <2>1, <1>0 DEF readInt32At
<1>6. CASE item.op = "bool"
  <2>1. d = readBoolAt(b, c, item.arg)
    BY <1>6, ReadItemIs
  <2> QED  BY <2>1, <1>0 DEF readBoolAt
<1>7. CASE item.op = "time"
  <2>1. d = readTimeAt(b, c, item.arg)
    BY <1>7, ReadItemIs
  <2> QED  BY <2>1, <1>0 DEF readTimeAt
<1>8. CASE item.op = "strings"
  <2> DEFINE v == Strung(b, c.at)
             s == Set(c, item.arg, v)
             y == c.at + Span(b, c.at) + 1
  <2>1. d = readStringArrayAt(b, c, item.arg)
    BY <1>8, ReadItemIs
  <2>2. d = [s EXCEPT !.at = y] \/ d = Refuse(c)
    BY <2>1, ArrayIs
  <2>3. [s EXCEPT !.at = y].ok
    <3> DEFINE o == c.ok
               x == c.at + 1
               r == [c.req EXCEPT ![item.arg] = v]
    <3>1. s = [ok |-> o, at |-> x, req |-> r]
      BY SetIs
    <3>1a. o
      OBVIOUS
    <3> HIDE DEF s, y, v, o, x, r
    <3>2. [s EXCEPT !.at = y] = [ok |-> o, at |-> y, req |-> r]
      BY <3>1, AtMoved
    <3> QED  BY <3>1a, <3>2
  <2> QED  BY <2>2, <2>3
<1> QED  BY <1>1, <1>2, <1>3, <1>4, <1>5, <1>6, <1>7, <1>8, ItemKinds

LEMMA StepTyped ==
  ASSUME NEW b \in Seq(Tokens), NEW c \in Cursor, NEW item \in Items
  PROVE  (IF c.ok THEN ReadItem(b, c, item) ELSE c) \in Cursor
<1>1. CASE c.ok
  <2>1. CASE ReadItem(b, c, item).ok
    <3>1. PICK p, v : Match(b, c, item, p, v)
      BY <1>1, <2>1, ItemRead
    <3>2. Takes(item, p, v) /\ ReadItem(b, c, item) = Taken(c, item, Len(p), v)
      BY <3>1 DEF Match
    <3>3. Taken(c, item, Len(p), v) \in Cursor
      BY <1>1, <3>2, TakenTyped
    <3> QED  BY <1>1, <3>2, <3>3
  <2>2. CASE ReadItem(b, c, item) = Refuse(c)
    BY <1>1, <2>2, RefuseTyped
  <2> QED  BY <1>1, <2>1, <2>2, ItemRefused
<1> QED  BY <1>1

LEMMA PassTyped ==
  ASSUME NEW b \in Seq(Tokens), NEW c \in Cursor, NEW items \in Seq(Items)
  PROVE  ReadAll(b, c, items) \in Cursor
<1> DEFINE n == Len(items)
<1>1. PICK f : /\ f[0] = c /\ ReadAll(b, c, items) = f[n]
               /\ \A k \in 1 .. n : f[k] = PassStep(b, items, f[k - 1], k)
  <2>1. Len(items) \in Nat
    OBVIOUS
  <2> QED  BY <2>1, PassIs
<1>2. n \in Nat /\ \A k \in 1 .. n : items[k] \in Items
  OBVIOUS
<1> HIDE DEF n
<1> DEFINE Good == {k \in Nat : f[k] \in Cursor}
<1>3. 0 \in Good
  BY <1>1
<1>4. ASSUME NEW k \in 0 .. n - 1, k \in Good PROVE k + 1 \in Good
  <2>1. k + 1 \in 1 .. n /\ (k + 1) - 1 = k /\ k + 1 \in Nat
    BY <1>2
  <2>2. f[k + 1] = IF f[k].ok THEN ReadItem(b, f[k], items[k + 1]) ELSE f[k]
    BY <2>1, <1>1 DEF PassStep
  <2>3. f[k + 1] \in Cursor
    BY <2>1, <2>2, <1>2, <1>4, StepTyped
  <2> QED  BY <2>1, <2>3
<1> HIDE DEF Good
<1>5. \A k \in 0 .. n : k \in Good
  BY <1>2, <1>3, <1>4, Climb
<1>6. n \in Good
  BY <1>2, <1>5
<1> QED  BY <1>1, <1>6 DEF Good

(* The counts a client may have written do not matter to the other members. *)
LEMMA CountsAlike ==
  ASSUME NEW r \in Request, NEW s \in Request, \A g \in FirstFields : r[g] = s[g],
         NEW i \in Int, NEW n \in Int, NEW trailing
  PROVE  /\ Members(WithCounts(r, i, n), trailing) = Members(WithCounts(s, i, n), trailing)
         /\ LastMembers(WithCounts(r, i, n)) = LastMembers(r)
         /\ WithCounts(r, i, n).has_last = r.has_last
<1> DEFINE R == WithCounts(r, i, n)
           S == WithCounts(s, i, n)
<1>1. /\ R.installments = i /\ R.tx_count_24h = n
      /\ \A g \in FieldNames \ IntFields : R[g] = r[g]
  BY WithCountsIs
<1>2. /\ S.installments = i /\ S.tx_count_24h = n
      /\ \A g \in FieldNames \ IntFields : S[g] = s[g]
  BY WithCountsIs
<1> HIDE DEF R, S
<1>3. \A g \in FirstFields : R[g] = S[g]
  <2> TAKE g \in FirstFields
  <2>1. CASE g \in IntFields
    BY <2>1, <1>1, <1>2 DEF IntFields
  <2>2. CASE g \notin IntFields
    <3>1. g \in FieldNames \ IntFields
      BY <2>2 DEF FirstFields
    <3>2. R[g] = r[g] /\ S[g] = s[g] /\ r[g] = s[g]
      BY <3>1, <1>1, <1>2
    <3> QED  BY <3>2
  <2> QED  BY <2>1, <2>2
<1>4. Members(R, trailing) = Members(S, trailing)
  BY <1>3, MembersAlike
<1>5. {"timestamp", "km_from_current", "has_last"} \subseteq FieldNames \ IntFields
  BY DEF FieldNames, IntFields, Fields, TimeFields, FloatFields
<1>6. /\ R.timestamp = r.timestamp /\ R.km_from_current = r.km_from_current
      /\ R.has_last = r.has_last
  BY <1>1, <1>5
<1>7. LastMembers(R) = LastMembers(r)
  BY <1>6, LastAlike
<1> QED  BY <1>4, <1>6, <1>7 DEF R, S

(* The parts of an accepted body, put together. *)
LEMMA PartsRead ==
  ASSUME NEW b \in Seq(Tokens), NEW p \in Cursor, NEW q \in Request,
         \A g \in FirstFields : q[g] = p.req[g],
         NEW i, NEW n, NEW trailing \in BOOLEAN, WritesMembers(b, p, i, n, trailing),
         NEW l \in Seq(Tokens),
         l = IF q.has_last THEN FlattenSeq(LastMembers(q)) ELSE <<Word("null")>>,
         Lies(b, p.at, l), NEW e \in Nat, e = p.at + Len(l), Lies(b, e, Right)
  PROVE  Reads(b, q)
<1> DEFINE r == p.req
           R == WithCounts(q, i, n)
           m == FlattenSeq(Members(WithCounts(r, i, n), trailing))
<1>1. /\ i \in Nat /\ n \in Nat /\ i \in Counts(b) /\ n \in Counts(b)
      /\ r.installments = Wrapped(i) /\ r.tx_count_24h = Wrapped(n)
      /\ m \in Seq(Tokens) /\ Lies(b, 1, m) /\ p.at = 1 + Len(m)
  BY DEF WritesMembers
<1>2. r \in Request /\ p.at \in Nat
  BY DEF Cursor
<1>3. /\ Members(R, trailing) = Members(WithCounts(r, i, n), trailing)
      /\ LastMembers(R) = LastMembers(q) /\ R.has_last = q.has_last
  <2>1. i \in Int /\ n \in Int /\ \A g \in FirstFields : q[g] = r[g]
    BY <1>1
  <2> HIDE DEF r
  <2> QED  BY <2>1, <1>2, CountsAlike
<1>4. q.installments = Wrapped(i) /\ q.tx_count_24h = Wrapped(n)
  <2>1. "installments" \in FirstFields /\ "tx_count_24h" \in FirstFields
    BY DEF FirstFields, FieldNames, LastFields, Fields, IntFields
  <2> QED  BY <2>1, <1>1
<1>5. m = FlattenSeq(Members(R, trailing))
  BY <1>3
<1>6. l = IF R.has_last THEN FlattenSeq(LastMembers(R)) ELSE <<Word("null")>>
  BY <1>3
<1> HIDE DEF R, m, r
<1>7. IsPrefix(Written(R, trailing), b)
  <2> DEFINE a == p.at
  <2>1. Lies(b, a, l) /\ Lies(b, 1, m)
    BY <1>1
  <2>2. Parts(R, trailing, m, l, a, e)
    BY <1>1, <1>2, <1>5, <1>6 DEF Parts
  <2> HIDE DEF a
  <2>3. (Lies(b, 1, m) /\ Lies(b, a, l) /\ Lies(b, e, Right)) => IsPrefix(Written(R, trailing), b)
    BY <2>2, WrittenLies
  <2> QED  BY <2>1, <2>3
<1>8. IsPrefix(Written(WithCounts(q, i, n), trailing), b)
  BY <1>7 DEF R
<1> QED  BY <1>1, <1>4, <1>8 DEF Reads

(***************************************************************************)
(* Soundness: what is accepted is a request, its times are in their range, *)
(* and the body says what was read.                                        *)
(***************************************************************************)
WellRead(b, q) ==
  /\ q \in Request /\ InRanges(q) /\ Reads(b, q)
  /\ ~ q.has_last => q.timestamp = NoTime /\ q.km_from_current = <<"number", 0>>

LEMMA NullSound ==
  ASSUME NEW b \in Seq(Tokens), NEW p, p.ok, PayloadRead(b, p), Token(b, p.at) = Word("null"),
         ReadAll(b, ReadLast(b, p), Close).ok
  PROVE  WellRead(b, ReadAll(b, ReadLast(b, p), Close).req)
<1> DEFINE d == ReadLast(b, p)
           z == ReadAll(b, d, Close)
           null == <<Word("null")>>
<1>1. /\ p \in Cursor /\ p.req.has_last = FALSE /\ p.req.timestamp = NoTime
      /\ p.req.km_from_current = <<"number", 0>> /\ InRange(p.req.requested_at)
      /\ \E i, n, trailing : trailing \in BOOLEAN /\ WritesMembers(b, p, i, n, trailing)
  BY DEF PayloadRead
<1>2. /\ d \in Cursor /\ d.at = p.at + 1 /\ d.req = p.req /\ Lies(b, p.at, null)
  BY <1>1, NullRead
<1>3. z.ok
  OBVIOUS
<1>4. null \in Seq(Tokens) /\ Len(null) = 1
  BY DEF Word, Tokens, Words
<1> HIDE DEF d, null
<1>5. Lies(b, d.at, Right) /\ z.req = d.req
  BY <1>2, <1>3, CloseSound
<1> HIDE DEF z
<1> DEFINE q == p.req
<1>6. q \in Request /\ p.at \in Nat /\ d.at \in Nat
  BY <1>1, <1>2 DEF Cursor
<1>7. PICK i, n, trailing : trailing \in BOOLEAN /\ WritesMembers(b, p, i, n, trailing)
  BY <1>1
<1>8. null = IF q.has_last THEN FlattenSeq(LastMembers(q)) ELSE <<Word("null")>>
  BY <1>1 DEF null
<1>9. Reads(b, q)
  <2>1. \A g \in FirstFields : q[g] = p.req[g]
    OBVIOUS
  <2>2. d.at = p.at + Len(null)
    BY <1>2, <1>4
  <2> HIDE DEF q
  <2> QED  BY <1>1, <1>2, <1>4, <1>5, <1>6, <1>7, <1>8, <2>1, <2>2, PartsRead
<1>10. InRanges(q)
  BY <1>1, NoTimeIs DEF InRanges
<1>11. WellRead(b, q)
  BY <1>1, <1>6, <1>9, <1>10 DEF WellRead
<1>12. z.req = q
  BY <1>2, <1>5
<1> HIDE DEF q
<1>13. WellRead(b, z.req)
  BY <1>11, <1>12
<1> QED  BY <1>13 DEF z, d

LEMMA MembersSound ==
  ASSUME NEW b \in Seq(Tokens), NEW p, PayloadRead(b, p), NEW d, d.ok,
         d = ReadAll(b, [p EXCEPT !.req.has_last = TRUE], LastTransaction),
         ReadAll(b, d, Close).ok
  PROVE  WellRead(b, ReadAll(b, d, Close).req)
<1> DEFINE c == [p EXCEPT !.req.has_last = TRUE]
           z == ReadAll(b, d, Close)
           q == d.req
           l == FlattenSeq(LastMembers(q))
<1>1. /\ p \in Cursor /\ InRange(p.req.requested_at)
      /\ \E i, n, trailing : trailing \in BOOLEAN /\ WritesMembers(b, p, i, n, trailing)
  BY DEF PayloadRead
<1>2. /\ c \in Cursor /\ c.at = p.at /\ c.req.has_last = TRUE
      /\ \A g \in FieldNames \ {"has_last"} : c.req[g] = p.req[g]
  BY <1>1, LastStart
<1> HIDE DEF c
<1>3. LastRead(b, c, d)
  <2>1. d = ReadAll(b, c, LastTransaction)
    BY DEF c
  <2>2. ReadAll(b, c, LastTransaction).ok
    BY <2>1
  <2>3. LastRead(b, c, ReadAll(b, c, LastTransaction))
    BY <1>2, <2>2, LastSound
  <2> QED  BY <2>1, <2>3
<1>4. /\ d \in Cursor /\ InRange(q.timestamp)
      /\ \A g \in FieldNames \ LastFields : q[g] = c.req[g]
      /\ l \in Seq(Tokens) /\ Lies(b, p.at, l) /\ d.at = p.at + Len(l)
  BY <1>2, <1>3 DEF LastRead
<1>5. z.ok
  OBVIOUS
<1>6. Lies(b, d.at, Right) /\ z.req = q
  BY <1>4, <1>5, CloseSound
<1>7. q \in Request /\ p.at \in Nat /\ d.at \in Nat
  BY <1>1, <1>4 DEF Cursor
<1> HIDE DEF z, q
<1>8. q.has_last = TRUE
  <2>1. "has_last" \in FieldNames \ LastFields
    BY DEF FieldNames, LastFields
  <2> QED  BY <2>1, <1>2, <1>4
<1>9. \A g \in FirstFields : q[g] = p.req[g]
  <2> TAKE g \in FirstFields
  <2>1. g \in FieldNames \ LastFields /\ g \in FieldNames \ {"has_last"}
    BY DEF FirstFields
  <2> QED  BY <2>1, <1>2, <1>4
<1>10. PICK i, n, trailing : trailing \in BOOLEAN /\ WritesMembers(b, p, i, n, trailing)
  BY <1>1
<1>11. l = IF q.has_last THEN FlattenSeq(LastMembers(q)) ELSE <<Word("null")>>
  BY <1>8
<1> HIDE DEF l
<1>12. Reads(b, q)
  BY <1>1, <1>4, <1>6, <1>7, <1>9, <1>10, <1>11, PartsRead, ZenonT(30)
<1>13. InRanges(q)
  <2>1. "requested_at" \in FirstFields
    BY DEF FirstFields, FieldNames, LastFields, Fields, TimeFields
  <2>2. q.requested_at = p.req.requested_at
    BY <2>1, <1>9
  <2> QED  BY <2>2, <1>1, <1>4 DEF InRanges
<1>14. WellRead(b, q)
  BY <1>7, <1>8, <1>12, <1>13 DEF WellRead
<1> QED  BY <1>6, <1>14 DEF z

(***************************************************************************)
(* Soundness of parseStrictRequest, over all bodies: what it accepts has   *)
(* every member in its place, with the value it read there, up to the last *)
(* brace; the request has the types of its fields and times in range.      *)
(***************************************************************************)
THEOREM ParserIsSound ==
  ASSUME NEW b \in Seq(Tokens), parseStrictRequest(b).ok
  PROVE  WellRead(b, parseStrictRequest(b).req)
<1> DEFINE p == ReadAll(b, Start, Payload)
           l == ReadLast(b, p)
<1>1. parseStrictRequest(b) = ReadAll(b, l, Close)
  BY DEF parseStrictRequest
<1>2. l.ok
  <2>1. Len(Close) \in Nat
    BY ItemsTyped
  <2>2. ReadAll(b, l, Close).ok
    BY <1>1
  <2> HIDE DEF l
  <2> QED  BY <2>1, <2>2, PassKeepsError
<1>3. p \in Cursor
  BY StartIsCursor, ItemsTyped, PassTyped
<1>4. p.ok => PayloadRead(b, p)
  BY PayloadSound
<1> HIDE DEF p
<1>5. CASE p.ok /\ Token(b, p.at) = Word("null")
  <2>1. ReadAll(b, ReadLast(b, p), Close).ok
    BY <1>1
  <2>2. WellRead(b, ReadAll(b, ReadLast(b, p), Close).req)
    BY <1>4, <1>5, <2>1, NullSound
  <2> QED  BY <2>2, <1>1
<1>6. CASE ~ (p.ok /\ Token(b, p.at) = Word("null"))
  <2> DEFINE c == [p EXCEPT !.req.has_last = TRUE]
  <2>1. l = ReadAll(b, c, LastTransaction)
    BY <1>6 DEF ReadLast
  <2>2. c.ok = p.ok
    BY <1>3, LastStart
  <2>3. ReadAll(b, c, LastTransaction).ok
    BY <1>2, <2>1
  <2>4. p.ok
    <3>1. Len(LastTransaction) \in Nat
      BY ItemsTyped
    <3>2. c.ok
      <4> HIDE DEF c
      <4> QED  BY <2>3, <3>1, PassKeepsError
    <3> QED  BY <2>2, <3>2
  <2>5. ReadAll(b, l, Close).ok
    BY <1>1
  <2> HIDE DEF l
  <2>6. WellRead(b, ReadAll(b, l, Close).req)
    BY <1>2, <1>4, <2>1, <2>4, <2>5, MembersSound
  <2> QED  BY <2>6, <1>1
<1> QED  BY <1>5, <1>6

-----------------------------------------------------------------------------
(***************************************************************************)
(* What is written is accepted.                                            *)
(***************************************************************************)
Tells(items, ps, vs) ==
  Len(ps) = Len(items) /\ \A k \in 1 .. Len(items) : Takes(items[k], ps[k], vs[k])
Passed(c, d, items, ps, vs) ==
  d \in Cursor /\ d.ok /\ d.at = c.at + Len(FlattenSeq(ps)) /\ FieldsKept(items, c, d, vs)

LEMMA PassReads ==
  ASSUME NEW b \in Seq(Tokens), NEW c \in Cursor, c.ok, NEW items \in Seq(Items),
         Len(items) # 0, NEW slot, ReadOnce(items, slot), NEW ps, NEW vs, Tells(items, ps, vs),
         Lies(b, c.at, FlattenSeq(ps))
  PROVE  Passed(c, ReadAll(b, c, items), items, ps, vs)
<1>1. /\ Len(ps) = Len(items)
      /\ \A k \in 1 .. Len(items) : Takes(items[k], ps[k], vs[k])
  BY DEF Tells
<1>2. /\ ReadAll(b, c, items) \in Cursor /\ ReadAll(b, c, items).ok
      /\ ReadAll(b, c, items).at = c.at + Len(FlattenSeq(ps))
      /\ \E f : f[0] = c /\ f[Len(items)] = ReadAll(b, c, items) /\ Trail(b, items, f, ps, vs)
  BY <1>1, WritingPasses
<1>3. PICK f : f[0] = c /\ f[Len(items)] = ReadAll(b, c, items) /\ Trail(b, items, f, ps, vs)
  BY <1>2
<1>4. FieldsKept(items, f[0], f[Len(items)], vs)
  BY <1>3, FieldsRead
<1> QED  BY <1>2, <1>3, <1>4 DEF Passed

LEMMA TellsTyped ==
  ASSUME NEW items \in Seq(Items), Len(items) # 0, NEW ps, NEW vs, Tells(items, ps, vs)
  PROVE  FlattenSeq(ps) \in Seq(Tokens)
<1>1. Len(ps) \in Nat \ {0} /\ \A k \in 1 .. Len(ps) : ps[k] \in Seq(Tokens)
  BY PiecesTyped DEF Tells
<1>2. PICK fl : Joined(ps, Len(ps), fl) /\ FlattenSeq(ps) = fl[Len(ps)]
  BY <1>1, FlattenIs
<1>3. Len(ps) \in 1 .. Len(ps)
  BY <1>1
<1> QED  BY <1>2, <1>3 DEF Joined

(* The first piece lies where all do. *)
LEMMA FirstLies ==
  ASSUME NEW b \in Seq(Tokens), NEW a \in Nat \ {0}, NEW items \in Seq(Items), Len(items) # 0,
         NEW ps, NEW vs, Tells(items, ps, vs), Lies(b, a, FlattenSeq(ps))
  PROVE  Lies(b, a, ps[1])
<1>1. Len(ps) \in Nat \ {0} /\ \A k \in 1 .. Len(ps) : ps[k] \in Seq(Tokens)
  BY PiecesTyped DEF Tells
<1>2. FlattenSeq(ps) \in Seq(Tokens)
  BY TellsTyped
<1>3. a - 1 <= Len(b)
  <2>1. Len(FlattenSeq(ps)) \in Nat /\ Len(b) \in Nat
    BY <1>2
  <2>2. a + Len(FlattenSeq(ps)) - 1 <= Len(b)
    BY DEF Lies
  <2> QED  BY <2>1, <2>2
<1>4. PICK at : Begins(ps, a, at)
  BY <1>1, <1>3, LaidOut
<1>5. \A k \in 1 .. Len(ps) : Lies(b, at[k - 1], ps[k])
  BY <1>1, <1>3, <1>4, LaidOut
<1>6. 1 \in 1 .. Len(ps) /\ 1 - 1 = 0 /\ at[0] = a
  BY <1>1, <1>4 DEF Begins
<1> QED  BY <1>5, <1>6

Values(items, r) == [k \in 1 .. Len(items) |-> Value(items[k], r)]

LEMMA MembersTell ==
  ASSUME NEW r \in Request, Said32(r), InRanges(r), NEW trailing \in BOOLEAN
  PROVE  /\ Tells(Payload, Members(r, trailing), Values(Payload, r))
         /\ Tells(LastTransaction, LastMembers(r), Values(LastTransaction, r))
<1>1. /\ Payload \in Seq(Items) /\ Len(Payload) = 53
      /\ LastTransaction \in Seq(Items) /\ Len(LastTransaction) = 7
  BY ItemsTyped
<1>2. /\ Len(Members(r, trailing)) = 53 /\ Len(LastMembers(r)) = 7
      /\ \A k \in 1 .. 53 : Members(r, trailing)[k] = Piece(Payload[k], r, trailing)
      /\ \A k \in 1 .. 7 : LastMembers(r)[k] = Piece(LastTransaction[k], r, trailing)
  BY MembersArePieces
<1>3. ASSUME NEW items \in Seq(Items), NEW ps, Len(ps) = Len(items),
             \A k \in 1 .. Len(items) : ps[k] = Piece(items[k], r, trailing)
      PROVE  Tells(items, ps, Values(items, r))
  <2>1. ASSUME NEW k \in 1 .. Len(items)
        PROVE  Takes(items[k], ps[k], Values(items, r)[k])
    <3>1. items[k] \in Items
      OBVIOUS
    <3>2. Takes(items[k], Piece(items[k], r, trailing), Value(items[k], r))
      BY <3>1, PieceTaken
    <3>3. Values(items, r)[k] = Value(items[k], r) /\ ps[k] = Piece(items[k], r, trailing)
      BY <1>3 DEF Values
    <3> QED  BY <3>2, <3>3
  <2> QED  BY <1>3, <2>1 DEF Tells
<1> DEFINE ms == Members(r, trailing)
           ls == LastMembers(r)
<1>4. Len(ms) = Len(Payload) /\ \A k \in 1 .. Len(Payload) : ms[k] = Piece(Payload[k], r, trailing)
  <2> HIDE DEF ms
  <2>1. Len(ms) = 53 /\ \A k \in 1 .. 53 : ms[k] = Piece(Payload[k], r, trailing)
    BY <1>2 DEF ms
  <2> QED  BY <1>1, <2>1
<1>5. /\ Len(ls) = Len(LastTransaction)
      /\ \A k \in 1 .. Len(LastTransaction) : ls[k] = Piece(LastTransaction[k], r, trailing)
  <2> HIDE DEF ls
  <2>1. Len(ls) = 7 /\ \A k \in 1 .. 7 : ls[k] = Piece(LastTransaction[k], r, trailing)
    BY <1>2 DEF ls
  <2> QED  BY <1>1, <2>1
<1> HIDE DEF ms, ls
<1>6. Tells(Payload, ms, Values(Payload, r))
  BY <1>1, <1>3, <1>4
<1>7. Tells(LastTransaction, ls, Values(LastTransaction, r))
  BY <1>1, <1>3, <1>5
<1> QED  BY <1>6, <1>7 DEF ms, ls

(* The request as it is read: with the counts as an int32 holds them. *)
In32(r) == WithCounts(r, Wrapped(r.installments), Wrapped(r.tx_count_24h))

LEMMA In32Is ==
  ASSUME NEW r \in Request
  PROVE  /\ In32(r) \in Request
         /\ \A item \in Items : ReadsField(item) => Value(item, r) = In32(r)[item.arg]
         /\ \A g \in FieldNames \ IntFields : In32(r)[g] = r[g]
<1> DEFINE i == Wrapped(r.installments)
           n == Wrapped(r.tx_count_24h)
           w == WithCounts(r, i, n)
<1>1. i \in Int /\ n \in Int
  BY WrappedIsInt DEF Request
<1> HIDE DEF i, n
<1>2. /\ w \in Request /\ w.installments = i /\ w.tx_count_24h = n
      /\ \A g \in FieldNames \ IntFields : w[g] = r[g]
  BY <1>1, WithCountsIs
<1>3. w = In32(r)
  BY DEF In32, i, n
<1> HIDE DEF w
<1>4. ASSUME NEW item \in Items, ReadsField(item) PROVE Value(item, r) = w[item.arg]
  <2>1. CASE item.op = "int"
    <3>1. item.arg = "installments" \/ item.arg = "tx_count_24h"
      BY <2>1, ItemKinds DEF IntFields
    <3>2. Value(item, r) = Wrapped(r[item.arg])
      BY <2>1 DEF Value
    <3> QED  BY <3>1, <3>2, <1>2 DEF i, n
  <2>2. CASE item.op # "int"
    <3>1. item.arg \in FieldNames \ IntFields
      BY <2>2, <1>4, ItemKinds
         DEF ReadsField, FieldNames, Fields, TextFields, FloatFields, IntFields, BoolFields,
             TimeFields, ListFields
    <3> QED  BY <2>2, <3>1, <1>2 DEF Value
  <2> QED  BY <2>1, <2>2
<1> QED  BY <1>2, <1>3, <1>4

(* The field each of the items reads. *)
LEMMA FirstSlots ==
  \A g \in FirstFields : \E k \in 1 .. 53 : ReadsField(Payload[k]) /\ Payload[k].arg = g
<1> DEFINE Slots == {3, 8, 11, 14, 20, 23, 26, 32, 35, 38, 44, 47, 50}
<1>1. \A g \in FirstFields : \E k \in Slots : ReadsField(Payload[k]) /\ Payload[k].arg = g
  BY DEF Payload, Open, Shut, Comma, Byte, Key, Item, ReadsField, FirstFields, LastFields,
         FieldNames, Fields, TextFields, FloatFields, IntFields, BoolFields, TimeFields, ListFields
<1>2. Slots \subseteq 1 .. 53
  OBVIOUS
<1> HIDE DEF Slots
<1> QED  BY <1>1, <1>2

LEMMA LastSlots ==
  \A g \in LastFields : \E k \in 1 .. 7 : ReadsField(LastTransaction[k]) /\ LastTransaction[k].arg = g
<1>1. /\ ReadsField(LastTransaction[3]) /\ LastTransaction[3].arg = "timestamp"
      /\ ReadsField(LastTransaction[6]) /\ LastTransaction[6].arg = "km_from_current"
  BY DEF LastTransaction, Open, Shut, Comma, Byte, Key, Item, ReadsField
<1> QED  BY <1>1 DEF LastFields

Complete(b, r, trailing, p) ==
  /\ p \in Cursor /\ p.ok /\ p.at = 1 + Len(FlattenSeq(Members(r, trailing)))
  /\ \A g \in FirstFields : p.req[g] = In32(r)[g]
  /\ p.req.has_last = FALSE /\ p.req.timestamp = NoTime
  /\ p.req.km_from_current = <<"number", 0>>

LEMMA PayloadComplete ==
  ASSUME NEW b \in Seq(Tokens), NEW r \in Request, Said32(r), InRanges(r),
         NEW trailing \in BOOLEAN, Lies(b, 1, FlattenSeq(Members(r, trailing)))
  PROVE  Complete(b, r, trailing, ReadAll(b, Start, Payload))
<1> DEFINE p == ReadAll(b, Start, Payload)
           ms == Members(r, trailing)
           vs == Values(Payload, r)
<1>1. /\ Payload \in Seq(Items) /\ Len(Payload) = 53
      /\ \A k \in 1 .. 53 : Payload[k] \in Items
  <2>1. Payload \in Seq(Items) /\ Len(Payload) = 53
    BY ItemsTyped
  <2>2. \A k \in 1 .. 53 : Payload[k] \in Items
    BY <2>1, SeqAt
  <2> QED  BY <2>1, <2>2
<1>2. Tells(Payload, ms, vs)
  BY MembersTell
<1>3. Lies(b, Start.at, FlattenSeq(ms))
  BY StartIsCursor
<1>4. Passed(Start, p, Payload, ms, vs)
  <2> HIDE DEF ms, vs
  <2>1. Start \in Cursor /\ Start.ok /\ Len(Payload) # 0
    BY <1>1, StartIsCursor
  <2> QED  BY <2>1, <1>1, <1>2, <1>3, PayloadReadOnce, PassReads
<1>5. /\ \A k \in 1 .. 53 : vs[k] = Value(Payload[k], r)
      /\ \A g \in {"has_last", "timestamp", "km_from_current"} :
           g \in FieldNames /\ Unread(Payload, g)
  <2>1. \A k \in 1 .. 53 : vs[k] = Value(Payload[k], r)
    BY <1>1 DEF Values
  <2>2. \A g \in {"has_last", "timestamp", "km_from_current"} :
           g \in FieldNames /\ Unread(Payload, g)
    BY <1>1, PayloadLeaves DEF Unread, FieldNames, Fields, TimeFields, FloatFields
  <2> QED  BY <2>1, <2>2
<1> HIDE DEF p, vs, ms
<1>6. /\ p \in Cursor /\ p.ok /\ p.at = Start.at + Len(FlattenSeq(ms))
      /\ \A k \in 1 .. Len(Payload) : ReadsField(Payload[k]) => p.req[Payload[k].arg] = vs[k]
      /\ \A g \in FieldNames : Unread(Payload, g) => p.req[g] = Start.req[g]
  BY <1>4 DEF Passed, FieldsKept
<1>7. \A k \in 1 .. 53 : ReadsField(Payload[k]) => p.req[Payload[k].arg] = vs[k]
  BY <1>1, <1>6
<1>8. \A g \in FirstFields : p.req[g] = In32(r)[g]
  <2> TAKE g \in FirstFields
  <2>1. PICK k \in 1 .. 53 : ReadsField(Payload[k]) /\ Payload[k].arg = g
    BY FirstSlots
  <2>2. p.req[g] = Value(Payload[k], r)
    BY <2>1, <1>5, <1>7
  <2>3. Value(Payload[k], r) = In32(r)[Payload[k].arg]
    <3>1. \A item \in Items : ReadsField(item) => Value(item, r) = In32(r)[item.arg]
      BY In32Is
    <3>2. Payload[k] \in Items
      BY <1>1
    <3> QED  BY <2>1, <3>1, <3>2
  <2> QED  BY <2>1, <2>2, <2>3
<1>9. /\ p.req.has_last = FALSE /\ p.req.timestamp = NoTime
      /\ p.req.km_from_current = <<"number", 0>>
  BY <1>5, <1>6, StartIsCursor
<1>10. p.at = 1 + Len(FlattenSeq(ms))
  BY <1>6, StartIsCursor
<1>11. Complete(b, r, trailing, p)
  BY <1>6, <1>8, <1>9, <1>10 DEF Complete, ms
<1> QED  BY <1>11 DEF p

LastComplete(b, r, c, d) ==
  /\ d \in Cursor /\ d.ok /\ d.at = c.at + Len(FlattenSeq(LastMembers(r)))
  /\ \A g \in LastFields : d.req[g] = r[g]
  /\ \A g \in FieldNames \ LastFields : d.req[g] = c.req[g]
  /\ Token(b, c.at) # Word("null")

LEMMA LastIsComplete ==
  ASSUME NEW b \in Seq(Tokens), NEW r \in Request, Said32(r), InRanges(r),
         NEW c \in Cursor, c.ok, Lies(b, c.at, FlattenSeq(LastMembers(r)))
  PROVE  LastComplete(b, r, c, ReadAll(b, c, LastTransaction))
<1> DEFINE d == ReadAll(b, c, LastTransaction)
           ls == LastMembers(r)
           vs == Values(LastTransaction, r)
<1>1. /\ LastTransaction \in Seq(Items) /\ Len(LastTransaction) = 7
      /\ \A k \in 1 .. 7 : LastTransaction[k] \in Items
  <2>1. LastTransaction \in Seq(Items) /\ Len(LastTransaction) = 7
    BY ItemsTyped
  <2>2. \A k \in 1 .. 7 : LastTransaction[k] \in Items
    BY <2>1, SeqAt
  <2> QED  BY <2>1, <2>2
<1>2. Tells(LastTransaction, ls, vs)
  <2>1. PICK trailing \in BOOLEAN : TRUE
    OBVIOUS
  <2> QED  BY <2>1, MembersTell
<1>3. \A k \in 1 .. 7 : vs[k] = Value(LastTransaction[k], r)
  BY <1>1 DEF Values
<1>4. Token(b, c.at) # Word("null")
  <2>1. ls[1] = <<Punct("lbrace")>>
    BY DEF LastMembers, Left
  <2> HIDE DEF ls
  <2>2. c.at \in Nat \ {0} /\ Len(LastTransaction) # 0
    BY <1>1 DEF Cursor
  <2>3. Lies(b, c.at, FlattenSeq(ls))
    BY DEF ls
  <2>4. Lies(b, c.at, ls[1])
    BY <1>1, <1>2, <2>2, <2>3, FirstLies
  <2>5. Token(b, c.at) = Punct("lbrace")
    BY <2>1, <2>2, <2>4, NotEnd, LiesOne
  <2> QED  BY <2>5 DEF Punct, Word
<1> HIDE DEF vs, ls
<1>5. Passed(c, d, LastTransaction, ls, vs)
  <2>1. Len(LastTransaction) # 0 /\ Lies(b, c.at, FlattenSeq(ls))
    BY <1>1 DEF ls
  <2> QED  BY <2>1, <1>1, <1>2, LastReadOnce, PassReads
<1> HIDE DEF d
<1>6. /\ d \in Cursor /\ d.ok /\ d.at = c.at + Len(FlattenSeq(ls))
      /\ \A k \in 1 .. Len(LastTransaction) :
           ReadsField(LastTransaction[k]) => d.req[LastTransaction[k].arg] = vs[k]
      /\ \A g \in FieldNames : Unread(LastTransaction, g) => d.req[g] = c.req[g]
  BY <1>5 DEF Passed, FieldsKept
<1>7. \A k \in 1 .. 7 : ReadsField(LastTransaction[k]) => d.req[LastTransaction[k].arg] = vs[k]
  BY <1>1, <1>6
<1>8. \A g \in LastFields : d.req[g] = r[g]
  <2> TAKE g \in LastFields
  <2>1. PICK k \in 1 .. 7 : ReadsField(LastTransaction[k]) /\ LastTransaction[k].arg = g
    BY LastSlots
  <2>2. d.req[g] = Value(LastTransaction[k], r)
    BY <2>1, <1>3, <1>7
  <2>3. LastTransaction[k].op # "int"
    BY LastItems
  <2> QED  BY <2>1, <2>2, <2>3 DEF Value
<1>9. \A g \in FieldNames \ LastFields : d.req[g] = c.req[g]
  <2>1. \A g \in FieldNames \ LastFields : Unread(LastTransaction, g)
    BY <1>1, LastReads DEF Unread, LastFields
  <2> QED  BY <2>1, <1>6
<1>10. LastComplete(b, r, c, d)
  BY <1>4, <1>6, <1>8, <1>9 DEF LastComplete, ls
<1> QED  BY <1>10 DEF d

LEMMA RequestExt ==
  ASSUME NEW r \in Request, NEW s \in Request, \A g \in FieldNames : r[g] = s[g]
  PROVE  r = s
<1>1. r = [g \in FieldNames |-> r[g]] /\ s = [g \in FieldNames |-> s[g]]
  BY DEF Request, FieldNames, Fields, TextFields, FloatFields, IntFields, BoolFields,
         TimeFields, ListFields
<1> QED  BY <1>1

LEMMA CloseReads ==
  ASSUME NEW b \in Seq(Tokens), NEW c \in Cursor, c.ok, Lies(b, c.at, Right)
  PROVE  ReadAll(b, c, Close).ok /\ ReadAll(b, c, Close).req = c.req
<1>1. Len(Close) = 1 /\ Close[1] = Byte("rbrace")
  BY DEF Close, Shut
<1>2. PICK f : /\ f[0] = c /\ ReadAll(b, c, Close) = f[Len(Close)]
               /\ \A k \in 1 .. Len(Close) : f[k] = PassStep(b, Close, f[k - 1], k)
  <2>1. Len(Close) \in Nat
    BY <1>1
  <2> QED  BY <2>1, PassIs
<1>3. ReadAll(b, c, Close) = f[1] /\ f[1] = PassStep(b, Close, f[0], 1)
  BY <1>1, <1>2
<1>4. ReadAll(b, c, Close) = expectByte(b, c, "rbrace")
  BY <1>1, <1>2, <1>3, ReadItemIs DEF PassStep, Byte, Item
<1>5. Token(b, c.at) = Punct("rbrace")
  <2>1. Punct("rbrace") # <<"end", 0>> /\ c.at \in Nat \ {0}
    BY NotEnd DEF Cursor
  <2>2. Lies(b, c.at, <<Punct("rbrace")>>)
    BY DEF Right
  <2> QED  BY <2>1, <2>2, LiesOne
<1>6. ReadAll(b, c, Close) = Skip(c, 1)
  BY <1>4, <1>5 DEF expectByte
<1> QED  BY <1>6, SkipIs

(***************************************************************************)
(* Completeness: what is written for a request is a body the parser        *)
(* accepts, and it reads the request, the counts as an int32 holds them.   *)
(***************************************************************************)
Writable(r) ==
  /\ r \in Request /\ Said32(r) /\ InRanges(r)
  /\ ~ r.has_last => r.timestamp = NoTime /\ r.km_from_current = <<"number", 0>>

(* Where the parts of a writing are in it. *)
LEMMA WrittenParts ==
  ASSUME NEW r, Writable(r), NEW trailing \in BOOLEAN
  PROVE  \E m, l, a, e :
           /\ Parts(r, trailing, m, l, a, e) /\ Written(r, trailing) \in Seq(Tokens)
           /\ Lies(Written(r, trailing), 1, m) /\ Lies(Written(r, trailing), a, l)
           /\ Lies(Written(r, trailing), e, Right)
<1> DEFINE m == FlattenSeq(Members(r, trailing))
           l == IF r.has_last THEN FlattenSeq(LastMembers(r)) ELSE <<Word("null")>>
           a == 1 + Len(m)
           e == a + Len(l)
           w == Written(r, trailing)
<1>1. m \in Seq(Tokens) /\ FlattenSeq(LastMembers(r)) \in Seq(Tokens)
  <2>1. /\ Tells(Payload, Members(r, trailing), Values(Payload, r))
        /\ Tells(LastTransaction, LastMembers(r), Values(LastTransaction, r))
    BY MembersTell DEF Writable
  <2>2. /\ Payload \in Seq(Items) /\ Len(Payload) # 0
        /\ LastTransaction \in Seq(Items) /\ Len(LastTransaction) # 0
    BY ItemsTyped
  <2> QED  BY <2>1, <2>2, TellsTyped
<1>2. l \in Seq(Tokens)
  <2>1. <<Word("null")>> \in Seq(Tokens)
    BY DEF Word, Tokens, Words
  <2> QED  BY <1>1, <2>1
<1>3. Len(m) \in Nat /\ Len(l) \in Nat
  <2> HIDE DEF m, l
  <2> QED  BY <1>1, <1>2
<1>3b. a \in Nat /\ e \in Nat
  <2> DEFINE x == Len(m)
             y == Len(l)
  <2>1. x \in Nat /\ y \in Nat
    BY <1>3
  <2> HIDE DEF x, y
  <2>2. 1 + x \in Nat /\ (1 + x) + y \in Nat
    BY <2>1
  <2>3. a = 1 + x /\ e = (1 + x) + y
    BY DEF x, y
  <2> HIDE DEF a, e
  <2> QED  BY <2>2, <2>3
<1>3a. /\ m = FlattenSeq(Members(r, trailing))
       /\ l = IF r.has_last THEN FlattenSeq(LastMembers(r)) ELSE <<Word("null")>>
       /\ a = 1 + Len(m) /\ e = a + Len(l)
  OBVIOUS
<1> HIDE DEF m, l, a, e
<1>4. Parts(r, trailing, m, l, a, e)
  BY <1>1, <1>2, <1>3a, <1>3b DEF Parts
<1>5. w \in Seq(Tokens)
  <2>1. <<>> \in Seq(Tokens)
    OBVIOUS
  <2> QED  BY <1>4, <2>1, WrittenLies
<1>6. IsPrefix(w, w)
  <2> HIDE DEF w
  <2>1. Lies(w, 1, w)
    <3>1. Len(w) \in Nat /\ \A j \in 1 .. Len(w) : w[1 + j - 1] = w[j]
      BY <1>5
    <3> QED  BY <3>1 DEF Lies
  <2> QED  BY <1>5, <2>1, LiesPrefix
<1>7. Lies(w, 1, m) /\ Lies(w, a, l) /\ Lies(w, e, Right)
  BY <1>4, <1>5, <1>6, WrittenLies
<1> QED  BY <1>4, <1>5, <1>7

(* The end of the proof: the last brace, behind a cursor that has read all. *)
LEMMA AllRead ==
  ASSUME NEW b \in Seq(Tokens), NEW r, Writable(r), NEW d \in Cursor, d.ok,
         Lies(b, d.at, Right), parseStrictRequest(b) = ReadAll(b, d, Close),
         \A g \in FirstFields : d.req[g] = In32(r)[g],
         d.req.has_last = r.has_last, d.req.timestamp = r.timestamp,
         d.req.km_from_current = r.km_from_current
  PROVE  parseStrictRequest(b).ok /\ parseStrictRequest(b).req = In32(r)
<1>1. ReadAll(b, d, Close).ok /\ ReadAll(b, d, Close).req = d.req
  BY CloseReads
<1> DEFINE q == d.req
           w == In32(r)
<1>2. /\ q \in Request /\ w \in Request
      /\ \A g \in FieldNames \ IntFields : w[g] = r[g]
  BY In32Is DEF Writable, Cursor
<1>3. \A g \in FieldNames : g \in FirstFields \/ g \in {"has_last", "timestamp", "km_from_current"}
  BY DEF FirstFields, LastFields
<1>4. {"has_last", "timestamp", "km_from_current"} \subseteq FieldNames \ IntFields
  BY DEF FieldNames, IntFields, Fields, TimeFields, FloatFields
<1>5. /\ q.has_last = r.has_last /\ q.timestamp = r.timestamp
      /\ q.km_from_current = r.km_from_current
      /\ \A g \in FirstFields : q[g] = w[g]
  OBVIOUS
<1> HIDE DEF q, w
<1>6. \A g \in {"has_last", "timestamp", "km_from_current"} : q[g] = w[g]
  BY <1>2, <1>4, <1>5
<1>7. \A g \in FieldNames : q[g] = w[g]
  BY <1>3, <1>5, <1>6
<1>8. q = w
  BY <1>2, <1>7, RequestExt
<1> QED  BY <1>1, <1>8 DEF q, w

LEMMA WritingWithoutLast ==
  ASSUME NEW b \in Seq(Tokens), NEW r, Writable(r), ~ r.has_last, NEW trailing \in BOOLEAN,
         NEW m, NEW l, NEW a, NEW e, Parts(r, trailing, m, l, a, e),
         Lies(b, 1, m), Lies(b, a, l), Lies(b, e, Right)
  PROVE  parseStrictRequest(b).ok /\ parseStrictRequest(b).req = In32(r)
<1> DEFINE p == ReadAll(b, Start, Payload)
           d == ReadLast(b, p)
<1>1. r \in Request /\ Said32(r) /\ InRanges(r)
  BY DEF Writable
<1>2. m = FlattenSeq(Members(r, trailing)) /\ l = <<Word("null")>>
  BY DEF Parts
<1>3. Complete(b, r, trailing, p)
  BY <1>1, <1>2, PayloadComplete
<1> HIDE DEF p
<1>4. /\ p \in Cursor /\ p.ok /\ p.at = a /\ p.req.has_last = FALSE
      /\ \A g \in FirstFields : p.req[g] = In32(r)[g]
      /\ p.req.timestamp = NoTime /\ p.req.km_from_current = <<"number", 0>>
  BY <1>2, <1>3 DEF Complete, Parts
<1>5. Token(b, p.at) = Word("null")
  <2>1. Word("null") # <<"end", 0>> /\ p.at \in Nat \ {0} /\ Lies(b, p.at, <<Word("null")>>)
    BY <1>2, <1>4, NotEnd DEF Cursor
  <2> QED  BY <2>1, LiesOne
<1>6. d \in Cursor /\ d.ok /\ d.at = p.at + 1 /\ d.req = p.req
  BY <1>4, <1>5, NullRead
<1>7. parseStrictRequest(b) = ReadAll(b, d, Close)
  BY DEF parseStrictRequest, p
<1> HIDE DEF d
<1>8. d.at = e
  <2>1. Len(l) = 1 /\ e = a + Len(l)
    BY <1>2 DEF Parts
  <2> QED  BY <2>1, <1>4, <1>6
<1>9. /\ \A g \in FirstFields : d.req[g] = In32(r)[g]
      /\ d.req.has_last = r.has_last /\ d.req.timestamp = r.timestamp
      /\ d.req.km_from_current = r.km_from_current
  <2>1. r.has_last = FALSE /\ r.timestamp = NoTime /\ r.km_from_current = <<"number", 0>>
    BY <1>1 DEF Writable, Request
  <2> QED  BY <2>1, <1>4, <1>6
<1>10. Lies(b, d.at, Right)
  BY <1>8
<1> QED  BY <1>6, <1>7, <1>9, <1>10, AllRead

LEMMA WritingWithLast ==
  ASSUME NEW b \in Seq(Tokens), NEW r, Writable(r), r.has_last, NEW trailing \in BOOLEAN,
         NEW m, NEW l, NEW a, NEW e, Parts(r, trailing, m, l, a, e),
         Lies(b, 1, m), Lies(b, a, l), Lies(b, e, Right)
  PROVE  parseStrictRequest(b).ok /\ parseStrictRequest(b).req = In32(r)
<1> DEFINE p == ReadAll(b, Start, Payload)
           c == [p EXCEPT !.req.has_last = TRUE]
           d == ReadAll(b, c, LastTransaction)
<1>1. r \in Request /\ Said32(r) /\ InRanges(r)
  BY DEF Writable
<1>2. m = FlattenSeq(Members(r, trailing)) /\ l = FlattenSeq(LastMembers(r))
  BY DEF Parts
<1>3. Complete(b, r, trailing, p)
  BY <1>1, <1>2, PayloadComplete
<1> HIDE DEF p
<1>4. /\ p \in Cursor /\ p.ok /\ p.at = a
      /\ \A g \in FirstFields : p.req[g] = In32(r)[g]
  BY <1>2, <1>3 DEF Complete, Parts
<1>5. /\ c \in Cursor /\ c.ok /\ c.at = p.at /\ c.req.has_last = TRUE
      /\ \A g \in FieldNames \ {"has_last"} : c.req[g] = p.req[g]
  BY <1>4, LastStart
<1> HIDE DEF c
<1>6. LastComplete(b, r, c, d)
  <2>1. Lies(b, c.at, FlattenSeq(LastMembers(r)))
    BY <1>2, <1>4, <1>5
  <2> QED  BY <1>1, <1>5, <2>1, LastIsComplete
<1> HIDE DEF d
<1>7. /\ d \in Cursor /\ d.ok /\ d.at = c.at + Len(l) /\ Token(b, c.at) # Word("null")
      /\ \A g \in LastFields : d.req[g] = r[g]
      /\ \A g \in FieldNames \ LastFields : d.req[g] = c.req[g]
  BY <1>2, <1>6 DEF LastComplete
<1>8. parseStrictRequest(b) = ReadAll(b, d, Close)
  <2>1. Token(b, p.at) # Word("null")
    BY <1>5, <1>7
  <2>2. ReadLast(b, p) = d
    BY <2>1 DEF ReadLast, c, d
  <2> QED  BY <2>2 DEF parseStrictRequest, p
<1>9. d.at = e
  BY <1>4, <1>5, <1>7 DEF Parts
<1>10. \A g \in FirstFields : d.req[g] = In32(r)[g]
  <2> TAKE g \in FirstFields
  <2>1. g \in FieldNames \ LastFields /\ g \in FieldNames \ {"has_last"}
    BY DEF FirstFields
  <2> QED  BY <2>1, <1>4, <1>5, <1>7
<1>11. /\ d.req.has_last = r.has_last /\ d.req.timestamp = r.timestamp
       /\ d.req.km_from_current = r.km_from_current
  <2>1. r.has_last = TRUE
    BY <1>1 DEF Request
  <2>2. "has_last" \in FieldNames \ LastFields /\ "timestamp" \in LastFields
        /\ "km_from_current" \in LastFields
    BY DEF FieldNames, LastFields
  <2>3. d.req.has_last = c.req.has_last
    BY <1>7, <2>2
  <2> QED  BY <2>1, <2>2, <2>3, <1>5, <1>7
<1>12. Lies(b, d.at, Right)
  BY <1>9
<1> QED  BY <1>7, <1>8, <1>10, <1>11, <1>12, AllRead

(***************************************************************************)
(* Completeness of parseStrictRequest: a request the format can carry is   *)
(* accepted as docs/API.md writes it, with or without a comma behind its   *)
(* last known merchant, and read as it is but for counts that wrap.        *)
(***************************************************************************)
THEOREM ParserIsComplete ==
  ASSUME NEW r, Writable(r), NEW trailing \in BOOLEAN
  PROVE  /\ Written(r, trailing) \in Seq(Tokens)
         /\ parseStrictRequest(Written(r, trailing)).ok
         /\ parseStrictRequest(Written(r, trailing)).req = In32(r)
<1> DEFINE b == Written(r, trailing)
<1>1. PICK m, l, a, e :
        /\ Parts(r, trailing, m, l, a, e) /\ b \in Seq(Tokens)
        /\ Lies(b, 1, m) /\ Lies(b, a, l) /\ Lies(b, e, Right)
  BY WrittenParts
<1> HIDE DEF b
<1>2. CASE r.has_last
  BY <1>1, <1>2, WritingWithLast DEF b
<1>3. CASE ~ r.has_last
  BY <1>1, <1>3, WritingWithoutLast DEF b
<1> QED  BY <1>1, <1>2, <1>3 DEF b

-----------------------------------------------------------------------------
(***************************************************************************)
(* The invariant: at every stage, what the handler holds and where it came *)
(* from.                                                                   *)
(***************************************************************************)
IInv ==
  /\ stage = "parse" =>
       body \in Seq(Tokens) /\ asked \in Requests /\ (edited \/ body = Written(asked, FALSE))
  /\ stage = "refused" => edited
  /\ stage = "vectorize" => WellRead(body, req) /\ (edited \/ req = In32(asked))
  /\ stage \in {"quantize", "search"} =>
       req \in Request /\ InRanges(req) /\ vec = Vectorize(req)
  /\ stage = "search" => \E nan \in {0, QByte} : qvec = QuantizeQuery(vec, nan)

LEMMA RequestsWritable ==
  ASSUME NEW r \in Requests
  PROVE  Writable(r)
BY RequestAssumption DEF Writable, Said32, InRanges

(* An edit of a body is a body. *)
LEMMA EditsTyped ==
  ASSUME NEW b \in Seq(Tokens), NEW e \in Edits(b)
  PROVE  e \in Seq(Tokens)
<1>1. \A t \in Misprints : t \in Tokens /\ <<t>> \in Seq(Tokens)
  BY RequestAssumption
<1>2. Len(b) \in Nat /\ DOMAIN b = 1 .. Len(b)
  OBVIOUS
<1>3. ASSUME NEW m \in 1 .. Len(b) + 1, NEW n \in 0 .. Len(b) PROVE SubSeq(b, m, n) \in Seq(Tokens)
  <2>1. n \in m - 1 .. Len(b) \/ n < m - 1
    BY <1>2
  <2>2. CASE n \in m - 1 .. Len(b)
    BY <2>2, SubSeqProperties
  <2>3. CASE n < m - 1
    BY <2>3, <1>2, SubSeqEmpty
  <2> QED  BY <2>1, <2>2, <2>3
<1>4. ASSUME NEW k \in 1 .. Len(b)
      PROVE  /\ 1 \in 1 .. Len(b) + 1 /\ k \in 1 .. Len(b) + 1 /\ k + 1 \in 1 .. Len(b) + 1
             /\ k - 1 \in 0 .. Len(b) /\ Len(b) \in 0 .. Len(b)
  BY <1>2
<1>5. \A k \in 1 .. Len(b) : SubSeq(b, 1, k - 1) \in Seq(Tokens)
                             /\ SubSeq(b, k, Len(b)) \in Seq(Tokens)
                             /\ SubSeq(b, k + 1, Len(b)) \in Seq(Tokens)
  BY <1>3, <1>4
<1>6. CASE \E k \in 0 .. Len(b) - 1 : e = SubSeq(b, 1, k)
  <2>1. \A k \in 0 .. Len(b) - 1 : 1 \in 1 .. Len(b) + 1 /\ k \in 0 .. Len(b)
    BY <1>2
  <2> QED  BY <1>3, <1>6, <2>1
<1>7. CASE \E k \in DOMAIN b : e = RemoveAt(b, k)
  BY <1>2, <1>5, <1>7, ConcatIs DEF RemoveAt
<1>8. CASE \E k \in DOMAIN b, t \in Misprints : e = ReplaceAt(b, k, t)
  BY <1>1, <1>8 DEF ReplaceAt
<1>9. CASE \E k \in DOMAIN b, t \in Misprints : e = InsertAt(b, k, t)
  <2>1. PICK k \in 1 .. Len(b), t \in Misprints : e = InsertAt(b, k, t)
    BY <1>2, <1>9
  <2> DEFINE x == SubSeq(b, 1, k - 1)
             y == SubSeq(b, k, Len(b))
             z == <<t>>
  <2>2. x \in Seq(Tokens) /\ y \in Seq(Tokens) /\ z \in Seq(Tokens)
    BY <1>1, <1>5
  <2>3. e = (x \o z) \o y
    BY <2>1 DEF InsertAt
  <2> HIDE DEF x, y, z
  <2>4. x \o z \in Seq(Tokens)
    BY <2>2, ConcatIs
  <2> QED  BY <2>2, <2>3, <2>4, ConcatIs
<1>10. CASE \E t \in Misprints : e = Append(b, t)
  BY <1>1, <1>10
<1> QED  BY <1>6, <1>7, <1>8, <1>9, <1>10 DEF Edits

LEMMA Invariance ==
  Spec => []IInv
<1>1. Init => IInv
  BY DEF Init, IInv
<1>2. IInv /\ [Next]_vars => IInv'
  <2> SUFFICES ASSUME IInv, [Next]_vars PROVE IInv'
    OBVIOUS
  <2>1. CASE Receive
    <3>1. PICK r \in Requests :
            /\ stage' = "parse" /\ asked' = r
            /\ \/ body' = Written(r, FALSE) /\ edited' = FALSE
               \/ body' \in Edits(Written(r, FALSE)) /\ edited' = TRUE
      BY <2>1 DEF Receive
    <3>2. Written(r, FALSE) \in Seq(Tokens)
      <4>1. FALSE \in BOOLEAN /\ Writable(r)
        BY RequestsWritable
      <4> QED  BY <4>1, ParserIsComplete
    <3>3. body' \in Seq(Tokens) /\ (edited' \/ body' = Written(r, FALSE))
      BY <3>1, <3>2, EditsTyped
    <3> QED  BY <3>1, <3>3 DEF IInv
  <2>2. CASE Parse
    <3> DEFINE c == parseStrictRequest(body)
    <3>1. /\ body \in Seq(Tokens) /\ asked \in Requests /\ (edited \/ body = Written(asked, FALSE))
          /\ body' = body /\ asked' = asked /\ edited' = edited
      BY <2>2 DEF IInv, Parse
    <3>2. edited \/ (c.ok /\ c.req = In32(asked))
      <4>1. FALSE \in BOOLEAN /\ Writable(asked)
        BY <3>1, RequestsWritable
      <4>2. /\ parseStrictRequest(Written(asked, FALSE)).ok
            /\ parseStrictRequest(Written(asked, FALSE)).req = In32(asked)
        BY <4>1, ParserIsComplete
      <4> QED  BY <3>1, <4>2
    <3>3. CASE c.ok
      <4>1. stage' = "vectorize" /\ req' = c.req
        BY <2>2, <3>3 DEF Parse
      <4>2. WellRead(body, c.req)
        BY <3>1, <3>3, ParserIsSound
      <4> HIDE DEF c
      <4> QED  BY <3>1, <3>2, <4>1, <4>2 DEF IInv
    <3>4. CASE ~ c.ok
      <4>1. stage' = "refused"
        BY <2>2, <3>4 DEF Parse
      <4> HIDE DEF c
      <4> QED  BY <3>1, <3>2, <3>4, <4>1 DEF IInv
    <3> QED  BY <3>3, <3>4
  <2>3. CASE VectorizeRequest
    <3>1. req \in Request /\ InRanges(req)
      BY <2>3 DEF VectorizeRequest, IInv, WellRead
    <3>2. stage' = "quantize" /\ vec' = Vectorize(req) /\ req' = req
      BY <2>3 DEF VectorizeRequest
    <3> QED  BY <3>1, <3>2 DEF IInv
  <2>4. CASE Quantize
    <3>1. req \in Request /\ InRanges(req) /\ vec = Vectorize(req)
      BY <2>4 DEF Quantize, IInv
    <3>2. /\ stage' = "search" /\ req' = req /\ vec' = vec
          /\ \E nan \in {0, QByte} : qvec' = QuantizeQuery(vec, nan)
      BY <2>4 DEF Quantize
    <3> QED  BY <3>1, <3>2 DEF IInv
  <2>5. CASE Answer
    BY <2>5 DEF Answer, IInv
  <2>6. CASE UNCHANGED vars
    BY <2>6 DEF vars, IInv
  <2> QED  BY <2>1, <2>2, <2>3, <2>4, <2>5, <2>6 DEF Next
<1> QED  BY <1>1, <1>2, PTL DEF Spec

(***************************************************************************)
(* ReadsWhatIsWritten: no body as docs/API.md writes it is refused, or     *)
(* read as anything else; and of an accepted one every token up to its     *)
(* last brace says what was read, whoever wrote it.  For all requests,     *)
(* misprints and widths of the counts.                                     *)
(***************************************************************************)
THEOREM BodiesAreReadAsWritten == Spec => []ReadsWhatIsWritten
<1>1. IInv => ReadsWhatIsWritten
  <2> SUFFICES ASSUME IInv PROVE ReadsWhatIsWritten
    OBVIOUS
  <2>1. stage = "refused" => edited
    BY DEF IInv
  <2>2. ASSUME stage = "vectorize" PROVE Reads(body, req) /\ (edited \/ req = In32(asked))
    BY <2>2 DEF IInv, WellRead
  <2> QED  BY <2>1, <2>2 DEF ReadsWhatIsWritten, In32
<1> QED  BY <1>1, Invariance, PTL

-----------------------------------------------------------------------------
(***************************************************************************)
(* Vectors.  A float of a vector is a fraction, and quantized it is a      *)
(* byte, whatever byte a NaN becomes.                                      *)
(***************************************************************************)
Fractions == Int \X Nat

LEMMA FloatIs ==
  ASSUME NEW t \in Floats
  PROVE  Float(t) \in Fractions /\ ~ IsNaN(Float(t))
<1>1. t[2] \in Int
  BY DEF Floats
<1>2. Overflow \in Nat \ {0}
  BY VectorAssumption
<1>3. CASE t[2] >= Overflow
  BY <1>1, <1>2, <1>3 DEF Float, Fractions, IsNaN
<1>4. CASE ~ t[2] >= Overflow /\ t[2] <= - Overflow
  BY <1>1, <1>2, <1>4 DEF Float, Fractions, IsNaN
<1>5. CASE ~ t[2] >= Overflow /\ ~ t[2] <= - Overflow
  BY <1>1, <1>2, <1>5 DEF Float, Fractions, IsNaN
<1> QED  BY <1>3, <1>4, <1>5

LEMMA LimitIs ==
  ASSUME NEW name \in {"MaxAmount", "MaxInstallments", "AmountVsAvgRatio", "MaxMinutes", "MaxKm",
                       "MaxTxCount24h", "MaxMerchantAvgAmount"}
  PROVE  Limit[name] \in Nat \ {0}
BY VectorAssumption

LEMMA DivIs ==
  ASSUME NEW x \in Fractions, NEW y \in Fractions, y[1] >= 0
  PROVE  Div(x, y) \in Fractions
BY DEF Div, Fractions

LEMMA ClampIs ==
  ASSUME NEW x \in Fractions
  PROVE  /\ clamp(x) \in Fractions
         /\ ~ IsNaN(x) => /\ ~ IsNaN(clamp(x)) /\ 0 <= clamp(x)[1] /\ clamp(x)[1] <= clamp(x)[2]
                          /\ clamp(x)[2] # 0
<1>1. x[1] \in Int /\ x[2] \in Nat /\ x = <<x[1], x[2]>>
  BY DEF Fractions
<1>2. CASE x[1] < 0
  BY <1>1, <1>2 DEF clamp, Whole, Fractions, IsNaN
<1>3. CASE ~ x[1] < 0 /\ x[1] > x[2]
  BY <1>1, <1>3 DEF clamp, Whole, Fractions, IsNaN
<1>4. CASE ~ x[1] < 0 /\ ~ x[1] > x[2]
  <2>1. clamp(x) = x
    BY <1>4 DEF clamp
  <2>2. ~ IsNaN(x) => x[2] # 0
    BY <1>1, <1>4 DEF IsNaN
  <2> QED  BY <1>1, <1>4, <2>1, <2>2
<1> QED  BY <1>2, <1>3, <1>4

LEMMA ScaledIs ==
  ASSUME NEW x \in Fractions, NEW name, Limit[name] \in Nat \ {0}
  PROVE  LET s == Scaled(x, name)
         IN  /\ s \in Fractions
             /\ ~ IsNaN(x) => /\ ~ IsNaN(s) /\ 0 <= s[1] /\ s[1] <= s[2] /\ s[2] # 0
<1> DEFINE k == Limit[name]
           y == Div(x, Whole(k))
<1>1. k \in Nat \ {0} /\ x[1] \in Int /\ x[2] \in Nat /\ x = <<x[1], x[2]>>
  BY DEF Fractions
<1>2. y = <<x[1] * 1, x[2] * k>>
  BY DEF Div, Whole
<1>3. x[2] * k \in Nat /\ x[1] * 1 = x[1] /\ (x[2] * k = 0 => x[2] = 0)
  <2> DEFINE a == x[1]
             d == x[2]
  <2>1. a \in Int /\ d \in Nat
    BY <1>1
  <2> HIDE DEF a, d, k
  <2>2. d * k \in Nat /\ a * 1 = a /\ (d * k = 0 => d = 0)
    BY <1>1, <2>1
  <2> QED  BY <2>2 DEF a, d
<1>4. y \in Fractions
  BY <1>1, <1>2, <1>3 DEF Fractions
<1>5. ~ IsNaN(x) => ~ IsNaN(y)
  BY <1>1, <1>2, <1>3 DEF IsNaN
<1>6. Scaled(x, name) = clamp(y)
  BY DEF Scaled
<1> HIDE DEF y
<1> QED  BY <1>4, <1>5, <1>6, ClampIs

LEMMA AmountVsAvgIs ==
  ASSUME NEW x \in Fractions, NEW y \in Fractions
  PROVE  AmountVsAvg(x, y) \in Fractions
<1>1. Whole(1) \in Fractions
  BY DEF Whole, Fractions
<1>2. CASE Below(Whole(0), y)
  <2>1. y[1] >= 0
    BY <1>2 DEF Below, Whole, Fractions
  <2>2. Div(x, y) \in Fractions
    BY <2>1, DivIs
  <2>3. Limit["AmountVsAvgRatio"] \in Nat \ {0}
    BY LimitIs
  <2>4. Scaled(Div(x, y), "AmountVsAvgRatio") \in Fractions
    BY <2>2, <2>3, ScaledIs
  <2> QED  BY <1>2, <2>4 DEF AmountVsAvg
<1>3. CASE ~ Below(Whole(0), y)
  BY <1>1, <1>3 DEF AmountVsAvg
<1> QED  BY <1>2, <1>3

LEMMA VectorAt ==
  ASSUME NEW r
  PROVE  LET v == Vectorize(r)
         IN  /\ v[0] = Scaled(Float(r.amount), "MaxAmount")
             /\ v[1] = Scaled(Whole(r.installments), "MaxInstallments")
             /\ v[2] = AmountVsAvg(Float(r.amount), Float(r.avg_amount))
             /\ v[3] = <<Hour(r.requested_at), 23>>
             /\ v[4] = <<(Weekday(r.requested_at) + 6) % 7, 6>>
             /\ ~ r.has_last => v[5] = Whole(-1) /\ v[6] = Whole(-1)
             /\ r.has_last => /\ v[5] = Scaled(Whole(Minutes(r.requested_at) - Minutes(r.timestamp)),
                                               "MaxMinutes")
                              /\ v[6] = Scaled(Float(r.km_from_current), "MaxKm")
             /\ v[7] = Scaled(Float(r.km_from_home), "MaxKm")
             /\ v[8] = Scaled(Whole(r.tx_count_24h), "MaxTxCount24h")
             /\ v[9] = OneIf(r.is_online) /\ v[10] = OneIf(r.card_present)
             /\ v[11] = OneIf(\A k \in DOMAIN r.known_merchants :
                                r.known_merchants[k] # r.merchant_id)
             /\ v[12] = <<IF r.mcc \in DOMAIN MCCRisk THEN MCCRisk[r.mcc] ELSE DefaultRisk, 100>>
             /\ v[13] = Scaled(Float(r.merchant_avg), "MaxMerchantAvgAmount")
<1>1. /\ 0 \in Dim /\ 1 \in Dim /\ 2 \in Dim /\ 3 \in Dim /\ 4 \in Dim /\ 5 \in Dim /\ 6 \in Dim
      /\ 7 \in Dim /\ 8 \in Dim /\ 9 \in Dim /\ 10 \in Dim /\ 11 \in Dim /\ 12 \in Dim /\ 13 \in Dim
  BY DEF Dim
<1>2. /\ Vectorize(r)[0] = Scaled(Float(r.amount), "MaxAmount")
      /\ Vectorize(r)[1] = Scaled(Whole(r.installments), "MaxInstallments")
      /\ Vectorize(r)[2] = AmountVsAvg(Float(r.amount), Float(r.avg_amount))
      /\ Vectorize(r)[3] = <<Hour(r.requested_at), 23>>
      /\ Vectorize(r)[4] = <<(Weekday(r.requested_at) + 6) % 7, 6>>
  BY <1>1 DEF Vectorize, Sentinels
<1>3. ~ r.has_last => Vectorize(r)[5] = Whole(-1) /\ Vectorize(r)[6] = Whole(-1)
  BY <1>1 DEF Vectorize, Sentinels
<1>4. r.has_last =>
        /\ Vectorize(r)[5] = Scaled(Whole(Minutes(r.requested_at) - Minutes(r.timestamp)), "MaxMinutes")
        /\ Vectorize(r)[6] = Scaled(Float(r.km_from_current), "MaxKm")
  BY <1>1 DEF Vectorize, Sentinels
<1>5. /\ Vectorize(r)[7] = Scaled(Float(r.km_from_home), "MaxKm")
      /\ Vectorize(r)[8] = Scaled(Whole(r.tx_count_24h), "MaxTxCount24h")
      /\ Vectorize(r)[9] = OneIf(r.is_online) /\ Vectorize(r)[10] = OneIf(r.card_present)
  BY <1>1 DEF Vectorize, Sentinels
<1>6. Vectorize(r)[11] = OneIf(\A k \in DOMAIN r.known_merchants :
                                 r.known_merchants[k] # r.merchant_id)
  BY <1>1 DEF Vectorize, Sentinels
<1>7. /\ Vectorize(r)[12] = <<IF r.mcc \in DOMAIN MCCRisk THEN MCCRisk[r.mcc] ELSE DefaultRisk, 100>>
      /\ Vectorize(r)[13] = Scaled(Float(r.merchant_avg), "MaxMerchantAvgAmount")
  BY <1>1 DEF Vectorize, Sentinels
<1> QED  BY <1>2, <1>3, <1>4, <1>5, <1>6, <1>7

(* The minutes of a time in its range are a number. *)
LEMMA MinutesIs ==
  ASSUME NEW t \in Times, InRange(t)
  PROVE  Minutes(t) \in Int /\ Days(t) \in Int /\ Hour(t) \in Int
<1>1. t.month \in 1 .. 12 /\ t.day \in Nat /\ t.hour \in Nat /\ t.minute \in Nat
  BY DEF InRange, Times
<1>2. DaysBefore[t.month] \in Nat
  BY <1>1, VectorAssumption
<1>3. Days(t) \in Int
  BY <1>1, <1>2 DEF Days
<1> DEFINE d == Days(t)
<1> HIDE DEF d
<1>4. d \in Int => (d * 24 + t.hour) * 60 + t.minute \in Int
  BY <1>1
<1> QED  BY <1>1, <1>3, <1>4 DEF Minutes, Hour, d

(* A good fraction: one of 0 .. 1 that is a number. *)
Proper(x) == x \in Fractions /\ ~ IsNaN(x) /\ 0 <= x[1] /\ x[1] <= x[2] /\ x[2] # 0

LEMMA VectorTyped ==
  ASSUME NEW r \in Request, InRanges(r)
  PROVE  /\ \A i \in Dim : Vectorize(r)[i] \in Fractions
         /\ r.has_last => \A i \in Sentinels : Proper(Vectorize(r)[i])
         /\ ~ r.has_last => \A i \in Sentinels : Vectorize(r)[i] = Whole(-1)
<1> DEFINE v == Vectorize(r)
<1>1. /\ r.amount \in Floats /\ r.avg_amount \in Floats /\ r.merchant_avg \in Floats
      /\ r.km_from_home \in Floats /\ r.km_from_current \in Floats
      /\ r.installments \in Int /\ r.tx_count_24h \in Int
      /\ r.requested_at \in Times /\ r.timestamp \in Times
      /\ InRange(r.requested_at) /\ InRange(r.timestamp)
  BY DEF Request, InRanges
<1>2. \A n \in Int : Whole(n) \in Fractions /\ ~ IsNaN(Whole(n))
  BY DEF Whole, Fractions, IsNaN
<1>3. ASSUME NEW x \in Fractions,
             NEW name \in {"MaxAmount", "MaxInstallments", "AmountVsAvgRatio", "MaxMinutes", "MaxKm",
                           "MaxTxCount24h", "MaxMerchantAvgAmount"}
      PROVE  Scaled(x, name) \in Fractions /\ (~ IsNaN(x) => Proper(Scaled(x, name)))
  <2>1. Limit[name] \in Nat \ {0}
    BY LimitIs
  <2> QED  BY <2>1, ScaledIs DEF Proper
<1>4. \A t \in Floats : Float(t) \in Fractions /\ ~ IsNaN(Float(t))
  BY FloatIs
<1>5. v[0] \in Fractions /\ v[1] \in Fractions
  <2>1. /\ v[0] = Scaled(Float(r.amount), "MaxAmount")
        /\ v[1] = Scaled(Whole(r.installments), "MaxInstallments")
    BY VectorAt
  <2> HIDE DEF v
  <2> QED  BY <2>1, <1>1, <1>2, <1>3, <1>4
<1>6. v[2] \in Fractions
  <2>1. v[2] = AmountVsAvg(Float(r.amount), Float(r.avg_amount))
    BY VectorAt
  <2> HIDE DEF v
  <2> QED  BY <2>1, <1>1, <1>4, AmountVsAvgIs
<1>7. v[3] \in Fractions /\ v[4] \in Fractions
  <2>1. Hour(r.requested_at) \in Int /\ Days(r.requested_at) \in Int
    BY <1>1, MinutesIs
  <2>2. (Weekday(r.requested_at) + 6) % 7 \in Int
    BY <2>1 DEF Weekday
  <2>3. v[3] = <<Hour(r.requested_at), 23>> /\ v[4] = <<(Weekday(r.requested_at) + 6) % 7, 6>>
    BY VectorAt
  <2> QED  BY <2>1, <2>2, <2>3 DEF Fractions
<1>8. r.has_last => Proper(v[5]) /\ Proper(v[6])
  <2>1. Minutes(r.requested_at) - Minutes(r.timestamp) \in Int
    <3>1. Minutes(r.requested_at) \in Int /\ Minutes(r.timestamp) \in Int
      BY <1>1, MinutesIs
    <3> QED  BY <3>1
  <2> QED  BY <2>1, <1>1, <1>2, <1>3, <1>4, VectorAt
<1>9. ~ r.has_last => v[5] = Whole(-1) /\ v[6] = Whole(-1)
  BY VectorAt
<1>10. v[7] \in Fractions /\ v[8] \in Fractions /\ v[13] \in Fractions
  <2>1. /\ v[7] = Scaled(Float(r.km_from_home), "MaxKm")
        /\ v[8] = Scaled(Whole(r.tx_count_24h), "MaxTxCount24h")
        /\ v[13] = Scaled(Float(r.merchant_avg), "MaxMerchantAvgAmount")
    BY VectorAt
  <2> HIDE DEF v
  <2> QED  BY <2>1, <1>1, <1>2, <1>3, <1>4
<1>11. v[9] \in Fractions /\ v[10] \in Fractions /\ v[11] \in Fractions
  <2>1. \A b : OneIf(b) \in Fractions
    BY <1>2 DEF OneIf
  <2> DEFINE new == \A k \in DOMAIN r.known_merchants : r.known_merchants[k] # r.merchant_id
  <2>2. v[9] = OneIf(r.is_online) /\ v[10] = OneIf(r.card_present) /\ v[11] = OneIf(new)
    BY VectorAt
  <2> HIDE DEF v, new
  <2> QED  BY <2>1, <2>2
<1>12. v[12] \in Fractions
  <2>1. (IF r.mcc \in DOMAIN MCCRisk THEN MCCRisk[r.mcc] ELSE DefaultRisk) \in Nat
    BY VectorAssumption
  <2> DEFINE risk == IF r.mcc \in DOMAIN MCCRisk THEN MCCRisk[r.mcc] ELSE DefaultRisk
  <2>2. v[12] = <<risk, 100>>
    BY VectorAt
  <2>3. risk \in Int
    BY <2>1
  <2> HIDE DEF v, risk
  <2> QED  BY <2>2, <2>3 DEF Fractions
<1> HIDE DEF v
<1>13. v[5] \in Fractions /\ v[6] \in Fractions
  <2>1. -1 \in Int
    OBVIOUS
  <2>2. Whole(-1) \in Fractions
    BY <2>1, <1>2
  <2> QED  BY <2>2, <1>8, <1>9 DEF Proper
<1>14. \A i \in Dim : v[i] \in Fractions
  BY <1>5, <1>6, <1>7, <1>10, <1>11, <1>12, <1>13 DEF Dim
<1>15. /\ r.has_last => \A i \in Sentinels : Proper(v[i])
       /\ ~ r.has_last => \A i \in Sentinels : v[i] = Whole(-1)
  BY <1>8, <1>9 DEF Sentinels
<1> QED  BY <1>14, <1>15 DEF v

-----------------------------------------------------------------------------
(***************************************************************************)
(* Bytes.                                                                  *)
(***************************************************************************)
Bytes == 0 .. QByte
Half == (QByte + 1) \div 2

(* A quotient between two multiples. *)
LEMMA Quotient ==
  ASSUME NEW n \in Int, NEW d \in Nat \ {0}, NEW lo \in Int, NEW hi \in Int,
         d * lo <= n, n < d * (hi + 1)
  PROVE  n \div d \in lo .. hi
<1>1. n \div d \in Int /\ d > 0
  OBVIOUS
<1>2. lo <= n \div d
  BY <1>1
<1>3. n \div d <= hi
  BY <1>1
<1> QED  BY <1>1, <1>2, <1>3

LEMMA HalfIs == Half \in Int /\ 0 <= Half /\ Half <= QByte /\ 2 * Half <= QByte + 1 /\ QByte \in Nat \ {0}
BY VectorAssumption DEF Half

(* Rounded, a part of the whole is a byte, and at least as much as its half. *)
LEMMA Rounded ==
  ASSUME NEW n \in Nat, NEW d \in Nat \ {0}, n < d
  PROVE  (2 * QByte * n + d) \div (2 * d) \in Bytes
<1>1. QByte \in Nat
  BY HalfIs
<1> DEFINE Q == QByte
           x == Q * n
           y == Q * d
<1>2. x \in Nat /\ y \in Nat /\ x <= y - Q
  <2>1. Q * (d - 1 - n) >= 0
    BY <1>1
  <2>2. Q * (d - 1 - n) = Q * d - Q - Q * n
    BY <1>1
  <2> QED  BY <1>1, <2>1, <2>2
<1>3. 2 * QByte * n = 2 * x /\ (2 * d) * (Q + 1) = 2 * y + 2 * d /\ (2 * d) * 0 = 0
  BY <1>1
<1> HIDE DEF x, y
<1>4. /\ 2 * x + d \in Int /\ 2 * d \in Nat \ {0} /\ (2 * d) * 0 <= 2 * x + d
      /\ 2 * x + d < (2 * d) * (Q + 1)
  BY <1>1, <1>2, <1>3
<1>5. (2 * x + d) \div (2 * d) \in 0 .. Q
  BY <1>1, <1>4, Quotient
<1> QED  BY <1>3, <1>5 DEF Bytes

LEMMA RoundedSentinel ==
  ASSUME NEW n \in Int, NEW d \in Nat \ {0}, - d < n, n < d
  PROVE  /\ (QByte * (n + d) + d) \div (2 * d) \in Bytes
         /\ n >= 0 => (QByte * (n + d) + d) \div (2 * d) \in Half .. QByte
<1>1. QByte \in Nat /\ Half \in Int /\ 2 * Half <= QByte + 1
  BY HalfIs
<1> DEFINE Q == QByte
           x == Q * (n + d)
           y == Q * d
<1>2. x \in Nat /\ y \in Nat /\ x <= 2 * y - Q
  <2>1. Q * (2 * d - 1 - (n + d)) >= 0 /\ Q * (n + d) >= 0
    BY <1>1
  <2>2. Q * (2 * d - 1 - (n + d)) = 2 * (Q * d) - Q - Q * (n + d)
    BY <1>1
  <2> QED  BY <1>1, <2>1, <2>2
<1>3. (2 * d) * (Q + 1) = 2 * y + 2 * d /\ (2 * d) * 0 = 0
  BY <1>1
<1>4. n >= 0 => (2 * d) * Half <= x + d
  <2> HAVE n >= 0
  <2>1. d * (Q + 1 - 2 * Half) >= 0 /\ Q * n >= 0
    BY <1>1
  <2>2. /\ d * (Q + 1 - 2 * Half) = Q * d + d - (2 * d) * Half
        /\ Q * (n + d) = Q * n + Q * d
    BY <1>1
  <2> QED  BY <1>1, <2>1, <2>2
<1> HIDE DEF x, y
<1>5. /\ x + d \in Int /\ 2 * d \in Nat \ {0} /\ (2 * d) * 0 <= x + d
      /\ x + d < (2 * d) * (Q + 1)
  BY <1>1, <1>2, <1>3
<1>6. (x + d) \div (2 * d) \in 0 .. Q
  BY <1>1, <1>5, Quotient
<1>7. n >= 0 => (x + d) \div (2 * d) \in Half .. Q
  BY <1>1, <1>4, <1>5, Quotient
<1> QED  BY <1>6, <1>7 DEF Bytes, x

LEMMA StdIsByte ==
  ASSUME NEW x \in Fractions, NEW nan \in {0, QByte}
  PROVE  qStd(x, nan) \in Bytes
<1>1. x[1] \in Int /\ x[2] \in Nat /\ QByte \in Nat \ {0}
  BY HalfIs DEF Fractions
<1>2. CASE IsNaN(x) \/ x[1] <= 0 \/ x[1] >= x[2]
  BY <1>1, <1>2 DEF qStd, Bytes
<1>3. CASE ~ IsNaN(x) /\ ~ x[1] <= 0 /\ ~ x[1] >= x[2]
  <2>1. qStd(x, nan) = (2 * QByte * x[1] + x[2]) \div (2 * x[2])
    BY <1>3 DEF qStd
  <2>2. x[1] \in Nat /\ x[2] \in Nat \ {0} /\ x[1] < x[2]
    BY <1>1, <1>3
  <2> QED  BY <2>1, <2>2, Rounded
<1> QED  BY <1>2, <1>3

LEMMA SentinelIsByte ==
  ASSUME NEW x \in Fractions, NEW nan \in {0, QByte}
  PROVE  /\ qSentinel(x, nan) \in Bytes
         /\ Proper(x) => qSentinel(x, nan) \in Half .. QByte
<1>1. x[1] \in Int /\ x[2] \in Nat /\ QByte \in Nat \ {0} /\ Half \in Int /\ Half <= QByte
  BY HalfIs DEF Fractions
<1>2. CASE IsNaN(x)
  BY <1>1, <1>2 DEF qSentinel, Bytes, Proper
<1>3. CASE ~ IsNaN(x) /\ x[1] <= - x[2]
  BY <1>1, <1>3 DEF qSentinel, Bytes, Proper
<1>4. CASE ~ IsNaN(x) /\ ~ x[1] <= - x[2] /\ x[1] >= x[2]
  BY <1>1, <1>4 DEF qSentinel, Bytes
<1>5. CASE ~ IsNaN(x) /\ ~ x[1] <= - x[2] /\ ~ x[1] >= x[2]
  <2>1. qSentinel(x, nan) = (QByte * (x[1] + x[2]) + x[2]) \div (2 * x[2])
    BY <1>5 DEF qSentinel
  <2>2. x[2] \in Nat \ {0} /\ - x[2] < x[1] /\ x[1] < x[2]
    BY <1>1, <1>5
  <2>3. Proper(x) => x[1] >= 0
    BY <1>1 DEF Proper
  <2> QED  BY <1>1, <2>1, <2>2, <2>3, RoundedSentinel
<1> QED  BY <1>2, <1>3, <1>4, <1>5

LEMMA MissingIsZero ==
  ASSUME NEW nan
  PROVE  qSentinel(Whole(-1), nan) = 0
BY DEF qSentinel, Whole, IsNaN

LEMMA QueryIs ==
  ASSUME NEW v, \A i \in Dim : v[i] \in Fractions, NEW nan \in {0, QByte}
  PROVE  /\ QuantizeQuery(v, nan) \in [Dim -> Bytes]
         /\ QuantizeVector(v) \in [Dim -> Bytes]
         /\ (\A i \in Dim : ~ IsNaN(v[i])) =>
              \A i \in Dim : QuantizeQuery(v, nan)[i] = QuantizeVector(v)[i]
         /\ \A i \in Sentinels : /\ QuantizeQuery(v, nan)[i] = qSentinel(v[i], nan)
                                 /\ QuantizeVector(v)[i] = qSentinel(v[i], 0)
<1>1. \A i \in Dim : /\ qStd(v[i], nan) \in Bytes /\ qSentinel(v[i], nan) \in Bytes
                     /\ qStd(v[i], 0) \in Bytes /\ qSentinel(v[i], 0) \in Bytes
  <2> TAKE i \in Dim
  <2>1. v[i] \in Fractions /\ 0 \in {0, QByte}
    OBVIOUS
  <2> QED  BY <2>1, StdIsByte, SentinelIsByte
<1>2. QuantizeQuery(v, nan) \in [Dim -> Bytes]
  BY <1>1 DEF QuantizeQuery
<1>3. QuantizeVector(v) \in [Dim -> Bytes]
  BY <1>1 DEF QuantizeVector
<1>4. Sentinels \subseteq Dim
  BY DEF Sentinels, Dim
<1>5. \A i \in Sentinels : /\ QuantizeQuery(v, nan)[i] = qSentinel(v[i], nan)
                           /\ QuantizeVector(v)[i] = qSentinel(v[i], 0)
  BY <1>4 DEF QuantizeQuery, QuantizeVector
<1>6. ASSUME \A i \in Dim : ~ IsNaN(v[i]), NEW i \in Dim
      PROVE  QuantizeQuery(v, nan)[i] = QuantizeVector(v)[i]
  <2>1. qStd(v[i], nan) = qStd(v[i], 0)
    BY <1>6 DEF qStd
  <2>2. qSentinel(v[i], nan) = qSentinel(v[i], 0)
    BY <1>6 DEF qSentinel
  <2> QED  BY <2>1, <2>2 DEF QuantizeQuery, QuantizeVector
<1> QED  BY <1>2, <1>3, <1>5, <1>6

(* Distances, term by term. *)
LEMMA SquareIs ==
  ASSUME NEW a \in Bytes, NEW b \in Bytes
  PROVE  /\ Square(a - b) \in Nat /\ Square(a - b) <= Square(QByte)
         /\ a = b => Square(a - b) = 0
         /\ b = 0 /\ a >= Half => Square(a - b) >= Square(Half)
<1>1. QByte \in Nat /\ Half \in Nat
  BY HalfIs
<1>2. \A x \in 0 .. QByte : x * x \in Nat /\ x * x <= QByte * QByte
  <2> TAKE x \in 0 .. QByte
  <2>1. x * (QByte - x) >= 0 /\ QByte * (QByte - x) >= 0 /\ x * x >= 0
    BY <1>1
  <2>2. x * (QByte - x) = x * QByte - x * x /\ QByte * (QByte - x) = QByte * QByte - QByte * x
        /\ QByte * x = x * QByte
    BY <1>1
  <2> QED  BY <1>1, <2>1, <2>2
<1>3. Square(a - b) \in Nat /\ Square(a - b) <= Square(QByte)
  <2>1. CASE a >= b
    <3>1. a - b \in 0 .. QByte
      BY <1>1, <2>1 DEF Bytes
    <3> QED  BY <3>1, <1>2 DEF Square
  <2>2. CASE a < b
    <3>1. b - a \in 0 .. QByte /\ (a - b) * (a - b) = (b - a) * (b - a)
      BY <1>1, <2>2 DEF Bytes
    <3> QED  BY <3>1, <1>2 DEF Square
  <2> QED  BY <2>1, <2>2, <1>1 DEF Bytes
<1>4. a = b => Square(a - b) = 0
  BY <1>1 DEF Square, Bytes
<1>5. b = 0 /\ a >= Half => Square(a - b) >= Square(Half)
  <2> HAVE b = 0 /\ a >= Half
  <2>1. a \in Nat /\ a - b = a
    BY <1>1 DEF Bytes
  <2>2. a * (a - Half) >= 0 /\ Half * (a - Half) >= 0
    BY <1>1, <2>1
  <2>3. a * (a - Half) = a * a - a * Half /\ Half * (a - Half) = Half * a - Half * Half
        /\ a * Half = Half * a
    BY <1>1, <2>1
  <2>4. a * a >= Half * Half
    BY <1>1, <2>1, <2>2, <2>3
  <2> QED  BY <2>1, <2>4 DEF Square
<1> QED  BY <1>3, <1>4, <1>5

LEMMA Terms ==
  ASSUME NEW d, \A i \in Dim : d[i] \in Nat, NEW m \in Nat
  PROVE  LET sum == d[0] + d[1] + d[2] + d[3] + d[4] + d[5] + d[6] + d[7] + d[8] + d[9]
                      + d[10] + d[11] + d[12] + d[13]
         IN  /\ (\A i \in Dim : d[i] = 0) => sum = 0
             /\ (\A i \in Dim : d[i] <= m) => sum <= 14 * m
             /\ (\A i \in Sentinels : d[i] >= m) => sum >= 2 * m
<1>1. /\ d[0] \in Nat /\ d[1] \in Nat /\ d[2] \in Nat /\ d[3] \in Nat /\ d[4] \in Nat
      /\ d[5] \in Nat /\ d[6] \in Nat /\ d[7] \in Nat /\ d[8] \in Nat /\ d[9] \in Nat
      /\ d[10] \in Nat /\ d[11] \in Nat /\ d[12] \in Nat /\ d[13] \in Nat
  BY DEF Dim
<1> DEFINE sum == d[0] + d[1] + d[2] + d[3] + d[4] + d[5] + d[6] + d[7] + d[8] + d[9]
                    + d[10] + d[11] + d[12] + d[13]
<1>2. ASSUME \A i \in Dim : d[i] = 0 PROVE sum = 0
  BY <1>2 DEF Dim
<1>3. ASSUME \A i \in Dim : d[i] <= m PROVE sum <= 14 * m
  <2>1. /\ d[0] <= m /\ d[1] <= m /\ d[2] <= m /\ d[3] <= m /\ d[4] <= m /\ d[5] <= m
        /\ d[6] <= m /\ d[7] <= m /\ d[8] <= m /\ d[9] <= m /\ d[10] <= m /\ d[11] <= m
        /\ d[12] <= m /\ d[13] <= m
    BY <1>3 DEF Dim
  <2> QED  BY <1>1, <2>1
<1>4. ASSUME \A i \in Sentinels : d[i] >= m PROVE sum >= 2 * m
  <2>1. d[5] >= m /\ d[6] >= m
    BY <1>4 DEF Sentinels
  <2> QED  BY <1>1, <2>1
<1> QED  BY <1>2, <1>3, <1>4

LEMMA DistIs ==
  ASSUME NEW q \in [Dim -> Bytes], NEW v \in [Dim -> Bytes]
  PROVE  /\ Dist(q, v) <= 14 * Square(QByte)
         /\ (\A i \in Dim : q[i] = v[i]) => Dist(q, v) = 0
         /\ (\A i \in Sentinels : v[i] = 0 /\ q[i] >= Half) => Dist(q, v) >= 2 * Square(Half)
<1> DEFINE d == [i \in Dim |-> Square(q[i] - v[i])]
           sum == d[0] + d[1] + d[2] + d[3] + d[4] + d[5] + d[6] + d[7] + d[8] + d[9]
                    + d[10] + d[11] + d[12] + d[13]
<1>1. Dist(q, v) = sum
  BY DEF Dist, Dim
<1>2. \A i \in Dim : /\ d[i] \in Nat /\ d[i] <= Square(QByte)
                     /\ q[i] = v[i] => d[i] = 0
                     /\ v[i] = 0 /\ q[i] >= Half => d[i] >= Square(Half)
  <2> TAKE i \in Dim
  <2>1. q[i] \in Bytes /\ v[i] \in Bytes /\ d[i] = Square(q[i] - v[i])
    OBVIOUS
  <2> QED  BY <2>1, SquareIs
<1>3. Square(QByte) \in Nat /\ Square(Half) \in Nat /\ Sentinels \subseteq Dim
  BY HalfIs DEF Square, Sentinels, Dim
<1> HIDE DEF d
<1>4. sum <= 14 * Square(QByte)
  BY <1>2, <1>3, Terms
<1>5. (\A i \in Dim : q[i] = v[i]) => sum = 0
  BY <1>2, <1>3, Terms
<1>6. (\A i \in Sentinels : v[i] = 0 /\ q[i] >= Half) => sum >= 2 * Square(Half)
  <2> HAVE \A i \in Sentinels : v[i] = 0 /\ q[i] >= Half
  <2>1. \A i \in Sentinels : d[i] >= Square(Half)
    BY <1>2, <1>3
  <2> QED  BY <2>1, <1>2, <1>3, Terms
<1> HIDE DEF sum
<1> QED  BY <1>1, <1>4, <1>5, <1>6

(* What the invariant says of a query that is searched for. *)
LEMMA SearchFacts ==
  ASSUME IInv, stage = "search"
  PROVE  /\ \A i \in Dim : vec[i] \in Fractions
         /\ req.has_last => \A i \in Sentinels : Proper(vec[i])
         /\ ~ req.has_last => \A i \in Sentinels : vec[i] = Whole(-1)
         /\ \E nan \in {0, QByte} : qvec = QuantizeQuery(vec, nan)
<1>1. req \in Request /\ InRanges(req) /\ vec = Vectorize(req)
  BY DEF IInv
<1>2. \E nan \in {0, QByte} : qvec = QuantizeQuery(vec, nan)
  BY DEF IInv
<1> DEFINE v == Vectorize(req)
<1>3. /\ \A i \in Dim : v[i] \in Fractions
      /\ req.has_last => \A i \in Sentinels : Proper(v[i])
      /\ ~ req.has_last => \A i \in Sentinels : v[i] = Whole(-1)
  BY <1>1, VectorTyped
<1>4. vec = v
  BY <1>1
<1> HIDE DEF v
<1> QED  BY <1>2, <1>3, <1>4

(***************************************************************************)
(* PresentNeverLooksMissing: the two bytes of a last transaction that is   *)
(* there are in the upper half, whatever the request says, for every table *)
(* of limits and every QByte.                                              *)
(***************************************************************************)
THEOREM LastTransactionsShow == Spec => []PresentNeverLooksMissing
<1>1. IInv => PresentNeverLooksMissing
  <2> SUFFICES ASSUME IInv, stage = "search", NEW i \in Sentinels
               PROVE  IF req.has_last THEN qvec[i] \in Half .. QByte ELSE qvec[i] = 0
    BY DEF PresentNeverLooksMissing, Half
  <2>1. PICK nan \in {0, QByte} : qvec = QuantizeQuery(vec, nan)
    BY SearchFacts
  <2>2. \A k \in Dim : vec[k] \in Fractions
    BY SearchFacts
  <2>3. qvec[i] = qSentinel(vec[i], nan)
    BY <2>1, <2>2, QueryIs
  <2>4. CASE req.has_last
    <3>1. Proper(vec[i])
      BY <2>4, SearchFacts
    <3>2. vec[i] \in Fractions
      BY <3>1 DEF Proper
    <3> QED  BY <2>3, <2>4, <3>1, <3>2, SentinelIsByte
  <2>5. CASE ~ req.has_last
    <3>1. vec[i] = Whole(-1)
      BY <2>5, SearchFacts
    <3> QED  BY <2>3, <2>5, <3>1, MissingIsZero
  <2> QED  BY <2>4, <2>5
<1> QED  BY <1>1, Invariance, PTL

(***************************************************************************)
(* QueryMeetsReference: queries and references are quantized alike, and    *)
(* the distance is as large as it should be, and no larger than it can be  *)
(* held, for every table of limits and every QByte.                        *)
(***************************************************************************)
THEOREM QueriesMeetReferences == Spec => []QueryMeetsReference
<1>1. IInv => QueryMeetsReference
  <2> SUFFICES ASSUME IInv, stage = "search"
               PROVE  /\ qvec \in [Dim -> Bytes]
                      /\ Exact => Dist(qvec, QuantizeVector(vec)) = 0
                      /\ req.has_last => Dist(qvec, QuantizeVector(WithoutLast)) >= 2 * Square(Half)
                      /\ Dist(qvec, [i \in Dim |-> 0]) <= 14 * Square(QByte)
    BY DEF QueryMeetsReference, Half, Bytes
  <2>1. PICK nan \in {0, QByte} : qvec = QuantizeQuery(vec, nan)
    BY SearchFacts
  <2>2. \A k \in Dim : vec[k] \in Fractions
    BY SearchFacts
  <2>3. qvec \in [Dim -> Bytes] /\ QuantizeVector(vec) \in [Dim -> Bytes]
    BY <2>1, <2>2, QueryIs
  <2>4. Exact => Dist(qvec, QuantizeVector(vec)) = 0
    <3> HAVE Exact
    <3>1. \A i \in Dim : qvec[i] = QuantizeVector(vec)[i]
      BY <2>1, <2>2, QueryIs DEF Exact
    <3> QED  BY <2>3, <3>1, DistIs
  <2>5. req.has_last => Dist(qvec, QuantizeVector(WithoutLast)) >= 2 * Square(Half)
    <3> HAVE req.has_last
    <3> DEFINE w == WithoutLast
    <3>1. \A i \in Dim : w[i] \in Fractions
      <4>1. Whole(-1) \in Fractions
        BY DEF Whole, Fractions
      <4> QED  BY <2>2, <4>1 DEF WithoutLast
    <3>2. \A i \in Sentinels : w[i] = Whole(-1)
      BY DEF WithoutLast, Sentinels, Dim
    <3> HIDE DEF w
    <3>3. QuantizeVector(w) \in [Dim -> Bytes]
      BY <2>1, <3>1, QueryIs
    <3>4. \A i \in Sentinels : QuantizeVector(w)[i] = 0
      <4> TAKE i \in Sentinels
      <4>1. QuantizeVector(w)[i] = qSentinel(w[i], 0)
        BY <2>1, <3>1, QueryIs
      <4> QED  BY <4>1, <3>2, MissingIsZero
    <3>5. \A i \in Sentinels : qvec[i] >= Half
      <4> TAKE i \in Sentinels
      <4>1. qvec[i] = qSentinel(vec[i], nan)
        BY <2>1, <2>2, QueryIs
      <4>2. Proper(vec[i])
        BY SearchFacts
      <4>3. vec[i] \in Fractions
        BY <4>2 DEF Proper
      <4>4. qSentinel(vec[i], nan) \in Half .. QByte
        BY <4>2, <4>3, SentinelIsByte
      <4> QED  BY <4>1, <4>4, HalfIs
    <3>6. Dist(qvec, QuantizeVector(w)) >= 2 * Square(Half)
      BY <2>3, <3>3, <3>4, <3>5, DistIs
    <3> QED  BY <3>6 DEF w
  <2>6. Dist(qvec, [i \in Dim |-> 0]) <= 14 * Square(QByte)
    <3> DEFINE zero == [i \in Dim |-> 0]
    <3>1. zero \in [Dim -> Bytes]
      BY HalfIs DEF Bytes
    <3> HIDE DEF zero
    <3>2. Dist(qvec, zero) <= 14 * Square(QByte)
      BY <2>3, <3>1, DistIs
    <3> QED  BY <3>2 DEF zero
  <2> QED  BY <2>3, <2>4, <2>5, <2>6
<1> QED  BY <1>1, Invariance, PTL
=============================================================================
