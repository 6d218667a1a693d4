---------------------------- MODULE ParserProofs ----------------------------
(***************************************************************************)
(* Proofs about Parser: whatever line comes in, a command that the parser  *)
(* hands on keeps to the limits and the shapes that the operations rely on *)
(* without looking.  The parser walks a line from position to position;    *)
(* what it finds is followed from the end of the line to the beginning.    *)
(***************************************************************************)
EXTENDS Protocol, FiniteSetTheorems, SequenceTheorems, WellFoundedInduction, TLAPS

-----------------------------------------------------------------------------
(* Numbers *)

\* A set of natural numbers has a least element.
LEMMA LeastElement ==
  ASSUME NEW T \in SUBSET Nat, T # {}
  PROVE  \E x \in T : \A y \in T : ~(y < x)
<1> DEFINE R == OpToRel(<, Nat)
<1>1. IsWellFoundedOn(R, Nat)
  BY NatLessThanWellFounded
<1>2. \A x, y \in Nat : <<y, x>> \in R <=> y < x
  BY DEF OpToRel
<1> HIDE DEF R
<1>3. PICK x \in T : \A y \in T : ~(<<y, x>> \in R)
  BY <1>1, WFMin
<1>. QED BY <1>2, <1>3

\* A set of numbers that holds 0 and, with each one below n, the next, holds
\* all up to n.
LEMMA Upwards ==
  ASSUME NEW n \in Nat, NEW S, 0 \in S, \A i \in 0 .. n : i \in S /\ i < n => i + 1 \in S
  PROVE  \A i \in 0 .. n : i \in S
<1> DEFINE T == {i \in 0 .. n : i \notin S}
<1>1. SUFFICES ASSUME T # {} PROVE FALSE
  OBVIOUS
<1>2. T \in SUBSET Nat
  OBVIOUS
<1>3. PICK m \in T : \A y \in T : ~(y < m)
  BY <1>1, <1>2, LeastElement
<1>4. m \in Nat /\ m # 0 /\ m <= n /\ m \notin S
  BY <1>3
<1>5. m - 1 \in 0 .. n /\ m - 1 < m /\ m - 1 < n /\ (m - 1) + 1 = m
  BY <1>4
<1>6. m - 1 \in S
  BY <1>3, <1>5
<1>. QED BY <1>4, <1>5, <1>6

\* A set that holds each number up to n of which it holds all greater ones,
\* holds them all.
LEMMA Downwards ==
  ASSUME NEW n \in Nat, NEW S, \A i \in 1 .. n : (\A j \in i + 1 .. n : j \in S) => i \in S
  PROVE  \A i \in 1 .. n : i \in S
<1> DEFINE T == {m \in 0 .. n : \A j \in 1 .. n : n - j < m => j \in S}
<1>1. 0 \in T
  OBVIOUS
<1>2. ASSUME NEW m \in 0 .. n, m \in T, m < n PROVE m + 1 \in T
  <2>1. ASSUME NEW j \in 1 .. n, n - j < m + 1 PROVE j \in S
    <3>1. \A k \in j + 1 .. n : k \in 1 .. n /\ n - k < m
      BY <2>1
    <3>2. \A k \in j + 1 .. n : k \in S
      BY <1>2, <3>1
    <3>. QED BY <3>2
  <2>2. m + 1 \in 0 .. n
    BY <1>2
  <2>. QED BY <2>1, <2>2
<1> HIDE DEF T
<1>3. \A m \in 0 .. n : m \in T
  BY <1>1, <1>2, Upwards
<1>4. n \in T
  BY <1>3
<1>5. \A j \in 1 .. n : n - j < n
  OBVIOUS
<1>. QED BY <1>4, <1>5 DEF T

\* The least of a set of positions.
LEMMA MinFacts ==
  ASSUME NEW S \in SUBSET Nat, S # {}
  PROVE  Min(S) \in S /\ \A x \in S : Min(S) <= x
<1>1. PICK x \in S : \A y \in S : ~(y < x)
  BY LeastElement
<1>2. \A y \in S : x <= y
  BY <1>1
<1>. QED BY <1>1, <1>2 DEF Min

-----------------------------------------------------------------------------
(* Scanning *)

\* A scan goes forward and not beyond the end.
LEMMA ScanFacts ==
  ASSUME NEW T, NEW s \in Seq(T), NEW i \in 1 .. Len(s) + 1
  PROVE  /\ skip_whitespace(s, i) \in i .. Len(s) + 1
         /\ \A symbols : Find(s, i, symbols) \in i .. Len(s) + 1
<1>0. Len(s) \in Nat
  OBVIOUS
<1>1. Max({i, Len(s) + 1}) = Len(s) + 1
  <2>1. \A x \in {i, Len(s) + 1} : (\A y \in {i, Len(s) + 1} : x >= y) => x = Len(s) + 1
    BY <1>0
  <2>2. \A y \in {i, Len(s) + 1} : Len(s) + 1 >= y
    BY <1>0
  <2>3. Max({i, Len(s) + 1}) \in {i, Len(s) + 1} /\ \A y \in {i, Len(s) + 1} : Max({i, Len(s) + 1}) >= y
    BY <2>2 DEF Max
  <2>. QED BY <2>1, <2>3
<1>2. ASSUME NEW P \in SUBSET (i .. Len(s))
      PROVE  Min(P \cup {Len(s) + 1}) \in i .. Len(s) + 1
  <2>1. PICK Q : Q = P \cup {Len(s) + 1}
    OBVIOUS
  <2>2. Q \subseteq i .. Len(s) + 1 /\ i .. Len(s) + 1 \subseteq Nat /\ Q # {}
    <3>1. Q # {}
      BY <2>1
    <3>2. ASSUME NEW x \in Q PROVE x \in i .. Len(s) + 1
      BY <1>0, <2>1
    <3>. QED BY <1>0, <3>1, <3>2
  <2>3. Min(Q) \in Q
    BY <2>2, MinFacts
  <2>. QED BY <2>1, <2>2, <2>3
<1>3. {j \in i .. Len(s) : s[j] \notin Blanks} \in SUBSET (i .. Len(s))
  OBVIOUS
<1>4. \A symbols : {j \in i .. Len(s) : s[j] \in symbols} \in SUBSET (i .. Len(s))
  OBVIOUS
<1>. QED BY <1>1, <1>2, <1>3, <1>4 DEF skip_whitespace, Find

\* A symbol other than the end is in the line.
LEMMA AtFacts ==
  ASSUME NEW T, NEW s \in Seq(T), NEW i
  PROVE  /\ At(s, i) # END => i \in 1 .. Len(s) /\ At(s, i) = s[i]
         /\ i \in 1 .. Len(s) => At(s, i) = s[i]
         /\ i \notin 1 .. Len(s) => At(s, i) = END
BY DEF At

-----------------------------------------------------------------------------
(* Quoted strings *)

\* What a value can be made of: the symbols of the line, what an escape stands
\* for, and the mark of a misread element.
Symbols(s) == {s[k] : k \in DOMAIN s} \cup {"nl", "tab", "cr", "misread"}

\* One position of parse_string.
TextAt(s, text, p) ==
  IF At(s, p) = END THEN [closed |-> FALSE, text |-> <<>>, next |-> p]
  ELSE IF At(s, p) = "quote" THEN [closed |-> TRUE, text |-> <<>>, next |-> p + 1]
  ELSE IF At(s, p) = "bs" /\ At(s, p + 1) # END
    THEN [text[p + 2] EXCEPT !.text = <<Unescaped(s[p + 1])>> \o @]
  ELSE [text[p + 1] EXCEPT !.text = <<s[p]>> \o @]

GoodText(s, p, x) ==
  /\ x = [closed |-> x.closed, text |-> x.text, next |-> x.next]
  /\ x.text \in Seq(Symbols(s)) /\ x.next \in p .. Len(s) + 1

\* One more symbol of a text.
LEMMA LongerText ==
  ASSUME NEW s, Len(s) \in Nat, NEW p \in Nat, NEW j \in p .. Len(s) + 1, NEW x, GoodText(s, j, x),
         NEW c \in Symbols(s)
  PROVE  GoodText(s, p, [x EXCEPT !.text = <<c>> \o @])
<1>1. PICK d, t, n : x = [closed |-> d, text |-> t, next |-> n]
  BY DEF GoodText
<1>2. t \in Seq(Symbols(s)) /\ n \in j .. Len(s) + 1
  BY <1>1 DEF GoodText
<1>3. <<c>> \o t \in Seq(Symbols(s))
  BY <1>2
<1>4. PICK u : u = <<c>> \o t
  OBVIOUS
<1>5. PICK y : y = [x EXCEPT !.text = <<c>> \o @]
  OBVIOUS
<1>6. y = [closed |-> d, text |-> u, next |-> n]
  BY <1>1, <1>4, <1>5
<1>7. n \in p .. Len(s) + 1
  BY <1>2
<1>8. GoodText(s, p, y)
  BY <1>3, <1>4, <1>6, <1>7 DEF GoodText
<1>. QED BY <1>5, <1>8

\* The text from i on depends on the text behind i.
LEMMA TextStep ==
  ASSUME NEW T, NEW s \in Seq(T), NEW f, NEW g, NEW i \in 1 .. Len(s) + 1,
         \A j \in i + 1 .. Len(s) + 1 : f[j] = g[j] /\ GoodText(s, j, f[j])
  PROVE  GoodText(s, i, TextAt(s, f, i)) /\ TextAt(s, f, i) = TextAt(s, g, i)
<1>0. Len(s) \in Nat /\ DOMAIN s = 1 .. Len(s)
  OBVIOUS
<1>1. CASE At(s, i) = END
  BY <1>0, <1>1 DEF TextAt, GoodText
<1>2. CASE At(s, i) # END /\ At(s, i) = "quote"
  <2>1. i + 1 \in i .. Len(s) + 1
    BY <1>0, <1>2, AtFacts
  <2>. QED BY <1>2, <2>1 DEF TextAt, GoodText
<1>3. CASE At(s, i) \notin {END, "quote"} /\ At(s, i) = "bs" /\ At(s, i + 1) # END
  <2>1. i + 1 \in 1 .. Len(s)
    BY <1>3, AtFacts
  <2>2. i + 2 \in i + 1 .. Len(s) + 1 /\ i + 2 \in i .. Len(s) + 1
    BY <1>0, <2>1
  <2>3. Unescaped(s[i + 1]) \in Symbols(s)
    BY <1>0, <2>1 DEF Unescaped, Symbols
  <2>4. f[i + 2] = g[i + 2] /\ GoodText(s, i + 2, f[i + 2])
    BY <2>2
  <2>5. PICK x, c : x = f[i + 2] /\ c = Unescaped(s[i + 1])
    OBVIOUS
  <2>6. GoodText(s, i, [x EXCEPT !.text = <<c>> \o @])
    <3>1. PICK j : j = i + 2
      OBVIOUS
    <3>2. j \in i .. Len(s) + 1 /\ GoodText(s, j, x) /\ c \in Symbols(s) /\ i \in Nat
      BY <2>2, <2>3, <2>4, <2>5, <3>1
    <3>. QED BY <1>0, <3>2, LongerText
  <2>7. TextAt(s, f, i) = [x EXCEPT !.text = <<c>> \o @] /\ TextAt(s, g, i) = [x EXCEPT !.text = <<c>> \o @]
    BY <1>3, <2>4, <2>5 DEF TextAt
  <2>. QED BY <2>6, <2>7
<1>4. CASE At(s, i) \notin {END, "quote"} /\ ~(At(s, i) = "bs" /\ At(s, i + 1) # END)
  <2>1. i \in 1 .. Len(s)
    BY <1>4, AtFacts
  <2>2. i + 1 \in i + 1 .. Len(s) + 1 /\ i + 1 \in i .. Len(s) + 1
    BY <1>0, <2>1
  <2>3. s[i] \in Symbols(s)
    BY <1>0, <2>1 DEF Symbols
  <2>4. f[i + 1] = g[i + 1] /\ GoodText(s, i + 1, f[i + 1])
    BY <2>2
  <2>5. PICK x, c : x = f[i + 1] /\ c = s[i]
    OBVIOUS
  <2>6. GoodText(s, i, [x EXCEPT !.text = <<c>> \o @])
    <3>1. PICK j : j = i + 1
      OBVIOUS
    <3>2. j \in i .. Len(s) + 1 /\ GoodText(s, j, x) /\ c \in Symbols(s) /\ i \in Nat
      BY <2>2, <2>3, <2>4, <2>5, <3>1
    <3>. QED BY <1>0, <3>2, LongerText
  <2>7. TextAt(s, f, i) = [x EXCEPT !.text = <<c>> \o @] /\ TextAt(s, g, i) = [x EXCEPT !.text = <<c>> \o @]
    BY <1>4, <2>4, <2>5 DEF TextAt
  <2>. QED BY <2>6, <2>7
<1>. QED BY <1>1, <1>2, <1>3, <1>4

\* The function that parse_string defines exists, and its texts are sequences.
LEMMA TextFunction ==
  ASSUME NEW T, NEW s \in Seq(T)
  PROVE  \E f : f = [i \in 1 .. Len(s) + 1 |-> TextAt(s, f, i)]
<1> DEFINE N == Len(s) + 1
           Has(m) == \E f : /\ f = [i \in 1 .. N |-> f[i]]
                            /\ \A i \in 1 .. N : N - i < m => f[i] = TextAt(s, f, i)
                                                              /\ GoodText(s, i, f[i])
           S == {m \in Nat : Has(m)}
<1>0. N \in Nat
  OBVIOUS
<1>1. Has(0)
  <2>1. PICK f : f = [i \in 1 .. N |-> 0]
    OBVIOUS
  <2>2. f = [i \in 1 .. N |-> f[i]]
    BY <2>1
  <2>3. \A i \in 1 .. N : ~(N - i < 0)
    BY <1>0
  <2>. QED BY <2>2, <2>3
<1>2. ASSUME NEW m \in Nat, Has(m) PROVE Has(m + 1)
  <2>1. PICK f : /\ f = [i \in 1 .. N |-> f[i]]
                 /\ \A i \in 1 .. N : N - i < m => f[i] = TextAt(s, f, i) /\ GoodText(s, i, f[i])
    BY <1>2
  <2>2. PICK g : g = [i \in 1 .. N |-> TextAt(s, f, i)]
    OBVIOUS
  <2>3. ASSUME NEW i \in 1 .. N, N - i < m + 1
        PROVE  g[i] = TextAt(s, g, i) /\ GoodText(s, i, g[i])
    <3>1. ASSUME NEW j \in i + 1 .. N PROVE f[j] = g[j] /\ GoodText(s, j, f[j])
      <4>1. j \in 1 .. N /\ N - j < m
        BY <1>0, <2>3
      <4>. QED BY <2>1, <2>2, <4>1
    <3>2. GoodText(s, i, TextAt(s, f, i)) /\ TextAt(s, f, i) = TextAt(s, g, i)
      BY <3>1, TextStep
    <3>. QED BY <2>2, <3>2
  <2>4. g = [i \in 1 .. N |-> g[i]]
    BY <2>2
  <2>. QED BY <2>3, <2>4
<1> HIDE DEF Has
<1>3. 0 \in S /\ \A i \in 0 .. N : i \in S /\ i < N => i + 1 \in S
  BY <1>1, <1>2
<1> HIDE DEF S
<1>4. N \in S
  <2>1. \A i \in 0 .. N : i \in S
    BY <1>0, <1>3, Upwards
  <2>. QED BY <1>0, <2>1
<1>5. PICK f : /\ f = [i \in 1 .. N |-> f[i]]
               /\ \A i \in 1 .. N : N - i < N => f[i] = TextAt(s, f, i)
  BY <1>4 DEF S, Has
<1>6. \A i \in 1 .. N : f[i] = TextAt(s, f, i)
  BY <1>0, <1>5
<1>7. f = [i \in 1 .. N |-> TextAt(s, f, i)]
  BY <1>5, <1>6
<1>. QED BY <1>7

\* The text that CHOOSE finds is that function.
LEMMA TextFacts ==
  ASSUME NEW T, NEW s \in Seq(T), NEW f, f = [i \in 1 .. Len(s) + 1 |-> TextAt(s, f, i)]
  PROVE  \A i \in 1 .. Len(s) + 1 : GoodText(s, i, f[i])
<1> DEFINE N == Len(s) + 1
           S == {i \in 1 .. N : GoodText(s, i, f[i])}
<1>0. N \in Nat
  OBVIOUS
<1>1. ASSUME NEW i \in 1 .. N, \A j \in i + 1 .. N : j \in S PROVE i \in S
  <2>1. \A j \in i + 1 .. N : f[j] = f[j] /\ GoodText(s, j, f[j])
    BY <1>1
  <2>2. GoodText(s, i, TextAt(s, f, i))
    BY <2>1, TextStep
  <2>. QED BY <2>2
<1> HIDE DEF S
<1>2. \A i \in 1 .. N : i \in S
  BY <1>0, <1>1, Downwards
<1>. QED BY <1>2 DEF S

\* What parse_string gives back.
LEMMA StringFacts ==
  ASSUME NEW T, NEW s \in Seq(T), NEW i \in 1 .. Len(s)
  PROVE  \/ parse_string(s, i) = NotParsed(-3, i)
         \/ \E text \in Seq(Symbols(s)) : \E next \in i + 1 .. Len(s) + 1 :
              parse_string(s, i) = Parsed(Scalar("string", text), next)
<1> DEFINE h == CHOOSE f : f = [p \in 1 .. Len(s) + 1 |-> TextAt(s, f, p)]
<1>1. h = [p \in 1 .. Len(s) + 1 |-> TextAt(s, h, p)]
  BY TextFunction
<1>2. parse_string(s, i) = IF h[i + 1].closed THEN Parsed(Scalar("string", h[i + 1].text), h[i + 1].next)
                           ELSE NotParsed(-3, i)
  BY DEF parse_string, TextAt
<1> HIDE DEF h
<1>3. GoodText(s, i + 1, h[i + 1])
  <2>1. \A p \in 1 .. Len(s) + 1 : GoodText(s, p, h[p])
    BY <1>1, TextFacts
  <2>2. i + 1 \in 1 .. Len(s) + 1
    OBVIOUS
  <2>. QED BY <2>1, <2>2
<1>4. h[i + 1].text \in Seq(Symbols(s)) /\ h[i + 1].next \in i + 1 .. Len(s) + 1
  BY <1>3 DEF GoodText
<1>. QED BY <1>2, <1>4

-----------------------------------------------------------------------------
(* Values *)

Scalars == {"int", "double", "bool", "string"}
Types   == Scalars \cup {"int[]", "double[]", "bool[]", "string[]",
                         "+int[]", "+double[]", "+bool[]", "+string[]", "NULL", "_"}

\* The values a text with these symbols can have.
Val(symbols) ==
  {x \in [type : Types, v : Seq(Seq(symbols))] : x.type \in Scalars => Len(x.v) = 1}

\* A value record has the type and the elements it was made of.
LEMMA ValFacts ==
  ASSUME NEW symbols, NEW type \in Types, NEW v \in Seq(Seq(symbols)),
         type \in Scalars => Len(v) = 1
  PROVE  [type |-> type, v |-> v] \in Val(symbols)
BY DEF Val

\* A scalar is a value with one element, its text.
LEMMA ScalarFacts ==
  ASSUME NEW symbols, NEW type \in Scalars, NEW text \in Seq(symbols)
  PROVE  /\ Scalar(type, text) \in Val(symbols)
         /\ Scalar(type, text).type = type /\ Scalar(type, text).v[1] = text
<1>1. <<text>> \in Seq(Seq(symbols)) /\ Len(<<text>>) = 1
  OBVIOUS
<1>2. type \in Types
  BY DEF Types
<1>3. [type |-> type, v |-> <<text>>] \in Val(symbols)
  BY <1>1, <1>2, ValFacts
<1>. QED BY <1>3 DEF Scalar

\* An element of an array is the text of a scalar, or misread.
LEMMA ElementFacts ==
  ASSUME NEW symbols, "misread" \in symbols, NEW x \in Val(symbols)
  PROVE  ElementOf(x) \in Seq(symbols)
<1>1. CASE x.type \in Scalars
  <2>1. x.v \in Seq(Seq(symbols)) /\ Len(x.v) = 1
    BY <1>1 DEF Val
  <2>2. x.v[1] \in Seq(symbols)
    BY <2>1
  <2>. QED BY <1>1, <2>2 DEF ElementOf, Scalars
<1>2. CASE x.type \notin Scalars
  BY <1>2 DEF ElementOf, Scalars, Misread
<1>. QED BY <1>1, <1>2

\* A scalar and a text are within limits when the text is; an array when it has
\* no more elements than it may have, and no longer ones.
LEMMA LimitFacts ==
  ASSUME NEW type \in Types, NEW v,
         type = "string" => Len(v[1]) <= MAX_STRING_VALUE_LENGTH,
         type \in {"int[]", "double[]", "bool[]", "string[]"} => Len(v) <= MAX_LITERAL_LENGTH,
         type = "string[]" =>
           \A k \in DOMAIN v : v[k] = Misread \/ Len(v[k]) <= MAX_STRING_VALUE_LENGTH
  PROVE  ValueWithinLimits([type |-> type, v |-> v])
<1>1. PICK x : x = [type |-> type, v |-> v]
  OBVIOUS
<1>2. x.type = type /\ x.v = v
  BY <1>1
<1>3. ValueWithinLimits(x)
  BY <1>2 DEF ValueWithinLimits
<1>. QED BY <1>1, <1>3

GoodValue(s, i, x) ==
  /\ x = [rc |-> x.rc, val |-> x.val, next |-> x.next]
  /\ x.val \in Val(Symbols(s)) /\ x.next \in 1 .. Len(s) + 1
  /\ x.rc = 0 => x.next \in i + 1 .. Len(s) + 1 /\ ValueWithinLimits(x.val)

GoodList(s, i, x) ==
  /\ x = [closed |-> x.closed, vals |-> x.vals, next |-> x.next]
  /\ x.closed \in BOOLEAN
  /\ x.vals \in Seq(Val(Symbols(s))) /\ x.vals # <<>>
  /\ x.closed = TRUE => /\ x.next \in i + 1 .. Len(s) + 1
                        /\ \A k \in DOMAIN x.vals : ValueWithinLimits(x.vals[k])

GoodParsed(s, i, x) ==
  /\ x = [value |-> x.value, list |-> x.list]
  /\ GoodValue(s, i, x.value) /\ GoodList(s, i, x.list)

\* A value that was parsed, and one that was not.
LEMMA SuccessFacts ==
  ASSUME NEW T, NEW s \in Seq(T), NEW i \in Nat, NEW type \in Types, NEW v,
         [type |-> type, v |-> v] \in Val(Symbols(s)),
         NEW next \in i + 1 .. Len(s) + 1, ValueWithinLimits([type |-> type, v |-> v])
  PROVE  GoodValue(s, i, Parsed([type |-> type, v |-> v], next))
<1>1. PICK x : x = [type |-> type, v |-> v]
  OBVIOUS
<1>2. GoodValue(s, i, Parsed(x, next))
  BY <1>1 DEF Parsed, GoodValue
<1>. QED BY <1>1, <1>2

\* A failure tells where, and is a value like none.
LEMMA NotParsedFacts ==
  ASSUME NEW s, NEW i, NEW j \in 1 .. Len(s) + 1, NEW rc \in Int, rc # 0
  PROVE  GoodValue(s, i, NotParsed(rc, j))
<1>1. NullString \in Val(Symbols(s))
  <2>1. "NULL" \in Types /\ "NULL" \notin Scalars
    BY DEF Types, Scalars
  <2>2. PICK symbols : symbols = Symbols(s)
    OBVIOUS
  <2>3. <<>> \in Seq(Seq(symbols))
    OBVIOUS
  <2>4. [type |-> "NULL", v |-> <<>>] \in Val(symbols)
    BY <2>1, <2>3, ValFacts
  <2>. QED BY <2>2, <2>4 DEF NullString
<1>. QED BY <1>1 DEF NotParsed, GoodValue

\* The tag of a type is its own for a scalar, and for a scalar only.
LEMMA TagFacts ==
  ASSUME NEW a \in Types, NEW b \in Types, Tag(a) = Tag(b), a \in Scalars \/ b \in Scalars
  PROVE  a = b
BY DEF Tag, Types, Scalars

\* The type of an array and that of an append are array types.
LEMMA ArrayTypeFacts ==
  ASSUME NEW a
  PROVE  /\ ArrayOf(a) \in {"int[]", "double[]", "bool[]", "string[]"}
         /\ ArrayOf(a) = "string[]" => a \notin {"int", "double", "bool"}
         /\ AppendTo(a) \in {"+int[]", "+double[]", "+bool[]", "+string[]"}
BY DEF ArrayOf, AppendTo

\* An array from a list that begins behind position i.
LEMMA ArrayFacts ==
  ASSUME NEW T, NEW s \in Seq(T), NEW i \in 1 .. Len(s) + 1, NEW j \in Nat, i <= j,
         NEW list, GoodList(s, j, list)
  PROVE  GoodValue(s, i, ArrayValue(list, i))
<1> DEFINE vals == list.vals
           bad == ~list.closed \/ Len(vals) > MAX_LITERAL_LENGTH
                    \/ \E k \in DOMAIN vals : Tag(vals[k].type) # Tag(vals[1].type)
           elems == [k \in DOMAIN vals |-> ElementOf(vals[k])]
<1>1. CASE bad
  BY <1>1, NotParsedFacts DEF ArrayValue
<1>2. CASE ~bad
  <2>1. list.closed = TRUE /\ vals \in Seq(Val(Symbols(s))) /\ vals # <<>>
        /\ list.next \in i + 1 .. Len(s) + 1
        /\ \A k \in DOMAIN vals : ValueWithinLimits(vals[k])
    BY <1>2 DEF GoodList
  <2>2. Len(vals) \in Nat /\ DOMAIN vals = 1 .. Len(vals) /\ 1 \in DOMAIN vals
        /\ \A k \in DOMAIN vals : vals[k] \in Val(Symbols(s))
    BY <2>1
  <2>3. Len(vals) <= MAX_LITERAL_LENGTH
    BY <1>2, <2>2, ParserAssumption
  <2>4. \A k \in DOMAIN vals : Tag(vals[k].type) = Tag(vals[1].type)
    BY <1>2
  <2>5. \A k \in DOMAIN vals : vals[k].type \in Types
    BY <2>2 DEF Val
  <2> HIDE DEF vals, bad
  <2>6. elems \in Seq(Seq(Symbols(s))) /\ Len(elems) = Len(vals) /\ DOMAIN elems = DOMAIN vals
    <3>1. "misread" \in Symbols(s)
      BY DEF Symbols
    <3>2. \A k \in 1 .. Len(vals) : ElementOf(vals[k]) \in Seq(Symbols(s))
      BY <2>2, <3>1, ElementFacts
    <3>. QED BY <2>2, <3>2
  <2>7. PICK a : a = vals[1].type
    OBVIOUS
  <2>8. ASSUME ArrayOf(a) = "string[]", NEW k \in DOMAIN elems
        PROVE  elems[k] = Misread \/ Len(elems[k]) <= MAX_STRING_VALUE_LENGTH
    <3>1. PICK x : x = vals[k]
      OBVIOUS
    <3>2. x \in Val(Symbols(s)) /\ ValueWithinLimits(x) /\ x.type \in Types /\ a \in Types
          /\ Tag(x.type) = Tag(a)
      BY <2>1, <2>2, <2>4, <2>5, <2>6, <2>7, <2>8, <3>1
    <3>3. a \notin {"int", "double", "bool"}
      BY <2>8, ArrayTypeFacts
    <3>4. x.type \notin {"int", "double", "bool"}
      BY <3>2, <3>3, TagFacts DEF Scalars
    <3>5. elems[k] = ElementOf(x)
      BY <2>6, <2>8, <3>1
    <3>6. CASE x.type = "string"
      <4>1. Len(x.v[1]) <= MAX_STRING_VALUE_LENGTH
        BY <3>2, <3>6 DEF ValueWithinLimits
      <4>. QED BY <3>5, <3>6, <4>1 DEF ElementOf
    <3>7. CASE x.type # "string"
      BY <3>4, <3>5, <3>7 DEF ElementOf
    <3>. QED BY <3>6, <3>7
  <2>9. PICK type : type = ArrayOf(a)
    OBVIOUS
  <2>10. type \in {"int[]", "double[]", "bool[]", "string[]"} /\ type \in Types /\ type \notin Scalars
         /\ type # "string"
    BY <2>9, ArrayTypeFacts DEF Types, Scalars
  <2>11. PICK v : v = elems
    OBVIOUS
  <2>12. ValueWithinLimits([type |-> type, v |-> v])
    <3>1. Len(v) <= MAX_LITERAL_LENGTH
      BY <2>3, <2>6, <2>11
    <3>2. type = "string[]" =>
            \A k \in DOMAIN v : v[k] = Misread \/ Len(v[k]) <= MAX_STRING_VALUE_LENGTH
      BY <2>8, <2>9, <2>11
    <3>. QED BY <2>10, <3>1, <3>2, LimitFacts
  <2>13. [type |-> type, v |-> v] \in Val(Symbols(s))
    BY <2>6, <2>10, <2>11, ValFacts
  <2>14. ArrayValue(list, i) = Parsed([type |-> type, v |-> v], list.next)
    BY <1>2, <2>7, <2>9, <2>11 DEF ArrayValue, vals, bad
  <2>. QED BY <2>1, <2>10, <2>12, <2>13, <2>14, SuccessFacts
<1>. QED BY <1>1, <1>2

\* A value that begins at i, from what was parsed behind it.
LEMMA ValueStep ==
  ASSUME NEW T, NEW s \in Seq(T), NEW f, NEW g, NEW i \in 1 .. Len(s) + 1,
         \A j \in i + 1 .. Len(s) + 1 : f[j] = g[j] /\ GoodParsed(s, j, f[j])
  PROVE  GoodValue(s, i, ValueAt(s, i, f)) /\ ValueAt(s, i, f) = ValueAt(s, i, g)
<1>0. Len(s) \in Nat /\ DOMAIN s = 1 .. Len(s) /\ i \in Nat
  OBVIOUS
<1>1. PICK p : p = skip_whitespace(s, i)
  OBVIOUS
<1>2. p \in i .. Len(s) + 1
  BY <1>1, ScanFacts
<1>3. PICK c : c = At(s, p)
  OBVIOUS
<1>4. PICK q : q = skip_whitespace(s, p + 1)
  OBVIOUS
<1>5. c # END => /\ p \in 1 .. Len(s) /\ c = s[p] /\ p + 1 \in i + 1 .. Len(s) + 1
                 /\ q \in i + 1 .. Len(s) + 1
  <2>1. SUFFICES ASSUME c # END
                 PROVE  /\ p \in 1 .. Len(s) /\ c = s[p] /\ p + 1 \in i + 1 .. Len(s) + 1
                        /\ q \in i + 1 .. Len(s) + 1
    OBVIOUS
  <2>2. p \in 1 .. Len(s) /\ c = s[p]
    BY <1>3, <2>1, AtFacts
  <2>3. p + 1 \in 1 .. Len(s) + 1 /\ p + 1 \in i + 1 .. Len(s) + 1
    BY <1>0, <1>2, <2>2
  <2>4. q \in p + 1 .. Len(s) + 1
    BY <1>4, <2>3, ScanFacts
  <2>. QED BY <1>0, <1>2, <2>2, <2>3, <2>4
<1>6. \A h : ValueAt(s, i, h) =
        CASE c = "quote" ->
               IF parse_string(s, p).rc = 0 /\ Len(parse_string(s, p).val.v[1]) > MAX_STRING_VALUE_LENGTH
                 THEN NotParsed(-8, i) ELSE parse_string(s, p)
          [] c \in {"true", "false"} /\ At(s, p + 1) \in {",", ")", "]", END} \cup Blanks ->
               Parsed(Scalar("bool", <<c>>), p + 1)
          [] c \in Ints -> Parsed(Scalar("int", <<c>>), p + 1)
          [] c \in Doubles -> Parsed(Scalar("double", <<c>>), p + 1)
          [] c = "[" /\ At(s, q) = "...+" ->
               IF h[q + 1].value.rc # 0 \/ At(s, skip_whitespace(s, h[q + 1].value.next)) # "]"
                 THEN NotParsed(-6, i)
               ELSE Parsed([type |-> AppendTo(h[q + 1].value.val.type),
                            v |-> <<ElementOf(h[q + 1].value.val)>>],
                           skip_whitespace(s, h[q + 1].value.next) + 1)
          [] c = "[" /\ At(s, q) = "]" -> Parsed([type |-> "int[]", v |-> <<>>], q + 1)
          [] c = "[" /\ At(s, q) \notin {"...+", "]"} -> ArrayValue(h[q].list, i)
          [] OTHER -> NotParsed(-6, i)
  BY <1>1, <1>3, <1>4 DEF ValueAt
<1>7. /\ c \in Ints => c \notin Doubles \cup {END, "quote", "[", "true", "false"}
      /\ c \in Doubles => c \notin Ints \cup {END, "quote", "[", "true", "false"}
      /\ c = END => c \notin {"quote", "[", "true", "false"}
  BY ParserAssumption DEF END
<1>8. ASSUME NEW type \in Scalars \ {"string"}, c # END
      PROVE  GoodValue(s, i, Parsed(Scalar(type, <<c>>), p + 1))
  <2>1. c \in Symbols(s)
    BY <1>0, <1>5, <1>8 DEF Symbols
  <2>2. PICK symbols, text : symbols = Symbols(s) /\ text = <<c>>
    OBVIOUS
  <2>3. text \in Seq(symbols)
    BY <2>1, <2>2
  <2>4. Scalar(type, text) \in Val(symbols)
    BY <2>3, ScalarFacts
  <2>5. type \in Types /\ type \notin {"string", "int[]", "double[]", "bool[]", "string[]"}
    BY <1>8 DEF Types, Scalars
  <2>6. PICK v : v = <<text>>
    OBVIOUS
  <2>7. Scalar(type, text) = [type |-> type, v |-> v]
    BY <2>6 DEF Scalar
  <2>8. ValueWithinLimits([type |-> type, v |-> v])
    BY <2>5, LimitFacts
  <2>9. GoodValue(s, i, Parsed([type |-> type, v |-> v], p + 1))
    BY <1>5, <1>8, <2>2, <2>4, <2>5, <2>7, <2>8, SuccessFacts
  <2>. QED BY <2>2, <2>7, <2>9
<1>9. CASE c = "quote"
  <2>1. PICK string : string = parse_string(s, p)
    OBVIOUS
  <2>2. \A h : ValueAt(s, i, h) = IF string.rc = 0 /\ Len(string.val.v[1]) > MAX_STRING_VALUE_LENGTH
                                    THEN NotParsed(-8, i) ELSE string
    BY <1>6, <1>7, <1>9, <2>1
  <2>3. c # END /\ p \in 1 .. Len(s) /\ p \in 1 .. Len(s) + 1
    BY <1>0, <1>5, <1>7, <1>9
  <2>4. CASE string = NotParsed(-3, p)
    <3>1. string.rc = -3
      BY <2>4 DEF NotParsed
    <3>2. \A h : ValueAt(s, i, h) = NotParsed(-3, p)
      BY <2>2, <2>4, <3>1
    <3>. QED BY <2>3, <3>2, NotParsedFacts
  <2>5. CASE string # NotParsed(-3, p)
    <3>1. PICK text \in Seq(Symbols(s)) : \E next \in p + 1 .. Len(s) + 1 :
            string = Parsed(Scalar("string", text), next)
      BY <2>1, <2>3, <2>5, StringFacts
    <3>2. PICK next \in p + 1 .. Len(s) + 1 : string = Parsed(Scalar("string", text), next)
      BY <3>1
    <3>3. next \in i + 1 .. Len(s) + 1
      BY <1>0, <1>2
    <3>4. PICK symbols, v : symbols = Symbols(s) /\ v = <<text>>
      OBVIOUS
    <3>5. Scalar("string", text) = [type |-> "string", v |-> v] /\ v[1] = text /\ "string" \in Types
      BY <3>4 DEF Scalar, Types, Scalars
    <3>6. Scalar("string", text) \in Val(symbols)
      BY <3>4, ScalarFacts DEF Scalars
    <3>7. string.rc = 0 /\ string.val.v[1] = text
      BY <3>2, <3>5 DEF Parsed
    <3>8. CASE Len(text) > MAX_STRING_VALUE_LENGTH
      <4>1. \A h : ValueAt(s, i, h) = NotParsed(-8, i)
        BY <2>2, <3>7, <3>8
      <4>. QED BY <4>1, NotParsedFacts
    <3>9. CASE ~(Len(text) > MAX_STRING_VALUE_LENGTH)
      <4>1. \A h : ValueAt(s, i, h) = string
        BY <2>2, <3>7, <3>9
      <4>2. Len(v[1]) <= MAX_STRING_VALUE_LENGTH
        BY <3>5, <3>9, ParserAssumption
      <4>3. PICK type : type = "string"
        OBVIOUS
      <4>4. ValueWithinLimits([type |-> type, v |-> v])
        BY <3>5, <4>2, <4>3, LimitFacts
      <4>5. GoodValue(s, i, Parsed([type |-> type, v |-> v], next))
        BY <3>3, <3>4, <3>5, <3>6, <4>3, <4>4, SuccessFacts
      <4>. QED BY <3>2, <3>5, <4>1, <4>3, <4>5
    <3>. QED BY <3>8, <3>9
  <2>. QED BY <2>4, <2>5
<1>10. CASE c \in {"true", "false"} /\ At(s, p + 1) \in {",", ")", "]", END} \cup Blanks
  <2>1. \A h : ValueAt(s, i, h) = Parsed(Scalar("bool", <<c>>), p + 1)
    BY <1>6, <1>7, <1>10
  <2>2. "bool" \in Scalars \ {"string"} /\ c # END
    BY <1>7, <1>10 DEF Scalars
  <2>. QED BY <1>8, <2>1, <2>2
<1>11. CASE c \in Ints
  <2>1. \A h : ValueAt(s, i, h) = Parsed(Scalar("int", <<c>>), p + 1)
    BY <1>6, <1>7, <1>11
  <2>2. "int" \in Scalars \ {"string"} /\ c # END
    BY <1>7, <1>11 DEF Scalars
  <2>. QED BY <1>8, <2>1, <2>2
<1>12. CASE c \in Doubles
  <2>1. \A h : ValueAt(s, i, h) = Parsed(Scalar("double", <<c>>), p + 1)
    BY <1>6, <1>7, <1>12
  <2>2. "double" \in Scalars \ {"string"} /\ c # END
    BY <1>7, <1>12 DEF Scalars
  <2>. QED BY <1>8, <2>1, <2>2
<1>13. CASE c = "[" /\ At(s, q) = "...+"
  <2>1. c # END /\ At(s, q) # END
    BY <1>7, <1>13 DEF END
  <2>2. q + 1 \in i + 1 .. Len(s) + 1
    BY <1>0, <1>5, <2>1, AtFacts
  <2>3. PICK x : x = f[q + 1].value
    OBVIOUS
  <2>4. x = g[q + 1].value /\ GoodValue(s, q + 1, x)
    BY <2>2, <2>3 DEF GoodParsed
  <2>5. PICK closing : closing = skip_whitespace(s, x.next)
    OBVIOUS
  <2>6. \A h : h[q + 1].value = x =>
          ValueAt(s, i, h) = IF x.rc # 0 \/ At(s, closing) # "]" THEN NotParsed(-6, i)
                             ELSE Parsed([type |-> AppendTo(x.val.type), v |-> <<ElementOf(x.val)>>], closing + 1)
    BY <1>6, <1>7, <1>13, <2>5
  <2>7. CASE x.rc # 0 \/ At(s, closing) # "]"
    <3>1. ValueAt(s, i, f) = NotParsed(-6, i) /\ ValueAt(s, i, g) = NotParsed(-6, i)
      BY <2>3, <2>4, <2>6, <2>7
    <3>. QED BY <3>1, NotParsedFacts
  <2>8. CASE x.rc = 0 /\ At(s, closing) = "]"
    <3>1. PICK type, v : type = AppendTo(x.val.type) /\ v = <<ElementOf(x.val)>>
      OBVIOUS
    <3>2. ValueAt(s, i, f) = Parsed([type |-> type, v |-> v], closing + 1)
          /\ ValueAt(s, i, g) = Parsed([type |-> type, v |-> v], closing + 1)
      BY <2>3, <2>4, <2>6, <2>8, <3>1
    <3>3. x.next \in (q + 1) + 1 .. Len(s) + 1 /\ x.val \in Val(Symbols(s))
      BY <2>4, <2>8 DEF GoodValue
    <3>4. x.next \in 1 .. Len(s) + 1 /\ x.next >= i
      BY <1>0, <2>2, <3>3
    <3>5. closing \in x.next .. Len(s) + 1
      BY <2>5, <3>4, ScanFacts
    <3>6. closing \in 1 .. Len(s)
      BY <2>8, AtFacts DEF END
    <3>7. closing + 1 \in i + 1 .. Len(s) + 1
      BY <1>0, <3>4, <3>5, <3>6
    <3>8. type \in Types /\ type \notin Scalars
          /\ type \notin {"string", "int[]", "double[]", "bool[]", "string[]"}
      BY <3>1, ArrayTypeFacts DEF Types, Scalars
    <3>9. PICK symbols : symbols = Symbols(s)
      OBVIOUS
    <3>10. v \in Seq(Seq(symbols))
      <4>1. "misread" \in symbols
        BY <3>9 DEF Symbols
      <4>2. ElementOf(x.val) \in Seq(symbols)
        BY <3>3, <3>9, <4>1, ElementFacts
      <4>. QED BY <3>1, <4>2
    <3>11. [type |-> type, v |-> v] \in Val(symbols)
      BY <3>8, <3>10, ValFacts
    <3>12. ValueWithinLimits([type |-> type, v |-> v])
      BY <3>8, LimitFacts
    <3>. QED BY <3>2, <3>7, <3>8, <3>9, <3>11, <3>12, SuccessFacts
  <2>. QED BY <2>7, <2>8
<1>14. CASE c = "[" /\ At(s, q) = "]"
  <2>1. PICK type, v : type = "int[]" /\ v = <<>>
    OBVIOUS
  <2>2. \A h : ValueAt(s, i, h) = Parsed([type |-> type, v |-> v], q + 1)
    BY <1>6, <1>7, <1>14, <2>1
  <2>3. c # END /\ At(s, q) # END
    BY <1>7, <1>14 DEF END
  <2>4. q + 1 \in i + 1 .. Len(s) + 1
    BY <1>0, <1>5, <2>3, AtFacts
  <2>5. type \in Types /\ type \notin Scalars /\ type \notin {"string", "string[]"}
    BY <2>1 DEF Types, Scalars
  <2>6. PICK symbols : symbols = Symbols(s)
    OBVIOUS
  <2>7. v \in Seq(Seq(symbols)) /\ Len(v) = 0
    BY <2>1
  <2>8. [type |-> type, v |-> v] \in Val(symbols)
    BY <2>5, <2>7, ValFacts
  <2>9. Len(v) <= MAX_LITERAL_LENGTH
    BY <2>7, ParserAssumption
  <2>10. ValueWithinLimits([type |-> type, v |-> v])
    BY <2>5, <2>9, LimitFacts
  <2>. QED BY <2>2, <2>4, <2>5, <2>6, <2>8, <2>10, SuccessFacts
<1>15. CASE c = "[" /\ At(s, q) \notin {"...+", "]"}
  <2>1. \A h : ValueAt(s, i, h) = ArrayValue(h[q].list, i)
    BY <1>6, <1>7, <1>15
  <2>2. q \in i + 1 .. Len(s) + 1
    BY <1>5, <1>7, <1>15
  <2>3. PICK list : list = f[q].list
    OBVIOUS
  <2>4. list = g[q].list /\ GoodList(s, q, list)
    BY <2>2, <2>3 DEF GoodParsed
  <2>5. GoodValue(s, i, ArrayValue(list, i))
    <3>1. q \in Nat /\ i <= q
      BY <1>0, <2>2
    <3>. QED BY <2>4, <3>1, ArrayFacts
  <2>. QED BY <2>1, <2>3, <2>4, <2>5
<1>16. CASE ~(\/ c = "quote"
              \/ c \in {"true", "false"} /\ At(s, p + 1) \in {",", ")", "]", END} \cup Blanks
              \/ c \in Ints \/ c \in Doubles \/ c = "[")
  <2>1. \A h : ValueAt(s, i, h) = NotParsed(-6, i)
    BY <1>6, <1>16
  <2>. QED BY <2>1, NotParsedFacts
<1>. QED BY <1>9, <1>10, <1>11, <1>12, <1>13, <1>14, <1>15, <1>16

AgreeBehind(s, f, g, i) ==
  \A j \in i + 1 .. Len(s) + 1 : f[j] = g[j] /\ GoodParsed(s, j, f[j])

\* The list of values that begins with the one at i.
LEMMA ListStep ==
  ASSUME NEW T, NEW s \in Seq(T), NEW f, NEW g, NEW i \in 1 .. Len(s) + 1, AgreeBehind(s, f, g, i),
         NEW one, GoodValue(s, i, one)
  PROVE  GoodList(s, i, ListFrom(s, one, f)) /\ ListFrom(s, one, f) = ListFrom(s, one, g)
<1>0. Len(s) \in Nat /\ DOMAIN s = 1 .. Len(s) /\ i \in Nat
  OBVIOUS
<1>1. PICK q : q = skip_whitespace(s, one.next)
  OBVIOUS
<1>2. q \in one.next .. Len(s) + 1 /\ one.next \in Nat
  <2>1. PICK n \in 1 .. Len(s) + 1 : n = one.next
    BY DEF GoodValue
  <2>. QED BY <1>1, <2>1, ScanFacts
<1>3. PICK val, symbols : val = one.val /\ symbols = Symbols(s)
  OBVIOUS
<1>4. val \in Val(symbols) /\ (one.rc = 0 => ValueWithinLimits(val) /\ one.next \in i + 1 .. Len(s) + 1)
  BY <1>3 DEF GoodValue
<1>5. CASE one.rc = 0 /\ At(s, q) = ","
  <2>1. q \in 1 .. Len(s)
    BY <1>5, AtFacts DEF END
  <2>2. q + 1 \in i + 1 .. Len(s) + 1
    <3>1. PICK n : n = one.next
      OBVIOUS
    <3>2. n \in Nat /\ q \in n .. Len(s) + 1 /\ n \in i + 1 .. Len(s) + 1
      BY <1>2, <1>4, <1>5, <3>1
    <3>. QED BY <1>0, <2>1, <3>2
  <2>3. PICK rest : rest = f[q + 1].list
    OBVIOUS
  <2>4. rest = g[q + 1].list /\ GoodList(s, q + 1, rest)
    BY <2>2, <2>3 DEF GoodParsed, AgreeBehind
  <2>5. PICK d, vals, n : rest = [closed |-> d, vals |-> vals, next |-> n]
    BY <2>4 DEF GoodList
  <2>6. d \in BOOLEAN /\ vals \in Seq(Val(symbols)) /\ vals # <<>>
        /\ (d = TRUE => /\ n \in (q + 1) + 1 .. Len(s) + 1
                        /\ \A k \in DOMAIN vals : ValueWithinLimits(vals[k]))
    <3>1. rest.closed = d /\ rest.vals = vals /\ rest.next = n
      BY <2>5
    <3>. QED BY <1>3, <2>4, <3>1 DEF GoodList
  <2>7. PICK all : all = <<val>> \o vals
    OBVIOUS
  <2>8. all \in Seq(Val(symbols)) /\ all # <<>>
        /\ (d = TRUE => \A k \in DOMAIN all : ValueWithinLimits(all[k]))
    <3>1. PICK V : V = Val(symbols)
      OBVIOUS
    <3>2. val \in V /\ vals \in Seq(V)
      BY <1>4, <2>6, <3>1
    <3>3. all \in Seq(V) /\ Len(all) = Len(vals) + 1 /\ DOMAIN all = 1 .. Len(vals) + 1
          /\ all[1] = val /\ \A k \in 2 .. Len(vals) + 1 : all[k] = vals[k - 1]
      BY <2>7, <3>2
    <3>4. Len(vals) \in Nat /\ DOMAIN vals = 1 .. Len(vals)
      BY <3>2
    <3>5. ASSUME d = TRUE, NEW k \in DOMAIN all PROVE ValueWithinLimits(all[k])
      <4>1. CASE k = 1
        BY <1>4, <1>5, <3>3, <4>1
      <4>2. CASE k # 1
        <5>1. k \in 2 .. Len(vals) + 1 /\ k - 1 \in DOMAIN vals
          BY <3>3, <3>4, <4>2
        <5>. QED BY <2>6, <3>3, <3>5, <5>1
      <4>. QED BY <4>1, <4>2
    <3>6. all # <<>>
      BY <3>3, <3>4
    <3>. QED BY <3>1, <3>3, <3>5, <3>6
  <2>9. PICK new : new = [rest EXCEPT !.vals = <<val>> \o @]
    OBVIOUS
  <2>10. new = [closed |-> d, vals |-> all, next |-> n]
    BY <2>5, <2>7, <2>9
  <2>11. new.closed = d /\ new.vals = all /\ new.next = n
    BY <2>10
  <2>12. d = TRUE => n \in i + 1 .. Len(s) + 1
    BY <1>0, <2>2, <2>6
  <2>13. GoodList(s, i, new)
    BY <1>3, <2>6, <2>8, <2>10, <2>11, <2>12 DEF GoodList
  <2>14. ListFrom(s, one, f) = new /\ ListFrom(s, one, g) = new
    BY <1>1, <1>3, <1>5, <2>3, <2>4, <2>9 DEF ListFrom
  <2>. QED BY <2>13, <2>14
<1>6. CASE ~(one.rc = 0 /\ At(s, q) = ",")
  <2>1. PICK d, vals : d = (one.rc = 0 /\ At(s, q) = "]") /\ vals = <<val>>
    OBVIOUS
  <2>2. \A h : ListFrom(s, one, h) = [closed |-> d, vals |-> vals, next |-> q + 1]
    BY <1>1, <1>3, <1>6, <2>1 DEF ListFrom
  <2>3. vals \in Seq(Val(symbols)) /\ vals # <<>> /\ DOMAIN vals = {1} /\ vals[1] = val
    <3>1. PICK V : V = Val(symbols)
      OBVIOUS
    <3>2. val \in V
      BY <1>4, <3>1
    <3>3. vals \in Seq(V) /\ Len(vals) = 1 /\ vals[1] = val
      BY <2>1, <3>2
    <3>4. DOMAIN vals = {1} /\ vals # <<>>
      BY <2>1
    <3>. QED BY <3>1, <3>3, <3>4
  <2>4. d \in BOOLEAN
    BY <2>1
  <2>5. ASSUME d = TRUE
        PROVE  q + 1 \in i + 1 .. Len(s) + 1 /\ \A k \in DOMAIN vals : ValueWithinLimits(vals[k])
    <3>1. one.rc = 0 /\ At(s, q) = "]"
      BY <2>1, <2>5
    <3>2. q \in 1 .. Len(s)
      BY <3>1, AtFacts DEF END
    <3>3. q + 1 \in i + 1 .. Len(s) + 1
      BY <1>0, <1>2, <1>4, <3>1, <3>2
    <3>. QED BY <1>4, <2>3, <3>1, <3>3
  <2>6. PICK new : new = [closed |-> d, vals |-> vals, next |-> q + 1]
    OBVIOUS
  <2>7. GoodList(s, i, new)
    BY <1>3, <2>3, <2>4, <2>5, <2>6 DEF GoodList
  <2>. QED BY <2>2, <2>6, <2>7
<1>. QED BY <1>5, <1>6

\* One position of parse_single_value.
ParsedAt(s, parsed, i) ==
  [value |-> ValueAt(s, i, parsed), list |-> ListFrom(s, ValueAt(s, i, parsed), parsed)]

\* What was parsed at i depends on what was parsed behind i, and is within limits when that is.
LEMMA ParsedStep ==
  ASSUME NEW T, NEW s \in Seq(T), NEW f, NEW g, NEW i \in 1 .. Len(s) + 1,
         \A j \in i + 1 .. Len(s) + 1 : f[j] = g[j] /\ GoodParsed(s, j, f[j])
  PROVE  GoodParsed(s, i, ParsedAt(s, f, i)) /\ ParsedAt(s, f, i) = ParsedAt(s, g, i)
<1>1. PICK one : one = ValueAt(s, i, f)
  OBVIOUS
<1>2. GoodValue(s, i, one) /\ one = ValueAt(s, i, g)
  BY <1>1, ValueStep
<1>4. GoodList(s, i, ListFrom(s, one, f)) /\ ListFrom(s, one, f) = ListFrom(s, one, g)
  <2>1. AgreeBehind(s, f, g, i)
    BY DEF AgreeBehind
  <2>. QED BY <1>2, <2>1, ListStep
<1>5. PICK list : list = ListFrom(s, one, f)
  OBVIOUS
<1>6. ParsedAt(s, f, i) = [value |-> one, list |-> list] /\ ParsedAt(s, g, i) = [value |-> one, list |-> list]
  BY <1>1, <1>2, <1>4, <1>5 DEF ParsedAt
<1>7. GoodParsed(s, i, [value |-> one, list |-> list])
  BY <1>2, <1>4, <1>5 DEF GoodParsed
<1>. QED BY <1>6, <1>7

\* The function that parse_single_value defines exists, and its values are within limits.
LEMMA ParsedFunction ==
  ASSUME NEW T, NEW s \in Seq(T)
  PROVE  \E f : f = [i \in 1 .. Len(s) + 1 |-> ParsedAt(s, f, i)]
<1> DEFINE N == Len(s) + 1
           Has(m) == \E f : /\ f = [i \in 1 .. N |-> f[i]]
                            /\ \A i \in 1 .. N : N - i < m => f[i] = ParsedAt(s, f, i)
                                                              /\ GoodParsed(s, i, f[i])
           S == {m \in Nat : Has(m)}
<1>0. N \in Nat
  OBVIOUS
<1>1. Has(0)
  <2>1. PICK f : f = [i \in 1 .. N |-> 0]
    OBVIOUS
  <2>2. f = [i \in 1 .. N |-> f[i]]
    BY <2>1
  <2>3. \A i \in 1 .. N : ~(N - i < 0)
    BY <1>0
  <2>. QED BY <2>2, <2>3
<1>2. ASSUME NEW m \in Nat, Has(m) PROVE Has(m + 1)
  <2>1. PICK f : /\ f = [i \in 1 .. N |-> f[i]]
                 /\ \A i \in 1 .. N : N - i < m => f[i] = ParsedAt(s, f, i) /\ GoodParsed(s, i, f[i])
    BY <1>2
  <2>2. PICK g : g = [i \in 1 .. N |-> ParsedAt(s, f, i)]
    OBVIOUS
  <2>3. ASSUME NEW i \in 1 .. N, N - i < m + 1
        PROVE  g[i] = ParsedAt(s, g, i) /\ GoodParsed(s, i, g[i])
    <3>1. ASSUME NEW j \in i + 1 .. N PROVE f[j] = g[j] /\ GoodParsed(s, j, f[j])
      <4>1. j \in 1 .. N /\ N - j < m
        BY <1>0, <2>3
      <4>. QED BY <2>1, <2>2, <4>1
    <3>2. GoodParsed(s, i, ParsedAt(s, f, i)) /\ ParsedAt(s, f, i) = ParsedAt(s, g, i)
      BY <3>1, ParsedStep
    <3>. QED BY <2>2, <3>2
  <2>4. g = [i \in 1 .. N |-> g[i]]
    BY <2>2
  <2>. QED BY <2>3, <2>4
<1> HIDE DEF Has
<1>3. 0 \in S /\ \A i \in 0 .. N : i \in S /\ i < N => i + 1 \in S
  BY <1>1, <1>2
<1> HIDE DEF S
<1>4. N \in S
  <2>1. \A i \in 0 .. N : i \in S
    BY <1>0, <1>3, Upwards
  <2>. QED BY <1>0, <2>1
<1>5. PICK f : /\ f = [i \in 1 .. N |-> f[i]]
               /\ \A i \in 1 .. N : N - i < N => f[i] = ParsedAt(s, f, i)
  BY <1>4 DEF S, Has
<1>6. \A i \in 1 .. N : f[i] = ParsedAt(s, f, i)
  BY <1>0, <1>5
<1>7. f = [i \in 1 .. N |-> ParsedAt(s, f, i)]
  BY <1>5, <1>6
<1>. QED BY <1>7

\* The values that CHOOSE finds are that function's.
LEMMA ParsedFacts ==
  ASSUME NEW T, NEW s \in Seq(T), NEW f, f = [i \in 1 .. Len(s) + 1 |-> ParsedAt(s, f, i)]
  PROVE  \A i \in 1 .. Len(s) + 1 : GoodParsed(s, i, f[i])
<1> DEFINE N == Len(s) + 1
           S == {i \in 1 .. N : GoodParsed(s, i, f[i])}
<1>0. N \in Nat
  OBVIOUS
<1>1. ASSUME NEW i \in 1 .. N, \A j \in i + 1 .. N : j \in S PROVE i \in S
  <2>1. \A j \in i + 1 .. N : f[j] = f[j] /\ GoodParsed(s, j, f[j])
    BY <1>1
  <2>2. GoodParsed(s, i, ParsedAt(s, f, i))
    BY <2>1, ParsedStep
  <2>. QED BY <2>2
<1> HIDE DEF S
<1>2. \A i \in 1 .. N : i \in S
  BY <1>0, <1>1, Downwards
<1>. QED BY <1>2 DEF S

\* What parse_single_value gives back for a position of a line.
LEMMA SingleValueFacts ==
  ASSUME NEW T, NEW s \in Seq(T), NEW i \in 1 .. Len(s) + 1
  PROVE  GoodValue(s, i, parse_single_value(s, i))
<1> DEFINE h == CHOOSE f : f = [j \in 1 .. Len(s) + 1 |-> ParsedAt(s, f, j)]
<1>1. h = [j \in 1 .. Len(s) + 1 |-> ParsedAt(s, h, j)]
  BY ParsedFunction
<1>2. parse_single_value(s, i) = h[i].value
  BY DEF parse_single_value, ParsedAt
<1> HIDE DEF h
<1>3. \A j \in 1 .. Len(s) + 1 : GoodParsed(s, j, h[j])
  BY <1>1, ParsedFacts
<1>. QED BY <1>2, <1>3 DEF GoodParsed

\* What parse_update_value gives back.
LEMMA UpdateValueFacts ==
  ASSUME NEW T, NEW s \in Seq(T), NEW i \in 1 .. Len(s) + 1
  PROVE  GoodValue(s, i, parse_update_value(s, i))
<1>0. Len(s) \in Nat /\ i \in Nat
  OBVIOUS
<1>1. PICK p : p = skip_whitespace(s, i)
  OBVIOUS
<1>2. p \in i .. Len(s) + 1 /\ p \in 1 .. Len(s) + 1
  <2>1. p \in i .. Len(s) + 1
    BY <1>1, ScanFacts
  <2>. QED BY <1>0, <2>1
<1>3. CASE At(s, p) = "_" /\ At(s, p + 1) \in {",", ")", END} \cup Blanks
  <2>1. p \in 1 .. Len(s)
    BY <1>3, AtFacts DEF END
  <2>2. p + 1 \in i + 1 .. Len(s) + 1
    BY <1>0, <1>2, <2>1
  <2>3. PICK type, v, symbols : type = "_" /\ v = <<>> /\ symbols = Symbols(s)
    OBVIOUS
  <2>4. type \in Types /\ type \notin Scalars
        /\ type \notin {"string", "int[]", "double[]", "bool[]", "string[]"}
    BY <2>3 DEF Types, Scalars
  <2>5. v \in Seq(Seq(symbols))
    <3>1. <<>> \in Seq(Seq(symbols))
      OBVIOUS
    <3>. QED BY <2>3, <3>1
  <2>6. [type |-> type, v |-> v] \in Val(symbols)
    BY <2>4, <2>5, ValFacts
  <2>7. ValueWithinLimits([type |-> type, v |-> v])
    BY <2>4, LimitFacts
  <2>8. GoodValue(s, i, Parsed([type |-> type, v |-> v], p + 1))
    BY <1>0, <2>2, <2>3, <2>4, <2>6, <2>7, SuccessFacts
  <2>. QED BY <1>1, <1>3, <2>3, <2>8 DEF parse_update_value, Ignore
<1>4. CASE ~(At(s, p) = "_" /\ At(s, p + 1) \in {",", ")", END} \cup Blanks)
  <2>1. parse_update_value(s, i) = parse_single_value(s, p)
    BY <1>1, <1>4 DEF parse_update_value
  <2>2. PICK x : x = parse_single_value(s, p)
    OBVIOUS
  <2>3. GoodValue(s, p, x)
    BY <1>2, <2>2, SingleValueFacts
  <2>4. x.rc = 0 => x.next \in i + 1 .. Len(s) + 1
    <3>1. PICK n : n = x.next
      OBVIOUS
    <3>2. x.rc = 0 => n \in p + 1 .. Len(s) + 1
      BY <2>3, <3>1 DEF GoodValue
    <3>. QED BY <1>0, <1>2, <3>1, <3>2
  <2>5. GoodValue(s, i, x)
    BY <2>3, <2>4 DEF GoodValue
  <2>. QED BY <2>1, <2>2, <2>5
<1>. QED BY <1>3, <1>4

-----------------------------------------------------------------------------
(* The values of ADD and UP *)

\* The function that CountValues defines, up to symbol n.
IsCount(after, s, n) ==
  after = [i \in 0 .. n |-> IF i = 0 THEN [count |-> 0, hasContent |-> FALSE, inString |-> FALSE, inBracket |-> 0] ELSE CountSymbol(after[i - 1], s[i])]

\* It exists for every length.
LEMMA CountFunction ==
  ASSUME NEW s, NEW n \in Nat
  PROVE  \E after : IsCount(after, s, n)
<1> DEFINE base == [count |-> 0, hasContent |-> FALSE, inString |-> FALSE, inBracket |-> 0]
           Step(x, i) == CountSymbol(x, s[i])
           Has(m) == \E f : f = [i \in 0 .. m |-> IF i = 0 THEN base ELSE Step(f[i - 1], i)]
           S == {m \in Nat : Has(m)}
<1> HIDE DEF base, Step
<1>1. Has(0)
  <2> DEFINE f == [i \in 0 .. 0 |-> base]
  <2>1. f = [i \in 0 .. 0 |-> IF i = 0 THEN base ELSE Step(f[i - 1], i)]
    OBVIOUS
  <2>. QED BY <2>1
<1>2. ASSUME NEW m \in Nat, Has(m) PROVE Has(m + 1)
  <2>1. PICK f : f = [i \in 0 .. m |-> IF i = 0 THEN base ELSE Step(f[i - 1], i)]
    BY <1>2
  <2> DEFINE g == [i \in 0 .. m + 1 |-> IF i = m + 1 THEN Step(f[m], m + 1) ELSE f[i]]
  <2>2. \A i \in 0 .. m : f[i] = IF i = 0 THEN base ELSE Step(f[i - 1], i)
    BY <2>1
  <2>3. (\A i \in 0 .. m : g[i] = f[i]) /\ g[m + 1] = Step(f[m], m + 1)
        /\ g = [i \in 0 .. m + 1 |-> g[i]]
    OBVIOUS
  <2> HIDE DEF g
  <2>4. ASSUME NEW i \in 0 .. m + 1
        PROVE  g[i] = IF i = 0 THEN base ELSE Step(g[i - 1], i)
    <3>1. CASE i = m + 1
      <4>1. i # 0 /\ i - 1 = m /\ m \in 0 .. m
        BY <3>1
      <4>. QED BY <2>3, <3>1, <4>1
    <3>2. CASE i # m + 1
      <4>1. i \in 0 .. m /\ (i # 0 => i - 1 \in 0 .. m)
        BY <3>2
      <4>. QED BY <2>2, <2>3, <4>1
    <3>. QED BY <3>1, <3>2
  <2>. QED BY <2>3, <2>4
<1> HIDE DEF Has
<1>3. 0 \in S /\ \A i \in 0 .. n : i \in S /\ i < n => i + 1 \in S
  BY <1>1, <1>2
<1> HIDE DEF S
<1>4. \A i \in 0 .. n : i \in S
  BY <1>3, Upwards
<1>5. Has(n)
  BY <1>4 DEF S
<1>. QED BY <1>5 DEF Has, IsCount, base, Step

Counted(n) ==
  /\ n = [count |-> n.count, hasContent |-> n.hasContent, inString |-> n.inString,
          inBracket |-> n.inBracket]
  /\ n.count \in Nat

\* Content outside brackets and strings keeps the count a number.
LEMMA ContentFacts ==
  ASSUME NEW n, Counted(n), NEW q, NEW d
  PROVE  Counted(Content(n, q, d))
<1>1. PICK a : a = n.count
  OBVIOUS
<1>2. a \in Nat /\ Content(n, q, d) = [count |-> a, hasContent |-> TRUE, inString |-> q, inBracket |-> d]
  BY <1>1 DEF Counted, Content
<1>. QED BY <1>2 DEF Counted

\* One symbol more keeps the count a number.
LEMMA CountStep ==
  ASSUME NEW n, Counted(n), NEW c
  PROVE  Counted(CountSymbol(n, c))
<1>1. Counted([n EXCEPT !.count = @ + 1])
  <2>1. PICK a, b, d, e : n = [count |-> a, hasContent |-> b, inString |-> d, inBracket |-> e]
    BY DEF Counted
  <2>2. a \in Nat
    BY <2>1 DEF Counted
  <2>3. [n EXCEPT !.count = @ + 1]
          = [count |-> a + 1, hasContent |-> b, inString |-> d, inBracket |-> e]
    BY <2>1
  <2>. QED BY <2>2, <2>3 DEF Counted
<1>2. \A q, d : Counted(Content(n, q, d))
  BY ContentFacts
<1>3. Counted(Content(n, ~n.inString, n.inBracket))
  BY <1>2, Zenon
<1>. QED BY <1>1, <1>2, <1>3, Zenon DEF CountSymbol

\* count_values gives back a number.
LEMMA CountFacts ==
  ASSUME NEW T, NEW s \in Seq(T)
  PROVE  CountValues(s) \in Nat
<1> DEFINE n == Len(s)
           h == CHOOSE f : IsCount(f, s, n)
           S == {i \in 0 .. n : Counted(h[i])}
<1>0. n \in Nat
  OBVIOUS
<1>1. IsCount(h, s, n)
  BY CountFunction
<1>2. CountValues(s) = IF h[n].hasContent THEN h[n].count + 1 ELSE h[n].count
  BY DEF CountValues, IsCount
<1> HIDE DEF h
<1>3. h[0] = [count |-> 0, hasContent |-> FALSE, inString |-> FALSE, inBracket |-> 0]
      /\ \A i \in 0 .. n : i # 0 => h[i] = CountSymbol(h[i - 1], s[i])
  <2> HIDE DEF n
  <2>1. \A i \in 0 .. n : h[i] = IF i = 0
                                   THEN [count |-> 0, hasContent |-> FALSE, inString |-> FALSE, inBracket |-> 0]
                                   ELSE CountSymbol(h[i - 1], s[i])
    BY <1>1 DEF IsCount
  <2>2. 0 \in 0 .. n
    BY <1>0
  <2>. QED BY <2>1, <2>2
<1>4. 0 \in S
  BY <1>0, <1>3 DEF Counted
<1>5. ASSUME NEW i \in 0 .. n, i \in S, i < n PROVE i + 1 \in S
  <2>1. i + 1 \in 0 .. n /\ i + 1 # 0 /\ (i + 1) - 1 = i
    BY <1>0, <1>5
  <2>2. h[i + 1] = CountSymbol(h[i], s[i + 1])
    BY <1>3, <2>1
  <2>3. Counted(h[i])
    BY <1>5
  <2>. QED BY <2>1, <2>2, <2>3, CountStep
<1> HIDE DEF S
<1>6. \A i \in 0 .. n : i \in S
  BY <1>0, <1>4, <1>5, Upwards
<1>7. h[n].count \in Nat
  <2>1. n \in S
    BY <1>0, <1>6
  <2>. QED BY <2>1 DEF S, Counted
<1>. QED BY <1>2, <1>7

\* The function that ParseValues defines, up to slot n.
IsSlots(after, s, update, n) ==
  after = [i \in 0 .. n |-> IF i = 0 THEN [rc |-> 0, at |-> 1, vals |-> <<>>, more |-> TRUE] ELSE FillSlot(s, update, after[i - 1])]

\* It exists for every length.
LEMMA SlotsFunction ==
  ASSUME NEW s, NEW update, NEW n \in Nat
  PROVE  \E after : IsSlots(after, s, update, n)
<1> DEFINE base == [rc |-> 0, at |-> 1, vals |-> <<>>, more |-> TRUE]
           Step(x, i) == FillSlot(s, update, x)
           Has(m) == \E f : f = [i \in 0 .. m |-> IF i = 0 THEN base ELSE Step(f[i - 1], i)]
           S == {m \in Nat : Has(m)}
<1> HIDE DEF base, Step
<1>1. Has(0)
  <2> DEFINE f == [i \in 0 .. 0 |-> base]
  <2>1. f = [i \in 0 .. 0 |-> IF i = 0 THEN base ELSE Step(f[i - 1], i)]
    OBVIOUS
  <2>. QED BY <2>1
<1>2. ASSUME NEW m \in Nat, Has(m) PROVE Has(m + 1)
  <2>1. PICK f : f = [i \in 0 .. m |-> IF i = 0 THEN base ELSE Step(f[i - 1], i)]
    BY <1>2
  <2> DEFINE g == [i \in 0 .. m + 1 |-> IF i = m + 1 THEN Step(f[m], m + 1) ELSE f[i]]
  <2>2. \A i \in 0 .. m : f[i] = IF i = 0 THEN base ELSE Step(f[i - 1], i)
    BY <2>1
  <2>3. (\A i \in 0 .. m : g[i] = f[i]) /\ g[m + 1] = Step(f[m], m + 1)
        /\ g = [i \in 0 .. m + 1 |-> g[i]]
    OBVIOUS
  <2> HIDE DEF g
  <2>4. ASSUME NEW i \in 0 .. m + 1
        PROVE  g[i] = IF i = 0 THEN base ELSE Step(g[i - 1], i)
    <3>1. CASE i = m + 1
      <4>1. i # 0 /\ i - 1 = m /\ m \in 0 .. m
        BY <3>1
      <4>. QED BY <2>3, <3>1, <4>1
    <3>2. CASE i # m + 1
      <4>1. i \in 0 .. m /\ (i # 0 => i - 1 \in 0 .. m)
        BY <3>2
      <4>. QED BY <2>2, <2>3, <4>1
    <3>. QED BY <3>1, <3>2
  <2>. QED BY <2>3, <2>4
<1> HIDE DEF Has
<1>3. 0 \in S /\ \A i \in 0 .. n : i \in S /\ i < n => i + 1 \in S
  BY <1>1, <1>2
<1> HIDE DEF S
<1>4. \A i \in 0 .. n : i \in S
  BY <1>3, Upwards
<1>5. Has(n)
  BY <1>4 DEF S
<1>. QED BY <1>5 DEF Has, IsSlots, base, Step

\* The values a command may hold.
Within(s) == {x \in Val(Symbols(s)) : ValueWithinLimits(x)}

\* A field that is left out is within the limits.
LEMMA NullWithin ==
  ASSUME NEW s
  PROVE  NullString \in Within(s)
<1>1. PICK type, v, symbols : type = "NULL" /\ v = <<>> /\ symbols = Symbols(s)
  OBVIOUS
<1>2. type \in Types /\ type \notin Scalars
      /\ type \notin {"string", "int[]", "double[]", "bool[]", "string[]"}
  BY <1>1 DEF Types, Scalars
<1>3. v \in Seq(Seq(symbols))
  <2>1. <<>> \in Seq(Seq(symbols))
    OBVIOUS
  <2>. QED BY <1>1, <2>1
<1>4. [type |-> type, v |-> v] \in Val(symbols)
  BY <1>2, <1>3, ValFacts
<1>5. ValueWithinLimits([type |-> type, v |-> v])
  BY <1>2, LimitFacts
<1>. QED BY <1>1, <1>4, <1>5 DEF Within, NullString

\* After k slots: as many values, and a place to go on from.
GoodSlots(s, k, st) ==
  /\ st = [rc |-> st.rc, at |-> st.at, vals |-> st.vals, more |-> st.more]
  /\ st.vals \in Seq(Within(s)) /\ st.more \in BOOLEAN
  /\ st.rc = 0 => Len(st.vals) = k
  /\ st.rc = 0 /\ st.more = TRUE => st.at \in 1 .. Len(s) + 1

\* The parts of a good state of the loop over the values.
LEMMA GoodSlotsFacts ==
  ASSUME NEW s, NEW k, NEW rc, NEW at, NEW vals \in Seq(Within(s)), NEW more \in BOOLEAN,
         rc = 0 => Len(vals) = k, rc = 0 /\ more = TRUE => at \in 1 .. Len(s) + 1
  PROVE  GoodSlots(s, k, [rc |-> rc, at |-> at, vals |-> vals, more |-> more])
<1>1. PICK x : x = [rc |-> rc, at |-> at, vals |-> vals, more |-> more]
  OBVIOUS
<1>2. x.rc = rc /\ x.at = at /\ x.vals = vals /\ x.more = more
  BY <1>1
<1>3. GoodSlots(s, k, x)
  BY <1>1, <1>2 DEF GoodSlots
<1>. QED BY <1>1, <1>3

\* One slot more.
LEMMA SlotStep ==
  ASSUME NEW T, NEW s \in Seq(T), NEW update, NEW k \in Nat, NEW st, GoodSlots(s, k, st)
  PROVE  GoodSlots(s, k + 1, FillSlot(s, update, st))
<1>1. PICK rc, at, vals, more : st = [rc |-> rc, at |-> at, vals |-> vals, more |-> more]
  BY DEF GoodSlots
<1>2. st.rc = rc /\ st.at = at /\ st.vals = vals /\ st.more = more
  BY <1>1
<1>3. /\ vals \in Seq(Within(s)) /\ more \in BOOLEAN
      /\ rc = 0 => Len(vals) = k
      /\ rc = 0 /\ more = TRUE => at \in 1 .. Len(s) + 1
  BY <1>2 DEF GoodSlots
<1>4. ASSUME NEW y \in Within(s)
      PROVE  Append(vals, y) \in Seq(Within(s)) /\ (rc = 0 => Len(Append(vals, y)) = k + 1)
  <2>1. PICK W : W = Within(s)
    OBVIOUS
  <2>2. vals \in Seq(W) /\ y \in W
    BY <1>3, <1>4, <2>1
  <2>3. Append(vals, y) \in Seq(W) /\ Len(Append(vals, y)) = Len(vals) + 1
    BY <2>2
  <2>. QED BY <1>3, <2>1, <2>3
<1>5. PICK one : one = IF update THEN parse_update_value(s, st.at) ELSE parse_single_value(s, st.at)
  OBVIOUS
<1>6. PICK p : p = skip_whitespace(s, one.next)
  OBVIOUS
<1>7. FillSlot(s, update, st) =
        IF st.rc # 0 THEN st
        ELSE IF ~st.more THEN [st EXCEPT !.vals = Append(@, NullString)]
        ELSE IF one.rc # 0 THEN [st EXCEPT !.rc = one.rc]
        ELSE IF At(s, p) \notin {",", END} THEN [st EXCEPT !.rc = -7]
        ELSE [rc |-> 0, at |-> p + 1, vals |-> Append(st.vals, one.val), more |-> At(s, p) = ","]
  BY <1>5, <1>6, Zenon DEF FillSlot, FilledSlot
<1>8. CASE rc # 0
  <2>1. FillSlot(s, update, st) = [rc |-> rc, at |-> at, vals |-> vals, more |-> more]
    BY <1>1, <1>2, <1>7, <1>8
  <2>. QED BY <1>3, <1>8, <2>1, GoodSlotsFacts
<1>9. CASE rc = 0 /\ ~more
  <2>1. PICK w : w = Append(vals, NullString)
    OBVIOUS
  <2>2. [st EXCEPT !.vals = Append(@, NullString)] = [rc |-> rc, at |-> at, vals |-> w, more |-> more]
    <3>1. w = Append(st.vals, NullString)
      BY <1>2, <2>1
    <3>2. [st EXCEPT !.vals = Append(@, NullString)] = [st EXCEPT !.vals = w]
      BY <3>1, Zenon
    <3>3. [st EXCEPT !.vals = w] = [rc |-> rc, at |-> at, vals |-> w, more |-> more]
      BY <1>1
    <3>. QED BY <3>2, <3>3
  <2>3. FillSlot(s, update, st) = [rc |-> rc, at |-> at, vals |-> w, more |-> more]
    BY <1>2, <1>7, <1>9, <2>2
  <2>4. w \in Seq(Within(s)) /\ (rc = 0 => Len(w) = k + 1)
    BY <1>4, <2>1, NullWithin
  <2>. QED BY <1>3, <1>9, <2>3, <2>4, GoodSlotsFacts
<1>10. CASE rc = 0 /\ more
  <2>0. Len(s) \in Nat
    OBVIOUS
  <2>1. at \in 1 .. Len(s) + 1
    BY <1>3, <1>10
  <2>2. GoodValue(s, at, one)
    <3>1. GoodValue(s, at, parse_update_value(s, at)) /\ GoodValue(s, at, parse_single_value(s, at))
      BY <2>1, UpdateValueFacts, SingleValueFacts
    <3>. QED BY <1>2, <1>5, <3>1
  <2>3. CASE one.rc # 0
    <3>1. PICK r : r = one.rc /\ r # 0
      BY <2>3
    <3>2. [st EXCEPT !.rc = one.rc] = [rc |-> r, at |-> at, vals |-> vals, more |-> more]
      BY <1>1, <3>1
    <3>3. FillSlot(s, update, st) = [rc |-> r, at |-> at, vals |-> vals, more |-> more]
      BY <1>2, <1>7, <1>10, <2>3, <3>2
    <3>. QED BY <1>3, <3>1, <3>3, GoodSlotsFacts
  <2>4. CASE one.rc = 0 /\ At(s, p) \notin {",", END}
    <3>1. PICK r : r = -7 /\ r # 0
      OBVIOUS
    <3>2. [st EXCEPT !.rc = -7] = [rc |-> r, at |-> at, vals |-> vals, more |-> more]
      BY <1>1, <3>1
    <3>3. FillSlot(s, update, st) = [rc |-> r, at |-> at, vals |-> vals, more |-> more]
      BY <1>2, <1>7, <1>10, <2>4, <3>2
    <3>. QED BY <1>3, <3>1, <3>3, GoodSlotsFacts
  <2>5. CASE one.rc = 0 /\ At(s, p) \in {",", END}
    <3>1. PICK w, x, m, q : w = Append(vals, one.val) /\ x = one.val /\ m = (At(s, p) = ",") /\ q = p + 1
      OBVIOUS
    <3>2. FillSlot(s, update, st) = [rc |-> 0, at |-> q, vals |-> w, more |-> m]
      BY <1>2, <1>7, <1>10, <2>5, <3>1, Zenon
    <3>3. x \in Within(s)
      BY <2>2, <2>5, <3>1 DEF GoodValue, Within
    <3>4. w \in Seq(Within(s)) /\ Len(w) = k + 1
      BY <1>4, <1>10, <3>1, <3>3
    <3>5. m \in BOOLEAN
      BY <3>1
    <3>6. m = TRUE => q \in 1 .. Len(s) + 1
      <4>1. SUFFICES ASSUME At(s, p) = "," PROVE p + 1 \in 1 .. Len(s) + 1
        BY <3>1
      <4>2. p \in 1 .. Len(s)
        BY <4>1, AtFacts DEF END
      <4>. QED BY <2>0, <4>2
    <3>. QED BY <3>2, <3>4, <3>5, <3>6, GoodSlotsFacts
  <2>. QED BY <2>3, <2>4, <2>5
<1>. QED BY <1>3, <1>8, <1>9, <1>10

\* What tokenize_values and tokenize_update_values hand on: at least one
\* value, and each within the limits.
LEMMA ParseValuesFacts ==
  ASSUME NEW T, NEW s \in Seq(T), NEW count \in Nat, NEW update
  PROVE  LET x == ParseValues(s, count, update)
         IN  x.rc = 0 => x.vals # <<>> /\ \A k \in DOMAIN x.vals : ValueWithinLimits(x.vals[k])
<1> DEFINE h == CHOOSE f : IsSlots(f, s, update, count)
           S == {i \in 0 .. count : GoodSlots(s, i, h[i])}
<1>1. IsSlots(h, s, update, count)
  BY SlotsFunction
<1>2. ParseValues(s, count, update) = IF count = 0 THEN [rc |-> -2, vals |-> <<>>] ELSE h[count]
  BY DEF ParseValues, IsSlots
<1> HIDE DEF h
<1>3. h[0] = [rc |-> 0, at |-> 1, vals |-> <<>>, more |-> TRUE]
      /\ \A i \in 0 .. count : i # 0 => h[i] = FillSlot(s, update, h[i - 1])
  <2>1. \A i \in 0 .. count : h[i] = IF i = 0 THEN [rc |-> 0, at |-> 1, vals |-> <<>>, more |-> TRUE]
                                     ELSE FillSlot(s, update, h[i - 1])
    BY <1>1 DEF IsSlots
  <2>2. 0 \in 0 .. count
    OBVIOUS
  <2>. QED BY <2>1, <2>2
<1>4. 0 \in S
  <2>1. PICK vals, W : vals = <<>> /\ W = Within(s)
    OBVIOUS
  <2>2. vals \in Seq(W) /\ Len(vals) = 0
    BY <2>1
  <2>3. 1 \in 1 .. Len(s) + 1
    OBVIOUS
  <2>4. GoodSlots(s, 0, [rc |-> 0, at |-> 1, vals |-> vals, more |-> TRUE])
    BY <2>1, <2>2, <2>3, GoodSlotsFacts
  <2>. QED BY <1>3, <2>1, <2>4
<1>5. ASSUME NEW i \in 0 .. count, i \in S, i < count PROVE i + 1 \in S
  <2>1. i + 1 \in 0 .. count /\ i + 1 # 0 /\ (i + 1) - 1 = i /\ i \in Nat
    BY <1>5
  <2>2. h[i + 1] = FillSlot(s, update, h[i])
    BY <1>3, <2>1
  <2>3. GoodSlots(s, i, h[i])
    BY <1>5
  <2>4. GoodSlots(s, i + 1, FillSlot(s, update, h[i]))
    BY <2>1, <2>3, SlotStep
  <2>. QED BY <2>1, <2>2, <2>4
<1> HIDE DEF S
<1>6. \A i \in 0 .. count : i \in S
  BY <1>4, <1>5, Upwards
<1>7. GoodSlots(s, count, h[count])
  <2>1. count \in S
    BY <1>6
  <2>. QED BY <2>1 DEF S
<1>8. PICK rc, vals, W : rc = h[count].rc /\ vals = h[count].vals /\ W = Within(s)
  OBVIOUS
<1>9. vals \in Seq(W) /\ (rc = 0 => Len(vals) = count)
  BY <1>7, <1>8 DEF GoodSlots
<1>10. \A k \in DOMAIN vals : vals[k] \in W
  BY <1>9
<1>11. \A k \in DOMAIN vals : ValueWithinLimits(vals[k])
  BY <1>8, <1>10 DEF Within
<1>12. CASE count = 0
  BY <1>2, <1>12
<1>13. CASE count # 0
  <2>1. rc = 0 => vals # <<>>
    BY <1>9, <1>13
  <2>2. PICK x : x = h[count]
    OBVIOUS
  <2>3. x.rc = rc /\ x.vals = vals
    BY <1>8, <2>2
  <2>4. ParseValues(s, count, update) = x
    BY <1>2, <1>13, <2>2
  <2>. QED BY <1>11, <2>1, <2>3, <2>4
<1>. QED BY <1>12, <1>13

-----------------------------------------------------------------------------
(* The fields of CREATE and the names of a query *)

\* One field and the place behind it.
LEMMA SingleFieldFacts ==
  ASSUME NEW T, NEW s \in Seq(T), NEW i \in 1 .. Len(s) + 1
  PROVE  /\ parse_single_field(s, i).next \in i .. Len(s) + 1
         /\ parse_single_field(s, i).error = "" => is_valid_identifier(parse_single_field(s, i).field.name)
<1> DEFINE stops == Blanks \cup {",", ")"}
<1>0. Len(s) \in Nat /\ i \in Nat
  OBVIOUS
<1>1. PICK t : t = skip_whitespace(s, i)
  OBVIOUS
<1>2. PICK te : te = Find(s, t, stops)
  OBVIOUS
<1>3. PICK n : n = skip_whitespace(s, te)
  OBVIOUS
<1>4. PICK ne : ne = Find(s, n, stops)
  OBVIOUS
<1>5. PICK next : next = skip_whitespace(s, ne)
  OBVIOUS
<1> HIDE DEF stops
<1>6. next \in i .. Len(s) + 1
  <2>1. t \in i .. Len(s) + 1 /\ t \in 1 .. Len(s) + 1
    <3>1. t \in i .. Len(s) + 1
      BY <1>1, ScanFacts
    <3>. QED BY <1>0, <3>1
  <2>2. te \in i .. Len(s) + 1 /\ te \in 1 .. Len(s) + 1
    <3>1. te \in t .. Len(s) + 1
      BY <1>2, <2>1, ScanFacts
    <3>. QED BY <1>0, <2>1, <3>1
  <2>3. n \in i .. Len(s) + 1 /\ n \in 1 .. Len(s) + 1
    <3>1. n \in te .. Len(s) + 1
      BY <1>3, <2>2, ScanFacts
    <3>. QED BY <1>0, <2>2, <3>1
  <2>4. ne \in i .. Len(s) + 1 /\ ne \in 1 .. Len(s) + 1
    <3>1. ne \in n .. Len(s) + 1
      BY <1>4, <2>3, ScanFacts
    <3>. QED BY <1>0, <2>3, <3>1
  <2>5. next \in ne .. Len(s) + 1
    BY <1>5, <2>4, ScanFacts
  <2>. QED BY <1>0, <2>4, <2>5
<1>7. PICK type, name : type = SubSeq(s, t, te - 1) /\ name = SubSeq(s, n, ne - 1)
  OBVIOUS
<1>8. PICK error : error = IF type = <<>> THEN "ER_MISSING_ARGUMENT"
                           ELSE IF type \notin {<<f>> : f \in FieldTypes} THEN "ER_INVALID_DATA_TYPE"
                           ELSE IF name = <<>> THEN "ER_MISSING_ARGUMENT"
                           ELSE IF ~is_valid_identifier(name) THEN "ER_INVALID_IDENTIFIER" ELSE ""
  OBVIOUS
<1>9. parse_single_field(s, i) = [error |-> error, field |-> [type |-> type, name |-> name], next |-> next]
  BY <1>1, <1>2, <1>3, <1>4, <1>5, <1>7, <1>8, Zenon DEF parse_single_field, stops
<1>10. error = "" => is_valid_identifier(name)
  <2>1. "ER_MISSING_ARGUMENT" # "" /\ "ER_INVALID_DATA_TYPE" # "" /\ "ER_INVALID_IDENTIFIER" # ""
    OBVIOUS
  <2>. QED BY <1>8, <2>1, Zenon
<1>11. PICK field : field = [type |-> type, name |-> name]
  OBVIOUS
<1>12. field.name = name
  BY <1>11
<1>13. PICK x : x = [error |-> error, field |-> field, next |-> next]
  OBVIOUS
<1>14. x.error = error /\ x.field = field /\ x.next = next
  BY <1>13
<1>15. parse_single_field(s, i) = x
  BY <1>9, <1>11, <1>13
<1>. QED BY <1>6, <1>10, <1>12, <1>14, <1>15

\* The fields that the parser takes.
FieldsOf(s) ==
  {f \in {parse_single_field(s, j).field : j \in 1 .. Len(s) + 1} : is_valid_identifier(f.name)}

\* One position of tokenize_fields.
FieldsAt(s, from, i) ==
  LET one == parse_single_field(s, i)
  IN  IF one.error # "" THEN [error |-> one.error, fields |-> <<>>]
      ELSE IF At(s, one.next) = "," THEN [from[one.next + 1] EXCEPT !.fields = <<one.field>> \o @]
      ELSE IF At(s, one.next) = END THEN [error |-> "", fields |-> <<one.field>>]
      ELSE [error |-> "ER_SYNTAX_ERROR", fields |-> <<>>]

GoodFields(s, i, x) ==
  /\ x = [error |-> x.error, fields |-> x.fields]
  /\ x.fields \in Seq(FieldsOf(s))
  /\ x.error = "" => x.fields # <<>>

\* The parts of a good list of fields.
LEMMA GoodFieldsFacts ==
  ASSUME NEW s, NEW i, NEW error, NEW fields \in Seq(FieldsOf(s)), error = "" => fields # <<>>
  PROVE  GoodFields(s, i, [error |-> error, fields |-> fields])
<1>1. PICK x : x = [error |-> error, fields |-> fields]
  OBVIOUS
<1>2. x.error = error /\ x.fields = fields
  BY <1>1
<1>3. GoodFields(s, i, x)
  BY <1>1, <1>2 DEF GoodFields
<1>. QED BY <1>1, <1>3

\* The fields from i on depend on those behind i.
LEMMA FieldsStep ==
  ASSUME NEW T, NEW s \in Seq(T), NEW f, NEW g, NEW i \in 1 .. Len(s) + 1,
         \A j \in i + 1 .. Len(s) + 1 : f[j] = g[j] /\ GoodFields(s, j, f[j])
  PROVE  GoodFields(s, i, FieldsAt(s, f, i)) /\ FieldsAt(s, f, i) = FieldsAt(s, g, i)
<1>0. Len(s) \in Nat /\ i \in Nat
  OBVIOUS
<1>1. PICK one : one = parse_single_field(s, i)
  OBVIOUS
<1>2. PICK error, field, p : error = one.error /\ field = one.field /\ p = one.next
  OBVIOUS
<1>3. p \in i .. Len(s) + 1
  BY <1>1, <1>2, SingleFieldFacts
<1>4. error = "" => field \in FieldsOf(s)
  BY <1>1, <1>2, SingleFieldFacts DEF FieldsOf
<1>5. ASSUME NEW h
      PROVE  FieldsAt(s, h, i) = IF error # "" THEN [error |-> error, fields |-> <<>>]
                                 ELSE IF At(s, p) = "," THEN [h[p + 1] EXCEPT !.fields = <<field>> \o @]
                                 ELSE IF At(s, p) = END THEN [error |-> "", fields |-> <<field>>]
                                 ELSE [error |-> "ER_SYNTAX_ERROR", fields |-> <<>>]
  BY <1>1, <1>2, Zenon DEF FieldsAt
<1>6. PICK F : F = FieldsOf(s)
  OBVIOUS
<1>7. CASE error # ""
  <2>1. PICK none : none = <<>> /\ none \in Seq(F)
    <3>1. <<>> \in Seq(F)
      OBVIOUS
    <3>. QED BY <3>1, Zenon
  <2>2. FieldsAt(s, f, i) = [error |-> error, fields |-> none] /\ FieldsAt(s, g, i) = [error |-> error, fields |-> none]
    BY <1>5, <1>7, <2>1
  <2>3. GoodFields(s, i, [error |-> error, fields |-> none])
    BY <1>6, <1>7, <2>1, GoodFieldsFacts
  <2>. QED BY <2>2, <2>3
<1>8. CASE error = "" /\ At(s, p) = ","
  <2>1. p \in 1 .. Len(s)
    BY <1>8, AtFacts DEF END
  <2>2. p + 1 \in i + 1 .. Len(s) + 1
    BY <1>0, <1>3, <2>1
  <2>3. f[p + 1] = g[p + 1] /\ GoodFields(s, p + 1, f[p + 1])
    BY <2>2
  <2>4. PICK x : x = f[p + 1]
    OBVIOUS
  <2>5. PICK e, rest : x = [error |-> e, fields |-> rest]
    BY <2>3, <2>4 DEF GoodFields
  <2>6. rest \in Seq(F)
    <3>1. x.fields = rest
      BY <2>5
    <3>2. GoodFields(s, p + 1, x)
      BY <2>3, <2>4
    <3>3. x.fields \in Seq(FieldsOf(s))
      BY <3>2 DEF GoodFields
    <3>. QED BY <1>6, <3>1, <3>3
  <2>7. PICK all : all = <<field>> \o rest
    OBVIOUS
  <2>8. all \in Seq(F) /\ all # <<>>
    <3>1. field \in F
      BY <1>4, <1>6, <1>8
    <3>2. all \in Seq(F) /\ Len(all) = 1 + Len(rest) /\ Len(rest) \in Nat
      BY <2>6, <2>7, <3>1
    <3>3. all # <<>>
      BY <3>2
    <3>. QED BY <3>2, <3>3
  <2>9. [x EXCEPT !.fields = <<field>> \o @] = [error |-> e, fields |-> all]
    <3>1. all = <<field>> \o x.fields
      BY <2>5, <2>7
    <3>2. [x EXCEPT !.fields = <<field>> \o @] = [x EXCEPT !.fields = all]
      BY <3>1, Zenon
    <3>3. [x EXCEPT !.fields = all] = [error |-> e, fields |-> all]
      BY <2>5
    <3>. QED BY <3>2, <3>3
  <2>10. FieldsAt(s, f, i) = [error |-> e, fields |-> all] /\ FieldsAt(s, g, i) = [error |-> e, fields |-> all]
    BY <1>5, <1>8, <2>3, <2>4, <2>9
  <2>11. GoodFields(s, i, [error |-> e, fields |-> all])
    BY <1>6, <2>8, GoodFieldsFacts
  <2>. QED BY <2>10, <2>11
<1>9. CASE error = "" /\ At(s, p) # "," /\ At(s, p) = END
  <2>1. PICK one1 : one1 = <<field>> /\ one1 \in Seq(F) /\ one1 # <<>>
    <3>1. field \in F
      BY <1>4, <1>6, <1>9
    <3>2. <<field>> \in Seq(F) /\ <<field>> # <<>>
      BY <3>1
    <3>. QED BY <3>2, Zenon
  <2>2. FieldsAt(s, f, i) = [error |-> error, fields |-> one1] /\ FieldsAt(s, g, i) = [error |-> error, fields |-> one1]
    BY <1>5, <1>9, <2>1
  <2>3. GoodFields(s, i, [error |-> error, fields |-> one1])
    BY <1>6, <2>1, GoodFieldsFacts
  <2>. QED BY <2>2, <2>3
<1>10. CASE error = "" /\ At(s, p) # "," /\ At(s, p) # END
  <2>1. PICK none, e : none = <<>> /\ none \in Seq(F) /\ e = "ER_SYNTAX_ERROR" /\ e # ""
    <3>1. <<>> \in Seq(F)
      OBVIOUS
    <3>2. "ER_SYNTAX_ERROR" # ""
      OBVIOUS
    <3>. QED BY <3>1, <3>2, Zenon
  <2>2. FieldsAt(s, f, i) = [error |-> e, fields |-> none] /\ FieldsAt(s, g, i) = [error |-> e, fields |-> none]
    BY <1>5, <1>10, <2>1
  <2>3. GoodFields(s, i, [error |-> e, fields |-> none])
    BY <1>6, <2>1, GoodFieldsFacts
  <2>. QED BY <2>2, <2>3
<1>. QED BY <1>7, <1>8, <1>9, <1>10

\* The function that tokenize_fields defines exists, and its fields have names.
LEMMA FieldsFunction ==
  ASSUME NEW T, NEW s \in Seq(T)
  PROVE  \E f : f = [i \in 1 .. Len(s) + 1 |-> FieldsAt(s, f, i)]
<1> DEFINE N == Len(s) + 1
           Has(m) == \E f : /\ f = [i \in 1 .. N |-> f[i]]
                            /\ \A i \in 1 .. N : N - i < m => f[i] = FieldsAt(s, f, i)
                                                              /\ GoodFields(s, i, f[i])
           S == {m \in Nat : Has(m)}
<1>0. N \in Nat
  OBVIOUS
<1>1. Has(0)
  <2>1. PICK f : f = [i \in 1 .. N |-> 0]
    OBVIOUS
  <2>2. f = [i \in 1 .. N |-> f[i]]
    BY <2>1
  <2>3. \A i \in 1 .. N : ~(N - i < 0)
    BY <1>0
  <2>. QED BY <2>2, <2>3
<1>2. ASSUME NEW m \in Nat, Has(m) PROVE Has(m + 1)
  <2>1. PICK f : /\ f = [i \in 1 .. N |-> f[i]]
                 /\ \A i \in 1 .. N : N - i < m => f[i] = FieldsAt(s, f, i) /\ GoodFields(s, i, f[i])
    BY <1>2
  <2>2. PICK g : g = [i \in 1 .. N |-> FieldsAt(s, f, i)]
    OBVIOUS
  <2>3. ASSUME NEW i \in 1 .. N, N - i < m + 1
        PROVE  g[i] = FieldsAt(s, g, i) /\ GoodFields(s, i, g[i])
    <3>1. ASSUME NEW j \in i + 1 .. N PROVE f[j] = g[j] /\ GoodFields(s, j, f[j])
      <4>1. j \in 1 .. N /\ N - j < m
        BY <1>0, <2>3
      <4>. QED BY <2>1, <2>2, <4>1
    <3>2. GoodFields(s, i, FieldsAt(s, f, i)) /\ FieldsAt(s, f, i) = FieldsAt(s, g, i)
      BY <3>1, FieldsStep
    <3>. QED BY <2>2, <3>2
  <2>4. g = [i \in 1 .. N |-> g[i]]
    BY <2>2
  <2>. QED BY <2>3, <2>4
<1> HIDE DEF Has
<1>3. 0 \in S /\ \A i \in 0 .. N : i \in S /\ i < N => i + 1 \in S
  BY <1>1, <1>2
<1> HIDE DEF S
<1>4. N \in S
  <2>1. \A i \in 0 .. N : i \in S
    BY <1>0, <1>3, Upwards
  <2>. QED BY <1>0, <2>1
<1>5. PICK f : /\ f = [i \in 1 .. N |-> f[i]]
               /\ \A i \in 1 .. N : N - i < N => f[i] = FieldsAt(s, f, i)
  BY <1>4 DEF S, Has
<1>6. \A i \in 1 .. N : f[i] = FieldsAt(s, f, i)
  BY <1>0, <1>5
<1>7. f = [i \in 1 .. N |-> FieldsAt(s, f, i)]
  BY <1>5, <1>6
<1>. QED BY <1>7

\* The fields that CHOOSE finds are that function's.
LEMMA FieldsFacts ==
  ASSUME NEW T, NEW s \in Seq(T), NEW f, f = [i \in 1 .. Len(s) + 1 |-> FieldsAt(s, f, i)]
  PROVE  \A i \in 1 .. Len(s) + 1 : GoodFields(s, i, f[i])
<1> DEFINE N == Len(s) + 1
           S == {i \in 1 .. N : GoodFields(s, i, f[i])}
<1>0. N \in Nat
  OBVIOUS
<1>1. ASSUME NEW i \in 1 .. N, \A j \in i + 1 .. N : j \in S PROVE i \in S
  <2>1. \A j \in i + 1 .. N : f[j] = f[j] /\ GoodFields(s, j, f[j])
    BY <1>1
  <2>2. GoodFields(s, i, FieldsAt(s, f, i))
    BY <2>1, FieldsStep
  <2>. QED BY <2>2
<1> HIDE DEF S
<1>2. \A i \in 1 .. N : i \in S
  BY <1>0, <1>1, Downwards
<1>. QED BY <1>2 DEF S

\* What tokenize_fields hands on: at least one field, and each has a name.
LEMMA TokenizeFieldsFacts ==
  ASSUME NEW T, NEW s \in Seq(T)
  PROVE  /\ tokenize_fields(s).fields \in Seq(FieldsOf(s))
         /\ tokenize_fields(s).error = "" => tokenize_fields(s).fields # <<>>
<1> DEFINE h == CHOOSE f : f = [i \in 1 .. Len(s) + 1 |-> FieldsAt(s, f, i)]
<1>1. h = [i \in 1 .. Len(s) + 1 |-> FieldsAt(s, h, i)]
  BY FieldsFunction
<1>2. tokenize_fields(s) = h[1]
  BY DEF tokenize_fields, FieldsAt
<1> HIDE DEF h
<1>3. GoodFields(s, 1, h[1])
  <2>1. \A i \in 1 .. Len(s) + 1 : GoodFields(s, i, h[i])
    BY <1>1, FieldsFacts
  <2>2. 1 \in 1 .. Len(s) + 1
    OBVIOUS
  <2>. QED BY <2>1, <2>2
<1>. QED BY <1>2, <1>3 DEF GoodFields

\* The function that FieldNames defines, up to name n.
IsNames(after, s, n) ==
  after = [i \in 0 .. n |-> IF i = 0 THEN [error |-> "", at |-> 1, names |-> <<>>] ELSE TakeName(s, after[i - 1])]

\* It exists for every length.
LEMMA NamesFunction ==
  ASSUME NEW s, NEW n \in Nat
  PROVE  \E after : IsNames(after, s, n)
<1> DEFINE base == [error |-> "", at |-> 1, names |-> <<>>]
           Step(x, i) == TakeName(s, x)
           Has(m) == \E f : f = [i \in 0 .. m |-> IF i = 0 THEN base ELSE Step(f[i - 1], i)]
           S == {m \in Nat : Has(m)}
<1> HIDE DEF base, Step
<1>1. Has(0)
  <2> DEFINE f == [i \in 0 .. 0 |-> base]
  <2>1. f = [i \in 0 .. 0 |-> IF i = 0 THEN base ELSE Step(f[i - 1], i)]
    OBVIOUS
  <2>. QED BY <2>1
<1>2. ASSUME NEW m \in Nat, Has(m) PROVE Has(m + 1)
  <2>1. PICK f : f = [i \in 0 .. m |-> IF i = 0 THEN base ELSE Step(f[i - 1], i)]
    BY <1>2
  <2> DEFINE g == [i \in 0 .. m + 1 |-> IF i = m + 1 THEN Step(f[m], m + 1) ELSE f[i]]
  <2>2. \A i \in 0 .. m : f[i] = IF i = 0 THEN base ELSE Step(f[i - 1], i)
    BY <2>1
  <2>3. (\A i \in 0 .. m : g[i] = f[i]) /\ g[m + 1] = Step(f[m], m + 1)
        /\ g = [i \in 0 .. m + 1 |-> g[i]]
    OBVIOUS
  <2> HIDE DEF g
  <2>4. ASSUME NEW i \in 0 .. m + 1
        PROVE  g[i] = IF i = 0 THEN base ELSE Step(g[i - 1], i)
    <3>1. CASE i = m + 1
      <4>1. i # 0 /\ i - 1 = m /\ m \in 0 .. m
        BY <3>1
      <4>. QED BY <2>3, <3>1, <4>1
    <3>2. CASE i # m + 1
      <4>1. i \in 0 .. m /\ (i # 0 => i - 1 \in 0 .. m)
        BY <3>2
      <4>. QED BY <2>2, <2>3, <4>1
    <3>. QED BY <3>1, <3>2
  <2>. QED BY <2>3, <2>4
<1> HIDE DEF Has
<1>3. 0 \in S /\ \A i \in 0 .. n : i \in S /\ i < n => i + 1 \in S
  BY <1>1, <1>2
<1> HIDE DEF S
<1>4. \A i \in 0 .. n : i \in S
  BY <1>3, Upwards
<1>5. Has(n)
  BY <1>4 DEF S
<1>. QED BY <1>5 DEF Has, IsNames, base, Step

\* A piece of a line is a line.
LEMMA SubSeqFacts ==
  ASSUME NEW T, NEW s \in Seq(T), NEW a \in Nat \ {0}, NEW b \in Int, b <= Len(s)
  PROVE  SubSeq(s, a, b) \in Seq(T)
<1>1. a \in Int /\ \A i \in a .. b : s[i] \in T
  OBVIOUS
<1>. QED BY <1>1, SubSeqProperties

\* The names that the parser takes.
NamesOf(s) == {w \in Seq({s[k] : k \in DOMAIN s}) : is_valid_identifier(w)}

GoodNames(s, st) ==
  /\ st = [error |-> st.error, at |-> st.at, names |-> st.names]
  /\ st.names \in Seq(NamesOf(s)) /\ st.at \in 1 .. Len(s) + 1

\* The parts of a good state of the loop over the names.
LEMMA GoodNamesFacts ==
  ASSUME NEW s, NEW error, NEW names \in Seq(NamesOf(s)), NEW at \in 1 .. Len(s) + 1
  PROVE  GoodNames(s, [error |-> error, at |-> at, names |-> names])
<1>1. PICK x : x = [error |-> error, at |-> at, names |-> names]
  OBVIOUS
<1>2. x.error = error /\ x.at = at /\ x.names = names
  BY <1>1
<1>3. GoodNames(s, x)
  BY <1>1, <1>2 DEF GoodNames
<1>. QED BY <1>1, <1>3

\* One name more.
LEMMA NameStep ==
  ASSUME NEW T, NEW s \in Seq(T), NEW st, GoodNames(s, st)
  PROVE  GoodNames(s, TakeName(s, st))
<1>0. Len(s) \in Nat
  OBVIOUS
<1>1. PICK error, at, names : st = [error |-> error, at |-> at, names |-> names]
  BY DEF GoodNames
<1>2. st.error = error /\ st.at = at /\ st.names = names
  BY <1>1
<1>3. names \in Seq(NamesOf(s)) /\ at \in 1 .. Len(s) + 1
  BY <1>2 DEF GoodNames
<1>4. PICK start : start = skip_whitespace(s, at)
  OBVIOUS
<1>5. PICK end : end = Find(s, start, Blanks \cup {","})
  OBVIOUS
<1>6. PICK name : name = SubSeq(s, start, end - 1)
  OBVIOUS
<1>7. PICK p : p = skip_whitespace(s, end)
  OBVIOUS
<1>8. start \in 1 .. Len(s) + 1 /\ end \in 1 .. Len(s) + 1 /\ p \in 1 .. Len(s) + 1
  <2>1. start \in at .. Len(s) + 1
    BY <1>3, <1>4, ScanFacts
  <2>2. start \in 1 .. Len(s) + 1
    BY <1>0, <1>3, <2>1
  <2>3. end \in start .. Len(s) + 1
    BY <1>5, <2>2, ScanFacts
  <2>4. end \in 1 .. Len(s) + 1
    BY <1>0, <2>2, <2>3
  <2>5. p \in end .. Len(s) + 1
    BY <1>7, <2>4, ScanFacts
  <2>. QED BY <1>0, <2>2, <2>4, <2>5
<1>9. TakeName(s, st) =
        IF error # "" THEN st
        ELSE IF name = <<>> THEN [st EXCEPT !.error = "ER_MISSING_ARGUMENT"]
        ELSE IF ~is_valid_identifier(name) THEN [st EXCEPT !.error = "ER_INVALID_IDENTIFIER"]
        ELSE [error |-> "", at |-> IF At(s, p) = "," THEN p + 1 ELSE p, names |-> Append(names, name)]
  BY <1>2, <1>4, <1>5, <1>6, <1>7, Zenon DEF TakeName
<1>10. ASSUME NEW e PROVE GoodNames(s, [st EXCEPT !.error = e])
  <2>1. [st EXCEPT !.error = e] = [error |-> e, at |-> at, names |-> names]
    BY <1>1
  <2>2. PICK y : y = [error |-> e, at |-> at, names |-> names]
    OBVIOUS
  <2>3. GoodNames(s, y)
    BY <1>3, <2>2, GoodNamesFacts
  <2>. QED BY <2>1, <2>2, <2>3
<1>11. ASSUME is_valid_identifier(name)
       PROVE  GoodNames(s, [error |-> "", at |-> IF At(s, p) = "," THEN p + 1 ELSE p,
                            names |-> Append(names, name)])
  <2>1. PICK e, q, W : e = "" /\ W = NamesOf(s) /\ q = IF At(s, p) = "," THEN p + 1 ELSE p
    OBVIOUS
  <2>2. q \in 1 .. Len(s) + 1
    <3>1. At(s, p) = "," => p \in 1 .. Len(s)
      BY AtFacts DEF END
    <3>2. CASE At(s, p) = ","
      <4>1. q = p + 1 /\ p \in 1 .. Len(s)
        BY <2>1, <3>1, <3>2
      <4>. QED BY <1>0, <4>1
    <3>3. CASE At(s, p) # ","
      <4>1. q = p
        BY <2>1, <3>3
      <4>. QED BY <1>8, <4>1
    <3>. QED BY <3>2, <3>3
  <2>3. name \in W
    <3>1. PICK b, U : b = end - 1 /\ U = {s[k] : k \in DOMAIN s}
      OBVIOUS
    <3>2. b \in Int /\ b <= Len(s) /\ start \in Nat \ {0}
      BY <1>0, <1>8, <3>1
    <3>3. s \in Seq(U)
      BY <3>1
    <3>4. name \in Seq(U)
      BY <1>6, <3>1, <3>2, <3>3, SubSeqFacts
    <3>. QED BY <1>11, <2>1, <3>1, <3>4, Zenon DEF NamesOf
  <2>4. PICK all : all = Append(names, name)
    OBVIOUS
  <2>5. all \in Seq(W)
    <3>1. names \in Seq(W)
      BY <1>3, <2>1, Zenon
    <3>. QED BY <2>3, <2>4, <3>1
  <2>6. GoodNames(s, [error |-> e, at |-> q, names |-> all])
    BY <2>1, <2>2, <2>5, GoodNamesFacts
  <2>. QED BY <2>1, <2>4, <2>6
<1>. QED BY <1>9, <1>10, <1>11

\* Each of the names that a query's parentheses give is one.
LEMMA FieldNamesFacts ==
  ASSUME NEW T, NEW s \in Seq(T)
  PROVE  LET names == FieldNames(s).names
         IN  \A k \in DOMAIN names : is_valid_identifier(names[k])
<1> DEFINE commas == {k \in DOMAIN s : s[k] = ","}
           count == 1 + Cardinality(commas)
           h == CHOOSE f : IsNames(f, s, count)
           S == {i \in 0 .. count : GoodNames(s, h[i])}
<1>0. count \in Nat
  <2>1. IsFiniteSet(DOMAIN s)
    <3>1. DOMAIN s = 1 .. Len(s) /\ Len(s) \in Nat
      OBVIOUS
    <3>. QED BY <3>1, FS_Interval
  <2>2. IsFiniteSet(commas)
    BY <2>1, FS_Subset
  <2>3. Cardinality(commas) \in Nat
    BY <2>2, FS_CardinalityType
  <2>4. \A c \in Nat : 1 + c \in Nat
    OBVIOUS
  <2>. QED BY <2>3, <2>4, Zenon
<1>1. IsNames(h, s, count)
  BY <1>0, NamesFunction
<1>2. FieldNames(s) = IF skip_whitespace(s, 1) > Len(s) THEN [error |-> "", names |-> <<>>]
                      ELSE [error |-> h[count].error, names |-> h[count].names]
  BY DEF FieldNames, IsNames
<1> HIDE DEF h, count
<1>3. h[0] = [error |-> "", at |-> 1, names |-> <<>>]
      /\ \A i \in 0 .. count : i # 0 => h[i] = TakeName(s, h[i - 1])
  <2>1. \A i \in 0 .. count : h[i] = IF i = 0 THEN [error |-> "", at |-> 1, names |-> <<>>]
                                     ELSE TakeName(s, h[i - 1])
    BY <1>1 DEF IsNames
  <2>2. 0 \in 0 .. count
    BY <1>0
  <2>. QED BY <2>1, <2>2
<1>4. 0 \in S
  <2>1. PICK names, e, W : names = <<>> /\ e = "" /\ W = NamesOf(s)
    OBVIOUS
  <2>2. names \in Seq(W) /\ 1 \in 1 .. Len(s) + 1
    <3>1. <<>> \in Seq(W) /\ 1 \in 1 .. Len(s) + 1
      OBVIOUS
    <3>. QED BY <2>1, <3>1, Zenon
  <2>3. GoodNames(s, [error |-> e, at |-> 1, names |-> names])
    BY <2>1, <2>2, GoodNamesFacts
  <2>4. GoodNames(s, h[0])
    BY <1>3, <2>1, <2>3, Zenon
  <2>. QED BY <1>0, <2>4
<1>5. ASSUME NEW i \in 0 .. count, i \in S, i < count PROVE i + 1 \in S
  <2>1. i + 1 \in 0 .. count /\ i + 1 # 0 /\ (i + 1) - 1 = i
    BY <1>0, <1>5
  <2>2. h[i + 1] = TakeName(s, h[i])
    BY <1>3, <2>1
  <2>3. GoodNames(s, h[i])
    BY <1>5
  <2>. QED BY <2>1, <2>2, <2>3, NameStep
<1> HIDE DEF S
<1>6. \A i \in 0 .. count : i \in S
  BY <1>0, <1>4, <1>5, Upwards
<1>7. GoodNames(s, h[count])
  <2>1. count \in S
    BY <1>0, <1>6
  <2>. QED BY <2>1 DEF S
<1>8. PICK names, W : names = h[count].names /\ W = NamesOf(s)
  OBVIOUS
<1>9. names \in Seq(W)
  BY <1>7, <1>8 DEF GoodNames
<1>10. \A k \in DOMAIN names : names[k] \in W
  BY <1>9
<1>11. \A k \in DOMAIN names : is_valid_identifier(names[k])
  BY <1>8, <1>10 DEF NamesOf
<1>12. CASE skip_whitespace(s, 1) > Len(s)
  <2>1. PICK e, none : e = "" /\ none = <<>>
    OBVIOUS
  <2>2. FieldNames(s) = [error |-> e, names |-> none]
    BY <1>2, <1>12, <2>1, Zenon
  <2>3. FieldNames(s).names = none
    BY <2>2
  <2>4. \A k \in DOMAIN none : FALSE
    <3>1. \A k \in DOMAIN <<>> : FALSE
      OBVIOUS
    <3>. QED BY <2>1, <3>1, Zenon
  <2>. QED BY <2>3, <2>4, Zenon
<1>13. CASE ~(skip_whitespace(s, 1) > Len(s))
  <2>1. PICK e : e = h[count].error
    OBVIOUS
  <2>2. FieldNames(s) = [error |-> e, names |-> names]
    BY <1>2, <1>8, <1>13, <2>1
  <2>3. FieldNames(s).names = names
    BY <2>2
  <2>. QED BY <1>11, <2>3
<1>. QED BY <1>12, <1>13

-----------------------------------------------------------------------------
(* The checks of a handler *)

\* No check failed.
Passed(checks) == \A k \in DOMAIN checks : ~checks[k][1]

IsSeq(checks) == \E S : checks \in Seq(S)

\* When two lists of checks pass one after the other, both pass.
LEMMA ChecksConcat ==
  ASSUME NEW a, NEW b, IsSeq(a), IsSeq(b)
  PROVE  IsSeq(a \o b) /\ (Passed(a \o b) => Passed(a) /\ Passed(b))
<1>1. PICK R : a \in Seq(R)
  BY DEF IsSeq
<1>2. PICK Q : b \in Seq(Q)
  BY DEF IsSeq
<1>3. PICK S : S = R \cup Q
  OBVIOUS
<1>4. a \in Seq(S) /\ b \in Seq(S)
  BY <1>1, <1>2, <1>3
<1>5. PICK c : c = a \o b
  OBVIOUS
<1>6. /\ c \in Seq(S) /\ Len(c) = Len(a) + Len(b) /\ Len(a) \in Nat /\ Len(b) \in Nat
      /\ \A i \in 1 .. Len(a) : c[i] = a[i]
      /\ \A i \in 1 .. Len(b) : c[Len(a) + i] = b[i]
  BY <1>4, <1>5
<1>7. ASSUME Passed(c) PROVE Passed(a) /\ Passed(b)
  <2>1. \A k \in DOMAIN c : ~c[k][1]
    BY <1>7 DEF Passed
  <2>2. ASSUME NEW k \in DOMAIN a PROVE ~a[k][1]
    <3>1. k \in 1 .. Len(a) /\ k \in DOMAIN c
      BY <1>4, <1>6
    <3>. QED BY <1>6, <2>1, <3>1
  <2>3. ASSUME NEW k \in DOMAIN b PROVE ~b[k][1]
    <3>1. k \in 1 .. Len(b) /\ Len(a) + k \in DOMAIN c
      BY <1>4, <1>6
    <3>. QED BY <1>6, <2>1, <3>1
  <2>. QED BY <2>2, <2>3 DEF Passed
<1>8. IsSeq(c)
  BY <1>6 DEF IsSeq
<1>. QED BY <1>5, <1>7, <1>8

\* When a list of checks passes, none of its conditions holds.
LEMMA ChecksList ==
  ASSUME NEW p, NEW q, NEW r
  PROVE  /\ IsSeq(<<p>>) /\ (Passed(<<p>>) => ~p[1])
         /\ IsSeq(<<p, q>>) /\ (Passed(<<p, q>>) => ~p[1] /\ ~q[1])
         /\ IsSeq(<<p, q, r>>) /\ (Passed(<<p, q, r>>) => ~p[1] /\ ~q[1] /\ ~r[1])
<1>1. <<p>> \in Seq({p}) /\ <<p, q>> \in Seq({p, q}) /\ <<p, q, r>> \in Seq({p, q, r})
  OBVIOUS
<1>2. IsSeq(<<p>>) /\ IsSeq(<<p, q>>) /\ IsSeq(<<p, q, r>>)
  BY <1>1 DEF IsSeq
<1>3. Passed(<<p>>) => ~p[1]
  <2>1. 1 \in DOMAIN <<p>> /\ <<p>>[1] = p
    OBVIOUS
  <2>. QED BY <2>1, Zenon DEF Passed
<1>4. Passed(<<p, q>>) => ~p[1] /\ ~q[1]
  <2>1. {1, 2} \subseteq DOMAIN <<p, q>> /\ <<p, q>>[1] = p /\ <<p, q>>[2] = q
    OBVIOUS
  <2>2. 1 \in DOMAIN <<p, q>> /\ 2 \in DOMAIN <<p, q>>
    BY <2>1
  <2>. QED BY <2>1, <2>2, Zenon DEF Passed
<1>5. Passed(<<p, q, r>>) => ~p[1] /\ ~q[1] /\ ~r[1]
  <2>1. <<p, q, r>>[1] = p /\ <<p, q, r>>[2] = q /\ <<p, q, r>>[3] = r
    OBVIOUS
  <2>2. 1 \in DOMAIN <<p, q, r>> /\ 2 \in DOMAIN <<p, q, r>> /\ 3 \in DOMAIN <<p, q, r>>
    OBVIOUS
  <2>. QED BY <2>1, <2>2, Zenon DEF Passed
<1>. QED BY <1>2, <1>3, <1>4, <1>5

\* The check of a condition.
LEMMA CheckFacts ==
  ASSUME NEW b, NEW e
  PROVE  <<b, e>>[1] = b
OBVIOUS

\* The checks of a command with a table name.
LEMMA DbChecksFacts ==
  ASSUME NEW db
  PROVE  IsSeq(DbChecks(db)) /\ (Passed(DbChecks(db)) => is_valid_identifier(db))
<1>1. PICK p, q : p = <<db = <<>>, "ER_MISSING_ARGUMENT">>
                  /\ q = <<~is_valid_identifier(db), "ER_INVALID_IDENTIFIER">>
  OBVIOUS
<1>2. DbChecks(db) = <<p, q>>
  BY <1>1, Zenon DEF DbChecks
<1>3. ~q[1] => is_valid_identifier(db)
  BY <1>1
<1>. QED BY <1>2, <1>3, ChecksList

\* The checks of a command with two words.
LEMMA TwoArgChecksFacts ==
  ASSUME NEW db, NEW second
  PROVE  IsSeq(TwoArgChecks(db, second)) /\ (Passed(TwoArgChecks(db, second)) => is_valid_identifier(db))
<1>1. PICK p, q : p = <<db = <<>> \/ second = <<>>, "ER_MISSING_ARGUMENT">>
                  /\ q = <<~is_valid_identifier(db), "ER_INVALID_IDENTIFIER">>
  OBVIOUS
<1>2. TwoArgChecks(db, second) = <<p, q>>
  BY <1>1, Zenon DEF TwoArgChecks
<1>3. ~q[1] => is_valid_identifier(db)
  BY <1>1
<1>. QED BY <1>2, <1>3, ChecksList

\* The checks of a command with parentheses.
LEMMA SplitChecksFacts ==
  ASSUME NEW part, NEW format
  PROVE  IsSeq(SplitChecks(part, format))
<1>1. PICK p, q : p = <<part.rc = -1, "ER_SYNTAX_ERROR">> /\ q = <<part.rc = -3, format>>
  OBVIOUS
<1>2. SplitChecks(part, format) = <<p, q>>
  BY <1>1, Zenon DEF SplitChecks
<1>. QED BY <1>2, ChecksList

\* A handler refuses the line, or all its checks passed.
Accepted(c) == c.op # "ERROR" => CommandWithinLimits(c)

\* A handler that returns a command has passed its checks.
LEMMA CheckedFacts ==
  ASSUME NEW checks, NEW c, Passed(checks) => CommandWithinLimits(c)
  PROVE  Accepted(Checked(checks, c))
<1>1. PICK failed : failed = {k \in DOMAIN checks : checks[k][1]}
  OBVIOUS
<1>2. CASE failed = {}
  <2>1. Passed(checks)
    BY <1>1, <1>2 DEF Passed
  <2>2. Checked(checks, c) = c
    BY <1>1, <1>2 DEF Checked
  <2>. QED BY <2>1, <2>2 DEF Accepted
<1>3. CASE failed # {}
  <2>1. PICK code : code = checks[Min(failed)][2]
    OBVIOUS
  <2>2. Checked(checks, c) = Err(code)
    BY <1>1, <1>3, <2>1 DEF Checked
  <2>3. Err(code).op = "ERROR"
    BY DEF Err
  <2>. QED BY <2>2, <2>3 DEF Accepted
<1>. QED BY <1>2, <1>3

-----------------------------------------------------------------------------
(* The pieces a handler cuts its line into *)

\* What the split at the parentheses gives back are lines.
LEMMA SplitFacts ==
  ASSUME NEW T, NEW s \in Seq(T)
  PROVE  split_at_paren(s).before \in Seq(T) /\ split_at_paren(s).inside \in Seq(T)
<1> DEFINE Outside(p, c) == s[p] = c /\ ~InString(s, Find(s, 1, {"("}), p)
           Depth(p) == 1 + Cardinality({q \in Find(s, 1, {"("}) + 1 .. p : Outside(q, "(")})
                         - Cardinality({q \in Find(s, 1, {"("}) + 1 .. p : Outside(q, ")")})
<1>0. Len(s) \in Nat
  OBVIOUS
<1>1. PICK open : open = Find(s, 1, {"("})
  OBVIOUS
<1>2. open \in 1 .. Len(s) + 1
  <2>1. 1 \in 1 .. Len(s) + 1
    BY <1>0
  <2>. QED BY <1>1, <2>1, ScanFacts
<1>3. PICK closes : closes = {p \in open + 1 .. Len(s) : Depth(p) = 0}
  OBVIOUS
<1>4. PICK none : none = <<>> /\ none \in Seq(T)
  <2>1. <<>> \in Seq(T)
    OBVIOUS
  <2>. QED BY <2>1, Zenon
<1>5. split_at_paren(s) =
        IF open > Len(s) THEN [rc |-> -3, before |-> none, inside |-> none]
        ELSE IF closes = {} THEN [rc |-> -1, before |-> none, inside |-> none]
        ELSE [rc |-> 0, before |-> SubSeq(s, 1, open - 1), inside |-> SubSeq(s, open + 1, Min(closes) - 1)]
  BY <1>1, <1>3, <1>4, Zenon DEF split_at_paren
<1>6. closes \subseteq open + 1 .. Len(s)
  BY <1>3
<1> HIDE DEF Depth, Outside
<1>7. ASSUME closes # {}
      PROVE  SubSeq(s, 1, open - 1) \in Seq(T) /\ SubSeq(s, open + 1, Min(closes) - 1) \in Seq(T)
  <2>1. closes \in SUBSET Nat
    BY <1>0, <1>2, <1>6
  <2>2. Min(closes) \in open + 1 .. Len(s)
    BY <1>6, <1>7, <2>1, MinFacts
  <2>3. PICK b, c, a : b = open - 1 /\ a = open + 1 /\ c = Min(closes) - 1
    OBVIOUS
  <2>4. b \in Int /\ b <= Len(s) /\ 1 \in Nat \ {0} /\ a \in Nat \ {0} /\ c \in Int /\ c <= Len(s)
    BY <1>0, <1>2, <2>2, <2>3
  <2>. QED BY <2>3, <2>4, SubSeqFacts
<1>8. PICK b, c : b = SubSeq(s, 1, open - 1) /\ c = SubSeq(s, open + 1, Min(closes) - 1)
  OBVIOUS
<1>. QED BY <1>4, <1>5, <1>7, <1>8

\* A word ends in the line.
LEMMA NextWordFacts ==
  ASSUME NEW T, NEW s \in Seq(T), NEW i \in 1 .. Len(s) + 1
  PROVE  NextWord(s, i).next \in 1 .. Len(s) + 1
<1>0. Len(s) \in Nat
  OBVIOUS
<1>1. PICK start : start = skip_whitespace(s, i)
  OBVIOUS
<1>2. PICK end : end = Find(s, start, Blanks)
  OBVIOUS
<1>3. start \in i .. Len(s) + 1
  BY <1>1, ScanFacts
<1>4. start \in 1 .. Len(s) + 1
  BY <1>0, <1>3
<1>5. end \in start .. Len(s) + 1
  BY <1>2, <1>4, ScanFacts
<1>6. end \in 1 .. Len(s) + 1
  BY <1>0, <1>4, <1>5
<1>7. PICK w : w = SubSeq(s, start, end - 1)
  OBVIOUS
<1>8. NextWord(s, i) = [word |-> w, next |-> end]
  BY <1>1, <1>2, <1>7, Zenon DEF NextWord
<1>. QED BY <1>6, <1>8

\* What is left of a line behind a word.
LEMMA RestFacts ==
  ASSUME NEW T, NEW s \in Seq(T)
  PROVE  /\ Trailing(s, 2) \in Seq(T)
         /\ SubSeq(s, NextWord(s, 1).next, Len(s)) \in Seq(T)
<1>0. Len(s) \in Nat /\ 1 \in 1 .. Len(s) + 1
  OBVIOUS
<1>1. PICK a : a = NextWord(s, 1).next
  OBVIOUS
<1>2. a \in 1 .. Len(s) + 1
  BY <1>0, <1>1, NextWordFacts
<1>3. PICK b : b = NthWord(s, 2).next
  OBVIOUS
<1>4. b \in 1 .. Len(s) + 1
  <2>1. NthWord(s, 2) = NextWord(s, a)
    BY <1>1 DEF NthWord
  <2>. QED BY <1>2, <1>3, <2>1, NextWordFacts
<1>5. PICK c : c = skip_whitespace(s, b)
  OBVIOUS
<1>6. c \in b .. Len(s) + 1
  BY <1>4, <1>5, ScanFacts
<1>7. a \in Nat \ {0} /\ c \in Nat \ {0} /\ Len(s) \in Int /\ Len(s) <= Len(s)
  BY <1>0, <1>2, <1>4, <1>6
<1>8. Trailing(s, 2) = SubSeq(s, c, Len(s))
  BY <1>3, <1>5, Zenon DEF Trailing
<1>. QED BY <1>1, <1>7, <1>8, SubSeqFacts

\* The names behind a key, if there are any.
LEMMA OptionalNamesFacts ==
  ASSUME NEW T, NEW s \in Seq(T)
  PROVE  LET opt == OptionalNames(s)
         IN  opt.head \in Seq(T) /\ \A k \in DOMAIN opt.names : is_valid_identifier(opt.names[k])
<1>1. PICK part : part = split_at_paren(s)
  OBVIOUS
<1>2. PICK before, inside, minus : before = part.before /\ inside = part.inside /\ minus = (part.rc = -1)
  OBVIOUS
<1>3. before \in Seq(T) /\ inside \in Seq(T)
  BY <1>1, <1>2, SplitFacts
<1>4. PICK names, error : names = FieldNames(inside).names /\ error = FieldNames(inside).error
  OBVIOUS
<1>5. \A k \in DOMAIN names : is_valid_identifier(names[k])
  BY <1>3, <1>4, FieldNamesFacts
<1>6. PICK open, close : open = (Find(s, 1, {"("}) <= Len(s)) /\ close = (Find(s, 1, {")"}) <= Len(s))
  OBVIOUS
<1>7. PICK none, e : none = <<>> /\ e = ""
  OBVIOUS
<1>8. OptionalNames(s) = IF ~open
                           THEN [open |-> FALSE, head |-> s, names |-> none, error |-> e, unmatched |-> close]
                           ELSE [open |-> TRUE, head |-> before, names |-> names, error |-> error,
                                 unmatched |-> minus]
  BY <1>1, <1>2, <1>4, <1>6, <1>7, Zenon DEF OptionalNames
<1>9. \A k \in DOMAIN none : FALSE
  <2>1. \A k \in DOMAIN <<>> : FALSE
    OBVIOUS
  <2>. QED BY <1>7, <2>1, Zenon
<1>10. PICK x : x = OptionalNames(s)
  OBVIOUS
<1>11. (x.head = s /\ x.names = none) \/ (x.head = before /\ x.names = names)
  BY <1>8, <1>10
<1>12. x.head \in Seq(T) /\ \A k \in DOMAIN x.names : is_valid_identifier(x.names[k])
  BY <1>3, <1>5, <1>9, <1>11, Zenon
<1>. QED BY <1>10, <1>12

-----------------------------------------------------------------------------
(* The handlers *)

\* parse_create: the fields within their number, each with a name.
LEMMA CreateAccepted ==
  ASSUME NEW T, NEW s \in Seq(T)
  PROVE  Accepted(parse_create(s))
<1>1. PICK part : part = split_at_paren(s)
  OBVIOUS
<1>2. PICK db, got, fields, error : /\ db = Word(part.before, 1) /\ got = tokenize_fields(part.inside)
                                    /\ fields = got.fields /\ error = got.error
  OBVIOUS
<1>3. PICK p, q, r : /\ p = <<error # "", error>>
                     /\ q = <<\E k \in DOMAIN fields : fields[k].name = <<"key">>, "ER_INVALID_IDENTIFIER">>
                     /\ r = <<TooMany(fields), "ER_LIMIT_EXCEEDED">>
  OBVIOUS
<1>4. PICK c : c = [op |-> "CREATE", db |-> db, fields |-> fields]
  OBVIOUS
<1>5. PICK a, b : a = SplitChecks(part, "ER_INVALID_CREATE_FORMAT") /\ b = DbChecks(db)
  OBVIOUS
<1>6. parse_create(s) = Checked(a \o b \o <<p, q, r>>, c)
  BY <1>1, <1>2, <1>3, <1>4, <1>5, Zenon DEF parse_create
<1>7. ASSUME Passed(a \o b \o <<p, q, r>>) PROVE CommandWithinLimits(c)
  <2>1. IsSeq(a) /\ IsSeq(b) /\ IsSeq(<<p, q, r>>)
    BY <1>5, SplitChecksFacts, DbChecksFacts, ChecksList
  <2>2. IsSeq(a \o b)
    BY <2>1, ChecksConcat
  <2>3. Passed(a \o b) /\ Passed(<<p, q, r>>)
    BY <1>7, <2>1, <2>2, ChecksConcat
  <2>4. Passed(b)
    BY <2>1, <2>3, ChecksConcat
  <2>5. is_valid_identifier(db)
    BY <1>5, <2>4, DbChecksFacts
  <2>6. ~p[1] /\ ~q[1] /\ ~r[1]
    BY <2>3, ChecksList
  <2>7. /\ error = ""
        /\ \A k \in DOMAIN fields : fields[k].name # <<"key">>
        /\ ~TooMany(fields)
    <3>1. p[1] = (error # "") /\ r[1] = TooMany(fields)
          /\ q[1] = (\E k \in DOMAIN fields : fields[k].name = <<"key">>)
      BY <1>3, CheckFacts, Zenon
    <3>. QED BY <2>6, <3>1, Zenon
  <2>8. PICK inside : inside = part.inside /\ inside \in Seq(T)
    BY <1>1, SplitFacts
  <2>9. fields \in Seq(FieldsOf(inside)) /\ fields # <<>>
    BY <1>2, <2>7, <2>8, TokenizeFieldsFacts
  <2>10. ASSUME NEW k \in DOMAIN fields PROVE is_valid_identifier(fields[k].name)
    <3>1. PICK F : F = FieldsOf(inside)
      OBVIOUS
    <3>2. fields[k] \in F
      BY <2>9, <2>10, <3>1
    <3>. QED BY <3>1, <3>2 DEF FieldsOf
  <2>11. Len(fields) <= MAX_FIELDS
    <3>1. Len(fields) \in Nat
      BY <2>9
    <3>2. PICK n : n = Len(fields) /\ n \in Nat
      BY <3>1, Zenon
    <3>3. ~(n > MAX_FIELDS)
      BY <2>7, <3>2, Zenon DEF TooMany
    <3>4. MAX_FIELDS \in Nat
      BY ParserAssumption
    <3>5. n <= MAX_FIELDS
      BY <3>2, <3>3, <3>4
    <3>. QED BY <3>2, <3>5, Zenon
  <2>12. /\ c.op = "CREATE" /\ c.db = db /\ c.fields = fields
         /\ "key" \notin DOMAIN c /\ "vals" \notin DOMAIN c /\ c.op # "SEARCH" /\ c.op \notin QueryOps
    BY <1>4 DEF QueryOps
  <2>. QED BY <2>5, <2>7, <2>9, <2>10, <2>11, <2>12 DEF CommandWithinLimits
<1>. QED BY <1>6, <1>7, CheckedFacts

\* A command with a table, a key and values.
LEMMA ValuesCommand ==
  ASSUME NEW op \in {"ADD", "UP"}, NEW db, NEW key, NEW vals, is_valid_identifier(db),
         IsInt(key) \/ (op = "ADD" /\ key = <<"*">>), vals # <<>>,
         \A k \in DOMAIN vals : ValueWithinLimits(vals[k])
  PROVE  CommandWithinLimits([op |-> op, db |-> db, key |-> key, vals |-> vals])
<1>1. PICK c : c = [op |-> op, db |-> db, key |-> key, vals |-> vals]
  OBVIOUS
<1>2. /\ c.op = op /\ c.db = db /\ c.key = key /\ c.vals = vals
      /\ c.op # "SEARCH" /\ c.op # "CREATE" /\ c.op \notin QueryOps
  BY <1>1 DEF QueryOps
<1>3. CommandWithinLimits(c)
  BY <1>2 DEF CommandWithinLimits
<1>. QED BY <1>1, <1>3

\* parse_add: the values within the limits.
LEMMA AddAccepted ==
  ASSUME NEW T, NEW s \in Seq(T)
  PROVE  Accepted(parse_add(s))
<1>1. PICK part : part = split_at_paren(s)
  OBVIOUS
<1>2. PICK db, key, values : /\ db = Word(part.before, 1) /\ key = Word(part.before, 2)
                             /\ values = tokenize_values(part.inside)
  OBVIOUS
<1>3. PICK rc, vals : rc = values.rc /\ vals = values.vals
  OBVIOUS
<1>4. PICK p, q : /\ p = <<key # <<"*">> /\ ~IsInt(key), "ER_SYNTAX_ERROR">>
                  /\ q = <<rc # 0, ValueError(rc)>>
  OBVIOUS
<1>5. PICK a, b : a = SplitChecks(part, "ER_INVALID_ADD_FORMAT") /\ b = TwoArgChecks(db, key)
  OBVIOUS
<1>6. PICK c : c = [op |-> "ADD", db |-> db, key |-> key, vals |-> vals]
  OBVIOUS
<1>7. parse_add(s) = Checked(a \o b \o <<p, q>>, c)
  BY <1>1, <1>2, <1>3, <1>4, <1>5, <1>6, Zenon DEF parse_add
<1>8. ASSUME Passed(a \o b \o <<p, q>>) PROVE CommandWithinLimits(c)
  <2>1. IsSeq(a) /\ IsSeq(b) /\ IsSeq(<<p, q>>)
    BY <1>5, SplitChecksFacts, TwoArgChecksFacts, ChecksList
  <2>2. IsSeq(a \o b)
    BY <2>1, ChecksConcat
  <2>3. Passed(a \o b) /\ Passed(<<p, q>>)
    BY <1>8, <2>1, <2>2, ChecksConcat
  <2>4. Passed(b)
    BY <2>1, <2>3, ChecksConcat
  <2>5. is_valid_identifier(db)
    BY <1>5, <2>4, TwoArgChecksFacts
  <2>6. ~p[1] /\ ~q[1]
    BY <2>3, ChecksList
  <2>7. rc = 0 /\ (key = <<"*">> \/ IsInt(key))
    <3>1. p[1] = (key # <<"*">> /\ ~IsInt(key)) /\ q[1] = (rc # 0)
      BY <1>4, CheckFacts, Zenon
    <3>. QED BY <2>6, <3>1, Zenon
  <2>8. PICK inside : inside = part.inside /\ inside \in Seq(T)
    BY <1>1, SplitFacts
  <2>9. vals # <<>> /\ \A k \in DOMAIN vals : ValueWithinLimits(vals[k])
    <3>1. values = ParseValues(inside, CountValues(inside), FALSE)
      BY <1>2, <2>8 DEF tokenize_values
    <3>2. CountValues(inside) \in Nat
      BY <2>8, CountFacts
    <3>. QED BY <1>3, <2>7, <2>8, <3>1, <3>2, ParseValuesFacts
  <2>10. PICK op : op = "ADD"
    OBVIOUS
  <2>11. CommandWithinLimits([op |-> op, db |-> db, key |-> key, vals |-> vals])
    BY <2>5, <2>7, <2>9, <2>10, ValuesCommand
  <2>. QED BY <1>6, <2>10, <2>11
<1>. QED BY <1>7, <1>8, CheckedFacts

\* parse_up: the values within the limits, fields left out included.
LEMMA UpAccepted ==
  ASSUME NEW T, NEW s \in Seq(T)
  PROVE  Accepted(parse_up(s))
<1>1. PICK part : part = split_at_paren(s)
  OBVIOUS
<1>2. PICK db, key, values : /\ db = Word(part.before, 1) /\ key = Word(part.before, 2)
                             /\ values = tokenize_update_values(part.inside)
  OBVIOUS
<1>3. PICK rc, vals : rc = values.rc /\ vals = values.vals
  OBVIOUS
<1>4. PICK p, q : p = <<~IsInt(key), "ER_SYNTAX_ERROR">> /\ q = <<rc # 0, ValueError(rc)>>
  OBVIOUS
<1>5. PICK a, b : a = SplitChecks(part, "ER_INVALID_UPDATE_FORMAT") /\ b = TwoArgChecks(db, key)
  OBVIOUS
<1>6. PICK c : c = [op |-> "UP", db |-> db, key |-> key, vals |-> vals]
  OBVIOUS
<1>7. parse_up(s) = Checked(a \o b \o <<p, q>>, c)
  BY <1>1, <1>2, <1>3, <1>4, <1>5, <1>6, Zenon DEF parse_up
<1>8. ASSUME Passed(a \o b \o <<p, q>>) PROVE CommandWithinLimits(c)
  <2>1. IsSeq(a) /\ IsSeq(b) /\ IsSeq(<<p, q>>)
    BY <1>5, SplitChecksFacts, TwoArgChecksFacts, ChecksList
  <2>2. IsSeq(a \o b)
    BY <2>1, ChecksConcat
  <2>3. Passed(a \o b) /\ Passed(<<p, q>>)
    BY <1>8, <2>1, <2>2, ChecksConcat
  <2>4. Passed(b)
    BY <2>1, <2>3, ChecksConcat
  <2>5. is_valid_identifier(db)
    BY <1>5, <2>4, TwoArgChecksFacts
  <2>6. ~p[1] /\ ~q[1]
    BY <2>3, ChecksList
  <2>7. rc = 0 /\ IsInt(key)
    <3>1. p[1] = (~IsInt(key)) /\ q[1] = (rc # 0)
      BY <1>4, CheckFacts, Zenon
    <3>. QED BY <2>6, <3>1, Zenon
  <2>8. PICK inside : inside = part.inside /\ inside \in Seq(T)
    BY <1>1, SplitFacts
  <2>9. vals # <<>> /\ \A k \in DOMAIN vals : ValueWithinLimits(vals[k])
    <3>1. values = ParseValues(inside, CountValues(inside), TRUE)
      BY <1>2, <2>8 DEF tokenize_update_values
    <3>2. CountValues(inside) \in Nat
      BY <2>8, CountFacts
    <3>. QED BY <1>3, <2>7, <2>8, <3>1, <3>2, ParseValuesFacts
  <2>10. PICK op : op = "UP"
    OBVIOUS
  <2>11. CommandWithinLimits([op |-> op, db |-> db, key |-> key, vals |-> vals])
    BY <2>5, <2>7, <2>9, <2>10, ValuesCommand
  <2>. QED BY <1>6, <2>10, <2>11
<1>. QED BY <1>7, <1>8, CheckedFacts

\* parse_get: the names of fields.
LEMMA GetAccepted ==
  ASSUME NEW T, NEW s \in Seq(T)
  PROVE  Accepted(parse_get(s))
<1>1. PICK opt : opt = OptionalNames(s)
  OBVIOUS
<1>2. PICK db, key, error, names, rest :
        /\ db = Word(opt.head, 1) /\ key = Word(opt.head, 2) /\ error = opt.error /\ names = opt.names
        /\ rest = (~opt.open /\ Trailing(s, 2) # <<>>)
  OBVIOUS
<1>3. PICK o, p, q, r : /\ o = <<opt.unmatched, "ER_SYNTAX_ERROR">>
                        /\ p = <<~IsInt(key), "ER_SYNTAX_ERROR">> /\ q = <<rest, "ER_SYNTAX_ERROR">>
                        /\ r = <<error # "", error>>
  OBVIOUS
<1>4. PICK a : a = TwoArgChecks(db, key)
  OBVIOUS
<1>5. PICK c : c = [op |-> "GET", db |-> db, key |-> key, fields |-> names]
  OBVIOUS
<1>6. parse_get(s) = Checked(<<o>> \o a \o <<p, q, r>>, c)
  BY <1>1, <1>2, <1>3, <1>4, <1>5, Zenon DEF parse_get
<1>7. ASSUME Passed(<<o>> \o a \o <<p, q, r>>) PROVE CommandWithinLimits(c)
  <2>1. IsSeq(<<o>>) /\ IsSeq(a) /\ IsSeq(<<p, q, r>>)
    BY <1>4, TwoArgChecksFacts, ChecksList
  <2>2. IsSeq(<<o>> \o a)
    BY <2>1, ChecksConcat
  <2>3. Passed(<<o>> \o a) /\ Passed(<<p, q, r>>)
    BY <1>7, <2>1, <2>2, ChecksConcat
  <2>4. Passed(a)
    BY <2>1, <2>3, ChecksConcat
  <2>5. is_valid_identifier(db)
    BY <1>4, <2>4, TwoArgChecksFacts
  <2>6. IsInt(key)
    <3>1. ~p[1]
      BY <2>3, ChecksList
    <3>2. p[1] = (~IsInt(key))
      BY <1>3, CheckFacts, Zenon
    <3>. QED BY <3>1, <3>2, Zenon
  <2>7. \A k \in DOMAIN names : is_valid_identifier(names[k])
    BY <1>1, <1>2, OptionalNamesFacts
  <2>8. /\ c.op = "GET" /\ c.db = db /\ c.key = key /\ c.fields = names
        /\ "vals" \notin DOMAIN c /\ c.op # "SEARCH" /\ c.op # "CREATE"
    BY <1>5
  <2>. QED BY <2>5, <2>6, <2>7, <2>8 DEF CommandWithinLimits
<1>. QED BY <1>6, <1>7, CheckedFacts

\* parse_get_all: the names of fields.
LEMMA GetAllAccepted ==
  ASSUME NEW T, NEW s \in Seq(T)
  PROVE  Accepted(parse_get_all(s))
<1>1. PICK opt : opt = OptionalNames(s)
  OBVIOUS
<1>2. PICK db, error, names, rest :
        /\ db = Word(opt.head, 1) /\ error = opt.error /\ names = opt.names
        /\ rest = (~opt.open /\ Trailing(s, 1) # <<>>)
  OBVIOUS
<1>3. PICK o, p, q : /\ o = <<opt.unmatched, "ER_SYNTAX_ERROR">>
                     /\ p = <<rest, "ER_SYNTAX_ERROR">> /\ q = <<error # "", error>>
  OBVIOUS
<1>4. PICK a : a = DbChecks(db)
  OBVIOUS
<1>5. PICK c : c = [op |-> "GET_ALL", db |-> db, fields |-> names]
  OBVIOUS
<1>6. parse_get_all(s) = Checked(<<o>> \o a \o <<p, q>>, c)
  BY <1>1, <1>2, <1>3, <1>4, <1>5, Zenon DEF parse_get_all
<1>7. ASSUME Passed(<<o>> \o a \o <<p, q>>) PROVE CommandWithinLimits(c)
  <2>1. IsSeq(<<o>>) /\ IsSeq(a) /\ IsSeq(<<p, q>>)
    BY <1>4, DbChecksFacts, ChecksList
  <2>2. IsSeq(<<o>> \o a)
    BY <2>1, ChecksConcat
  <2>3. Passed(<<o>> \o a)
    BY <1>7, <2>1, <2>2, ChecksConcat
  <2>4. Passed(a)
    BY <2>1, <2>3, ChecksConcat
  <2>5. is_valid_identifier(db)
    BY <1>4, <2>4, DbChecksFacts
  <2>6. \A k \in DOMAIN names : is_valid_identifier(names[k])
    BY <1>1, <1>2, OptionalNamesFacts
  <2>7. /\ c.op = "GET_ALL" /\ c.db = db /\ c.fields = names /\ "key" \notin DOMAIN c
        /\ "vals" \notin DOMAIN c /\ c.op # "SEARCH" /\ c.op # "CREATE"
    BY <1>5
  <2>. QED BY <2>5, <2>6, <2>7 DEF CommandWithinLimits
<1>. QED BY <1>6, <1>7, CheckedFacts

\* parse_search: the value within the limits.
LEMMA SearchAccepted ==
  ASSUME NEW T, NEW s \in Seq(T)
  PROVE  Accepted(parse_search(s))
<1>1. PICK opt : opt = OptionalNames(s)
  OBVIOUS
<1>2. PICK db, field, error, names, text :
        /\ db = Word(opt.head, 1) /\ field = Word(opt.head, 2) /\ error = opt.error /\ names = opt.names
        /\ text = Trailing(opt.head, 2)
  OBVIOUS
<1>3. PICK value : value = parse_single_value(text, 1)
  OBVIOUS
<1>4. PICK rc, val, rest : /\ rc = value.rc /\ val = value.val
                           /\ rest = (skip_whitespace(text, value.next) <= Len(text))
  OBVIOUS
<1>5. PICK m, n, o, p, q, r :
        /\ m = <<opt.unmatched, "ER_SYNTAX_ERROR">>
        /\ n = <<db = <<>> \/ field = <<>> \/ text = <<>>, "ER_MISSING_ARGUMENT">>
        /\ o = <<error # "", error>>
        /\ p = <<~is_valid_identifier(db) \/ ~is_valid_identifier(field), "ER_INVALID_IDENTIFIER">>
        /\ q = <<rest, "ER_SYNTAX_ERROR">> /\ r = <<rc # 0, ValueError(rc)>>
  OBVIOUS
<1>6. PICK c : c = [op |-> "SEARCH", db |-> db, field |-> field, val |-> val, fields |-> names]
  OBVIOUS
<1>7. parse_search(s) = Checked(<<m, n, o, p, q, r>>, c)
  BY <1>1, <1>2, <1>3, <1>4, <1>5, <1>6, Zenon DEF parse_search
<1>8. ASSUME Passed(<<m, n, o, p, q, r>>) PROVE CommandWithinLimits(c)
  <2>1. ~p[1] /\ ~r[1]
    <3>1. <<m, n, o, p, q, r>>[4] = p /\ <<m, n, o, p, q, r>>[6] = r
      OBVIOUS
    <3>2. 4 \in DOMAIN <<m, n, o, p, q, r>> /\ 6 \in DOMAIN <<m, n, o, p, q, r>>
      OBVIOUS
    <3>. QED BY <1>8, <3>1, <3>2, Zenon DEF Passed
  <2>2. is_valid_identifier(db) /\ is_valid_identifier(field) /\ rc = 0
    <3>1. p[1] = (~is_valid_identifier(db) \/ ~is_valid_identifier(field)) /\ r[1] = (rc # 0)
      BY <1>5, CheckFacts, Zenon
    <3>. QED BY <2>1, <3>1, Zenon
  <2>3. text \in Seq(T)
    <3>1. PICK head : head = opt.head /\ head \in Seq(T)
      BY <1>1, OptionalNamesFacts
    <3>. QED BY <1>2, <3>1, RestFacts
  <2>4. ValueWithinLimits(val)
    <3>1. 1 \in 1 .. Len(text) + 1
      BY <2>3
    <3>2. GoodValue(text, 1, value)
      BY <1>3, <2>3, <3>1, SingleValueFacts
    <3>. QED BY <1>4, <2>2, <3>2 DEF GoodValue
  <2>5. \A k \in DOMAIN names : is_valid_identifier(names[k])
    BY <1>1, <1>2, OptionalNamesFacts
  <2>6. /\ c.op = "SEARCH" /\ c.db = db /\ c.field = field /\ c.val = val /\ c.fields = names
        /\ "key" \notin DOMAIN c /\ "vals" \notin DOMAIN c /\ c.op # "CREATE"
    BY <1>6
  <2>. QED BY <2>2, <2>4, <2>5, <2>6 DEF CommandWithinLimits
<1>. QED BY <1>7, <1>8, CheckedFacts

\* parse_del.
LEMMA DelAccepted ==
  ASSUME NEW s
  PROVE  Accepted(parse_del(s))
<1>1. PICK db, key, a : db = Word(s, 1) /\ key = Word(s, 2) /\ a = TwoArgChecks(db, key)
  OBVIOUS
<1>2. PICK p, q : p = <<~IsInt(key), "ER_SYNTAX_ERROR">> /\ q = <<Trailing(s, 2) # <<>>, "ER_SYNTAX_ERROR">>
  OBVIOUS
<1>3. PICK c : c = [op |-> "DEL", db |-> db, key |-> key]
  OBVIOUS
<1>4. parse_del(s) = Checked(a \o <<p, q>>, c)
  BY <1>1, <1>2, <1>3, Zenon DEF parse_del
<1>5. ASSUME Passed(a \o <<p, q>>) PROVE CommandWithinLimits(c)
  <2>1. IsSeq(a) /\ IsSeq(<<p, q>>)
    BY <1>1, TwoArgChecksFacts, ChecksList
  <2>2. Passed(a) /\ Passed(<<p, q>>)
    BY <1>5, <2>1, ChecksConcat
  <2>3. is_valid_identifier(db)
    BY <1>1, <2>2, TwoArgChecksFacts
  <2>4. IsInt(key)
    <3>1. ~p[1]
      BY <2>2, ChecksList
    <3>2. p[1] = (~IsInt(key))
      BY <1>2, CheckFacts, Zenon
    <3>. QED BY <3>1, <3>2, Zenon
  <2>5. /\ c.op = "DEL" /\ c.db = db /\ c.key = key /\ "vals" \notin DOMAIN c
        /\ c.op # "SEARCH" /\ c.op # "CREATE" /\ c.op \notin QueryOps
    BY <1>3 DEF QueryOps
  <2>. QED BY <2>3, <2>4, <2>5 DEF CommandWithinLimits
<1>. QED BY <1>4, <1>5, CheckedFacts

\* parse_create_index.
LEMMA CreateIndexAccepted ==
  ASSUME NEW s
  PROVE  Accepted(parse_create_index(s))
<1>1. PICK db, field, a : db = Word(s, 1) /\ field = Word(s, 2) /\ a = TwoArgChecks(db, field)
  OBVIOUS
<1>2. PICK p, q : /\ p = <<~is_valid_identifier(field), "ER_INVALID_IDENTIFIER">>
                  /\ q = <<Trailing(s, 2) # <<>>, "ER_SYNTAX_ERROR">>
  OBVIOUS
<1>3. PICK c : c = [op |-> "CREATE_INDEX", db |-> db, field |-> field]
  OBVIOUS
<1>4. parse_create_index(s) = Checked(a \o <<p, q>>, c)
  BY <1>1, <1>2, <1>3, Zenon DEF parse_create_index
<1>5. ASSUME Passed(a \o <<p, q>>) PROVE CommandWithinLimits(c)
  <2>1. IsSeq(a) /\ IsSeq(<<p, q>>)
    BY <1>1, TwoArgChecksFacts, ChecksList
  <2>2. Passed(a)
    BY <1>5, <2>1, ChecksConcat
  <2>3. is_valid_identifier(db)
    BY <1>1, <2>2, TwoArgChecksFacts
  <2>4. /\ c.op = "CREATE_INDEX" /\ c.db = db /\ "key" \notin DOMAIN c /\ "vals" \notin DOMAIN c
        /\ c.op # "SEARCH" /\ c.op # "CREATE" /\ c.op \notin QueryOps
    BY <1>3 DEF QueryOps
  <2>. QED BY <2>3, <2>4 DEF CommandWithinLimits
<1>. QED BY <1>4, <1>5, CheckedFacts

\* The commands with a table name and nothing else.
LEMMA OneTableAccepted ==
  ASSUME NEW op \in {"COUNT", "DEL_TABLE"}, NEW s
  PROVE  Accepted(OneTable(op, s))
<1>1. PICK db, a, p : db = Word(s, 1) /\ a = DbChecks(db) /\ p = <<Trailing(s, 1) # <<>>, "ER_SYNTAX_ERROR">>
  OBVIOUS
<1>2. PICK c : c = [op |-> op, db |-> db]
  OBVIOUS
<1>3. OneTable(op, s) = Checked(a \o <<p>>, c)
  BY <1>1, <1>2, Zenon DEF OneTable
<1>4. ASSUME Passed(a \o <<p>>) PROVE CommandWithinLimits(c)
  <2>1. IsSeq(a) /\ IsSeq(<<p>>)
    BY <1>1, DbChecksFacts, ChecksList
  <2>2. Passed(a)
    BY <1>4, <2>1, ChecksConcat
  <2>3. is_valid_identifier(db)
    BY <1>1, <2>2, DbChecksFacts
  <2>4. /\ c.db = db /\ "key" \notin DOMAIN c /\ "vals" \notin DOMAIN c
        /\ c.op # "SEARCH" /\ c.op # "CREATE" /\ c.op \notin QueryOps
    BY <1>2 DEF QueryOps
  <2>. QED BY <2>3, <2>4 DEF CommandWithinLimits
<1>. QED BY <1>3, <1>4, CheckedFacts

\* The commands of the keys name no table.
LEMMA KeyCommandsAccepted ==
  ASSUME NEW s
  PROVE  /\ Accepted(parse_auth(s)) /\ Accepted(parse_add_key(s)) /\ Accepted(parse_del_key(s))
         /\ Accepted(parse_list_keys) /\ Accepted(parse_whoami)
<1>1. ASSUME NEW c, "db" \notin DOMAIN c, "key" \notin DOMAIN c, "vals" \notin DOMAIN c,
             c.op \notin {"SEARCH", "CREATE", "GET", "GET_ALL"}
      PROVE  CommandWithinLimits(c)
  BY <1>1 DEF CommandWithinLimits, QueryOps
<1>2. Accepted(parse_auth(s))
  <2>1. PICK token : token = Word(s, 1)
    OBVIOUS
  <2>2. PICK c : c = [op |-> "AUTH", token |-> token]
    OBVIOUS
  <2>3. CommandWithinLimits(c)
    BY <1>1, <2>2
  <2>4. PICK checks : parse_auth(s) = Checked(checks, c)
    BY <2>1, <2>2, Zenon DEF parse_auth
  <2>. QED BY <2>3, <2>4, CheckedFacts
<1>3. Accepted(parse_add_key(s))
  <2>1. PICK name, role : name = Word(s, 1) /\ role = Word(s, 2)
    OBVIOUS
  <2>2. PICK c : c = [op |-> "ADD_KEY", name |-> name, role |-> role]
    OBVIOUS
  <2>3. CommandWithinLimits(c)
    BY <1>1, <2>2
  <2>4. PICK checks : parse_add_key(s) = Checked(checks, c)
    BY <2>1, <2>2, Zenon DEF parse_add_key
  <2>. QED BY <2>3, <2>4, CheckedFacts
<1>4. Accepted(parse_del_key(s))
  <2>1. PICK name : name = Word(s, 1)
    OBVIOUS
  <2>2. PICK c : c = [op |-> "DEL_KEY", name |-> name]
    OBVIOUS
  <2>3. CommandWithinLimits(c)
    BY <1>1, <2>2
  <2>4. PICK checks : parse_del_key(s) = Checked(checks, c)
    BY <2>1, <2>2, Zenon DEF parse_del_key
  <2>. QED BY <2>3, <2>4, CheckedFacts
<1>5. Accepted(parse_list_keys) /\ Accepted(parse_whoami)
  <2>1. PICK c, d : c = [op |-> "LIST_KEYS"] /\ d = [op |-> "WHOAMI"]
    OBVIOUS
  <2>2. CommandWithinLimits(c) /\ CommandWithinLimits(d)
    BY <1>1, <2>1
  <2>. QED BY <2>1, <2>2 DEF Accepted, parse_list_keys, parse_whoami
<1>. QED BY <1>2, <1>3, <1>4, <1>5

\* parse_command: whatever it takes for a command is within the limits.
LEMMA CommandAccepted ==
  ASSUME NEW T, NEW s \in Seq(T)
  PROVE  Accepted(parse_command(s))
<1>1. PICK op, args : op = determine_operation(s) /\ args = SubSeq(s, NextWord(s, 1).next, Len(s))
  OBVIOUS
<1>2. args \in Seq(T)
  BY <1>1, RestFacts
<1>3. op \in Commands \cup {"ERROR"}
  BY <1>1 DEF determine_operation
<1>4. parse_command(s) =
        CASE op = "ERROR"        -> Err("ER_INVALID_COMMAND")
          [] op = "CREATE"       -> parse_create(args)
          [] op = "ADD"          -> parse_add(args)
          [] op = "UP"           -> parse_up(args)
          [] op = "GET"          -> parse_get(args)
          [] op = "DEL"          -> parse_del(args)
          [] op = "GET_ALL"      -> parse_get_all(args)
          [] op = "SEARCH"       -> parse_search(args)
          [] op = "COUNT"        -> parse_count(args)
          [] op = "CREATE_INDEX" -> parse_create_index(args)
          [] op = "AUTH"         -> parse_auth(args)
          [] op = "ADD_KEY"      -> parse_add_key(args)
          [] op = "DEL_KEY"      -> parse_del_key(args)
          [] op = "LIST_KEYS"    -> parse_list_keys
          [] op = "WHOAMI"       -> parse_whoami
          [] op = "DEL_TABLE"    -> parse_del_table(args)
  BY <1>1, Zenon DEF parse_command
<1>5. PICK r : r = Err("ER_INVALID_COMMAND") /\ Accepted(r)
  <2>1. Err("ER_INVALID_COMMAND").op = "ERROR"
    BY DEF Err
  <2>. QED BY <2>1, Zenon DEF Accepted
<1>6. Accepted(parse_count(args)) /\ Accepted(parse_del_table(args))
  BY OneTableAccepted DEF parse_count, parse_del_table
<1>7. \/ parse_command(s) = r
      \/ \E h \in {parse_create(args), parse_add(args), parse_up(args), parse_get(args), parse_del(args),
                   parse_get_all(args), parse_search(args), parse_count(args), parse_create_index(args),
                   parse_auth(args), parse_add_key(args), parse_del_key(args), parse_list_keys,
                   parse_whoami, parse_del_table(args)} : parse_command(s) = h
  BY <1>3, <1>4, <1>5 DEF Commands
<1>. QED BY <1>2, <1>5, <1>6, <1>7, CreateAccepted, AddAccepted, UpAccepted, GetAccepted, GetAllAccepted,
            SearchAccepted, DelAccepted, CreateIndexAccepted, KeyCommandsAccepted

-----------------------------------------------------------------------------
(* The exchange *)

\* The line is text, and what the parser handed on is within the limits.
ExchangeInv == line \in Seq(STRING) /\ (phase = "parsed" => Accepted(cmd))

\* No line has been parsed at the start.
LEMMA ExchangeInit ==
  ASSUME ProtocolInit
  PROVE  ExchangeInv
<1>1. <<>> \in Seq(STRING)
  OBVIOUS
<1>. QED BY <1>1 DEF ProtocolInit, ExchangeInv

\* One stage of an exchange.
LEMMA ExchangeStep ==
  ASSUME ExchangeInv, [ProtocolNext]_protocolVars
  PROVE  ExchangeInv'
<1>1. CASE ClientSends
  <2>1. PICK c \in Calls : line' = Build(c)
    BY <1>1 DEF ClientSends
  <2>2. phase' # "parsed"
    BY <1>1 DEF ClientSends
  <2>. QED BY <2>1, <2>2, ProtocolAssumption DEF ExchangeInv
<1>2. CASE TypedByHand
  BY <1>2, ProtocolAssumption DEF TypedByHand, ExchangeInv
<1>3. CASE ServerParses
  <2>1. line' = line /\ cmd' = parse_command(line)
    BY <1>3 DEF ServerParses
  <2>2. Accepted(parse_command(line))
    BY CommandAccepted DEF ExchangeInv
  <2>. QED BY <2>1, <2>2 DEF ExchangeInv, Accepted
<1>4. CASE ServerRefuses \/ ServerReportsCode \/ ServerSendsRows \/ ServerSendsKeys \/ ServerSendsText
  <2>1. line' = line /\ phase' = "answered"
    BY <1>4 DEF ServerRefuses, ServerReportsCode, ServerSendsRows, ServerSendsKeys, ServerSendsText, Answers
  <2>. QED BY <2>1 DEF ExchangeInv
<1>5. CASE ClientReads
  BY <1>5 DEF ClientReads, ExchangeInv
<1>6. CASE CallEnds
  <2>1. <<>> \in Seq(STRING)
    OBVIOUS
  <2>. QED BY <1>6, <2>1 DEF CallEnds, ExchangeInv
<1>7. CASE UNCHANGED protocolVars
  BY <1>7 DEF protocolVars, ExchangeInv, Accepted
<1>. QED BY <1>1, <1>2, <1>3, <1>4, <1>5, <1>6, <1>7 DEF ProtocolNext

\* Whatever line a client sends, the command that parse_command (parser.c)
\* makes of it keeps to the limits of data_model.h and to the shapes that
\* operations.c uses without checking them again.
THEOREM AcceptedWithinLimitsTheorem == ProtocolSpec => []AcceptedWithinLimits
<1>1. ProtocolInit => ExchangeInv
  BY ExchangeInit
<1>2. ExchangeInv /\ [ProtocolNext]_protocolVars => ExchangeInv'
  BY ExchangeStep
<1>3. ExchangeInv => AcceptedWithinLimits
  BY DEF ExchangeInv, Accepted, AcceptedWithinLimits
<1>. QED BY <1>1, <1>2, <1>3, PTL DEF ProtocolSpec
=============================================================================
