------------------------------- MODULE Parser -------------------------------
(***************************************************************************)
(* The command parser (src/db/parser.c), from a line to a command or an    *)
(* error code.                                                             *)
(*                                                                         *)
(* A line is a sequence of symbols.  A keyword, a name or a number is one  *)
(* symbol, and no two keywords or numbers touch; blanks, brackets, quotes  *)
(* and the characters of a quoted string are one symbol each.  "quote",    *)
(* "bs", "nl", "cr" and "tab" stand for the double quote, the backslash,   *)
(* the newline, the carriage return and the tab.  Letter case, lengths of  *)
(* names, failed allocations (ER_OTHER) and the wording of the errors are  *)
(* left out.                                                               *)
(***************************************************************************)
EXTENDS Integers, Sequences, SequencesExt, FiniteSetsExt

CONSTANTS
  Names,                   \* words that are identifiers
  Ints, Doubles,           \* words that are numbers
  MAX_STRING_VALUE_LENGTH,
  MAX_LITERAL_LENGTH,      \* MAX_ARRAY_LENGTH
  MAX_FIELDS               \* MAX_FIELDS_PER_DB

-----------------------------------------------------------------------------
(* Scanning *)

END == "END"

\* A number is one symbol, and no other symbol of the grammar.
ASSUME ParserAssumption ==
  /\ MAX_STRING_VALUE_LENGTH \in Nat
  /\ MAX_LITERAL_LENGTH \in Nat
  /\ MAX_FIELDS \in Nat
  /\ Ints \cap Doubles = {}
  /\ (Ints \cup Doubles) \cap {END, "quote", "[", "true", "false"} = {}

\* The symbol at a position; the end of the line is a symbol too.
At(s, i) == IF i \in DOMAIN s THEN s[i] ELSE END

\* The first position from i on that holds one of the symbols, or the end.
Find(s, i, symbols) ==
  Min({j \in i .. Len(s) : s[j] \in symbols} \cup {Max({i, Len(s) + 1})})

Blanks == {" ", "tab"}

skip_whitespace(s, i) ==
  Min({j \in i .. Len(s) : s[j] \notin Blanks} \cup {Max({i, Len(s) + 1})})

\* The first word from a position on, with the position behind it; empty when
\* there is none.
NextWord(s, i) ==
  LET start == skip_whitespace(s, i)
      end   == Find(s, start, Blanks)
  IN  [word |-> SubSeq(s, start, end - 1), next |-> end]

\* The k-th word; no handler looks at more than two.
NthWord(s, k) == IF k = 1 THEN NextWord(s, 1) ELSE NextWord(s, NextWord(s, 1).next)

Word(s, k) == NthWord(s, k).word

is_valid_identifier(w) ==
  w # <<>> /\ Head(w) \in Names \cup {"_"} /\ ToSet(w) \subseteq Names \cup Ints \cup {"_"}

\* A word that is a number and nothing else.
IsInt(w) == Len(w) = 1 /\ Head(w) \in Ints

\* A mutant: a quote always opens or closes a string.
InString_NoEscape(s, open, p) ==
  Cardinality({q \in open + 1 .. p - 1 : s[q] = "quote"}) % 2 = 1

\* Whether position p is inside a string, as split_at_paren sees it: a quote
\* counts unless a backslash is right before it.
InString(s, open, p) ==
  Cardinality({q \in open + 1 .. p - 1 :
                 s[q] = "quote" /\ (q = open + 1 \/ s[q - 1] # "bs")}) % 2 = 1

\* The text before the first parenthesis and the text up to its match.
split_at_paren(s) ==
  LET open == Find(s, 1, {"("})
      Outside(p, c) == s[p] = c /\ ~InString(s, open, p)
      Depth(p) == 1 + Cardinality({q \in open + 1 .. p : Outside(q, "(")})
                    - Cardinality({q \in open + 1 .. p : Outside(q, ")")})
      closes == {p \in open + 1 .. Len(s) : Depth(p) = 0}
  IN  IF open > Len(s) THEN [rc |-> -3, before |-> <<>>, inside |-> <<>>]
      ELSE IF closes = {} THEN [rc |-> -1, before |-> <<>>, inside |-> <<>>]
      ELSE [rc |-> 0, before |-> SubSeq(s, 1, open - 1),
            inside |-> SubSeq(s, open + 1, Min(closes) - 1)]

-----------------------------------------------------------------------------
(* Values: v is the sequence of the elements, one for a scalar, and an     *)
(* element is the sequence of its symbols.                                 *)

Scalar(type, e)  == [type |-> type, v |-> <<e>>]
NullString       == [type |-> "NULL", v |-> <<>>]   \* a slot left as it was initialised
Ignore           == [type |-> "_", v |-> <<>>]

Parsed(val, next) == [rc |-> 0, val |-> val, next |-> next]
NotParsed(rc, i)  == [rc |-> rc, val |-> NullString, next |-> i]

Unescaped(c) ==
  CASE c = "n" -> "nl" [] c = "t" -> "tab" [] c = "r" -> "cr" [] OTHER -> c

\* A quoted string: a backslash takes the symbol behind it with it.  text[p] is
\* what stands from p to the closing quote.
parse_string(s, i) ==
  LET Longer(c, rest) == [rest EXCEPT !.text = <<c>> \o @]
      text[p \in 1 .. Len(s) + 1] ==
        IF At(s, p) = END THEN [closed |-> FALSE, text |-> <<>>, next |-> p]
        ELSE IF At(s, p) = "quote" THEN [closed |-> TRUE, text |-> <<>>, next |-> p + 1]
        ELSE IF At(s, p) = "bs" /\ At(s, p + 1) # END
          THEN Longer(Unescaped(s[p + 1]), text[p + 2])
        ELSE Longer(s[p], text[p + 1])
      string == text[i + 1]
  IN  IF string.closed THEN Parsed(Scalar("string", string.text), string.next)
      ELSE NotParsed(-3, i)

\* The array type of elements of a type; what is no scalar counts as string.
ArrayOf(type) ==
  CASE type = "int" -> "int[]" [] type = "double" -> "double[]"
    [] type = "bool" -> "bool[]" [] OTHER -> "string[]"

AppendTo(type) ==
  CASE type = "int" -> "+int[]" [] type = "double" -> "+double[]"
    [] type = "bool" -> "+bool[]" [] OTHER -> "+string[]"

\* The tag by which elements are compared: an append has that of its array.
Tag(type) ==
  CASE type = "+int[]" -> "int[]" [] type = "+double[]" -> "double[]"
    [] type = "+bool[]" -> "bool[]" [] type = "+string[]" -> "string[]" [] OTHER -> type

\* An array or an append inside an array is one element, of which the
\* operations read a pointer as a text.
Misread      == <<"misread">>
ElementOf(x) == IF x.type \in {"int", "double", "bool", "string"} THEN x.v[1] ELSE Misread

\* The array of the values up to its bracket: not too many, and all of one tag.
ArrayValue(list, i) ==
  LET vals == list.vals
  IN  IF ~list.closed \/ Len(vals) > MAX_LITERAL_LENGTH
           \/ \E k \in DOMAIN vals : Tag(vals[k].type) # Tag(vals[1].type)
        THEN NotParsed(-6, i)
        ELSE Parsed([type |-> ArrayOf(vals[1].type),
                     v |-> [k \in DOMAIN vals |-> ElementOf(vals[k])]], list.next)

\* The value at a position.  An array or an append takes what was parsed
\* behind it: parsed[j] has the value at j, and the list of values from j to
\* the bracket that closes it.
ValueAt(s, i, parsed) ==
  LET p == skip_whitespace(s, i)
      c == At(s, p)
      q == skip_whitespace(s, p + 1)
      string   == parse_string(s, p)
      appended == parsed[q + 1].value
      closing  == skip_whitespace(s, appended.next)
  IN  CASE c = "quote" ->
             IF string.rc = 0 /\ Len(string.val.v[1]) > MAX_STRING_VALUE_LENGTH
               THEN NotParsed(-8, i) ELSE string
        [] c \in {"true", "false"} /\ At(s, p + 1) \in {",", ")", "]", END} \cup Blanks ->
             Parsed(Scalar("bool", <<c>>), p + 1)
        [] c \in Ints -> Parsed(Scalar("int", <<c>>), p + 1)
        [] c \in Doubles -> Parsed(Scalar("double", <<c>>), p + 1)
        [] c = "[" /\ At(s, q) = "...+" ->
             IF appended.rc # 0 \/ At(s, closing) # "]" THEN NotParsed(-6, i)
             ELSE Parsed([type |-> AppendTo(appended.val.type),
                          v |-> <<ElementOf(appended.val)>>], closing + 1)
        [] c = "[" /\ At(s, q) = "]" -> Parsed([type |-> "int[]", v |-> <<>>], q + 1)
        [] c = "[" /\ At(s, q) \notin {"...+", "]"} -> ArrayValue(parsed[q].list, i)
        [] OTHER -> NotParsed(-6, i)

\* A value and what follows it up to a bracket.
ListFrom(s, one, parsed) ==
  LET q == skip_whitespace(s, one.next)
  IN  IF one.rc = 0 /\ At(s, q) = ","
        THEN [parsed[q + 1].list EXCEPT !.vals = <<one.val>> \o @]
      ELSE [closed |-> one.rc = 0 /\ At(s, q) = "]", vals |-> <<one.val>>, next |-> q + 1]

parse_single_value(s, i) ==
  LET parsed[j \in 1 .. Len(s) + 1] ==
        LET one == ValueAt(s, j, parsed)
        IN  [value |-> one, list |-> ListFrom(s, one, parsed)]
  IN  parsed[i].value

\* A value of UP: the marker of a field to leave alone, or a value.
parse_update_value(s, i) ==
  LET p == skip_whitespace(s, i)
  IN  IF At(s, p) = "_" /\ At(s, p + 1) \in {",", ")", END} \cup Blanks THEN Parsed(Ignore, p + 1)
      ELSE parse_single_value(s, p)

\* How many values tokenize_values makes room for: the commas outside strings
\* and arrays, and one more.  Every quote opens or closes a string here, an
\* escaped one too.
Content(n, inString, inBracket) ==
  [count |-> n.count, hasContent |-> TRUE, inString |-> inString, inBracket |-> inBracket]

CountSymbol(n, c) ==
  IF c = "quote" THEN Content(n, ~n.inString, n.inBracket)
  ELSE IF n.inString THEN Content(n, TRUE, n.inBracket)
  ELSE IF c = "[" THEN Content(n, FALSE, n.inBracket + 1)
  ELSE IF c = "]" THEN Content(n, FALSE, Max({0, n.inBracket - 1}))
  ELSE IF c = "," /\ n.inBracket = 0 THEN [n EXCEPT !.count = @ + 1]
  ELSE IF c \in Blanks THEN n
  ELSE Content(n, FALSE, n.inBracket)

CountValues(s) ==
  LET after[i \in 0 .. Len(s)] ==
        IF i = 0 THEN [count |-> 0, hasContent |-> FALSE, inString |-> FALSE, inBracket |-> 0]
        ELSE CountSymbol(after[i - 1], s[i])
      total == after[Len(s)]
  IN  IF total.hasContent THEN total.count + 1 ELSE total.count

\* One slot, in a state [rc, at, vals, more], from what stands at its place:
\* without a value it stays a NULL string.
FilledSlot(s, st, one) ==
  LET p == skip_whitespace(s, one.next)
  IN  IF st.rc # 0 THEN st
      ELSE IF ~st.more THEN [st EXCEPT !.vals = Append(@, NullString)]
      ELSE IF one.rc # 0 THEN [st EXCEPT !.rc = one.rc]
      ELSE IF At(s, p) \notin {",", END} THEN [st EXCEPT !.rc = -7]
      ELSE [rc |-> 0, at |-> p + 1, vals |-> Append(st.vals, one.val), more |-> At(s, p) = ","]

FillSlot(s, update, st) ==
  FilledSlot(s, st,
    IF update THEN parse_update_value(s, st.at) ELSE parse_single_value(s, st.at))

\* Values are parsed until there are as many as were counted, or the text ends.
ParseValues(s, count, update) ==
  LET after[k \in 0 .. count] ==
        IF k = 0 THEN [rc |-> 0, at |-> 1, vals |-> <<>>, more |-> TRUE]
        ELSE FillSlot(s, update, after[k - 1])
  IN  IF count = 0 THEN [rc |-> -2, vals |-> <<>>] ELSE after[count]

tokenize_values(s)        == ParseValues(s, CountValues(s), FALSE)
tokenize_update_values(s) == ParseValues(s, CountValues(s), TRUE)

ValueError(rc) ==
  CASE rc = -2 -> "ER_MISSING_ARGUMENT" [] rc = -8 -> "ER_LIMIT_EXCEEDED"
    [] OTHER -> "ER_SYNTAX_ERROR"
-----------------------------------------------------------------------------
(* Commands *)

FieldTypes == {"int", "double", "bool", "string", "int[]", "double[]", "bool[]", "string[]"}

\* parse_error: the parser keeps a code, the client sees its message.
Err(code) == [op |-> "ERROR", code |-> code]

\* The checks of a handler in their order, each with the error it returns;
\* the command when all pass.
Checked(checks, cmd) ==
  LET failed == {k \in DOMAIN checks : checks[k][1]}
  IN  IF failed = {} THEN cmd ELSE Err(checks[Min(failed)][2])

SplitChecks(part, format) ==
  << <<part.rc = -1, "ER_SYNTAX_ERROR">>, <<part.rc = -3, format>> >>

DbChecks(db) ==
  << <<db = <<>>, "ER_MISSING_ARGUMENT">>,
     <<~is_valid_identifier(db), "ER_INVALID_IDENTIFIER">> >>

\* tokenize_args and the check of the table's name.
TwoArgChecks(db, second) ==
  << <<db = <<>> \/ second = <<>>, "ER_MISSING_ARGUMENT">>,
     <<~is_valid_identifier(db), "ER_INVALID_IDENTIFIER">> >>

\* What is left behind the k-th word.
Trailing(s, k) ==
  LET next == NthWord(s, k).next
  IN  SubSeq(s, skip_whitespace(s, next), Len(s))

\* The fields of CREATE: as many "type name" pairs as there are commas, and
\* one more.  One pair, with the position behind it.
parse_single_field(s, i) ==
  LET stops == Blanks \cup {",", ")"}
      t     == skip_whitespace(s, i)
      type  == SubSeq(s, t, Find(s, t, stops) - 1)
      n     == skip_whitespace(s, Find(s, t, stops))
      name  == SubSeq(s, n, Find(s, n, stops) - 1)
  IN  [error |-> IF type = <<>> THEN "ER_MISSING_ARGUMENT"
                 ELSE IF type \notin {<<f>> : f \in FieldTypes} THEN "ER_INVALID_DATA_TYPE"
                 ELSE IF name = <<>> THEN "ER_MISSING_ARGUMENT"
                 ELSE IF ~is_valid_identifier(name) THEN "ER_INVALID_IDENTIFIER" ELSE "",
       field |-> [type |-> type, name |-> name],
       next  |-> skip_whitespace(s, Find(s, n, stops))]

tokenize_fields(s) ==
  LET from[i \in 1 .. Len(s) + 1] ==
        LET one == parse_single_field(s, i)
        IN  IF one.error # "" THEN [error |-> one.error, fields |-> <<>>]
            ELSE IF At(s, one.next) = ","
              THEN [from[one.next + 1] EXCEPT !.fields = <<one.field>> \o @]
            ELSE IF At(s, one.next) = END THEN [error |-> "", fields |-> <<one.field>>]
            ELSE [error |-> "ER_SYNTAX_ERROR", fields |-> <<>>]
  IN  from[1]

\* The names in the parentheses of GET, GET_ALL and SEARCH: as many words as
\* there are commas, and one more; what follows them is not looked at.  One
\* name, in a state [error, at, names].
TakeName(s, st) ==
  LET start == skip_whitespace(s, st.at)
      end   == Find(s, start, Blanks \cup {","})
      name  == SubSeq(s, start, end - 1)
      p     == skip_whitespace(s, end)
  IN  IF st.error # "" THEN st
      ELSE IF name = <<>> THEN [st EXCEPT !.error = "ER_MISSING_ARGUMENT"]
      ELSE IF ~is_valid_identifier(name) THEN [st EXCEPT !.error = "ER_INVALID_IDENTIFIER"]
      ELSE [error |-> "", at |-> IF At(s, p) = "," THEN p + 1 ELSE p,
            names |-> Append(st.names, name)]

FieldNames(s) ==
  LET count == 1 + Cardinality({k \in DOMAIN s : s[k] = ","})
      after[k \in 0 .. count] ==
        IF k = 0 THEN [error |-> "", at |-> 1, names |-> <<>>] ELSE TakeName(s, after[k - 1])
  IN  IF skip_whitespace(s, 1) > Len(s) THEN [error |-> "", names |-> <<>>]
      ELSE [error |-> after[count].error, names |-> after[count].names]

\* A mutant: one field too many is let through.
TooMany_OffByOne(fields) == Len(fields) > MAX_FIELDS + 1

TooMany(fields) == Len(fields) > MAX_FIELDS

parse_create(s) ==
  LET part   == split_at_paren(s)
      db     == Word(part.before, 1)
      got    == tokenize_fields(part.inside)
      fields == got.fields
  IN  Checked(SplitChecks(part, "ER_INVALID_CREATE_FORMAT") \o DbChecks(db) \o
        << <<got.error # "", got.error>>,
           <<\E k \in DOMAIN fields : fields[k].name = <<"key">>, "ER_INVALID_IDENTIFIER">>,
           <<TooMany(fields), "ER_LIMIT_EXCEEDED">> >>,
        [op |-> "CREATE", db |-> db, fields |-> fields])

\* Only the first two words before the parenthesis are looked at, and nothing
\* behind the one that closes it.
parse_add(s) ==
  LET part   == split_at_paren(s)
      db     == Word(part.before, 1)
      key    == Word(part.before, 2)
      values == tokenize_values(part.inside)
  IN  Checked(SplitChecks(part, "ER_INVALID_ADD_FORMAT") \o TwoArgChecks(db, key) \o
        << <<key # <<"*">> /\ ~IsInt(key), "ER_SYNTAX_ERROR">>,
           <<values.rc # 0, ValueError(values.rc)>> >>,
        [op |-> "ADD", db |-> db, key |-> key, vals |-> values.vals])

parse_up(s) ==
  LET part   == split_at_paren(s)
      db     == Word(part.before, 1)
      key    == Word(part.before, 2)
      values == tokenize_update_values(part.inside)
  IN  Checked(SplitChecks(part, "ER_INVALID_UPDATE_FORMAT") \o TwoArgChecks(db, key) \o
        << <<~IsInt(key), "ER_SYNTAX_ERROR">>,
           <<values.rc # 0, ValueError(values.rc)>> >>,
        [op |-> "UP", db |-> db, key |-> key, vals |-> values.vals])

\* The text before the optional parentheses and the names in them.
OptionalNames(s) ==
  LET part  == split_at_paren(s)
      names == FieldNames(part.inside)
      open  == Find(s, 1, {"("}) <= Len(s)
  IN  IF ~open
        THEN [open |-> FALSE, head |-> s, names |-> <<>>, error |-> "",
              unmatched |-> Find(s, 1, {")"}) <= Len(s)]
        ELSE [open |-> TRUE, head |-> part.before, names |-> names.names,
              error |-> names.error, unmatched |-> part.rc = -1]

parse_get(s) ==
  LET opt == OptionalNames(s)
      db  == Word(opt.head, 1)
      key == Word(opt.head, 2)
  IN  Checked(<< <<opt.unmatched, "ER_SYNTAX_ERROR">> >> \o TwoArgChecks(db, key) \o
        << <<~IsInt(key), "ER_SYNTAX_ERROR">>,
           <<~opt.open /\ Trailing(s, 2) # <<>>, "ER_SYNTAX_ERROR">>,
           <<opt.error # "", opt.error>> >>,
        [op |-> "GET", db |-> db, key |-> key, fields |-> opt.names])

parse_get_all(s) ==
  LET opt == OptionalNames(s)
      db  == Word(opt.head, 1)
  IN  Checked(<< <<opt.unmatched, "ER_SYNTAX_ERROR">> >> \o DbChecks(db) \o
        << <<~opt.open /\ Trailing(s, 1) # <<>>, "ER_SYNTAX_ERROR">>,
           <<opt.error # "", opt.error>> >>,
        [op |-> "GET_ALL", db |-> db, fields |-> opt.names])

\* The value runs to the first parenthesis of the line, wherever that is.
parse_search(s) ==
  LET opt   == OptionalNames(s)
      db    == Word(opt.head, 1)
      field == Word(opt.head, 2)
      text  == Trailing(opt.head, 2)
      value == parse_single_value(text, 1)
      rest  == skip_whitespace(text, value.next) <= Len(text)
  IN  Checked(<< <<opt.unmatched, "ER_SYNTAX_ERROR">>,
                 <<db = <<>> \/ field = <<>> \/ text = <<>>, "ER_MISSING_ARGUMENT">>,
                 <<opt.error # "", opt.error>>,
                 <<~is_valid_identifier(db) \/ ~is_valid_identifier(field), "ER_INVALID_IDENTIFIER">>,
                 <<rest, "ER_SYNTAX_ERROR">>,
                 <<value.rc # 0, ValueError(value.rc)>> >>,
        [op |-> "SEARCH", db |-> db, field |-> field, val |-> value.val, fields |-> opt.names])

parse_del(s) ==
  LET db  == Word(s, 1)
      key == Word(s, 2)
  IN  Checked(TwoArgChecks(db, key) \o
        << <<~IsInt(key), "ER_SYNTAX_ERROR">>,
           <<Trailing(s, 2) # <<>>, "ER_SYNTAX_ERROR">> >>,
        [op |-> "DEL", db |-> db, key |-> key])

parse_create_index(s) ==
  LET db    == Word(s, 1)
      field == Word(s, 2)
  IN  Checked(TwoArgChecks(db, field) \o
        << <<~is_valid_identifier(field), "ER_INVALID_IDENTIFIER">>,
           <<Trailing(s, 2) # <<>>, "ER_SYNTAX_ERROR">> >>,
        [op |-> "CREATE_INDEX", db |-> db, field |-> field])

\* COUNT and DEL_TABLE take a table and nothing else.
OneTable(op, s) ==
  LET db == Word(s, 1)
  IN  Checked(DbChecks(db) \o << <<Trailing(s, 1) # <<>>, "ER_SYNTAX_ERROR">> >>,
        [op |-> op, db |-> db])

parse_count(s)     == OneTable("COUNT", s)
parse_del_table(s) == OneTable("DEL_TABLE", s)

parse_auth(s) ==
  LET token == Word(s, 1)
  IN  Checked(<< <<token = <<>> \/ Trailing(s, 1) # <<>>, "ER_INVALID_AUTH_FORMAT">> >>,
        [op |-> "AUTH", token |-> token])

parse_add_key(s) ==
  LET role == Word(s, 2)
  IN  Checked(<< <<Word(s, 1) = <<>> \/ role \notin {<<"admin">>, <<"readonly">>}
                     \/ Trailing(s, 2) # <<>>, "ER_INVALID_ADD_KEY_FORMAT">> >>,
        [op |-> "ADD_KEY", name |-> Word(s, 1), role |-> role])

parse_del_key(s) ==
  Checked(<< <<Word(s, 1) = <<>> \/ Trailing(s, 1) # <<>>, "ER_INVALID_DEL_KEY_FORMAT">> >>,
    [op |-> "DEL_KEY", name |-> Word(s, 1)])

\* LIST_KEYS and WHOAMI do not look at what follows them.
parse_list_keys == [op |-> "LIST_KEYS"]
parse_whoami    == [op |-> "WHOAMI"]

Commands == {"CREATE", "ADD", "UP", "GET", "DEL", "GET_ALL", "SEARCH", "COUNT", "CREATE_INDEX",
             "AUTH", "ADD_KEY", "DEL_KEY", "LIST_KEYS", "WHOAMI", "DEL_TABLE"}

\* The command word, which a blank or the end of the line must follow.
determine_operation(s) ==
  LET w == Word(s, 1)
  IN  IF Len(w) = 1 /\ Head(w) \in Commands THEN Head(w) ELSE "ERROR"

parse_command(s) ==
  LET op   == determine_operation(s)
      args == SubSeq(s, NextWord(s, 1).next, Len(s))
  IN  CASE op = "ERROR"        -> Err("ER_INVALID_COMMAND")
        [] op = "CREATE"       -> parse_create(args)
        [] op = "ADD"          -> parse_add(args)
        [] op = "UP"           -> parse_up(args)
        [] op = "GET"          -> parse_get(args)
        [] op = "DEL"          -> parse_del(args)
        [] op = "GET_ALL"      -> parse_get_all(args)
        [] op = "SEARCH"       -> parse_search(args)
        [] op = "COUNT"        -> parse_count(args)
        [] op = "CREATE_INDEX" -> parse_create_index(args)
        [] op = "AUTH"         -> parse_auth(args)
        [] op = "ADD_KEY"      -> parse_add_key(args)
        [] op = "DEL_KEY"      -> parse_del_key(args)
        [] op = "LIST_KEYS"    -> parse_list_keys
        [] op = "WHOAMI"       -> parse_whoami
        [] op = "DEL_TABLE"    -> parse_del_table(args)
=============================================================================
