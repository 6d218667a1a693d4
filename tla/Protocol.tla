------------------------------ MODULE Protocol ------------------------------
(***************************************************************************)
(* A call of the JavaScript client, from its arguments to its result: the  *)
(* client writes the command line (js-client/src/protocol), the server     *)
(* parses it (Parser) and answers with a code, a message or a table        *)
(* (src/db/operations.c), and the client reads the answer                  *)
(* (js-client/src/net/response-discriminator.ts, parsers/table.ts).        *)
(*                                                                         *)
(* A call has the shape of the command it stands for, with the client's    *)
(* values in it: [type, v] as in Parser, "array" for an array whose        *)
(* elements are values, "append" for {arrayAppend: value}.  What the       *)
(* server finds in the table is chosen from Tables; Operations models it.  *)
(***************************************************************************)
EXTENDS Parser, TLC

CONSTANTS
  Calls,      \* the calls the client makes
  RawLines,   \* lines typed by hand
  Schema,     \* the fields of the table: a sequence of [type, name]
  Tables,     \* the rows an answer may hold: sequences of rows
  KeyNames,   \* names of auth keys
  SixDigits,  \* what the format %.6g makes of a double
  DISPLAY_MAX \* characters of a string that build_data_row shows

VARIABLES
  phase,   \* who acts next
  call,    \* the client's call
  line,    \* the line on the wire
  cmd,     \* what parse_command made of it
  found,   \* the rows or keys the answer is made from
  reply,   \* the answer on the wire
  result   \* what the call returns or throws

protocolVars == <<phase, call, line, cmd, found, reply, result>>

Nothing == [op |-> "none"]

-----------------------------------------------------------------------------
(* The client writes the line *)

Replaced(s, c, by) == FlattenSeq([i \in DOMAIN s |-> IF s[i] = c THEN by ELSE <<s[i]>>])

\* Backslashes first, then what a backslash stands in front of.
escapeString(v) ==
  Replaced(Replaced(Replaced(Replaced(Replaced(v, "bs", <<"bs", "bs">>),
    "nl", <<"bs", "n">>), "cr", <<"bs", "r">>), "tab", <<"bs", "t">>),
    "quote", <<"bs", "quote">>)

\* A number that is not finite is written as 0.
formatScalar(x) ==
  CASE x.type = "string" -> <<"quote">> \o escapeString(x.v[1]) \o <<"quote">>
    [] x.type = "NaN"    -> <<"0">>
    [] OTHER             -> x.v[1]

Joined(parts) ==
  FlattenSeq([k \in DOMAIN parts |-> IF k = 1 THEN parts[k] ELSE <<",", " ">> \o parts[k]])

formatArray(values) ==
  <<"[">> \o Joined([k \in DOMAIN values |-> formatScalar(values[k])]) \o <<"]">>

formatArrayAppend(x) == <<"[", "...+">> \o formatScalar(x) \o <<"]">>

formatValue(x) == IF x.type = "array" THEN formatArray(x.v) ELSE formatScalar(x)

\* In UP the string "_" stands for a field to leave alone.
IsIgnore(x) == x.type = "string" /\ x.v[1] = <<"_">>

formatUpdateValue(x) ==
  CASE IsIgnore(x)       -> <<"_">>
    [] x.type = "array"  -> formatArray(x.v)
    [] x.type = "append" -> formatArrayAppend(x.v[1])
    [] OTHER             -> formatScalar(x)

fieldsSegment(fields) ==
  IF fields = <<>> THEN <<>> ELSE <<" ", "(">> \o Joined(fields) \o <<")">>

\* The words of a command with a blank between them.
Spaced(words) ==
  FlattenSeq([k \in DOMAIN words |-> IF k = 1 THEN words[k] ELSE <<" ">> \o words[k]])

Build(c) ==
  LET List(parts) == <<"(">> \o Joined(parts) \o <<")">>
      op          == <<c.op>>
  IN  CASE c.op = "CREATE" ->
             Spaced(<<op, c.db, List([k \in DOMAIN c.fields |->
                                        Spaced(<<c.fields[k].type, c.fields[k].name>>)])>>)
        [] c.op = "ADD" ->
             Spaced(<<op, c.db, c.key, List([k \in DOMAIN c.vals |-> formatValue(c.vals[k])])>>)
        [] c.op = "UP" ->
             Spaced(<<op, c.db, c.key, List([k \in DOMAIN c.vals |-> formatUpdateValue(c.vals[k])])>>)
        [] c.op = "GET" -> Spaced(<<op, c.db, c.key>>) \o fieldsSegment(c.fields)
        [] c.op = "GET_ALL" -> Spaced(<<op, c.db>>) \o fieldsSegment(c.fields)
        [] c.op = "SEARCH" ->
             Spaced(<<op, c.db, c.field, formatScalar(c.val)>>) \o fieldsSegment(c.fields)
        [] c.op = "DEL" -> Spaced(<<op, c.db, c.key>>)
        [] c.op \in {"COUNT", "DEL_TABLE"} -> Spaced(<<op, c.db>>)
        [] c.op = "CREATE_INDEX" -> Spaced(<<op, c.db, c.field>>)
        [] c.op = "AUTH" -> Spaced(<<op, c.token>>)
        [] c.op = "ADD_KEY" -> Spaced(<<op, c.name, c.role>>)
        [] c.op = "DEL_KEY" -> Spaced(<<op, c.name>>)
        [] c.op \in {"LIST_KEYS", "WHOAMI"} -> op

\* A line is a sequence of symbols, whoever writes it.
ASSUME ProtocolAssumption ==
  (\A c \in Calls : Build(c) \in Seq(STRING)) /\ RawLines \subseteq Seq(STRING)

-----------------------------------------------------------------------------
(* The server writes the answer *)

\* A value as a text, arrays by array_value_to_str.
Printed(x) ==
  LET List(parts) == <<"[">> \o Joined(parts) \o <<"]">>
  IN  CASE x.type \in {"int[]", "bool[]"} -> List(x.v)
        [] x.type = "double[]" -> List([k \in DOMAIN x.v |-> <<SixDigits[x.v[k][1]]>>])
        [] x.type = "string[]" ->
             List([k \in DOMAIN x.v |-> <<"quote">> \o x.v[k] \o <<"quote">>])
        [] x.type = "double" -> <<SixDigits[x.v[1][1]]>>
        [] OTHER -> x.v[1]

\* What a cell shows of it: a string goes through a buffer that may cut it.
Shown(x) ==
  IF x.type = "string" THEN SubSeq(x.v[1], 1, Min({Len(x.v[1]), DISPLAY_MAX})) ELSE Printed(x)

\* A line of the table: each cell padded to the width of its column.
TableLine(cells, width) ==
  LET Cell(k) == <<" ">> \o cells[k] \o [j \in 1 .. width[k] - Len(cells[k]) |-> " "] \o <<" ", "|">>
  IN  <<"|">> \o FlattenSeq([k \in DOMAIN cells |-> Cell(k)]) \o <<"nl">>

Rule(width) ==
  <<"|">> \o FlattenSeq([k \in DOMAIN width |-> [j \in 1 .. width[k] + 2 |-> "-"] \o <<"|">>])
    \o <<"nl">>

\* A header, a rule and the rows.
FormatTable(headers, rows, width) ==
  TableLine(headers, width) \o Rule(width)
    \o FlattenSeq([r \in DOMAIN rows |-> TableLine(rows[r], width)])

Timestamps == <<<<"time_created">>, <<"time_updated">>>>

\* The fields a query shows: those it names, or all.
Columns(fields) ==
  IF fields = <<>> THEN [k \in DOMAIN Schema |-> k]
  ELSE [k \in DOMAIN fields |-> Min({j \in DOMAIN Schema : Schema[j].name = fields[k]})]

KnownFields(fields) ==
  \A k \in DOMAIN fields : \E j \in DOMAIN Schema : Schema[j].name = fields[k]

\* format_row_as_table, format_rows_as_table and format_search_results: the
\* chosen fields and the two timestamps, in columns wide enough for the
\* whole values.
FormatRows(fields, rows) ==
  LET cols    == Columns(fields)
      headers == [k \in DOMAIN cols |-> Schema[cols[k]].name] \o Timestamps
      Line(Text(_), r) == [k \in DOMAIN cols |-> Text(rows[r].values[cols[k]])]
                            \o <<rows[r].created_at, rows[r].updated_at>>
      width   == [k \in DOMAIN headers |->
                    Max({Len(headers[k])} \cup {Len(Line(Printed, r)[k]) : r \in DOMAIN rows})]
  IN  IF rows = <<>> THEN <<"(No rows)", "nl">>
      ELSE FormatTable(headers, [r \in DOMAIN rows |-> Line(Shown, r)], width)

FormatKeys(keys) ==
  LET Unpadded(cells) == TableLine(cells, [k \in DOMAIN cells |-> 0])
  IN  Unpadded(<<<<"name">>, <<"role">>>>) \o Unpadded(<<<<"-">>, <<"-">>>>)
        \o FlattenSeq([k \in DOMAIN keys |-> Unpadded(<<keys[k].name, keys[k].role>>)])

Codes    == {<<"1">>, <<"-1">>}
Refusals == {<<"ERR", " ", "denied">>, <<"failed">>}

QueryOps == {"GET", "GET_ALL", "SEARCH"}

-----------------------------------------------------------------------------
(* The client reads the answer *)

Spaces == {" ", "nl", "cr", "tab"}

trim(s) ==
  LET kept == {k \in DOMAIN s : s[k] \notin Spaces}
  IN  IF kept = {} THEN <<>> ELSE SubSeq(s, Min(kept), Max(kept))

\* The pieces between the occurrences of a separator, none of which overlaps
\* another.
split(s, sep) ==
  LET n    == Len(sep)
      cuts == {k \in 1 .. Len(s) - n + 1 : SubSeq(s, k, k + n - 1) = sep}
      Cut(j) == CHOOSE k \in cuts : Cardinality({c \in cuts : c < k}) = j - 1
      From(j) == IF j = 1 THEN 1 ELSE Cut(j - 1) + n
      To(j)   == IF j > Cardinality(cuts) THEN Len(s) ELSE Cut(j) - 1
  IN  [j \in 1 .. Cardinality(cuts) + 1 |-> SubSeq(s, From(j), To(j))]

\* A mutant: the empty piece before the first bar is kept.
splitCells_KeepsFirst(l) ==
  LET t == trim(l)
      pieces == split(t, <<"|">>)
  IN  IF t = <<>> \/ Head(t) # "|" \/ Last(t) # "|" THEN <<>>
      ELSE [k \in 1 .. Len(pieces) - 1 |-> trim(pieces[k])]

splitCells(l) ==
  LET t == trim(l)
      pieces == split(t, <<"|">>)
  IN  IF t = <<>> \/ Head(t) # "|" \/ Last(t) # "|" THEN <<>>
      ELSE [k \in 1 .. Len(pieces) - 2 |-> trim(pieces[k + 1])]

Throws(why) == [kind |-> "throws", value |-> why]

\* The lines but the second, each by the names of the header.
parseTable(raw) ==
  LET Filled(l) == trim(l) # <<>>
      lines   == SelectSeq(split(raw, <<"nl">>), Filled)
      headers == splitCells(lines[1])
      Named(l) ==
        LET cells == splitCells(l)
        IN  [h \in ToSet(headers) |->
               LET k == Max({j \in DOMAIN headers : headers[j] = h})
               IN  IF k \in DOMAIN cells THEN cells[k] ELSE <<>>]
      IsRow(l) == splitCells(l) # <<>>
      rows == SelectSeq(SubSeq(lines, 3, Len(lines)), IsRow)
  IN  IF trim(raw) = <<"(No rows)">> THEN [kind |-> "table", value |-> <<>>]
      ELSE IF Len(lines) < 2 \/ headers = <<>> THEN Throws("Invalid table response")
      ELSE [kind |-> "table", value |-> [k \in DOMAIN rows |-> Named(rows[k])]]

discriminateResponse(raw) ==
  LET text == trim(raw)
  IN  IF text = <<>> THEN Throws("Empty response")
      ELSE IF Len(text) = 1 /\ Head(text) \in Ints THEN [kind |-> "code", value |-> text]
      ELSE IF Head(text) = "|" \/ text = <<"(No rows)">> THEN parseTable(raw)
      ELSE [kind |-> "message", value |-> text]

parseArrayString(raw) ==
  LET from  == IF raw # <<>> /\ Head(raw) = "[" THEN 2 ELSE 1
      to    == IF raw # <<>> /\ Last(raw) = "]" THEN Len(raw) - 1 ELSE Len(raw)
      inner == SubSeq(raw, from, to)
      Bare(v) == IF v # <<>> /\ Head(v) = "quote" /\ Last(v) = "quote"
                   THEN SubSeq(v, 2, Len(v) - 1) ELSE v
      items == split(inner, <<",", " ">>)
  IN  IF inner = <<>> THEN <<>> ELSE [k \in DOMAIN items |-> Bare(items[k])]

coerceValue(text, type) ==
  CASE type \in {"int[]", "double[]", "bool[]", "string[]"} ->
         [type |-> type, v |-> parseArrayString(text)]
    [] type = "bool" -> Scalar(type, IF text = <<"true">> THEN text ELSE <<"false">>)
    [] OTHER -> Scalar(type, text)

\* Each cell by the type its field has in the schema.
coerceTable(rows) ==
  LET Typed(h, text) ==
        IF \E k \in DOMAIN Schema : Schema[k].name = h
          THEN coerceValue(text, (CHOOSE f \in ToSet(Schema) : f.name = h).type[1])
          ELSE Scalar("int", text)
  IN  [r \in DOMAIN rows |-> [h \in DOMAIN rows[r] |-> Typed(h, rows[r][h])]]

assertCode(response) ==
  CASE response.kind = "code"    -> [kind |-> "returns", value |-> response.value]
    [] response.kind = "message" -> Throws(response.value)
    [] response.kind = "table"   -> Throws("Expected code response")
    [] response.kind = "throws"  -> response

assertTypedTable(response, typed) ==
  CASE response.kind = "table" ->
         [kind |-> "returns",
          value |-> IF typed THEN coerceTable(response.value) ELSE response.value]
    [] response.kind = "message" -> Throws(response.value)
    [] response.kind = "code"    -> Throws("Expected table response")
    [] response.kind = "throws"  -> response

\* addKey and whoami: a text that does not begin with ERR is the result; a
\* code is asserted to be one, and the result is empty.
PlainText(response) ==
  IF response.kind = "message" /\ Head(response.value) # "ERR"
    THEN [kind |-> "returns", value |-> response.value]
  ELSE IF response.kind = "code" THEN [kind |-> "returns", value |-> <<>>]
  ELSE assertCode(response)

-----------------------------------------------------------------------------
(* The exchange *)

ProtocolInit ==
  /\ phase = "idle"
  /\ call = Nothing /\ cmd = Nothing
  /\ line = <<>> /\ found = <<>> /\ reply = <<>>
  /\ result = Nothing

ClientSends ==
  /\ phase = "idle"
  /\ \E c \in Calls : call' = c /\ line' = Build(c)
  /\ phase' = "sent"
  /\ UNCHANGED <<cmd, found, reply, result>>

\* A line from another client than this one.
TypedByHand ==
  /\ phase = "idle"
  /\ line' \in RawLines
  /\ phase' = "sent"
  /\ UNCHANGED <<call, cmd, found, reply, result>>

ServerParses ==
  /\ phase = "sent"
  /\ cmd' = parse_command(line)
  /\ phase' = "parsed"
  /\ UNCHANGED <<call, line, found, reply, result>>

Answers(text) ==
  /\ reply' = text
  /\ phase' = "answered"
  /\ UNCHANGED <<call, line, cmd, result>>

\* The line is refused by the parser, by the rights of the connection or by
\* the operation.
ServerRefuses ==
  /\ phase = "parsed"
  /\ \E text \in Refusals : Answers(text)
  /\ UNCHANGED found

ServerReportsCode ==
  /\ phase = "parsed"
  /\ cmd.op \notin QueryOps \cup {"ERROR", "LIST_KEYS", "WHOAMI", "ADD_KEY"}
  /\ \E code \in Codes : Answers(code \o <<"nl">>)
  /\ UNCHANGED found

ServerSendsRows ==
  /\ phase = "parsed"
  /\ cmd.op \in QueryOps
  /\ KnownFields(cmd.fields)
  /\ \E rows \in Tables :
       /\ cmd.op = "GET" => Len(rows) = 1
       /\ found' = rows
       /\ Answers(FormatRows(cmd.fields, rows))

ServerSendsKeys ==
  /\ phase = "parsed"
  /\ cmd.op = "LIST_KEYS"
  /\ \E name \in KeyNames, role \in {<<"admin">>, <<"readonly">>} :
       /\ found' = <<[name |-> name, role |-> role]>>
       /\ Answers(FormatKeys(found'))

\* The token of a new key, or the name of the connection's own.
ServerSendsText ==
  /\ phase = "parsed"
  /\ cmd.op \in {"WHOAMI", "ADD_KEY"}
  /\ \E name \in KeyNames : found' = name /\ Answers(name)

ClientReads ==
  /\ phase = "answered"
  /\ call # Nothing
  /\ LET response == discriminateResponse(reply)
     IN  result' = CASE call.op \in QueryOps             -> assertTypedTable(response, TRUE)
                     [] call.op = "LIST_KEYS"            -> assertTypedTable(response, FALSE)
                     [] call.op \in {"ADD_KEY", "WHOAMI"} -> PlainText(response)
                     [] OTHER                            -> assertCode(response)
  /\ phase' = "done"
  /\ UNCHANGED <<call, line, cmd, found, reply>>

\* The caller has its result, or the reader the answer; nothing is kept.
CallEnds ==
  /\ phase = "done" \/ (phase = "answered" /\ call = Nothing)
  /\ phase' = "idle"
  /\ call' = Nothing /\ cmd' = Nothing
  /\ line' = <<>> /\ found' = <<>> /\ reply' = <<>>
  /\ result' = Nothing

ProtocolNext ==
  \/ ClientSends \/ TypedByHand \/ ServerParses \/ ServerRefuses \/ ServerReportsCode
  \/ ServerSendsRows \/ ServerSendsKeys \/ ServerSendsText \/ ClientReads \/ CallEnds

ProtocolSpec == ProtocolInit /\ [][ProtocolNext]_protocolVars
-----------------------------------------------------------------------------
(* Properties *)

\* The command a call stands for; a number that is not finite means 0.
MeantValue(op, x) ==
  CASE op = "UP" /\ IsIgnore(x) -> Ignore
    [] x.type = "array" ->
         [type |-> IF x.v = <<>> THEN "int[]" ELSE ArrayOf(x.v[1].type),
          v    |-> [k \in DOMAIN x.v |-> x.v[k].v[1]]]
    [] x.type = "NaN" -> Scalar("int", <<"0">>)
    [] x.type = "append" -> [type |-> AppendTo(x.v[1].type), v |-> x.v[1].v]
    [] OTHER -> x

MeantCommand(c) ==
  CASE c.op \in {"ADD", "UP"} ->
         [c EXCEPT !.vals = [k \in DOMAIN @ |-> MeantValue(c.op, @[k])]]
    [] OTHER -> c

\* The texts of a value.
Texts(x) ==
  CASE x.type = "string" -> {x.v[1]}
    [] x.type \in {"array", "append"} -> {x.v[k].v[1] : k \in DOMAIN x.v}
    [] OTHER -> {}

\* Between parentheses the parser takes every text that does not end in a
\* backslash; one with a quote in it only as the last value, and without a
\* comma or a bracket.  In SEARCH it takes every text without a parenthesis.
Sendable(c) ==
  CASE c.op \in {"ADD", "UP"} ->
         \A k \in DOMAIN c.vals : \A text \in Texts(c.vals[k]) :
           /\ text = <<>> \/ Last(text) # "bs"
           /\ "quote" \in ToSet(text) =>
                /\ k = Len(c.vals) /\ c.vals[k].type = "string"
                /\ ToSet(text) \cap {",", "[", "]"} = {}
    [] c.op = "SEARCH" -> \A text \in Texts(c.val) : ToSet(text) \cap {"(", ")"} = {}
    [] OTHER -> TRUE

\* The server executes what the client was asked for: formatting a call
\* (commands.ts, escaping.ts) and parsing the line (parser.c) gives back the
\* operation with its table, key, fields and values, whatever blanks, commas,
\* brackets, backslashes or newlines the strings hold.
CommandsArrive ==
  phase = "parsed" /\ call # Nothing /\ Sendable(call) => cmd = MeantCommand(call)

\* A string with an escaped quote is one value (test/test_parser.c:436-445):
\* the parser hands on as many values as the client sent.
ValuesArrive ==
  phase = "parsed" /\ call.op \in {"ADD", "UP"} /\ cmd.op = call.op
    => Len(cmd.vals) = Len(call.vals)

\* An array or an append inside an array is no text that a limit is about.
ValueWithinLimits(x) ==
  CASE x.type = "string" -> Len(x.v[1]) <= MAX_STRING_VALUE_LENGTH
    [] x.type = "string[]" ->
         /\ Len(x.v) <= MAX_LITERAL_LENGTH
         /\ \A k \in DOMAIN x.v : x.v[k] = Misread \/ Len(x.v[k]) <= MAX_STRING_VALUE_LENGTH
    [] x.type \in {"int[]", "double[]", "bool[]"} -> Len(x.v) <= MAX_LITERAL_LENGTH
    [] OTHER -> TRUE

CommandWithinLimits(c) ==
  /\ "db" \in DOMAIN c => is_valid_identifier(c.db)
  /\ "key" \in DOMAIN c => IsInt(c.key) \/ (c.op = "ADD" /\ c.key = <<"*">>)
  /\ "vals" \in DOMAIN c =>
       c.vals # <<>> /\ \A k \in DOMAIN c.vals : ValueWithinLimits(c.vals[k])
  /\ c.op = "SEARCH" => is_valid_identifier(c.field) /\ ValueWithinLimits(c.val)
  /\ c.op = "CREATE" =>
       /\ c.fields # <<>> /\ Len(c.fields) <= MAX_FIELDS
       /\ \A k \in DOMAIN c.fields :
            is_valid_identifier(c.fields[k].name) /\ c.fields[k].name # <<"key">>
  /\ c.op \in QueryOps => \A k \in DOMAIN c.fields : is_valid_identifier(c.fields[k])

\* Whatever line comes in, the operations get what they rely on without
\* checking it again: names that are identifiers, a key that is an integer,
\* at least one value, no field called "key" and no more fields, elements or
\* characters than the limits of data_model.h.
AcceptedWithinLimits ==
  phase = "parsed" /\ cmd.op # "ERROR" => CommandWithinLimits(cmd)

\* What the table format can carry: no bar and no line break, no blank at the
\* edge of a cell, no separator in an element, no string longer than the
\* buffer, no double of more than six digits.
Showable(x) ==
  CASE x.type = "string" ->
         /\ ToSet(x.v[1]) \cap {"|", "nl", "cr"} = {}
         /\ trim(x.v[1]) = x.v[1]
         /\ Len(x.v[1]) <= DISPLAY_MAX
    [] x.type = "string[]" ->
         \A k \in DOMAIN x.v : /\ ToSet(x.v[k]) \cap {"|", "nl", "cr"} = {}
                               /\ Len(split(x.v[k], <<",", " ">>)) = 1
    [] x.type \in {"double", "double[]"} ->
         \A k \in DOMAIN x.v : SixDigits[x.v[k][1]] = x.v[k][1]
    [] OTHER -> TRUE

ExpectedRows(fields, rows) ==
  LET names == IF fields = <<>> THEN {f.name : f \in ToSet(Schema)} ELSE ToSet(fields)
      Cell(row, h) ==
        CASE h = <<"time_created">> -> Scalar("int", row.created_at)
          [] h = <<"time_updated">> -> Scalar("int", row.updated_at)
          [] OTHER -> row.values[CHOOSE k \in DOMAIN Schema : Schema[k].name = h]
  IN  [r \in DOMAIN rows |->
         [h \in names \cup {<<"time_created">>, <<"time_updated">>} |-> Cell(rows[r], h)]]

\* The call ends as the server answered it: a refusal is thrown, a code or a
\* key's name is returned, and the rows of a table come back field by field
\* with their values and types, whatever the widths of its columns
\* (build_data_row and array_value_to_str against discriminateResponse,
\* parseTable and coerceValue).  addKey and whoami take a refusal that does
\* not begin with ERR for a result, and a name that is a number for a code.
AnswersUnderstood ==
  phase = "done" =>
    LET Returns(v) == result = [kind |-> "returns", value |-> v]
    IN  CASE reply \in Refusals ->
               \/ result.kind = "throws"
               \/ call.op \in {"ADD_KEY", "WHOAMI"} /\ Head(reply) # "ERR"
          [] reply \notin Refusals ->
               CASE call.op \in QueryOps ->
                      (\A r \in DOMAIN found : \A k \in DOMAIN Schema : Showable(found[r].values[k]))
                        => Returns(ExpectedRows(call.fields, found))
                 [] call.op = "LIST_KEYS" ->
                      Returns(<<(<<"name">> :> found[1].name @@ <<"role">> :> found[1].role)>>)
                 [] call.op \in {"ADD_KEY", "WHOAMI"} -> found \in {<<c>> : c \in Ints} \/ Returns(found)
                 [] OTHER -> Returns(trim(reply))
=============================================================================
