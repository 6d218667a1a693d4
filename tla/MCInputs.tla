------------------------------ MODULE MCInputs ------------------------------
(***************************************************************************)
(* What comes in from outside: the calls of a client, with every string of *)
(* up to MaxText awkward symbols in them, and the options of the command   *)
(* line, in every order.  The two do not touch; part says which a          *)
(* behaviour is about.                                                     *)
(***************************************************************************)
EXTENDS Protocol, RuntimeConfig

CONSTANTS MaxText, MaxOptions

VARIABLE part

-----------------------------------------------------------------------------
(* Calls *)

MCNames   == {"t", "a", "n", "key"}
MCInts    == {"0", "1", "-1"}
MCDoubles == {"1.5", "1.0000001"}
MCSixDigits == ("1.5" :> "1.5") @@ ("1.0000001" :> "1")

Int1 == Scalar("int", <<"1">>)
Strings(symbols) ==
  {Scalar("string", s) : s \in UNION {[1 .. n -> symbols] : n \in 0 .. MaxText}}

\* What ends or separates values, what splits a line, and what opens a list,
\* each beside what is escaped.
Awkward ==
  Strings({"a", "bs", "quote", ",", "("})
    \cup Strings({" ", "cr", "quote"}) \cup Strings({"nl", "tab", "bs"})
    \cup Strings({"[", ")", "bs"})

MCValues ==
  Awkward \cup
  {Int1, Scalar("double", <<"1.5">>), Scalar("bool", <<"true">>), Scalar("string", <<"_">>),
   Scalar("NaN", <<"NaN">>), [type |-> "array", v |-> <<>>],
   [type |-> "array", v |-> <<Int1, Int1>>]}
  \cup {[type |-> "array", v |-> <<x, Scalar("string", <<"n", "nl">>)>>] : x \in Strings({"bs", " ", "]"})}

MCUpdates == MCValues \cup {[type |-> "append", v |-> <<x>>] : x \in {Int1} \cup Strings({"tab", "]"})}

MCFieldLists == {<<>>, <<<<"a">>>>, <<<<"n">>, <<"a">>>>}

table == <<"t">>

MCSchema ==
  <<[type |-> <<"string">>, name |-> <<"a">>], [type |-> <<"string[]">>, name |-> <<"n">>],
    [type |-> <<"double[]">>, name |-> <<"t">>]>>

MCCalls ==
  {[op |-> "ADD", db |-> table, key |-> k, vals |-> <<x, y>>] :
     k \in {<<"*">>, <<"1">>}, x \in MCValues, y \in {Int1, Scalar("string", <<",", "a">>)}}
  \cup {[op |-> "UP", db |-> table, key |-> <<"1">>, vals |-> <<y, x>>] :
          x \in MCUpdates, y \in {Int1, Scalar("string", <<"_">>)}}
  \cup {[op |-> "SEARCH", db |-> table, field |-> <<"a">>, val |-> x, fields |-> f] :
          x \in Awkward \cup {Int1}, f \in MCFieldLists}
  \cup {[op |-> "GET", db |-> table, key |-> <<"1">>, fields |-> f] : f \in MCFieldLists}
  \cup {[op |-> "GET_ALL", db |-> table, fields |-> f] : f \in MCFieldLists}
  \cup {[op |-> "CREATE", db |-> table, fields |-> Tail(MCSchema)],
        [op |-> "DEL", db |-> table, key |-> <<"1">>],
        [op |-> "COUNT", db |-> table], [op |-> "DEL_TABLE", db |-> table],
        [op |-> "CREATE_INDEX", db |-> table, field |-> <<"a">>],
        [op |-> "AUTH", token |-> <<"n">>],
        [name |-> <<"a">>, op |-> "ADD_KEY", role |-> <<"readonly">>],
        [name |-> <<"a">>, op |-> "DEL_KEY"],
        [op |-> "LIST_KEYS"], [op |-> "WHOAMI"]}

\* Lines with one symbol too few, too many or wrong, and lines at the limits.
Field(type, name) == [type |-> <<type>>, name |-> <<name>>]

MCBases ==
  {Build(c) : c \in
    {[op |-> "CREATE", db |-> table,
      fields |-> <<Field("int", "a"), Field("string[]", "n"), Field("bool", "t")>>],
     [op |-> "CREATE", db |-> table, fields |-> <<Field("int", "key"), Field("int", "a")>>],
     [op |-> "ADD", db |-> table, key |-> <<"*">>,
      vals |-> <<[type |-> "array", v |-> <<Int1, Int1, Int1>>]>>],
     [op |-> "UP", db |-> table, key |-> <<"1">>,
      vals |-> <<Scalar("string", [k \in 1 .. 5 |-> "a"]), Scalar("string", <<"_">>),
                 [type |-> "append", v |-> <<Scalar("string", <<"a">>)>>]>>],
     [op |-> "GET", db |-> table, key |-> <<"1">>, fields |-> <<<<"a">>, <<"n">>>>],
     [op |-> "GET", db |-> table, key |-> <<"1">>, fields |-> <<>>],
     [op |-> "GET_ALL", db |-> table, fields |-> <<<<"a">>>>],
     [op |-> "SEARCH", db |-> table, field |-> <<"a">>, val |-> Int1, fields |-> <<<<"n">>>>],
     [op |-> "DEL", db |-> table, key |-> <<"1">>],
     [op |-> "COUNT", db |-> table], [op |-> "CREATE_INDEX", db |-> table, field |-> <<"a">>],
     [op |-> "AUTH", token |-> <<"n">>],
     [name |-> <<"a">>, op |-> "ADD_KEY", role |-> <<"admin">>],
     [name |-> <<"a">>, op |-> "DEL_KEY"]}}
  \cup {<<"ADD", " ", "t", " ", "*", " ", "(", "[", "[", "1", ",", "1", "]", ",",
          "[", "...+", "1", "]", "]", ")">>}

Typos == {" ", ",", "(", ")", "]", "quote", "a", "1", "1.5", "true", "_", "key"}

MCTypos ==
  UNION {{RemoveAt(l, k) : k \in DOMAIN l}
         \cup {ReplaceAt(l, k, c) : k \in DOMAIN l, c \in Typos}
         \cup {InsertAt(l, k, c) : k \in DOMAIN l, c \in Typos} : l \in MCBases}

\* Keywords and numbers are one symbol each, so no two of them touch.
Separate(l) ==
  LET Solid == MCInts \cup MCDoubles \cup Commands \cup FieldTypes \cup {"true", "admin"}
  IN  \A k \in 1 .. Len(l) - 1 :
        (l[k] \in Solid => l[k + 1] \notin Solid \cup MCNames \cup {"_"})
          /\ (l[k + 1] \in Solid => l[k] \notin MCNames \cup {"_"})

MCRawLines == MCBases \cup {l \in MCTypos : Separate(l)}

MCRow(x, list, reals) ==
  [values |-> <<x, [type |-> "string[]", v |-> list], [type |-> "double[]", v |-> reals]>>,
   created_at |-> <<"1">>, updated_at |-> <<"0">>]

MCTables ==
  {<<>>}
  \cup {<<MCRow(x, <<<<"a">>, <<"]", "bs">>>>, <<>>)>> : x \in Strings({"a", "|", " "})}
  \cup {<<MCRow(Scalar("string", <<"a">>), l, <<<<"1.5">>>>),
           MCRow(Scalar("string", <<>>), <<>>, <<<<d>>, <<"1.5">>>>)>> :
          d \in MCDoubles,
          l \in {<<>>, <<<<>>>>, <<<<",">>>>, <<<<",", " ">>>>, <<<<"quote">>, <<"nl">>>>}}

MCKeyNames == {<<"a">>, <<"1">>}

-----------------------------------------------------------------------------
(* Command lines *)

MCNumber == ("0" :> 0) @@ ("1" :> 1) @@ ("65535" :> 65535) @@ ("65536" :> 65536)

Entry(set, val) == [set |-> set, val |-> val]

MCFiles ==
  [full    |-> <<Entry("port", "1"), Entry("other", "x"), Entry("autosaveEnabled", "off"),
                 Entry("maxConnections", "65536"), Entry("port", "65535"),
                 Entry("snapshotPath", "x"), Entry("autosaveIntervalMs", "1"),
                 Entry("logLevel", "debug")>>,
   empty   |-> <<>>,
   bad     |-> <<Entry("port", "65536"), Entry("port", "1")>>,
   missing |-> Unreadable]

Opt(o, v, f) == [val |-> v, opt |-> o, form |-> f]

MCOptions ==
  {Opt("f", path, form) : path \in DOMAIN MCFiles, form \in {"alone", "eq", "joined"}}
  \cup {Opt("p", v, form) : v \in {"0", "1", "65535", "65536"}, form \in {"alone", "eq", "joined"}}
  \cup {Opt("a", v, "alone") : v \in {"on", "no", "x"}}
  \cup {Opt("l", v, "eq") : v \in {"debug", "x"}}
  \cup {Opt("s", v, "alone") : v \in {"", "x", "long"}}
  \cup {Opt("i", v, "joined") : v \in {"0", "1"}}
  \cup {Opt("m", v, "alone") : v \in {"0", "65536"}}
  \cup {Opt("h", NoText, "alone"), Opt(NoText, "x", "alone"), Opt("?", NoText, "alone")}

MCCommandLines == UNION {[1 .. n -> MCOptions] : n \in 0 .. MaxOptions}

-----------------------------------------------------------------------------

InputsInit == part \in {"calls", "options"} /\ ProtocolInit /\ ConfigInit

InputsNext ==
  \/ part = "calls" /\ ProtocolNext /\ UNCHANGED <<part, started>>
  \/ part = "options" /\ ConfigNext /\ UNCHANGED <<part, protocolVars>>

InputsSpec == InputsInit /\ [][InputsNext]_<<protocolVars, started, part>>
=============================================================================
