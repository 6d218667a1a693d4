--------------------------- MODULE MCOperations ---------------------------
(***************************************************************************)
(* Small instances of Operations: tables of a string and an int array,     *)
(* two string values and one array element.                                *)
(***************************************************************************)
EXTENDS Operations

CONSTANTS t1, t2

Text(n)   == [type |-> "string", v |-> n]
Number(n) == [type |-> "int", v |-> n]

A == ScalarLiteral(Text(1))
B == ScalarLiteral(Text(2))
One == ScalarLiteral(Number(1))
Empty == ArrayLiteral(<<>>)
Ones  == ArrayLiteral(<<Number(1)>>)
Push  == AppendLiteral(Number(1))

\* Instance for the updates and the indexes.
UpSchemas   == {<<"string", "int[]">>}
UpAddValues == {<<A, Empty>>}
UpUpValues  == {<<B, Push>>, <<Ignored, Ones>>}
UpKeyArgs   == {1}
UpSearchValues == {Text(1), Text(2)}

\* Instance for the keys, the counters and the refusals: the second schema
\* has one field too many, the last value list one value too few.
KeySchemas   == {<<"int[]">>, <<"string", "string">>}
KeyAddValues == {<<Empty>>, <<Push>>, <<A>>, <<>>}
KeyUpValues  == {<<A>>, <<>>, <<Ones>>}
KeyKeyArgs   == {-1, 0, 1, 3}
KeySearchValues == {Number(1)}

AllFields == {{}}
SomeFields == {{}, {2}}
=============================================================================
