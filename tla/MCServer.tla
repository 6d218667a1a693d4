------------------------------ MODULE MCServer ------------------------------
(***************************************************************************)
(* Small instances of Server: one table of one int array, one value, up to *)
(* two rows, and a key range that a few rows exhaust.                      *)
(***************************************************************************)
EXTENDS Server

CONSTANTS t1, k1, k2

Ones == ArrayLiteral(<<[type |-> "int", v |-> 1]>>)

SrvSchemas   == {<<"int[]">>}
SrvAddValues == {<<Ones>>}
SrvKeyArgs   == {0}

\* A snapshot of version 1, with one row and no auth section.
OldFile ==
  [image |-> [version |-> 1,
              tables  |-> [n \in {t1} |->
                             [schema |-> <<"int[]">>, count |-> 1,
                              rows   |-> <<[key |-> 1,
                                            row |-> [vals |-> <<Ones.elems>>,
                                                     created |-> 0, updated |-> 0]]>>]],
              keys    |-> <<>>],
   have  |-> 2]

NewInstall == {NoFile}
AnyInstall == {NoFile, OldFile}

\* No action reads reply or loaded, and tmp is read only between the steps of
\* a save.
ServerView ==
  <<dbs, clock, keys, proc, save, elapsed, stopping, path, media, saved,
    IF proc = "saving" /\ save.step # "open" THEN tmp ELSE NoFile>>
=============================================================================
