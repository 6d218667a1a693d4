------------------------------- MODULE RowSet -------------------------------
(***************************************************************************)
(* What the rest of the database relies on when it uses the row map        *)
(* (include/utils/hashmap.h): a partial function from keys to rows, and a  *)
(* scan that returns every row exactly once, in any order, and then NULL.  *)
(***************************************************************************)
EXTENDS Integers

CONSTANTS Keys, Rows

VARIABLES
  rows,    \* the rows by key
  unread,  \* the keys that the scan under way has still to return
  scan,    \* a scan is under way
  out      \* what the last call returned

rowSetVars == <<rows, unread, scan, out>>

\* What a call returns: a code, or a row (NULL when there is none).
NULL        == <<>>
OK          == [code |-> 0, row |-> NULL]
FAILED      == [code |-> -1, row |-> NULL]
Result(row) == [code |-> 0, row |-> row]

\* A row as the map hands it out, with the key that is its first value.
Entry(k) == <<k, rows[k]>>

\* No rows.
Empty == [k \in {} |-> NULL]

RowSetInit == rows = Empty /\ unread = {} /\ scan = FALSE /\ out = OK

\* A call other than those of the scan gives up the scan.
NoScan == unread' = {} /\ scan' = FALSE

\* A new key is added, unless memory runs out.
Insert(k, r) ==
  /\ k \notin DOMAIN rows
  /\ \/ rows' = [j \in DOMAIN rows \cup {k} |-> IF j = k THEN r ELSE rows[j]] /\ out' = OK
     \/ rows' = rows /\ out' = FAILED
  /\ NoScan

Write(k, r) ==
  /\ IF k \in DOMAIN rows THEN rows' = [rows EXCEPT ![k] = r] /\ out' = OK
     ELSE rows' = rows /\ out' = FAILED
  /\ NoScan

Remove(k) ==
  /\ rows' = [j \in DOMAIN rows \ {k} |-> rows[j]]
  /\ out' = IF k \in DOMAIN rows THEN Result(Entry(k)) ELSE FAILED
  /\ NoScan

Find(k) ==
  /\ out' = Result(IF k \in DOMAIN rows THEN Entry(k) ELSE NULL)
  /\ NoScan /\ UNCHANGED rows

Clear == rows' = Empty /\ out' = OK /\ NoScan

\* One of the rows that are left is returned, or NULL at the end.
Return(keys) ==
  /\ \/ \E k \in keys : out' = Result(Entry(k)) /\ unread' = keys \ {k} /\ scan' = TRUE
     \/ keys = {} /\ out' = Result(NULL) /\ unread' = {} /\ scan' = FALSE
  /\ UNCHANGED rows

First == Return(DOMAIN rows)
Next  == scan /\ Return(unread)

RowSetNext ==
  \/ First \/ Next \/ Clear
  \/ \E k \in Keys : Remove(k) \/ Find(k) \/ \E r \in Rows : Insert(k, r) \/ Write(k, r)

RowSetSpec == RowSetInit /\ [][RowSetNext]_rowSetVars
=============================================================================
