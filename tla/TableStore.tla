----------------------------- MODULE TableStore -----------------------------
(***************************************************************************)
(* What a client may rely on when it sends commands to poudb               *)
(* (src/include/db/operations.h): named tables that map keys to rows.      *)
(* There are no counters, no indexes and no hash maps here; Operations is  *)
(* shown to implement this.                                                *)
(*                                                                         *)
(* Two things are less than one would like, and are therefore part of the  *)
(* promise.  A refused UP may leave its row half written, and a SEARCH for *)
(* a field that it wrote may then show other rows, until the next change   *)
(* of the table or a new index on the field (torn).  Automatic keys rise   *)
(* above all keys of the table only until the highest int was used (worn). *)
(***************************************************************************)
EXTENDS Integers, Sequences, FiniteSets

CONSTANTS
  Names, Schemas, AddValues, UpValues, KeyArgs, SearchValues, FieldLists,
  Keys,  \* the ints
  MAX_ROW_CAPACITY, MAX_FIELDS_PER_DB, MAX_ARRAY_LENGTH, MAX_DB_COUNT,
  MallocFails

VARIABLES
  tables, \* by name: the schema, the rows, and what is torn and worn
  answer, \* to the last command
  now

storeVars == <<tables, answer, now>>

-----------------------------------------------------------------------------
(* Values *)

Skipped == [size |-> "_", elems |-> <<>>, append |-> FALSE]

Arrays == {"int[]", "double[]", "bool[]", "string[]"}

Takes(type, lit) == lit.size = type \/ (type \in Arrays /\ lit.size = "int[]")

\* The values of a row, for as many fields as there are.
Valid(schema, lits) ==
  Len(lits) = Len(schema) /\ \A f \in DOMAIN lits : Takes(schema[f], lits[f])

ValidChange(schema, lits) ==
  /\ Len(lits) = Len(schema)
  /\ \A f \in DOMAIN lits : lits[f] = Skipped \/ Takes(schema[f], lits[f])

\* A field after the change: as it was, one element longer, or replaced.
Changed(old, lit) ==
  IF lit = Skipped THEN old
  ELSE IF lit.append THEN Append(old, lit.elems[1]) ELSE lit.elems

Full(old, lit) == lit.append /\ Len(old) >= MAX_ARRAY_LENGTH

\* A new row has nothing to append to.
Initial(lit) == IF lit.append THEN <<>> ELSE lit.elems

-----------------------------------------------------------------------------
(* Tables and answers *)

Exists(n)     == n \in DOMAIN tables
Fields(table) == 0 .. Len(table.schema)

EmptyTable(schema) ==
  [schema |-> schema, rows |-> [k \in {} |-> [vals |-> <<>>, created |-> 0, updated |-> 0]],
   torn |-> {}, worn |-> FALSE]

\* The table after a change that went through.
Whole(table, rows) ==
  [schema |-> table.schema, rows |-> rows, torn |-> {}, worn |-> table.worn]

Inserted(rows, k, row) == [j \in DOMAIN rows \cup {k} |-> IF j = k THEN row ELSE rows[j]]

Put(n, table) == tables' = [tables EXCEPT ![n] = table]

\* The value of a field, 0 is the key; a search looks for one of the elements.
Holds(table, k, f, s) ==
  LET value == IF f = 0 THEN <<[type |-> "int", v |-> k]>> ELSE table.rows[k].vals[f]
  IN  \E i \in DOMAIN value : value[i] = s

Granted(op, n, req, code, keys) ==
  /\ answer' = [op |-> op, db |-> n, req |-> req, ok |-> TRUE, code |-> code, keys |-> keys]
  /\ UNCHANGED now

\* The client sees a message, whatever the code.
Denied(op, n, req) ==
  /\ answer' = [op |-> op, db |-> n, req |-> req, ok |-> FALSE, code |-> 0, keys |-> {}]
  /\ UNCHANGED now

\* A command may be refused without any effect for a reason, or for want of memory.
Refusal(op, n, req, reason) ==
  /\ Denied(op, n, req)
  /\ ~Exists(n) \/ reason \/ MallocFails
  /\ UNCHANGED tables

-----------------------------------------------------------------------------
(* Commands *)

Create(n, schema) ==
  \/ /\ Denied("CREATE", n, <<>>)
     /\ \/ Exists(n) \/ MallocFails
        \/ Len(schema) > MAX_FIELDS_PER_DB
        \/ Cardinality(DOMAIN tables) >= MAX_DB_COUNT
     /\ UNCHANGED tables
  \/ /\ Granted("CREATE", n, <<>>, Len(schema), {})
     /\ ~Exists(n)
     /\ Len(schema) <= MAX_FIELDS_PER_DB
     /\ Cardinality(DOMAIN tables) < MAX_DB_COUNT
     /\ tables' = [m \in DOMAIN tables \cup {n} |->
                     IF m = n THEN EmptyTable(schema) ELSE tables[m]]

DropTable(n) ==
  \/ Denied("DEL_TABLE", n, <<>>) /\ ~Exists(n) /\ UNCHANGED tables
  \/ /\ Granted("DEL_TABLE", n, <<>>, 1, {})
     /\ Exists(n)
     /\ tables' = [m \in DOMAIN tables \ {n} |-> tables[m]]

\* Whether the key is chosen for the client.
Automatic(req) == req.auto \/ req.key < 0

\* The table has room for a row with these values.
Insertable(n, lits) ==
  /\ Exists(n) /\ Valid(tables[n].schema, lits)
  /\ Cardinality(DOMAIN tables[n].rows) < MAX_ROW_CAPACITY

\* A new row has a key that no row has: the one asked for, or one above all
\* others.  A row that is refused may still have used up a key.
Add(n, req, lits) ==
  \/ Refusal("ADD", n, req,
       \/ ~Valid(tables[n].schema, lits)
       \/ Cardinality(DOMAIN tables[n].rows) >= MAX_ROW_CAPACITY)
  \/ /\ Denied("ADD", n, req)
     /\ Insertable(n, lits)
     /\ \/ MallocFails
        \/ IF Automatic(req) THEN tables[n].worn ELSE req.key \in DOMAIN tables[n].rows
     /\ \E worn \in {tables[n].worn, TRUE} : Put(n, [tables[n] EXCEPT !.worn = worn])
  \/ \E k \in Keys :
       /\ Granted("ADD", n, req, IF req.auto THEN k ELSE req.key, {})
       /\ Insertable(n, lits)
       /\ k \notin DOMAIN tables[n].rows
       /\ IF Automatic(req)
            THEN tables[n].worn \/ (k > 0 /\ \A j \in DOMAIN tables[n].rows : j < k)
            ELSE k = req.key
       /\ \E worn \in {tables[n].worn, TRUE} :
            Put(n, Whole([tables[n] EXCEPT !.worn = worn],
                     Inserted(tables[n].rows, k,
                       [vals    |-> [f \in DOMAIN lits |-> Initial(lits[f])],
                        created |-> now, updated |-> now])))

\* The row after an UP that stopped in field f: the fields before f are
\* written, and the old value of f may be lost.
HalfWritten(table, key, lits, f, lost) ==
  LET old == table.rows[key].vals
      Written(g) == g < f \/ (g = f /\ lost)
      vals == [g \in DOMAIN table.schema |->
                 IF g < f THEN Changed(old[g], lits[g])
                 ELSE IF Written(g) THEN <<>> ELSE old[g]]
  IN  [schema |-> table.schema,
       rows   |-> [table.rows EXCEPT ![key].vals = vals],
       torn   |-> table.torn \cup {g \in DOMAIN table.schema : lits[g] # Skipped /\ Written(g)},
       worn   |-> table.worn]

\* The row is there and the values fit its fields.
Updatable(n, key, lits) ==
  Exists(n) /\ ValidChange(tables[n].schema, lits) /\ key \in DOMAIN tables[n].rows

\* No append to one of these fields is beyond the limit.
NoneFull(table, key, lits, fields) ==
  \A g \in fields : ~Full(table.rows[key].vals[g], lits[g])

Update(n, key, lits) ==
  LET req   == [key |-> key, lits |-> lits]
      table == tables[n]
      fields == DOMAIN table.schema
  IN  \/ Refusal("UP", n, req,
           ~ValidChange(table.schema, lits) \/ key \notin DOMAIN table.rows)
      \/ /\ Denied("UP", n, req)
         /\ Updatable(n, key, lits)
         /\ \E f \in fields, lost \in BOOLEAN :
              /\ NoneFull(table, key, lits, {g \in fields : g < f})
              /\ MallocFails \/ (Full(table.rows[key].vals[f], lits[f]) /\ ~lost)
              /\ Put(n, HalfWritten(table, key, lits, f, lost))
      \/ /\ Granted("UP", n, req, key, {})
         /\ Updatable(n, key, lits)
         /\ NoneFull(table, key, lits, fields)
         /\ Put(n, Whole(table, [table.rows EXCEPT
              ![key] = [vals    |-> [g \in fields |-> Changed(@.vals[g], lits[g])],
                        created |-> @.created, updated |-> now]]))

Delete(n, key) ==
  \/ /\ Denied("DEL", n, [key |-> key])
     /\ ~Exists(n) \/ key \notin DOMAIN tables[n].rows
     /\ UNCHANGED tables
  \/ /\ Granted("DEL", n, [key |-> key], key, {})
     /\ Exists(n) /\ key \in DOMAIN tables[n].rows
     /\ LET rows == tables[n].rows
        IN  Put(n, Whole(tables[n], [k \in DOMAIN rows \ {key} |-> rows[k]]))

\* An index is nothing but a reason to search again.
CreateIndex(n, f) ==
  \/ Denied("CREATE_INDEX", n, [field |-> f]) /\ UNCHANGED tables
  \/ /\ Granted("CREATE_INDEX", n, [field |-> f], f, {})
     /\ Exists(n) /\ f \in Fields(tables[n])
     /\ Put(n, [tables[n] EXCEPT !.torn = @ \ {f}])

-----------------------------------------------------------------------------
(* Queries *)

Get(n, key, fields) ==
  LET req == [key |-> key]
  IN  \/ Refusal("GET", n, req,
           ~(fields \subseteq Fields(tables[n])) \/ key \notin DOMAIN tables[n].rows)
      \/ /\ Granted("GET", n, req, key, {key})
         /\ Exists(n) /\ fields \subseteq Fields(tables[n]) /\ key \in DOMAIN tables[n].rows
         /\ UNCHANGED tables

GetAll(n, fields) ==
  \/ Refusal("GET_ALL", n, <<>>, ~(fields \subseteq Fields(tables[n])))
  \/ /\ Exists(n) /\ fields \subseteq Fields(tables[n])
     /\ LET keys == DOMAIN tables[n].rows
        IN  Granted("GET_ALL", n, <<>>, Cardinality(keys), keys)
     /\ UNCHANGED tables

Count(n) ==
  \/ Denied("COUNT", n, <<>>) /\ ~Exists(n) /\ UNCHANGED tables
  \/ /\ Exists(n)
     /\ Granted("COUNT", n, <<>>, Cardinality(DOMAIN tables[n].rows), {})
     /\ UNCHANGED tables

\* What a search may show: the rows that hold s, or any when the field is torn.
Shown(table, f, s) ==
  IF f \in table.torn THEN SUBSET DOMAIN table.rows
                      ELSE {{k \in DOMAIN table.rows : Holds(table, k, f, s)}}

Search(n, f, s, fields) ==
  LET req == [field |-> f, value |-> s]
  IN  \/ Refusal("SEARCH", n, req, ~({f} \cup fields \subseteq Fields(tables[n])))
      \/ /\ Exists(n) /\ {f} \cup fields \subseteq Fields(tables[n])
         /\ \E keys \in Shown(tables[n], f, s) :
              Granted("SEARCH", n, req, Cardinality(keys), keys)
         /\ UNCHANGED tables

-----------------------------------------------------------------------------

StoreInit ==
  /\ tables = [n \in {} |-> EmptyTable(<<>>)]
  /\ answer = [op |-> "none", db |-> "none", req |-> <<>>, ok |-> TRUE, code |-> 0, keys |-> {}]
  /\ now = 0

Tick == now' = now + 1 /\ UNCHANGED <<tables, answer>>

FieldArgs == 0 .. MAX_FIELDS_PER_DB

Command(n) ==
  \/ \E schema \in Schemas : Create(n, schema)
  \/ DropTable(n)
  \/ \E lits \in AddValues :
       \/ Add(n, [key |-> 0, auto |-> TRUE], lits)
       \/ \E key \in KeyArgs : Add(n, [key |-> key, auto |-> FALSE], lits)
  \/ \E key \in KeyArgs, lits \in UpValues : Update(n, key, lits)
  \/ \E key \in KeyArgs : Delete(n, key)
  \/ Count(n)
  \/ \E fields \in FieldLists :
       \/ \E key \in KeyArgs : Get(n, key, fields)
       \/ GetAll(n, fields)
       \/ \E f \in FieldArgs, s \in SearchValues : Search(n, f, s, fields)
  \/ \E f \in FieldArgs : CreateIndex(n, f)

StoreNext == Tick \/ \E n \in Names : Command(n)

StoreSpec == StoreInit /\ [][StoreNext]_storeVars
=============================================================================
