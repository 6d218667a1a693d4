----------------------------- MODULE Operations -----------------------------
(***************************************************************************)
(* The command executor (src/db/operations.c) over the storage of          *)
(* DataModel: the named tables and the reply to the last command.  The     *)
(* server runs one command at a time, so a command is one step.            *)
(*                                                                         *)
(* A reply has the command's name, table and request, ok (no error         *)
(* message), the result code and the keys of the rows it shows.            *)
(***************************************************************************)
EXTENDS DataModel

CONSTANTS
  Names,        \* table names
  Schemas,      \* field lists that CREATE may carry
  AddValues,    \* value lists that ADD may carry
  UpValues,     \* value lists that UP may carry, Ignored for _
  KeyArgs,      \* keys that commands may name
  SearchValues, \* scalars that SEARCH may look for
  FieldLists,   \* sets of fields that a query may ask for, {} for all
  MaxClock      \* bound on the number of clock ticks

ASSUME InputsAssumption ==
  /\ Schemas \subseteq Seq(FieldTypes) \ {<<>>}
  /\ AddValues \subseteq Seq(ParsedLiterals \ {Ignored})
  /\ UpValues \subseteq Seq(ParsedLiterals)
  /\ KeyArgs \subseteq CInt
  /\ SearchValues \subseteq Scalar
  /\ FieldLists \subseteq SUBSET Nat
  /\ MaxClock \in Nat

VARIABLES
  dbs,   \* the tables in storage, by name
  reply, \* the reply to the last command
  clock  \* time(NULL)

vars == <<dbs, reply, clock>>

NoReply == [op |-> "none", db |-> "none", req |-> <<>>, ok |-> TRUE,
            code |-> 0, keys |-> {}]

Init ==
  /\ dbs = [n \in {} |-> db_create(<<>>)]
  /\ reply = NoReply
  /\ clock = 0

-----------------------------------------------------------------------------
(* Replies *)

Answer(op, n, req, code, keys) ==
  reply' = [op |-> op, db |-> n, req |-> req, ok |-> TRUE,
            code |-> code, keys |-> keys]

\* An error message; the code does not reach the client.
Refuse(op, n, req, code) ==
  /\ reply' = [op |-> op, db |-> n, req |-> req, ok |-> FALSE,
               code |-> code, keys |-> {}]
  /\ UNCHANGED <<dbs, clock>>

\* The reply to an outcome of the storage layer, which is stored as table n.
Store(op, n, req, outcome, code) ==
  /\ dbs' = [dbs EXCEPT ![n] = outcome.db]
  /\ reply' = [op |-> op, db |-> n, req |-> req, ok |-> outcome.rc = 0,
               code |-> IF outcome.rc = 0 THEN code ELSE outcome.rc,
               keys |-> {}]
  /\ UNCHANGED clock

find_db(n) == n \in DOMAIN dbs

\* EX_DB_NOT_FOUND
DbNotFound(op, n, req, code) == ~find_db(n) /\ Refuse(op, n, req, code)

\* The allocation of a copy, of a result list or of the table text failed.
OutOfMemory(op, n, req, code) ==
  MallocFails /\ find_db(n) /\ Refuse(op, n, req, code)

-----------------------------------------------------------------------------
(* Tables *)

add_db(n, db) ==
  dbs' = [m \in DOMAIN dbs \cup {n} |-> IF m = n THEN db ELSE dbs[m]]

execute_create(n, schema) ==
  \/ /\ Len(schema) > MAX_FIELDS_PER_DB
     /\ Refuse("CREATE", n, <<>>, -1)
  \/ /\ Len(schema) <= MAX_FIELDS_PER_DB
     /\ find_db(n)
     /\ Refuse("CREATE", n, <<>>, -2)
  \/ /\ Len(schema) <= MAX_FIELDS_PER_DB
     /\ ~find_db(n)
     /\ Cardinality(DOMAIN dbs) >= MAX_DB_COUNT
     /\ Refuse("CREATE", n, <<>>, -4)
  \/ /\ Len(schema) <= MAX_FIELDS_PER_DB
     /\ ~find_db(n)
     /\ Cardinality(DOMAIN dbs) < MAX_DB_COUNT
     /\ \/ MallocFails /\ Refuse("CREATE", n, <<>>, -3)
        \/ /\ add_db(n, db_create(schema))
           /\ Answer("CREATE", n, <<>>, Len(schema), {})
           /\ UNCHANGED clock

execute_del_table(n) ==
  \/ DbNotFound("DEL_TABLE", n, <<>>, -1)
  \/ /\ find_db(n)
     /\ dbs' = [m \in DOMAIN dbs \ {n} |-> dbs[m]]
     /\ Answer("DEL_TABLE", n, <<>>, 1, {})
     /\ UNCHANGED clock

-----------------------------------------------------------------------------
(* Rows *)

execute_del(n, key) ==
  \/ DbNotFound("DEL", n, [key |-> key], -1)
  \/ /\ find_db(n)
     /\ \E o \in db_delete_row(dbs[n], key) : Store("DEL", n, [key |-> key], o, key)

\* The number and the types of the values fit the fields.
validate_value_types(db, lits) ==
  /\ Len(lits) = Len(db.schema)
  /\ \A i \in DOMAIN lits : Accepts(db.schema[i], lits[i])

\* ADD n key (lits), or ADD n * (lits) when auto holds.  The reply names the
\* requested key, or the key before nextKey when the request was automatic.
execute_add(n, auto, key, lits) ==
  LET req == [key |-> key, auto |-> auto]
  IN  \/ DbNotFound("ADD", n, req, -1)
      \/ /\ find_db(n)
         /\ ~validate_value_types(dbs[n], lits)
         /\ Refuse("ADD", n, req, -1)
      \/ /\ find_db(n)
         /\ validate_value_types(dbs[n], lits)
         /\ \E o \in db_add_row(dbs[n], IF auto THEN -1 ELSE key,
                                [i \in DOMAIN lits |-> Elements(lits[i])], clock) :
              Store("ADD", n, req, o,
                    IF auto THEN Wrap(o.db.nextKey - 1) ELSE key)

\* UP skips the type test of the fields it ignores.
ValidUpdate(db, lits) ==
  /\ Len(lits) = Len(db.schema)
  /\ \A i \in DOMAIN lits : lits[i] = Ignored \/ Accepts(db.schema[i], lits[i])

\* The type test of an array field reads a scalar literal as an array pointer:
\* an UP with one has no defined outcome, and is left out.
ReadsPointers(db, lits) ==
  \A i \in DOMAIN lits \cap DOMAIN db.schema :
    db.schema[i] \in ArrayTypes => lits[i].size \in ArrayTypes \cup {"_"}

execute_up(n, key, lits) ==
  LET req == [key |-> key, lits |-> lits]
  IN  \/ DbNotFound("UP", n, req, -1)
      \/ /\ find_db(n)
         /\ ReadsPointers(dbs[n], lits)
         /\ ~ValidUpdate(dbs[n], lits)
         /\ Refuse("UP", n, req, -1)
      \/ /\ find_db(n)
         /\ ValidUpdate(dbs[n], lits)
         /\ \E o \in db_update_row(dbs[n], key, lits, clock) :
              Store("UP", n, req, o, key)

-----------------------------------------------------------------------------
(* Queries *)

\* Some requested field is not a field of the table (find_field_index < 0).
UnknownField(db, fields) == ~(fields \subseteq DOMAIN db.index)

\* db_get_row copies the row, the caller formats the copy.
execute_get(n, key, fields) ==
  LET req == [key |-> key]
  IN  \/ DbNotFound("GET", n, req, -1)
      \/ OutOfMemory("GET", n, req, -1)
      \/ /\ find_db(n)
         /\ UnknownField(dbs[n], fields) \/ key \notin DOMAIN dbs[n].rows
         /\ Refuse("GET", n, req, -1)
      \/ /\ find_db(n)
         /\ ~UnknownField(dbs[n], fields)
         /\ key \in DOMAIN dbs[n].rows
         /\ Answer("GET", n, req, key, {key})
         /\ UNCHANGED <<dbs, clock>>

execute_get_all(n, fields) ==
  \/ DbNotFound("GET_ALL", n, <<>>, -2)
  \/ OutOfMemory("GET_ALL", n, <<>>, -4)
  \/ /\ find_db(n)
     /\ UnknownField(dbs[n], fields)
     /\ Refuse("GET_ALL", n, <<>>, -7)
  \/ /\ find_db(n)
     /\ ~UnknownField(dbs[n], fields)
     /\ Answer("GET_ALL", n, <<>>, dbs[n].rowsCount, DOMAIN dbs[n].rows)
     /\ UNCHANGED <<dbs, clock>>

execute_count(n) ==
  \/ DbNotFound("COUNT", n, <<>>, -1)
  \/ /\ find_db(n)
     /\ Answer("COUNT", n, <<>>, dbs[n].rowsCount, {})
     /\ UNCHANGED <<dbs, clock>>

\* A mutant: the index is used without asking whether there is one.
SearchRows_IndexOnly(db, f, s) == db_index_collect_rows(db, f, s)

\* The rows SEARCH shows: from the index of the field when there is one.
SearchRows(db, f, s) ==
  IF db.index[f].enabled THEN db_index_collect_rows(db, f, s)
                         ELSE ScanRows(db, f, s)

\* SEARCH does not compare the type of s with the type of the field; a value
\* of another type is compared through the wrong union member and left out.
execute_search(n, f, s, fields) ==
  LET req == [field |-> f, value |-> s]
  IN  \/ DbNotFound("SEARCH", n, req, -1)
      \/ OutOfMemory("SEARCH", n, req, -1)
      \/ /\ find_db(n)
         /\ UnknownField(dbs[n], {f} \cup fields)
         /\ Refuse("SEARCH", n, req, -1)
      \/ /\ find_db(n)
         /\ ~UnknownField(dbs[n], {f} \cup fields)
         /\ array_elem_type(FieldType(dbs[n], f)) = s.type
         /\ LET found == SearchRows(dbs[n], f, s)
            IN  Answer("SEARCH", n, req, Cardinality(found), found)
         /\ UNCHANGED <<dbs, clock>>

execute_create_index(n, f) ==
  \/ DbNotFound("CREATE_INDEX", n, [field |-> f], -1)
  \/ /\ find_db(n)
     /\ \/ f \notin DOMAIN dbs[n].index
        \/ FieldType(dbs[n], f) \in ArrayTypes
     /\ Refuse("CREATE_INDEX", n, [field |-> f], -1)
  \/ /\ find_db(n)
     /\ f \in DOMAIN dbs[n].index
     /\ FieldType(dbs[n], f) \notin ArrayTypes
     /\ \E o \in db_create_index(dbs[n], f) :
          Store("CREATE_INDEX", n, [field |-> f], o, f)

-----------------------------------------------------------------------------

Tick ==
  /\ clock < MaxClock
  /\ clock' = clock + 1
  /\ UNCHANGED <<dbs, reply>>

FieldArgs == 0 .. MAX_FIELDS_PER_DB

\* execute_command dispatches one parsed command.
execute_command ==
  \E n \in Names :
    \/ \E schema \in Schemas : execute_create(n, schema)
    \/ execute_del_table(n)
    \/ \E lits \in AddValues :
         \/ execute_add(n, TRUE, 0, lits)
         \/ \E key \in KeyArgs : execute_add(n, FALSE, key, lits)
    \/ \E key \in KeyArgs, lits \in UpValues : execute_up(n, key, lits)
    \/ \E key \in KeyArgs : execute_del(n, key)
    \/ execute_count(n)
    \/ \E fields \in FieldLists :
         \/ \E key \in KeyArgs : execute_get(n, key, fields)
         \/ execute_get_all(n, fields)
         \/ \E f \in FieldArgs, s \in SearchValues : execute_search(n, f, s, fields)
    \/ \E f \in FieldArgs : execute_create_index(n, f)

Next == execute_command \/ Tick

Spec == Init /\ [][Next]_vars

-----------------------------------------------------------------------------
(* Properties of a table *)

\* The type invariant of the storage, the last reply and the clock.
TypeOK ==
  /\ DOMAIN dbs \subseteq Names
  /\ \A n \in DOMAIN dbs : IsDB(dbs[n])
  /\ reply.ok \in BOOLEAN
  /\ reply.code \in Int
  /\ reply.keys \subseteq CInt
  /\ clock \in Nat

\* The row count that COUNT reports, that sizes the result list of SEARCH and
\* that heads the rows of a snapshot is the number of rows in the hash map
\* (db->rowsCount against db->rowMap).
RowsCounted == \A n \in DOMAIN dbs : CountOK(dbs[n])

\* Unless nextKey has overflowed, it is positive and above the key of every
\* row, whatever explicit keys, refused rows and deletions came before.
NextKeyAboveRows == \A n \in DOMAIN dbs : NextKeyOK(dbs[n])

\* No sequence of appends and replacements makes a stored array longer than
\* MAX_ARRAY_LENGTH (load_all rejects the whole snapshot that holds one), or
\* puts more than one value into a scalar field.
ArraysBounded == \A n \in DOMAIN dbs : ArraysOK(dbs[n])

\* Only scalar fields are indexed, and an enabled index holds exactly the
\* current value of its field for every row, except on a field that an UP
\* overwrote before it failed.
IndexExact == \A n \in DOMAIN dbs : IndexOK(dbs[n])

\* Also after a failed UP, an enabled index names every live row once and no
\* deleted row.
IndexCoversRows ==
  \A n \in DOMAIN dbs : \A f \in EnabledIndexes(dbs[n]) :
    LET entries == dbs[n].index[f].entries
    IN  /\ {e[2] : e \in entries} = DOMAIN dbs[n].rows
        /\ \A e1, e2 \in entries : e1[2] = e2[2] => e1 = e2

\* A row is updated no earlier than it is created, and no stamp is ahead of
\* the clock.
TimestampsOrdered ==
  \A n \in DOMAIN dbs : \A k \in DOMAIN dbs[n].rows :
    /\ dbs[n].rows[k].created <= dbs[n].rows[k].updated
    /\ dbs[n].rows[k].updated <= clock

-----------------------------------------------------------------------------
(* Properties of replies *)

\* SEARCH shows the rows whose field holds the value, with an index as
\* without one, unless a failed UP left the index of that field stale.
SearchShowsMatches ==
  reply.op = "SEARCH" /\ reply.ok =>
    LET db == dbs[reply.db]
    IN  reply.req.field \notin db.stale =>
          /\ reply.keys = ScanRows(db, reply.req.field, reply.req.value)
          /\ reply.code = Cardinality(reply.keys)

\* ADD * is never refused because its key exists, unless nextKey overflowed.
AutoKeyAccepted ==
  reply.op = "ADD" /\ reply.req.auto /\ ~reply.ok /\ reply.code = -5 =>
    dbs[reply.db].overflowed

\* The code of a successful ADD is the key of a row of the table, also when
\* nextKey overflowed, unless the client asked for a negative key.
AddNamesItsRow ==
  reply.op = "ADD" /\ reply.ok =>
    \/ ~reply.req.auto /\ reply.req.key < 0
    \/ reply.code \in DOMAIN dbs[reply.db].rows

-----------------------------------------------------------------------------
(* Properties of steps *)

\* The key counter of a table never goes back, so that an automatic key is
\* not given out twice while the server runs, unless it overflowed.
KeysNotReused ==
  [][\A n \in DOMAIN dbs \cap DOMAIN dbs' :
       ~dbs'[n].overflowed => dbs[n].nextKey <= dbs'[n].nextKey]_vars

\* A refused command keeps every row of every table; only a refused UP may
\* have changed one, and then only the row and the fields that it names.
RefusalIsLocal ==
  [][~reply'.ok =>
       \A n \in DOMAIN dbs : \A k \in DOMAIN dbs[n].rows :
         /\ n \in DOMAIN dbs'
         /\ DOMAIN dbs[n].rows = DOMAIN dbs'[n].rows
         /\ \/ dbs'[n].rows[k] = dbs[n].rows[k]
            \/ /\ reply'.op = "UP" /\ reply'.db = n /\ reply'.req.key = k
               /\ \A f \in DOMAIN dbs[n].schema :
                    reply'.req.lits[f] = Ignored =>
                      dbs'[n].rows[k].vals[f] = dbs[n].rows[k].vals[f]]_vars

-----------------------------------------------------------------------------
(* What a client sees *)

\* A table without its counters and indexes.
TableOf(db) ==
  [schema |-> db.schema, rows |-> db.rows, torn |-> db.stale, worn |-> db.overflowed]

Tables == [n \in DOMAIN dbs |-> TableOf(dbs[n])]

\* The code of a refusal does not reach the client.
Seen == IF reply.ok THEN reply ELSE [reply EXCEPT !.code = 0]

Abstract ==
  INSTANCE TableStore WITH tables <- Tables, answer <- Seen, now <- clock, Keys <- CInt

\* The commands (execute_command) do to named tables of rows what TableStore
\* promises, with nothing but the answers to tell: counters, indexes, rebuilds
\* and allocation failures do not show beyond what is promised there.
ImplementsStore == Abstract!StoreSpec

-----------------------------------------------------------------------------
(* Statements of the repository that the code does not keep *)

\* test/test_operations.c: an indexed search stays consistent with the rows
\* after updates.
IndexedSearchConsistent ==
  reply.op = "SEARCH" /\ reply.ok =>
    reply.keys = ScanRows(dbs[reply.db], reply.req.field, reply.req.value)
=============================================================================
