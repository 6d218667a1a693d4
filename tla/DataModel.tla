----------------------------- MODULE DataModel -----------------------------
(***************************************************************************)
(* One table of the storage engine (src/db/data_model.c): its rows, its    *)
(* automatic keys and its per-field indexes, as operators from a table to  *)
(* the set of outcomes a call can have.  An outcome is the return code     *)
(* and the table left behind; a set has several elements where an          *)
(* allocation may fail.                                                    *)
(*                                                                         *)
(* A scalar is a type and an integer payload that stands for the value.    *)
(* What a row stores in a field is a sequence of scalars: one element in a *)
(* scalar field, the elements of the array in an array field, and the      *)
(* empty sequence for a NULL string or a NULL array.  Fields are named by  *)
(* their position; position 0 is the key field that db_create prepends.    *)
(* Row order (hash map and list order) is not represented: the source      *)
(* calls iteration unordered and no reply depends on it except in layout.  *)
(***************************************************************************)
EXTENDS Integers, Sequences, FiniteSets

CONSTANTS
  IntMax,            \* INT_MAX of the build's int
  MAX_ROW_CAPACITY,  \* rows per table
  MAX_FIELDS_PER_DB, \* fields per table, without the key field
  MAX_ARRAY_LENGTH,  \* elements per array field
  MAX_DB_COUNT,      \* tables in the storage
  MallocFails        \* whether an allocation may fail

ASSUME LimitsAssumption ==
  /\ IntMax \in Nat \ {0}
  /\ MAX_ROW_CAPACITY \in Nat \ {0}
  /\ MAX_FIELDS_PER_DB \in Nat \ {0}
  /\ MAX_ARRAY_LENGTH \in Nat \ {0}
  /\ MAX_DB_COUNT \in Nat \ {0}
  /\ MallocFails \in BOOLEAN

-----------------------------------------------------------------------------
(* Types, scalars and literals *)

IntMin == -(IntMax + 1)
CInt   == IntMin .. IntMax

\* A mutant: the counter leaves the int range.
WrapNot(n) == n

\* Two's complement wrap of a sum that left the int range by one, which is
\* what gcc -O2 makes of the signed overflow of nextKey.
Wrap(n) == IF n > IntMax THEN IntMin ELSE IF n < IntMin THEN IntMax ELSE n

ScalarTypes == {"int", "double", "bool", "string"}
ArrayTypes  == {"int[]", "double[]", "bool[]", "string[]"}
FieldTypes  == ScalarTypes \cup ArrayTypes

array_elem_type(t) ==
  CASE t = "int[]" -> "int" [] t = "double[]" -> "double"
    [] t = "bool[]" -> "bool" [] t = "string[]" -> "string" [] OTHER -> t

array_of(t) ==
  CASE t = "int" -> "int[]" [] t = "double" -> "double[]"
    [] t = "bool" -> "bool[]" [] OTHER -> "string[]"

\* The outcomes in S are those of a failed allocation.
OnMallocFailure(S) == IF MallocFails THEN S ELSE {}

Scalar == [type : ScalarTypes, v : Int]
Value  == Seq(Scalar)

\* What parse_single_value makes of one value of a command.  size is the tag
\* that the executor compares with the type of the field.
Literal == [size : FieldTypes \cup {"_"}, elems : Value, append : BOOLEAN]

ScalarLiteral(s) == [size |-> s.type, elems |-> <<s>>, append |-> FALSE]

\* The tag of an array comes from its first element; an empty array has the
\* tag of an int array.
ArrayLiteral(es) ==
  [size   |-> IF es = <<>> THEN "int[]" ELSE array_of(es[1].type),
   elems  |-> es,
   append |-> FALSE]

\* [...+s]
AppendLiteral(s) == [size |-> array_of(s.type), elems |-> <<s>>, append |-> TRUE]

\* The _ of an UP command (ignoreFlags[i] = 1).
Ignored == [size |-> "_", elems |-> <<>>, append |-> FALSE]

\* The literals the parser lets through: homogeneous and of bounded length.
\* An array of arrays is let through too, tagged as a string array, and then
\* read as text; what follows is undefined, and it is left out.
ParsedLiterals ==
  {l \in Literal :
     \/ l = Ignored
     \/ /\ Len(l.elems) = 1
        /\ l \in {ScalarLiteral(l.elems[1]), AppendLiteral(l.elems[1])}
     \/ /\ l = ArrayLiteral(l.elems)
        /\ Len(l.elems) <= MAX_ARRAY_LENGTH
        /\ \A i \in DOMAIN l.elems : l.elems[i].type = l.elems[1].type}

\* The type test of ADD and UP: an array field takes every literal with the
\* tag of an int array, because that is also the tag of [].  Numbers stored in
\* a string array are read as pointers later; no instance has such an array.
Accepts(t, l) == l.size = t \/ (t \in ArrayTypes /\ l.size = "int[]")

\* The array that a literal carries: an append literal has count 0.
Elements(l) == IF l.append THEN <<>> ELSE l.elems

-----------------------------------------------------------------------------
(* The table *)

Row   == [vals : Seq(Value), created : Nat, updated : Nat]
Index == [enabled : BOOLEAN, entries : SUBSET (Value \X CInt)]

\* rows maps the live keys to their rows; index maps a field position to its
\* index.  overflowed and stale are history: whether nextKey ever passed
\* IntMax, and the fields that an UP which then failed has overwritten since
\* the indexes were last rebuilt.
IsDB(db) ==
  /\ DOMAIN db = {"schema", "rows", "rowsCount", "nextKey", "index",
                  "overflowed", "stale"}
  /\ db.schema \in Seq(FieldTypes)
  /\ Len(db.schema) <= MAX_FIELDS_PER_DB
  /\ DOMAIN db.rows \subseteq CInt
  /\ \A k \in DOMAIN db.rows : db.rows[k] \in Row
  /\ \A k \in DOMAIN db.rows : Len(db.rows[k].vals) = Len(db.schema)
  /\ db.rowsCount \in Int
  /\ db.nextKey \in CInt
  /\ db.index \in [0 .. Len(db.schema) -> Index]
  /\ db.overflowed \in BOOLEAN
  /\ db.stale \subseteq DOMAIN db.schema

NoIndex == [enabled |-> FALSE, entries |-> {}]

db_create(schema) ==
  [schema     |-> schema,
   rows       |-> [k \in {} |-> [vals |-> <<>>, created |-> 0, updated |-> 0]],
   rowsCount  |-> 0,
   nextKey    |-> 1,
   index      |-> [f \in 0 .. Len(schema) |-> NoIndex],
   overflowed |-> FALSE,
   stale      |-> {}]

FieldType(db, f) == IF f = 0 THEN "int" ELSE db.schema[f]

\* row->values[f]; values[0] is the key.
FieldValue(db, k, f) ==
  IF f = 0 THEN <<[type |-> "int", v |-> k]>> ELSE db.rows[k].vals[f]

-----------------------------------------------------------------------------
(* Indexes *)

\* The (value, key) pairs that rebuild_single_index collects.
IndexEntries(db, f) == {<<FieldValue(db, k, f), k>> : k \in DOMAIN db.rows}

rebuild_single_index(db, f) == [enabled |-> TRUE, entries |-> IndexEntries(db, f)]

EnabledIndexes(db) == {f \in DOMAIN db.index : db.index[f].enabled}

\* A mutant: the rebuild is forgotten.
rebuild_enabled_indexes_Skipped(db) == {db}

\* Every enabled index is rebuilt; one whose rebuild runs out of memory is
\* cleared and disabled.
rebuild_enabled_indexes(db) ==
  {[db EXCEPT !.index = [f \in DOMAIN db.index |->
                           IF f \in EnabledIndexes(db) \ failed
                             THEN rebuild_single_index(db, f)
                             ELSE NoIndex],
              !.stale = {}] :
     failed \in SUBSET OnMallocFailure(EnabledIndexes(db))}

db_create_index(db, f) ==
  IF db.index[f].enabled
    THEN {[rc |-> -2, db |-> db]}
    ELSE {[rc |-> 0, db |-> [db EXCEPT !.index[f] = rebuild_single_index(db, f),
                                       !.stale = @ \ {f}]]}
         \cup OnMallocFailure({[rc |-> -3, db |-> [db EXCEPT !.index[f] = NoIndex]]})

\* Equality for a scalar field, "contains" for an array field.
compare_values(value, s) == \E i \in DOMAIN value : value[i] = s

ScanRows(db, f, s) ==
  {k \in DOMAIN db.rows : compare_values(FieldValue(db, k, f), s)}

db_index_collect_rows(db, f, s) ==
  {k \in DOMAIN db.rows : <<(<<s>>), k>> \in db.index[f].entries}

-----------------------------------------------------------------------------
(* Rows *)

\* A mutant: key 0 also asks for an automatic key.
ActualKey_ZeroIsAuto(db, key) == IF key <= 0 THEN db.nextKey ELSE key

\* A negative key asks for an automatic one.
ActualKey(db, key) == IF key < 0 THEN db.nextKey ELSE key

\* Mutants: an explicit key does not raise nextKey, is compared with > instead
\* of >=, or lowers nextKey.
NextKeyAfter_AutoOnly(db, key) == IF key < 0 THEN db.nextKey + 1 ELSE db.nextKey

NextKeyAfter_OffByOne(db, key) ==
  IF key < 0 THEN db.nextKey + 1
  ELSE IF key > db.nextKey THEN key + 1 ELSE db.nextKey

NextKeyAfter_Lowered(db, key) == IF key < 0 THEN db.nextKey + 1 ELSE key + 1

\* nextKey after an ADD with this key, before the int wraps.
NextKeyAfter(db, key) ==
  IF key < 0 THEN db.nextKey + 1
  ELSE IF key >= db.nextKey THEN key + 1 ELSE db.nextKey

\* The key counter moves before the duplicate test and the allocations, so it
\* also moves for a row that is then refused.
TakeKey(db, key) ==
  [db EXCEPT !.nextKey = Wrap(NextKeyAfter(db, key)),
             !.overflowed = @ \/ NextKeyAfter(db, key) > IntMax]

\* A mutant: updated_at is not set.
InsertRow_NoUpdatedAt(db, key, vals, now) ==
  [db EXCEPT !.rows = [k \in DOMAIN db.rows \cup {key} |->
                         IF k = key
                           THEN [vals |-> vals, created |-> now, updated |-> 0]
                           ELSE db.rows[k]],
             !.rowsCount = @ + 1]

InsertRow(db, key, vals, now) ==
  [db EXCEPT !.rows = [k \in DOMAIN db.rows \cup {key} |->
                         IF k = key
                           THEN [vals |-> vals, created |-> now, updated |-> now]
                           ELSE db.rows[k]],
             !.rowsCount = @ + 1]

db_add_row(db, key, vals, now) ==
  LET actualKey == ActualKey(db, key)
      taken     == TakeKey(db, key)
  IN  IF db.rowsCount >= MAX_ROW_CAPACITY THEN {[rc |-> -3, db |-> db]}
      ELSE IF actualKey \in DOMAIN db.rows THEN {[rc |-> -5, db |-> taken]}
      ELSE OnMallocFailure({[rc |-> -4, db |-> taken]})
           \cup {[rc |-> 0, db |-> d] :
                   d \in rebuild_enabled_indexes(
                           InsertRow(taken, actualKey, vals, now))}

\* A mutant: an ignored field is overwritten too.
UpdatedValue_IgnoreLost(old, l) ==
  IF l.append THEN Append(old, l.elems[1]) ELSE l.elems

\* One field of an UP that goes through.
UpdatedValue(old, l) ==
  IF l = Ignored THEN old
  ELSE IF l.append THEN Append(old, l.elems[1]) ELSE l.elems

\* A mutant: the limit is tested with > instead of >=.
AtLimit_OffByOne(db, key, f, lits) ==
  lits[f].append /\ Len(db.rows[key].vals[f]) > MAX_ARRAY_LENGTH

\* The append of field f is refused: the array is at its maximum length.
AtLimit(db, key, f, lits) ==
  lits[f].append /\ Len(db.rows[key].vals[f]) >= MAX_ARRAY_LENGTH

\* Writing field f allocates memory.
Allocates(db, f, lits) ==
  lits[f] # Ignored /\ db.schema[f] \in ArrayTypes \cup {"string"}

\* The row after the loop stopped in field f: the fields before f are already
\* written; a replaced value was freed before its copy failed.
TornRow(db, key, f, lits, freed) ==
  [db EXCEPT !.rows[key].vals =
     [g \in DOMAIN db.schema |->
        IF g < f THEN UpdatedValue(db.rows[key].vals[g], lits[g])
        ELSE IF g = f /\ freed THEN <<>> ELSE db.rows[key].vals[g]],
             !.stale = @ \cup {g \in DOMAIN db.schema :
                                 lits[g] # Ignored /\ (g < f \/ (g = f /\ freed))}]

\* The row after every field is written; the caller reindexes it.
UpdatedRow(db, key, lits, now) ==
  [db EXCEPT !.rows[key].vals = [g \in DOMAIN db.schema |->
                                   UpdatedValue(db.rows[key].vals[g], lits[g])],
             !.rows[key].updated = now]

\* The fields are written in place and in order, and each may stop the loop.
db_update_row(db, key, lits, now) ==
  LET limits == {f \in DOMAIN db.schema : AtLimit(db, key, f, lits)}
      Reached(f) == \A g \in limits : f <= g
  IN  IF key \notin DOMAIN db.rows THEN {[rc |-> -3, db |-> db]}
      ELSE {[rc |-> -5, db |-> TornRow(db, key, f, lits, FALSE)] :
              f \in {g \in limits : Reached(g)}}
           \cup OnMallocFailure(
                  {[rc |-> -4, db |-> TornRow(db, key, f, lits, ~lits[f].append)] :
                     f \in {g \in DOMAIN db.schema \ limits :
                              Reached(g) /\ Allocates(db, g, lits)}})
           \cup IF limits # {} THEN {}
                ELSE {[rc |-> 0, db |-> d] :
                        d \in rebuild_enabled_indexes(
                                UpdatedRow(db, key, lits, now))}

\* Mutants: the row count is kept, or the indexes are.
db_delete_row_CountKept(db, key) ==
  IF key \notin DOMAIN db.rows THEN {[rc |-> -2, db |-> db]}
  ELSE {[rc |-> 0, db |-> d] :
          d \in rebuild_enabled_indexes(
                  [db EXCEPT !.rows = [k \in DOMAIN db.rows \ {key} |-> db.rows[k]]])}

db_delete_row_IndexKept(db, key) ==
  IF key \notin DOMAIN db.rows THEN {[rc |-> -2, db |-> db]}
  ELSE {[rc |-> 0,
         db |-> [db EXCEPT !.rows = [k \in DOMAIN db.rows \ {key} |-> db.rows[k]],
                           !.rowsCount = @ - 1]]}

db_delete_row(db, key) ==
  IF key \notin DOMAIN db.rows THEN {[rc |-> -2, db |-> db]}
  ELSE {[rc |-> 0, db |-> d] :
          d \in rebuild_enabled_indexes(
                  [db EXCEPT !.rows = [k \in DOMAIN db.rows \ {key} |-> db.rows[k]],
                             !.rowsCount = @ - 1])}

-----------------------------------------------------------------------------
(* What holds of every table between two commands *)

CountOK(db) ==
  IsFiniteSet(DOMAIN db.rows) /\ db.rowsCount = Cardinality(DOMAIN db.rows)

NextKeyOK(db) ==
  ~db.overflowed =>
    /\ db.nextKey >= 1
    /\ \A k \in DOMAIN db.rows : 0 <= k /\ k < db.nextKey

ArraysOK(db) ==
  \A k \in DOMAIN db.rows : \A f \in DOMAIN db.schema :
    /\ Len(db.rows[k].vals[f]) <= MAX_ARRAY_LENGTH
    /\ db.schema[f] \in ScalarTypes => Len(db.rows[k].vals[f]) <= 1

IndexOK(db) ==
  \A f \in EnabledIndexes(db) :
    /\ FieldType(db, f) \in ScalarTypes
    /\ f \notin db.stale => db.index[f].entries = IndexEntries(db, f)

TableOK(db) ==
  IsDB(db) /\ CountOK(db) /\ NextKeyOK(db) /\ ArraysOK(db) /\ IndexOK(db)
=============================================================================
