-------------------------- MODULE OperationsProofs --------------------------
(***************************************************************************)
(* Proofs about DataModel and Operations: lemmas on the calls of the       *)
(* storage layer, each of which keeps the table invariant, then the        *)
(* invariants of the executor.                                             *)
(***************************************************************************)
EXTENDS Operations, FiniteSetTheorems, TLAPS

-----------------------------------------------------------------------------
(* Typing *)

\* The value of a field of a stored row is a sequence of scalars.
LEMMA FieldValueType ==
  ASSUME NEW db, IsDB(db), NEW k \in DOMAIN db.rows, NEW f \in 0 .. Len(db.schema)
  PROVE  FieldValue(db, k, f) \in Value
<1>1. CASE f = 0
  <2>1. k \in Int
    BY LimitsAssumption DEF IsDB, CInt, IntMin
  <2>2. [type |-> "int", v |-> k] \in Scalar
    BY <2>1 DEF Scalar, ScalarTypes
  <2>. QED BY <1>1, <2>2 DEF FieldValue, Value
<1>2. CASE f # 0
  <2>1. db.rows[k].vals \in Seq(Value) /\ f \in 1 .. Len(db.rows[k].vals)
    BY <1>2 DEF IsDB, Row
  <2>. QED BY <1>2, <2>1 DEF FieldValue
<1>. QED BY <1>1, <1>2

\* The pairs of an index have the type of index entries.
LEMMA IndexEntriesType ==
  ASSUME NEW db, IsDB(db), NEW f \in 0 .. Len(db.schema)
  PROVE  IndexEntries(db, f) \subseteq Value \X CInt
BY FieldValueType DEF IndexEntries, IsDB

\* Rebuilding the indexes changes nothing else and makes every one exact.
LEMMA RebuildIndexes ==
  ASSUME NEW db, IsDB(db),
         \A f \in EnabledIndexes(db) : FieldType(db, f) \in ScalarTypes,
         NEW d \in rebuild_enabled_indexes(db)
  PROVE  /\ IsDB(d) /\ IndexOK(d)
         /\ d.schema = db.schema /\ d.rows = db.rows
         /\ d.rowsCount = db.rowsCount /\ d.nextKey = db.nextKey
         /\ d.overflowed = db.overflowed
<1>1. PICK failed \in SUBSET OnMallocFailure(EnabledIndexes(db)) :
        d = [db EXCEPT !.index = [f \in DOMAIN db.index |->
                                    IF f \in EnabledIndexes(db) \ failed
                                      THEN rebuild_single_index(db, f)
                                      ELSE NoIndex],
                       !.stale = {}]
  BY DEF rebuild_enabled_indexes
<1>2. /\ d.schema = db.schema /\ d.rows = db.rows
      /\ d.rowsCount = db.rowsCount /\ d.nextKey = db.nextKey
      /\ d.overflowed = db.overflowed /\ d.stale = {}
      /\ DOMAIN d = DOMAIN db
  BY <1>1 DEF IsDB
<1>3. d.index = [f \in 0 .. Len(db.schema) |->
                   IF f \in EnabledIndexes(db) \ failed
                     THEN rebuild_single_index(db, f) ELSE NoIndex]
  BY <1>1 DEF IsDB
<1>4. \A f \in 0 .. Len(db.schema) : d.index[f] \in Index
  BY <1>3, IndexEntriesType DEF rebuild_single_index, NoIndex, Index
<1>5. IsDB(d)
  BY <1>2, <1>3, <1>4 DEF IsDB
<1>6. ASSUME NEW f \in EnabledIndexes(d)
      PROVE  FieldType(d, f) \in ScalarTypes /\ d.index[f].entries = IndexEntries(d, f)
  <2>1. f \in 0 .. Len(db.schema) /\ f \in EnabledIndexes(db) \ failed
    BY <1>3, <1>6 DEF EnabledIndexes, NoIndex
  <2>2. FieldType(d, f) = FieldType(db, f) /\ IndexEntries(d, f) = IndexEntries(db, f)
    BY <1>2 DEF FieldType, IndexEntries, FieldValue
  <2>. QED BY <1>3, <2>1, <2>2 DEF rebuild_single_index
<1>. QED BY <1>2, <1>5, <1>6 DEF IndexOK

-----------------------------------------------------------------------------
(* The calls of the storage layer keep the table invariant *)

\* What a row may hold under a schema: the shape of a validated value list.
Fits(schema, vals) ==
  /\ vals \in Seq(Value) /\ Len(vals) = Len(schema)
  /\ \A f \in DOMAIN schema :
       /\ Len(vals[f]) <= MAX_ARRAY_LENGTH
       /\ schema[f] \in ScalarTypes => Len(vals[f]) <= 1

\* A new table satisfies the invariant.
LEMMA CreateKeepsTable ==
  ASSUME NEW schema \in Seq(FieldTypes), Len(schema) <= MAX_FIELDS_PER_DB
  PROVE  TableOK(db_create(schema))
<1> DEFINE db == db_create(schema)
<1>1. IsDB(db)
  BY LimitsAssumption DEF db_create, IsDB, NoIndex, Index, CInt, IntMin
<1>2. CountOK(db)
  BY FS_EmptySet DEF db_create, CountOK
<1>3. NextKeyOK(db) /\ ArraysOK(db) /\ IndexOK(db)
  BY DEF db_create, NextKeyOK, ArraysOK, IndexOK, EnabledIndexes, NoIndex
<1>. QED BY <1>1, <1>2, <1>3 DEF TableOK

\* The key counter stays an int, and unless it overflowed it has moved above
\* the key that is taken and not below where it was.
LEMMA TakeKeyFacts ==
  ASSUME NEW db, IsDB(db), NextKeyOK(db), NEW key \in CInt
  PROVE  LET t == TakeKey(db, key)
             k == IF key < 0 THEN db.nextKey ELSE key
         IN  /\ IsDB(t) /\ NextKeyOK(t)
             /\ t.schema = db.schema /\ t.rows = db.rows
             /\ t.rowsCount = db.rowsCount /\ t.index = db.index
             /\ t.stale = db.stale
             /\ db.overflowed => t.overflowed
             /\ ~t.overflowed => /\ k >= 0 /\ k < t.nextKey
                                /\ db.nextKey <= t.nextKey
<1> DEFINE t == TakeKey(db, key)
           k == IF key < 0 THEN db.nextKey ELSE key
           n == NextKeyAfter(db, key)
<1>1. /\ t.schema = db.schema /\ t.rows = db.rows
      /\ t.rowsCount = db.rowsCount /\ t.index = db.index
      /\ t.stale = db.stale /\ DOMAIN t = DOMAIN db
      /\ t.nextKey = Wrap(n)
  BY DEF TakeKey, IsDB
<1>2. t.overflowed = (db.overflowed \/ n > IntMax)
  BY DEF TakeKey, IsDB
<1>3. db.nextKey \in Int /\ key \in Int /\ IntMax \in Nat /\ n \in Int
      /\ db.nextKey >= IntMin /\ db.nextKey <= IntMax /\ key <= IntMax
  BY LimitsAssumption DEF IsDB, CInt, IntMin, NextKeyAfter
<1>4. Wrap(n) \in CInt
  BY <1>3 DEF Wrap, CInt, IntMin, NextKeyAfter
<1>5. t.overflowed \in BOOLEAN
  BY <1>2
<1>6. IsDB(t)
  BY <1>1, <1>4, <1>5 DEF IsDB
<1>7. ASSUME ~t.overflowed
      PROVE  k >= 0 /\ k < t.nextKey /\ db.nextKey <= t.nextKey /\ db.nextKey >= 1
  <2>0. ~db.overflowed /\ ~(n > IntMax)
    BY <1>2, <1>7, Zenon
  <2>1. ~db.overflowed /\ n <= IntMax
    BY <2>0, <1>3
  <2>2. db.nextKey >= 1
    BY <2>1 DEF NextKeyOK
  <2>3. Wrap(n) = n
    BY <1>3, <2>1, <2>2 DEF Wrap, NextKeyAfter, IntMin
  <2>. QED BY <1>1, <1>3, <2>2, <2>3 DEF NextKeyAfter
<1>8. NextKeyOK(t)
  <2>1. ASSUME ~t.overflowed, NEW j \in DOMAIN t.rows
        PROVE  0 <= j /\ j < t.nextKey
    <3>1. j \in Int /\ 0 <= j /\ j < db.nextKey
      BY <1>1, <1>2, <2>1, LimitsAssumption DEF NextKeyOK, IsDB, CInt, IntMin
    <3>. QED BY <1>7, <2>1, <3>1, <1>3, <1>4, <1>1, LimitsAssumption DEF CInt, IntMin
  <2>. QED BY <1>7, <2>1, <1>3, <1>4, <1>1, LimitsAssumption DEF NextKeyOK, CInt, IntMin
<1>. QED BY <1>1, <1>2, <1>6, <1>7, <1>8

\* Storing rows of the right shape and rebuilding the indexes keeps the table
\* invariant, when the count and the keys of the new rows are right.
LEMMA ReindexKeepsTable ==
  ASSUME NEW db, TableOK(db), NEW e, DOMAIN e = DOMAIN db,
         e.schema = db.schema, e.index = db.index, e.stale \subseteq DOMAIN db.schema,
         e.nextKey \in CInt, e.overflowed \in BOOLEAN, e.rowsCount \in Int,
         DOMAIN e.rows \subseteq CInt,
         \A k \in DOMAIN e.rows : e.rows[k] \in Row /\ Fits(db.schema, e.rows[k].vals),
         CountOK(e), NextKeyOK(e),
         NEW d \in rebuild_enabled_indexes(e)
  PROVE  TableOK(d) /\ d.nextKey = e.nextKey /\ d.overflowed = e.overflowed
         /\ d.rows = e.rows
<1>1. IsDB(e)
  BY DEF IsDB, TableOK, Fits
<1>2. \A f \in EnabledIndexes(e) : FieldType(e, f) \in ScalarTypes
  BY DEF EnabledIndexes, FieldType, TableOK, IndexOK
<1>3. /\ IsDB(d) /\ IndexOK(d)
      /\ d.schema = e.schema /\ d.rows = e.rows
      /\ d.rowsCount = e.rowsCount /\ d.nextKey = e.nextKey
      /\ d.overflowed = e.overflowed
  BY <1>1, <1>2, RebuildIndexes
<1>4. CountOK(d)
  BY <1>3 DEF CountOK
<1>5. NextKeyOK(d)
  BY <1>3 DEF NextKeyOK
<1>6. ArraysOK(d)
  BY <1>3 DEF ArraysOK, Fits
<1>. QED BY <1>3, <1>4, <1>5, <1>6 DEF TableOK

\* The rows of a table fit its schema.
LEMMA RowsFit ==
  ASSUME NEW db, TableOK(db), NEW k \in DOMAIN db.rows
  PROVE  db.rows[k] \in Row /\ Fits(db.schema, db.rows[k].vals)
BY DEF TableOK, IsDB, ArraysOK, Fits, Row

\* db_add_row keeps the table invariant, also where it refuses the row, and
\* finds an automatic key taken only after the key counter overflowed.
LEMMA AddRowKeepsTable ==
  ASSUME NEW db, TableOK(db), NEW key \in CInt, NEW now \in Nat,
         NEW vals, Fits(db.schema, vals),
         NEW o \in db_add_row(db, key, vals, now)
  PROVE  /\ TableOK(o.db) /\ o.rc \in Int
         /\ key < 0 /\ o.rc = -5 => o.db.overflowed
         /\ ~o.db.overflowed => db.nextKey <= o.db.nextKey
<1> DEFINE actual == IF key < 0 THEN db.nextKey ELSE key
           t == TakeKey(db, key)
           e == InsertRow(t, actual, vals, now)
<1>0. IsDB(db) /\ CountOK(db) /\ NextKeyOK(db) /\ ArraysOK(db) /\ IndexOK(db)
  BY DEF TableOK
<1>1. /\ IsDB(t) /\ NextKeyOK(t)
      /\ t.schema = db.schema /\ t.rows = db.rows
      /\ t.rowsCount = db.rowsCount /\ t.index = db.index
      /\ t.stale = db.stale
      /\ db.overflowed => t.overflowed
      /\ ~t.overflowed => /\ actual >= 0 /\ actual < t.nextKey
                         /\ db.nextKey <= t.nextKey
  BY <1>0, TakeKeyFacts
<1>2. TableOK(t)
  <2>1. CountOK(t)
    BY <1>0, <1>1 DEF CountOK
  <2>2. ArraysOK(t)
    BY <1>0, <1>1 DEF ArraysOK
  <2>3. IndexOK(t)
    BY <1>0, <1>1 DEF IndexOK, EnabledIndexes, FieldType, IndexEntries, FieldValue
  <2>. QED BY <1>1, <2>1, <2>2, <2>3 DEF TableOK
<1>3. actual \in CInt
  BY <1>0 DEF IsDB
<1>4. CASE o = [rc |-> -3, db |-> db]
  BY <1>0, <1>4, LimitsAssumption DEF IsDB, CInt, IntMin
<1>5. CASE o = [rc |-> -4, db |-> t]
  BY <1>1, <1>2, <1>5
<1>6. CASE actual \in DOMAIN db.rows /\ o = [rc |-> -5, db |-> t]
  <2>1. ASSUME key < 0, ~t.overflowed PROVE FALSE
    <3>1. ~db.overflowed
      BY <1>1, <2>1
    <3>2. db.nextKey \in DOMAIN db.rows /\ db.nextKey \in Int
      BY <1>0, <1>6, <2>1, LimitsAssumption DEF IsDB, CInt, IntMin
    <3>. QED BY <1>0, <3>1, <3>2 DEF NextKeyOK
  <2>. QED BY <1>1, <1>2, <1>6, <2>1
<1>7. ASSUME actual \notin DOMAIN db.rows,
             NEW d \in rebuild_enabled_indexes(e), o = [rc |-> 0, db |-> d]
      PROVE  TableOK(d) /\ d.nextKey = t.nextKey /\ d.overflowed = t.overflowed
  <2>1. /\ DOMAIN e = DOMAIN t /\ e.schema = t.schema /\ e.index = t.index
        /\ e.stale = t.stale /\ e.nextKey = t.nextKey
        /\ e.overflowed = t.overflowed /\ e.rowsCount = t.rowsCount + 1
        /\ e.rows = [k \in DOMAIN t.rows \cup {actual} |->
                       IF k = actual
                         THEN [vals |-> vals, created |-> now, updated |-> now]
                         ELSE t.rows[k]]
    BY <1>1 DEF InsertRow, IsDB
  <2>2. CountOK(e)
    <3>1. e.rowsCount = Cardinality(DOMAIN t.rows) + 1
      BY <2>1, <1>2 DEF TableOK, CountOK
    <3>2. DOMAIN e.rows = DOMAIN t.rows \cup {actual} /\ actual \notin DOMAIN t.rows
      BY <2>1, <1>1, <1>7
    <3>. QED BY <3>1, <3>2, <1>2, FS_AddElement DEF TableOK, CountOK
  <2>3. NextKeyOK(e)
    BY <2>1, <1>1 DEF NextKeyOK
  <2>4. \A k \in DOMAIN e.rows : e.rows[k] \in Row /\ Fits(t.schema, e.rows[k].vals)
    <3>1. ASSUME NEW k \in DOMAIN e.rows, k = actual
          PROVE  e.rows[k] \in Row /\ Fits(t.schema, e.rows[k].vals)
      BY <3>1, <2>1, <1>1 DEF Row, Fits
    <3>2. ASSUME NEW k \in DOMAIN e.rows, k # actual
          PROVE  e.rows[k] \in Row /\ Fits(t.schema, e.rows[k].vals)
      <4>1. k \in DOMAIN t.rows /\ e.rows[k] = t.rows[k]
        BY <3>2, <2>1
      <4>. QED BY <4>1, <1>2, RowsFit
    <3>. QED BY <3>1, <3>2
  <2>5. DOMAIN e.rows \subseteq CInt /\ e.rowsCount \in Int
        /\ e.stale \subseteq DOMAIN t.schema /\ e.nextKey \in CInt
        /\ e.overflowed \in BOOLEAN
    BY <2>1, <1>1, <1>3 DEF IsDB
  <2>. QED BY <1>2, <1>7, <2>1, <2>2, <2>3, <2>4, <2>5, ReindexKeepsTable
<1>8. \/ o = [rc |-> -3, db |-> db]
      \/ o = [rc |-> -4, db |-> t]
      \/ actual \in DOMAIN db.rows /\ o = [rc |-> -5, db |-> t]
      \/ /\ actual \notin DOMAIN db.rows
         /\ \E d \in rebuild_enabled_indexes(e) : o = [rc |-> 0, db |-> d]
  BY DEF db_add_row, ActualKey, OnMallocFailure
<1>. QED BY <1>1, <1>4, <1>5, <1>6, <1>7, <1>8

\* A literal that the type test accepts has the shape of its field.
LEMMA LiteralShape ==
  ASSUME NEW l \in ParsedLiterals, NEW t \in FieldTypes, Accepts(t, l)
  PROVE  /\ l.elems \in Value /\ Len(l.elems) <= MAX_ARRAY_LENGTH
         /\ t \in ScalarTypes => Len(l.elems) <= 1
         /\ l.append => /\ t \in ArrayTypes /\ l.elems[1] \in Scalar
<1>0. l.elems \in Seq(Scalar)
  BY DEF ParsedLiterals, Literal, Value
<1>1. CASE l = Ignored
  BY <1>1 DEF Accepts, Ignored, FieldTypes, ScalarTypes, ArrayTypes
<1>2. CASE Len(l.elems) = 1 /\ l = ScalarLiteral(l.elems[1])
  <2>1. l.append = FALSE
    BY <1>2 DEF ScalarLiteral
  <2>2. Len(l.elems) = 1
    BY <1>2
  <2>. QED BY <1>0, <2>1, <2>2, LimitsAssumption DEF Value
<1>3. CASE Len(l.elems) = 1 /\ l = AppendLiteral(l.elems[1])
  <2>1. l.size \in ArrayTypes
    BY <1>3 DEF AppendLiteral, array_of, ArrayTypes
  <2>2. t \in ArrayTypes
    BY <2>1 DEF Accepts
  <2>3. Len(l.elems) = 1
    BY <1>3
  <2>4. l.elems[1] \in Scalar
    BY <1>0, <2>3
  <2>. QED BY <1>0, <2>2, <2>3, <2>4, LimitsAssumption DEF Value, ScalarTypes, ArrayTypes
<1>4. CASE l = ArrayLiteral(l.elems) /\ Len(l.elems) <= MAX_ARRAY_LENGTH
  <2>1. l.size \in ArrayTypes /\ l.append = FALSE
    BY <1>4 DEF ArrayLiteral, array_of, ArrayTypes
  <2>2. t \notin ScalarTypes
    BY <2>1 DEF Accepts, ScalarTypes, ArrayTypes
  <2>. QED BY <1>0, <1>4, <2>1, <2>2 DEF Value
<1>. QED BY <1>1, <1>2, <1>3, <1>4 DEF ParsedLiterals

\* A field that UP writes keeps its shape when it is not at its limit.
LEMMA UpdatedValueShape ==
  ASSUME NEW t \in FieldTypes, NEW old \in Value, NEW l \in ParsedLiterals,
         l = Ignored \/ Accepts(t, l),
         Len(old) <= MAX_ARRAY_LENGTH, t \in ScalarTypes => Len(old) <= 1,
         ~(l.append /\ Len(old) >= MAX_ARRAY_LENGTH)
  PROVE  LET v == UpdatedValue(old, l)
         IN  /\ v \in Value /\ Len(v) <= MAX_ARRAY_LENGTH
             /\ t \in ScalarTypes => Len(v) <= 1
<1> DEFINE v == UpdatedValue(old, l)
<1>1. CASE l = Ignored
  BY <1>1 DEF UpdatedValue
<1>2. CASE l # Ignored
  <2>1. /\ l.elems \in Value /\ Len(l.elems) <= MAX_ARRAY_LENGTH
        /\ t \in ScalarTypes => Len(l.elems) <= 1
        /\ l.append => t \in ArrayTypes /\ l.elems[1] \in Scalar
    BY <1>2, LiteralShape
  <2>2. CASE l.append
    <3>1. v = Append(old, l.elems[1])
      BY <1>2, <2>2 DEF UpdatedValue
    <3>2. v \in Value /\ Len(v) = Len(old) + 1
      BY <2>1, <2>2, <3>1 DEF Value
    <3>3. Len(old) \in Nat /\ MAX_ARRAY_LENGTH \in Nat
      BY LimitsAssumption DEF Value
    <3>4. t \notin ScalarTypes
      BY <2>1, <2>2 DEF ScalarTypes, ArrayTypes
    <3>. QED BY <2>2, <3>2, <3>3, <3>4
  <2>3. CASE ~l.append
    BY <1>2, <2>1, <2>3 DEF UpdatedValue
  <2>. QED BY <2>2, <2>3
<1>. QED BY <1>1, <1>2

\* The values of a validated ADD fit the fields.
LEMMA AddedValuesFit ==
  ASSUME NEW db, IsDB(db), NEW lits \in Seq(ParsedLiterals),
         validate_value_types(db, lits)
  PROVE  Fits(db.schema, [i \in DOMAIN lits |-> Elements(lits[i])])
<1> DEFINE vals == [i \in DOMAIN lits |-> Elements(lits[i])]
<1>1. Len(lits) = Len(db.schema) /\ DOMAIN lits = 1 .. Len(db.schema)
      /\ DOMAIN db.schema = 1 .. Len(db.schema) /\ Len(db.schema) \in Nat
  BY DEF validate_value_types, IsDB
<1>2. ASSUME NEW f \in DOMAIN db.schema
      PROVE  /\ vals[f] \in Value /\ Len(vals[f]) <= MAX_ARRAY_LENGTH
             /\ db.schema[f] \in ScalarTypes => Len(vals[f]) <= 1
  <2>1. lits[f] \in ParsedLiterals /\ db.schema[f] \in FieldTypes
        /\ Accepts(db.schema[f], lits[f])
    BY <1>1, <1>2 DEF validate_value_types, IsDB
  <2>2. /\ lits[f].elems \in Value /\ Len(lits[f].elems) <= MAX_ARRAY_LENGTH
        /\ db.schema[f] \in ScalarTypes => Len(lits[f].elems) <= 1
    BY <2>1, LiteralShape
  <2>3. vals[f] = <<>> \/ vals[f] = lits[f].elems
    BY <1>1, <1>2 DEF Elements
  <2>4. <<>> \in Value /\ Len(<<>>) = 0
    BY DEF Value
  <2>. QED BY <2>2, <2>3, <2>4, LimitsAssumption
<1>3. vals \in Seq(Value) /\ Len(vals) = Len(db.schema)
  <2>1. vals \in [1 .. Len(db.schema) -> Value]
    BY <1>1, <1>2
  <2>. HIDE DEF vals
  <2>. QED BY <1>1, <2>1
<1>. QED BY <1>2, <1>3 DEF Fits

\* A row of which UP has written some fields, none of them at its limit, and
\* freed at most one.
LEMMA WrittenRowFits ==
  ASSUME NEW db, TableOK(db), NEW key \in DOMAIN db.rows,
         NEW lits \in Seq(ParsedLiterals), ValidUpdate(db, lits),
         NEW vals, vals = [g \in DOMAIN db.schema |-> vals[g]],
         \A g \in DOMAIN db.schema :
           \/ vals[g] = <<>>
           \/ vals[g] = db.rows[key].vals[g]
           \/ /\ vals[g] = UpdatedValue(db.rows[key].vals[g], lits[g])
              /\ ~AtLimit(db, key, g, lits)
  PROVE  Fits(db.schema, vals)
<1>1. DOMAIN db.schema = 1 .. Len(db.schema) /\ DOMAIN lits = DOMAIN db.schema
      /\ Len(db.schema) \in Nat
  BY DEF ValidUpdate, TableOK, IsDB
<1>2. Fits(db.schema, db.rows[key].vals)
  BY RowsFit
<1>3. ASSUME NEW g \in DOMAIN db.schema
      PROVE  /\ vals[g] \in Value /\ Len(vals[g]) <= MAX_ARRAY_LENGTH
             /\ db.schema[g] \in ScalarTypes => Len(vals[g]) <= 1
  <2> DEFINE old == db.rows[key].vals[g]
  <2>1. /\ old \in Value /\ Len(old) <= MAX_ARRAY_LENGTH
        /\ db.schema[g] \in ScalarTypes => Len(old) <= 1
    BY <1>1, <1>2 DEF Fits
  <2>2. CASE vals[g] = <<>>
    <3>1. <<>> \in Value /\ Len(<<>>) <= 1 /\ Len(<<>>) <= MAX_ARRAY_LENGTH
      BY LimitsAssumption DEF Value
    <3>. QED BY <2>2, <3>1, Zenon
  <2>3. CASE vals[g] = old
    BY <2>1, <2>3
  <2>4. CASE vals[g] = UpdatedValue(old, lits[g]) /\ ~AtLimit(db, key, g, lits)
    <3>1. lits[g] \in ParsedLiterals /\ db.schema[g] \in FieldTypes
          /\ (lits[g] = Ignored \/ Accepts(db.schema[g], lits[g]))
      BY <1>1 DEF ValidUpdate, TableOK, IsDB
    <3>2. ~(lits[g].append /\ Len(old) >= MAX_ARRAY_LENGTH)
      BY <2>4 DEF AtLimit
    <3>. HIDE DEF old
    <3>. QED BY <2>1, <2>4, <3>1, <3>2, UpdatedValueShape
  <2>. QED BY <2>2, <2>3, <2>4
<1>4. vals \in Seq(Value) /\ Len(vals) = Len(db.schema)
  <2>1. vals \in [1 .. Len(db.schema) -> Value]
    BY <1>1, <1>3
  <2>. QED BY <1>1, <2>1
<1>. QED BY <1>3, <1>4 DEF Fits

\* An UP that stopped in field f keeps the table invariant: what it has
\* written is in stale, which IndexOK leaves out.
LEMMA TornRowKeepsTable ==
  ASSUME NEW db, TableOK(db), NEW key \in DOMAIN db.rows,
         NEW lits \in Seq(ParsedLiterals), ValidUpdate(db, lits),
         NEW f \in DOMAIN db.schema, NEW freed \in BOOLEAN,
         freed => lits[f] # Ignored,
         \A g \in DOMAIN db.schema : g < f => ~AtLimit(db, key, g, lits)
  PROVE  LET d == TornRow(db, key, f, lits, freed)
         IN  TableOK(d) /\ d.nextKey = db.nextKey
<1> DEFINE d == TornRow(db, key, f, lits, freed)
           vals == [g \in DOMAIN db.schema |->
                      IF g < f THEN UpdatedValue(db.rows[key].vals[g], lits[g])
                      ELSE IF g = f /\ freed THEN <<>> ELSE db.rows[key].vals[g]]
           written == {g \in DOMAIN db.schema :
                         lits[g] # Ignored /\ (g < f \/ (g = f /\ freed))}
<1>0. IsDB(db) /\ CountOK(db) /\ NextKeyOK(db) /\ ArraysOK(db) /\ IndexOK(db)
  BY DEF TableOK
<1>1. /\ DOMAIN d = DOMAIN db /\ d.schema = db.schema /\ d.index = db.index
      /\ d.stale = db.stale \cup written /\ d.nextKey = db.nextKey
      /\ d.overflowed = db.overflowed /\ d.rowsCount = db.rowsCount
      /\ d.rows = [db.rows EXCEPT ![key].vals = vals]
  BY <1>0 DEF TornRow, IsDB
<1>2. /\ DOMAIN d.rows = DOMAIN db.rows
      /\ d.rows[key] = [db.rows[key] EXCEPT !.vals = vals]
      /\ \A k \in DOMAIN db.rows : k # key => d.rows[k] = db.rows[k]
  BY <1>1
<1>3. Fits(db.schema, vals)
  <2>1. \A g \in DOMAIN db.schema :
           \/ vals[g] = <<>>
           \/ vals[g] = db.rows[key].vals[g]
           \/ /\ vals[g] = UpdatedValue(db.rows[key].vals[g], lits[g])
              /\ ~AtLimit(db, key, g, lits)
    OBVIOUS
  <2>2. vals = [g \in DOMAIN db.schema |-> vals[g]]
    OBVIOUS
  <2>. HIDE DEF vals
  <2>. QED BY <2>1, <2>2, WrittenRowFits
<1> HIDE DEF vals
<1>4. \A k \in DOMAIN d.rows : d.rows[k] \in Row /\ Fits(db.schema, d.rows[k].vals)
  <2>1. db.rows[key] \in Row
    BY RowsFit
  <2>2. d.rows[key] \in Row /\ d.rows[key].vals = vals
    BY <1>2, <1>3, <2>1 DEF Row, Fits
  <2>. QED BY <1>2, <1>3, <2>2, RowsFit
<1>5. IsDB(d)
  BY <1>0, <1>1, <1>2, <1>4 DEF IsDB, Fits
<1>6. CountOK(d) /\ NextKeyOK(d)
  BY <1>0, <1>1, <1>2 DEF CountOK, NextKeyOK
<1>7. ArraysOK(d)
  BY <1>1, <1>4 DEF ArraysOK, Fits
<1>8. IndexOK(d)
  <2>1. EnabledIndexes(d) = EnabledIndexes(db)
    BY <1>1 DEF EnabledIndexes
  <2>2. ASSUME NEW i \in EnabledIndexes(db), i \notin d.stale
        PROVE  IndexEntries(d, i) = IndexEntries(db, i)
    <3>1. i \in 0 .. Len(db.schema) /\ i \notin written
      BY <1>0, <1>1, <2>2 DEF EnabledIndexes, IsDB
    <3>2. ASSUME NEW k \in DOMAIN db.rows
          PROVE  FieldValue(d, k, i) = FieldValue(db, k, i)
      <4>1. CASE i = 0
        BY <4>1 DEF FieldValue
      <4>2. CASE i # 0 /\ k # key
        BY <4>2, <1>2 DEF FieldValue
      <4>3. CASE i # 0 /\ k = key
        <5>1. i \in DOMAIN db.schema
          BY <1>0, <3>1, <4>3 DEF IsDB
        <5>2. vals[i] = db.rows[key].vals[i]
          BY <3>1, <5>1 DEF vals, UpdatedValue
        <5>3. d.rows[key].vals = vals
          <6>1. db.rows[key] \in Row
            BY RowsFit
          <6>. QED BY <1>2, <6>1 DEF Row
        <5>. QED BY <4>3, <5>2, <5>3 DEF FieldValue
      <4>. QED BY <4>1, <4>2, <4>3
    <3>. QED BY <1>2, <3>2 DEF IndexEntries
  <2>3. \A i \in EnabledIndexes(db) : FieldType(d, i) = FieldType(db, i)
    BY <1>1 DEF FieldType
  <2>. QED BY <1>0, <1>1, <2>1, <2>2, <2>3 DEF IndexOK
<1>. QED BY <1>1, <1>5, <1>6, <1>7, <1>8 DEF TableOK

\* db_update_row keeps the table invariant and the key counter, also where it
\* stops half way.
LEMMA UpdateRowKeepsTable ==
  ASSUME NEW db, TableOK(db), NEW key, NEW now \in Nat,
         NEW lits \in Seq(ParsedLiterals), ValidUpdate(db, lits),
         NEW o \in db_update_row(db, key, lits, now)
  PROVE  TableOK(o.db) /\ o.rc \in Int /\ o.db.nextKey = db.nextKey
<1> DEFINE limits == {f \in DOMAIN db.schema : AtLimit(db, key, f, lits)}
           e == UpdatedRow(db, key, lits, now)
<1>0. IsDB(db) /\ CountOK(db) /\ NextKeyOK(db) /\ ArraysOK(db) /\ IndexOK(db)
      /\ DOMAIN db.schema \subseteq Nat
  BY DEF TableOK, IsDB
<1>1. CASE o = [rc |-> -3, db |-> db]
  BY <1>1
<1>2. ASSUME key \in DOMAIN db.rows, NEW f \in DOMAIN db.schema,
             \A g \in limits : f <= g,
             NEW freed \in BOOLEAN, freed => lits[f] # Ignored,
             NEW rc \in Int, o = [rc |-> rc, db |-> TornRow(db, key, f, lits, freed)]
      PROVE  TableOK(o.db) /\ o.rc \in Int /\ o.db.nextKey = db.nextKey
  <2>1. \A g \in DOMAIN db.schema : g < f => ~AtLimit(db, key, g, lits)
    BY <1>0, <1>2
  <2>. QED BY <1>2, <2>1, TornRowKeepsTable
<1>3. ASSUME key \in DOMAIN db.rows, limits = {},
             NEW d \in rebuild_enabled_indexes(e), o = [rc |-> 0, db |-> d]
      PROVE  TableOK(o.db) /\ o.rc \in Int /\ o.db.nextKey = db.nextKey
  <2> DEFINE vals == [g \in DOMAIN db.schema |->
                        UpdatedValue(db.rows[key].vals[g], lits[g])]
  <2>1. /\ DOMAIN e = DOMAIN db /\ e.schema = db.schema /\ e.index = db.index
        /\ e.stale = db.stale /\ e.nextKey = db.nextKey
        /\ e.overflowed = db.overflowed /\ e.rowsCount = db.rowsCount
        /\ DOMAIN e.rows = DOMAIN db.rows
        /\ e.rows[key] = [db.rows[key] EXCEPT !.vals = vals, !.updated = now]
        /\ \A k \in DOMAIN db.rows : k # key => e.rows[k] = db.rows[k]
    BY <1>0, <1>3 DEF UpdatedRow, IsDB
  <2>2. Fits(db.schema, vals)
    <3>1. \A g \in DOMAIN db.schema :
             /\ vals[g] = UpdatedValue(db.rows[key].vals[g], lits[g])
             /\ ~AtLimit(db, key, g, lits)
      BY <1>3
    <3>2. vals = [g \in DOMAIN db.schema |-> vals[g]]
      OBVIOUS
    <3>. HIDE DEF vals
    <3>. QED BY <1>3, <3>1, <3>2, WrittenRowFits
  <2> HIDE DEF vals, e
  <2>3. \A k \in DOMAIN e.rows : e.rows[k] \in Row /\ Fits(db.schema, e.rows[k].vals)
    <3>1. db.rows[key] \in Row
      BY <1>3, RowsFit
    <3>2. e.rows[key] \in Row /\ e.rows[key].vals = vals
      BY <2>1, <2>2, <3>1 DEF Row, Fits
    <3>. QED BY <2>1, <2>2, <3>2, RowsFit
  <2>4. CountOK(e) /\ NextKeyOK(e)
    BY <1>0, <2>1 DEF CountOK, NextKeyOK
  <2>5. DOMAIN e.rows \subseteq CInt /\ e.rowsCount \in Int
        /\ e.stale \subseteq DOMAIN db.schema /\ e.nextKey \in CInt
        /\ e.overflowed \in BOOLEAN
    BY <1>0, <2>1 DEF IsDB
  <2>6. TableOK(d) /\ d.nextKey = e.nextKey
    BY <1>3, <2>1, <2>3, <2>4, <2>5, ReindexKeepsTable
  <2>. QED BY <1>3, <2>1, <2>6
<1>4. \/ o = [rc |-> -3, db |-> db]
      \/ /\ key \in DOMAIN db.rows
         /\ \E f \in limits : /\ \A g \in limits : f <= g
                              /\ o = [rc |-> -5, db |-> TornRow(db, key, f, lits, FALSE)]
      \/ /\ key \in DOMAIN db.rows
         /\ \E f \in DOMAIN db.schema :
              /\ \A g \in limits : f <= g
              /\ Allocates(db, f, lits)
              /\ o = [rc |-> -4, db |-> TornRow(db, key, f, lits, ~lits[f].append)]
      \/ /\ key \in DOMAIN db.rows /\ limits = {}
         /\ \E d \in rebuild_enabled_indexes(e) : o = [rc |-> 0, db |-> d]
  BY DEF db_update_row, OnMallocFailure
<1>5. \A f \in DOMAIN db.schema : lits[f].append \in BOOLEAN
  <2>1. DOMAIN lits = DOMAIN db.schema
    BY <1>0 DEF ValidUpdate, IsDB
  <2>2. \A f \in DOMAIN lits : lits[f] \in Literal
    BY DEF ParsedLiterals
  <2>. QED BY <2>1, <2>2 DEF Literal
<1> HIDE DEF limits, e
<1>6. \A f \in DOMAIN db.schema : Allocates(db, f, lits) => lits[f] # Ignored
  BY DEF Allocates
<1>7. CASE \E f \in limits :
               /\ key \in DOMAIN db.rows /\ \A g \in limits : f <= g
               /\ o = [rc |-> -5, db |-> TornRow(db, key, f, lits, FALSE)]
  BY <1>2, <1>7, -5 \in Int DEF limits
<1>8. CASE \E f \in DOMAIN db.schema :
               /\ key \in DOMAIN db.rows /\ \A g \in limits : f <= g
               /\ Allocates(db, f, lits)
               /\ o = [rc |-> -4, db |-> TornRow(db, key, f, lits, ~lits[f].append)]
  BY <1>2, <1>5, <1>6, <1>8, -4 \in Int
<1>. QED BY <1>1, <1>3, <1>4, <1>7, <1>8

\* db_delete_row keeps the table invariant and the key counter.
LEMMA DeleteRowKeepsTable ==
  ASSUME NEW db, TableOK(db), NEW key, NEW o \in db_delete_row(db, key)
  PROVE  TableOK(o.db) /\ o.rc \in Int /\ o.db.nextKey = db.nextKey
<1> DEFINE e == [db EXCEPT !.rows = [k \in DOMAIN db.rows \ {key} |-> db.rows[k]],
                           !.rowsCount = @ - 1]
<1>0. IsDB(db) /\ CountOK(db) /\ NextKeyOK(db)
  BY DEF TableOK
<1>1. CASE key \notin DOMAIN db.rows
  BY <1>1 DEF db_delete_row
<1>2. CASE key \in DOMAIN db.rows
  <2>1. PICK d \in rebuild_enabled_indexes(e) : o = [rc |-> 0, db |-> d]
    BY <1>2 DEF db_delete_row
  <2>2. /\ DOMAIN e = DOMAIN db /\ e.schema = db.schema /\ e.index = db.index
        /\ e.stale = db.stale /\ e.nextKey = db.nextKey
        /\ e.overflowed = db.overflowed /\ e.rowsCount = db.rowsCount - 1
        /\ e.rows = [k \in DOMAIN db.rows \ {key} |-> db.rows[k]]
    BY <1>0 DEF IsDB
  <2> HIDE DEF e
  <2>3. CountOK(e)
    <3>1. DOMAIN e.rows = DOMAIN db.rows \ {key}
      BY <2>2
    <3>. QED BY <1>0, <1>2, <2>2, <3>1, FS_RemoveElement DEF CountOK
  <2>4. NextKeyOK(e)
    BY <1>0, <2>2 DEF NextKeyOK
  <2>5. \A k \in DOMAIN e.rows : e.rows[k] \in Row /\ Fits(db.schema, e.rows[k].vals)
    BY <2>2, RowsFit
  <2>6. DOMAIN e.rows \subseteq CInt /\ e.rowsCount \in Int
        /\ e.stale \subseteq DOMAIN db.schema /\ e.nextKey \in CInt
        /\ e.overflowed \in BOOLEAN
    BY <1>0, <2>2 DEF IsDB
  <2>7. TableOK(d) /\ d.nextKey = e.nextKey
    BY <2>2, <2>3, <2>4, <2>5, <2>6, ReindexKeepsTable
  <2>. QED BY <2>1, <2>2, <2>7
<1>. QED BY <1>1, <1>2

\* db_create_index keeps the table invariant, whether or not it finds memory.
LEMMA CreateIndexKeepsTable ==
  ASSUME NEW db, TableOK(db), NEW f \in DOMAIN db.index,
         FieldType(db, f) \notin ArrayTypes,
         NEW o \in db_create_index(db, f)
  PROVE  TableOK(o.db) /\ o.rc \in Int /\ o.db.nextKey = db.nextKey
<1>0. IsDB(db) /\ CountOK(db) /\ NextKeyOK(db) /\ ArraysOK(db) /\ IndexOK(db)
      /\ f \in 0 .. Len(db.schema)
  BY DEF TableOK, IsDB
<1>1. FieldType(db, f) \in ScalarTypes
  BY <1>0 DEF FieldType, IsDB, FieldTypes, ScalarTypes
<1>2. ASSUME NEW ix \in Index, NEW d, NEW stale \in SUBSET db.stale,
             d = [db EXCEPT !.index[f] = ix, !.stale = stale],
             ix = NoIndex \/ ix.entries = IndexEntries(db, f),
             db.stale \ {f} \subseteq stale
      PROVE  TableOK(d) /\ d.nextKey = db.nextKey
  <2>1. /\ DOMAIN d = DOMAIN db /\ d.schema = db.schema /\ d.rows = db.rows
        /\ d.rowsCount = db.rowsCount /\ d.nextKey = db.nextKey
        /\ d.overflowed = db.overflowed /\ d.stale = stale
        /\ d.index = [db.index EXCEPT ![f] = ix]
    BY <1>0, <1>2 DEF IsDB
  <2>2. IsDB(d)
    BY <1>0, <1>2, <2>1 DEF IsDB
  <2>3. CountOK(d) /\ NextKeyOK(d) /\ ArraysOK(d)
    BY <1>0, <2>1 DEF CountOK, NextKeyOK, ArraysOK
  <2>4. ASSUME NEW g \in EnabledIndexes(d)
        PROVE  /\ FieldType(d, g) \in ScalarTypes
               /\ g \notin d.stale => d.index[g].entries = IndexEntries(d, g)
    <3>1. FieldType(d, g) = FieldType(db, g) /\ IndexEntries(d, g) = IndexEntries(db, g)
      BY <2>1 DEF FieldType, IndexEntries, FieldValue
    <3>2. CASE g = f
      BY <1>0, <1>1, <1>2, <2>1, <2>4, <3>1, <3>2 DEF EnabledIndexes, NoIndex, IsDB
    <3>3. CASE g # f
      BY <1>0, <1>2, <2>1, <2>4, <3>1, <3>3 DEF EnabledIndexes, IndexOK, IsDB
    <3>. QED BY <3>2, <3>3
  <2>. QED BY <2>1, <2>2, <2>3, <2>4 DEF TableOK, IndexOK
<1>3. CASE o = [rc |-> -2, db |-> db]
  BY <1>3
<1>4. CASE o = [rc |-> 0, db |-> [db EXCEPT !.index[f] = rebuild_single_index(db, f),
                                            !.stale = @ \ {f}]]
  <2>1. rebuild_single_index(db, f) \in Index
        /\ rebuild_single_index(db, f).entries = IndexEntries(db, f)
    BY <1>0, IndexEntriesType DEF rebuild_single_index, Index
  <2> DEFINE d == [db EXCEPT !.index[f] = rebuild_single_index(db, f),
                             !.stale = db.stale \ {f}]
  <2>2. TableOK(d) /\ d.nextKey = db.nextKey
    BY <1>2, <2>1
  <2>3. o = [rc |-> 0, db |-> d]
    BY <1>4
  <2> HIDE DEF d
  <2>. QED BY <2>2, <2>3
<1>5. CASE o = [rc |-> -3, db |-> [db EXCEPT !.index[f] = NoIndex]]
  <2>1. NoIndex \in Index
    BY DEF NoIndex, Index
  <2> DEFINE d == [db EXCEPT !.index[f] = NoIndex]
  <2>2. d = [db EXCEPT !.index[f] = NoIndex, !.stale = db.stale]
    BY <1>0 DEF IsDB
  <2>3. o = [rc |-> -3, db |-> d]
    BY <1>5
  <2> HIDE DEF d
  <2>4. TableOK(d) /\ d.nextKey = db.nextKey
    BY <1>2, <2>1, <2>2
  <2>. QED BY <2>3, <2>4
<1>. QED BY <1>3, <1>4, <1>5 DEF db_create_index, OnMallocFailure

\* The index of a field that is not stale finds the rows that a scan finds.
LEMMA SearchFindsScan ==
  ASSUME NEW db, TableOK(db), NEW f \in DOMAIN db.index, f \notin db.stale,
         NEW s
  PROVE  SearchRows(db, f, s) = ScanRows(db, f, s)
<1>0. IsDB(db) /\ ArraysOK(db) /\ IndexOK(db) /\ f \in 0 .. Len(db.schema)
  BY DEF TableOK, IsDB
<1>1. CASE ~db.index[f].enabled
  BY <1>1 DEF SearchRows
<1>2. CASE db.index[f].enabled
  <2>1. FieldType(db, f) \in ScalarTypes /\ db.index[f].entries = IndexEntries(db, f)
    BY <1>0, <1>2 DEF IndexOK, EnabledIndexes
  <2>2. ASSUME NEW k \in DOMAIN db.rows
        PROVE  compare_values(FieldValue(db, k, f), s)
                 <=> <<(<<s>>), k>> \in db.index[f].entries
    <3> DEFINE v == FieldValue(db, k, f)
    <3>1. v \in Seq(Scalar) /\ Len(v) <= 1
      <4>1. v \in Seq(Scalar)
        BY <1>0, FieldValueType DEF Value
      <4>2. ASSUME f = 0 PROVE Len(v) <= 1
        <5>1. v = <<[type |-> "int", v |-> k]>>
          BY <4>2 DEF FieldValue
        <5>. HIDE DEF v
        <5>. QED BY <5>1
      <4>3. ASSUME f # 0 PROVE Len(v) <= 1
        <5>1. f \in DOMAIN db.schema /\ db.schema[f] \in ScalarTypes
          BY <1>0, <2>1, <4>3 DEF FieldType, IsDB
        <5>. QED BY <1>0, <4>3, <5>1 DEF ArraysOK, FieldValue
      <4>. QED BY <4>1, <4>2, <4>3
    <3>2. <<(<<s>>), k>> \in db.index[f].entries <=> v = <<s>>
      BY <2>1 DEF IndexEntries
    <3> HIDE DEF v
    <3>3. compare_values(v, s) <=> v = <<s>>
      <4>1. ASSUME compare_values(v, s) PROVE v = <<s>>
        <5>1. PICK i \in 1 .. Len(v) : v[i] = s
          BY <3>1, <4>1 DEF compare_values
        <5>2. Len(v) = 1 /\ i = 1
          <6>1. \A m \in Nat : m <= 1 /\ i \in 1 .. m => m = 1 /\ i = 1
            OBVIOUS
          <6>2. Len(v) \in Nat /\ Len(v) <= 1
            BY <3>1
          <6>. QED BY <6>1, <6>2, Zenon
        <5>. QED BY <3>1, <5>1, <5>2
      <4>2. ASSUME v = <<s>> PROVE compare_values(v, s)
        <5>1. 1 \in DOMAIN v /\ v[1] = s
          BY <4>2
        <5>. QED BY <5>1 DEF compare_values
      <4>. QED BY <4>1, <4>2
    <3>. QED BY <3>2, <3>3 DEF v
  <2>. QED BY <1>2, <2>2 DEF SearchRows, db_index_collect_rows, ScanRows
<1>. QED BY <1>1, <1>2

-----------------------------------------------------------------------------
(* The executor *)

\* The inductive invariant.  IndexExact alone is not inductive: that a rebuilt
\* index holds only typed pairs needs the rows' types and arities, that an
\* index search agrees with a scan needs scalar fields to hold one value, and
\* that an automatic key is free needs every key to lie below nextKey.
IInv ==
  /\ TypeOK
  /\ \A n \in DOMAIN dbs : TableOK(dbs[n])
  /\ AutoKeyAccepted
  /\ SearchShowsMatches

\* What a step does to the key counters of the tables that it keeps.
CountersGrow ==
  \A n \in DOMAIN dbs \cap DOMAIN dbs' :
    ~dbs'[n].overflowed => dbs[n].nextKey <= dbs'[n].nextKey

\* The key counter of a table is an integer.
LEMMA NextKeyInt ==
  ASSUME NEW db, TableOK(db)
  PROVE  db.nextKey \in Int
BY LimitsAssumption DEF TableOK, IsDB, CInt, IntMin

\* A command that fails before it reaches the storage layer.
LEMMA RefuseKeeps ==
  ASSUME IInv, NEW op, NEW n, NEW req, NEW code \in Int,
         ~(op = "ADD" /\ code = -5), Refuse(op, n, req, code)
  PROVE  IInv' /\ CountersGrow
<1>1. /\ dbs' = dbs /\ clock' = clock
      /\ reply'.op = op /\ reply'.ok = FALSE /\ reply'.code = code /\ reply'.keys = {}
  BY DEF Refuse
<1>2. TypeOK' /\ (\A m \in DOMAIN dbs' : TableOK(dbs'[m]))
  BY <1>1 DEF IInv, TypeOK
<1>3. AutoKeyAccepted' /\ SearchShowsMatches'
  BY <1>1 DEF AutoKeyAccepted, SearchShowsMatches
<1>4. CountersGrow
  BY <1>1, NextKeyInt DEF CountersGrow, IInv
<1>. QED BY <1>2, <1>3, <1>4 DEF IInv

\* A query that answers without touching a table.
LEMMA AnswerKeeps ==
  ASSUME IInv, NEW op, op \notin {"SEARCH", "ADD"}, NEW n, NEW req,
         NEW code \in Int, NEW keys \in SUBSET CInt,
         Answer(op, n, req, code, keys), dbs' = dbs, clock' = clock
  PROVE  IInv' /\ CountersGrow
<1>1. /\ reply'.op = op /\ reply'.ok = TRUE /\ reply'.code = code /\ reply'.keys = keys
  BY DEF Answer
<1>2. TypeOK' /\ (\A m \in DOMAIN dbs' : TableOK(dbs'[m]))
  BY <1>1 DEF IInv, TypeOK
<1>3. AutoKeyAccepted' /\ SearchShowsMatches'
  BY <1>1 DEF AutoKeyAccepted, SearchShowsMatches
<1>4. CountersGrow
  BY <1>1, NextKeyInt DEF CountersGrow, IInv
<1>. QED BY <1>2, <1>3, <1>4 DEF IInv

\* A call of the storage layer on table n, whose outcome is stored.
LEMMA StoreKeeps ==
  ASSUME IInv, NEW op, op # "SEARCH", NEW n \in DOMAIN dbs, NEW req,
         NEW o, TableOK(o.db), o.rc \in Int, NEW code \in Int,
         ~o.db.overflowed => dbs[n].nextKey <= o.db.nextKey,
         op = "ADD" /\ req.auto /\ o.rc = -5 => o.db.overflowed,
         Store(op, n, req, o, code)
  PROVE  IInv' /\ CountersGrow
<1>1. /\ DOMAIN dbs' = DOMAIN dbs /\ dbs'[n] = o.db /\ clock' = clock
      /\ \A m \in DOMAIN dbs : m # n => dbs'[m] = dbs[m]
      /\ reply'.op = op /\ reply'.db = n /\ reply'.req = req
      /\ reply'.ok = (o.rc = 0)
      /\ reply'.code = IF o.rc = 0 THEN code ELSE o.rc
      /\ reply'.keys = {}
  BY DEF Store
<1>2. \A m \in DOMAIN dbs' : TableOK(dbs'[m])
  BY <1>1 DEF IInv
<1>3. TypeOK'
  BY <1>1, <1>2 DEF IInv, TypeOK, TableOK
<1>4. SearchShowsMatches'
  BY <1>1 DEF SearchShowsMatches
<1>5. AutoKeyAccepted'
  BY <1>1 DEF AutoKeyAccepted
<1>6. CountersGrow
  BY <1>1, NextKeyInt DEF CountersGrow, IInv
<1>. QED BY <1>2, <1>3, <1>4, <1>5, <1>6 DEF IInv

\* The empty storage satisfies the invariant.
LEMMA InitEstablishes == ASSUME Init PROVE IInv
<1>1. DOMAIN dbs = {} /\ clock = 0 /\ reply = NoReply
  BY DEF Init
<1>2. TypeOK
  BY <1>1 DEF TypeOK, NoReply
<1>. QED BY <1>1, <1>2 DEF IInv, AutoKeyAccepted, SearchShowsMatches, NoReply

\* CREATE and DEL_TABLE keep the invariant.
LEMMA TableStep ==
  ASSUME IInv, NEW n \in Names,
         (\E schema \in Schemas : execute_create(n, schema)) \/ execute_del_table(n)
  PROVE  IInv' /\ CountersGrow
<1>1. ASSUME NEW schema \in Schemas, Len(schema) <= MAX_FIELDS_PER_DB, n \notin DOMAIN dbs,
             add_db(n, db_create(schema)), UNCHANGED clock,
             Answer("CREATE", n, <<>>, Len(schema), {})
      PROVE  IInv' /\ CountersGrow
  <2>1. schema \in Seq(FieldTypes) /\ Len(schema) \in Int
    BY InputsAssumption
  <2>2. TableOK(db_create(schema))
    BY <1>1, <2>1, CreateKeepsTable
  <2>3. /\ DOMAIN dbs' = DOMAIN dbs \cup {n} /\ dbs'[n] = db_create(schema)
        /\ \A m \in DOMAIN dbs : dbs'[m] = dbs[m]
    BY <1>1 DEF add_db
  <2>4. reply'.op = "CREATE" /\ reply'.ok = TRUE /\ reply'.code = Len(schema)
        /\ reply'.keys = {}
    BY <1>1 DEF Answer
  <2>5. \A m \in DOMAIN dbs' : TableOK(dbs'[m])
    BY <2>2, <2>3 DEF IInv
  <2>6. TypeOK'
    BY <1>1, <2>1, <2>3, <2>4, <2>5 DEF IInv, TypeOK, TableOK
  <2>7. AutoKeyAccepted' /\ SearchShowsMatches'
    BY <2>4 DEF AutoKeyAccepted, SearchShowsMatches
  <2>8. CountersGrow
    BY <1>1, <2>3, NextKeyInt DEF CountersGrow, IInv
  <2>. QED BY <2>5, <2>6, <2>7, <2>8 DEF IInv
<1>2. ASSUME dbs' = [m \in DOMAIN dbs \ {n} |-> dbs[m]], UNCHANGED clock,
             Answer("DEL_TABLE", n, <<>>, 1, {})
      PROVE  IInv' /\ CountersGrow
  <2>1. /\ DOMAIN dbs' \subseteq DOMAIN dbs
        /\ \A m \in DOMAIN dbs' : dbs'[m] = dbs[m]
    BY <1>2
  <2>2. reply'.op = "DEL_TABLE" /\ reply'.ok = TRUE /\ reply'.code = 1 /\ reply'.keys = {}
    BY <1>2 DEF Answer
  <2>3. \A m \in DOMAIN dbs' : TableOK(dbs'[m])
    BY <2>1 DEF IInv
  <2>4. TypeOK'
    <3>1. clock' = clock
      BY <1>2
    <3>2. DOMAIN dbs \subseteq Names /\ clock \in Nat
      BY DEF IInv, TypeOK
    <3>3. DOMAIN dbs' \subseteq Names
      BY <2>1, <3>2
    <3>4. \A m \in DOMAIN dbs' : IsDB(dbs'[m])
      BY <2>3 DEF TableOK
    <3>5. reply'.ok \in BOOLEAN /\ reply'.code \in Int /\ reply'.keys \subseteq CInt
      BY <2>2, 1 \in Int, Zenon
    <3>. QED BY <3>1, <3>2, <3>3, <3>4, <3>5, Zenon DEF TypeOK
  <2>5. AutoKeyAccepted' /\ SearchShowsMatches'
    BY <2>2 DEF AutoKeyAccepted, SearchShowsMatches
  <2>6. CountersGrow
    BY <2>1, NextKeyInt DEF CountersGrow, IInv
  <2>. QED BY <2>3, <2>4, <2>5, <2>6 DEF IInv
<1>3. ASSUME NEW op \in {"CREATE", "DEL_TABLE"}, NEW code \in Int,
             Refuse(op, n, <<>>, code)
      PROVE  IInv' /\ CountersGrow
  BY <1>3, RefuseKeeps
<1>4. -1 \in Int /\ -2 \in Int /\ -3 \in Int /\ -4 \in Int
  OBVIOUS
<1>5. ASSUME NEW schema \in Schemas, execute_create(n, schema)
      PROVE  IInv' /\ CountersGrow
  BY <1>1, <1>3, <1>4, <1>5 DEF execute_create, find_db
<1>6. ASSUME execute_del_table(n) PROVE IInv' /\ CountersGrow
  BY <1>2, <1>3, <1>4, <1>6 DEF execute_del_table, DbNotFound
<1>. QED BY <1>5, <1>6

\* ADD keeps the invariant.
LEMMA AddStep ==
  ASSUME IInv, NEW n \in Names, NEW auto \in BOOLEAN, NEW key \in CInt,
         NEW lits \in AddValues, execute_add(n, auto, key, lits)
  PROVE  IInv' /\ CountersGrow
<1> DEFINE req == [key |-> key, auto |-> auto]
           vals == [i \in DOMAIN lits |-> Elements(lits[i])]
           arg == IF auto THEN -1 ELSE key
<1>1. ASSUME Refuse("ADD", n, req, -1) PROVE IInv' /\ CountersGrow
  BY <1>1, RefuseKeeps
<1>2. ASSUME find_db(n), validate_value_types(dbs[n], lits),
             NEW o \in db_add_row(dbs[n], arg, vals, clock),
             Store("ADD", n, req, o, IF auto THEN Wrap(o.db.nextKey - 1) ELSE key)
      PROVE  IInv' /\ CountersGrow
  <2>1. n \in DOMAIN dbs /\ TableOK(dbs[n]) /\ clock \in Nat
    BY <1>2 DEF find_db, IInv, TypeOK
  <2>2. arg \in CInt /\ key \in Int
    BY LimitsAssumption DEF CInt, IntMin
  <2>3. lits \in Seq(ParsedLiterals)
    BY InputsAssumption
  <2>4. Fits(dbs[n].schema, vals)
    BY <1>2, <2>1, <2>3, AddedValuesFit DEF TableOK
  <2> HIDE DEF vals
  <2>5. /\ TableOK(o.db) /\ o.rc \in Int
        /\ arg < 0 /\ o.rc = -5 => o.db.overflowed
        /\ ~o.db.overflowed => dbs[n].nextKey <= o.db.nextKey
    BY <1>2, <2>1, <2>2, <2>4, AddRowKeepsTable
  <2>6. Wrap(o.db.nextKey - 1) \in Int
    BY <2>5, NextKeyInt, LimitsAssumption DEF Wrap, IntMin
  <2>7. req.auto => arg < 0
    OBVIOUS
  <2> DEFINE code == IF auto THEN Wrap(o.db.nextKey - 1) ELSE key
  <2>8. code \in Int
    BY <2>2, <2>6
  <2> HIDE DEF req, arg, code
  <2>9. Store("ADD", n, req, o, code)
    BY <1>2 DEF code
  <2>. QED BY <2>1, <2>5, <2>7, <2>8, <2>9, StoreKeeps
<1> HIDE DEF vals, arg
<1>. QED BY <1>1, <1>2 DEF execute_add, DbNotFound, vals, arg

\* UP, DEL and CREATE_INDEX keep the invariant.
LEMMA UpdateStep ==
  ASSUME IInv, NEW n \in Names,
         \/ \E key \in KeyArgs, lits \in UpValues : execute_up(n, key, lits)
         \/ \E key \in KeyArgs : execute_del(n, key)
         \/ \E f \in FieldArgs : execute_create_index(n, f)
  PROVE  IInv' /\ CountersGrow
<1>1. ASSUME NEW op \in {"UP", "DEL", "CREATE_INDEX"}, NEW req, Refuse(op, n, req, -1)
      PROVE  IInv' /\ CountersGrow
  BY <1>1, RefuseKeeps
<1>2. ASSUME NEW op \in {"UP", "DEL", "CREATE_INDEX"}, NEW req, NEW o, find_db(n),
             TableOK(o.db), o.rc \in Int, o.db.nextKey = dbs[n].nextKey,
             NEW code \in Int, Store(op, n, req, o, code)
      PROVE  IInv' /\ CountersGrow
  <2>1. n \in DOMAIN dbs /\ TableOK(dbs[n])
    BY <1>2 DEF find_db, IInv
  <2>2. dbs[n].nextKey <= o.db.nextKey
    BY <1>2, <2>1, NextKeyInt
  <2>. QED BY <1>2, <2>1, <2>2, StoreKeeps
<1>3. KeyArgs \subseteq Int /\ FieldArgs \subseteq Int
  BY InputsAssumption, LimitsAssumption DEF CInt, IntMin, FieldArgs
<1>4. ASSUME NEW key \in KeyArgs, NEW lits \in UpValues, execute_up(n, key, lits)
      PROVE  IInv' /\ CountersGrow
  <2> DEFINE req == [key |-> key, lits |-> lits]
  <2>1. ASSUME find_db(n), ValidUpdate(dbs[n], lits),
               NEW o \in db_update_row(dbs[n], key, lits, clock),
               Store("UP", n, req, o, key)
        PROVE  IInv' /\ CountersGrow
    <3>1. TableOK(dbs[n]) /\ clock \in Nat /\ lits \in Seq(ParsedLiterals)
      BY <2>1, InputsAssumption DEF find_db, IInv, TypeOK
    <3>2. TableOK(o.db) /\ o.rc \in Int /\ o.db.nextKey = dbs[n].nextKey
      BY <2>1, <3>1, UpdateRowKeepsTable
    <3> HIDE DEF req
    <3>. QED BY <1>2, <1>3, <2>1, <3>2
  <2>. QED BY <1>1, <1>4, <2>1 DEF execute_up, DbNotFound
<1>5. ASSUME NEW key \in KeyArgs, execute_del(n, key)
      PROVE  IInv' /\ CountersGrow
  <2>1. ASSUME find_db(n), NEW o \in db_delete_row(dbs[n], key),
               Store("DEL", n, [key |-> key], o, key)
        PROVE  IInv' /\ CountersGrow
    <3>1. TableOK(dbs[n])
      BY <2>1 DEF find_db, IInv
    <3>2. TableOK(o.db) /\ o.rc \in Int /\ o.db.nextKey = dbs[n].nextKey
      BY <2>1, <3>1, DeleteRowKeepsTable
    <3>. QED BY <1>2, <1>3, <2>1, <3>2
  <2>. QED BY <1>1, <1>5, <2>1 DEF execute_del, DbNotFound
<1>6. ASSUME NEW f \in FieldArgs, execute_create_index(n, f)
      PROVE  IInv' /\ CountersGrow
  <2>1. ASSUME find_db(n), f \in DOMAIN dbs[n].index,
               FieldType(dbs[n], f) \notin ArrayTypes,
               NEW o \in db_create_index(dbs[n], f),
               Store("CREATE_INDEX", n, [field |-> f], o, f)
        PROVE  IInv' /\ CountersGrow
    <3>1. TableOK(dbs[n])
      BY <2>1 DEF find_db, IInv
    <3>2. TableOK(o.db) /\ o.rc \in Int /\ o.db.nextKey = dbs[n].nextKey
      BY <2>1, <3>1, CreateIndexKeepsTable
    <3>. QED BY <1>2, <1>3, <2>1, <3>2
  <2>. QED BY <1>1, <1>6, <2>1 DEF execute_create_index, DbNotFound
<1>. QED BY <1>4, <1>5, <1>6

\* GET, GET_ALL, COUNT and SEARCH keep the invariant.
LEMMA QueryStep ==
  ASSUME IInv, NEW n \in Names,
         \/ execute_count(n)
         \/ \E fields \in FieldLists :
              \/ \E key \in KeyArgs : execute_get(n, key, fields)
              \/ execute_get_all(n, fields)
              \/ \E f \in FieldArgs, s \in SearchValues : execute_search(n, f, s, fields)
  PROVE  IInv' /\ CountersGrow
<1>1. ASSUME NEW op \in {"COUNT", "GET", "GET_ALL", "SEARCH"}, NEW req,
             NEW code \in Int, Refuse(op, n, req, code)
      PROVE  IInv' /\ CountersGrow
  BY <1>1, RefuseKeeps
<1>2. -1 \in Int /\ -2 \in Int /\ -4 \in Int /\ -7 \in Int
  OBVIOUS
<1>3. n \in DOMAIN dbs => /\ TableOK(dbs[n]) /\ dbs[n].rowsCount \in Int
                          /\ DOMAIN dbs[n].rows \subseteq CInt
  BY DEF IInv, TableOK, IsDB
<1>4. ASSUME execute_count(n) PROVE IInv' /\ CountersGrow
  <2>1. ASSUME n \in DOMAIN dbs, UNCHANGED <<dbs, clock>>,
               Answer("COUNT", n, <<>>, dbs[n].rowsCount, {})
        PROVE  IInv' /\ CountersGrow
    BY <1>3, <2>1, AnswerKeeps
  <2>. QED BY <1>1, <1>2, <1>4, <2>1 DEF execute_count, DbNotFound, find_db
<1>5. ASSUME NEW fields \in FieldLists, NEW key \in KeyArgs, execute_get(n, key, fields)
      PROVE  IInv' /\ CountersGrow
  <2> DEFINE req == [key |-> key]
  <2>1. ASSUME key \in DOMAIN dbs[n].rows, UNCHANGED <<dbs, clock>>,
               Answer("GET", n, req, key, {key})
        PROVE  IInv' /\ CountersGrow
    <3>1. key \in Int /\ {key} \in SUBSET CInt
      BY InputsAssumption, LimitsAssumption DEF CInt, IntMin
    <3> HIDE DEF req
    <3>. QED BY <2>1, <3>1, AnswerKeeps
  <2>. QED BY <1>1, <1>2, <1>5, <2>1 DEF execute_get, DbNotFound, OutOfMemory
<1>6. ASSUME NEW fields \in FieldLists, execute_get_all(n, fields)
      PROVE  IInv' /\ CountersGrow
  <2>1. ASSUME n \in DOMAIN dbs, UNCHANGED <<dbs, clock>>,
               Answer("GET_ALL", n, <<>>, dbs[n].rowsCount, DOMAIN dbs[n].rows)
        PROVE  IInv' /\ CountersGrow
    BY <1>3, <2>1, AnswerKeeps
  <2>. QED BY <1>1, <1>2, <1>6, <2>1 DEF execute_get_all, DbNotFound, OutOfMemory, find_db
<1>7. ASSUME NEW fields \in FieldLists, NEW f \in FieldArgs, NEW s \in SearchValues,
             execute_search(n, f, s, fields)
      PROVE  IInv' /\ CountersGrow
  <2> DEFINE req == [field |-> f, value |-> s]
             found == SearchRows(dbs[n], f, s)
  <2>1. ASSUME n \in DOMAIN dbs, f \in DOMAIN dbs[n].index,
               dbs' = dbs, clock' = clock,
               Answer("SEARCH", n, req, Cardinality(found), found)
        PROVE  IInv' /\ CountersGrow
    <3>1. found \subseteq DOMAIN dbs[n].rows
      BY DEF SearchRows, db_index_collect_rows, ScanRows
    <3>2. Cardinality(found) \in Int /\ found \subseteq CInt
      <4>1. IsFiniteSet(DOMAIN dbs[n].rows)
        BY <1>3, <2>1 DEF TableOK, CountOK
      <4>2. Cardinality(found) \in Nat
        BY <3>1, <4>1, FS_Subset, FS_CardinalityType
      <4>. QED BY <1>3, <2>1, <3>1, <4>2
    <3>3. f \notin dbs[n].stale => found = ScanRows(dbs[n], f, s)
      BY <1>3, <2>1, SearchFindsScan
    <3> HIDE DEF found
    <3>4. /\ reply'.op = "SEARCH" /\ reply'.db = n /\ reply'.ok = TRUE
          /\ reply'.req.field = f /\ reply'.req.value = s
          /\ reply'.code = Cardinality(found) /\ reply'.keys = found
      BY <2>1 DEF Answer
    <3>5. TypeOK' /\ (\A m \in DOMAIN dbs' : TableOK(dbs'[m]))
      BY <2>1, <3>2, <3>4 DEF IInv, TypeOK
    <3>6. SearchShowsMatches'
      BY <2>1, <3>3, <3>4 DEF SearchShowsMatches
    <3>7. AutoKeyAccepted'
      BY <3>4 DEF AutoKeyAccepted
    <3>8. CountersGrow
      BY <2>1, NextKeyInt DEF CountersGrow, IInv
    <3>. QED BY <3>5, <3>6, <3>7, <3>8 DEF IInv
  <2>2. ~UnknownField(dbs[n], {f} \cup fields) => f \in DOMAIN dbs[n].index
    BY DEF UnknownField
  <2> HIDE DEF found
  <2>. QED BY <1>1, <1>2, <1>7, <2>1, <2>2
           DEF execute_search, DbNotFound, OutOfMemory, find_db, found
<1>. QED BY <1>4, <1>5, <1>6, <1>7

\* Every step keeps the invariant and never lowers a key counter.
LEMMA StepKeeps == ASSUME IInv, [Next]_vars PROVE IInv' /\ CountersGrow
<1>1. ASSUME NEW n \in Names, NEW lits \in AddValues,
             \/ execute_add(n, TRUE, 0, lits)
             \/ \E key \in KeyArgs : execute_add(n, FALSE, key, lits)
      PROVE  IInv' /\ CountersGrow
  <2>1. 0 \in CInt /\ KeyArgs \subseteq CInt
    BY LimitsAssumption, InputsAssumption DEF CInt, IntMin
  <2>. QED BY <1>1, <2>1, AddStep
<1>2. ASSUME execute_command PROVE IInv' /\ CountersGrow
  BY <1>1, <1>2, TableStep, UpdateStep, QueryStep DEF execute_command
<1>3. ASSUME dbs' = dbs, reply' = reply, clock' \in Nat PROVE IInv' /\ CountersGrow
  <2>1. TypeOK' /\ (\A m \in DOMAIN dbs' : TableOK(dbs'[m]))
    BY <1>3 DEF IInv, TypeOK
  <2>2. AutoKeyAccepted' /\ SearchShowsMatches'
    BY <1>3 DEF IInv, AutoKeyAccepted, SearchShowsMatches
  <2>3. CountersGrow
    BY <1>3, NextKeyInt DEF CountersGrow, IInv
  <2>. QED BY <2>1, <2>2, <2>3 DEF IInv
<1>4. CASE Tick
  BY <1>3, <1>4 DEF Tick, IInv, TypeOK
<1>5. CASE UNCHANGED vars
  BY <1>3, <1>5 DEF vars, IInv, TypeOK
<1>. QED BY <1>2, <1>4, <1>5 DEF Next

-----------------------------------------------------------------------------
(* The theorems *)

\* The storage satisfies the inductive invariant in every reachable state.
THEOREM Invariance == Spec => []IInv
<1>1. Init => IInv
  BY InitEstablishes
<1>2. IInv /\ [Next]_vars => IInv'
  BY StepKeeps
<1>. QED BY <1>1, <1>2, PTL DEF Spec

\* Storage, replies and clock are well typed (execute_command).
THEOREM TypeCorrect == Spec => []TypeOK
<1>1. IInv => TypeOK
  BY DEF IInv
<1>. QED BY <1>1, Invariance, PTL

\* rowsCount is the number of rows in the hash map (db_add_row,
\* db_delete_row).
THEOREM RowsCountedTheorem == Spec => []RowsCounted
<1>1. IInv => RowsCounted
  BY DEF IInv, TableOK, RowsCounted
<1>. QED BY <1>1, Invariance, PTL

\* nextKey lies above every key until it overflows (db_add_row).
THEOREM NextKeyTheorem == Spec => []NextKeyAboveRows
<1>1. IInv => NextKeyAboveRows
  BY DEF IInv, TableOK, NextKeyAboveRows
<1>. QED BY <1>1, Invariance, PTL

\* Stored arrays respect MAX_ARRAY_LENGTH, scalar fields hold one value
\* (db_update_row, validate_value_types).
THEOREM ArraysBoundedTheorem == Spec => []ArraysBounded
<1>1. IInv => ArraysBounded
  BY DEF IInv, TableOK, ArraysBounded
<1>. QED BY <1>1, Invariance, PTL

\* An enabled index is exact except on the fields that a failed UP wrote
\* (rebuild_enabled_indexes).
THEOREM IndexExactTheorem == Spec => []IndexExact
<1>1. IInv => IndexExact
  BY DEF IInv, TableOK, IndexExact
<1>. QED BY <1>1, Invariance, PTL

\* An indexed SEARCH shows what a scan shows, unless its field is stale
\* (execute_search, db_index_collect_rows).
THEOREM SearchTheorem == Spec => []SearchShowsMatches
<1>1. IInv => SearchShowsMatches
  BY DEF IInv
<1>. QED BY <1>1, Invariance, PTL

\* ADD * never meets a key that exists, unless nextKey overflowed
\* (db_add_row).
THEOREM AutoKeyTheorem == Spec => []AutoKeyAccepted
<1>1. IInv => AutoKeyAccepted
  BY DEF IInv
<1>. QED BY <1>1, Invariance, PTL

\* A table's key counter never goes back, unless it overflowed (db_add_row).
THEOREM KeysNotReusedTheorem == Spec => KeysNotReused
<1>1. IInv /\ [Next]_vars =>
        [\A n \in DOMAIN dbs \cap DOMAIN dbs' :
           ~dbs'[n].overflowed => dbs[n].nextKey <= dbs'[n].nextKey]_vars
  BY StepKeeps DEF CountersGrow
<1>. QED BY <1>1, Invariance, PTL DEF Spec, KeysNotReused
=============================================================================
