----------------------------- MODULE RowsProofs -----------------------------
(***************************************************************************)
(* Proofs about what the commands of Operations do to rows: that an index  *)
(* names every live row also after a failed UP, that timestamps are        *)
(* ordered, that ADD names the row it made, that a refused command leaves  *)
(* the rows alone, and that all of them implement TableStore.  They rest   *)
(* on the invariant of OperationsProofs.                                   *)
(***************************************************************************)
EXTENDS OperationsProofs

-----------------------------------------------------------------------------
(* One table *)

\* The entries of an index name every row of the table once.
Covers(db, f) ==
  /\ {e[2] : e \in db.index[f].entries} = DOMAIN db.rows
  /\ \A e1, e2 \in db.index[f].entries : e1[2] = e2[2] => e1 = e2

CoversRows(db) == \A f \in EnabledIndexes(db) : Covers(db, f)

StampsOK(db, now) ==
  \A k \in DOMAIN db.rows :
    /\ db.rows[k].created <= db.rows[k].updated
    /\ db.rows[k].updated <= now

RowsOK(db, now) == CoversRows(db) /\ StampsOK(db, now)

\* Table d has the rows of db, but for fields that lits names of row key.
WrittenLocally(db, d, key, lits) ==
  \A k \in DOMAIN db.rows :
    \/ d.rows[k] = db.rows[k]
    \/ /\ k = key
       /\ \A f \in DOMAIN db.schema :
            lits[f] = Ignored => d.rows[k].vals[f] = db.rows[k].vals[f]

TableFields ==
  {"schema", "rows", "rowsCount", "nextKey", "index", "overflowed", "stale"}

\* A rebuilt index names every row once.
LEMMA RebuiltCovers ==
  ASSUME NEW db, NEW f, db.index[f].entries = IndexEntries(db, f)
  PROVE  Covers(db, f)
<1>1. \A e \in IndexEntries(db, f) :
        e[2] \in DOMAIN db.rows /\ e = <<FieldValue(db, e[2], f), e[2]>>
  BY DEF IndexEntries
<1>2. ASSUME NEW k \in DOMAIN db.rows
      PROVE  \E e \in IndexEntries(db, f) : e[2] = k
  <2>1. <<FieldValue(db, k, f), k>> \in IndexEntries(db, f)
    BY DEF IndexEntries
  <2>. QED BY <2>1
<1>. QED BY <1>1, <1>2 DEF Covers

\* An index names the rows when the entries and the live keys are unchanged.
LEMMA KeptCovers ==
  ASSUME NEW db, NEW d, CoversRows(db), d.index = db.index, DOMAIN d.rows = DOMAIN db.rows
  PROVE  CoversRows(d)
BY DEF CoversRows, Covers, EnabledIndexes

\* rebuild_enabled_indexes keeps the rows and the key counter, and every index
\* that is still enabled names every row.
LEMMA RebuildCovers ==
  ASSUME NEW db, DOMAIN db = TableFields, NEW d \in rebuild_enabled_indexes(db)
  PROVE  /\ CoversRows(d) /\ d.rows = db.rows
         /\ d.nextKey = db.nextKey /\ d.overflowed = db.overflowed
<1>1. PICK failed \in SUBSET OnMallocFailure(EnabledIndexes(db)) :
        d = [db EXCEPT !.index = [f \in DOMAIN db.index |->
                                    IF f \in EnabledIndexes(db) \ failed
                                      THEN rebuild_single_index(db, f)
                                      ELSE NoIndex],
                       !.stale = {}]
  BY DEF rebuild_enabled_indexes
<1>2. /\ d.rows = db.rows /\ d.nextKey = db.nextKey /\ d.overflowed = db.overflowed
      /\ d.index = [f \in DOMAIN db.index |->
                      IF f \in EnabledIndexes(db) \ failed
                        THEN rebuild_single_index(db, f) ELSE NoIndex]
  BY <1>1 DEF TableFields
<1>3. ASSUME NEW f \in EnabledIndexes(d) PROVE Covers(d, f)
  <2>1. d.index[f] = rebuild_single_index(db, f)
    BY <1>2, <1>3 DEF EnabledIndexes, NoIndex
  <2>2. IndexEntries(d, f) = IndexEntries(db, f)
    BY <1>2 DEF IndexEntries, FieldValue
  <2>. QED BY <2>1, <2>2, RebuiltCovers DEF rebuild_single_index
<1>. QED BY <1>2, <1>3 DEF CoversRows

\* A new table has no row and no index.
LEMMA CreateRows ==
  ASSUME NEW schema, NEW now PROVE RowsOK(db_create(schema), now)
BY DEF RowsOK, CoversRows, StampsOK, db_create, EnabledIndexes, NoIndex

\* db_add_row: the rows stay in order, a refused row changes none, and a row
\* that goes in is found under the requested key or, for an automatic one,
\* under the key before nextKey.
LEMMA AddRowRows ==
  ASSUME NEW db, TableOK(db), NEW key \in CInt, NEW now \in Nat, RowsOK(db, now),
         NEW vals, Fits(db.schema, vals), NEW o \in db_add_row(db, key, vals, now)
  PROVE  /\ RowsOK(o.db, now)
         /\ o.rc # 0 => o.db.rows = db.rows
         /\ o.rc = 0 /\ key >= 0 => key \in DOMAIN o.db.rows
         /\ o.rc = 0 /\ key < 0 => Wrap(o.db.nextKey - 1) \in DOMAIN o.db.rows
<1> DEFINE actual == IF key < 0 THEN db.nextKey ELSE key
           t == TakeKey(db, key)
           e == InsertRow(t, actual, vals, now)
<1>0. IsDB(db) /\ NextKeyOK(db)
  BY DEF TableOK
<1>1. /\ IsDB(t) /\ t.schema = db.schema /\ t.rows = db.rows /\ t.index = db.index
  BY <1>0, TakeKeyFacts
<1>2. RowsOK(t, now)
  BY <1>1, KeptCovers DEF RowsOK, StampsOK
<1>3. CASE o.rc # 0 /\ o.db \in {db, t}
  BY <1>1, <1>2, <1>3
<1>4. ASSUME NEW d \in rebuild_enabled_indexes(e), o = [rc |-> 0, db |-> d]
      PROVE  /\ RowsOK(d, now) /\ actual \in DOMAIN d.rows
             /\ d.nextKey = t.nextKey /\ d.overflowed = t.overflowed
  <2>1. /\ DOMAIN e = DOMAIN t /\ e.schema = t.schema /\ e.index = t.index
        /\ e.stale = t.stale /\ e.nextKey = t.nextKey
        /\ e.overflowed = t.overflowed /\ e.rowsCount = t.rowsCount + 1
        /\ e.rows = [k \in DOMAIN t.rows \cup {actual} |->
                       IF k = actual
                         THEN [vals |-> vals, created |-> now, updated |-> now]
                         ELSE t.rows[k]]
    BY <1>1 DEF InsertRow, IsDB
  <2> HIDE DEF e
  <2>3. DOMAIN e.rows = DOMAIN t.rows \cup {actual}
    BY <2>1
  <2>5. DOMAIN e = TableFields
    BY <1>1, <2>1 DEF IsDB, TableFields
  <2>6. /\ CoversRows(d) /\ d.rows = e.rows
        /\ d.nextKey = e.nextKey /\ d.overflowed = e.overflowed
    BY <1>4, <2>5, RebuildCovers
  <2>7. StampsOK(e, now)
    BY <1>2, <2>1 DEF RowsOK, StampsOK
  <2>8. StampsOK(d, now)
    BY <2>6, <2>7 DEF StampsOK
  <2>. QED BY <2>1, <2>3, <2>6, <2>8 DEF RowsOK
<1>5. ASSUME key < 0 PROVE Wrap(t.nextKey - 1) = db.nextKey
  <2>1. t.nextKey = Wrap(NextKeyAfter(db, key))
    BY <1>0 DEF TakeKey, IsDB
  <2>2. NextKeyAfter(db, key) = db.nextKey + 1 /\ db.nextKey \in CInt
    BY <1>0, <1>5 DEF NextKeyAfter, IsDB
  <2>. QED BY <2>1, <2>2, LimitsAssumption DEF Wrap, CInt, IntMin
<1>6. ASSUME NEW d \in rebuild_enabled_indexes(e), o = [rc |-> 0, db |-> d]
      PROVE  /\ RowsOK(o.db, now)
             /\ key >= 0 => key \in DOMAIN o.db.rows
             /\ key < 0 => Wrap(o.db.nextKey - 1) \in DOMAIN o.db.rows
  <2>1. key \in Int
    BY LimitsAssumption DEF CInt, IntMin
  <2> HIDE DEF e, t
  <2>. QED BY <1>4, <1>5, <1>6, <2>1
<1>7. \/ o.rc # 0 /\ o.db \in {db, t}
      \/ \E d \in rebuild_enabled_indexes(e) : o = [rc |-> 0, db |-> d]
  BY DEF db_add_row, ActualKey, OnMallocFailure
<1> HIDE DEF e, t, actual
<1>. QED BY <1>3, <1>6, <1>7

\* db_update_row: the rows stay in order, and an UP that fails has changed at
\* most the fields that it names of the row that it names.
LEMMA UpdateRowRows ==
  ASSUME NEW db, TableOK(db), NEW key, NEW now \in Nat, RowsOK(db, now),
         NEW lits \in Seq(ParsedLiterals), ValidUpdate(db, lits),
         NEW o \in db_update_row(db, key, lits, now)
  PROVE  /\ RowsOK(o.db, now)
         /\ DOMAIN o.db.rows = DOMAIN db.rows
         /\ o.rc # 0 => WrittenLocally(db, o.db, key, lits)
<1> DEFINE limits == {f \in DOMAIN db.schema : AtLimit(db, key, f, lits)}
           e == UpdatedRow(db, key, lits, now)
<1>0. IsDB(db)
  BY DEF TableOK
<1>1. CASE o = [rc |-> -3, db |-> db]
  BY <1>1 DEF WrittenLocally
<1>2. ASSUME key \in DOMAIN db.rows, NEW f \in DOMAIN db.schema, NEW freed \in BOOLEAN,
             freed => lits[f] # Ignored
      PROVE  LET d == TornRow(db, key, f, lits, freed)
             IN  /\ RowsOK(d, now)
                 /\ DOMAIN d.rows = DOMAIN db.rows
                 /\ \A k \in DOMAIN db.rows : k # key => d.rows[k] = db.rows[k]
                 /\ \A g \in DOMAIN db.schema :
                      lits[g] = Ignored => d.rows[key].vals[g] = db.rows[key].vals[g]
  <2> DEFINE d == TornRow(db, key, f, lits, freed)
             vals == [g \in DOMAIN db.schema |->
                        IF g < f THEN UpdatedValue(db.rows[key].vals[g], lits[g])
                        ELSE IF g = f /\ freed THEN <<>> ELSE db.rows[key].vals[g]]
  <2>1. /\ d.index = db.index
        /\ d.rows = [db.rows EXCEPT ![key].vals = vals]
    BY <1>0 DEF TornRow, IsDB
  <2>2. db.rows[key] \in Row
    BY <1>0, <1>2 DEF IsDB
  <2>3. \A g \in DOMAIN db.schema : lits[g] = Ignored => vals[g] = db.rows[key].vals[g]
    BY <1>2 DEF UpdatedValue
  <2> HIDE DEF d, vals
  <2>4. /\ DOMAIN d.rows = DOMAIN db.rows
        /\ d.rows[key] = [db.rows[key] EXCEPT !.vals = vals]
        /\ \A k \in DOMAIN db.rows : k # key => d.rows[k] = db.rows[k]
    BY <1>2, <2>1
  <2>5. /\ d.rows[key].vals = vals /\ d.rows[key].created = db.rows[key].created
        /\ d.rows[key].updated = db.rows[key].updated
    BY <2>2, <2>4 DEF Row
  <2>6. StampsOK(d, now)
    BY <1>2, <2>4, <2>5 DEF RowsOK, StampsOK
  <2>7. CoversRows(d)
    BY <2>1, <2>4, KeptCovers DEF RowsOK
  <2>. QED BY <2>3, <2>4, <2>5, <2>6, <2>7 DEF RowsOK, d
<1>3. ASSUME key \in DOMAIN db.rows, NEW d \in rebuild_enabled_indexes(e)
      PROVE  RowsOK(d, now) /\ DOMAIN d.rows = DOMAIN db.rows
  <2> DEFINE vals == [g \in DOMAIN db.schema |->
                        UpdatedValue(db.rows[key].vals[g], lits[g])]
  <2>0. db.rows[key] \in Row
    BY <1>0, <1>3 DEF IsDB
  <2>1. /\ DOMAIN e = DOMAIN db /\ DOMAIN e.rows = DOMAIN db.rows
        /\ e.rows[key] = [db.rows[key] EXCEPT !.vals = vals, !.updated = now]
        /\ \A k \in DOMAIN db.rows : k # key => e.rows[k] = db.rows[k]
    BY <1>0, <1>3 DEF UpdatedRow, IsDB
  <2> HIDE DEF vals, e
  <2>2. e.rows[key].created = db.rows[key].created /\ e.rows[key].updated = now
    BY <2>0, <2>1 DEF Row
  <2>3. db.rows[key].created \in Nat /\ db.rows[key].updated \in Nat
    BY <2>0 DEF Row
  <2>4. StampsOK(e, now)
    <3>1. /\ db.rows[key].created <= db.rows[key].updated
          /\ db.rows[key].updated <= now
      BY <1>3 DEF RowsOK, StampsOK
    <3>2. e.rows[key].created <= e.rows[key].updated /\ e.rows[key].updated <= now
      BY <2>2, <2>3, <3>1
    <3>3. ASSUME NEW k \in DOMAIN db.rows, k # key
          PROVE  e.rows[k].created <= e.rows[k].updated /\ e.rows[k].updated <= now
      BY <2>1, <3>3 DEF RowsOK, StampsOK
    <3>. QED BY <2>1, <3>2, <3>3 DEF StampsOK
  <2>5. CoversRows(d) /\ d.rows = e.rows
    BY <1>0, <1>3, <2>1, RebuildCovers DEF IsDB, TableFields
  <2>. QED BY <2>1, <2>4, <2>5 DEF RowsOK, StampsOK
<1>4. \/ o = [rc |-> -3, db |-> db]
      \/ /\ key \in DOMAIN db.rows
         /\ \E f \in DOMAIN db.schema :
              o = [rc |-> -5, db |-> TornRow(db, key, f, lits, FALSE)]
      \/ /\ key \in DOMAIN db.rows
         /\ \E f \in DOMAIN db.schema :
              /\ Allocates(db, f, lits)
              /\ o = [rc |-> -4, db |-> TornRow(db, key, f, lits, ~lits[f].append)]
      \/ /\ key \in DOMAIN db.rows
         /\ \E d \in rebuild_enabled_indexes(e) : o = [rc |-> 0, db |-> d]
  BY DEF db_update_row, OnMallocFailure
<1>5. \A f \in DOMAIN db.schema : lits[f].append \in BOOLEAN
  <2>1. DOMAIN lits = DOMAIN db.schema
    BY <1>0 DEF ValidUpdate, IsDB
  <2>2. \A f \in DOMAIN lits : lits[f] \in Literal
    BY DEF ParsedLiterals
  <2>. QED BY <2>1, <2>2 DEF Literal
<1> HIDE DEF e, limits
<1>6. ASSUME NEW f \in DOMAIN db.schema, key \in DOMAIN db.rows, NEW rc,
             NEW freed \in BOOLEAN, freed => lits[f] # Ignored,
             o = [rc |-> rc, db |-> TornRow(db, key, f, lits, freed)]
      PROVE  /\ RowsOK(o.db, now)
             /\ DOMAIN o.db.rows = DOMAIN db.rows
             /\ WrittenLocally(db, o.db, key, lits)
  BY <1>2, <1>6 DEF WrittenLocally
<1>7. CASE \E f \in DOMAIN db.schema :
             /\ key \in DOMAIN db.rows
             /\ o = [rc |-> -5, db |-> TornRow(db, key, f, lits, FALSE)]
  BY <1>6, <1>7
<1>8. CASE \E f \in DOMAIN db.schema :
             /\ key \in DOMAIN db.rows /\ Allocates(db, f, lits)
             /\ o = [rc |-> -4, db |-> TornRow(db, key, f, lits, ~lits[f].append)]
  BY <1>5, <1>6, <1>8 DEF Allocates
<1>9. CASE key \in DOMAIN db.rows
           /\ \E d \in rebuild_enabled_indexes(e) : o = [rc |-> 0, db |-> d]
  BY <1>3, <1>9
<1>. QED BY <1>1, <1>4, <1>7, <1>8, <1>9

\* db_delete_row: the rows stay in order, and a key that is not found changes
\* none.
LEMMA DeleteRowRows ==
  ASSUME NEW db, IsDB(db), NEW key, NEW now, RowsOK(db, now),
         NEW o \in db_delete_row(db, key)
  PROVE  RowsOK(o.db, now) /\ (o.rc # 0 => o.db.rows = db.rows)
<1> DEFINE e == [db EXCEPT !.rows = [k \in DOMAIN db.rows \ {key} |-> db.rows[k]],
                           !.rowsCount = @ - 1]
<1>1. CASE key \notin DOMAIN db.rows
  BY <1>1 DEF db_delete_row
<1>2. CASE key \in DOMAIN db.rows
  <2>1. PICK d \in rebuild_enabled_indexes(e) : o = [rc |-> 0, db |-> d]
    BY <1>2 DEF db_delete_row
  <2>2. /\ DOMAIN e = TableFields
        /\ e.rows = [k \in DOMAIN db.rows \ {key} |-> db.rows[k]]
    BY DEF IsDB, TableFields
  <2> HIDE DEF e
  <2>3. CoversRows(d) /\ d.rows = e.rows
    BY <2>2, RebuildCovers
  <2>. QED BY <2>1, <2>2, <2>3 DEF RowsOK, StampsOK
<1>. QED BY <1>1, <1>2

\* db_create_index touches no row, and the new index names every row.
LEMMA CreateIndexRows ==
  ASSUME NEW db, IsDB(db), NEW f \in DOMAIN db.index, NEW now, RowsOK(db, now),
         NEW o \in db_create_index(db, f)
  PROVE  RowsOK(o.db, now) /\ o.db.rows = db.rows
<1>1. ASSUME NEW ix, NEW d, d.rows = db.rows, d.index = [db.index EXCEPT ![f] = ix],
             ix = NoIndex \/ ix.entries = IndexEntries(db, f)
      PROVE  RowsOK(d, now)
  <2>1. ASSUME NEW g \in EnabledIndexes(d) PROVE Covers(d, g)
    <3>1. CASE g = f
      <4>1. d.index[f] = ix /\ ix.enabled
        BY <1>1, <2>1, <3>1 DEF EnabledIndexes, IsDB
      <4>2. d.index[f].entries = IndexEntries(d, f)
        BY <1>1, <4>1 DEF NoIndex, IndexEntries, FieldValue
      <4>. QED BY <3>1, <4>2, RebuiltCovers
    <3>2. CASE g # f
      BY <1>1, <2>1, <3>2 DEF EnabledIndexes, RowsOK, CoversRows, Covers
    <3>. QED BY <3>1, <3>2
  <2>. QED BY <1>1, <2>1 DEF RowsOK, CoversRows, StampsOK
<1>2. CASE o = [rc |-> -2, db |-> db]
  BY <1>2
<1>3. CASE o = [rc |-> 0, db |-> [db EXCEPT !.index[f] = rebuild_single_index(db, f),
                                            !.stale = @ \ {f}]]
  <2>1. /\ o.db.rows = db.rows
        /\ o.db.index = [db.index EXCEPT ![f] = rebuild_single_index(db, f)]
    BY <1>3 DEF IsDB
  <2>. QED BY <1>1, <2>1 DEF rebuild_single_index
<1>4. CASE o = [rc |-> -3, db |-> [db EXCEPT !.index[f] = NoIndex]]
  <2>1. o.db.rows = db.rows /\ o.db.index = [db.index EXCEPT ![f] = NoIndex]
    BY <1>4 DEF IsDB
  <2>. QED BY <1>1, <2>1
<1>. QED BY <1>2, <1>3, <1>4 DEF db_create_index, OnMallocFailure

-----------------------------------------------------------------------------
(* The executor *)

\* What the theorems of this module add to IInv.  StampsOK bounds the stamps by
\* the clock, which is what keeps updated above created when UP sets it.
RowsInv ==
  /\ \A n \in DOMAIN dbs : RowsOK(dbs[n], clock)
  /\ AddNamesItsRow

\* The step of RefusalIsLocal.
RefusedLocally ==
  ~reply'.ok =>
    \A n \in DOMAIN dbs : \A k \in DOMAIN dbs[n].rows :
      /\ n \in DOMAIN dbs'
      /\ DOMAIN dbs[n].rows = DOMAIN dbs'[n].rows
      /\ \/ dbs'[n].rows[k] = dbs[n].rows[k]
         \/ /\ reply'.op = "UP" /\ reply'.db = n /\ reply'.req.key = k
            /\ \A f \in DOMAIN dbs[n].schema :
                 reply'.req.lits[f] = Ignored =>
                   dbs'[n].rows[k].vals[f] = dbs[n].rows[k].vals[f]

\* A command that leaves the tables alone and is not an accepted ADD.
LEMMA UntouchedRows ==
  ASSUME RowsInv, dbs' = dbs, clock' = clock, ~(reply'.op = "ADD" /\ reply'.ok)
  PROVE  RowsInv' /\ RefusedLocally
BY DEF RowsInv, AddNamesItsRow, RefusedLocally

\* A call of the storage layer on table n, whose outcome is stored.
LEMMA StoreRows ==
  ASSUME RowsInv, NEW op, NEW n \in DOMAIN dbs, NEW req, NEW o, NEW code,
         RowsOK(o.db, clock), Store(op, n, req, o, code),
         op = "ADD" /\ o.rc = 0 =>
           \/ ~req.auto /\ req.key < 0
           \/ code \in DOMAIN o.db.rows,
         o.rc # 0 =>
           \/ o.db.rows = dbs[n].rows
           \/ /\ op = "UP" /\ DOMAIN o.db.rows = DOMAIN dbs[n].rows
              /\ WrittenLocally(dbs[n], o.db, req.key, req.lits)
  PROVE  RowsInv' /\ RefusedLocally
<1>1. /\ DOMAIN dbs' = DOMAIN dbs /\ dbs'[n] = o.db /\ clock' = clock
      /\ \A m \in DOMAIN dbs : m # n => dbs'[m] = dbs[m]
      /\ reply'.op = op /\ reply'.db = n /\ reply'.req = req
      /\ reply'.ok = (o.rc = 0)
      /\ reply'.code = IF o.rc = 0 THEN code ELSE o.rc
  BY DEF Store
<1>2. \A m \in DOMAIN dbs' : RowsOK(dbs'[m], clock')
  BY <1>1 DEF RowsInv
<1>3. AddNamesItsRow'
  BY <1>1 DEF AddNamesItsRow
<1>4. RefusedLocally
  <2>1. ASSUME o.rc # 0, NEW m \in DOMAIN dbs, NEW k \in DOMAIN dbs[m].rows
        PROVE  /\ m \in DOMAIN dbs' /\ DOMAIN dbs[m].rows = DOMAIN dbs'[m].rows
               /\ \/ dbs'[m].rows[k] = dbs[m].rows[k]
                  \/ /\ reply'.op = "UP" /\ reply'.db = m /\ reply'.req.key = k
                     /\ \A f \in DOMAIN dbs[m].schema :
                          reply'.req.lits[f] = Ignored =>
                            dbs'[m].rows[k].vals[f] = dbs[m].rows[k].vals[f]
    <3>1. CASE m # n
      BY <1>1, <2>1, <3>1
    <3>2. CASE m = n
      BY <1>1, <2>1, <3>2 DEF WrittenLocally
    <3>. QED BY <3>1, <3>2
  <2>2. ~reply'.ok => o.rc # 0
    BY <1>1, Zenon
  <2>. QED BY <2>1, <2>2, Zenon DEF RefusedLocally
<1>. QED BY <1>2, <1>3, <1>4 DEF RowsInv

\* CREATE and DEL_TABLE.
LEMMA TableRows ==
  ASSUME RowsInv, NEW n,
         (\E schema \in Schemas : execute_create(n, schema)) \/ execute_del_table(n)
  PROVE  RowsInv' /\ RefusedLocally
<1>1. ASSUME NEW schema, add_db(n, db_create(schema)), UNCHANGED clock,
             Answer("CREATE", n, <<>>, Len(schema), {})
      PROVE  RowsInv' /\ RefusedLocally
  <2>1. /\ DOMAIN dbs' = DOMAIN dbs \cup {n} /\ dbs'[n] = db_create(schema)
        /\ \A m \in DOMAIN dbs : m # n => dbs'[m] = dbs[m]
        /\ reply'.op = "CREATE" /\ reply'.ok = TRUE
    BY <1>1 DEF add_db, Answer
  <2>2. \A m \in DOMAIN dbs' : RowsOK(dbs'[m], clock')
    BY <1>1, <2>1, CreateRows DEF RowsInv
  <2>. QED BY <2>1, <2>2 DEF RowsInv, AddNamesItsRow, RefusedLocally
<1>2. ASSUME dbs' = [m \in DOMAIN dbs \ {n} |-> dbs[m]], UNCHANGED clock,
             Answer("DEL_TABLE", n, <<>>, 1, {})
      PROVE  RowsInv' /\ RefusedLocally
  <2>1. reply'.op = "DEL_TABLE" /\ reply'.ok = TRUE
    BY <1>2 DEF Answer
  <2>2. \A m \in DOMAIN dbs' : RowsOK(dbs'[m], clock')
    BY <1>2 DEF RowsInv
  <2>. QED BY <2>1, <2>2 DEF RowsInv, AddNamesItsRow, RefusedLocally
<1>3. ASSUME NEW op, NEW code, Refuse(op, n, <<>>, code)
      PROVE  RowsInv' /\ RefusedLocally
  BY <1>3, UntouchedRows DEF Refuse
<1>4. ASSUME NEW schema \in Schemas, execute_create(n, schema)
      PROVE  RowsInv' /\ RefusedLocally
  BY <1>1, <1>3, <1>4 DEF execute_create
<1>5. ASSUME execute_del_table(n) PROVE RowsInv' /\ RefusedLocally
  BY <1>2, <1>3, <1>5 DEF execute_del_table, DbNotFound
<1>. QED BY <1>4, <1>5

\* ADD.
LEMMA AddRows ==
  ASSUME IInv, RowsInv, NEW n, NEW auto \in BOOLEAN, NEW key \in CInt,
         NEW lits \in AddValues, execute_add(n, auto, key, lits)
  PROVE  RowsInv' /\ RefusedLocally
<1> DEFINE req == [key |-> key, auto |-> auto]
           vals == [i \in DOMAIN lits |-> Elements(lits[i])]
           arg == IF auto THEN -1 ELSE key
<1>1. ASSUME Refuse("ADD", n, req, -1) PROVE RowsInv' /\ RefusedLocally
  BY <1>1, UntouchedRows DEF Refuse
<1>2. ASSUME find_db(n), validate_value_types(dbs[n], lits),
             NEW o \in db_add_row(dbs[n], arg, vals, clock),
             Store("ADD", n, req, o, IF auto THEN Wrap(o.db.nextKey - 1) ELSE key)
      PROVE  RowsInv' /\ RefusedLocally
  <2>1. n \in DOMAIN dbs /\ TableOK(dbs[n]) /\ clock \in Nat /\ RowsOK(dbs[n], clock)
    BY <1>2 DEF find_db, IInv, RowsInv, TypeOK
  <2>2. arg \in CInt /\ key \in Int
    BY LimitsAssumption DEF CInt, IntMin
  <2>3. lits \in Seq(ParsedLiterals)
    BY InputsAssumption
  <2>4. Fits(dbs[n].schema, vals)
    BY <2>1, <2>3, <1>2, AddedValuesFit DEF TableOK
  <2> HIDE DEF vals
  <2>5. /\ RowsOK(o.db, clock)
        /\ o.rc # 0 => o.db.rows = dbs[n].rows
        /\ o.rc = 0 /\ arg >= 0 => arg \in DOMAIN o.db.rows
        /\ o.rc = 0 /\ arg < 0 => Wrap(o.db.nextKey - 1) \in DOMAIN o.db.rows
    BY <1>2, <2>1, <2>2, <2>4, AddRowRows
  <2> DEFINE code == IF auto THEN Wrap(o.db.nextKey - 1) ELSE key
  <2>6. o.rc = 0 => \/ ~req.auto /\ req.key < 0
                    \/ code \in DOMAIN o.db.rows
    BY <2>2, <2>5
  <2>7. Store("ADD", n, req, o, code)
    BY <1>2
  <2> HIDE DEF req, arg, code
  <2>. QED BY <2>1, <2>5, <2>6, <2>7, StoreRows
<1> HIDE DEF vals, arg
<1>. QED BY <1>1, <1>2 DEF execute_add, DbNotFound, vals, arg

\* UP, DEL and CREATE_INDEX.
LEMMA UpdateRows ==
  ASSUME IInv, RowsInv, NEW n,
         \/ \E key \in KeyArgs, lits \in UpValues : execute_up(n, key, lits)
         \/ \E key \in KeyArgs : execute_del(n, key)
         \/ \E f \in FieldArgs : execute_create_index(n, f)
  PROVE  RowsInv' /\ RefusedLocally
<1>1. ASSUME NEW op, op # "ADD", NEW req, Refuse(op, n, req, -1)
      PROVE  RowsInv' /\ RefusedLocally
  BY <1>1, UntouchedRows DEF Refuse
<1>2. find_db(n) => n \in DOMAIN dbs /\ TableOK(dbs[n]) /\ IsDB(dbs[n])
                    /\ clock \in Nat /\ RowsOK(dbs[n], clock)
  BY DEF find_db, IInv, RowsInv, TypeOK, TableOK
<1>3. ASSUME NEW key \in KeyArgs, NEW lits \in UpValues, execute_up(n, key, lits)
      PROVE  RowsInv' /\ RefusedLocally
  <2> DEFINE req == [key |-> key, lits |-> lits]
  <2>1. ASSUME find_db(n), ValidUpdate(dbs[n], lits),
               NEW o \in db_update_row(dbs[n], key, lits, clock),
               Store("UP", n, req, o, key)
        PROVE  RowsInv' /\ RefusedLocally
    <3>1. lits \in Seq(ParsedLiterals) /\ req.key = key /\ req.lits = lits
      BY InputsAssumption
    <3> HIDE DEF req
    <3>2. /\ RowsOK(o.db, clock) /\ DOMAIN o.db.rows = DOMAIN dbs[n].rows
          /\ o.rc # 0 => WrittenLocally(dbs[n], o.db, key, lits)
      BY <1>2, <2>1, <3>1, UpdateRowRows
    <3>. QED BY <1>2, <2>1, <3>1, <3>2, StoreRows
  <2>. QED BY <1>1, <1>3, <2>1 DEF execute_up, DbNotFound
<1>4. ASSUME NEW key \in KeyArgs, execute_del(n, key)
      PROVE  RowsInv' /\ RefusedLocally
  <2>1. ASSUME find_db(n), NEW o \in db_delete_row(dbs[n], key),
               Store("DEL", n, [key |-> key], o, key)
        PROVE  RowsInv' /\ RefusedLocally
    BY <1>2, <2>1, DeleteRowRows, StoreRows
  <2>. QED BY <1>1, <1>4, <2>1 DEF execute_del, DbNotFound
<1>5. ASSUME NEW f \in FieldArgs, execute_create_index(n, f)
      PROVE  RowsInv' /\ RefusedLocally
  <2>1. ASSUME find_db(n), f \in DOMAIN dbs[n].index,
               NEW o \in db_create_index(dbs[n], f),
               Store("CREATE_INDEX", n, [field |-> f], o, f)
        PROVE  RowsInv' /\ RefusedLocally
    BY <1>2, <2>1, CreateIndexRows, StoreRows
  <2>. QED BY <1>1, <1>5, <2>1 DEF execute_create_index, DbNotFound
<1>. QED BY <1>3, <1>4, <1>5

\* GET, GET_ALL, COUNT and SEARCH.
LEMMA QueryRows ==
  ASSUME RowsInv, NEW n,
         \/ execute_count(n)
         \/ \E fields \in FieldLists :
              \/ \E key \in KeyArgs : execute_get(n, key, fields)
              \/ execute_get_all(n, fields)
              \/ \E f \in FieldArgs, s \in SearchValues : execute_search(n, f, s, fields)
  PROVE  RowsInv' /\ RefusedLocally
<1>1. ASSUME NEW op, NEW req, NEW code, Refuse(op, n, req, code)
      PROVE  RowsInv' /\ RefusedLocally
  BY <1>1, UntouchedRows DEF Refuse
<1>2. ASSUME NEW op, op # "ADD", NEW req, NEW code, NEW found,
             Answer(op, n, req, code, found), UNCHANGED <<dbs, clock>>
      PROVE  RowsInv' /\ RefusedLocally
  BY <1>2, UntouchedRows DEF Answer
<1>3. ASSUME execute_count(n) PROVE RowsInv' /\ RefusedLocally
  BY <1>1, <1>2, <1>3 DEF execute_count, DbNotFound
<1>4. ASSUME NEW fields, NEW key, execute_get(n, key, fields)
      PROVE  RowsInv' /\ RefusedLocally
  BY <1>1, <1>2, <1>4 DEF execute_get, DbNotFound, OutOfMemory
<1>5. ASSUME NEW fields, execute_get_all(n, fields) PROVE RowsInv' /\ RefusedLocally
  BY <1>1, <1>2, <1>5 DEF execute_get_all, DbNotFound, OutOfMemory
<1>6. ASSUME NEW fields, NEW f, NEW s, execute_search(n, f, s, fields)
      PROVE  RowsInv' /\ RefusedLocally
  BY <1>1, <1>2, <1>6 DEF execute_search, DbNotFound, OutOfMemory
<1>. QED BY <1>3, <1>4, <1>5, <1>6

\* Every step keeps the invariant, and changes rows only as RefusalIsLocal says.
LEMMA StepRows == ASSUME IInv, RowsInv, [Next]_vars PROVE RowsInv' /\ RefusedLocally
<1>1. ASSUME NEW n \in Names, NEW lits \in AddValues,
             \/ execute_add(n, TRUE, 0, lits)
             \/ \E key \in KeyArgs : execute_add(n, FALSE, key, lits)
      PROVE  RowsInv' /\ RefusedLocally
  <2>1. 0 \in CInt /\ KeyArgs \subseteq CInt
    BY LimitsAssumption, InputsAssumption DEF CInt, IntMin
  <2>. QED BY <1>1, <2>1, AddRows
<1>2. CASE execute_command
  BY <1>1, <1>2, TableRows, UpdateRows, QueryRows DEF execute_command
<1>3. CASE Tick
  <2>1. dbs' = dbs /\ reply' = reply /\ clock \in Nat /\ clock' = clock + 1
    BY <1>3 DEF Tick, IInv, TypeOK
  <2>2. ASSUME NEW n \in DOMAIN dbs PROVE RowsOK(dbs[n], clock')
    <3>1. \A k \in DOMAIN dbs[n].rows : dbs[n].rows[k].updated \in Nat
      BY DEF IInv, TypeOK, IsDB, Row
    <3>. QED BY <2>1, <3>1 DEF RowsInv, RowsOK, StampsOK
  <2>. QED BY <2>1, <2>2 DEF RowsInv, AddNamesItsRow, RefusedLocally
<1>4. CASE UNCHANGED vars
  BY <1>4 DEF vars, RowsInv, AddNamesItsRow, RefusedLocally
<1>. QED BY <1>2, <1>3, <1>4 DEF Next

-----------------------------------------------------------------------------
(* The theorems *)

\* The rows satisfy their invariant in every reachable state.
THEOREM RowsInvariance == Spec => [](IInv /\ RowsInv)
<1>1. Init => RowsInv
  BY DEF Init, RowsInv, AddNamesItsRow, NoReply
<1>2. IInv /\ RowsInv /\ [Next]_vars => RowsInv'
  BY StepRows
<1>. QED BY <1>1, <1>2, Invariance, PTL DEF Spec

\* Also after a failed UP an enabled index names every live row once and no
\* deleted row (rebuild_enabled_indexes, db_update_row, db_delete_row).
THEOREM IndexCoversTheorem == Spec => []IndexCoversRows
<1>1. RowsInv => IndexCoversRows
  BY DEF RowsInv, RowsOK, CoversRows, Covers, IndexCoversRows
<1>. QED BY <1>1, RowsInvariance, PTL

\* A row is updated no earlier than it is created, and no stamp is ahead of the
\* clock (db_add_row, db_update_row).
THEOREM TimestampsTheorem == Spec => []TimestampsOrdered
<1>1. RowsInv => TimestampsOrdered
  BY DEF RowsInv, RowsOK, StampsOK, TimestampsOrdered
<1>. QED BY <1>1, RowsInvariance, PTL

\* An accepted ADD names the key of its row, also when nextKey overflowed,
\* unless the client asked for a negative key (execute_add).
THEOREM AddNamesTheorem == Spec => []AddNamesItsRow
<1>1. RowsInv => AddNamesItsRow
  BY DEF RowsInv
<1>. QED BY <1>1, RowsInvariance, PTL

\* A refused command keeps every row; a refused UP may have changed the row
\* and the fields that it names, and no others (execute_command).
THEOREM RefusalTheorem == Spec => RefusalIsLocal
<1>1. IInv /\ RowsInv /\ [Next]_vars =>
        [~reply'.ok =>
           \A n \in DOMAIN dbs : \A k \in DOMAIN dbs[n].rows :
             /\ n \in DOMAIN dbs'
             /\ DOMAIN dbs[n].rows = DOMAIN dbs'[n].rows
             /\ \/ dbs'[n].rows[k] = dbs[n].rows[k]
                \/ /\ reply'.op = "UP" /\ reply'.db = n /\ reply'.req.key = k
                   /\ \A f \in DOMAIN dbs[n].schema :
                        reply'.req.lits[f] = Ignored =>
                          dbs'[n].rows[k].vals[f] = dbs[n].rows[k].vals[f]]_vars
  BY StepRows DEF RefusedLocally
<1>. QED BY <1>1, RowsInvariance, PTL DEF Spec, RefusalIsLocal

-----------------------------------------------------------------------------
(* The abstract store *)

\* The values and tests of TableStore are those of the executor.
LEMMA SameValues ==
  /\ Abstract!Skipped = Ignored
  /\ \A old, lit : Abstract!Changed(old, lit) = UpdatedValue(old, lit)
  /\ \A lit : Abstract!Initial(lit) = Elements(lit)
  /\ \A db, lits : Abstract!Valid(db.schema, lits) <=> validate_value_types(db, lits)
  /\ \A db, lits : Abstract!ValidChange(db.schema, lits) <=> ValidUpdate(db, lits)
  /\ \A schema : Abstract!EmptyTable(schema) = TableOf(db_create(schema))
<1>1. \A t, lit : Abstract!Takes(t, lit) <=> Accepts(t, lit)
  BY DEF Abstract!Takes, Abstract!Arrays, Accepts, ArrayTypes
<1>2. Abstract!Skipped = Ignored
  BY DEF Abstract!Skipped, Ignored
<1>3. /\ \A old, lit : Abstract!Changed(old, lit) = UpdatedValue(old, lit)
      /\ \A lit : Abstract!Initial(lit) = Elements(lit)
  BY <1>2 DEF Abstract!Changed, UpdatedValue, Abstract!Initial, Elements
<1>4. \A db, lits : Abstract!Valid(db.schema, lits) <=> validate_value_types(db, lits)
  BY <1>1 DEF Abstract!Valid, validate_value_types
<1>5. \A db, lits : Abstract!ValidChange(db.schema, lits) <=> ValidUpdate(db, lits)
  BY <1>1, <1>2 DEF Abstract!ValidChange, ValidUpdate
<1>6. \A schema : Abstract!EmptyTable(schema) = TableOf(db_create(schema))
  BY DEF Abstract!EmptyTable, TableOf, db_create
<1>. QED BY <1>2, <1>3, <1>4, <1>5, <1>6

\* TableStore counts as the executor does.
LEMMA SameCardinality == \A S : Abstract!Cardinality(S) = Cardinality(S)
BY DEF Abstract!Cardinality, Cardinality

\* Tables shows the tables of the storage, without their counters and indexes.
LEMMA TablesFacts ==
  /\ DOMAIN Tables = DOMAIN dbs
  /\ \A n \in DOMAIN dbs : Tables[n] = TableOf(dbs[n])
  /\ \A n : Abstract!Exists(n) <=> find_db(n)
  /\ \A db : /\ TableOf(db).schema = db.schema /\ TableOf(db).rows = db.rows
             /\ TableOf(db).torn = db.stale /\ TableOf(db).worn = db.overflowed
BY DEF Tables, TableOf, Abstract!Exists, find_db

\* A step that leaves the storage alone leaves the tables alone.
LEMMA TablesKept == ASSUME dbs' = dbs PROVE Tables' = Tables
BY DEF Tables

\* A step that stores a table puts it.
LEMMA TablesPut ==
  ASSUME NEW n \in DOMAIN dbs, NEW d, dbs' = [dbs EXCEPT ![n] = d]
  PROVE  Abstract!Put(n, TableOf(d))
<1>1. Tables' = [m \in DOMAIN dbs |-> IF m = n THEN TableOf(d) ELSE TableOf(dbs[m])]
  BY DEF Tables
<1>. QED BY <1>1 DEF Abstract!Put, Tables

\* An error message changes nothing, and the client does not see its code.
LEMMA RefuseDenies ==
  ASSUME NEW op, NEW n, NEW req, NEW code, Refuse(op, n, req, code)
  PROVE  Abstract!Denied(op, n, req) /\ Tables' = Tables
<1>1. Seen' = [op |-> op, db |-> n, req |-> req, ok |-> FALSE, code |-> 0, keys |-> {}]
  BY DEF Refuse, Seen
<1>. QED BY <1>1, TablesKept DEF Refuse, Abstract!Denied

\* The client sees every other reply as it is.
LEMMA AnswerGrants ==
  ASSUME NEW op, NEW n, NEW req, NEW code, NEW keys,
         Answer(op, n, req, code, keys), UNCHANGED clock
  PROVE  Abstract!Granted(op, n, req, code, keys)
BY DEF Answer, Seen, Abstract!Granted

\* The outcome of the storage layer, as the client sees it.
LEMMA StoreShows ==
  ASSUME NEW op, NEW n \in DOMAIN dbs, NEW req, NEW o, NEW code,
         Store(op, n, req, o, code)
  PROVE  /\ Abstract!Put(n, TableOf(o.db))
         /\ o.rc = 0 => Abstract!Granted(op, n, req, code, {})
         /\ o.rc # 0 => Abstract!Denied(op, n, req)
<1>1. Abstract!Put(n, TableOf(o.db))
  BY TablesPut DEF Store
<1>2. ASSUME o.rc = 0 PROVE Abstract!Granted(op, n, req, code, {})
  BY <1>2 DEF Store, Seen, Abstract!Granted
<1>3. ASSUME o.rc # 0 PROVE Abstract!Denied(op, n, req)
  <2>1. reply' = [op |-> op, db |-> n, req |-> req, ok |-> FALSE, code |-> o.rc, keys |-> {}]
    BY <1>3 DEF Store
  <2>2. Seen' = [op |-> op, db |-> n, req |-> req, ok |-> FALSE, code |-> 0, keys |-> {}]
    BY <2>1 DEF Seen
  <2>. QED BY <2>2 DEF Store, Abstract!Denied
<1>. QED BY <1>1, <1>2, <1>3

\* A table that is put back as it was.
LEMMA PutBack ==
  ASSUME NEW n \in DOMAIN dbs, Abstract!Put(n, TableOf(dbs[n])) PROVE Tables' = Tables
BY DEF Abstract!Put, Tables

-----------------------------------------------------------------------------
(* The commands on tables *)

\* CREATE makes an empty table, or is refused because of the name or a limit.
LEMMA CreateStores ==
  ASSUME NEW n, NEW schema, execute_create(n, schema)
  PROVE  Abstract!Create(n, schema)
<1>1. ASSUME NEW code, Refuse("CREATE", n, <<>>, code),
             \/ find_db(n) \/ MallocFails
             \/ Len(schema) > MAX_FIELDS_PER_DB \/ Cardinality(DOMAIN dbs) >= MAX_DB_COUNT
      PROVE  Abstract!Create(n, schema)
  BY <1>1, RefuseDenies, TablesFacts, SameCardinality DEF Abstract!Create
<1>2. ASSUME Len(schema) <= MAX_FIELDS_PER_DB, ~find_db(n),
             Cardinality(DOMAIN dbs) < MAX_DB_COUNT,
             add_db(n, db_create(schema)), UNCHANGED clock,
             Answer("CREATE", n, <<>>, Len(schema), {})
      PROVE  Abstract!Create(n, schema)
  <2>1. Abstract!Granted("CREATE", n, <<>>, Len(schema), {})
    BY <1>2, AnswerGrants
  <2>2. Tables' = [m \in DOMAIN dbs \cup {n} |->
                     IF m = n THEN TableOf(db_create(schema)) ELSE TableOf(dbs[m])]
    BY <1>2 DEF add_db, Tables
  <2>3. Tables' = [m \in DOMAIN Tables \cup {n} |->
                     IF m = n THEN Abstract!EmptyTable(schema) ELSE Tables[m]]
    BY <2>2, SameValues, TablesFacts
  <2>. QED BY <1>2, <2>1, <2>3, TablesFacts, SameCardinality DEF Abstract!Create
<1>. QED BY <1>1, <1>2 DEF execute_create

\* DEL_TABLE.
LEMMA DropStores ==
  ASSUME NEW n, execute_del_table(n) PROVE Abstract!DropTable(n)
<1>1. CASE DbNotFound("DEL_TABLE", n, <<>>, -1)
  BY <1>1, RefuseDenies, TablesFacts DEF DbNotFound, Abstract!DropTable
<1>2. ASSUME find_db(n), dbs' = [m \in DOMAIN dbs \ {n} |-> dbs[m]], UNCHANGED clock,
             Answer("DEL_TABLE", n, <<>>, 1, {})
      PROVE  Abstract!DropTable(n)
  <2>1. Abstract!Granted("DEL_TABLE", n, <<>>, 1, {})
    BY <1>2, AnswerGrants
  <2>2. Tables' = [m \in DOMAIN Tables \ {n} |-> Tables[m]]
    BY <1>2 DEF Tables
  <2>. QED BY <1>2, <2>1, <2>2, TablesFacts DEF Abstract!DropTable
<1>. QED BY <1>1, <1>2 DEF execute_del_table

-----------------------------------------------------------------------------
(* The queries *)

\* A query refused for want of the table or of memory, or for a reason.
LEMMA RefusedQuery ==
  ASSUME NEW op, NEW n, NEW req, NEW code, NEW reason \in BOOLEAN,
         \/ DbNotFound(op, n, req, code)
         \/ OutOfMemory(op, n, req, code)
         \/ reason /\ Refuse(op, n, req, code)
  PROVE  Abstract!Refusal(op, n, req, reason)
BY RefuseDenies, TablesFacts DEF DbNotFound, OutOfMemory, Abstract!Refusal

\* The fields of the abstract table are the positions of the indexes.
LEMMA FieldsFacts ==
  ASSUME IInv, NEW n, find_db(n)
  PROVE  /\ n \in DOMAIN dbs /\ TableOK(dbs[n]) /\ Tables[n] = TableOf(dbs[n])
         /\ Abstract!Fields(Tables[n]) = DOMAIN dbs[n].index
         /\ DOMAIN dbs[n].index = 0 .. Len(dbs[n].schema)
<1>1. n \in DOMAIN dbs /\ TableOK(dbs[n]) /\ Tables[n] = TableOf(dbs[n])
  BY TablesFacts DEF find_db, IInv
<1>2. DOMAIN dbs[n].index = 0 .. Len(dbs[n].schema)
  BY <1>1 DEF TableOK, IsDB
<1>. QED BY <1>1, <1>2, TablesFacts DEF Abstract!Fields

\* GET shows the row of the key.
LEMMA GetStores ==
  ASSUME IInv, NEW n, NEW key, NEW fields, execute_get(n, key, fields)
  PROVE  Abstract!Get(n, key, fields)
<1> DEFINE req == [key |-> key]
           reason == ~(fields \subseteq Abstract!Fields(Tables[n])) \/ key \notin DOMAIN Tables[n].rows
<1>1. CASE \/ DbNotFound("GET", n, req, -1)
           \/ OutOfMemory("GET", n, req, -1)
           \/ reason /\ Refuse("GET", n, req, -1)
  <2>1. Abstract!Refusal("GET", n, req, reason)
    <3> HIDE DEF req
    <3>1. reason \in BOOLEAN
      OBVIOUS
    <3> HIDE DEF reason
    <3>. QED BY <1>1, <3>1, RefusedQuery
  <2>. QED BY <2>1 DEF Abstract!Get
<1>2. ASSUME find_db(n), UnknownField(dbs[n], fields) \/ key \notin DOMAIN dbs[n].rows
      PROVE  reason
  BY <1>2, FieldsFacts, TablesFacts DEF UnknownField
<1>3. ASSUME find_db(n), ~UnknownField(dbs[n], fields), key \in DOMAIN dbs[n].rows,
             Answer("GET", n, req, key, {key}), UNCHANGED <<dbs, clock>>
      PROVE  Abstract!Get(n, key, fields)
  <2>1. Abstract!Granted("GET", n, req, key, {key}) /\ Tables' = Tables
    BY <1>3, AnswerGrants, TablesKept
  <2>2. fields \subseteq Abstract!Fields(Tables[n]) /\ key \in DOMAIN Tables[n].rows
    BY <1>3, FieldsFacts, TablesFacts DEF UnknownField
  <2>. QED BY <1>3, <2>1, <2>2, TablesFacts DEF Abstract!Get
<1> HIDE DEF reason, req
<1>. QED BY <1>1, <1>2, <1>3 DEF execute_get, req

\* GET_ALL shows every row.
LEMMA GetAllStores ==
  ASSUME IInv, NEW n, NEW fields, execute_get_all(n, fields)
  PROVE  Abstract!GetAll(n, fields)
<1> DEFINE reason == ~(fields \subseteq Abstract!Fields(Tables[n]))
<1>1. ASSUME NEW code,
             \/ DbNotFound("GET_ALL", n, <<>>, code)
             \/ OutOfMemory("GET_ALL", n, <<>>, code)
             \/ reason /\ Refuse("GET_ALL", n, <<>>, code)
      PROVE  Abstract!GetAll(n, fields)
  <2>1. reason \in BOOLEAN
    OBVIOUS
  <2>2. Abstract!Refusal("GET_ALL", n, <<>>, reason)
    <3> HIDE DEF reason
    <3>. QED BY <1>1, <2>1, RefusedQuery
  <2>. QED BY <2>2 DEF Abstract!GetAll
<1>2. ASSUME find_db(n), UnknownField(dbs[n], fields) PROVE reason
  BY <1>2, FieldsFacts DEF UnknownField
<1>3. ASSUME find_db(n), ~UnknownField(dbs[n], fields),
             Answer("GET_ALL", n, <<>>, dbs[n].rowsCount, DOMAIN dbs[n].rows),
             UNCHANGED <<dbs, clock>>
      PROVE  Abstract!GetAll(n, fields)
  <2>1. DOMAIN Tables[n].rows = DOMAIN dbs[n].rows
    BY <1>3, FieldsFacts, TablesFacts
  <2>2. dbs[n].rowsCount = Cardinality(DOMAIN Tables[n].rows)
    BY <1>3, <2>1, FieldsFacts DEF TableOK, CountOK
  <2>3. /\ Abstract!Granted("GET_ALL", n, <<>>, Cardinality(DOMAIN Tables[n].rows),
                            DOMAIN Tables[n].rows)
        /\ Tables' = Tables
    BY <1>3, <2>1, <2>2, AnswerGrants, TablesKept
  <2>4. fields \subseteq Abstract!Fields(Tables[n])
    BY <1>3, FieldsFacts DEF UnknownField
  <2>. QED BY <1>3, <2>3, <2>4, TablesFacts, SameCardinality DEF Abstract!GetAll
<1> HIDE DEF reason
<1>. QED BY <1>1, <1>2, <1>3 DEF execute_get_all

\* COUNT.
LEMMA CountStores ==
  ASSUME IInv, NEW n, execute_count(n) PROVE Abstract!Count(n)
<1>1. CASE DbNotFound("COUNT", n, <<>>, -1)
  BY <1>1, RefuseDenies, TablesFacts DEF DbNotFound, Abstract!Count
<1>2. ASSUME find_db(n), Answer("COUNT", n, <<>>, dbs[n].rowsCount, {}),
             UNCHANGED <<dbs, clock>>
      PROVE  Abstract!Count(n)
  <2>1. dbs[n].rowsCount = Cardinality(DOMAIN Tables[n].rows)
    BY <1>2, FieldsFacts, TablesFacts DEF TableOK, CountOK
  <2>2. /\ Abstract!Granted("COUNT", n, <<>>, Cardinality(DOMAIN Tables[n].rows), {})
        /\ Tables' = Tables
    BY <1>2, <2>1, AnswerGrants, TablesKept
  <2>. QED BY <1>2, <2>2, TablesFacts, SameCardinality DEF Abstract!Count
<1>. QED BY <1>1, <1>2 DEF execute_count

\* SEARCH shows the rows that hold the value, unless the field is torn.
LEMMA SearchStores ==
  ASSUME IInv, NEW n, NEW f, NEW s, NEW fields, execute_search(n, f, s, fields)
  PROVE  Abstract!Search(n, f, s, fields)
<1> DEFINE req == [field |-> f, value |-> s]
           reason == ~({f} \cup fields \subseteq Abstract!Fields(Tables[n]))
           found == SearchRows(dbs[n], f, s)
<1>1. CASE \/ DbNotFound("SEARCH", n, req, -1)
           \/ OutOfMemory("SEARCH", n, req, -1)
           \/ reason /\ Refuse("SEARCH", n, req, -1)
  <2>1. Abstract!Refusal("SEARCH", n, req, reason)
    <3> HIDE DEF req
    <3>1. reason \in BOOLEAN
      OBVIOUS
    <3> HIDE DEF reason
    <3>. QED BY <1>1, <3>1, RefusedQuery
  <2>. QED BY <2>1 DEF Abstract!Search
<1>2. ASSUME find_db(n), UnknownField(dbs[n], {f} \cup fields) PROVE reason
  BY <1>2, FieldsFacts DEF UnknownField
<1>3. ASSUME find_db(n), ~UnknownField(dbs[n], {f} \cup fields),
             Answer("SEARCH", n, req, Cardinality(found), found),
             UNCHANGED <<dbs, clock>>
      PROVE  Abstract!Search(n, f, s, fields)
  <2>1. /\ n \in DOMAIN dbs /\ TableOK(dbs[n]) /\ Tables[n] = TableOf(dbs[n])
        /\ Abstract!Exists(n)
        /\ f \in DOMAIN dbs[n].index /\ {f} \cup fields \subseteq Abstract!Fields(Tables[n])
    BY <1>3, FieldsFacts, TablesFacts DEF UnknownField
  <2>2. /\ Tables[n].rows = dbs[n].rows /\ Tables[n].torn = dbs[n].stale
    BY <2>1, TablesFacts
  <2>3. found \in SUBSET DOMAIN Tables[n].rows
    BY <2>2 DEF SearchRows, ScanRows, db_index_collect_rows
  <2>4. ScanRows(dbs[n], f, s) =
          {k \in DOMAIN Tables[n].rows : Abstract!Holds(Tables[n], k, f, s)}
    BY <2>2 DEF ScanRows, compare_values, FieldValue, Abstract!Holds
  <2>5. f \notin Tables[n].torn => found = ScanRows(dbs[n], f, s)
    BY <2>1, <2>2, SearchFindsScan
  <2>6. Abstract!Granted("SEARCH", n, req, Cardinality(found), found) /\ Tables' = Tables
    BY <1>3, AnswerGrants, TablesKept
  <2>7. found \in Abstract!Shown(Tables[n], f, s)
    <3> HIDE DEF found
    <3>. QED BY <2>3, <2>4, <2>5 DEF Abstract!Shown
  <2> HIDE DEF found
  <2>. QED BY <2>1, <2>6, <2>7, SameCardinality DEF Abstract!Search
<1> HIDE DEF reason, req
<1>. QED BY <1>1, <1>2, <1>3 DEF execute_search, req

-----------------------------------------------------------------------------
(* The commands on rows *)

\* A rebuild of the indexes mends what was torn.
LEMMA RebuildMends ==
  ASSUME NEW db, DOMAIN db = TableFields, NEW d \in rebuild_enabled_indexes(db)
  PROVE  TableOf(d) = [schema |-> db.schema, rows |-> db.rows, torn |-> {},
                       worn |-> db.overflowed]
<1>1. PICK failed \in SUBSET OnMallocFailure(EnabledIndexes(db)) :
        d = [db EXCEPT !.index = [f \in DOMAIN db.index |->
                                    IF f \in EnabledIndexes(db) \ failed
                                      THEN rebuild_single_index(db, f)
                                      ELSE NoIndex],
                       !.stale = {}]
  BY DEF rebuild_enabled_indexes
<1>2. /\ d.schema = db.schema /\ d.rows = db.rows /\ d.stale = {}
      /\ d.overflowed = db.overflowed
  BY <1>1 DEF TableFields
<1>. QED BY <1>2 DEF TableOf

\* A table after a change that went through, in the terms of the storage.
LEMMA WholeTable ==
  ASSUME NEW db, NEW w, NEW rows
  PROVE  /\ Abstract!Whole(TableOf(db), rows) =
              [schema |-> db.schema, rows |-> rows, torn |-> {}, worn |-> db.overflowed]
         /\ Abstract!Whole([TableOf(db) EXCEPT !.worn = w], rows) =
              [schema |-> db.schema, rows |-> rows, torn |-> {}, worn |-> w]
<1>1. [TableOf(db) EXCEPT !.worn = w] =
        [schema |-> db.schema, rows |-> db.rows, torn |-> db.stale, worn |-> w]
  BY DEF TableOf
<1>. QED BY <1>1, TablesFacts DEF Abstract!Whole

\* DEL removes the row of the key.
LEMMA DeleteStores ==
  ASSUME IInv, NEW n, NEW key, execute_del(n, key) PROVE Abstract!Delete(n, key)
<1> DEFINE req == [key |-> key]
<1>1. CASE DbNotFound("DEL", n, req, -1)
  <2>1. Abstract!Denied("DEL", n, req) /\ Tables' = Tables /\ ~Abstract!Exists(n)
    <3> HIDE DEF req
    <3>. QED BY <1>1, RefuseDenies, TablesFacts DEF DbNotFound
  <2>. QED BY <2>1 DEF Abstract!Delete
<1>2. ASSUME find_db(n), NEW o \in db_delete_row(dbs[n], key), Store("DEL", n, req, o, key)
      PROVE  Abstract!Delete(n, key)
  <2>1. /\ n \in DOMAIN dbs /\ IsDB(dbs[n]) /\ Tables[n] = TableOf(dbs[n])
        /\ Tables[n].rows = dbs[n].rows /\ Abstract!Exists(n)
    BY <1>2, FieldsFacts, TablesFacts DEF TableOK
  <2>2. /\ Abstract!Put(n, TableOf(o.db))
        /\ o.rc = 0 => Abstract!Granted("DEL", n, req, key, {})
        /\ o.rc # 0 => Abstract!Denied("DEL", n, req)
    BY <1>2, <2>1, StoreShows
  <2>3. CASE key \notin DOMAIN dbs[n].rows
    <3>1. o.rc # 0 /\ o.db = dbs[n]
      BY <2>3 DEF db_delete_row
    <3>2. Tables' = Tables
      BY <2>1, <2>2, <3>1, PutBack
    <3>. QED BY <2>1, <2>2, <2>3, <3>1, <3>2 DEF Abstract!Delete
  <2>4. CASE key \in DOMAIN dbs[n].rows
    <3> DEFINE rows == [k \in DOMAIN dbs[n].rows \ {key} |-> dbs[n].rows[k]]
               e == [dbs[n] EXCEPT !.rows = rows, !.rowsCount = @ - 1]
    <3>1. PICK d \in rebuild_enabled_indexes(e) : o = [rc |-> 0, db |-> d]
      BY <2>4 DEF db_delete_row
    <3>2. /\ DOMAIN e = TableFields /\ e.schema = dbs[n].schema /\ e.rows = rows
          /\ e.overflowed = dbs[n].overflowed
      BY <2>1 DEF IsDB, TableFields
    <3> HIDE DEF e
    <3>3. TableOf(d) = [schema |-> dbs[n].schema, rows |-> rows, torn |-> {},
                        worn |-> dbs[n].overflowed]
      BY <3>2, RebuildMends
    <3>4. TableOf(o.db) = Abstract!Whole(Tables[n], rows)
      <4> HIDE DEF rows
      <4>. QED BY <2>1, <3>1, <3>3, WholeTable
    <3>5. Abstract!Granted("DEL", n, req, key, {})
      BY <2>2, <3>1
    <3>6. Abstract!Put(n, Abstract!Whole(Tables[n],
            [k \in DOMAIN Tables[n].rows \ {key} |-> Tables[n].rows[k]]))
      BY <2>1, <2>2, <3>4
    <3>. QED BY <2>1, <2>4, <3>5, <3>6 DEF Abstract!Delete
  <2>. QED BY <2>3, <2>4
<1> HIDE DEF req
<1>. QED BY <1>1, <1>2 DEF execute_del, req

\* CREATE_INDEX changes no row, and a search of the field is exact again.
LEMMA CreateIndexStores ==
  ASSUME IInv, NEW n, NEW f, execute_create_index(n, f)
  PROVE  Abstract!CreateIndex(n, f)
<1> DEFINE req == [field |-> f]
<1>1. ASSUME Refuse("CREATE_INDEX", n, req, -1) PROVE Abstract!CreateIndex(n, f)
  <2>1. Abstract!Denied("CREATE_INDEX", n, req) /\ Tables' = Tables
    <3> HIDE DEF req
    <3>. QED BY <1>1, RefuseDenies
  <2>. QED BY <2>1 DEF Abstract!CreateIndex
<1>2. ASSUME find_db(n), f \in DOMAIN dbs[n].index,
             NEW o \in db_create_index(dbs[n], f), Store("CREATE_INDEX", n, req, o, f)
      PROVE  Abstract!CreateIndex(n, f)
  <2>1. /\ n \in DOMAIN dbs /\ IsDB(dbs[n]) /\ Tables[n] = TableOf(dbs[n])
        /\ Abstract!Exists(n) /\ f \in Abstract!Fields(Tables[n])
    BY <1>2, FieldsFacts, TablesFacts DEF TableOK
  <2>2. /\ Abstract!Put(n, TableOf(o.db))
        /\ o.rc = 0 => Abstract!Granted("CREATE_INDEX", n, req, f, {})
        /\ o.rc # 0 => Abstract!Denied("CREATE_INDEX", n, req)
    BY <1>2, <2>1, StoreShows
  <2>3. CASE o = [rc |-> -2, db |-> dbs[n]]
    <3>1. o.rc # 0 /\ TableOf(o.db) = TableOf(dbs[n])
      BY <2>3
    <3>. QED BY <2>1, <2>2, <3>1, PutBack DEF Abstract!CreateIndex
  <2>4. CASE o = [rc |-> 0, db |-> [dbs[n] EXCEPT !.index[f] = rebuild_single_index(dbs[n], f),
                                                   !.stale = @ \ {f}]]
    <3>1. /\ o.rc = 0 /\ o.db.schema = dbs[n].schema /\ o.db.rows = dbs[n].rows
          /\ o.db.overflowed = dbs[n].overflowed /\ o.db.stale = dbs[n].stale \ {f}
      BY <2>1, <2>4 DEF IsDB
    <3>2. TableOf(o.db) = [Tables[n] EXCEPT !.torn = @ \ {f}]
      BY <2>1, <3>1 DEF TableOf
    <3>. QED BY <2>1, <2>2, <3>1, <3>2 DEF Abstract!CreateIndex
  <2>5. CASE o = [rc |-> -3, db |-> [dbs[n] EXCEPT !.index[f] = NoIndex]]
    <3>0. o.rc = -3 /\ o.db = [dbs[n] EXCEPT !.index[f] = NoIndex]
      BY <2>5
    <3>1. /\ o.rc # 0 /\ o.db.schema = dbs[n].schema /\ o.db.rows = dbs[n].rows
          /\ o.db.overflowed = dbs[n].overflowed /\ o.db.stale = dbs[n].stale
      BY <2>1, <3>0 DEF IsDB
    <3>2. TableOf(o.db) = TableOf(dbs[n])
      BY <3>1 DEF TableOf
    <3>. QED BY <2>1, <2>2, <3>1, <3>2, PutBack DEF Abstract!CreateIndex
  <2>. QED BY <1>2, <2>3, <2>4, <2>5 DEF db_create_index, OnMallocFailure
<1> HIDE DEF req
<1>. QED BY <1>1, <1>2 DEF execute_create_index, DbNotFound, req

\* db_add_row: the row is refused for want of room, of memory or because its
\* key exists, and a key may be used up; or it goes in under a key that no row
\* has, and an automatic key is above all others as long as none has overflowed.
LEMMA AddRowStores ==
  ASSUME NEW db, TableOK(db), NEW key \in CInt, NEW now, NEW vals,
         NEW o \in db_add_row(db, key, vals, now)
  PROVE  \/ o.rc # 0 /\ o.db = db /\ Cardinality(DOMAIN db.rows) >= MAX_ROW_CAPACITY
         \/ /\ Cardinality(DOMAIN db.rows) < MAX_ROW_CAPACITY
            /\ \E w \in {db.overflowed, TRUE} :
                 \/ /\ o.rc # 0
                    /\ TableOf(o.db) = [TableOf(db) EXCEPT !.worn = w]
                    /\ MallocFails \/ IF key < 0 THEN db.overflowed ELSE key \in DOMAIN db.rows
                 \/ \E k \in CInt :
                      /\ o.rc = 0 /\ k \notin DOMAIN db.rows
                      /\ IF key < 0
                           THEN /\ db.overflowed \/ (k > 0 /\ \A j \in DOMAIN db.rows : j < k)
                                /\ Wrap(o.db.nextKey - 1) = k
                           ELSE k = key
                      /\ TableOf(o.db) =
                           Abstract!Whole([TableOf(db) EXCEPT !.worn = w],
                             Abstract!Inserted(db.rows, k,
                               [vals |-> vals, created |-> now, updated |-> now]))
<1> DEFINE actual == IF key < 0 THEN db.nextKey ELSE key
           t == TakeKey(db, key)
           e == InsertRow(t, actual, vals, now)
           size == Cardinality(DOMAIN db.rows)
<1>0. /\ IsDB(db) /\ NextKeyOK(db) /\ db.rowsCount = size /\ size \in Int
      /\ actual \in CInt
  BY DEF TableOK, CountOK, IsDB
<1>1. /\ IsDB(t) /\ t.schema = db.schema /\ t.rows = db.rows /\ t.stale = db.stale
      /\ t.overflowed \in {db.overflowed, TRUE}
  <2>1. db.overflowed => t.overflowed
    BY <1>0, TakeKeyFacts
  <2>2. /\ IsDB(t) /\ t.schema = db.schema /\ t.rows = db.rows /\ t.stale = db.stale
    BY <1>0, TakeKeyFacts
  <2>3. t.overflowed \in BOOLEAN /\ db.overflowed \in BOOLEAN
    BY <1>0, <2>2 DEF IsDB
  <2> HIDE DEF t
  <2>. QED BY <2>1, <2>2, <2>3
<1>2. TableOf(t) = [TableOf(db) EXCEPT !.worn = t.overflowed]
  <2> HIDE DEF t
  <2>. QED BY <1>1 DEF TableOf
<1>3. ASSUME key < 0, ~db.overflowed
      PROVE  actual > 0 /\ \A j \in DOMAIN db.rows : j < actual
  <2>1. db.nextKey \in Int
    BY <1>0, LimitsAssumption DEF IsDB, CInt, IntMin
  <2>. QED BY <1>0, <1>3, <2>1 DEF NextKeyOK
<1>4. ASSUME key < 0, ~db.overflowed PROVE actual \notin DOMAIN db.rows
  <2>1. actual \in Int
    BY <1>0, LimitsAssumption DEF CInt, IntMin
  <2> HIDE DEF actual
  <2>. QED BY <1>3, <1>4, <2>1
<1>5. ASSUME key < 0 PROVE Wrap(t.nextKey - 1) = actual
  <2>1. t.nextKey = Wrap(NextKeyAfter(db, key))
    BY <1>0 DEF TakeKey, IsDB
  <2>2. NextKeyAfter(db, key) = db.nextKey + 1 /\ db.nextKey \in CInt
    BY <1>0, <1>5 DEF NextKeyAfter, IsDB
  <2>. QED BY <1>5, <2>1, <2>2, LimitsAssumption DEF Wrap, CInt, IntMin
<1>6. ASSUME NEW d \in rebuild_enabled_indexes(e), actual \notin DOMAIN db.rows
      PROVE  /\ TableOf(d) = Abstract!Whole([TableOf(db) EXCEPT !.worn = t.overflowed],
                               Abstract!Inserted(db.rows, actual,
                                 [vals |-> vals, created |-> now, updated |-> now]))
             /\ d.nextKey = t.nextKey
  <2>1. /\ DOMAIN e = TableFields /\ e.schema = t.schema /\ e.nextKey = t.nextKey
        /\ e.overflowed = t.overflowed
        /\ e.rows = Abstract!Inserted(t.rows, actual,
                      [vals |-> vals, created |-> now, updated |-> now])
    BY <1>1 DEF InsertRow, IsDB, TableFields, Abstract!Inserted
  <2> HIDE DEF e, t, actual
  <2>2. TableOf(d) = [schema |-> e.schema, rows |-> e.rows, torn |-> {},
                      worn |-> e.overflowed]
    BY <1>6, <2>1, RebuildMends
  <2>3. d.nextKey = e.nextKey
    BY <1>6, <2>1, RebuildCovers
  <2>. QED BY <1>1, <2>1, <2>2, <2>3, WholeTable
<1>7. \/ o = [rc |-> -3, db |-> db] /\ db.rowsCount >= MAX_ROW_CAPACITY
      \/ /\ ~(db.rowsCount >= MAX_ROW_CAPACITY)
         /\ \/ o = [rc |-> -5, db |-> t] /\ actual \in DOMAIN db.rows
            \/ o = [rc |-> -4, db |-> t] /\ MallocFails
            \/ /\ actual \notin DOMAIN db.rows
               /\ \E d \in rebuild_enabled_indexes(e) : o = [rc |-> 0, db |-> d]
  BY DEF db_add_row, ActualKey, OnMallocFailure
<1>8. ~(db.rowsCount >= MAX_ROW_CAPACITY) => size < MAX_ROW_CAPACITY
  BY <1>0, LimitsAssumption
<1>9. CASE o = [rc |-> -3, db |-> db] /\ db.rowsCount >= MAX_ROW_CAPACITY
  BY <1>0, <1>9
<1>10. ASSUME size < MAX_ROW_CAPACITY, o.rc # 0, o.db = t,
              actual \in DOMAIN db.rows \/ MallocFails
       PROVE  /\ TableOf(o.db) = [TableOf(db) EXCEPT !.worn = t.overflowed]
              /\ MallocFails \/ IF key < 0 THEN db.overflowed ELSE key \in DOMAIN db.rows
  <2>1. MallocFails \/ IF key < 0 THEN db.overflowed ELSE key \in DOMAIN db.rows
    BY <1>4, <1>10
  <2> HIDE DEF t
  <2>. QED BY <1>2, <1>10, <2>1
<1>11. ASSUME size < MAX_ROW_CAPACITY, actual \notin DOMAIN db.rows,
              NEW d \in rebuild_enabled_indexes(e), o = [rc |-> 0, db |-> d]
       PROVE  /\ o.rc = 0 /\ actual \notin DOMAIN db.rows
              /\ IF key < 0
                   THEN /\ db.overflowed \/ (actual > 0 /\ \A j \in DOMAIN db.rows : j < actual)
                        /\ Wrap(o.db.nextKey - 1) = actual
                   ELSE actual = key
              /\ TableOf(o.db) =
                   Abstract!Whole([TableOf(db) EXCEPT !.worn = t.overflowed],
                     Abstract!Inserted(db.rows, actual,
                       [vals |-> vals, created |-> now, updated |-> now]))
  <2>1. ~(key < 0) => actual = key
    OBVIOUS
  <2> HIDE DEF e, t, actual
  <2>. QED BY <1>3, <1>5, <1>6, <1>11, <2>1
<1>12. o = [rc |-> -5, db |-> t] \/ o = [rc |-> -4, db |-> t] => o.rc # 0 /\ o.db = t
  <2> HIDE DEF t
  <2>. QED OBVIOUS
<1> HIDE DEF e, t, actual, size
<1>13. CASE size < MAX_ROW_CAPACITY /\ o.rc # 0 /\ o.db = t
            /\ (actual \in DOMAIN db.rows \/ MallocFails)
  BY <1>1, <1>10, <1>13 DEF size
<1>14. CASE /\ size < MAX_ROW_CAPACITY /\ actual \notin DOMAIN db.rows
            /\ \E d \in rebuild_enabled_indexes(e) : o = [rc |-> 0, db |-> d]
  BY <1>0, <1>1, <1>11, <1>14 DEF size
<1>. QED BY <1>7, <1>8, <1>9, <1>12, <1>13, <1>14

\* ADD.
LEMMA AddStores ==
  ASSUME IInv, NEW n, NEW auto \in BOOLEAN, NEW key \in CInt, NEW lits,
         execute_add(n, auto, key, lits)
  PROVE  Abstract!Add(n, [key |-> key, auto |-> auto], lits)
<1> DEFINE req == [key |-> key, auto |-> auto]
           vals == [i \in DOMAIN lits |-> Elements(lits[i])]
           arg == IF auto THEN -1 ELSE key
           reason == \/ ~Abstract!Valid(Tables[n].schema, lits)
                     \/ Cardinality(DOMAIN Tables[n].rows) >= MAX_ROW_CAPACITY
<1>0. reason \in BOOLEAN /\ arg \in CInt /\ key \in Int
  BY LimitsAssumption DEF CInt, IntMin
<1>1. ASSUME Abstract!Refusal("ADD", n, req, reason) PROVE Abstract!Add(n, req, lits)
  <2> HIDE DEF req
  <2>. QED BY <1>1, SameCardinality DEF Abstract!Add
<1>2. CASE DbNotFound("ADD", n, req, -1)
  <2>1. Abstract!Refusal("ADD", n, req, reason)
    <3> HIDE DEF req, reason
    <3>. QED BY <1>0, <1>2, RefusedQuery
  <2>. QED BY <1>1, <2>1
<1>3. CASE find_db(n) /\ ~validate_value_types(dbs[n], lits) /\ Refuse("ADD", n, req, -1)
  <2>1. reason
    BY <1>3, FieldsFacts, TablesFacts, SameValues
  <2>2. Abstract!Refusal("ADD", n, req, reason)
    <3> HIDE DEF req, reason
    <3>. QED BY <1>0, <1>3, <2>1, RefusedQuery
  <2>. QED BY <1>1, <2>2
<1>4. ASSUME find_db(n), validate_value_types(dbs[n], lits),
             NEW o \in db_add_row(dbs[n], arg, vals, clock),
             Store("ADD", n, req, o, IF auto THEN Wrap(o.db.nextKey - 1) ELSE key)
      PROVE  Abstract!Add(n, req, lits)
  <2> DEFINE db == dbs[n]
             code == IF auto THEN Wrap(o.db.nextKey - 1) ELSE key
  <2>1. /\ n \in DOMAIN dbs /\ TableOK(db) /\ Tables[n] = TableOf(db)
        /\ Tables[n].schema = db.schema /\ Tables[n].rows = db.rows
        /\ Tables[n].worn = db.overflowed
        /\ Abstract!Exists(n) /\ Abstract!Valid(Tables[n].schema, lits)
    BY <1>4, FieldsFacts, TablesFacts, SameValues
  <2>2. /\ Abstract!Put(n, TableOf(o.db))
        /\ o.rc = 0 => Abstract!Granted("ADD", n, req, code, {})
        /\ o.rc # 0 => Abstract!Denied("ADD", n, req)
    BY <1>4, <2>1, StoreShows
  <2>3. vals = [f \in DOMAIN lits |-> Abstract!Initial(lits[f])]
    BY SameValues
  <2>4. /\ Abstract!Automatic(req) <=> arg < 0
        /\ req.key = key /\ req.auto = auto /\ (arg < 0 \/ arg = key)
        /\ auto => arg < 0
    BY <1>0 DEF Abstract!Automatic
  <2>5. TableOK(db) /\ arg \in CInt /\ o \in db_add_row(db, arg, vals, clock)
    BY <1>0, <1>4, <2>1
  <2> HIDE DEF req, vals, arg, db
  <2>6. CASE o.rc # 0 /\ o.db = db /\ Cardinality(DOMAIN db.rows) >= MAX_ROW_CAPACITY
    <3>1. Tables' = Tables
      BY <2>1, <2>2, <2>6, PutBack DEF db
    <3>2. Abstract!Refusal("ADD", n, req, reason)
      BY <2>1, <2>2, <2>6, <3>1 DEF Abstract!Refusal
    <3>. QED BY <1>1, <3>2
  <2>7. ASSUME Cardinality(DOMAIN db.rows) < MAX_ROW_CAPACITY, NEW w \in {db.overflowed, TRUE},
               o.rc # 0, TableOf(o.db) = [TableOf(db) EXCEPT !.worn = w],
               MallocFails \/ IF arg < 0 THEN db.overflowed ELSE arg \in DOMAIN db.rows
        PROVE  Abstract!Add(n, req, lits)
    <3>1. \E worn \in {Tables[n].worn, TRUE} : Abstract!Put(n, [Tables[n] EXCEPT !.worn = worn])
      BY <2>1, <2>2, <2>7
    <3>2. MallocFails \/ IF Abstract!Automatic(req) THEN Tables[n].worn
                                                    ELSE req.key \in DOMAIN Tables[n].rows
      BY <2>1, <2>4, <2>7
    <3>3. Abstract!Insertable(n, lits)
      BY <2>1, <2>7, SameCardinality DEF Abstract!Insertable
    <3> HIDE DEF reason
    <3>. QED BY <2>2, <2>7, <3>1, <3>2, <3>3 DEF Abstract!Add
  <2>8. ASSUME Cardinality(DOMAIN db.rows) < MAX_ROW_CAPACITY, NEW w \in {db.overflowed, TRUE},
               NEW k \in CInt, o.rc = 0, k \notin DOMAIN db.rows,
               IF arg < 0
                 THEN /\ db.overflowed \/ (k > 0 /\ \A j \in DOMAIN db.rows : j < k)
                      /\ Wrap(o.db.nextKey - 1) = k
                 ELSE k = arg,
               TableOf(o.db) =
                 Abstract!Whole([TableOf(db) EXCEPT !.worn = w],
                   Abstract!Inserted(db.rows, k,
                     [vals |-> vals, created |-> clock, updated |-> clock]))
        PROVE  Abstract!Add(n, req, lits)
    <3> DEFINE row == [vals    |-> [f \in DOMAIN lits |-> Abstract!Initial(lits[f])],
                       created |-> clock, updated |-> clock]
               rows == Abstract!Inserted(Tables[n].rows, k, row)
    <3>1. k \notin DOMAIN Tables[n].rows
      BY <2>1, <2>8
    <3>2. \E worn \in {Tables[n].worn, TRUE} :
            Abstract!Put(n, Abstract!Whole([Tables[n] EXCEPT !.worn = worn], rows))
      BY <2>1, <2>2, <2>3, <2>8
    <3>3. IF Abstract!Automatic(req)
            THEN Tables[n].worn \/ (k > 0 /\ \A j \in DOMAIN Tables[n].rows : j < k)
            ELSE k = req.key
      BY <2>1, <2>4, <2>8
    <3>4. Abstract!Granted("ADD", n, req, IF req.auto THEN k ELSE req.key, {})
      BY <2>2, <2>4, <2>8
    <3>5. Abstract!Insertable(n, lits)
      BY <2>1, <2>8, SameCardinality DEF Abstract!Insertable
    <3> HIDE DEF reason, code
    <3>. QED BY <2>8, <3>1, <3>2, <3>3, <3>4, <3>5 DEF Abstract!Add
  <2>9. \/ o.rc # 0 /\ o.db = db /\ Cardinality(DOMAIN db.rows) >= MAX_ROW_CAPACITY
        \/ /\ Cardinality(DOMAIN db.rows) < MAX_ROW_CAPACITY
           /\ \E w \in {db.overflowed, TRUE} :
                \/ /\ o.rc # 0
                   /\ TableOf(o.db) = [TableOf(db) EXCEPT !.worn = w]
                   /\ MallocFails \/ IF arg < 0 THEN db.overflowed ELSE arg \in DOMAIN db.rows
                \/ \E k \in CInt :
                     /\ o.rc = 0 /\ k \notin DOMAIN db.rows
                     /\ IF arg < 0
                          THEN /\ db.overflowed \/ (k > 0 /\ \A j \in DOMAIN db.rows : j < k)
                               /\ Wrap(o.db.nextKey - 1) = k
                          ELSE k = arg
                     /\ TableOf(o.db) =
                          Abstract!Whole([TableOf(db) EXCEPT !.worn = w],
                            Abstract!Inserted(db.rows, k,
                              [vals |-> vals, created |-> clock, updated |-> clock]))
    BY <2>5, AddRowStores
  <2> HIDE DEF reason, code
  <2>. QED BY <2>6, <2>7, <2>8, <2>9
<1> HIDE DEF req, reason, vals, arg
<1>. QED BY <1>2, <1>3, <1>4 DEF execute_add, req, vals, arg

\* A row of which UP wrote the fields before f, in the terms of the storage.
LEMMA TornTable ==
  ASSUME NEW db, IsDB(db), NEW key \in DOMAIN db.rows, NEW lits, NEW f, NEW freed \in BOOLEAN
  PROVE  TableOf(TornRow(db, key, f, lits, freed)) =
           Abstract!HalfWritten(TableOf(db), key, lits, f, freed)
<1> DEFINE vals == [g \in DOMAIN db.schema |->
                      IF g < f THEN UpdatedValue(db.rows[key].vals[g], lits[g])
                      ELSE IF g = f /\ freed THEN <<>> ELSE db.rows[key].vals[g]]
           torn == db.stale \cup {g \in DOMAIN db.schema :
                                    lits[g] # Ignored /\ (g < f \/ (g = f /\ freed))}
           d == TornRow(db, key, f, lits, freed)
           h == Abstract!HalfWritten(TableOf(db), key, lits, f, freed)
           known == [schema |-> db.schema, rows |-> [db.rows EXCEPT ![key].vals = vals],
                     torn |-> torn, worn |-> db.overflowed]
<1>1. /\ d.schema = db.schema /\ d.overflowed = db.overflowed
      /\ d.rows = [db.rows EXCEPT ![key].vals = vals]
      /\ d.stale = torn
  BY DEF TornRow, IsDB
<1>2. TableOf(d) = known
  <2> HIDE DEF d, vals, torn
  <2>. QED BY <1>1 DEF TableOf
<1>3. [g \in DOMAIN db.schema |->
         IF g < f THEN Abstract!Changed(db.rows[key].vals[g], lits[g])
         ELSE IF g < f \/ (g = f /\ freed) THEN <<>> ELSE db.rows[key].vals[g]] = vals
  BY SameValues
<1>4. db.stale \cup {g \in DOMAIN db.schema :
                       lits[g] # Abstract!Skipped /\ (g < f \/ (g = f /\ freed))} = torn
  BY SameValues
<1>5. h = known
  <2> HIDE DEF vals, torn
  <2>. QED BY <1>3, <1>4, TablesFacts DEF Abstract!HalfWritten, TableOf
<1>. QED BY <1>2, <1>5

\* A row that UP wrote, after the rebuild of the indexes.
LEMMA WrittenTable ==
  ASSUME NEW db, IsDB(db), NEW key \in DOMAIN db.rows, NEW lits, NEW now,
         NEW d \in rebuild_enabled_indexes(UpdatedRow(db, key, lits, now))
  PROVE  TableOf(d) =
           Abstract!Whole(TableOf(db), [db.rows EXCEPT
             ![key] = [vals    |-> [g \in DOMAIN db.schema |-> Abstract!Changed(@.vals[g], lits[g])],
                       created |-> @.created, updated |-> now]])
<1> DEFINE vals == [g \in DOMAIN db.schema |-> UpdatedValue(db.rows[key].vals[g], lits[g])]
           e == UpdatedRow(db, key, lits, now)
           row == [vals |-> vals, created |-> db.rows[key].created, updated |-> now]
<1>1. /\ DOMAIN e = TableFields /\ e.schema = db.schema /\ e.overflowed = db.overflowed
      /\ e.rows = [[db.rows EXCEPT ![key].vals = vals] EXCEPT ![key].updated = now]
  BY DEF UpdatedRow, IsDB, TableFields
<1>2. db.rows[key] \in Row
  BY DEF IsDB
<1>3. [[db.rows[key] EXCEPT !.vals = vals] EXCEPT !.updated = now] = row
  <2> HIDE DEF vals
  <2>1. [db.rows[key] EXCEPT !.vals = vals] =
          [vals |-> vals, created |-> db.rows[key].created, updated |-> db.rows[key].updated]
    BY <1>2 DEF Row
  <2>2. PICK r : r = [db.rows[key] EXCEPT !.vals = vals]
    OBVIOUS
  <2>3. r = [vals |-> vals, created |-> db.rows[key].created, updated |-> db.rows[key].updated]
    BY <2>1, <2>2
  <2>4. [r EXCEPT !.updated = now] = row
    BY <2>3
  <2>. QED BY <2>2, <2>4
<1>4. e.rows = [db.rows EXCEPT ![key] = row]
  <2> HIDE DEF vals, e, row
  <2>. QED BY <1>1, <1>3
<1>5. vals = [g \in DOMAIN db.schema |-> Abstract!Changed(db.rows[key].vals[g], lits[g])]
  BY SameValues
<1>6. TableOf(d) = [schema |-> db.schema, rows |-> e.rows, torn |-> {},
                    worn |-> db.overflowed]
  <2> HIDE DEF e
  <2>. QED BY <1>1, RebuildMends DEF e
<1>7. TableOf(d) = Abstract!Whole(TableOf(db), [db.rows EXCEPT ![key] = row])
  <2> HIDE DEF e, row
  <2>. QED BY <1>4, <1>6, WholeTable
<1> HIDE DEF vals
<1>. QED BY <1>5, <1>7

\* UP writes the fields in order: all of them, or those before one that it
\* could not write.
LEMMA UpdateStores ==
  ASSUME IInv, NEW n, NEW key, NEW lits \in Seq(ParsedLiterals), execute_up(n, key, lits)
  PROVE  Abstract!Update(n, key, lits)
<1> DEFINE req == [key |-> key, lits |-> lits]
           db == dbs[n]
           table == Tables[n]
           reason == ~Abstract!ValidChange(table.schema, lits) \/ key \notin DOMAIN table.rows
           IsFull(f) == Abstract!Full(table.rows[key].vals[f], lits[f])
           limits == {f \in DOMAIN db.schema : AtLimit(db, key, f, lits)}
           e == UpdatedRow(db, key, lits, clock)
           After(f, lost) == TornRow(db, key, f, lits, lost)
<1>0. reason \in BOOLEAN
  OBVIOUS
<1>1. ASSUME \/ DbNotFound("UP", n, req, -1)
             \/ reason /\ Refuse("UP", n, req, -1)
      PROVE  Abstract!Update(n, key, lits)
  <2>1. Abstract!Refusal("UP", n, req, reason)
    <3> HIDE DEF req, reason
    <3>. QED BY <1>0, <1>1, RefusedQuery
  <2>. QED BY <2>1 DEF Abstract!Update
<1>2. ASSUME find_db(n), ~ValidUpdate(db, lits) PROVE reason
  BY <1>2, FieldsFacts, TablesFacts, SameValues
<1>3. ASSUME find_db(n), ValidUpdate(db, lits),
             NEW o \in db_update_row(db, key, lits, clock), Store("UP", n, req, o, key)
      PROVE  Abstract!Update(n, key, lits)
  <2>1. /\ n \in DOMAIN dbs /\ IsDB(db) /\ table = TableOf(db)
        /\ table.schema = db.schema /\ table.rows = db.rows
        /\ Abstract!Exists(n) /\ Abstract!ValidChange(table.schema, lits)
    BY <1>3, FieldsFacts, TablesFacts, SameValues DEF TableOK
  <2>2. /\ Abstract!Put(n, TableOf(o.db))
        /\ o.rc = 0 => Abstract!Granted("UP", n, req, key, {})
        /\ o.rc # 0 => Abstract!Denied("UP", n, req)
    <3> HIDE DEF req
    <3>. QED BY <1>3, <2>1, StoreShows
  <2>3. CASE o = [rc |-> -3, db |-> db] /\ key \notin DOMAIN db.rows
    <3>1. o.rc # 0 /\ o.db = db
      BY <2>3
    <3>2. Tables' = Tables
      BY <2>1, <2>2, <3>1, PutBack
    <3>3. Abstract!Refusal("UP", n, req, reason)
      BY <2>1, <2>2, <2>3, <3>1, <3>2 DEF Abstract!Refusal
    <3>. QED BY <3>3 DEF Abstract!Update
  <2>4. DOMAIN lits = DOMAIN db.schema /\ \A f \in DOMAIN db.schema : lits[f].append \in BOOLEAN
    <3>1. DOMAIN lits = DOMAIN db.schema
      BY <1>3, <2>1 DEF ValidUpdate, IsDB
    <3>2. \A f \in DOMAIN lits : lits[f] \in Literal
      BY DEF ParsedLiterals
    <3>. QED BY <3>1, <3>2 DEF Literal
  <2>5. \A f \in DOMAIN db.schema : IsFull(f) <=> f \in limits
    BY <2>1 DEF Abstract!Full, AtLimit
  <2>6. ASSUME key \in DOMAIN db.rows, NEW f \in DOMAIN db.schema, NEW lost \in BOOLEAN,
               \A g \in limits : f <= g, MallocFails \/ (f \in limits /\ ~lost),
               o.rc # 0, o.db = After(f, lost)
        PROVE  Abstract!Update(n, key, lits)
    <3>1. TableOf(o.db) = Abstract!HalfWritten(table, key, lits, f, lost)
      BY <2>1, <2>6, TornTable
    <3>2. Abstract!NoneFull(table, key, lits, {g \in DOMAIN table.schema : g < f})
      <4>1. ASSUME NEW g \in DOMAIN db.schema, g < f PROVE g \notin limits
        <5>1. g \in Int /\ f \in Int
          BY <2>1 DEF IsDB
        <5>. QED BY <2>6, <4>1, <5>1
      <4>. QED BY <2>1, <2>5, <4>1 DEF Abstract!NoneFull
    <3>3. MallocFails \/ (IsFull(f) /\ ~lost)
      BY <2>5, <2>6
    <3>4. Abstract!Updatable(n, key, lits)
      BY <2>1, <2>6 DEF Abstract!Updatable
    <3> HIDE DEF req, reason, limits, After
    <3>. QED BY <2>1, <2>2, <2>6, <3>1, <3>2, <3>3, <3>4 DEF Abstract!Update, req
  <2>7. ASSUME key \in DOMAIN db.rows, limits = {},
               NEW d \in rebuild_enabled_indexes(e), o = [rc |-> 0, db |-> d]
        PROVE  Abstract!Update(n, key, lits)
    <3>1. TableOf(o.db) =
            Abstract!Whole(table, [table.rows EXCEPT
              ![key] = [vals    |-> [g \in DOMAIN table.schema |-> Abstract!Changed(@.vals[g], lits[g])],
                        created |-> @.created, updated |-> clock]])
      BY <2>1, <2>7, WrittenTable
    <3>2. Abstract!NoneFull(table, key, lits, DOMAIN table.schema)
      BY <2>1, <2>5, <2>7 DEF Abstract!NoneFull
    <3>3. Abstract!Granted("UP", n, req, key, {})
      BY <2>2, <2>7
    <3>4. Abstract!Updatable(n, key, lits)
      BY <2>1, <2>7 DEF Abstract!Updatable
    <3> HIDE DEF reason, limits, e
    <3>. QED BY <2>1, <2>2, <2>7, <3>1, <3>2, <3>3, <3>4 DEF Abstract!Update
  <2>8. \/ o = [rc |-> -3, db |-> db] /\ key \notin DOMAIN db.rows
        \/ /\ key \in DOMAIN db.rows
           /\ \E f \in limits :
                (\A g \in limits : f <= g) /\ o = [rc |-> -5, db |-> After(f, FALSE)]
        \/ /\ key \in DOMAIN db.rows
           /\ \E f \in DOMAIN db.schema :
                /\ \A g \in limits : f <= g
                /\ MallocFails
                /\ o = [rc |-> -4, db |-> After(f, ~lits[f].append)]
        \/ /\ key \in DOMAIN db.rows /\ limits = {}
           /\ \E d \in rebuild_enabled_indexes(e) : o = [rc |-> 0, db |-> d]
    <3> HIDE DEF e, After
    <3>. QED BY <1>3 DEF db_update_row, OnMallocFailure, e, After
  <2> HIDE DEF req, reason, e, After
  <2>9. CASE /\ key \in DOMAIN db.rows
             /\ \E f \in limits :
                  (\A g \in limits : f <= g) /\ o = [rc |-> -5, db |-> After(f, FALSE)]
    <3>1. PICK f \in limits :
            (\A g \in limits : f <= g) /\ o = [rc |-> -5, db |-> After(f, FALSE)]
      BY <2>9
    <3>2. o.rc # 0 /\ o.db = After(f, FALSE) /\ f \in DOMAIN db.schema
      BY <3>1
    <3>. QED BY <2>6, <2>9, <3>1, <3>2
  <2>10. CASE /\ key \in DOMAIN db.rows
              /\ \E f \in DOMAIN db.schema :
                   /\ \A g \in limits : f <= g
                   /\ MallocFails
                   /\ o = [rc |-> -4, db |-> After(f, ~lits[f].append)]
    <3>1. PICK f \in DOMAIN db.schema :
            /\ \A g \in limits : f <= g
            /\ MallocFails
            /\ o = [rc |-> -4, db |-> After(f, ~lits[f].append)]
      BY <2>10
    <3>2. o.rc # 0 /\ o.db = After(f, ~lits[f].append) /\ (~lits[f].append) \in BOOLEAN
      BY <3>1
    <3>. QED BY <2>6, <2>10, <3>1, <3>2
  <2>. QED BY <2>3, <2>7, <2>8, <2>9, <2>10
<1> HIDE DEF req, reason, db, e, After
<1>. QED BY <1>1, <1>2, <1>3 DEF execute_up, req, db

-----------------------------------------------------------------------------
(* The refinement *)

\* Every step of the executor is a step of the store.
LEMMA StepStores ==
  ASSUME IInv, [Next]_vars PROVE [Abstract!StoreNext]_(Abstract!storeVars)
<1>1. CASE Tick
  <2>1. Tables' = Tables /\ Seen' = Seen /\ clock' = clock + 1
    BY <1>1, TablesKept DEF Tick, Seen
  <2>. QED BY <2>1 DEF Abstract!StoreNext, Abstract!Tick
<1>2. ASSUME NEW n \in Names,
             \/ \E schema \in Schemas : execute_create(n, schema)
             \/ execute_del_table(n)
             \/ execute_count(n)
      PROVE  Abstract!Command(n)
  BY <1>2, CreateStores, DropStores, CountStores DEF Abstract!Command
<1>3. ASSUME NEW n \in Names, NEW lits \in AddValues,
             \/ execute_add(n, TRUE, 0, lits)
             \/ \E key \in KeyArgs : execute_add(n, FALSE, key, lits)
      PROVE  Abstract!Command(n)
  <2>1. 0 \in CInt /\ KeyArgs \subseteq CInt
    BY LimitsAssumption, InputsAssumption DEF CInt, IntMin
  <2>2. CASE execute_add(n, TRUE, 0, lits)
    BY <2>1, <2>2, AddStores DEF Abstract!Command
  <2>3. ASSUME NEW key \in KeyArgs, execute_add(n, FALSE, key, lits)
        PROVE  Abstract!Command(n)
    BY <2>1, <2>3, AddStores DEF Abstract!Command
  <2>. QED BY <1>3, <2>2, <2>3
<1>4. ASSUME NEW n \in Names, NEW key \in KeyArgs, NEW lits \in UpValues,
             execute_up(n, key, lits)
      PROVE  Abstract!Command(n)
  <2>1. lits \in Seq(ParsedLiterals)
    BY InputsAssumption
  <2>. QED BY <1>4, <2>1, UpdateStores DEF Abstract!Command
<1>5. ASSUME NEW n \in Names, NEW key \in KeyArgs, execute_del(n, key)
      PROVE  Abstract!Command(n)
  BY <1>5, DeleteStores DEF Abstract!Command
<1>6. ASSUME NEW n \in Names, NEW fields \in FieldLists,
             \/ \E key \in KeyArgs : execute_get(n, key, fields)
             \/ execute_get_all(n, fields)
             \/ \E f \in FieldArgs, s \in SearchValues : execute_search(n, f, s, fields)
      PROVE  Abstract!Command(n)
  BY <1>6, GetStores, GetAllStores, SearchStores
  DEF Abstract!Command, FieldArgs, Abstract!FieldArgs
<1>7. ASSUME NEW n \in Names, NEW f \in FieldArgs, execute_create_index(n, f)
      PROVE  Abstract!Command(n)
  BY <1>7, CreateIndexStores DEF Abstract!Command, FieldArgs, Abstract!FieldArgs
<1>8. CASE execute_command
  <2>1. PICK n \in Names : Abstract!Command(n)
    BY <1>2, <1>3, <1>4, <1>5, <1>6, <1>7, <1>8 DEF execute_command
  <2>. QED BY <2>1 DEF Abstract!StoreNext
<1>9. CASE UNCHANGED vars
  <2>1. Tables' = Tables /\ Seen' = Seen /\ clock' = clock
    BY <1>9, TablesKept DEF vars, Seen
  <2>. QED BY <2>1 DEF Abstract!storeVars
<1>. QED BY <1>1, <1>8, <1>9 DEF Next

\* The executor implements the store, for every instance: what CREATE,
\* DEL_TABLE, ADD, UP, DEL and CREATE_INDEX do to the tables and their rows, and
\* what every command answers (execute_command).
THEOREM StoreTheorem == Spec => ImplementsStore
<1>1. Init => Abstract!StoreInit
  <2> SUFFICES ASSUME Init PROVE Abstract!StoreInit
    OBVIOUS
  <2>1. Tables = [n \in {} |-> Abstract!EmptyTable(<<>>)]
    BY DEF Init, Tables
  <2>2. Seen = NoReply /\ clock = 0
    BY DEF Init, Seen, NoReply
  <2>. QED BY <2>1, <2>2 DEF Abstract!StoreInit, NoReply
<1>2. IInv /\ [Next]_vars => [Abstract!StoreNext]_(Abstract!storeVars)
  BY StepStores
<1>. QED BY <1>1, <1>2, Invariance, PTL DEF Spec, ImplementsStore, Abstract!StoreSpec
=============================================================================
