---------------------------- MODULE ServerProofs ----------------------------
(***************************************************************************)
(* Proofs about Server: that the snapshot under its name is at every step  *)
(* an image of the last save that succeeded, whole unless the power failed *)
(* before it was written back, and that loading it gives that save back.   *)
(* First come the lemmas about the loader of Persistence: the rows of a    *)
(* table go through db_add_row one by one, in the order in which the hash  *)
(* map gave them out, and the table that comes out has the rows that went  *)
(* in.  The steps of the replay are counted with the least row that goes   *)
(* wrong.                                                                  *)
(***************************************************************************)
EXTENDS OperationsProofs, Server, SequenceTheorems, WellFoundedInduction

-----------------------------------------------------------------------------
(* Natural numbers and orders of a set *)

\* A set of natural numbers has a least element.
LEMMA LeastElement ==
  ASSUME NEW T \in SUBSET Nat, T # {}
  PROVE  \E x \in T : \A y \in T : ~(y < x)
<1> DEFINE R == OpToRel(<, Nat)
<1>1. IsWellFoundedOn(R, Nat)
  BY NatLessThanWellFounded
<1>2. \A x, y \in Nat : <<y, x>> \in R <=> y < x
  BY DEF OpToRel
<1> HIDE DEF R
<1>3. PICK x \in T : \A y \in T : ~(<<y, x>> \in R)
  BY <1>1, WFMin
<1>. QED BY <1>2, <1>3

\* An order of a finite set names each element once and leaves none out.
LEMMA OrderFacts ==
  ASSUME NEW D, IsFiniteSet(D), NEW order \in SetToSeqs(D)
  PROVE  /\ Cardinality(D) \in Nat
         /\ order \in [1 .. Cardinality(D) -> D]
         /\ \A i, j \in 1 .. Cardinality(D) : i # j => order[i] # order[j]
         /\ {order[i] : i \in 1 .. Cardinality(D)} = D
<1> DEFINE n == Cardinality(D)
<1>1. n \in Nat
  BY FS_CardinalityType
<1>2. order \in [1 .. n -> D] /\ \A i, j \in 1 .. n : i # j => order[i] # order[j]
  BY DEF SetToSeqs
<1>3. order \in Injection(1 .. n, D)
  BY <1>2 DEF Injection, IsInjective
<1>4. IsFiniteSet(1 .. n) /\ Cardinality(1 .. n) = n
  BY <1>1, FS_Interval
<1>5. order \in Surjection(1 .. n, D)
  BY <1>3, <1>4, FS_Injection
<1>. QED BY <1>1, <1>2, <1>5 DEF Surjection

-----------------------------------------------------------------------------
(* What the calls of the storage layer keep beside the table invariant *)

\* A table that CREATE made: it has a field, no more rows than the limit, and
\* its rows are a function of their keys.
Shaped(db) ==
  /\ db.schema # <<>>
  /\ db.rowsCount <= MAX_ROW_CAPACITY
  /\ db.rows = [k \in DOMAIN db.rows |-> db.rows[k]]

\* rebuild_enabled_indexes touches the indexes and the history of stale fields.
LEMMA RebuildTouches ==
  ASSUME NEW db, IsDB(db), NEW e, DOMAIN e = DOMAIN db, NEW d \in rebuild_enabled_indexes(e)
  PROVE  /\ d.schema = e.schema /\ d.rows = e.rows /\ d.rowsCount = e.rowsCount
         /\ d.nextKey = e.nextKey /\ d.overflowed = e.overflowed
BY DEF rebuild_enabled_indexes, IsDB

\* db_add_row: which row comes in, and what a refusal is due to.
LEMMA AddRowEffect ==
  ASSUME NEW db, TableOK(db), NEW key \in CInt, NEW vals, NEW now,
         NEW o \in db_add_row(db, key, vals, now)
  PROVE  /\ o.db.schema = db.schema
         /\ \/ /\ o.rc # 0 /\ o.db.rowsCount = db.rowsCount /\ o.db.rows = db.rows
               /\ \/ db.rowsCount >= MAX_ROW_CAPACITY
                  \/ ActualKey(db, key) \in DOMAIN db.rows
                  \/ MallocFails
            \/ /\ o.rc = 0 /\ ~(db.rowsCount >= MAX_ROW_CAPACITY)
               /\ o.db.rowsCount = db.rowsCount + 1
               /\ o.db.overflowed = (db.overflowed \/ NextKeyAfter(db, key) > IntMax)
               /\ o.db.rows = [k \in DOMAIN db.rows \cup {ActualKey(db, key)} |->
                                 IF k = ActualKey(db, key)
                                   THEN [vals |-> vals, created |-> now, updated |-> now]
                                   ELSE db.rows[k]]
<1> DEFINE a == ActualKey(db, key)
           t == TakeKey(db, key)
           e == InsertRow(t, a, vals, now)
<1>0. IsDB(db)
  BY DEF TableOK
<1>1. /\ t.schema = db.schema /\ t.rows = db.rows /\ t.rowsCount = db.rowsCount
      /\ DOMAIN t = DOMAIN db
  BY <1>0 DEF TakeKey, IsDB
<1>2. t.overflowed = (db.overflowed \/ NextKeyAfter(db, key) > IntMax)
  BY <1>0 DEF TakeKey, IsDB
<1>3. /\ e.schema = t.schema /\ e.rowsCount = t.rowsCount + 1 /\ e.overflowed = t.overflowed
      /\ DOMAIN e = DOMAIN t
      /\ e.rows = [k \in DOMAIN t.rows \cup {a} |->
                     IF k = a THEN [vals |-> vals, created |-> now, updated |-> now]
                     ELSE t.rows[k]]
  BY <1>0, <1>1 DEF InsertRow, IsDB
<1>4. \/ db.rowsCount >= MAX_ROW_CAPACITY /\ o = [rc |-> -3, db |-> db]
      \/ a \in DOMAIN db.rows /\ o = [rc |-> -5, db |-> t]
      \/ MallocFails /\ o = [rc |-> -4, db |-> t]
      \/ /\ ~(db.rowsCount >= MAX_ROW_CAPACITY)
         /\ \E d \in rebuild_enabled_indexes(e) : o = [rc |-> 0, db |-> d]
  BY DEF db_add_row, OnMallocFailure
<1>5. ASSUME NEW d \in rebuild_enabled_indexes(e)
      PROVE  /\ d.schema = e.schema /\ d.rows = e.rows /\ d.rowsCount = e.rowsCount
             /\ d.overflowed = e.overflowed
  BY <1>0, <1>1, <1>3, RebuildTouches
<1> HIDE DEF a, t, e
<1>6. CASE \E d \in rebuild_enabled_indexes(e) : o = [rc |-> 0, db |-> d]
           /\ ~(db.rowsCount >= MAX_ROW_CAPACITY)
  <2>1. PICK d \in rebuild_enabled_indexes(e) : o = [rc |-> 0, db |-> d]
    BY <1>6
  <2>2. o.rc = 0 /\ o.db = d
    BY <2>1
  <2>3. /\ d.schema = db.schema /\ d.rowsCount = db.rowsCount + 1
        /\ d.rows = [k \in DOMAIN db.rows \cup {a} |->
                       IF k = a THEN [vals |-> vals, created |-> now, updated |-> now]
                       ELSE db.rows[k]]
    BY <1>1, <1>3, <1>5
  <2>4. d.overflowed = (db.overflowed \/ NextKeyAfter(db, key) > IntMax)
    BY <1>2, <1>3, <1>5, Zenon
  <2>5. o.db.overflowed = (db.overflowed \/ NextKeyAfter(db, key) > IntMax)
    BY <2>2, <2>4, Zenon
  <2>. QED BY <1>6, <2>2, <2>3, <2>5, Zenon DEF a
<1>7. CASE \/ db.rowsCount >= MAX_ROW_CAPACITY /\ o = [rc |-> -3, db |-> db]
           \/ a \in DOMAIN db.rows /\ o = [rc |-> -5, db |-> t]
           \/ MallocFails /\ o = [rc |-> -4, db |-> t]
  <2>1. o.rc # 0 /\ o.db \in {db, t}
    BY <1>7
  <2>2. o.db.schema = db.schema /\ o.db.rowsCount = db.rowsCount /\ o.db.rows = db.rows
    BY <1>1, <2>1
  <2>. QED BY <1>7, <2>1, <2>2 DEF a
<1>. QED BY <1>4, <1>6, <1>7

\* ADD keeps the shape of a table.
LEMMA AddRowShape ==
  ASSUME NEW db, TableOK(db), Shaped(db), NEW key \in CInt, NEW vals, NEW now,
         NEW o \in db_add_row(db, key, vals, now)
  PROVE  Shaped(o.db)
<1> DEFINE a == ActualKey(db, key)
           new == [k \in DOMAIN db.rows \cup {a} |->
                     IF k = a THEN [vals |-> vals, created |-> now, updated |-> now]
                     ELSE db.rows[k]]
<1>1. /\ o.db.schema = db.schema
      /\ \/ o.db.rowsCount = db.rowsCount /\ o.db.rows = db.rows
         \/ /\ ~(db.rowsCount >= MAX_ROW_CAPACITY)
            /\ o.db.rowsCount = db.rowsCount + 1 /\ o.db.rows = new
  BY AddRowEffect
<1>2. new = [k \in DOMAIN new |-> new[k]]
  OBVIOUS
<1>3. db.rowsCount \in Int
  BY DEF TableOK, IsDB
<1> HIDE DEF new
<1>. QED BY <1>1, <1>2, <1>3, LimitsAssumption DEF Shaped

\* UP keeps it, also where it stops half way.
LEMMA UpdateRowShape ==
  ASSUME NEW db, TableOK(db), Shaped(db), NEW key, NEW lits, NEW now,
         NEW o \in db_update_row(db, key, lits, now)
  PROVE  Shaped(o.db)
<1>0. IsDB(db)
  BY DEF TableOK
<1>1. ASSUME NEW d, d.schema = db.schema, d.rowsCount = db.rowsCount,
             NEW row, d.rows = [db.rows EXCEPT ![key] = row]
      PROVE  Shaped(d)
  BY <1>1 DEF Shaped
<1>2. ASSUME NEW f, NEW freed
      PROVE  Shaped(TornRow(db, key, f, lits, freed))
  <2> DEFINE d == TornRow(db, key, f, lits, freed)
             vals == [g \in DOMAIN db.schema |->
                        IF g < f THEN UpdatedValue(db.rows[key].vals[g], lits[g])
                        ELSE IF g = f /\ freed THEN <<>> ELSE db.rows[key].vals[g]]
             row == [db.rows[key] EXCEPT !.vals = vals]
  <2>1. /\ d.schema = db.schema /\ d.rowsCount = db.rowsCount
        /\ d.rows = [db.rows EXCEPT ![key] = row]
    BY <1>0 DEF TornRow, IsDB
  <2> HIDE DEF d, row
  <2>. QED BY <1>1, <2>1 DEF d
<1>3. ASSUME NEW d \in rebuild_enabled_indexes(UpdatedRow(db, key, lits, now))
      PROVE  Shaped(d)
  <2> DEFINE e == UpdatedRow(db, key, lits, now)
             vals == [g \in DOMAIN db.schema |->
                        UpdatedValue(db.rows[key].vals[g], lits[g])]
             row == [db.rows[key] EXCEPT !.vals = vals, !.updated = now]
  <2>1. /\ e.schema = db.schema /\ e.rowsCount = db.rowsCount /\ DOMAIN e = DOMAIN db
    BY <1>0 DEF UpdatedRow, IsDB
  <2>2. e.rows = [db.rows EXCEPT ![key] = row]
    <3>1. e.rows = [[db.rows EXCEPT ![key].vals = vals] EXCEPT ![key].updated = now]
      BY <1>0 DEF UpdatedRow, IsDB
    <3> HIDE DEF e, vals
    <3>. QED BY <3>1
  <2> HIDE DEF e, row
  <2>3. d.schema = e.schema /\ d.rows = e.rows /\ d.rowsCount = e.rowsCount
    BY <1>0, <1>3, <2>1, RebuildTouches DEF e
  <2>. QED BY <1>1, <2>1, <2>2, <2>3
<1>4. \/ o = [rc |-> -3, db |-> db]
      \/ \E f \in DOMAIN db.schema :
           o = [rc |-> -5, db |-> TornRow(db, key, f, lits, FALSE)]
      \/ \E f \in DOMAIN db.schema :
           o = [rc |-> -4, db |-> TornRow(db, key, f, lits, ~lits[f].append)]
      \/ \E d \in rebuild_enabled_indexes(UpdatedRow(db, key, lits, now)) :
           o = [rc |-> 0, db |-> d]
  BY DEF db_update_row, OnMallocFailure
<1>5. CASE o = [rc |-> -3, db |-> db]
  BY <1>5
<1>6. CASE \E f \in DOMAIN db.schema :
             o = [rc |-> -5, db |-> TornRow(db, key, f, lits, FALSE)]
  <2>1. PICK f : o = [rc |-> -5, db |-> TornRow(db, key, f, lits, FALSE)]
    BY <1>6
  <2>2. Shaped(TornRow(db, key, f, lits, FALSE))
    BY <1>2, Zenon
  <2>. QED BY <2>1, <2>2
<1>7. CASE \E f \in DOMAIN db.schema :
             o = [rc |-> -4, db |-> TornRow(db, key, f, lits, ~lits[f].append)]
  <2>1. PICK f : o = [rc |-> -4, db |-> TornRow(db, key, f, lits, ~lits[f].append)]
    BY <1>7
  <2>2. PICK d : d = TornRow(db, key, f, lits, ~lits[f].append) /\ Shaped(d)
    BY <1>2, Zenon
  <2>3. o = [rc |-> -4, db |-> d]
    BY <2>1, <2>2, Zenon
  <2>. QED BY <2>2, <2>3
<1>8. CASE \E d \in rebuild_enabled_indexes(UpdatedRow(db, key, lits, now)) :
             o = [rc |-> 0, db |-> d]
  BY <1>3, <1>8
<1>. QED BY <1>4, <1>5, <1>6, <1>7, <1>8

\* DEL keeps it.
LEMMA DeleteRowShape ==
  ASSUME NEW db, TableOK(db), Shaped(db), NEW key, NEW o \in db_delete_row(db, key)
  PROVE  Shaped(o.db)
<1> DEFINE e == [db EXCEPT !.rows = [k \in DOMAIN db.rows \ {key} |-> db.rows[k]],
                           !.rowsCount = @ - 1]
<1>0. IsDB(db) /\ db.rowsCount \in Int
  BY DEF TableOK, IsDB
<1>1. /\ DOMAIN e = DOMAIN db /\ e.schema = db.schema /\ e.rowsCount = db.rowsCount - 1
      /\ e.rows = [k \in DOMAIN db.rows \ {key} |-> db.rows[k]]
  BY <1>0 DEF IsDB
<1> HIDE DEF e
<1>2. Shaped(e)
  BY <1>0, <1>1, LimitsAssumption DEF Shaped
<1>3. ASSUME NEW d \in rebuild_enabled_indexes(e) PROVE Shaped(d)
  BY <1>0, <1>1, <1>2, RebuildTouches DEF Shaped
<1>4. CASE key \notin DOMAIN db.rows
  BY <1>4 DEF db_delete_row
<1>5. CASE key \in DOMAIN db.rows
  <2>1. PICK d \in rebuild_enabled_indexes(e) : o = [rc |-> 0, db |-> d]
    BY <1>5 DEF db_delete_row, e
  <2>. QED BY <1>3, <2>1
<1>. QED BY <1>4, <1>5

\* CREATE_INDEX touches no row.
LEMMA CreateIndexShape ==
  ASSUME NEW db, TableOK(db), Shaped(db), NEW f, NEW o \in db_create_index(db, f)
  PROVE  Shaped(o.db)
<1>0. IsDB(db)
  BY DEF TableOK
<1>1. CASE o = [rc |-> -2, db |-> db]
  BY <1>1
<1>2. CASE o = [rc |-> 0, db |-> [db EXCEPT !.index[f] = rebuild_single_index(db, f),
                                            !.stale = @ \ {f}]]
  <2>1. o.db.schema = db.schema /\ o.db.rows = db.rows /\ o.db.rowsCount = db.rowsCount
    BY <1>0, <1>2 DEF IsDB
  <2>. QED BY <2>1 DEF Shaped
<1>3. CASE o = [rc |-> -3, db |-> [db EXCEPT !.index[f] = NoIndex]]
  <2>1. o.db.schema = db.schema /\ o.db.rows = db.rows /\ o.db.rowsCount = db.rowsCount
    BY <1>0, <1>3 DEF IsDB
  <2>. QED BY <2>1 DEF Shaped
<1>. QED BY <1>1, <1>2, <1>3 DEF db_create_index, OnMallocFailure

\* A new table has a field and no row.
LEMMA CreateShape ==
  ASSUME NEW schema, schema # <<>> PROVE Shaped(db_create(schema))
BY LimitsAssumption DEF Shaped, db_create

\* Table d is db with other timestamps of one row.
Stamped(db, d, key, created, updated) ==
  /\ TableOK(d) /\ Shaped(d) /\ d.schema = db.schema
  /\ d.rowsCount = db.rowsCount /\ d.overflowed = db.overflowed
  /\ key \in DOMAIN db.rows =>
       d.rows = [k \in DOMAIN db.rows |->
                   IF k = key THEN [vals |-> db.rows[key].vals,
                                    created |-> created, updated |-> updated]
                   ELSE db.rows[k]]

\* db_set_row_timestamps keeps the table invariant and touches one row.
LEMMA StampsKeepTable ==
  ASSUME NEW db, TableOK(db), Shaped(db), NEW key, NEW created \in Nat, NEW updated \in Nat
  PROVE  Stamped(db, db_set_row_timestamps(db, key, created, updated), key, created, updated)
<1> DEFINE d == db_set_row_timestamps(db, key, created, updated)
           row == [vals |-> db.rows[key].vals, created |-> created, updated |-> updated]
<1>0. IsDB(db) /\ CountOK(db) /\ NextKeyOK(db) /\ ArraysOK(db) /\ IndexOK(db)
  BY DEF TableOK
<1>1. CASE key \notin DOMAIN db.rows
  BY <1>1 DEF db_set_row_timestamps, Stamped
<1>2. CASE key \in DOMAIN db.rows
  <2>1. /\ DOMAIN d = DOMAIN db /\ d.schema = db.schema /\ d.rowsCount = db.rowsCount
        /\ d.nextKey = db.nextKey /\ d.index = db.index /\ d.overflowed = db.overflowed
        /\ d.stale = db.stale
        /\ d.rows = [[db.rows EXCEPT ![key].created = created] EXCEPT ![key].updated = updated]
    BY <1>0, <1>2 DEF db_set_row_timestamps, IsDB
  <2>2. db.rows[key] \in Row
    BY <1>0, <1>2 DEF IsDB
  <2> HIDE DEF d
  <2>3. row \in Row /\ row.vals = db.rows[key].vals
    BY <2>2 DEF Row
  <2>4. [[db.rows[key] EXCEPT !.created = created] EXCEPT !.updated = updated] = row
    <3>1. PICK r \in Row : r = db.rows[key]
      BY <2>2
    <3>2. PICK q : q = [r EXCEPT !.created = created]
      OBVIOUS
    <3>3. q = [vals |-> r.vals, created |-> created, updated |-> r.updated]
      BY <3>2 DEF Row
    <3>4. [q EXCEPT !.updated = updated]
            = [vals |-> r.vals, created |-> created, updated |-> updated]
      BY <3>3
    <3>. QED BY <3>1, <3>2, <3>4
  <2>5. d.rows = [k \in DOMAIN db.rows |-> IF k = key THEN row ELSE db.rows[k]]
    <3>1. PICK rows : rows = db.rows /\ rows = [k \in DOMAIN rows |-> rows[k]]
      BY DEF Shaped
    <3>2. [[rows EXCEPT ![key].created = created] EXCEPT ![key].updated = updated]
            = [k \in DOMAIN rows |->
                 IF k = key
                   THEN [[rows[key] EXCEPT !.created = created] EXCEPT !.updated = updated]
                   ELSE rows[k]]
      BY <1>2, <3>1
    <3> HIDE DEF row
    <3>. QED BY <2>1, <2>4, <3>1, <3>2
  <2> HIDE DEF row
  <2>6. DOMAIN d.rows = DOMAIN db.rows
        /\ \A k \in DOMAIN db.rows : d.rows[k].vals = db.rows[k].vals
    BY <2>3, <2>5
  <2>7. IsDB(d)
    BY <1>0, <2>1, <2>3, <2>5, <2>6 DEF IsDB
  <2>8. CountOK(d) /\ NextKeyOK(d)
    BY <1>0, <2>1, <2>6 DEF CountOK, NextKeyOK
  <2>9. ArraysOK(d)
    BY <1>0, <2>1, <2>6 DEF ArraysOK
  <2>10. IndexOK(d)
    <3>1. \A f : IndexEntries(d, f) = IndexEntries(db, f)
      BY <2>6 DEF IndexEntries, FieldValue
    <3>. QED BY <1>0, <2>1, <3>1 DEF IndexOK, EnabledIndexes, FieldType
  <2>11. Shaped(d)
    BY <2>1, <2>5 DEF Shaped
  <2>. QED BY <2>1, <2>5, <2>7, <2>8, <2>9, <2>10, <2>11 DEF TableOK, Stamped, d, row
<1>. QED BY <1>1, <1>2

-----------------------------------------------------------------------------
(* The replay of a table *)

\* What a save finds of a table: rows of the table's shape within the limits,
\* with keys that the key counter has passed without an overflow.
Kept(s) ==
  /\ s.schema \in Seq(FieldTypes) /\ s.schema # <<>> /\ Len(s.schema) <= MAX_FIELDS_PER_DB
  /\ IsFiniteSet(DOMAIN s.rows) /\ Cardinality(DOMAIN s.rows) <= MAX_ROW_CAPACITY
  /\ DOMAIN s.rows \subseteq CInt
  /\ s.rows = [k \in DOMAIN s.rows |-> s.rows[k]]
  /\ \A k \in DOMAIN s.rows : s.rows[k] \in Row /\ Fits(s.schema, s.rows[k].vals)
  /\ ~s.overflowed => \A k \in DOMAIN s.rows : 0 <= k /\ k < IntMax

\* The first i rows of an order, and what the loader has made of them.
Loaded(s, order, i) == [k \in {order[j] : j \in 1 .. i} |-> s.rows[k]]

\* An outcome after i rows: a sound table, and, unless the key counter had
\* overflowed, exactly the first i rows or a failed allocation.
Replayed(s, order, i, o) ==
  /\ TableOK(o.db) /\ Shaped(o.db) /\ o.db.schema = s.schema
  /\ ~s.overflowed =>
       \/ o.rc = 0 /\ ~o.db.overflowed /\ o.db.rowsCount = i /\ o.db.rows = Loaded(s, order, i)
       \/ MallocFails /\ o.rc # 0

\* db_add_row of the next row.
LEMMA ReplayAdd ==
  ASSUME NEW s, Kept(s), NEW order \in SetToSeqs(DOMAIN s.rows),
         NEW i \in 1 .. Cardinality(DOMAIN s.rows), NEW now \in Nat,
         NEW p, Replayed(s, order, i - 1, p), p.rc = 0,
         NEW a \in db_add_row(p.db, order[i], s.rows[order[i]].vals, now)
  PROVE  /\ TableOK(a.db) /\ Shaped(a.db) /\ a.db.schema = s.schema
         /\ ~s.overflowed =>
              \/ /\ a.rc = 0 /\ ~a.db.overflowed /\ a.db.rowsCount = i
                 /\ a.db.rows = [k \in {order[j] : j \in 1 .. i} |->
                                   IF k = order[i]
                                     THEN [vals |-> s.rows[order[i]].vals,
                                           created |-> now, updated |-> now]
                                     ELSE s.rows[k]]
              \/ MallocFails /\ a.rc # 0
<1> DEFINE D == DOMAIN s.rows
           n == Cardinality(D)
           key == order[i]
           vals == s.rows[key].vals
           db == p.db
<1>1. /\ n \in Nat /\ i \in Nat /\ 1 <= i /\ i <= n /\ n <= MAX_ROW_CAPACITY
      /\ order \in [1 .. n -> D]
      /\ \A j, l \in 1 .. n : j # l => order[j] # order[l]
  BY OrderFacts DEF Kept
<1>2. key \in D /\ key \in CInt /\ s.rows[key] \in Row /\ Fits(s.schema, vals)
  BY <1>1 DEF Kept
<1>3. TableOK(db) /\ Shaped(db) /\ db.schema = s.schema
  BY DEF Replayed
<1>4. TableOK(a.db)
  BY <1>2, <1>3, AddRowKeepsTable
<1>5. Shaped(a.db)
  BY <1>2, <1>3, AddRowShape
<1>6. /\ a.db.schema = db.schema
      /\ \/ /\ a.rc # 0
            /\ \/ db.rowsCount >= MAX_ROW_CAPACITY
               \/ ActualKey(db, key) \in DOMAIN db.rows
               \/ MallocFails
         \/ /\ a.rc = 0
            /\ a.db.rowsCount = db.rowsCount + 1
            /\ a.db.overflowed = (db.overflowed \/ NextKeyAfter(db, key) > IntMax)
            /\ a.db.rows = [k \in DOMAIN db.rows \cup {ActualKey(db, key)} |->
                              IF k = ActualKey(db, key)
                                THEN [vals |-> vals, created |-> now, updated |-> now]
                                ELSE db.rows[k]]
  <2> HIDE DEF db, key, vals
  <2>. QED BY <1>2, <1>3, AddRowEffect DEF db, key, vals
<1>7. ASSUME ~s.overflowed
      PROVE  \/ /\ a.rc = 0 /\ ~a.db.overflowed /\ a.db.rowsCount = i
                /\ a.db.rows = [k \in {order[j] : j \in 1 .. i} |->
                                  IF k = key
                                    THEN [vals |-> vals, created |-> now, updated |-> now]
                                    ELSE s.rows[k]]
             \/ MallocFails /\ a.rc # 0
  <2>1. /\ ~db.overflowed /\ db.rowsCount = i - 1
        /\ db.rows = [k \in {order[j] : j \in 1 .. i - 1} |-> s.rows[k]]
    BY <1>7 DEF Replayed, Loaded
  <2>2. 0 <= key /\ key < IntMax /\ key \in Int
    BY <1>2, <1>7, LimitsAssumption DEF Kept, CInt, IntMin
  <2>3. ActualKey(db, key) = key
    BY <2>2 DEF ActualKey
  <2>4. ~(NextKeyAfter(db, key) > IntMax)
    <3>1. db.nextKey \in Int /\ db.nextKey <= IntMax
      BY <1>3, LimitsAssumption DEF TableOK, IsDB, CInt, IntMin
    <3>. QED BY <2>2, <3>1, LimitsAssumption DEF NextKeyAfter
  <2>5. key \notin {order[j] : j \in 1 .. i - 1}
    BY <1>1
  <2>6. {order[j] : j \in 1 .. i - 1} \cup {key} = {order[j] : j \in 1 .. i}
    <3>1. \A j : j \in 1 .. i <=> j \in 1 .. i - 1 \/ j = i
      BY <1>1
    <3>. QED BY <3>1
  <2>7. ~(db.rowsCount >= MAX_ROW_CAPACITY)
    BY <1>1, <2>1, LimitsAssumption
  <2>8. DOMAIN db.rows = {order[j] : j \in 1 .. i - 1}
    BY <2>1
  <2>9. CASE a.rc # 0
    BY <1>6, <2>3, <2>5, <2>7, <2>8, <2>9
  <2>10. CASE a.rc = 0
    <3>1. a.db.overflowed = (db.overflowed \/ NextKeyAfter(db, key) > IntMax)
      BY <1>6, <2>10, Zenon
    <3>2. ~a.db.overflowed
      BY <2>1, <2>4, <3>1, Zenon
    <3>3. a.db.rowsCount = i
      BY <1>1, <1>6, <2>1, <2>10
    <3>4. a.db.rows = [k \in DOMAIN db.rows \cup {key} |->
                        IF k = key THEN [vals |-> vals, created |-> now, updated |-> now]
                        ELSE db.rows[k]]
      BY <1>6, <2>3, <2>10
    <3> HIDE DEF key, vals, db
    <3>5. a.db.rows = [k \in {order[j] : j \in 1 .. i} |->
                        IF k = key THEN [vals |-> vals, created |-> now, updated |-> now]
                        ELSE s.rows[k]]
      BY <2>1, <2>6, <2>8, <3>4
    <3>. QED BY <2>10, <3>2, <3>3, <3>5
  <2>. QED BY <2>9, <2>10
<1>. QED BY <1>3, <1>4, <1>5, <1>6, <1>7

\* One row of the file: db_add_row, then the timestamps of the file.
LEMMA ReplayRow ==
  ASSUME NEW s, Kept(s), NEW order \in SetToSeqs(DOMAIN s.rows),
         NEW i \in 1 .. Cardinality(DOMAIN s.rows), NEW now \in Nat,
         NEW S, \A p \in S : Replayed(s, order, i - 1, p),
         NEW r, r.key = order[i], r.row = s.rows[order[i]],
         NEW o \in LoadRow(S, r, now)
  PROVE  Replayed(s, order, i, o)
<1> DEFINE D == DOMAIN s.rows
           n == Cardinality(D)
           key == order[i]
           row == s.rows[key]
<1>1. /\ n \in Nat /\ i \in Nat /\ 1 <= i /\ i <= n
      /\ order \in [1 .. n -> D]
  BY OrderFacts DEF Kept
<1>2. key \in D /\ row \in Row
  BY <1>1 DEF Kept
<1>3. PICK p \in S :
        \/ p.rc # 0 /\ o = p
        \/ /\ p.rc = 0
           /\ \E a \in db_add_row(p.db, key, row.vals, now) :
                o = IF a.rc # 0 THEN a
                    ELSE [a EXCEPT !.db = db_set_row_timestamps(a.db, key, row.created,
                                                                row.updated)]
  BY DEF LoadRow
<1>4. Replayed(s, order, i - 1, p)
  OBVIOUS
<1>5. CASE p.rc # 0 /\ o = p
  BY <1>4, <1>5 DEF Replayed
<1>6. CASE p.rc = 0
  <2>1. PICK a \in db_add_row(p.db, key, row.vals, now) :
          o = IF a.rc # 0 THEN a
              ELSE [a EXCEPT !.db = db_set_row_timestamps(a.db, key, row.created, row.updated)]
    BY <1>3, <1>6
  <2>2. /\ TableOK(a.db) /\ Shaped(a.db) /\ a.db.schema = s.schema
        /\ ~s.overflowed =>
             \/ /\ a.rc = 0 /\ ~a.db.overflowed /\ a.db.rowsCount = i
                /\ a.db.rows = [k \in {order[j] : j \in 1 .. i} |->
                                  IF k = key THEN [vals |-> row.vals,
                                                   created |-> now, updated |-> now]
                                  ELSE s.rows[k]]
             \/ MallocFails /\ a.rc # 0
    BY <1>4, <1>6, ReplayAdd
  <2>3. CASE a.rc # 0
    BY <2>1, <2>2, <2>3 DEF Replayed
  <2>4. CASE a.rc = 0
    <3> DEFINE d == db_set_row_timestamps(a.db, key, row.created, row.updated)
    <3>1. row.created \in Nat /\ row.updated \in Nat
      BY <1>2 DEF Row
    <3>0. Stamped(a.db, d, key, row.created, row.updated)
      BY <2>2, <3>1, StampsKeepTable
    <3> HIDE DEF d
    <3>2. /\ TableOK(d) /\ Shaped(d) /\ d.schema = a.db.schema
          /\ d.rowsCount = a.db.rowsCount /\ d.overflowed = a.db.overflowed
          /\ key \in DOMAIN a.db.rows =>
               d.rows = [k \in DOMAIN a.db.rows |->
                           IF k = key THEN [vals |-> a.db.rows[key].vals,
                                            created |-> row.created, updated |-> row.updated]
                           ELSE a.db.rows[k]]
      BY <3>0 DEF Stamped
    <3>3. o.rc = 0 /\ o.db = d
      <4>1. DOMAIN a = {"rc", "db"}
        BY DEF db_add_row, OnMallocFailure
      <4>. QED BY <2>1, <2>4, <4>1 DEF d
    <3>4. ASSUME ~s.overflowed PROVE d.rows = Loaded(s, order, i)
      <4> DEFINE K == {order[j] : j \in 1 .. i}
      <4>1. a.db.rows = [k \in K |-> IF k = key THEN [vals |-> row.vals,
                                                       created |-> now, updated |-> now]
                                      ELSE s.rows[k]]
        BY <2>2, <2>4, <3>4
      <4>2. key \in K
        BY <1>1
      <4> HIDE DEF K
      <4>3. DOMAIN a.db.rows = K /\ a.db.rows[key].vals = row.vals
        BY <4>1, <4>2
      <4>4. d.rows = [k \in K |->
                        IF k = key THEN [vals |-> row.vals, created |-> row.created,
                                         updated |-> row.updated]
                        ELSE s.rows[k]]
        BY <3>2, <4>1, <4>2, <4>3
      <4>5. [vals |-> row.vals, created |-> row.created, updated |-> row.updated] = row
        <5>1. PICK q \in Row : q = row
          BY <1>2
        <5>2. q = [vals |-> q.vals, created |-> q.created, updated |-> q.updated]
          BY DEF Row
        <5>. QED BY <5>1, <5>2, Zenon
      <4> HIDE DEF row
      <4>6. d.rows = [k \in K |-> IF k = key THEN row ELSE s.rows[k]]
        BY <4>4, <4>5
      <4>. QED BY <4>6 DEF Loaded, K, row
    <3>5. ASSUME ~s.overflowed PROVE ~d.overflowed /\ d.rowsCount = i
      BY <2>2, <2>4, <3>2, <3>5
    <3>. QED BY <2>2, <3>2, <3>3, <3>4, <3>5 DEF Replayed
  <2>. QED BY <2>3, <2>4
<1>. QED BY <1>3, <1>5, <1>6

\* The function that LoadRows defines, up to row len.
IsReplay(after, table, now, len) ==
  after = [i \in 0 .. len |->
             IF i = 0 THEN {[rc |-> 0, db |-> db_create(table.schema)]}
             ELSE LoadRow(after[i - 1], table.rows[i], now)]

\* It exists up to every row.
LEMMA LoadRowsFunction ==
  ASSUME NEW table, NEW now, NEW len \in Nat
  PROVE  \E after : IsReplay(after, table, now, len)
<1> DEFINE base == {[rc |-> 0, db |-> db_create(table.schema)]}
           Step(x, i) == LoadRow(x, table.rows[i], now)
           Has(m) == \E f : f = [i \in 0 .. m |-> IF i = 0 THEN base ELSE Step(f[i - 1], i)]
           T == {m \in Nat : ~Has(m)}
<1> HIDE DEF base, Step
<1>1. Has(0)
  <2> DEFINE f == [i \in 0 .. 0 |-> base]
  <2>1. f = [i \in 0 .. 0 |-> IF i = 0 THEN base ELSE Step(f[i - 1], i)]
    OBVIOUS
  <2>. QED BY <2>1
<1>2. ASSUME NEW m \in Nat, Has(m) PROVE Has(m + 1)
  <2>1. PICK f : f = [i \in 0 .. m |-> IF i = 0 THEN base ELSE Step(f[i - 1], i)]
    BY <1>2
  <2> DEFINE g == [i \in 0 .. m + 1 |-> IF i = m + 1 THEN Step(f[m], m + 1) ELSE f[i]]
  <2>2. \A i \in 0 .. m : f[i] = IF i = 0 THEN base ELSE Step(f[i - 1], i)
    BY <2>1
  <2>3. \A i \in 0 .. m : g[i] = f[i]
    OBVIOUS
  <2>4. g[m + 1] = Step(f[m], m + 1)
    OBVIOUS
  <2>5. g = [i \in 0 .. m + 1 |-> g[i]]
    OBVIOUS
  <2> HIDE DEF g
  <2>6. \A i \in 0 .. m + 1 : g[i] = IF i = 0 THEN base ELSE Step(g[i - 1], i)
    <3>1. ASSUME NEW i \in 0 .. m + 1, i = m + 1
          PROVE  g[i] = IF i = 0 THEN base ELSE Step(g[i - 1], i)
      <4>1. i # 0 /\ i - 1 = m /\ m \in 0 .. m
        BY <3>1
      <4>. QED BY <2>3, <2>4, <3>1, <4>1
    <3>2. ASSUME NEW i \in 0 .. m + 1, i # m + 1
          PROVE  g[i] = IF i = 0 THEN base ELSE Step(g[i - 1], i)
      <4>1. i \in 0 .. m /\ (i # 0 => i - 1 \in 0 .. m)
        BY <3>2
      <4>. QED BY <2>2, <2>3, <4>1
    <3>. QED BY <3>1, <3>2
  <2>. QED BY <2>5, <2>6
<1> HIDE DEF Has
<1>3. T = {}
  <2>1. SUFFICES ASSUME T # {} PROVE FALSE
    OBVIOUS
  <2>2. PICK m \in T : \A y \in T : ~(y < m)
    BY <2>1, LeastElement
  <2>3. m \in Nat /\ m # 0 /\ ~Has(m)
    BY <1>1, <2>2
  <2>4. m - 1 \in Nat /\ m - 1 < m /\ (m - 1) + 1 = m
    BY <2>3
  <2>5. Has(m - 1)
    BY <2>2, <2>4
  <2>6. Has((m - 1) + 1)
    BY <1>2, <2>4, <2>5
  <2>. QED BY <2>3, <2>4, <2>6
<1>4. Has(len)
  BY <1>3
<1>. QED BY <1>4 DEF Has, IsReplay, base, Step

\* The table before its first row.
LEMMA ReplayStart ==
  ASSUME NEW s, Kept(s), NEW order
  PROVE  Replayed(s, order, 0, [rc |-> 0, db |-> db_create(s.schema)])
<1> DEFINE d == db_create(s.schema)
<1>1. TableOK(d) /\ Shaped(d)
  BY CreateKeepsTable, CreateShape DEF Kept
<1>2. d.schema = s.schema /\ d.rowsCount = 0 /\ d.overflowed = FALSE
  BY DEF db_create
<1>3. d.rows = Loaded(s, order, 0)
  <2>1. {order[j] : j \in 1 .. 0} = {}
    OBVIOUS
  <2>. QED BY <2>1 DEF Loaded, db_create
<1>4. PICK o : o = [rc |-> 0, db |-> d]
  OBVIOUS
<1> HIDE DEF d
<1>5. o.rc = 0 /\ o.db = d
  BY <1>4
<1>6. Replayed(s, order, 0, o)
  BY <1>1, <1>2, <1>3, <1>5 DEF Replayed
<1>. QED BY <1>4, <1>6 DEF d

\* The value of LoadRows, from that function.
LEMMA LoadRowsValue ==
  ASSUME NEW table, NEW now, Len(table.rows) \in Nat
  PROVE  \E after : /\ IsReplay(after, table, now, Len(table.rows))
                    /\ LoadRows(table, now) = after[Len(table.rows)]
<1> DEFINE after == CHOOSE f : IsReplay(f, table, now, Len(table.rows))
<1>1. IsReplay(after, table, now, Len(table.rows))
  BY LoadRowsFunction, Zenon
<1>2. LoadRows(table, now) = after[Len(table.rows)]
  BY DEF LoadRows, IsReplay
<1> HIDE DEF after
<1>. QED BY <1>1, <1>2

\* The rows of an image: those of s in the given order.
InOrder(rows, s, order) ==
  rows = [i \in DOMAIN order |-> [key |-> order[i], row |-> s.rows[order[i]]]]

\* The rows of an image, one after the other.
LEMMA ReplayRows ==
  ASSUME NEW s, Kept(s), NEW order \in SetToSeqs(DOMAIN s.rows), NEW now \in Nat,
         NEW table, table.schema = s.schema, InOrder(table.rows, s, order),
         NEW o \in LoadRows(table, now)
  PROVE  Replayed(s, order, Cardinality(DOMAIN s.rows), o)
<1> DEFINE n == Cardinality(DOMAIN s.rows)
           base == {[rc |-> 0, db |-> db_create(table.schema)]}
<1>1. n \in Nat /\ order \in [1 .. n -> DOMAIN s.rows]
  BY OrderFacts DEF Kept
<1>2. Len(table.rows) = n
  BY <1>1 DEF InOrder
<1>7. \A i \in 1 .. n : table.rows[i].key = order[i] /\ table.rows[i].row = s.rows[order[i]]
  BY <1>1 DEF InOrder
<1>0. PICK after : IsReplay(after, table, now, n) /\ LoadRows(table, now) = after[n]
  BY <1>1, <1>2, LoadRowsValue
<1>3. PICK rows : rows = table.rows
  OBVIOUS
<1> DEFINE T == {i \in 0 .. n : ~\A p \in after[i] : Replayed(s, order, i, p)}
<1>5. after[0] = base
  BY <1>0, <1>1 DEF IsReplay
<1>6. \A i \in 1 .. n : after[i] = LoadRow(after[i - 1], rows[i], now)
  <2>1. ASSUME NEW i \in 1 .. n PROVE after[i] = LoadRow(after[i - 1], rows[i], now)
    <3>1. i # 0 /\ i \in 0 .. n
      BY <1>1
    <3>. QED BY <1>0, <1>3, <3>1 DEF IsReplay
  <2>. QED BY <2>1
<1>9. \A i \in 1 .. n : rows[i].key = order[i] /\ rows[i].row = s.rows[order[i]]
  BY <1>3, <1>7
<1>8. T = {}
  <2>1. SUFFICES ASSUME T # {} PROVE FALSE
    OBVIOUS
  <2>2. PICK m \in T : \A y \in T : ~(y < m)
    <3>1. T \in SUBSET Nat
      BY <1>1
    <3>. QED BY <2>1, <3>1, LeastElement
  <2>3. m # 0
    BY <1>5, ReplayStart
  <2>4. m \in 1 .. n /\ m - 1 \in 0 .. n /\ m - 1 < m
    BY <1>1, <2>3
  <2>5. \A p \in after[m - 1] : Replayed(s, order, m - 1, p)
    BY <2>2, <2>4
  <2>6. \A p \in after[m] : Replayed(s, order, m, p)
    <3>1. PICK r : r = rows[m]
      OBVIOUS
    <3>2. r.key = order[m] /\ r.row = s.rows[order[m]] /\ after[m] = LoadRow(after[m - 1], r, now)
      BY <1>6, <1>9, <2>4, <3>1
    <3>. QED BY <2>4, <2>5, <3>2, ReplayRow
  <2>. QED BY <2>6
<1>. QED BY <1>0, <1>1, <1>8

-----------------------------------------------------------------------------
(* The load of a file *)

\* Table t of an image holds the rows of s, in some order, under a count that
\* is right.
WrittenAs(t, s) ==
  /\ t.schema = s.schema
  /\ t.count = Cardinality(DOMAIN s.rows)
  /\ \E order \in SetToSeqs(DOMAIN s.rows) : InOrder(t.rows, s, order)

\* What a load makes of table s: a sound one, and, unless the key counter had
\* overflowed, the rows of s or a failed allocation.
LoadedAs(o, s) ==
  /\ TableOK(o.db) /\ Shaped(o.db)
  /\ ~s.overflowed => \/ o.rc = 0 /\ o.db.schema = s.schema /\ o.db.rows = s.rows
                      \/ MallocFails /\ o.rc # 0

LEMMA LoadTableFaithful ==
  ASSUME NEW s, Kept(s), NEW t, WrittenAs(t, s), NEW now \in Nat, NEW o \in LoadTable(t, now)
  PROVE  LoadedAs(o, s)
<1> DEFINE n == Cardinality(DOMAIN s.rows)
           d == db_create(t.schema)
<1>1. PICK order \in SetToSeqs(DOMAIN s.rows) : InOrder(t.rows, s, order)
  BY DEF WrittenAs
<1>2. /\ n \in Nat /\ order \in [1 .. n -> DOMAIN s.rows]
      /\ {order[i] : i \in 1 .. n} = DOMAIN s.rows
  BY OrderFacts DEF Kept
<1>3. Len(t.rows) = n /\ DOMAIN t.rows = 1 .. n
  BY <1>1, <1>2 DEF InOrder
<1>4. t.schema = s.schema /\ t.schema # <<>> /\ t.count = Len(t.rows)
  BY <1>3 DEF WrittenAs, Kept
<1>5. ASSUME NEW i \in DOMAIN t.rows, NEW f \in DOMAIN t.schema
      PROVE  ~(Len(t.rows[i].row.vals[f]) > MAX_ARRAY_LENGTH)
  <2>1. order[i] \in DOMAIN s.rows /\ t.rows[i].row = s.rows[order[i]]
    BY <1>1, <1>2, <1>3, <1>5 DEF InOrder
  <2>2. Fits(s.schema, s.rows[order[i]].vals)
    BY <2>1 DEF Kept
  <2>3. s.rows[order[i]].vals[f] \in Value /\ Len(s.rows[order[i]].vals[f]) <= MAX_ARRAY_LENGTH
    <3>1. DOMAIN s.rows[order[i]].vals = DOMAIN s.schema
      BY <2>2 DEF Fits, Kept
    <3>. QED BY <1>4, <2>2, <3>1 DEF Fits
  <2>4. PICK l \in Nat : l = Len(s.rows[order[i]].vals[f])
    BY <2>3 DEF Value
  <2>. QED BY <2>1, <2>3, <2>4, LimitsAssumption
<1>6. \/ o \in LoadRows(t, now)
      \/ MallocFails /\ o = [rc |-> -1, db |-> d]
  <2> HIDE DEF d
  <2>. QED BY <1>4, <1>5 DEF LoadTable, OnMallocFailure, d
<1>7. CASE o \in LoadRows(t, now)
  <2>1. Replayed(s, order, n, o)
    BY <1>1, <1>4, <1>7, ReplayRows
  <2>2. Loaded(s, order, n) = s.rows
    <3>1. PICK rows : rows = s.rows /\ rows = [k \in DOMAIN rows |-> rows[k]]
      BY DEF Kept
    <3>2. [k \in {order[i] : i \in 1 .. n} |-> rows[k]] = rows
      BY <1>2, <3>1
    <3>. QED BY <3>1, <3>2 DEF Loaded
  <2>. QED BY <2>1, <2>2 DEF Replayed, LoadedAs
<1>8. CASE MallocFails /\ o = [rc |-> -1, db |-> d]
  <2>1. TableOK(d) /\ Shaped(d)
    BY <1>4, CreateKeepsTable, CreateShape DEF Kept
  <2>. QED BY <1>8, <2>1 DEF LoadedAs
<1>. QED BY <1>6, <1>7, <1>8

-----------------------------------------------------------------------------
(* Files that a save has written *)

\* An image of the contents s, which are within the limits.
ImageOf(image, s) ==
  /\ image.version = SNAPSHOT_VERSION
  /\ image.keys = s.keys /\ s.keys \in Seq(KeyEntry) /\ Len(s.keys) <= AUTH_MAX_KEYS
  /\ DOMAIN image.tables = DOMAIN s.tables
  /\ DOMAIN s.tables \subseteq Names
  /\ IsFiniteSet(DOMAIN s.tables) /\ Cardinality(DOMAIN s.tables) <= MAX_DB_COUNT
  /\ \A n \in DOMAIN s.tables :
       Kept(s.tables[n]) /\ WrittenAs(image.tables[n], s.tables[n])

SnapshotFile(file, s) ==
  /\ DOMAIN file = {"image", "have"}
  /\ ImageOf(file.image, s)
  /\ file.have \in 0 .. 2 + Len(s.keys)

NotOverflowed(s) == \A n \in DOMAIN s.tables : ~s.tables[n].overflowed

\* The tables that a load may leave behind.
TablesWithin(tables) ==
  /\ DOMAIN tables \subseteq Names
  /\ IsFiniteSet(DOMAIN tables) /\ Cardinality(DOMAIN tables) <= MAX_DB_COUNT
  /\ \A n \in DOMAIN tables : TableOK(tables[n]) /\ Shaped(tables[n])

Exact(o, s) == o.rc = 0 /\ o.keys = s.keys /\ SameTables(o.dbs, s.tables)

\* What a load of a file with contents s may come to.
LoadOutcome(o, file, s) ==
  /\ o.rc \in {0, -1}
  /\ \E m \in 0 .. Len(s.keys) : o.keys = SubSeq(s.keys, 1, m)
  /\ TablesWithin(o.dbs)
  /\ NotOverflowed(s) =>
       /\ o.dbs = NoTables \/ SameTables(o.dbs, s.tables)
       /\ Complete(file) => Exact(o, s) \/ (MallocFails /\ o = LoadResult(-1, NoTables, <<>>))

LEMMA NoTablesWithin == TablesWithin(NoTables) /\ DOMAIN NoTables = {}
<1>1. DOMAIN NoTables = {}
  BY DEF NoTables
<1>2. IsFiniteSet({}) /\ Cardinality({}) = 0
  BY FS_EmptySet
<1>. QED BY <1>1, <1>2, LimitsAssumption DEF TablesWithin

LEMMA PrefixFacts ==
  ASSUME NEW K, NEW s \in Seq(K), NEW m \in 0 .. Len(s)
  PROVE  /\ SubSeq(s, 1, m) \in Seq(K) /\ Len(SubSeq(s, 1, m)) = m
         /\ m = 0 => SubSeq(s, 1, m) = <<>>
         /\ m = Len(s) => SubSeq(s, 1, m) = s
<1>1. Len(s) \in Nat /\ m \in Nat /\ m <= Len(s)
  OBVIOUS
<1>2. SubSeq(s, 1, m) \in Seq(K) /\ Len(SubSeq(s, 1, m)) = m
      /\ \A i \in 1 .. m : SubSeq(s, 1, m)[i] = s[i]
  BY <1>1
<1>3. m = 0 => SubSeq(s, 1, m) = <<>>
  BY <1>2
<1>4. ASSUME m = Len(s) PROVE SubSeq(s, 1, m) = s
  <2> DEFINE t == SubSeq(s, 1, m)
  <2> HIDE DEF t
  <2>1. t \in Seq(K) /\ Len(t) = Len(s) /\ \A i \in 1 .. Len(t) : t[i] = s[i]
    BY <1>2, <1>4 DEF t
  <2>2. t = s
    BY <2>1, SeqEqual
  <2>. QED BY <2>2 DEF t
<1>. QED BY <1>2, <1>3, <1>4

\* A load that fails keeps no table.
LEMMA FailedLoad ==
  ASSUME NEW file, NEW s, SnapshotFile(file, s), NEW o,
         o.rc = -1, o.dbs = NoTables,
         \E m \in 0 .. Len(s.keys) : o.keys = SubSeq(s.keys, 1, m),
         NotOverflowed(s) /\ Complete(file) => MallocFails /\ o = LoadResult(-1, NoTables, <<>>)
  PROVE  LoadOutcome(o, file, s)
BY NoTablesWithin DEF LoadOutcome

\* The tables of a file, each replayed by itself.
LEMMA LoadTablesFacts ==
  ASSUME NEW image, NEW s, ImageOf(image, s), NEW now \in Nat,
         NEW d \in LoadTables(image.tables, now)
  PROVE  /\ DOMAIN d = DOMAIN s.tables
         /\ \A n \in DOMAIN d : LoadedAs(d[n], s.tables[n])
<1>1. DOMAIN d = DOMAIN s.tables /\ \A n \in DOMAIN d : d[n] \in LoadTable(image.tables[n], now)
  BY DEF LoadTables, ImageOf
<1>2. ASSUME NEW n \in DOMAIN d PROVE LoadedAs(d[n], s.tables[n])
  BY <1>1, LoadTableFaithful DEF ImageOf
<1>. QED BY <1>1, <1>2

LEMMA LoadFacts ==
  ASSUME NEW file, NEW s, SnapshotFile(file, s), NEW now \in Nat,
         NEW o \in persistence_load_all(file, now)
  PROVE  LoadOutcome(o, file, s)
<1> DEFINE len == Len(s.keys)
<1>0. ImageOf(file.image, s) /\ file.have \in 0 .. 2 + len /\ file # NoFile
  BY DEF SnapshotFile, NoFile
<1>1. /\ file.image.version = SNAPSHOT_VERSION /\ file.image.keys = s.keys
      /\ s.keys \in Seq(KeyEntry) /\ len \in Nat /\ len <= AUTH_MAX_KEYS
      /\ ~(Cardinality(DOMAIN file.image.tables) > MAX_DB_COUNT)
      /\ ~(Len(file.image.keys) > AUTH_MAX_KEYS)
  <2>1. Cardinality(DOMAIN s.tables) \in Nat
    BY <1>0, FS_CardinalityType DEF ImageOf
  <2>. QED BY <1>0, <2>1, LimitsAssumption, KeysAssumption DEF ImageOf
<1>2. Complete(file) <=> file.have = 2 + len
  BY <1>1 DEF Complete
<1>3. \E m \in 0 .. len : <<>> = SubSeq(s.keys, 1, m)
  <2>1. 0 \in 0 .. len
    BY <1>1
  <2>. QED BY <1>1, <2>1, PrefixFacts
<1>4. CASE file.have \in {0, 1}
  <2>1. o = LoadResult(-1, NoTables, <<>>)
    BY <1>0, <1>1, <1>4 DEF persistence_load_all
  <2>2. o.rc = -1 /\ o.dbs = NoTables /\ o.keys = <<>>
    BY <2>1 DEF LoadResult
  <2>3. ~Complete(file)
    BY <1>1, <1>2, <1>4
  <2>. QED BY <1>3, <2>2, <2>3, FailedLoad
<1>5. CASE ~(file.have \in {0, 1})
  <2>1. PICK d \in LoadTables(file.image.tables, now) :
          o = IF \E n \in DOMAIN d : d[n].rc # 0 THEN LoadResult(-1, NoTables, <<>>)
              ELSE IF Complete(file)
                THEN LoadResult(0, [n \in DOMAIN d |-> d[n].db], file.image.keys)
                ELSE LoadResult(-1, NoTables, SubSeq(file.image.keys, 1, file.have - 2))
    BY <1>0, <1>1, <1>5 DEF persistence_load_all
  <2>2. DOMAIN d = DOMAIN s.tables /\ \A n \in DOMAIN d : LoadedAs(d[n], s.tables[n])
    BY <1>0, LoadTablesFacts
  <2>3. CASE \E n \in DOMAIN d : d[n].rc # 0
    <3>1. o = LoadResult(-1, NoTables, <<>>)
      BY <2>1, <2>3
    <3>2. o.rc = -1 /\ o.dbs = NoTables /\ o.keys = <<>>
      BY <3>1 DEF LoadResult
    <3>3. NotOverflowed(s) => MallocFails
      BY <2>2, <2>3 DEF NotOverflowed, LoadedAs
    <3>. QED BY <1>3, <3>1, <3>2, <3>3, FailedLoad
  <2>4. CASE ~(\E n \in DOMAIN d : d[n].rc # 0) /\ ~Complete(file)
    <3>1. o = LoadResult(-1, NoTables, SubSeq(s.keys, 1, file.have - 2))
      BY <1>1, <2>1, <2>4
    <3>2. o.rc = -1 /\ o.dbs = NoTables /\ o.keys = SubSeq(s.keys, 1, file.have - 2)
      BY <3>1 DEF LoadResult
    <3>3. file.have - 2 \in 0 .. len
      BY <1>0, <1>1, <1>5
    <3>. QED BY <2>4, <3>2, <3>3, FailedLoad
  <2>5. CASE ~(\E n \in DOMAIN d : d[n].rc # 0) /\ Complete(file)
    <3> DEFINE tables == [n \in DOMAIN d |-> d[n].db]
    <3>1. o = LoadResult(0, tables, s.keys)
      BY <1>1, <2>1, <2>5
    <3>2. o.rc = 0 /\ o.dbs = tables /\ o.keys = s.keys
      BY <3>1 DEF LoadResult
    <3>3. DOMAIN tables = DOMAIN s.tables /\ \A n \in DOMAIN tables : tables[n] = d[n].db
      BY <2>2
    <3> HIDE DEF tables
    <3>4. TablesWithin(tables)
      BY <1>0, <2>2, <3>3 DEF ImageOf, TablesWithin, LoadedAs
    <3>5. NotOverflowed(s) => SameTables(tables, s.tables)
      BY <2>2, <2>5, <3>3 DEF NotOverflowed, LoadedAs, SameTables
    <3>6. \E m \in 0 .. len : s.keys = SubSeq(s.keys, 1, m)
      <4>1. len \in 0 .. len
        BY <1>1
      <4>. QED BY <1>1, <4>1, PrefixFacts
    <3>. QED BY <3>2, <3>4, <3>5, <3>6 DEF LoadOutcome, Exact
  <2>. QED BY <2>3, <2>4, <2>5
<1>. QED BY <1>4, <1>5
-----------------------------------------------------------------------------
(* What a save writes *)

\* What a snapshot keeps of a sound table can be replayed.
LEMMA TableKept ==
  ASSUME NEW db, TableOK(db), Shaped(db), NEW s, s.schema = db.schema, s.rows = db.rows,
         s.overflowed = db.overflowed
  PROVE  Kept(s)
<1>1. /\ db.schema \in Seq(FieldTypes) /\ db.schema # <<>> /\ Len(db.schema) <= MAX_FIELDS_PER_DB
      /\ DOMAIN db.rows \subseteq CInt /\ db.nextKey \in CInt
      /\ db.rows = [k \in DOMAIN db.rows |-> db.rows[k]]
  BY DEF TableOK, IsDB, Shaped
<1>2. IsFiniteSet(DOMAIN db.rows) /\ Cardinality(DOMAIN db.rows) <= MAX_ROW_CAPACITY
  BY DEF TableOK, CountOK, Shaped
<1>3. \A k \in DOMAIN db.rows : db.rows[k] \in Row /\ Fits(db.schema, db.rows[k].vals)
  BY RowsFit
<1>4. ~db.overflowed => \A k \in DOMAIN db.rows : 0 <= k /\ k < IntMax
  BY <1>1, LimitsAssumption DEF TableOK, NextKeyOK, CInt, IntMin
<1>. QED BY <1>1, <1>2, <1>3, <1>4 DEF Kept

\* An image of the storage is an image of its contents, in any row order.
LEMMA ImageFacts ==
  ASSUME NEW tables, TablesWithin(tables), NEW ks \in Seq(KeyEntry),
         Len(ks) <= AUTH_MAX_KEYS, NEW image \in Images(tables, ks)
  PROVE  ImageOf(image, Contents(tables, ks))
<1> DEFINE s == Contents(tables, ks)
<1>1. /\ s.keys = ks /\ DOMAIN s.tables = DOMAIN tables
      /\ \A n \in DOMAIN tables : /\ s.tables[n].schema = tables[n].schema
                                  /\ s.tables[n].rows = tables[n].rows
                                  /\ s.tables[n].overflowed = tables[n].overflowed
  BY DEF Contents
<1>2. /\ image.version = SNAPSHOT_VERSION /\ image.keys = ks
      /\ DOMAIN image.tables = DOMAIN tables
      /\ \A n \in DOMAIN tables : image.tables[n] \in write_db_callback(tables[n])
  BY DEF Images
<1> HIDE DEF s
<1>3. ASSUME NEW n \in DOMAIN tables
      PROVE  Kept(s.tables[n]) /\ WrittenAs(image.tables[n], s.tables[n])
  <2>1. PICK db : db = tables[n] /\ TableOK(db) /\ Shaped(db)
    BY DEF TablesWithin
  <2>2. PICK e : /\ e = s.tables[n] /\ e.schema = db.schema /\ e.rows = db.rows
                 /\ e.overflowed = db.overflowed
    BY <1>1, <2>1
  <2>3. PICK t : t = image.tables[n] /\ t \in write_db_callback(db)
    BY <1>2, <2>1
  <2>4. PICK order \in SetToSeqs(DOMAIN db.rows) :
          t = [schema |-> db.schema, count |-> db.rowsCount,
               rows |-> [i \in DOMAIN order |-> [key |-> order[i], row |-> db.rows[order[i]]]]]
    BY <2>3 DEF write_db_callback
  <2>5. t.schema = e.schema /\ t.count = db.rowsCount /\ InOrder(t.rows, e, order)
    BY <2>2, <2>4 DEF InOrder
  <2>6. db.rowsCount = Cardinality(DOMAIN e.rows)
    BY <2>1, <2>2 DEF TableOK, CountOK
  <2>7. WrittenAs(t, e)
    BY <2>2, <2>5, <2>6 DEF WrittenAs
  <2>8. Kept(e)
    BY <2>1, <2>2, TableKept
  <2>. QED BY <2>2, <2>3, <2>7, <2>8
<1>. QED BY <1>1, <1>2, <1>3 DEF ImageOf, TablesWithin, s

-----------------------------------------------------------------------------
(* What a command leaves in memory *)

LEMMA StoreWithin ==
  ASSUME IInv, IInv', TablesWithin(dbs), NEW op, NEW n, find_db(n), NEW req, NEW o, NEW code,
         Shaped(o.db), Store(op, n, req, o, code)
  PROVE  TablesWithin(dbs')
<1>1. /\ DOMAIN dbs' = DOMAIN dbs /\ dbs'[n] = o.db
      /\ \A m \in DOMAIN dbs : m # n => dbs'[m] = dbs[m]
  BY DEF Store, find_db
<1>2. \A m \in DOMAIN dbs' : TableOK(dbs'[m])
  BY DEF IInv
<1>. QED BY <1>1, <1>2 DEF TablesWithin

\* CREATE and DEL_TABLE.
LEMMA TableWithin ==
  ASSUME IInv', TablesWithin(dbs), NEW n \in Names,
         (\E schema \in Schemas : execute_create(n, schema)) \/ execute_del_table(n)
  PROVE  TablesWithin(dbs')
<1>1. \A m \in DOMAIN dbs' : TableOK(dbs'[m])
  BY DEF IInv
<1>2. ASSUME dbs' = dbs PROVE TablesWithin(dbs')
  BY <1>2
<1>3. ASSUME NEW schema \in Schemas, n \notin DOMAIN dbs, Cardinality(DOMAIN dbs) < MAX_DB_COUNT,
             add_db(n, db_create(schema))
      PROVE  TablesWithin(dbs')
  <2>1. /\ DOMAIN dbs' = DOMAIN dbs \cup {n} /\ dbs'[n] = db_create(schema)
        /\ \A m \in DOMAIN dbs : dbs'[m] = dbs[m]
    BY <1>3 DEF add_db
  <2>2. Shaped(db_create(schema))
    BY InputsAssumption, CreateShape
  <2>3. IsFiniteSet(DOMAIN dbs) /\ Cardinality(DOMAIN dbs) \in Nat
    BY FS_CardinalityType DEF TablesWithin
  <2>4. IsFiniteSet(DOMAIN dbs \cup {n})
        /\ Cardinality(DOMAIN dbs \cup {n}) = Cardinality(DOMAIN dbs) + 1
    BY <1>3, <2>3, FS_AddElement
  <2>5. Cardinality(DOMAIN dbs') <= MAX_DB_COUNT
    BY <1>3, <2>1, <2>3, <2>4, LimitsAssumption
  <2>. QED BY <1>1, <2>1, <2>2, <2>4, <2>5 DEF TablesWithin
<1>4. ASSUME dbs' = [m \in DOMAIN dbs \ {n} |-> dbs[m]]
      PROVE  TablesWithin(dbs')
  <2>1. /\ DOMAIN dbs' \subseteq DOMAIN dbs
        /\ \A m \in DOMAIN dbs' : dbs'[m] = dbs[m]
    BY <1>4
  <2>2. /\ IsFiniteSet(DOMAIN dbs) /\ Cardinality(DOMAIN dbs) \in Nat
        /\ Cardinality(DOMAIN dbs) <= MAX_DB_COUNT
    BY FS_CardinalityType DEF TablesWithin
  <2>3. /\ IsFiniteSet(DOMAIN dbs') /\ Cardinality(DOMAIN dbs') \in Nat
        /\ Cardinality(DOMAIN dbs') <= Cardinality(DOMAIN dbs)
    BY <2>1, <2>2, FS_Subset, FS_CardinalityType
  <2>4. Cardinality(DOMAIN dbs') <= MAX_DB_COUNT
    BY <2>2, <2>3, LimitsAssumption
  <2>. QED BY <1>1, <2>1, <2>3, <2>4 DEF TablesWithin
<1>. QED BY <1>2, <1>3, <1>4 DEF execute_create, execute_del_table, DbNotFound, Refuse, find_db

\* Every command leaves the tables within their limits.
LEMMA CommandWithin ==
  ASSUME IInv, TablesWithin(dbs), execute_command
  PROVE  IInv' /\ TablesWithin(dbs')
<1>0. IInv'
  BY StepKeeps DEF Next
<1>1. ASSUME dbs' = dbs PROVE TablesWithin(dbs')
  BY <1>1
<1>2. ASSUME NEW n PROVE find_db(n) => TableOK(dbs[n]) /\ Shaped(dbs[n])
  BY DEF find_db, TablesWithin
<1>3. -1 \in CInt /\ 0 \in CInt /\ KeyArgs \subseteq CInt
  BY LimitsAssumption, InputsAssumption DEF CInt, IntMin
<1>4. ASSUME NEW n, NEW auto \in BOOLEAN, NEW key \in CInt, NEW lits, execute_add(n, auto, key, lits)
      PROVE  TablesWithin(dbs')
  <2> DEFINE req == [key |-> key, auto |-> auto]
             arg == IF auto THEN -1 ELSE key
             vals == [i \in DOMAIN lits |-> Elements(lits[i])]
  <2>1. ASSUME find_db(n), NEW o \in db_add_row(dbs[n], arg, vals, clock), NEW code,
               Store("ADD", n, req, o, code)
        PROVE  TablesWithin(dbs')
    <3>1. arg \in CInt
      BY <1>3, <1>4
    <3> HIDE DEF req, arg, vals
    <3>2. Shaped(o.db)
      BY <1>2, <2>1, <3>1, AddRowShape
    <3>. QED BY <1>0, <2>1, <3>2, StoreWithin
  <2> HIDE DEF arg, vals
  <2>. QED BY <1>1, <1>4, <2>1 DEF execute_add, DbNotFound, Refuse, arg, vals
<1>5. ASSUME NEW n, NEW key, NEW lits, execute_up(n, key, lits)
      PROVE  TablesWithin(dbs')
  <2> DEFINE req == [key |-> key, lits |-> lits]
  <2>1. ASSUME find_db(n), NEW o \in db_update_row(dbs[n], key, lits, clock),
               Store("UP", n, req, o, key)
        PROVE  TablesWithin(dbs')
    <3> HIDE DEF req
    <3>1. Shaped(o.db)
      BY <1>2, <2>1, UpdateRowShape
    <3>. QED BY <1>0, <2>1, <3>1, StoreWithin
  <2>. QED BY <1>1, <1>5, <2>1 DEF execute_up, DbNotFound, Refuse
<1>6. ASSUME NEW n, NEW key, execute_del(n, key) PROVE TablesWithin(dbs')
  <2>1. ASSUME find_db(n), NEW o \in db_delete_row(dbs[n], key), NEW req,
               Store("DEL", n, req, o, key)
        PROVE  TablesWithin(dbs')
    <3>1. Shaped(o.db)
      BY <1>2, <2>1, DeleteRowShape
    <3>. QED BY <1>0, <2>1, <3>1, StoreWithin
  <2>. QED BY <1>1, <1>6, <2>1 DEF execute_del, DbNotFound, Refuse
<1>7. ASSUME NEW n, NEW f, execute_create_index(n, f) PROVE TablesWithin(dbs')
  <2>1. ASSUME find_db(n), NEW o \in db_create_index(dbs[n], f), NEW req,
               Store("CREATE_INDEX", n, req, o, f)
        PROVE  TablesWithin(dbs')
    <3>1. Shaped(o.db)
      BY <1>2, <2>1, CreateIndexShape
    <3>. QED BY <1>0, <2>1, <3>1, StoreWithin
  <2>. QED BY <1>1, <1>7, <2>1 DEF execute_create_index, DbNotFound, Refuse
<1>8. ASSUME NEW n, NEW key, NEW fields, NEW f, NEW s,
             \/ execute_count(n) \/ execute_get(n, key, fields) \/ execute_get_all(n, fields)
             \/ execute_search(n, f, s, fields)
      PROVE  TablesWithin(dbs')
  BY <1>1, <1>8 DEF execute_count, execute_get, execute_get_all, execute_search, DbNotFound,
                    OutOfMemory, Refuse
<1>. QED BY <1>0, <1>3, <1>4, <1>5, <1>6, <1>7, <1>8, TableWithin DEF execute_command

-----------------------------------------------------------------------------
(* The inductive invariant *)

\* A file that another version of the program has left.
OlderFile(file) ==
  /\ DOMAIN file = {"image", "have"} /\ file.have \in Nat
  /\ file.image.version # SNAPSHOT_VERSION

\* A process that is down has answered nothing: the tables that its successor
\* loads meet no reply about other tables.
MemoryInv ==
  /\ IInv /\ TablesWithin(dbs)
  /\ keys \in Seq(KeyEntry) /\ Len(keys) <= AUTH_MAX_KEYS
  /\ proc = "down" => reply = NoReply

ProcInv ==
  /\ proc \in {"down", "opening", "serving", "stalled", "saving"}
  /\ save = NoSave <=> proc # "saving"
  /\ proc = "saving" => /\ DOMAIN save = {"caller", "step"}
                        /\ save.caller \in {"bootstrap", "autosave", "exit"}
                        /\ save.step \in {"open", "write", "rename"}
  /\ elapsed \in BOOLEAN /\ stopping \in BOOLEAN /\ loaded \in {0, -1}

\* path is the first file until a save succeeds, and then an image of what the
\* last successful save wrote.
FileInv ==
  /\ media \in {"cached", "synced", "torn"}
  /\ \/ path = NoFile /\ saved.keys = <<>> /\ DOMAIN saved.tables = {}
     \/ OlderFile(path) /\ saved.keys \in Seq(KeyEntry)
     \/ SnapshotFile(path, saved) /\ (media # "torn" => Complete(path))
  /\ media = "cached" => SnapshotFile(path, saved)

\* No command runs between the steps of a save: the temporary file is an image
\* of the memory as it is, and complete before it is renamed.
TmpInv ==
  proc = "saving" /\ save.step # "open" =>
    /\ SnapshotFile(tmp, Contents(dbs, keys))
    /\ save.step = "rename" => Complete(tmp)

ServerInv == MemoryInv /\ ProcInv /\ FileInv /\ TmpInv

-----------------------------------------------------------------------------
(* The pieces of a step *)

\* The auth store stays within its limit.
LEMMA AddKeyFacts ==
  ASSUME NEW ks \in Seq(KeyEntry), Len(ks) <= AUTH_MAX_KEYS, NEW name \in KeyNames,
         NEW role \in {"admin", "readonly"}, NEW a \in AddKey(ks, name, role)
  PROVE  a.keys \in Seq(KeyEntry) /\ Len(a.keys) <= AUTH_MAX_KEYS /\ a.rc \in {0, -1}
<1> DEFINE key == [name |-> name, role |-> role]
<1>1. key \in KeyEntry
  BY DEF KeyEntry
<1>2. \/ a = [rc |-> -1, keys |-> ks]
      \/ ~(Len(ks) >= AUTH_MAX_KEYS) /\ a = [rc |-> 0, keys |-> Append(ks, key)]
  BY DEF AddKey, auth_add_key
<1> HIDE DEF key
<1>3. Append(ks, key) \in Seq(KeyEntry) /\ Len(Append(ks, key)) = Len(ks) + 1 /\ Len(ks) \in Nat
  BY <1>1
<1>. QED BY <1>2, <1>3, KeysAssumption

LEMMA DelKeyFacts ==
  ASSUME NEW ks \in Seq(KeyEntry), Len(ks) <= AUTH_MAX_KEYS, NEW name
  PROVE  LET a == auth_del_key(ks, name)
         IN  a.keys \in Seq(KeyEntry) /\ Len(a.keys) <= AUTH_MAX_KEYS /\ a.rc \in {0, -1}
<1>1. CASE ~HasKey(ks, name)
  BY <1>1 DEF auth_del_key
<1>2. CASE HasKey(ks, name)
  <2> DEFINE i == CHOOSE j \in DOMAIN ks : ks[j].name = name
             b == SubSeq(ks, 1, i - 1)
             e == SubSeq(ks, i + 1, Len(ks))
  <2>1. i \in 1 .. Len(ks) /\ Len(ks) \in Nat
    BY <1>2 DEF HasKey
  <2>2. auth_del_key(ks, name) = [rc |-> 0, keys |-> b \o e]
    BY <1>2 DEF auth_del_key
  <2> HIDE DEF i
  <2>3. b \in Seq(KeyEntry) /\ Len(b) = i - 1 /\ e \in Seq(KeyEntry) /\ Len(e) = Len(ks) - i
    BY <2>1
  <2> HIDE DEF b, e
  <2>4. b \o e \in Seq(KeyEntry) /\ Len(b \o e) = Len(b) + Len(e)
    BY <2>3, ConcatProperties
  <2>5. Len(b \o e) <= AUTH_MAX_KEYS
    BY <2>1, <2>3, <2>4, KeysAssumption
  <2>. QED BY <2>2, <2>4, <2>5
<1>. QED BY <1>1, <1>2

\* Tables that no reply is about.
LEMMA QuietMemory ==
  ASSUME TablesWithin(dbs'), reply' = NoReply, clock' \in Nat PROVE IInv'
<1>1. TypeOK'
  BY DEF TypeOK, NoReply, TablesWithin, TableOK
<1>. QED BY <1>1 DEF IInv, TablesWithin, AutoKeyAccepted, SearchShowsMatches, NoReply

LEMMA MemoryKept ==
  ASSUME MemoryInv, UNCHANGED <<vars, keys>>, proc' = proc \/ proc' # "down"
  PROVE  MemoryInv'
<1>1. IInv'
  BY StepKeeps DEF MemoryInv
<1>. QED BY <1>1 DEF MemoryInv, vars

LEMMA FilesKept ==
  ASSUME FileInv, UNCHANGED <<path, media, saved>> PROVE FileInv'
BY DEF FileInv

\* A step outside a save leaves nothing to ask of the temporary file.
LEMMA NoTmp ==
  ASSUME proc' # "saving" \/ save'.step = "open" PROVE TmpInv'
BY DEF TmpInv

LEMMA StoppedKeeps ==
  ASSUME ServerInv, Stopped PROVE MemoryInv' /\ ProcInv' /\ TmpInv'
<1>1. /\ proc' = "down" /\ save' = NoSave /\ dbs' = NoTables /\ keys' = <<>>
      /\ reply' = NoReply /\ elapsed' = FALSE /\ stopping' = FALSE
      /\ clock' = clock /\ loaded' = loaded
  BY DEF Stopped
<1>2. IInv'
  BY <1>1, NoTablesWithin, QuietMemory DEF ServerInv, MemoryInv, IInv, TypeOK
<1>3. <<>> \in Seq(KeyEntry) /\ Len(<<>>) <= AUTH_MAX_KEYS
  BY KeysAssumption
<1>4. MemoryInv'
  BY <1>1, <1>2, <1>3, NoTablesWithin DEF MemoryInv
<1>5. ProcInv'
  BY <1>1 DEF ServerInv, ProcInv
<1>. QED BY <1>1, <1>4, <1>5, NoTmp

LEMMA BeginKeeps ==
  ASSUME ServerInv, NEW caller \in {"bootstrap", "autosave", "exit"}, BeginSave(caller),
         elapsed' \in BOOLEAN, stopping' \in BOOLEAN, loaded' \in {0, -1}
  PROVE  ProcInv' /\ TmpInv'
<1>1. /\ proc' = "saving" /\ save' = [caller |-> caller, step |-> "open"]
      /\ save' # NoSave
  BY DEF BeginSave, NoSave
<1>. QED BY <1>1, NoTmp DEF ProcInv

LEMMA FinishKeeps ==
  ASSUME ServerInv, proc = "saving", Finish PROVE MemoryInv' /\ ProcInv' /\ TmpInv'
<1>1. CASE Stopped
  BY <1>1, StoppedKeeps
<1>2. CASE /\ proc' = IF save.caller = "bootstrap" THEN "opening" ELSE "serving"
           /\ save' = NoSave
           /\ UNCHANGED <<vars, keys, elapsed, stopping, loaded>>
  <2>1. proc' \in {"opening", "serving"}
    BY <1>2
  <2>2. MemoryInv'
    BY <1>2, <2>1, MemoryKept DEF ServerInv
  <2>3. ProcInv'
    BY <1>2, <2>1 DEF ServerInv, ProcInv
  <2>. QED BY <2>1, <2>2, <2>3, NoTmp
<1>. QED BY <1>1, <1>2 DEF Finish

\* A file of which another part can be read.
LEMMA CutFile ==
  ASSUME NEW file, NEW s, SnapshotFile(file, s), NEW have \in 0 .. 2 + Len(s.keys)
  PROVE  SnapshotFile([file EXCEPT !.have = have], s)
BY DEF SnapshotFile

\* What a start may find in the snapshot file.
LEMMA StartOutcome ==
  ASSUME FileInv, NEW now \in Nat, NEW file \in Readable(path),
         NEW o \in persistence_load_all(file, now)
  PROVE  /\ o.rc \in {0, -1} /\ TablesWithin(o.dbs)
         /\ o.keys \in Seq(KeyEntry) /\ Len(o.keys) <= AUTH_MAX_KEYS
<1>1. ASSUME o \in {LoadResult(0, NoTables, <<>>), LoadResult(-1, NoTables, <<>>)}
      PROVE  /\ o.rc \in {0, -1} /\ TablesWithin(o.dbs)
             /\ o.keys \in Seq(KeyEntry) /\ Len(o.keys) <= AUTH_MAX_KEYS
  <2>1. o.rc \in {0, -1} /\ o.dbs = NoTables /\ o.keys = <<>>
    BY <1>1 DEF LoadResult
  <2>. QED BY <2>1, NoTablesWithin, KeysAssumption
<1>2. \/ file = path
      \/ \E have \in 0 .. path.have - 1 : file = [path EXCEPT !.have = have]
  BY DEF Readable
<1>3. CASE path = NoFile
  <2>1. file = NoFile
    BY <1>2, <1>3 DEF NoFile
  <2>. QED BY <1>1, <2>1 DEF persistence_load_all
<1>4. CASE OlderFile(path)
  <2>1. file.image.version # SNAPSHOT_VERSION /\ file # NoFile
    BY <1>2, <1>4 DEF OlderFile, NoFile
  <2>. QED BY <1>1, <2>1 DEF persistence_load_all
<1>5. CASE SnapshotFile(path, saved)
  <2>1. saved.keys \in Seq(KeyEntry) /\ Len(saved.keys) \in Nat /\ Len(saved.keys) <= AUTH_MAX_KEYS
        /\ path.have \in 0 .. 2 + Len(saved.keys)
    BY <1>5 DEF SnapshotFile, ImageOf
  <2>2. SnapshotFile(file, saved)
    <3>1. \A have \in 0 .. path.have - 1 : have \in 0 .. 2 + Len(saved.keys)
      BY <2>1
    <3>. QED BY <1>2, <1>5, <3>1, CutFile
  <2>3. LoadOutcome(o, file, saved)
    BY <2>2, LoadFacts
  <2>4. PICK m \in 0 .. Len(saved.keys) : o.keys = SubSeq(saved.keys, 1, m)
    BY <2>3 DEF LoadOutcome
  <2>5. o.keys \in Seq(KeyEntry) /\ Len(o.keys) = m
    BY <2>1, <2>4, PrefixFacts
  <2>6. Len(o.keys) <= AUTH_MAX_KEYS
    BY <2>1, <2>4, <2>5, KeysAssumption
  <2>. QED BY <2>3, <2>5, <2>6 DEF LoadOutcome
<1>. QED BY <1>3, <1>4, <1>5 DEF FileInv

-----------------------------------------------------------------------------
(* The steps *)

LEMMA ServerInitHolds == ASSUME ServerInit PROVE ServerInv
<1>1. /\ Init /\ keys = <<>> /\ proc = "down" /\ save = NoSave /\ media = "synced"
      /\ path \in FirstFiles /\ saved = FileContents(path)
      /\ elapsed = FALSE /\ stopping = FALSE /\ loaded = 0
  BY DEF ServerInit
<1>2. MemoryInv
  <2>1. IInv
    BY <1>1, InitEstablishes
  <2>2. dbs = NoTables /\ reply = NoReply
    BY <1>1 DEF Init, NoTables
  <2>3. <<>> \in Seq(KeyEntry) /\ Len(<<>>) <= AUTH_MAX_KEYS
    BY KeysAssumption
  <2>. QED BY <1>1, <2>1, <2>2, <2>3, NoTablesWithin DEF MemoryInv
<1>3. ProcInv
  BY <1>1 DEF ProcInv
<1>4. FileInv
  <2>1. CASE path = NoFile
    <3>1. saved = Contents(NoTables, <<>>)
      BY <1>1, <2>1 DEF FileContents
    <3>2. saved.keys = <<>> /\ DOMAIN saved.tables = {}
      BY <3>1, NoTablesWithin DEF Contents
    <3>. QED BY <1>1, <2>1, <3>2 DEF FileInv
  <2>2. CASE path # NoFile
    <3>1. OlderFile(path) /\ path.image.keys \in Seq(KeyEntry)
      BY <1>1, <2>2, FirstFilesAssumption DEF OlderFile
    <3>2. saved.keys = path.image.keys
      BY <1>1, <2>2 DEF FileContents, Contents
    <3>. QED BY <1>1, <3>1, <3>2 DEF FileInv
  <2>. QED BY <2>1, <2>2
<1>5. TmpInv
  BY <1>1 DEF TmpInv
<1>. QED BY <1>2, <1>3, <1>4, <1>5 DEF ServerInv

LEMMA StartKeeps == ASSUME ServerInv, Start PROVE ServerInv'
<1>1. PICK file \in Readable(path) : \E o \in persistence_load_all(file, clock) :
       /\ dbs' = o.dbs
       /\ loaded' = o.rc
       /\ \/ /\ o.keys # <<>>
             /\ keys' = o.keys
             /\ proc' = "opening"
             /\ UNCHANGED save
          \/ /\ o.keys = <<>>
             /\ \E a \in AddKey(<<>>, AdminName, "admin") :
                  /\ keys' = a.keys
                  /\ \/ a.rc = 0 /\ BeginSave("bootstrap")
                     \/ a.rc # 0 /\ proc' = "opening" /\ UNCHANGED save
  BY DEF Start
<1>2. PICK o \in persistence_load_all(file, clock) :
       /\ dbs' = o.dbs
       /\ loaded' = o.rc
       /\ \/ /\ keys' = o.keys
             /\ proc' = "opening"
             /\ UNCHANGED save
          \/ /\ \E a \in AddKey(<<>>, AdminName, "admin") :
                  /\ keys' = a.keys
                  /\ \/ BeginSave("bootstrap")
                     \/ proc' = "opening" /\ UNCHANGED save
  BY <1>1
<1>3. /\ proc = "down" /\ reply' = reply /\ clock' = clock /\ elapsed' = elapsed
      /\ stopping' = stopping /\ UNCHANGED <<path, media, saved>>
  BY DEF Start, files
<1>4. clock \in Nat /\ reply = NoReply /\ save = NoSave
  BY <1>3 DEF ServerInv, MemoryInv, ProcInv, IInv, TypeOK
<1>5. /\ o.rc \in {0, -1} /\ TablesWithin(o.dbs)
      /\ o.keys \in Seq(KeyEntry) /\ Len(o.keys) <= AUTH_MAX_KEYS
  BY <1>4, StartOutcome DEF ServerInv
<1>6. IInv' /\ TablesWithin(dbs')
  BY <1>2, <1>3, <1>4, <1>5, QuietMemory
<1>7. keys' \in Seq(KeyEntry) /\ Len(keys') <= AUTH_MAX_KEYS
  <2>1. <<>> \in Seq(KeyEntry) /\ Len(<<>>) <= AUTH_MAX_KEYS /\ AdminName \in KeyNames
    BY KeysAssumption, ServerAssumption
  <2>2. \A a \in AddKey(<<>>, AdminName, "admin") :
          a.keys \in Seq(KeyEntry) /\ Len(a.keys) <= AUTH_MAX_KEYS
    BY <2>1, AddKeyFacts
  <2>. QED BY <1>2, <1>5, <2>2
<1>8. \/ BeginSave("bootstrap")
      \/ proc' = "opening" /\ save' = save
  BY <1>2
<1>9. MemoryInv'
  <2>1. proc' # "down"
    BY <1>8 DEF BeginSave
  <2>. QED BY <1>6, <1>7, <2>1 DEF MemoryInv
<1>10. elapsed' \in BOOLEAN /\ stopping' \in BOOLEAN /\ loaded' \in {0, -1}
  BY <1>2, <1>3, <1>5 DEF ServerInv, ProcInv
<1>11. ProcInv' /\ TmpInv'
  <2>1. CASE BeginSave("bootstrap")
    BY <1>10, <2>1, BeginKeeps
  <2>2. CASE proc' = "opening" /\ save' = save
    BY <1>4, <1>10, <2>2, NoTmp DEF ProcInv
  <2>. QED BY <1>8, <2>1, <2>2
<1>12. FileInv'
  BY <1>3, FilesKept DEF ServerInv
<1>. QED BY <1>9, <1>11, <1>12 DEF ServerInv

\* Commands on tables and on keys.
LEMMA ServeKeeps ==
  ASSUME ServerInv, Serve \/ ServeKeys \/ (Tick /\ UNCHANGED serverVars) PROVE ServerInv'
<1>1. ASSUME UNCHANGED <<proc, save, elapsed, stopping, loaded, path, media, saved>>,
             proc = "serving", MemoryInv'
      PROVE  ServerInv'
  <2>1. ProcInv'
    BY <1>1 DEF ServerInv, ProcInv
  <2>2. FileInv'
    BY <1>1, FilesKept DEF ServerInv
  <2>. QED BY <1>1, <2>1, <2>2, NoTmp DEF ServerInv
<1>2. CASE Serve
  <2>1. IInv' /\ TablesWithin(dbs')
    BY <1>2, CommandWithin DEF Serve, ServerInv, MemoryInv
  <2>2. proc = "serving" /\ UNCHANGED serverVars
    BY <1>2 DEF Serve
  <2>3. MemoryInv'
    BY <2>1, <2>2 DEF ServerInv, MemoryInv, serverVars, control
  <2>. QED BY <1>1, <2>2, <2>3 DEF serverVars, control, files
<1>3. CASE ServeKeys
  <2>0. PICK op \in {"ADD_KEY", "DEL_KEY"} :
          \E a : /\ a.keys \in Seq(KeyEntry) /\ Len(a.keys) <= AUTH_MAX_KEYS
                 /\ a.rc \in {0, -1} /\ KeyReply(op, a)
    <3>1. keys \in Seq(KeyEntry) /\ Len(keys) <= AUTH_MAX_KEYS
      BY DEF ServerInv, MemoryInv
    <3>2. ASSUME NEW name \in KeyNames, execute_add_key(name)
          PROVE  \E a : /\ a.keys \in Seq(KeyEntry) /\ Len(a.keys) <= AUTH_MAX_KEYS
                        /\ a.rc \in {0, -1} /\ KeyReply("ADD_KEY", a)
      BY <3>1, <3>2, AddKeyFacts DEF execute_add_key
    <3>3. ASSUME NEW name \in KeyNames, execute_del_key(name)
          PROVE  \E a : /\ a.keys \in Seq(KeyEntry) /\ Len(a.keys) <= AUTH_MAX_KEYS
                        /\ a.rc \in {0, -1} /\ KeyReply("DEL_KEY", a)
      BY <3>1, <3>3, DelKeyFacts DEF execute_del_key
    <3>. QED BY <1>3, <3>2, <3>3 DEF ServeKeys
  <2>1. PICK a : /\ a.keys \in Seq(KeyEntry) /\ Len(a.keys) <= AUTH_MAX_KEYS
                 /\ a.rc \in {0, -1} /\ KeyReply(op, a)
    BY <2>0
  <2>2. /\ keys' = a.keys /\ dbs' = dbs /\ clock' = clock
        /\ UNCHANGED <<proc, save, elapsed, stopping, loaded, path, media, saved>>
        /\ reply'.op = op /\ reply'.ok = (a.rc = 0) /\ reply'.keys = {}
        /\ reply'.code = IF a.rc = 0 THEN 1 ELSE -1
    BY <2>1 DEF KeyReply, files
  <2>3. TypeOK'
    <3>1. reply'.ok \in BOOLEAN
      BY <2>2
    <3>. QED BY <2>2, <3>1 DEF ServerInv, MemoryInv, IInv, TypeOK
  <2>4. IInv'
    BY <2>2, <2>3 DEF ServerInv, MemoryInv, IInv, AutoKeyAccepted, SearchShowsMatches
  <2>5. proc = "serving"
    BY <1>3 DEF ServeKeys
  <2>6. MemoryInv'
    BY <2>1, <2>2, <2>4, <2>5 DEF ServerInv, MemoryInv
  <2>. QED BY <1>1, <2>2, <2>5, <2>6
<1>4. CASE Tick /\ UNCHANGED serverVars
  <2>1. IInv'
    BY <1>4, StepKeeps DEF ServerInv, MemoryInv, Next
  <2>2. dbs' = dbs /\ reply' = reply /\ UNCHANGED serverVars
    BY <1>4 DEF Tick
  <2>3. MemoryInv'
    BY <2>1, <2>2 DEF ServerInv, MemoryInv, serverVars, control
  <2>4. ProcInv' /\ TmpInv'
    BY <2>2 DEF ServerInv, ProcInv, TmpInv, serverVars, control, files
  <2>5. FileInv'
    BY <2>2, FilesKept DEF ServerInv, serverVars, files
  <2>. QED BY <2>3, <2>4, <2>5 DEF ServerInv
<1>. QED BY <1>2, <1>3, <1>4

\* The steps of the loop that touch neither memory nor files.
LEMMA LoopKeeps ==
  ASSUME ServerInv,
         \/ Listen \/ Stall \/ Unstall \/ Elapse \/ autosave_maybe_run \/ Signal \/ Exit
  PROVE  ServerInv'
<1>1. /\ UNCHANGED <<vars, keys, loaded>> /\ UNCHANGED <<path, tmp, media, saved>>
      /\ proc' = proc \/ proc' # "down"
      /\ elapsed' \in BOOLEAN /\ stopping' \in BOOLEAN
  BY DEF Listen, Stall, Unstall, Elapse, autosave_maybe_run, Signal, Exit, files, BeginSave,
         ServerInv, ProcInv
<1>2. MemoryInv' /\ FileInv'
  BY <1>1, MemoryKept, FilesKept DEF ServerInv
<1>3. \/ \E caller \in {"bootstrap", "autosave", "exit"} : BeginSave(caller)
      \/ save' = save /\ proc # "saving" /\ proc' \in {"serving", "stalled"}
      \/ save' = save /\ proc' = proc
  BY DEF Listen, Stall, Unstall, Elapse, autosave_maybe_run, Signal, Exit
<1>4. loaded' \in {0, -1}
  BY <1>1 DEF ServerInv, ProcInv
<1>5. ProcInv' /\ TmpInv'
  <2>1. CASE \E caller \in {"bootstrap", "autosave", "exit"} : BeginSave(caller)
    BY <1>1, <1>4, <2>1, BeginKeeps
  <2>2. CASE save' = save /\ proc # "saving" /\ proc' \in {"serving", "stalled"}
    BY <1>1, <1>4, <2>2, NoTmp DEF ServerInv, ProcInv
  <2>3. CASE save' = save /\ proc' = proc
    BY <1>1, <1>4, <2>3 DEF ServerInv, ProcInv, TmpInv, vars
  <2>. QED BY <1>3, <2>1, <2>2, <2>3
<1>. QED BY <1>2, <1>5 DEF ServerInv

\* persistence_save_all up to the rename.
LEMMA SaveKeeps ==
  ASSUME ServerInv, SaveOpen \/ SaveWrite \/ SaveClose PROVE ServerInv'
<1> DEFINE s == Contents(dbs, keys)
<1>1. PICK step \in {"write", "rename"} : NextStep(step)
  BY DEF SaveOpen, SaveWrite, SaveClose
<1>2. /\ proc = "saving" /\ UNCHANGED <<vars, keys, proc, elapsed, stopping, loaded>>
      /\ UNCHANGED <<path, media, saved>> /\ save' = [save EXCEPT !.step = step]
  BY <1>1 DEF NextStep, SaveOpen, SaveWrite, SaveClose, saving
<1>3. DOMAIN save = {"caller", "step"} /\ save.caller \in {"bootstrap", "autosave", "exit"}
  BY <1>2 DEF ServerInv, ProcInv
<1>4. DOMAIN save' = {"caller", "step"} /\ save'.caller = save.caller /\ save'.step = step
      /\ save' # NoSave
  BY <1>2, <1>3 DEF NoSave
<1>5. MemoryInv' /\ FileInv'
  BY <1>2, MemoryKept, FilesKept DEF ServerInv
<1>6. ProcInv'
  BY <1>2, <1>3, <1>4 DEF ServerInv, ProcInv
<1>7. dbs' = dbs /\ keys' = keys
  BY <1>2 DEF vars
<1>8. SnapshotFile(tmp', s) /\ (step = "rename" => Complete(tmp'))
  <2>1. CASE SaveOpen
    <3>1. PICK image \in Images(dbs, keys) : tmp' = [image |-> image, have |-> 0]
      BY <2>1 DEF SaveOpen
    <3>2. ImageOf(image, s)
      BY <3>1, ImageFacts DEF ServerInv, MemoryInv
    <3>3. Len(s.keys) \in Nat
      BY <3>2 DEF ImageOf
    <3> HIDE DEF s
    <3>4. SnapshotFile(tmp', s)
      BY <3>1, <3>2, <3>3 DEF SnapshotFile
    <3>5. step = "write"
      BY <1>4, <2>1 DEF SaveOpen, NextStep
    <3>. QED BY <3>4, <3>5
  <2>2. CASE SaveWrite
    <3>1. save.step = "write" /\ ~Complete(tmp) /\ tmp' = [tmp EXCEPT !.have = tmp.have + 1]
      BY <2>2 DEF SaveWrite, saving
    <3>2. SnapshotFile(tmp, s)
      BY <1>2, <3>1 DEF ServerInv, TmpInv
    <3> HIDE DEF s
    <3>3. /\ tmp.have \in 0 .. 2 + Len(s.keys) /\ tmp.have # 2 + Len(s.keys)
          /\ Len(s.keys) \in Nat
      BY <3>1, <3>2 DEF SnapshotFile, ImageOf, Complete
    <3>4. tmp.have + 1 \in 0 .. 2 + Len(s.keys)
      BY <3>3
    <3>5. SnapshotFile(tmp', s)
      BY <3>1, <3>2, <3>4, CutFile
    <3>6. step = "write"
      BY <1>4, <2>2 DEF SaveWrite, NextStep
    <3>. QED BY <3>5, <3>6
  <2>3. CASE SaveClose
    <3>1. save.step = "write" /\ Complete(tmp) /\ tmp' = tmp
      BY <2>3 DEF SaveClose, saving
    <3>2. SnapshotFile(tmp, s)
      BY <1>2, <3>1 DEF ServerInv, TmpInv
    <3>. QED BY <3>1, <3>2
  <2>. QED BY <2>1, <2>2, <2>3
<1>9. TmpInv'
  BY <1>4, <1>7, <1>8 DEF TmpInv
<1>. QED BY <1>5, <1>6, <1>9 DEF ServerInv

\* The rename, a save that fails, the end of the process and the disk.
LEMMA EndKeeps ==
  ASSUME ServerInv, SaveRename \/ SaveFails \/ Crash \/ Writeback \/ PowerFail
  PROVE  ServerInv'
<1>1. CASE SaveRename
  <2>1. proc = "saving" /\ save.step = "rename" /\ Finish
    BY <1>1 DEF SaveRename, saving
  <2>2. path' = tmp /\ media' = "cached" /\ saved' = Contents(dbs, keys)
    BY <1>1 DEF SaveRename
  <2>3. SnapshotFile(tmp, Contents(dbs, keys)) /\ Complete(tmp)
    BY <2>1 DEF ServerInv, TmpInv
  <2>4. SnapshotFile(path', saved') /\ Complete(path')
    BY <2>2, <2>3
  <2>5. FileInv'
    BY <2>2, <2>4 DEF FileInv
  <2>. QED BY <2>1, <2>5, FinishKeeps DEF ServerInv
<1>2. CASE SaveFails
  BY <1>2, FinishKeeps, FilesKept DEF ServerInv, SaveFails
<1>3. CASE Crash
  BY <1>3, StoppedKeeps, FilesKept DEF ServerInv, Crash, files
<1>4. CASE Writeback
  <2>1. /\ UNCHANGED <<vars, control, path, tmp, saved>> /\ media = "cached"
        /\ media' = "synced"
    BY <1>4 DEF Writeback
  <2>2. MemoryInv'
    BY <2>1, MemoryKept DEF ServerInv, control
  <2>3. ProcInv' /\ TmpInv'
    BY <2>1 DEF ServerInv, ProcInv, TmpInv, control, vars
  <2>4. FileInv'
    BY <2>1 DEF ServerInv, FileInv
  <2>. QED BY <2>2, <2>3, <2>4 DEF ServerInv
<1>5. CASE PowerFail
  <2>1. MemoryInv' /\ ProcInv' /\ TmpInv'
    BY <1>5, StoppedKeeps DEF PowerFail
  <2>2. saved' = saved
    BY <1>5 DEF PowerFail
  <2>3. CASE UNCHANGED <<path, media>>
    BY <2>1, <2>2, <2>3, FilesKept DEF ServerInv
  <2>4. CASE /\ media = "cached" /\ media' = "torn"
             /\ \E have \in 0 .. path.have - 1 : path' = [path EXCEPT !.have = have]
    <3>1. PICK have \in 0 .. path.have - 1 : path' = [path EXCEPT !.have = have]
      BY <2>4
    <3>2. SnapshotFile(path, saved)
      BY <2>4 DEF ServerInv, FileInv
    <3>3. have \in 0 .. 2 + Len(saved.keys)
      BY <3>1, <3>2 DEF SnapshotFile, ImageOf
    <3>4. SnapshotFile(path', saved')
      BY <2>2, <3>1, <3>2, <3>3, CutFile
    <3>5. FileInv'
      BY <2>4, <3>4 DEF FileInv
    <3>. QED BY <2>1, <3>5 DEF ServerInv
  <2>. QED BY <1>5, <2>3, <2>4 DEF PowerFail
<1>. QED BY <1>1, <1>2, <1>3, <1>4, <1>5

\* Every step keeps the invariant.
LEMMA ServerStepKeeps == ASSUME ServerInv, [ServerNext]_allVars PROVE ServerInv'
<1>1. CASE UNCHANGED allVars
  <2>1. UNCHANGED <<vars, keys, proc, save, elapsed, stopping, loaded>>
        /\ UNCHANGED <<path, tmp, media, saved>>
    BY <1>1 DEF allVars, serverVars, files, control
  <2>2. MemoryInv' /\ FileInv'
    BY <2>1, MemoryKept, FilesKept DEF ServerInv
  <2>3. ProcInv' /\ TmpInv'
    BY <2>1 DEF ServerInv, ProcInv, TmpInv, vars
  <2>. QED BY <2>2, <2>3 DEF ServerInv
<1>2. CASE ServerNext
  BY <1>2, StartKeeps, ServeKeeps, LoopKeeps, SaveKeeps, EndKeeps DEF ServerNext, SaveStep
<1>. QED BY <1>1, <1>2

-----------------------------------------------------------------------------
(* The theorems *)

\* The process, its memory and its files satisfy the inductive invariant in
\* every reachable state, whichever step of a save fails and wherever the
\* process or the machine stops.
THEOREM ServerInvariance == ServerSpec => []ServerInv
<1>1. ServerInit => ServerInv
  BY ServerInitHolds
<1>2. ServerInv /\ [ServerNext]_allVars => ServerInv'
  BY ServerStepKeeps
<1>. QED BY <1>1, <1>2, PTL DEF ServerSpec

\* The process, its key store and its files keep their types.
THEOREM ServerTypesTheorem == ServerSpec => []ServerTypeOK
<1>1. ServerInv => ServerTypeOK
  BY DEF ServerInv, MemoryInv, ProcInv, FileInv, IInv, ServerTypeOK
<1>. QED BY <1>1, ServerInvariance, PTL

\* Every table in memory is sound, also one that persistence_load_all rebuilt
\* from a snapshot, row by row and in whatever order the hash map wrote them.
THEOREM TablesSoundTheorem == ServerSpec => []TablesSound
<1>1. ServerInv => TablesSound
  BY DEF ServerInv, MemoryInv, IInv, TablesSound
<1>. QED BY <1>1, ServerInvariance, PTL

\* What persistence_load_all makes of the file that is there.
LEMMA LoadNow ==
  ASSUME ServerInv, NEW o \in persistence_load_all(path, clock)
  PROVE  \/ path = NoFile /\ o = LoadResult(0, NoTables, <<>>)
            /\ saved.keys = <<>> /\ DOMAIN saved.tables = {}
         \/ /\ OlderFile(path) /\ saved.keys \in Seq(KeyEntry)
            /\ o.dbs = NoTables /\ o.keys = <<>>
         \/ /\ SnapshotFile(path, saved) /\ LoadOutcome(o, path, saved)
            /\ media # "torn" => Complete(path)
<1>1. clock \in Nat
  BY DEF ServerInv, MemoryInv, IInv, TypeOK
<1>2. CASE path = NoFile /\ saved.keys = <<>> /\ DOMAIN saved.tables = {}
  BY <1>2 DEF persistence_load_all
<1>3. CASE OlderFile(path) /\ saved.keys \in Seq(KeyEntry)
  <2>1. o \in {LoadResult(0, NoTables, <<>>), LoadResult(-1, NoTables, <<>>)}
    BY <1>3 DEF persistence_load_all, OlderFile, NoFile
  <2>. QED BY <1>3, <2>1 DEF LoadResult
<1>4. CASE SnapshotFile(path, saved) /\ (media # "torn" => Complete(path))
  BY <1>1, <1>4, LoadFacts
<1>. QED BY <1>2, <1>3, <1>4 DEF ServerInv, FileInv

\* Wherever the process stops, the snapshot under its name loads to exactly
\* what the last successful save wrote (the temporary file and its rename), or
\* to nothing when memory runs out; until the power fails or a counter overflows.
THEOREM SnapshotTheorem == ServerSpec => []SnapshotFaithful
<1>1. ASSUME ServerInv PROVE SnapshotFaithful
  <2> SUFFICES ASSUME media # "torn", NoOverflow,
                      path = NoFile \/ path.image.version = SNAPSHOT_VERSION,
                      NEW o \in persistence_load_all(path, clock)
               PROVE  \/ o.rc = 0 /\ o.keys = saved.keys /\ SameTables(o.dbs, saved.tables)
                      \/ MallocFails /\ o = LoadResult(-1, NoTables, <<>>)
    BY DEF SnapshotFaithful
  <2>1. CASE path = NoFile /\ o = LoadResult(0, NoTables, <<>>)
             /\ saved.keys = <<>> /\ DOMAIN saved.tables = {}
    <3>1. o.rc = 0 /\ o.dbs = NoTables /\ o.keys = <<>>
      BY <2>1 DEF LoadResult
    <3>. QED BY <2>1, <3>1, NoTablesWithin DEF SameTables
  <2>2. CASE SnapshotFile(path, saved) /\ LoadOutcome(o, path, saved) /\ Complete(path)
    BY <2>2 DEF LoadOutcome, Exact, NoOverflow, NotOverflowed
  <2>3. ~(OlderFile(path) /\ path # NoFile)
    BY DEF OlderFile
  <2>4. OlderFile(path) => path # NoFile
    BY DEF OlderFile, NoFile
  <2>. QED BY <1>1, <2>1, <2>2, <2>3, <2>4, LoadNow
<1>. QED BY <1>1, ServerInvariance, PTL

\* A snapshot that lost its tail to a power failure loads all tables of the
\* last save or none, and the first of its keys.
THEOREM LoadTheorem == ServerSpec => []LoadAllOrNothing
<1>1. ASSUME ServerInv PROVE LoadAllOrNothing
  <2> SUFFICES ASSUME NoOverflow, NEW o \in persistence_load_all(path, clock)
               PROVE  /\ o.dbs = NoTables \/ SameTables(o.dbs, saved.tables)
                      /\ Len(o.keys) <= Len(saved.keys)
                      /\ o.keys = SubSeq(saved.keys, 1, Len(o.keys))
    BY DEF LoadAllOrNothing
  <2>1. ASSUME saved.keys \in Seq(KeyEntry), o.dbs = NoTables, o.keys = <<>>
        PROVE  /\ o.dbs = NoTables \/ SameTables(o.dbs, saved.tables)
               /\ Len(o.keys) <= Len(saved.keys)
               /\ o.keys = SubSeq(saved.keys, 1, Len(o.keys))
    <3>1. 0 \in 0 .. Len(saved.keys) /\ Len(o.keys) = 0 /\ 0 <= Len(saved.keys)
      BY <2>1
    <3>2. SubSeq(saved.keys, 1, 0) = <<>>
      BY <2>1, <3>1, PrefixFacts
    <3>. QED BY <2>1, <3>1, <3>2
  <2>2. CASE path = NoFile /\ o = LoadResult(0, NoTables, <<>>) /\ saved.keys = <<>>
    BY <2>1, <2>2 DEF LoadResult
  <2>3. CASE SnapshotFile(path, saved) /\ LoadOutcome(o, path, saved)
    <3>1. saved.keys \in Seq(KeyEntry)
      BY <2>3 DEF SnapshotFile, ImageOf
    <3>2. PICK m \in 0 .. Len(saved.keys) : o.keys = SubSeq(saved.keys, 1, m)
      BY <2>3 DEF LoadOutcome
    <3>3. Len(o.keys) = m /\ m <= Len(saved.keys)
      BY <3>1, <3>2, PrefixFacts
    <3>. QED BY <2>3, <3>2, <3>3 DEF LoadOutcome, NoOverflow, NotOverflowed
  <2>. QED BY <1>1, <2>1, <2>2, <2>3, LoadNow
<1>. QED BY <1>1, ServerInvariance, PTL

\* Only the rename of a complete temporary file, or a power failure before the
\* write-back, changes what is under the name of the snapshot.
THEOREM PathTheorem == ServerSpec => PathReplacedWhole
<1> DEFINE Replaced == path' # path =>
             media' = "torn" \/ (tmp # NoFile /\ path' = tmp /\ Complete(tmp))
<1>1. ASSUME ServerInv, [ServerNext]_allVars PROVE [Replaced]_allVars
  <2>1. CASE UNCHANGED path
    BY <2>1
  <2>2. CASE SaveRename
    <3>1. path' = tmp /\ proc = "saving" /\ save.step = "rename"
      BY <2>2 DEF SaveRename, saving
    <3>2. SnapshotFile(tmp, Contents(dbs, keys)) /\ Complete(tmp)
      BY <1>1, <3>1 DEF ServerInv, TmpInv
    <3>3. tmp # NoFile
      BY <3>2 DEF SnapshotFile, NoFile
    <3>. QED BY <3>1, <3>2, <3>3
  <2>3. CASE media' = "torn"
    BY <2>3
  <2>4. \/ UNCHANGED path \/ SaveRename \/ media' = "torn"
    BY <1>1 DEF ServerNext, Start, Listen, Serve, ServeKeys, execute_add_key, execute_del_key,
                KeyReply, Stall, Unstall, Elapse, autosave_maybe_run, Signal, Exit, SaveStep,
                SaveOpen, SaveWrite, SaveClose, NextStep, SaveFails, Crash, Writeback, PowerFail,
                allVars, serverVars, files
  <2>. QED BY <2>1, <2>2, <2>3, <2>4
<1>2. [][Replaced]_allVars => PathReplacedWhole
  BY PTL DEF PathReplacedWhole
<1>. QED BY <1>1, <1>2, ServerInvariance, PTL DEF ServerSpec
=============================================================================
