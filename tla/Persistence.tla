---------------------------- MODULE Persistence ----------------------------
(***************************************************************************)
(* The snapshot file (src/db/persistence.c): the images of the storage     *)
(* that persistence_save_all may write, and what persistence_load_all      *)
(* makes of a file.                                                        *)
(*                                                                         *)
(* A file is an image and have, the part of the image that can be read:    *)
(* 0 when magic and version are not complete, 1 when the table section is  *)
(* not complete, 2 + i when the key count and i keys can be read.  The     *)
(* reader stops at the first item it misses, and every stop inside one of  *)
(* these sections has the same effect.                                     *)
(***************************************************************************)
EXTENDS DataModel, Auth, SequencesExt

SNAPSHOT_VERSION == 4

\* fopen fails with ENOENT.
NoFile == [have |-> -1]

NoTables == [n \in {} |-> db_create(<<>>)]

-----------------------------------------------------------------------------
(* Saving *)

\* The row count comes from rowsCount, the rows from the hash map, in the
\* order of its buckets.
write_db_callback(db) ==
  {[schema |-> db.schema,
    count  |-> db.rowsCount,
    rows   |-> [i \in DOMAIN order |-> [key |-> order[i], row |-> db.rows[order[i]]]]] :
     order \in SetToSeqs(DOMAIN db.rows)}

\* Indexes and key counters are not written.
Images(dbs, keys) ==
  {[version |-> SNAPSHOT_VERSION, tables |-> tables, keys |-> keys] :
     tables \in {t \in [DOMAIN dbs -> UNION {write_db_callback(dbs[n]) : n \in DOMAIN dbs}] :
                   \A n \in DOMAIN dbs : t[n] \in write_db_callback(dbs[n])}}

Complete(file) == file.have = 2 + Len(file.image.keys)

-----------------------------------------------------------------------------
(* Loading *)

\* A mutant: the stamps of the load stay.
db_set_row_timestamps_Skipped(db, key, created, updated) == db

db_set_row_timestamps(db, key, created, updated) ==
  IF key \in DOMAIN db.rows
    THEN [db EXCEPT !.rows[key].created = created, !.rows[key].updated = updated]
    ELSE db

\* A mutant: rows are put into the hash map without db_add_row.
LoadRow_Direct(outcomes, r, now) ==
  {[o EXCEPT !.db = InsertRow(o.db, r.key, r.row.vals, now)] : o \in outcomes}

\* One row goes through db_add_row, where a negative key asks for an automatic
\* one; its timestamps are then restored under the key of the file.
LoadRow(outcomes, r, now) ==
  UNION {IF o.rc # 0 THEN {o}
         ELSE {IF a.rc # 0 THEN a
               ELSE [a EXCEPT !.db = db_set_row_timestamps(a.db, r.key, r.row.created,
                                                           r.row.updated)] :
                 a \in db_add_row(o.db, r.key, r.row.vals, now)} :
           o \in outcomes}

\* The outcomes of the rows of a table, one after the other.
LoadRows(table, now) ==
  LET after[i \in 0 .. Len(table.rows)] ==
        IF i = 0 THEN {[rc |-> 0, db |-> db_create(table.schema)]}
        ELSE LoadRow(after[i - 1], table.rows[i], now)
  IN  after[Len(table.rows)]

\* A table whose count is not the number of its rows shifts the reading of all
\* that follows; a well-formed reading of the shifted bytes is left out.
LoadTable(table, now) ==
  IF \/ table.schema = <<>>
     \/ table.count # Len(table.rows)
     \/ \E i \in DOMAIN table.rows : \E f \in DOMAIN table.schema :
          Len(table.rows[i].row.vals[f]) > MAX_ARRAY_LENGTH
    THEN {[rc |-> -1, db |-> db_create(table.schema)]}
    ELSE LoadRows(table, now)
         \cup OnMallocFailure({[rc |-> -1, db |-> db_create(table.schema)]})

LoadTables(tables, now) ==
  {d \in [DOMAIN tables -> UNION {LoadTable(tables[n], now) : n \in DOMAIN tables}] :
     \A n \in DOMAIN tables : d[n] \in LoadTable(tables[n], now)}

LoadResult(rc, dbs, keys) == [rc |-> rc, dbs |-> dbs, keys |-> keys]

\* A mutant: a failure in the table section keeps the tables created so far.
persistence_load_all_NoReset(file, now) ==
  IF file = NoFile THEN {LoadResult(0, NoTables, <<>>)}
  ELSE {LoadResult(-1, [n \in DOMAIN file.image.tables |->
                          db_create(file.image.tables[n].schema)], <<>>)}

\* A failure resets the tables; a failure in the auth section keeps the keys
\* read so far.
persistence_load_all(file, now) ==
  IF file = NoFile THEN {LoadResult(0, NoTables, <<>>)}
  ELSE IF file.have = 0 THEN {LoadResult(-1, NoTables, <<>>)}
  ELSE IF file.image.version # SNAPSHOT_VERSION THEN {LoadResult(0, NoTables, <<>>)}
  ELSE IF \/ file.have = 1
          \/ Cardinality(DOMAIN file.image.tables) > MAX_DB_COUNT
          \/ Len(file.image.keys) > AUTH_MAX_KEYS
    THEN {LoadResult(-1, NoTables, <<>>)}
  ELSE {IF \E n \in DOMAIN d : d[n].rc # 0 THEN LoadResult(-1, NoTables, <<>>)
        ELSE IF Complete(file)
          THEN LoadResult(0, [n \in DOMAIN d |-> d[n].db], file.image.keys)
          ELSE LoadResult(-1, NoTables, SubSeq(file.image.keys, 1, file.have - 2)) :
          d \in LoadTables(file.image.tables, now)}
=============================================================================
