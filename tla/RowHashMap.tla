----------------------------- MODULE RowHashMap -----------------------------
(***************************************************************************)
(* The hash map of a table's rows (src/utils/hashmap.c): chained buckets,  *)
(* a table that doubles when it is three quarters full, and an iterator.   *)
(* RowSet is what it promises.                                             *)
(*                                                                         *)
(* hash_key is any function of the keys, chosen at the start: no property  *)
(* rests on how the bits are mixed.  A map is its array of chains; a chain *)
(* is the sequence of its nodes, the newest first; the iterator's node     *)
(* pointer is a position in the chain, 0 for NULL.                         *)
(***************************************************************************)
EXTENDS Integers, Sequences, SequencesExt, FiniteSets

CONSTANTS
  Keys, Rows,
  HashValues,          \* what hash_key may return
  InitialRowCapacity   \* INITIAL_ROW_CAPACITY: buckets of a new map

ASSUME MapAssumption == HashValues \subseteq Nat /\ InitialRowCapacity \in Nat \ {0}

VARIABLES
  hash_key,   \* the hash function
  map,        \* the RowHashMap: bucketCount and buckets
  rowsCount,  \* the table's count of rows, which the caller of insert passes
  it,         \* the DBRowIterator: bucketIndex and node
  scan,       \* the caller is in the middle of a scan
  out         \* what the last call returned

mapVars == <<hash_key, map, rowsCount, it, scan, out>>

\* What a call returns: a code, or a row (NULL when there is none).
NULL        == <<>>
OK          == [code |-> 0, row |-> NULL]
FAILED      == [code |-> -1, row |-> NULL]
Result(row) == [code |-> 0, row |-> row]

-----------------------------------------------------------------------------

row_hashmap_create(n) ==
  [bucketCount |-> n, buckets |-> [i \in 0 .. n - 1 |-> <<>>]]

BucketOf(k, n) == hash_key[k] % n

Chain(m, k) == m.buckets[BucketOf(k, m.bucketCount)]

\* The position of the first node of the key in its chain, 0 if none.
Position(chain, k) ==
  IF \E i \in DOMAIN chain : chain[i][1] = k
    THEN CHOOSE i \in DOMAIN chain :
           chain[i][1] = k /\ \A j \in 1 .. i - 1 : chain[j][1] # k
    ELSE 0

row_hashmap_find(m, k) ==
  LET chain == Chain(m, k)
      i     == Position(chain, k)
  IN  IF i = 0 THEN NULL ELSE chain[i]

\* Every node of a map: its bucket and its position in the chain.
Places(m) == UNION {{b} \X DOMAIN m.buckets[b] : b \in DOMAIN m.buckets}

Node(m, p) == m.buckets[p[1]][p[2]]

Nodes(m) == {Node(m, p) : p \in Places(m)}

\* The order in which the loops over the buckets and their chains meet places.
Before(p, q) == p[1] < q[1] \/ (p[1] = q[1] /\ p[2] < q[2])

should_rehash(size, n) == size * 4 >= n * 3

\* The nodes in places P, pushed one after the other in front of a chain: the
\* last one comes first.
PushAll(m, P) ==
  LET from(p) == {q \in P : q = p \/ Before(p, q)}
  IN  [i \in 1 .. Cardinality(P) |-> Node(m, CHOOSE p \in P : Cardinality(from(p)) = i)]

\* The places whose nodes hash to bucket b of n.
Hashing(m, n, b) == {p \in Places(m) : BucketOf(Node(m, p)[1], n) = b}

\* A mutant: the nodes are hashed for the old number of buckets.
rehash_rows_OldModulus(m, n) ==
  {m, [bucketCount |-> n,
       buckets     |-> [b \in 0 .. n - 1 |-> PushAll(m, Hashing(m, m.bucketCount, b))]]}

\* A mutant: the map keeps its old number of buckets.
rehash_rows_StaleCount(m, n) ==
  {m, [bucketCount |-> m.bucketCount,
       buckets     |-> [b \in 0 .. n - 1 |-> PushAll(m, Hashing(m, n, b))]]}

\* The maps after a rehash: the same one when calloc fails; otherwise every
\* node is pushed in front of its new chain, in the order of the old buckets.
rehash_rows(m, n) ==
  {m, [bucketCount |-> n,
       buckets     |-> [b \in 0 .. n - 1 |-> PushAll(m, Hashing(m, n, b))]]}

\* The maps after an insert that gets its node; a failed rehash is ignored.
row_hashmap_insert(m, k, r, sizeAfterInsert) ==
  LET pushed == [m EXCEPT !.buckets[BucketOf(k, m.bucketCount)] = <<<<k, r>>>> \o @]
  IN  IF should_rehash(sizeAfterInsert, m.bucketCount)
        THEN rehash_rows(pushed, 2 * m.bucketCount)
        ELSE {pushed}

\* The map without the node of the key, which is linked.
row_hashmap_remove(m, k) ==
  LET b == BucketOf(k, m.bucketCount)
  IN  [m EXCEPT !.buckets[b] = RemoveAt(@, Position(@, k))]

\* A mutant: the search for the next chain starts one bucket too far.
row_hashmap_iter_next_SkipsBucket(m, i) ==
  IF i.node # 0 /\ i.node < Len(m.buckets[i.bucketIndex])
    THEN [i EXCEPT !.node = @ + 1]
    ELSE LET later == {b \in i.bucketIndex + 2 .. m.bucketCount - 1 : m.buckets[b] # <<>>}
         IN  IF later = {} THEN [bucketIndex |-> m.bucketCount, node |-> 0]
             ELSE [bucketIndex |-> Min(later), node |-> 1]

\* The iterator's next position: the next node of the chain, or the first of
\* the next chain that is not empty, or the end.
row_hashmap_iter_next(m, i) ==
  IF i.node # 0 /\ i.node < Len(m.buckets[i.bucketIndex])
    THEN [i EXCEPT !.node = @ + 1]
    ELSE LET later == {b \in i.bucketIndex + 1 .. m.bucketCount - 1 : m.buckets[b] # <<>>}
         IN  IF later = {} THEN [bucketIndex |-> m.bucketCount, node |-> 0]
             ELSE [bucketIndex |-> Min(later), node |-> 1]

BeforeFirst == [bucketIndex |-> -1, node |-> 0]

-----------------------------------------------------------------------------
(* The calls of data_model.c.  None of them is made in the middle of a     *)
(* scan that goes on: a scan is given up or runs to its end.               *)

MapInit ==
  /\ hash_key \in [Keys -> HashValues]
  /\ map = row_hashmap_create(InitialRowCapacity)
  /\ rowsCount = 0 /\ it = BeforeFirst /\ scan = FALSE /\ out = OK

NoScan == it' = BeforeFirst /\ scan' = FALSE /\ UNCHANGED hash_key

\* db_insert_row, of a key that it does not find.
InsertRow(k, r) ==
  /\ row_hashmap_find(map, k) = NULL
  /\ \/ /\ map' \in row_hashmap_insert(map, k, r, rowsCount + 1)
        /\ rowsCount' = rowsCount + 1 /\ out' = OK
     \/ /\ UNCHANGED <<map, rowsCount>> /\ out' = FAILED
  /\ NoScan

\* A row is found and written through the pointer to it.
WriteRow(k, r) ==
  /\ LET b == BucketOf(k, map.bucketCount)
         i == Position(map.buckets[b], k)
     IN  IF i = 0 THEN out' = FAILED /\ UNCHANGED map
         ELSE out' = OK /\ map' = [map EXCEPT !.buckets[b][i] = <<k, r>>]
  /\ NoScan /\ UNCHANGED rowsCount

DeleteRow(k) ==
  /\ LET row == row_hashmap_find(map, k)
     IN  IF row = NULL THEN out' = FAILED /\ UNCHANGED <<map, rowsCount>>
         ELSE /\ out' = Result(row)
              /\ map' = row_hashmap_remove(map, k)
              /\ rowsCount' = rowsCount - 1
  /\ NoScan

FindRow(k) ==
  /\ out' = Result(row_hashmap_find(map, k))
  /\ NoScan /\ UNCHANGED <<map, rowsCount>>

\* The table is destroyed, node by node, and another is created.
Recreate ==
  /\ map' = row_hashmap_create(InitialRowCapacity)
  /\ rowsCount' = 0 /\ out' = OK
  /\ NoScan

Step(i) ==
  LET j == row_hashmap_iter_next(map, i)
  IN  /\ it' = j
      /\ out' = Result(IF j.node = 0 THEN NULL ELSE map.buckets[j.bucketIndex][j.node])
      /\ scan' = (j.node # 0)
      /\ UNCHANGED <<hash_key, map, rowsCount>>

db_iter_first == Step(BeforeFirst)
db_iter_next  == scan /\ Step(it)

MapNext ==
  \/ db_iter_first \/ db_iter_next \/ Recreate
  \/ \E k \in Keys : DeleteRow(k) \/ FindRow(k)
                     \/ \E r \in Rows : InsertRow(k, r) \/ WriteRow(k, r)

MapSpec == MapInit /\ [][MapNext]_mapVars

-----------------------------------------------------------------------------
(* Properties *)

\* The type invariant of the map.
MapTypeOK ==
  /\ map.bucketCount \in Nat \ {0}
  /\ DOMAIN map.buckets = 0 .. map.bucketCount - 1
  /\ \A b \in DOMAIN map.buckets : map.buckets[b] \in Seq(Keys \X Rows)
  /\ it.bucketIndex \in -1 .. map.bucketCount /\ it.node \in 0 .. rowsCount

\* After inserts with failed and successful rehashes and removes in any order,
\* no key has two nodes, every node hangs in the bucket where find will look
\* for it, and the table's count, which decides when to rehash and how large
\* the callers' row arrays are, is the number of nodes.
ChainsSound ==
  /\ \A p \in Places(map) : BucketOf(Node(map, p)[1], map.bucketCount) = p[1]
  /\ \A p, q \in Places(map) : Node(map, p)[1] = Node(map, q)[1] => p = q
  /\ rowsCount = Cardinality(Places(map))

\* The rows of the map by key.
Contents == [k \in {n[1] : n \in Nodes(map)} |-> row_hashmap_find(map, k)[2]]

\* The keys of the nodes after the iterator.
Unread ==
  IF ~scan THEN {}
  ELSE {Node(map, p)[1] : p \in {q \in Places(map) : Before(<<it.bucketIndex, it.node>>, q)}}

Abstract == INSTANCE RowSet WITH rows <- Contents, unread <- Unread

\* The hash map implements the abstract set of rows: what find, insert and
\* remove return, and a scan that returns every row exactly once.
ImplementsRowSet == Abstract!RowSetSpec
=============================================================================
