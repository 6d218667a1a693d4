-------------------------- MODULE RowHashMapProofs --------------------------
(***************************************************************************)
(* Proofs about RowHashMap: that its chains stay sound whatever is         *)
(* inserted, rehashed and removed, and that it implements RowSet.          *)
(***************************************************************************)
EXTENDS RowHashMap, TLAPS, FiniteSetTheorems, SequenceTheorems, WellFoundedInduction

-----------------------------------------------------------------------------
(* Chains *)

\* A chain of bucket b of n: its nodes belong there, each key has one node.
ChainOK(c, b, n) ==
  /\ c \in Seq(Keys \X Rows)
  /\ \A i \in 1 .. Len(c) : BucketOf(c[i][1], n) = b
  /\ \A i, j \in 1 .. Len(c) : c[i][1] = c[j][1] => i = j

Sound(m) ==
  /\ DOMAIN m = {"bucketCount", "buckets"}
  /\ m.bucketCount \in Nat \ {0}
  /\ DOMAIN m.buckets = 0 .. m.bucketCount - 1
  /\ \A b \in 0 .. m.bucketCount - 1 : ChainOK(m.buckets[b], b, m.bucketCount)

Hashes == hash_key \in [Keys -> HashValues]

LEMMA BucketFacts ==
  ASSUME Hashes, NEW k \in Keys, NEW n \in Nat \ {0}
  PROVE  BucketOf(k, n) \in 0 .. n - 1
<1>1. hash_key[k] \in Nat
  BY MapAssumption DEF Hashes
<1>. QED BY <1>1 DEF BucketOf

\* The places of a sound map and their nodes.
LEMMA PlaceFacts ==
  ASSUME NEW m, Sound(m)
  PROVE  /\ \A b \in 0 .. m.bucketCount - 1 :
              /\ m.buckets[b] \in Seq(Keys \X Rows) /\ Len(m.buckets[b]) \in Nat
              /\ \A i \in 1 .. Len(m.buckets[b]) :
                   /\ m.buckets[b][i] \in Keys \X Rows
                   /\ <<b, i>> \in Places(m) /\ Node(m, <<b, i>>) = m.buckets[b][i]
         /\ \A p \in Places(m) :
              /\ p = <<p[1], p[2]>> /\ p[1] \in 0 .. m.bucketCount - 1
              /\ p[2] \in 1 .. Len(m.buckets[p[1]])
              /\ Node(m, p) = m.buckets[p[1]][p[2]] /\ Node(m, p) \in Keys \X Rows
              /\ BucketOf(Node(m, p)[1], m.bucketCount) = p[1]
<1>1. ASSUME NEW b \in 0 .. m.bucketCount - 1
      PROVE  /\ m.buckets[b] \in Seq(Keys \X Rows) /\ Len(m.buckets[b]) \in Nat
             /\ DOMAIN m.buckets[b] = 1 .. Len(m.buckets[b])
             /\ \A i \in 1 .. Len(m.buckets[b]) :
                   /\ m.buckets[b][i] \in Keys \X Rows
                   /\ BucketOf(m.buckets[b][i][1], m.bucketCount) = b
  BY DEF Sound, ChainOK
<1>2. DOMAIN m.buckets = 0 .. m.bucketCount - 1
  BY DEF Sound
<1>3. ASSUME NEW p \in Places(m)
      PROVE  /\ p = <<p[1], p[2]>> /\ p[1] \in 0 .. m.bucketCount - 1
             /\ p[2] \in DOMAIN m.buckets[p[1]]
  BY <1>2 DEF Places
<1>4. ASSUME NEW b \in 0 .. m.bucketCount - 1, NEW i \in DOMAIN m.buckets[b]
      PROVE  <<b, i>> \in Places(m)
  BY <1>2 DEF Places
<1>. QED BY <1>1, <1>3, <1>4 DEF Node

\* No key has two nodes in a sound map.
LEMMA OnePlace ==
  ASSUME NEW m, Sound(m), NEW p \in Places(m), NEW q \in Places(m),
         Node(m, p)[1] = Node(m, q)[1]
  PROVE  p = q
<1>1. p[1] = q[1]
  BY PlaceFacts
<1>2. /\ p[2] \in 1 .. Len(m.buckets[p[1]]) /\ q[2] \in 1 .. Len(m.buckets[p[1]])
      /\ Node(m, p) = m.buckets[p[1]][p[2]] /\ Node(m, q) = m.buckets[p[1]][q[2]]
      /\ p[1] \in 0 .. m.bucketCount - 1
  BY <1>1, PlaceFacts
<1>3. p[2] = q[2]
  BY <1>2 DEF Sound, ChainOK
<1>. QED BY <1>1, <1>3, PlaceFacts

\* The nodes of a chain are those that hash to its bucket.
LEMMA NodesOfChain ==
  ASSUME NEW m, Sound(m), NEW x
  PROVE  /\ \A b \in 0 .. m.bucketCount - 1 : \A i \in 1 .. Len(m.buckets[b]) :
              m.buckets[b][i] \in Nodes(m)
         /\ x \in Nodes(m) =>
              /\ x \in Keys \X Rows
              /\ \E i \in 1 .. Len(m.buckets[BucketOf(x[1], m.bucketCount)]) :
                   m.buckets[BucketOf(x[1], m.bucketCount)][i] = x
<1>1. ASSUME NEW b \in 0 .. m.bucketCount - 1, NEW i \in 1 .. Len(m.buckets[b])
      PROVE  m.buckets[b][i] \in Nodes(m)
  <2>1. <<b, i>> \in Places(m) /\ Node(m, <<b, i>>) = m.buckets[b][i]
    BY PlaceFacts
  <2>. QED BY <2>1, Zenon DEF Nodes
<1>2. ASSUME x \in Nodes(m)
      PROVE  /\ x \in Keys \X Rows
             /\ \E i \in 1 .. Len(m.buckets[BucketOf(x[1], m.bucketCount)]) :
                  m.buckets[BucketOf(x[1], m.bucketCount)][i] = x
  BY <1>2, PlaceFacts DEF Nodes
<1>. QED BY <1>1, <1>2

\* Map m2 is m with chain c in bucket b.
Replaced(m, m2, b, c) ==
  /\ DOMAIN m2 = {"bucketCount", "buckets"} /\ m2.bucketCount = m.bucketCount
  /\ DOMAIN m2.buckets = 0 .. m.bucketCount - 1 /\ m2.buckets[b] = c
  /\ \A d \in 0 .. m.bucketCount - 1 : d # b => m2.buckets[d] = m.buckets[d]

LEMMA ReplacedByExcept ==
  ASSUME NEW m, Sound(m), NEW b \in 0 .. m.bucketCount - 1, NEW c
  PROVE  Replaced(m, [m EXCEPT !.buckets[b] = c], b, c)
BY DEF Sound, Replaced

InChain(x, c) == \E j \in 1 .. Len(c) : x = c[j]

\* The nodes of m2 are those of c and those of m in other buckets.
Rechained(m, m2, b, c) ==
  \A x : x \in Nodes(m2) <=> \/ InChain(x, c)
                             \/ x \in Nodes(m) /\ BucketOf(x[1], m.bucketCount) # b

\* A chain is replaced by another.
LEMMA ChangedChain ==
  ASSUME NEW m, Sound(m), NEW b \in 0 .. m.bucketCount - 1, NEW c, ChainOK(c, b, m.bucketCount),
         NEW m2, Replaced(m, m2, b, c)
  PROVE  Sound(m2) /\ Rechained(m, m2, b, c)
<1>1. DOMAIN m2 = {"bucketCount", "buckets"} /\ m2.bucketCount = m.bucketCount
  BY DEF Replaced
<1>2. /\ DOMAIN m2.buckets = 0 .. m.bucketCount - 1
      /\ m2.buckets[b] = c
      /\ \A d \in 0 .. m.bucketCount - 1 : d # b => m2.buckets[d] = m.buckets[d]
  BY DEF Replaced
<1>3. Sound(m2)
  <2>1. m.bucketCount \in Nat \ {0}
        /\ \A d \in 0 .. m.bucketCount - 1 : ChainOK(m.buckets[d], d, m.bucketCount)
    BY DEF Sound
  <2>2. \A d \in 0 .. m.bucketCount - 1 : ChainOK(m2.buckets[d], d, m.bucketCount)
    BY <1>2, <2>1
  <2>. QED BY <1>1, <1>2, <2>1, <2>2 DEF Sound
<1>4. ASSUME NEW x \in Nodes(m2)
      PROVE  \/ \E i \in 1 .. Len(c) : x = c[i]
             \/ x \in Nodes(m) /\ BucketOf(x[1], m.bucketCount) # b
  <2>1. PICK p \in Places(m2) : x = Node(m2, p)
    BY DEF Nodes
  <2>2. /\ p[1] \in 0 .. m.bucketCount - 1 /\ p[2] \in 1 .. Len(m2.buckets[p[1]])
        /\ x = m2.buckets[p[1]][p[2]] /\ BucketOf(x[1], m.bucketCount) = p[1]
    BY <1>1, <1>3, <2>1, PlaceFacts
  <2>3. CASE p[1] = b
    BY <1>2, <2>2, <2>3
  <2>4. CASE p[1] # b
    BY <1>2, <2>2, <2>4, NodesOfChain
  <2>. QED BY <2>3, <2>4
<1>5. ASSUME NEW i \in 1 .. Len(c) PROVE c[i] \in Nodes(m2)
  BY <1>1, <1>2, <1>3, NodesOfChain
<1>6. ASSUME NEW x \in Nodes(m), BucketOf(x[1], m.bucketCount) # b PROVE x \in Nodes(m2)
  <2>1. PICK p \in Places(m) : x = Node(m, p)
    BY DEF Nodes
  <2>2. /\ p[1] \in 0 .. m.bucketCount - 1 /\ p[2] \in 1 .. Len(m.buckets[p[1]])
        /\ x = m.buckets[p[1]][p[2]] /\ BucketOf(x[1], m.bucketCount) = p[1]
    BY <2>1, PlaceFacts
  <2>. QED BY <1>1, <1>2, <1>3, <1>6, <2>2, NodesOfChain
<1>. QED BY <1>3, <1>4, <1>5, <1>6 DEF Rechained, InChain

-----------------------------------------------------------------------------
(* Lookup *)

KeysOf(m) == {x[1] : x \in Nodes(m)}

\* The position of a key in a chain where it has at most one node.
LEMMA ChainPosition ==
  ASSUME NEW c, NEW b, NEW n, ChainOK(c, b, n), NEW k
  PROVE  /\ \A i \in 1 .. Len(c) : c[i][1] = k => Position(c, k) = i
         /\ (\A i \in 1 .. Len(c) : c[i][1] # k) => Position(c, k) = 0
<1>1. DOMAIN c = 1 .. Len(c) /\ Len(c) \in Nat
  BY DEF ChainOK
<1>2. ASSUME NEW i \in 1 .. Len(c), c[i][1] = k PROVE Position(c, k) = i
  <2>1. \A j \in 1 .. i - 1 : c[j][1] # k
    BY <1>1, <1>2 DEF ChainOK
  <2>2. Position(c, k) = CHOOSE j \in DOMAIN c :
                           c[j][1] = k /\ \A l \in 1 .. j - 1 : c[l][1] # k
    BY <1>1, <1>2 DEF Position
  <2>3. Position(c, k) \in DOMAIN c /\ c[Position(c, k)][1] = k
    BY <1>1, <1>2, <2>1, <2>2
  <2>. QED BY <1>1, <1>2, <2>3 DEF ChainOK
<1>3. ASSUME \A i \in 1 .. Len(c) : c[i][1] # k PROVE Position(c, k) = 0
  BY <1>1, <1>3 DEF Position
<1>. QED BY <1>2, <1>3

\* row_hashmap_find finds the node of a key when there is one.
FindsNode(m, k, x) ==
  /\ row_hashmap_find(m, k) = x
  /\ Position(Chain(m, k), k) \in 1 .. Len(Chain(m, k))
  /\ Chain(m, k)[Position(Chain(m, k), k)] = x

FindsNone(m, k) ==
  row_hashmap_find(m, k) = NULL /\ Position(Chain(m, k), k) = 0

LEMMA FindFacts ==
  ASSUME Hashes, NEW m, Sound(m), NEW k \in Keys
  PROVE  /\ ChainOK(Chain(m, k), BucketOf(k, m.bucketCount), m.bucketCount)
         /\ BucketOf(k, m.bucketCount) \in 0 .. m.bucketCount - 1
         /\ \A x \in Nodes(m) : x[1] = k => FindsNode(m, k, x)
         /\ k \notin KeysOf(m) => FindsNone(m, k)
<1> DEFINE b == BucketOf(k, m.bucketCount)
           c == Chain(m, k)
<1>1. m.bucketCount \in Nat \ {0}
  BY DEF Sound
<1>2. b \in 0 .. m.bucketCount - 1
  BY <1>1, BucketFacts
<1>3. c = m.buckets[b] /\ ChainOK(c, b, m.bucketCount)
  BY <1>2 DEF Sound, Chain
<1>4. ASSUME NEW x \in Nodes(m), x[1] = k PROVE FindsNode(m, k, x)
  <2>1. PICK i \in 1 .. Len(c) : c[i] = x
    BY <1>3, <1>4, NodesOfChain
  <2>2. Position(c, k) = i /\ i # 0
    BY <1>3, <1>4, <2>1, ChainPosition
  <2> HIDE DEF c
  <2>3. row_hashmap_find(m, k) = x
    BY <2>1, <2>2 DEF row_hashmap_find, c
  <2>. QED BY <2>1, <2>2, <2>3 DEF FindsNode, c
<1>5. ASSUME k \notin KeysOf(m) PROVE FindsNone(m, k)
  <2>1. \A i \in 1 .. Len(c) : c[i][1] # k
    BY <1>2, <1>3, <1>5, NodesOfChain DEF KeysOf
  <2>2. Position(c, k) = 0
    BY <1>3, <2>1, ChainPosition
  <2>. QED BY <2>2 DEF FindsNone, row_hashmap_find
<1>. QED BY <1>2, <1>3, <1>4, <1>5

\* The result of find tells whether there is one.
LEMMA FindNull ==
  ASSUME Hashes, NEW m, Sound(m), NEW k \in Keys
  PROVE  row_hashmap_find(m, k) = NULL <=> k \notin KeysOf(m)
<1>1. ASSUME k \in KeysOf(m) PROVE row_hashmap_find(m, k) # NULL
  <2>1. PICK x \in Nodes(m) : x[1] = k
    BY <1>1 DEF KeysOf
  <2>2. x \in Keys \X Rows /\ row_hashmap_find(m, k) = x
    BY <2>1, FindFacts, NodesOfChain DEF FindsNode
  <2>3. PICK a, r : x = <<a, r>>
    BY <2>2
  <2>4. Len(<<a, r>>) = 2 /\ Len(<<>>) = 0
    OBVIOUS
  <2>. QED BY <2>2, <2>3, <2>4 DEF NULL
<1>. QED BY <1>1, FindFacts DEF FindsNone

-----------------------------------------------------------------------------
(* Insertion, removal and writing *)

\* A node is pushed in front of its chain.
LEMMA PushFacts ==
  ASSUME Hashes, NEW m, Sound(m), NEW k \in Keys, k \notin KeysOf(m), NEW r \in Rows
  PROVE  LET pushed == [m EXCEPT !.buckets[BucketOf(k, m.bucketCount)] = <<<<k, r>>>> \o @]
         IN  Sound(pushed) /\ Nodes(pushed) = Nodes(m) \cup {<<k, r>>}
             /\ pushed.bucketCount = m.bucketCount
<1>1. PICK b : b = BucketOf(k, m.bucketCount)
  OBVIOUS
<1>2. PICK c : c = m.buckets[b] /\ ChainOK(c, b, m.bucketCount) /\ b \in 0 .. m.bucketCount - 1
  BY <1>1, FindFacts DEF Chain
<1>3. PICK node : node = <<k, r>>
  OBVIOUS
<1>4. PICK d : d = <<node>> \o c
  OBVIOUS
<1>5. c \in Seq(Keys \X Rows) /\ Len(c) \in Nat /\ node \in Keys \X Rows /\ node[1] = k
  BY <1>2, <1>3 DEF ChainOK
<1>6. /\ d \in Seq(Keys \X Rows) /\ Len(d) = Len(c) + 1
      /\ d[1] = node /\ \A i \in 2 .. Len(c) + 1 : d[i] = c[i - 1]
  BY <1>4, <1>5
<1>7. \A i \in 1 .. Len(c) : c[i][1] # k /\ c[i] \in Nodes(m)
  BY <1>2, NodesOfChain DEF KeysOf
<1>8. ChainOK(d, b, m.bucketCount)
  <2>1. \A i \in 1 .. Len(d) : d[i] = IF i = 1 THEN node ELSE c[i - 1]
    BY <1>5, <1>6
  <2>2. \A i \in 1 .. Len(d) : i # 1 => i - 1 \in 1 .. Len(c)
    BY <1>5, <1>6
  <2>3. ASSUME NEW i \in 1 .. Len(d) PROVE BucketOf(d[i][1], m.bucketCount) = b
    <3>1. CASE i = 1
      BY <1>1, <1>5, <1>6, <3>1
    <3>2. CASE i # 1
      <4>1. PICK u \in 1 .. Len(c) : d[i] = c[u]
        BY <2>1, <2>2, <3>2
      <4>. QED BY <1>2, <4>1 DEF ChainOK
    <3>. QED BY <3>1, <3>2
  <2>4. ASSUME NEW i \in 1 .. Len(d), NEW j \in 1 .. Len(d), d[i][1] = d[j][1] PROVE i = j
    <3>1. CASE i = 1 /\ j # 1
      BY <1>5, <1>7, <2>1, <2>2, <2>4, <3>1
    <3>2. CASE i # 1 /\ j = 1
      BY <1>5, <1>7, <2>1, <2>2, <2>4, <3>2
    <3>3. CASE i # 1 /\ j # 1
      <4>1. PICK u \in 1 .. Len(c) : u = i - 1 /\ d[i] = c[u]
        BY <2>1, <2>2, <3>3
      <4>2. PICK v \in 1 .. Len(c) : v = j - 1 /\ d[j] = c[v]
        BY <2>1, <2>2, <3>3
      <4>3. u = v
        BY <1>2, <2>4, <4>1, <4>2 DEF ChainOK
      <4>. QED BY <1>5, <1>6, <4>1, <4>2, <4>3
    <3>. QED BY <3>1, <3>2, <3>3
  <2>. QED BY <1>6, <2>3, <2>4 DEF ChainOK
<1>9. PICK m2 : m2 = [m EXCEPT !.buckets[b] = d] /\ Replaced(m, m2, b, d)
  BY <1>2, ReplacedByExcept
<1>10. Sound(m2) /\ Rechained(m, m2, b, d)
  BY <1>2, <1>8, <1>9, ChangedChain
<1>11. Nodes(m2) = Nodes(m) \cup {node}
  <2>1. ASSUME NEW x \in Nodes(m2) PROVE x \in Nodes(m) \cup {node}
    <3>1. CASE \E i \in 1 .. Len(d) : x = d[i]
      <4>1. PICK i \in 1 .. Len(d) : x = d[i]
        BY <3>1
      <4>2. i = 1 \/ (i \in 2 .. Len(c) + 1 /\ i - 1 \in 1 .. Len(c))
        BY <1>5, <1>6
      <4>. QED BY <1>6, <1>7, <4>1, <4>2
    <3>. QED BY <1>10, <3>1 DEF Rechained, InChain
  <2>2. ASSUME NEW x \in Nodes(m) PROVE x \in Nodes(m2)
    <3>1. CASE BucketOf(x[1], m.bucketCount) = b
      <4>1. PICK i \in 1 .. Len(c) : c[i] = x
        BY <1>2, <3>1, NodesOfChain
      <4>2. i + 1 \in 1 .. Len(d) /\ d[i + 1] = x
        BY <1>5, <1>6, <4>1
      <4>. QED BY <1>10, <4>2 DEF Rechained, InChain
    <3>. QED BY <1>10, <3>1 DEF Rechained, InChain
  <2>3. node \in Nodes(m2)
    <3>1. 1 \in 1 .. Len(d)
      BY <1>5, <1>6
    <3>. QED BY <1>6, <1>10, <3>1 DEF Rechained, InChain
  <2>. QED BY <2>1, <2>2, <2>3
<1>12. m2.bucketCount = m.bucketCount
  BY <1>9 DEF Replaced
<1>13. m2 = [m EXCEPT !.buckets[b] = <<node>> \o @]
  BY <1>2, <1>4, <1>9 DEF Sound
<1>. QED BY <1>1, <1>3, <1>10, <1>11, <1>12, <1>13, Zenon

\* Sequence t is s without its i-th element.
Shortened(S, s, i, t) ==
  /\ t \in Seq(S) /\ Len(t) = Len(s) - 1
  /\ \A j \in 1 .. Len(s) - 1 : t[j] = IF j < i THEN s[j] ELSE s[j + 1]

LEMMA RemoveAtFacts ==
  ASSUME NEW S, NEW s \in Seq(S), NEW i \in 1 .. Len(s)
  PROVE  Shortened(S, s, i, RemoveAt(s, i))
<1> DEFINE a == SubSeq(s, 1, i - 1)
           e == SubSeq(s, i + 1, Len(s))
<1>0. Len(s) \in Nat /\ i \in Nat /\ i >= 1 /\ i <= Len(s)
  OBVIOUS
<1>1. a \in Seq(S) /\ Len(a) = i - 1 /\ \A j \in 1 .. i - 1 : a[j] = s[j]
  BY <1>0
<1>2. e \in Seq(S) /\ Len(e) = Len(s) - i /\ \A j \in 1 .. Len(s) - i : e[j] = s[j + i]
  BY <1>0
<1> HIDE DEF a, e
<1>3. /\ a \o e \in Seq(S) /\ Len(a \o e) = Len(a) + Len(e)
      /\ \A j \in 1 .. Len(a) + Len(e) :
           (a \o e)[j] = IF j <= Len(a) THEN a[j] ELSE e[j - Len(a)]
  BY <1>1, <1>2, ConcatProperties
<1>4. Len(a) + Len(e) = Len(s) - 1
  BY <1>0, <1>1, <1>2
<1>5. ASSUME NEW j \in 1 .. Len(s) - 1
      PROVE  (a \o e)[j] = IF j < i THEN s[j] ELSE s[j + 1]
  <2>1. (a \o e)[j] = IF j <= i - 1 THEN a[j] ELSE e[j - (i - 1)]
    BY <1>1, <1>3, <1>4, <1>5
  <2>2. CASE j < i
    BY <1>0, <1>1, <1>5, <2>1, <2>2
  <2>3. CASE ~(j < i)
    <3>1. j - (i - 1) \in 1 .. Len(s) - i /\ (j - (i - 1)) + i = j + 1 /\ ~(j <= i - 1)
      BY <1>0, <1>5, <2>3
    <3>. QED BY <1>2, <2>1, <2>3, <3>1
  <2>. QED BY <2>2, <2>3
<1>. QED BY <1>3, <1>4, <1>5 DEF a, e, RemoveAt, Shortened

\* Chain d has the nodes of c but x.
Lacks(c, d, x) == \A y : InChain(y, d) <=> InChain(y, c) /\ y # x

LEMMA ShortChain ==
  ASSUME NEW c, NEW b, NEW n, ChainOK(c, b, n), NEW i \in 1 .. Len(c),
         NEW d, Shortened(Keys \X Rows, c, i, d)
  PROVE  ChainOK(d, b, n) /\ Lacks(c, d, c[i])
<1>a. /\ d \in Seq(Keys \X Rows) /\ Len(d) = Len(c) - 1
      /\ \A j \in 1 .. Len(c) - 1 : d[j] = IF j < i THEN c[j] ELSE c[j + 1]
  BY DEF Shortened
<1>0. Len(c) \in Nat /\ Len(d) \in Nat /\ i >= 1 /\ i <= Len(c) /\ i \in Nat
  BY <1>a DEF ChainOK
<1>1. ASSUME NEW j \in 1 .. Len(d)
      PROVE  \E u \in 1 .. Len(c) : u = (IF j < i THEN j ELSE j + 1) /\ u # i /\ d[j] = c[u]
  <2>1. j \in 1 .. Len(c) - 1 /\ j \in 1 .. Len(c) /\ j + 1 \in 1 .. Len(c)
    BY <1>0, <1>a
  <2>. QED BY <1>0, <1>a, <2>1
<1>2. \A u, v \in 1 .. Len(c) : c[u][1] = c[v][1] => u = v
  BY DEF ChainOK
<1>3. ASSUME NEW j \in 1 .. Len(d) PROVE BucketOf(d[j][1], n) = b
  BY <1>1 DEF ChainOK
<1>4. ASSUME NEW j \in 1 .. Len(d), NEW l \in 1 .. Len(d), d[j][1] = d[l][1] PROVE j = l
  <2>1. PICK u \in 1 .. Len(c) : u = (IF j < i THEN j ELSE j + 1) /\ d[j] = c[u]
    BY <1>1
  <2>2. PICK v \in 1 .. Len(c) : v = (IF l < i THEN l ELSE l + 1) /\ d[l] = c[v]
    BY <1>1
  <2>3. u = v
    BY <1>2, <1>4, <2>1, <2>2
  <2>. QED BY <1>0, <2>1, <2>2, <2>3
<1>5. ChainOK(d, b, n)
  BY <1>a, <1>3, <1>4 DEF ChainOK
<1>6. ASSUME NEW j \in 1 .. Len(d) PROVE (\E u \in 1 .. Len(c) : d[j] = c[u]) /\ d[j] # c[i]
  BY <1>1, <1>2
<1>7. ASSUME NEW u \in 1 .. Len(c), c[u] # c[i] PROVE \E j \in 1 .. Len(d) : c[u] = d[j]
  <2>1. CASE u < i
    <3>1. u \in 1 .. Len(d) /\ u \in 1 .. Len(c) - 1
      BY <1>0, <1>a, <2>1
    <3>. QED BY <1>a, <2>1, <3>1
  <2>2. CASE u > i
    <3>1. u - 1 \in 1 .. Len(d) /\ u - 1 \in 1 .. Len(c) - 1 /\ ~(u - 1 < i) /\ (u - 1) + 1 = u
      BY <1>0, <1>a, <2>2
    <3>. QED BY <1>a, <3>1
  <2>3. u # i
    BY <1>7
  <2>. QED BY <1>0, <2>1, <2>2, <2>3
<1>. QED BY <1>5, <1>6, <1>7 DEF InChain, Lacks

\* The nodes of chain c are those of m that hash to bucket b.
ChainOf(m, b, c) ==
  \A x : InChain(x, c) <=> x \in Nodes(m) /\ BucketOf(x[1], m.bucketCount) = b

LEMMA ChainNodes ==
  ASSUME NEW m, Sound(m), NEW b \in 0 .. m.bucketCount - 1
  PROVE  ChainOf(m, b, m.buckets[b])
<1> SUFFICES ASSUME NEW x
             PROVE  InChain(x, m.buckets[b]) <=> x \in Nodes(m) /\ BucketOf(x[1], m.bucketCount) = b
  BY DEF ChainOf
<1>1. ASSUME InChain(x, m.buckets[b]) PROVE x \in Nodes(m) /\ BucketOf(x[1], m.bucketCount) = b
  <2>1. PICK i \in 1 .. Len(m.buckets[b]) : x = m.buckets[b][i]
    BY <1>1 DEF InChain
  <2>2. BucketOf(m.buckets[b][i][1], m.bucketCount) = b
    BY <2>1 DEF Sound, ChainOK
  <2>3. m.buckets[b][i] \in Nodes(m)
    BY <2>1, NodesOfChain
  <2>. QED BY <2>1, <2>2, <2>3
<1>2. ASSUME x \in Nodes(m), BucketOf(x[1], m.bucketCount) = b PROVE InChain(x, m.buckets[b])
  BY <1>2, NodesOfChain DEF InChain
<1>. QED BY <1>1, <1>2

LEMMA RemoveFacts ==
  ASSUME Hashes, NEW m, Sound(m), NEW k \in Keys, NEW x \in Nodes(m), x[1] = k
  PROVE  /\ Sound(row_hashmap_remove(m, k))
         /\ Nodes(row_hashmap_remove(m, k)) = Nodes(m) \ {x}
<1>1. PICK b : b = BucketOf(k, m.bucketCount)
  OBVIOUS
<1>2. PICK c : c = m.buckets[b] /\ ChainOK(c, b, m.bucketCount) /\ b \in 0 .. m.bucketCount - 1
               /\ c = Chain(m, k)
  BY <1>1, FindFacts DEF Chain
<1>3. PICK i : i = Position(c, k) /\ i \in 1 .. Len(c) /\ c[i] = x
  BY <1>2, FindFacts DEF FindsNode
<1>4. PICK d : d = RemoveAt(c, i)
  OBVIOUS
<1>5. Shortened(Keys \X Rows, c, i, d)
  <2>1. c \in Seq(Keys \X Rows) /\ i \in 1 .. Len(c)
    BY <1>2, <1>3 DEF ChainOK
  <2>. QED BY <1>4, <2>1, RemoveAtFacts
<1>6. ChainOK(d, b, m.bucketCount) /\ Lacks(c, d, x)
  BY <1>2, <1>3, <1>5, ShortChain
<1>7. PICK m2 : m2 = [m EXCEPT !.buckets[b] = d] /\ Replaced(m, m2, b, d)
  BY <1>2, ReplacedByExcept
<1>8. Sound(m2) /\ Rechained(m, m2, b, d)
  BY <1>2, <1>6, <1>7, ChangedChain
<1>9. Nodes(m2) = Nodes(m) \ {x}
  <2>1. ChainOf(m, b, c)
    BY <1>2, ChainNodes
  <2>2. BucketOf(x[1], m.bucketCount) = b
    BY <1>1
  <2>. QED BY <1>6, <1>8, <2>1, <2>2 DEF Rechained, ChainOf, Lacks
<1>10. m2 = row_hashmap_remove(m, k)
  <2>1. row_hashmap_remove(m, k) = [m EXCEPT !.buckets[b] = RemoveAt(@, Position(@, k))]
    BY <1>1 DEF row_hashmap_remove
  <2>. QED BY <1>2, <1>3, <1>4, <1>7, <2>1 DEF Sound
<1>. QED BY <1>8, <1>9, <1>10

\* A row is written through the pointer that find returned.
LEMMA WriteFacts ==
  ASSUME Hashes, NEW m, Sound(m), NEW k \in Keys, NEW x \in Nodes(m), x[1] = k, NEW r \in Rows
  PROVE  LET b  == BucketOf(k, m.bucketCount)
             m2 == [m EXCEPT !.buckets[b][Position(m.buckets[b], k)] = <<k, r>>]
         IN  Sound(m2) /\ Nodes(m2) = (Nodes(m) \ {x}) \cup {<<k, r>>}
<1>1. PICK b : b = BucketOf(k, m.bucketCount)
  OBVIOUS
<1>2. PICK c : c = m.buckets[b] /\ ChainOK(c, b, m.bucketCount) /\ b \in 0 .. m.bucketCount - 1
               /\ c = Chain(m, k)
  BY <1>1, FindFacts DEF Chain
<1>3. PICK i : i = Position(c, k) /\ i \in 1 .. Len(c) /\ c[i] = x
  BY <1>2, FindFacts DEF FindsNode
<1>4. PICK node : node = <<k, r>>
  OBVIOUS
<1>13. node \in Keys \X Rows /\ node[1] = k
  BY <1>4
<1>5. PICK d : d = [c EXCEPT ![i] = node]
  OBVIOUS
<1>6. /\ d \in Seq(Keys \X Rows) /\ Len(d) = Len(c) /\ d[i] = node
      /\ \A j \in 1 .. Len(c) : j # i => d[j] = c[j]
  <2>1. c \in Seq(Keys \X Rows) /\ DOMAIN c = 1 .. Len(c)
    BY <1>2 DEF ChainOK
  <2>. QED BY <1>3, <1>13, <1>5, <2>1, ExceptSeq
<1>7. ChainOK(d, b, m.bucketCount)
  <2>1. \A j \in 1 .. Len(c) : d[j][1] = c[j][1]
    BY <1>3, <1>13, <1>6
  <2>. QED BY <1>2, <1>6, <2>1 DEF ChainOK
<1>8. PICK m2 : m2 = [m EXCEPT !.buckets[b] = d] /\ Replaced(m, m2, b, d)
  BY <1>2, ReplacedByExcept
<1>9. Sound(m2) /\ Rechained(m, m2, b, d)
  BY <1>2, <1>7, <1>8, ChangedChain
<1>10. \A y : InChain(y, d) <=> y = node \/ (InChain(y, c) /\ y # x)
  <2>1. \A j \in 1 .. Len(c) : c[j] = x => j = i
    BY <1>2, <1>3 DEF ChainOK
  <2>. QED BY <1>3, <1>6, <2>1 DEF InChain
<1>11. Nodes(m2) = (Nodes(m) \ {x}) \cup {node}
  <2>1. ChainOf(m, b, c)
    BY <1>2, ChainNodes
  <2>2. BucketOf(x[1], m.bucketCount) = b
    BY <1>1
  <2>. QED BY <1>9, <1>10, <2>1, <2>2 DEF Rechained, ChainOf, Lacks
<1>12. m2 = [m EXCEPT !.buckets[b][i] = node]
  BY <1>2, <1>5, <1>8 DEF Sound
<1>. QED BY <1>1, <1>2, <1>3, <1>4, <1>9, <1>11, <1>12, Zenon

-----------------------------------------------------------------------------
(* Rehashing *)

\* The places from p on, in the order of the loops.
From(P, p) == {q \in P : q = p \/ Before(p, q)}

IsPlaces(P) ==
  IsFiniteSet(P) /\ \A p \in P : p = <<p[1], p[2]>> /\ p[1] \in Int /\ p[2] \in Int

\* From counts the places backwards: no two places have as many behind them.
LEMMA RankFacts ==
  ASSUME NEW P, IsPlaces(P)
  PROVE  /\ \A p \in P : Cardinality(From(P, p)) \in 1 .. Cardinality(P)
         /\ \A p, q \in P : Cardinality(From(P, p)) = Cardinality(From(P, q)) => p = q
<1>1. ASSUME NEW p \in P
      PROVE  /\ IsFiniteSet(From(P, p)) /\ p \in From(P, p)
             /\ Cardinality(From(P, p)) \in Nat /\ Cardinality(From(P, p)) >= 1
             /\ Cardinality(From(P, p)) <= Cardinality(P) /\ Cardinality(P) \in Nat
             /\ Cardinality(From(P, p) \ {p}) = Cardinality(From(P, p)) - 1
             /\ IsFiniteSet(From(P, p) \ {p}) /\ Cardinality(From(P, p) \ {p}) \in Nat
  <2>1. IsFiniteSet(P) /\ From(P, p) \subseteq P /\ p \in From(P, p)
    BY DEF IsPlaces, From
  <2>2. IsFiniteSet(From(P, p)) /\ Cardinality(From(P, p)) <= Cardinality(P)
    BY <2>1, FS_Subset
  <2>3. /\ IsFiniteSet(From(P, p) \ {p})
        /\ Cardinality(From(P, p) \ {p}) = Cardinality(From(P, p)) - 1
    BY <2>1, <2>2, FS_RemoveElement
  <2>4. /\ Cardinality(From(P, p)) \in Nat /\ Cardinality(P) \in Nat
        /\ Cardinality(From(P, p) \ {p}) \in Nat
    BY <2>1, <2>2, <2>3, FS_CardinalityType
  <2>. QED BY <2>1, <2>2, <2>3, <2>4
<1>2. ASSUME NEW p \in P, NEW q \in P, Before(p, q)
      PROVE  Cardinality(From(P, q)) < Cardinality(From(P, p))
  <2>1. From(P, q) \subseteq From(P, p) \ {p}
    <3> SUFFICES ASSUME NEW x \in From(P, q) PROVE x \in From(P, p) /\ x # p
      OBVIOUS
    <3>1. x \in P /\ (x = q \/ Before(q, x))
      BY DEF From
    <3>2. p[1] \in Int /\ p[2] \in Int /\ q[1] \in Int /\ q[2] \in Int /\ x[1] \in Int /\ x[2] \in Int
      BY <3>1 DEF IsPlaces
    <3>3. Before(p, x)
      BY <1>2, <3>1, <3>2 DEF Before
    <3>4. x # p
      BY <3>2, <3>3 DEF Before
    <3>. QED BY <3>1, <3>3, <3>4 DEF From
  <2>2. Cardinality(From(P, q)) <= Cardinality(From(P, p) \ {p})
    BY <1>1, <2>1, FS_Subset
  <2>3. PICK c, d, e : c = Cardinality(From(P, p)) /\ d = Cardinality(From(P, q))
                       /\ e = Cardinality(From(P, p) \ {p})
    OBVIOUS
  <2>4. c \in Nat /\ d \in Nat /\ e = c - 1 /\ d <= e
    BY <1>1, <2>2, <2>3
  <2>5. d < c
    BY <2>4
  <2>. QED BY <2>3, <2>5
<1>3. ASSUME NEW p \in P, NEW q \in P, p # q PROVE Before(p, q) \/ Before(q, p)
  <2>1. /\ p = <<p[1], p[2]>> /\ q = <<q[1], q[2]>>
        /\ p[1] \in Int /\ p[2] \in Int /\ q[1] \in Int /\ q[2] \in Int
    BY DEF IsPlaces
  <2>2. p[1] # q[1] \/ p[2] # q[2]
    BY <1>3, <2>1
  <2>. QED BY <2>1, <2>2 DEF Before
<1>4. ASSUME NEW p \in P, NEW q \in P, p # q
      PROVE  Cardinality(From(P, p)) # Cardinality(From(P, q))
  <2>1. PICK c, d : c = Cardinality(From(P, p)) /\ d = Cardinality(From(P, q))
    OBVIOUS
  <2>2. c \in Nat /\ d \in Nat
    BY <1>1, <2>1
  <2>3. c < d \/ d < c
    BY <1>2, <1>3, <1>4, <2>1
  <2>4. c # d
    BY <2>2, <2>3
  <2>. QED BY <2>1, <2>4
<1>5. ASSUME NEW p \in P PROVE Cardinality(From(P, p)) \in 1 .. Cardinality(P)
  <2>1. PICK c, d : c = Cardinality(From(P, p)) /\ d = Cardinality(P)
    OBVIOUS
  <2>2. c \in Nat /\ d \in Nat /\ c >= 1 /\ c <= d
    BY <1>1, <2>1
  <2>3. c \in 1 .. d
    BY <2>2
  <2>. QED BY <2>1, <2>3
<1>. QED BY <1>4, <1>5, Zenon

\* Function f goes through the places of P, each once.
Visits(f, P) ==
  /\ f \in [1 .. Cardinality(P) -> P]
  /\ \A i, j \in 1 .. Cardinality(P) : f[i] = f[j] => i = j
  /\ \A p \in P : \E i \in 1 .. Cardinality(P) : f[i] = p

LEMMA PushAllFacts ==
  ASSUME NEW m, NEW P, IsPlaces(P)
  PROVE  \E f : /\ Visits(f, P)
                /\ PushAll(m, P) = [i \in 1 .. Cardinality(P) |-> Node(m, f[i])]
<1> DEFINE n == Cardinality(P)
           rank == [p \in P |-> Cardinality(From(P, p))]
           f == [i \in 1 .. n |-> CHOOSE p \in P : Cardinality(From(P, p)) = i]
<1>1. n \in Nat /\ IsFiniteSet(P)
  BY FS_CardinalityType DEF IsPlaces
<1>2. rank \in [P -> 1 .. n] /\ \A p, q \in P : rank[p] = rank[q] => p = q
  BY RankFacts
<1>3. IsFiniteSet(1 .. n) /\ Cardinality(1 .. n) = n
  BY <1>1, FS_Interval
<1>4. rank \in Surjection(P, 1 .. n)
  <2> HIDE DEF rank, n
  <2>1. rank \in Injection(P, 1 .. n)
    BY <1>2 DEF Injection, IsInjective
  <2>. QED BY <1>1, <1>3, <2>1, FS_Injection DEF n
<1>5. \A i \in 1 .. n : \E p \in P : Cardinality(From(P, p)) = i
  BY <1>4 DEF Surjection
<1>6. \A i \in 1 .. n : f[i] \in P /\ Cardinality(From(P, f[i])) = i
  BY <1>5
<1>7. f \in [1 .. n -> P]
  BY <1>6
<1>8. PushAll(m, P) = [i \in 1 .. n |-> Node(m, f[i])]
  BY DEF PushAll, From
<1> HIDE DEF f
<1>9. Visits(f, P)
  <2>1. \A i, j \in 1 .. n : f[i] = f[j] => i = j
    BY <1>6
  <2>2. ASSUME NEW p \in P PROVE \E i \in 1 .. n : f[i] = p
    <3>1. PICK i \in 1 .. n : i = Cardinality(From(P, p))
      BY RankFacts
    <3>2. f[i] = p
      BY <1>6, <3>1, RankFacts
    <3>. QED BY <3>2
  <2>. QED BY <1>7, <2>1, <2>2 DEF Visits
<1>. QED BY <1>8, <1>9

\* The chain of bucket b after a rehash.
LEMMA NewChain ==
  ASSUME NEW m, Sound(m), IsFiniteSet(Places(m)), NEW n \in Nat \ {0}, NEW b \in 0 .. n - 1
  PROVE  /\ ChainOK(PushAll(m, Hashing(m, n, b)), b, n)
         /\ \A x : InChain(x, PushAll(m, Hashing(m, n, b)))
                     <=> \E p \in Hashing(m, n, b) : x = Node(m, p)
<1>1. PICK P : P = Hashing(m, n, b)
  OBVIOUS
<1>2. P \subseteq Places(m) /\ \A p \in P : BucketOf(Node(m, p)[1], n) = b
  BY <1>1 DEF Hashing
<1>3. IsPlaces(P)
  <2>1. IsFiniteSet(P)
    BY <1>2, FS_Subset
  <2>2. ASSUME NEW p \in P PROVE p = <<p[1], p[2]>> /\ p[1] \in Int /\ p[2] \in Int
    BY <1>2, PlaceFacts
  <2>. QED BY <2>1, <2>2 DEF IsPlaces
<1>4. PICK f : /\ Visits(f, P)
               /\ PushAll(m, P) = [i \in 1 .. Cardinality(P) |-> Node(m, f[i])]
  BY <1>3, PushAllFacts
<1>5. PICK c : c = PushAll(m, P)
  OBVIOUS
<1>6. PICK l \in Nat : l = Cardinality(P)
  BY <1>3, FS_CardinalityType DEF IsPlaces
<1>7. /\ \A i \in 1 .. l : f[i] \in P
      /\ \A i, j \in 1 .. l : f[i] = f[j] => i = j
      /\ \A p \in P : \E i \in 1 .. l : f[i] = p
  BY <1>4, <1>6 DEF Visits
<1>8. c \in Seq(Keys \X Rows) /\ Len(c) = l /\ \A i \in 1 .. l : c[i] = Node(m, f[i])
  <2>1. \A i \in 1 .. l : Node(m, f[i]) \in Keys \X Rows
    BY <1>2, <1>7, PlaceFacts
  <2>2. c = [i \in 1 .. l |-> Node(m, f[i])]
    BY <1>4, <1>5, <1>6
  <2>3. c \in [1 .. l -> Keys \X Rows]
    BY <2>1, <2>2
  <2>. QED BY <2>2, <2>3
<1>9. ChainOK(c, b, n)
  <2>1. \A i \in 1 .. Len(c) : BucketOf(c[i][1], n) = b
    BY <1>2, <1>7, <1>8
  <2>2. ASSUME NEW i \in 1 .. Len(c), NEW j \in 1 .. Len(c), c[i][1] = c[j][1] PROVE i = j
    <3>1. f[i] \in Places(m) /\ f[j] \in Places(m) /\ Node(m, f[i])[1] = Node(m, f[j])[1]
      BY <1>2, <1>7, <1>8, <2>2
    <3>2. f[i] = f[j]
      BY <3>1, OnePlace
    <3>. QED BY <1>7, <1>8, <3>2
  <2>. QED BY <1>8, <2>1, <2>2 DEF ChainOK
<1>10. \A x : InChain(x, c) <=> \E p \in P : x = Node(m, p)
  BY <1>7, <1>8 DEF InChain
<1>. QED BY <1>1, <1>5, <1>9, <1>10, Zenon

\* A rehash keeps every node and puts it where find will look for it.
LEMMA RehashFacts ==
  ASSUME Hashes, NEW m, Sound(m), IsFiniteSet(Places(m)), NEW n \in Nat \ {0},
         NEW m2 \in rehash_rows(m, n)
  PROVE  Sound(m2) /\ Nodes(m2) = Nodes(m)
<1>1. CASE m2 = m
  BY <1>1
<1>2. CASE m2 = [bucketCount |-> n,
                 buckets |-> [b \in 0 .. n - 1 |-> PushAll(m, Hashing(m, n, b))]]
  <2>1. /\ DOMAIN m2 = {"bucketCount", "buckets"} /\ m2.bucketCount = n
        /\ DOMAIN m2.buckets = 0 .. n - 1
        /\ \A b \in 0 .. n - 1 : m2.buckets[b] = PushAll(m, Hashing(m, n, b))
    BY <1>2
  <2>2. \A b \in 0 .. n - 1 : ChainOK(m2.buckets[b], b, n)
    BY <2>1, NewChain
  <2>3. Sound(m2)
    BY <2>1, <2>2 DEF Sound
  <2>4. ASSUME NEW x \in Nodes(m2) PROVE x \in Nodes(m)
    <3>1. PICK p \in Places(m2) : x = Node(m2, p)
      BY DEF Nodes
    <3>2. PICK b : b = p[1] /\ b \in 0 .. n - 1 /\ InChain(x, m2.buckets[b])
      BY <2>1, <2>3, <3>1, PlaceFacts DEF InChain
    <3>3. InChain(x, PushAll(m, Hashing(m, n, b)))
      BY <2>1, <3>2
    <3>4. PICK q \in Hashing(m, n, b) : x = Node(m, q)
      BY <3>2, <3>3, NewChain
    <3>. QED BY <3>4 DEF Hashing, Nodes
  <2>5. ASSUME NEW x \in Nodes(m) PROVE x \in Nodes(m2)
    <3>1. PICK p \in Places(m) : x = Node(m, p)
      BY DEF Nodes
    <3>2. PICK b : b = BucketOf(Node(m, p)[1], n)
      OBVIOUS
    <3>3. b \in 0 .. n - 1 /\ p \in Hashing(m, n, b)
      <4>1. Node(m, p)[1] \in Keys
        BY PlaceFacts
      <4>2. b \in 0 .. n - 1
        BY <3>2, <4>1, BucketFacts
      <4>. QED BY <3>2, <4>2 DEF Hashing
    <3>4. InChain(x, PushAll(m, Hashing(m, n, b)))
      BY <3>1, <3>3, NewChain
    <3>5. InChain(x, m2.buckets[b])
      BY <2>1, <3>3, <3>4
    <3>6. PICK i \in 1 .. Len(m2.buckets[b]) : x = m2.buckets[b][i]
      BY <3>5 DEF InChain
    <3>7. b \in 0 .. m2.bucketCount - 1
      BY <2>1, <3>3
    <3>8. m2.buckets[b][i] \in Nodes(m2)
      BY <2>3, <3>7, NodesOfChain
    <3>. QED BY <3>6, <3>8
  <2>. QED BY <2>3, <2>4, <2>5
<1>. QED BY <1>1, <1>2 DEF rehash_rows

\* A new map is sound and empty.
LEMMA CreateFacts ==
  ASSUME NEW n \in Nat \ {0}
  PROVE  Sound(row_hashmap_create(n)) /\ Nodes(row_hashmap_create(n)) = {}
<1>1. PICK m : m = row_hashmap_create(n)
  OBVIOUS
<1>2. /\ DOMAIN m = {"bucketCount", "buckets"} /\ m.bucketCount = n
      /\ DOMAIN m.buckets = 0 .. n - 1 /\ \A b \in 0 .. n - 1 : m.buckets[b] = <<>>
  BY <1>1 DEF row_hashmap_create
<1>3. \A b \in 0 .. n - 1 : m.buckets[b] \in Seq(Keys \X Rows) /\ Len(m.buckets[b]) = 0
  BY <1>2
<1>4. Sound(m)
  BY <1>2, <1>3 DEF Sound, ChainOK
<1>5. Nodes(m) = {}
  <2> SUFFICES ASSUME NEW p \in Places(m) PROVE FALSE
    BY DEF Nodes
  <2>1. p[1] \in 0 .. n - 1 /\ p[2] \in 1 .. Len(m.buckets[p[1]])
    BY <1>2, <1>4, PlaceFacts
  <2>. QED BY <1>3, <2>1
<1>. QED BY <1>1, <1>4, <1>5

\* A sound map has as many places as nodes: no two places hold the same node.
LEMMA PlaceCount ==
  ASSUME NEW m, Sound(m), IsFiniteSet(Nodes(m))
  PROVE  IsFiniteSet(Places(m)) /\ Cardinality(Places(m)) = Cardinality(Nodes(m))
<1> DEFINE f == [p \in Places(m) |-> Node(m, p)]
<1>1. f \in [Places(m) -> Nodes(m)]
  BY DEF Nodes
<1>2. \A p, q \in Places(m) : f[p] = f[q] => p = q
  BY OnePlace
<1>3. \A x \in Nodes(m) : \E p \in Places(m) : f[p] = x
  BY DEF Nodes
<1> HIDE DEF f
<1>4. f \in Injection(Places(m), Nodes(m)) /\ f \in Surjection(Places(m), Nodes(m))
  BY <1>1, <1>2, <1>3 DEF Injection, IsInjective, Surjection
<1>. QED BY <1>4, FS_Injection

\* A chain is not longer than the map.
LEMMA ChainLength ==
  ASSUME NEW m, Sound(m), IsFiniteSet(Nodes(m)), NEW b \in 0 .. m.bucketCount - 1
  PROVE  Len(m.buckets[b]) <= Cardinality(Nodes(m))
<1>1. PICK n \in Nat : n = Len(m.buckets[b])
  BY PlaceFacts
<1> DEFINE f == [i \in 1 .. n |-> <<b, i>>]
<1>2. f \in [1 .. n -> Places(m)] /\ \A i, j \in 1 .. n : f[i] = f[j] => i = j
  BY <1>1, PlaceFacts
<1> HIDE DEF f
<1>3. f \in Injection(1 .. n, Places(m))
  BY <1>2 DEF Injection, IsInjective
<1>4. Cardinality(1 .. n) <= Cardinality(Places(m))
  BY <1>3, PlaceCount, FS_Injection
<1>5. Cardinality(1 .. n) = n
  BY FS_Interval
<1>. QED BY <1>1, <1>4, <1>5, PlaceCount

-----------------------------------------------------------------------------
(* The iterator *)

Place(i) == <<i.bucketIndex, i.node>>

OnPlace(m, i) ==
  i = [bucketIndex |-> i.bucketIndex, node |-> i.node] /\ Place(i) \in Places(m)

AtEnd(m) == [bucketIndex |-> m.bucketCount, node |-> 0]

\* Position j is the first place after i, or the end when there is none.
Advances(m, i, j) ==
  \/ /\ OnPlace(m, j) /\ j.node # 0 /\ Before(Place(i), Place(j))
     /\ \A q \in Places(m) : Before(Place(i), q) => q = Place(j) \/ Before(Place(j), q)
  \/ /\ j = AtEnd(m) /\ \A q \in Places(m) : ~Before(Place(i), q)

\* A set of numbers of buckets has a minimum.
LEMMA LeastBucket ==
  ASSUME NEW T \in SUBSET Nat, T # {}
  PROVE  Min(T) \in T /\ \A y \in T : Min(T) <= y
<1> DEFINE R == OpToRel(<, Nat)
<1>1. IsWellFoundedOn(R, Nat)
  BY NatLessThanWellFounded
<1>2. \A x, y \in Nat : <<y, x>> \in R <=> y < x
  BY DEF OpToRel
<1> HIDE DEF R
<1>3. PICK x \in T : \A y \in T : ~(<<y, x>> \in R)
  BY <1>1, WFMin
<1>4. ASSUME NEW y \in T PROVE x <= y
  <2>1. x \in Nat /\ y \in Nat /\ ~(y < x)
    BY <1>2, <1>3
  <2>. QED BY <2>1
<1>. QED BY <1>4 DEF Min

LEMMA NextFacts ==
  ASSUME NEW m, Sound(m), NEW i, i = BeforeFirst \/ OnPlace(m, i)
  PROVE  Advances(m, i, row_hashmap_iter_next(m, i))
<1>1. PICK b, n : b = i.bucketIndex /\ n = i.node
  OBVIOUS
<1>2. m.bucketCount \in Nat \ {0}
  BY DEF Sound
<1>3. /\ i = [bucketIndex |-> b, node |-> n] /\ Place(i) = <<b, n>>
      /\ \/ b = -1 /\ n = 0
         \/ b \in 0 .. m.bucketCount - 1 /\ n \in 1 .. Len(m.buckets[b])
  <2>1. CASE i = BeforeFirst
    BY <1>1, <2>1 DEF BeforeFirst, Place
  <2>2. CASE OnPlace(m, i)
    BY <1>1, <2>2, PlaceFacts DEF OnPlace, Place
  <2>. QED BY <2>1, <2>2
<1>4. b \in Int /\ n \in Nat
  BY <1>3, PlaceFacts
<1>5. PICK j : j = row_hashmap_iter_next(m, i)
  OBVIOUS
<1>6. ASSUME NEW q \in Places(m)
      PROVE  /\ q = <<q[1], q[2]>> /\ q[1] \in 0 .. m.bucketCount - 1 /\ q[2] \in Nat \ {0}
             /\ q[2] <= Len(m.buckets[q[1]]) /\ Len(m.buckets[q[1]]) \in Nat
             /\ m.buckets[q[1]] # <<>>
             /\ \A x, y : Before(<<x, y>>, q) <=> (x < q[1] \/ (x = q[1] /\ y < q[2]))
  <2>1. /\ q = <<q[1], q[2]>> /\ q[1] \in 0 .. m.bucketCount - 1
        /\ q[2] \in 1 .. Len(m.buckets[q[1]]) /\ Len(m.buckets[q[1]]) \in Nat
    BY PlaceFacts
  <2>2. m.buckets[q[1]] # <<>>
    BY <2>1
  <2>3. \A x, y : Before(<<x, y>>, q) <=> (x < q[1] \/ (x = q[1] /\ y < q[2]))
    BY DEF Before
  <2>. QED BY <2>1, <2>2, <2>3
<1>7. CASE n # 0 /\ n < Len(m.buckets[b])
  <2>1. j = [bucketIndex |-> b, node |-> n + 1]
    BY <1>3, <1>5, <1>7 DEF row_hashmap_iter_next
  <2>2. b \in 0 .. m.bucketCount - 1 /\ n + 1 \in 1 .. Len(m.buckets[b])
    BY <1>3, <1>7, PlaceFacts
  <2>3. Place(j) = <<b, n + 1>> /\ j.node # 0 /\ OnPlace(m, j)
    BY <1>4, <2>1, <2>2, PlaceFacts DEF Place, OnPlace
  <2>4. Before(Place(i), Place(j))
    BY <1>3, <1>4, <2>3 DEF Before
  <2>5. ASSUME NEW q \in Places(m), Before(Place(i), q)
        PROVE  q = Place(j) \/ Before(Place(j), q)
    <3>1. b < q[1] \/ (b = q[1] /\ n < q[2])
      BY <1>3, <1>6, <2>5
    <3>2. b < q[1] \/ (b = q[1] /\ (n + 1 = q[2] \/ n + 1 < q[2]))
      BY <1>4, <1>6, <3>1
    <3>3. q = <<b, n + 1>> \/ Before(<<b, n + 1>>, q)
      BY <1>6, <3>2
    <3>. QED BY <2>3, <3>3
  <2>. QED BY <1>5, <2>3, <2>4, <2>5 DEF Advances
<1>8. CASE ~(n # 0 /\ n < Len(m.buckets[b]))
  <2>1. PICK later : later = {d \in b + 1 .. m.bucketCount - 1 : m.buckets[d] # <<>>}
    OBVIOUS
  <2>2. j = IF later = {} THEN AtEnd(m) ELSE [bucketIndex |-> Min(later), node |-> 1]
    BY <1>1, <1>5, <1>8, <2>1 DEF row_hashmap_iter_next, AtEnd
  <2>3. ASSUME NEW q \in Places(m), Before(Place(i), q) PROVE q[1] \in later /\ b < q[1]
    <3>1. b < q[1] \/ (b = q[1] /\ n < q[2])
      BY <1>3, <1>6, <2>3
    <3>2. b < q[1]
      BY <1>3, <1>4, <1>6, <1>8, <3>1
    <3>. QED BY <1>2, <1>4, <1>6, <2>1, <3>2
  <2>4. CASE later = {}
    <3>1. j = AtEnd(m)
      BY <2>2, <2>4
    <3>2. \A q \in Places(m) : ~Before(Place(i), q)
      BY <2>3, <2>4
    <3>. QED BY <1>5, <3>1, <3>2 DEF Advances
  <2>5. CASE later # {}
    <3>1. PICK l : l = Min(later)
      OBVIOUS
    <3>2. later \in SUBSET Nat
      BY <1>3, <1>4, <2>1
    <3>3. l \in later /\ \A d \in later : l <= d
      BY <2>5, <3>1, <3>2, LeastBucket
    <3>4. l \in 0 .. m.bucketCount - 1 /\ b < l /\ m.buckets[l] # <<>>
      BY <1>2, <1>3, <1>4, <2>1, <3>3
    <3>5. Len(m.buckets[l]) \in Nat /\ m.buckets[l] \in Seq(Keys \X Rows)
      BY <3>4, PlaceFacts
    <3>6. 1 \in 1 .. Len(m.buckets[l])
      BY <3>4, <3>5, EmptySeq
    <3>7. j = [bucketIndex |-> l, node |-> 1]
      BY <2>2, <2>5, <3>1
    <3>8. Place(j) = <<l, 1>> /\ j.node # 0 /\ OnPlace(m, j)
      BY <3>4, <3>6, <3>7, PlaceFacts DEF Place, OnPlace
    <3>9. Before(Place(i), Place(j))
      BY <1>3, <3>4, <3>8 DEF Before
    <3>10. ASSUME NEW q \in Places(m), Before(Place(i), q)
           PROVE  q = Place(j) \/ Before(Place(j), q)
      <4>1. l <= q[1]
        BY <2>3, <3>3, <3>10
      <4>2. l < q[1] \/ (l = q[1] /\ (1 = q[2] \/ 1 < q[2]))
        BY <1>6, <3>4, <4>1
      <4>3. q = <<l, 1>> \/ Before(<<l, 1>>, q)
        BY <1>6, <4>2
      <4>. QED BY <3>8, <4>3
    <3>. QED BY <1>5, <3>8, <3>9, <3>10 DEF Advances
  <2>. QED BY <2>4, <2>5
<1>. QED BY <1>7, <1>8

-----------------------------------------------------------------------------
(* What the map holds, and what a scan has still to return *)

ContentsOf(m) == [k \in KeysOf(m) |-> row_hashmap_find(m, k)[2]]

\* f is the rows of the nodes S by key.
IsContents(f, S) ==
  /\ f = [k \in DOMAIN f |-> f[k]]
  /\ \A k : k \in DOMAIN f <=> \E x \in S : x[1] = k
  /\ \A x \in S : f[x[1]] = x[2]

\* The nodes S have each a key of its own.
Distinct(S) ==
  /\ S \subseteq Keys \X Rows
  /\ \A x, y \in S : x[1] = y[1] => x = y

LEMMA ContentsFacts ==
  ASSUME Hashes, NEW m, Sound(m)
  PROVE  /\ IsContents(ContentsOf(m), Nodes(m)) /\ Distinct(Nodes(m))
         /\ DOMAIN ContentsOf(m) = KeysOf(m)
<1>1. /\ ContentsOf(m) = [k \in KeysOf(m) |-> ContentsOf(m)[k]] /\ DOMAIN ContentsOf(m) = KeysOf(m)
      /\ \A k \in KeysOf(m) : ContentsOf(m)[k] = row_hashmap_find(m, k)[2]
  BY DEF ContentsOf
<1>2. \A k : k \in KeysOf(m) <=> \E x \in Nodes(m) : x[1] = k
  BY DEF KeysOf
<1>3. ASSUME NEW x \in Nodes(m)
      PROVE  x \in Keys \X Rows /\ x[1] \in Keys /\ row_hashmap_find(m, x[1]) = x
  <2>1. x \in Keys \X Rows
    BY NodesOfChain
  <2>2. x[1] \in Keys
    BY <2>1
  <2>3. FindsNode(m, x[1], x)
    BY <2>2, FindFacts
  <2>. QED BY <2>1, <2>2, <2>3 DEF FindsNode
<1>4. \A x \in Nodes(m) : ContentsOf(m)[x[1]] = x[2]
  BY <1>1, <1>2, <1>3
<1>5. Distinct(Nodes(m))
  BY <1>3 DEF Distinct
<1>6. IsContents(ContentsOf(m), Nodes(m))
  BY <1>1, <1>2, <1>4 DEF IsContents
<1>. QED BY <1>1, <1>5, <1>6

\* The contents with a node more, with one less, and with one written.
LEMMA ContentsAdd ==
  ASSUME NEW S, Distinct(S), NEW f, IsContents(f, S), NEW k \in Keys, NEW r \in Rows,
         k \notin DOMAIN f, NEW g, IsContents(g, S \cup {<<k, r>>})
  PROVE  g = [j \in DOMAIN f \cup {k} |-> IF j = k THEN r ELSE f[j]]
<1>1. DOMAIN g = DOMAIN f \cup {k}
  <2>1. ASSUME NEW j \in DOMAIN g PROVE j \in DOMAIN f \cup {k}
    BY DEF IsContents
  <2>2. ASSUME NEW j \in DOMAIN f \cup {k} PROVE j \in DOMAIN g
    <3>a. <<k, r>>[1] = k
      OBVIOUS
    <3>1. PICK n : n = <<k, r>> /\ n[1] = k
      BY <3>a
    <3>2. PICK y \in S \cup {<<k, r>>} : y[1] = j
      BY <3>1 DEF IsContents
    <3>. QED BY <3>2 DEF IsContents
  <2>. QED BY <2>1, <2>2
<1>2. ASSUME NEW j \in DOMAIN g PROVE g[j] = IF j = k THEN r ELSE f[j]
  <2>1. CASE j = k
    BY <2>1 DEF IsContents
  <2>2. CASE j # k
    <3>1. PICK x \in S : x[1] = j
      BY <1>1, <2>2 DEF IsContents
    <3>2. g[j] = x[2] /\ f[j] = x[2]
      BY <3>1 DEF IsContents
    <3>. QED BY <2>2, <3>2
  <2>. QED BY <2>1, <2>2
<1>3. g = [j \in DOMAIN g |-> g[j]]
  BY DEF IsContents
<1>. QED BY <1>1, <1>2, <1>3

LEMMA ContentsRemove ==
  ASSUME NEW S, Distinct(S), NEW f, IsContents(f, S), NEW x \in S,
         NEW g, IsContents(g, S \ {x})
  PROVE  g = [j \in DOMAIN f \ {x[1]} |-> f[j]]
<1>1. DOMAIN g = DOMAIN f \ {x[1]}
  <2>1. ASSUME NEW j \in DOMAIN g PROVE j \in DOMAIN f /\ j # x[1]
    <3>1. PICK y \in S \ {x} : y[1] = j
      BY DEF IsContents
    <3>. QED BY <3>1 DEF IsContents, Distinct
  <2>2. ASSUME NEW j \in DOMAIN f, j # x[1] PROVE j \in DOMAIN g
    <3>1. PICK y \in S : y[1] = j
      BY DEF IsContents
    <3>2. y \in S \ {x}
      BY <2>2, <3>1
    <3>. QED BY <3>1, <3>2 DEF IsContents
  <2>. QED BY <2>1, <2>2
<1>2. ASSUME NEW j \in DOMAIN g PROVE g[j] = f[j]
  <2>1. PICK y \in S \ {x} : y[1] = j
    BY DEF IsContents
  <2>. QED BY <2>1 DEF IsContents
<1>3. g = [j \in DOMAIN g |-> g[j]]
  BY DEF IsContents
<1>. QED BY <1>1, <1>2, <1>3

LEMMA ContentsWrite ==
  ASSUME NEW S, Distinct(S), NEW f, IsContents(f, S), NEW x \in S, NEW r,
         NEW g, IsContents(g, (S \ {x}) \cup {<<x[1], r>>})
  PROVE  g = [f EXCEPT ![x[1]] = r]
<1>0. PICK k, n : k = x[1] /\ n = <<k, r>>
  OBVIOUS
<1>a. n[1] = k /\ n[2] = r /\ IsContents(g, (S \ {x}) \cup {n})
  BY <1>0
<1>1. DOMAIN g = DOMAIN f
  <2>1. ASSUME NEW j \in DOMAIN f PROVE j \in DOMAIN g
    BY <1>0, <1>a DEF IsContents
  <2>2. ASSUME NEW j \in DOMAIN g PROVE j \in DOMAIN f
    BY <1>0, <1>a DEF IsContents
  <2>. QED BY <2>1, <2>2
<1>2. g[k] = r
  BY <1>a DEF IsContents
<1>3. ASSUME NEW j \in DOMAIN g, j # k PROVE g[j] = f[j]
  <2>1. PICK y \in (S \ {x}) \cup {n} : y[1] = j
    BY <1>a DEF IsContents
  <2>2. y \in S
    BY <1>3, <1>a, <2>1
  <2>. QED BY <1>a, <2>1, <2>2 DEF IsContents
<1>4. g = [j \in DOMAIN g |-> g[j]] /\ f = [j \in DOMAIN f |-> f[j]]
  BY DEF IsContents
<1>. QED BY <1>0, <1>1, <1>2, <1>3, <1>4

\* The keys of the nodes after position i.
AfterKeys(m, i) == {Node(m, p)[1] : p \in {q \in Places(m) : Before(Place(i), q)}}

\* A step of the scan takes one key from those that are left.
Yields(m, i, j) ==
  \/ /\ j.node # 0 /\ m.buckets[j.bucketIndex][j.node] \in Nodes(m)
     /\ m.buckets[j.bucketIndex][j.node][1] \in AfterKeys(m, i)
     /\ AfterKeys(m, j) = AfterKeys(m, i) \ {m.buckets[j.bucketIndex][j.node][1]}
  \/ j.node = 0 /\ AfterKeys(m, i) = {}

LEMMA ScanFacts ==
  ASSUME NEW m, Sound(m), NEW i, i = BeforeFirst \/ OnPlace(m, i), NEW j, Advances(m, i, j)
  PROVE  Yields(m, i, j)
<1>1. CASE j = AtEnd(m) /\ \A q \in Places(m) : ~Before(Place(i), q)
  BY <1>1 DEF AtEnd, AfterKeys, Yields
<1>2. CASE /\ OnPlace(m, j) /\ j.node # 0 /\ Before(Place(i), Place(j))
           /\ \A q \in Places(m) : Before(Place(i), q) => q = Place(j) \/ Before(Place(j), q)
  <2>1. PICK p : p = Place(j) /\ p \in Places(m) /\ Before(Place(i), p) /\ Before(Place(i), Place(j))
    BY <1>2 DEF OnPlace
  <2>2. PICK x : x = Node(m, p) /\ x \in Nodes(m) /\ x = m.buckets[j.bucketIndex][j.node]
    <3>1. p[1] = j.bucketIndex /\ p[2] = j.node
      BY <2>1 DEF Place
    <3>2. Node(m, p) = m.buckets[j.bucketIndex][j.node]
      BY <3>1 DEF Node
    <3>3. Node(m, p) \in Nodes(m)
      BY <2>1, Zenon DEF Nodes
    <3>. QED BY <3>2, <3>3
  <2>3. x[1] \in AfterKeys(m, i)
    BY <2>1, <2>2 DEF AfterKeys
  <2>4. PICK u, v, c, d : Place(i) = <<u, v>> /\ p = <<c, d>>
                          /\ u \in Int /\ v \in Int /\ c \in Int /\ d \in Int
    <3>1. \E c, d \in Int : p = <<c, d>>
      BY <2>1, PlaceFacts
    <3>2. \E u, v \in Int : Place(i) = <<u, v>>
      <4>1. CASE i = BeforeFirst
        BY <4>1 DEF BeforeFirst, Place
      <4>2. CASE OnPlace(m, i)
        BY <4>2, PlaceFacts DEF OnPlace
      <4>. QED BY <4>1, <4>2
    <3>. QED BY <3>1, <3>2
  <2>5. ASSUME NEW q \in Places(m)
        PROVE  Before(p, q) <=> Before(Place(i), q) /\ q # p
    <3>1. q = <<q[1], q[2]>> /\ q[1] \in Int /\ q[2] \in Int
      BY PlaceFacts
    <3>2. Before(p, q) => q # p
      BY <2>4, <3>1 DEF Before
    <3>3. Before(p, q) => Before(Place(i), q)
      BY <2>1, <2>4, <3>1 DEF Before
    <3>4. Before(Place(i), q) /\ q # p => Before(p, q)
      BY <1>2, <2>1
    <3>. QED BY <3>2, <3>3, <3>4
  <2>6. AfterKeys(m, j) = AfterKeys(m, i) \ {x[1]}
    <3>1. ASSUME NEW k \in AfterKeys(m, j) PROVE k \in AfterKeys(m, i) /\ k # x[1]
      <4>1. PICK q \in Places(m) : Before(p, q) /\ k = Node(m, q)[1]
        BY <2>1 DEF AfterKeys
      <4>2. Before(Place(i), q) /\ q # p
        BY <2>5, <4>1
      <4>3. k # x[1]
        BY <2>1, <2>2, <4>1, <4>2, OnePlace
      <4>. QED BY <4>1, <4>2, <4>3 DEF AfterKeys
    <3>2. ASSUME NEW k \in AfterKeys(m, i), k # x[1] PROVE k \in AfterKeys(m, j)
      <4>1. PICK q \in Places(m) : Before(Place(i), q) /\ k = Node(m, q)[1]
        BY DEF AfterKeys
      <4>2. q # p
        BY <2>2, <3>2, <4>1
      <4>3. Before(Place(j), q)
        BY <2>1, <2>5, <4>1, <4>2
      <4>. QED BY <4>1, <4>3 DEF AfterKeys
    <3>. QED BY <3>1, <3>2
  <2>. QED BY <1>2, <2>2, <2>3, <2>6 DEF Yields
<1>. QED BY <1>1, <1>2 DEF Advances

LEMMA FirstFacts ==
  ASSUME NEW m, Sound(m)
  PROVE  AfterKeys(m, BeforeFirst) = KeysOf(m)
<1>1. ASSUME NEW q \in Places(m) PROVE Before(Place(BeforeFirst), q)
  <2>1. q[1] \in Nat
    BY PlaceFacts
  <2>2. Place(BeforeFirst) = <<-1, 0>>
    BY DEF Place, BeforeFirst
  <2>. QED BY <2>1, <2>2 DEF Before
<1>. QED BY <1>1 DEF AfterKeys, KeysOf, Nodes

-----------------------------------------------------------------------------
(* The invariant *)

\* A sound map m of n nodes, with its iterator at i: before the first place,
\* at the end, or, in a scan, at a place.
MapState(m, n, i, s) ==
  /\ Sound(m)
  /\ IsFiniteSet(Nodes(m)) /\ n = Cardinality(Nodes(m))
  /\ \/ s = FALSE /\ (i = BeforeFirst \/ i = AtEnd(m))
     \/ s = TRUE /\ OnPlace(m, i)

MapInv == Hashes /\ MapState(map, rowsCount, it, scan)

\* An insert adds one node, or fails and changes nothing.
LEMMA InsertFacts ==
  ASSUME MapInv, NEW k \in Keys, NEW r \in Rows, InsertRow(k, r)
  PROVE  /\ k \notin KeysOf(map)
         /\ \/ /\ Sound(map') /\ Nodes(map') = Nodes(map) \cup {<<k, r>>}
               /\ rowsCount' = rowsCount + 1 /\ out' = OK
            \/ map' = map /\ rowsCount' = rowsCount /\ out' = FAILED
<1>1. Hashes /\ Sound(map) /\ IsFiniteSet(Nodes(map))
  BY DEF MapInv, MapState
<1>2. k \notin KeysOf(map)
  BY <1>1, FindNull DEF InsertRow
<1>3. ASSUME NEW m2 \in row_hashmap_insert(map, k, r, rowsCount + 1)
      PROVE  Sound(m2) /\ Nodes(m2) = Nodes(map) \cup {<<k, r>>}
  <2>1. PICK p : p = [map EXCEPT !.buckets[BucketOf(k, map.bucketCount)] = <<<<k, r>>>> \o @]
    OBVIOUS
  <2>2. Sound(p) /\ Nodes(p) = Nodes(map) \cup {<<k, r>>}
    BY <1>1, <1>2, <2>1, PushFacts
  <2>3. IsFiniteSet(Places(p))
    BY <1>1, <2>2, FS_AddElement, PlaceCount
  <2>4. 2 * map.bucketCount \in Nat \ {0}
    BY <1>1 DEF Sound
  <2>5. m2 = p \/ m2 \in rehash_rows(p, 2 * map.bucketCount)
    BY <2>1 DEF row_hashmap_insert
  <2>6. CASE m2 \in rehash_rows(p, 2 * map.bucketCount)
    BY <1>1, <2>2, <2>3, <2>4, <2>6, RehashFacts
  <2>. QED BY <2>2, <2>5, <2>6
<1>. QED BY <1>2, <1>3 DEF InsertRow

\* A write replaces the node of the key, or there is none.
LEMMA WriteRowFacts ==
  ASSUME MapInv, NEW k \in Keys, NEW r \in Rows, WriteRow(k, r)
  PROVE  /\ rowsCount' = rowsCount
         /\ \/ k \notin KeysOf(map) /\ map' = map /\ out' = FAILED
            \/ \E x \in Nodes(map) :
                 /\ x[1] = k /\ Sound(map') /\ out' = OK
                 /\ Nodes(map') = (Nodes(map) \ {x}) \cup {<<k, r>>}
<1>1. Hashes /\ Sound(map)
  BY DEF MapInv, MapState
<1>2. CASE k \notin KeysOf(map)
  <2>1. Position(Chain(map, k), k) = 0
    BY <1>1, <1>2, FindFacts DEF FindsNone
  <2>. QED BY <1>2, <2>1 DEF WriteRow, Chain
<1>3. CASE k \in KeysOf(map)
  <2>1. PICK x \in Nodes(map) : x[1] = k
    BY <1>3 DEF KeysOf
  <2>2. Position(Chain(map, k), k) # 0
    BY <1>1, <2>1, FindFacts DEF FindsNode
  <2>3. PICK b : b = BucketOf(k, map.bucketCount)
    OBVIOUS
  <2>4. /\ out' = OK /\ rowsCount' = rowsCount
        /\ map' = [map EXCEPT !.buckets[b][Position(map.buckets[b], k)] = <<k, r>>]
    BY <2>2, <2>3 DEF WriteRow, Chain
  <2>5. Sound(map') /\ Nodes(map') = (Nodes(map) \ {x}) \cup {<<k, r>>}
    BY <1>1, <2>1, <2>3, <2>4, WriteFacts
  <2>. QED BY <2>1, <2>4, <2>5
<1>. QED BY <1>2, <1>3

\* A delete takes the node of the key, or there is none.
LEMMA DeleteFacts ==
  ASSUME MapInv, NEW k \in Keys, DeleteRow(k)
  PROVE  \/ /\ k \notin KeysOf(map) /\ map' = map /\ rowsCount' = rowsCount /\ out' = FAILED
         \/ \E x \in Nodes(map) :
              /\ x[1] = k /\ Sound(map') /\ out' = Result(x)
              /\ Nodes(map') = Nodes(map) \ {x} /\ rowsCount' = rowsCount - 1
<1>1. Hashes /\ Sound(map)
  BY DEF MapInv, MapState
<1>2. CASE k \notin KeysOf(map)
  BY <1>1, <1>2, FindNull DEF DeleteRow
<1>3. CASE k \in KeysOf(map)
  <2>1. PICK x \in Nodes(map) : x[1] = k
    BY <1>3 DEF KeysOf
  <2>2. row_hashmap_find(map, k) = x /\ row_hashmap_find(map, k) # NULL
    BY <1>1, <1>3, <2>1, FindFacts, FindNull DEF FindsNode
  <2>3. out' = Result(x) /\ map' = row_hashmap_remove(map, k) /\ rowsCount' = rowsCount - 1
    BY <2>2 DEF DeleteRow
  <2>4. Sound(row_hashmap_remove(map, k)) /\ Nodes(row_hashmap_remove(map, k)) = Nodes(map) \ {x}
    BY <1>1, <2>1, RemoveFacts
  <2>5. Sound(map') /\ Nodes(map') = Nodes(map) \ {x}
    BY <2>3, <2>4
  <2>. QED BY <2>1, <2>3, <2>5
<1>. QED BY <1>2, <1>3

\* A step of the iterator moves it to the next place or to the end.
LEMMA StepFacts ==
  ASSUME MapInv, NEW i, i = BeforeFirst \/ OnPlace(map, i), Step(i)
  PROVE  /\ Advances(map, i, it') /\ map' = map /\ rowsCount' = rowsCount
         /\ hash_key' = hash_key /\ MapState(map', rowsCount', it', scan')
<1>1. Sound(map)
  BY DEF MapInv, MapState
<1>2. /\ it' = row_hashmap_iter_next(map, i) /\ scan' = (it'.node # 0)
      /\ map' = map /\ rowsCount' = rowsCount /\ hash_key' = hash_key
  BY DEF Step
<1>3. Advances(map, i, it')
  BY <1>1, <1>2, NextFacts
<1>4. (scan' = TRUE /\ OnPlace(map, it')) \/ (scan' = FALSE /\ it' = AtEnd(map))
  <2>1. CASE it' = AtEnd(map)
    <3>1. it'.node = 0
      BY <2>1 DEF AtEnd
    <3>. QED BY <1>2, <2>1, <3>1
  <2>2. CASE OnPlace(map, it') /\ it'.node # 0
    BY <1>2, <2>2
  <2>. QED BY <1>3, <2>1, <2>2 DEF Advances
<1>5. MapState(map, rowsCount, it', scan')
  BY <1>4 DEF MapInv, MapState
<1>. QED BY <1>2, <1>3, <1>5

\* Every call leaves a sound map behind.
LEMMA MapStep ==
  ASSUME MapInv, MapNext
  PROVE  hash_key' = hash_key /\ MapState(map', rowsCount', it', scan')
<1>1. /\ Hashes /\ Sound(map) /\ IsFiniteSet(Nodes(map))
      /\ rowsCount = Cardinality(Nodes(map)) /\ Distinct(Nodes(map))
  BY ContentsFacts DEF MapInv, MapState
<1>2. ASSUME NoScan, Sound(map'), IsFiniteSet(Nodes(map')), rowsCount' = Cardinality(Nodes(map'))
      PROVE  hash_key' = hash_key /\ MapState(map', rowsCount', it', scan')
  BY <1>2 DEF NoScan, MapState
<1>3. ASSUME NoScan, map' = map, rowsCount' = rowsCount
      PROVE  hash_key' = hash_key /\ MapState(map', rowsCount', it', scan')
  BY <1>1, <1>3 DEF NoScan, MapState
<1>4. ASSUME NEW k \in Keys, NEW r \in Rows, InsertRow(k, r)
      PROVE  hash_key' = hash_key /\ MapState(map', rowsCount', it', scan')
  <2>1. NoScan
    BY <1>4 DEF InsertRow
  <2>2. CASE /\ Sound(map') /\ Nodes(map') = Nodes(map) \cup {<<k, r>>}
             /\ rowsCount' = rowsCount + 1
    <3>1. k \notin KeysOf(map)
      BY <1>4, InsertFacts
    <3>a. <<k, r>>[1] = k
      OBVIOUS
    <3>2. PICK x : x = <<k, r>> /\ x[1] = k
      BY <3>a
    <3>3. x \notin Nodes(map)
      BY <3>1, <3>2 DEF KeysOf
    <3>4. IsFiniteSet(Nodes(map')) /\ rowsCount' = Cardinality(Nodes(map'))
      BY <1>1, <2>2, <3>2, <3>3, FS_AddElement
    <3>. QED BY <1>2, <2>1, <2>2, <3>4
  <2>3. CASE map' = map /\ rowsCount' = rowsCount
    BY <1>3, <2>1, <2>3
  <2>. QED BY <1>4, <2>2, <2>3, InsertFacts
<1>5. ASSUME NEW k \in Keys, NEW r \in Rows, WriteRow(k, r)
      PROVE  hash_key' = hash_key /\ MapState(map', rowsCount', it', scan')
  <2>1. NoScan /\ rowsCount' = rowsCount
    BY <1>5 DEF WriteRow
  <2>2. ASSUME NEW x \in Nodes(map), x[1] = k, Sound(map'),
               Nodes(map') = (Nodes(map) \ {x}) \cup {<<k, r>>}
        PROVE  hash_key' = hash_key /\ MapState(map', rowsCount', it', scan')
    <3>a. <<k, r>>[1] = k
      OBVIOUS
    <3>1. PICK y : y = <<k, r>> /\ y[1] = k
      BY <3>a
    <3>2. y \notin Nodes(map) \ {x}
      BY <1>1, <2>2, <3>1 DEF Distinct
    <3>3. PICK N : N = Nodes(map) \ {x}
      OBVIOUS
    <3>4. IsFiniteSet(N) /\ Cardinality(N) = rowsCount - 1
      BY <1>1, <3>3, FS_RemoveElement
    <3>5. IsFiniteSet(N \cup {y}) /\ Cardinality(N \cup {y}) = Cardinality(N) + 1
      BY <3>2, <3>3, <3>4, FS_AddElement
    <3>6. Nodes(map') = N \cup {y}
      BY <2>2, <3>1, <3>3
    <3>7. rowsCount \in Nat
      BY <1>1, FS_CardinalityType
    <3>8. IsFiniteSet(Nodes(map')) /\ rowsCount' = Cardinality(Nodes(map'))
      BY <2>1, <3>4, <3>5, <3>6, <3>7
    <3>. QED BY <1>2, <2>1, <2>2, <3>8
  <2>3. CASE map' = map
    BY <1>3, <2>1, <2>3
  <2>. QED BY <1>5, <2>2, <2>3, WriteRowFacts
<1>6. ASSUME NEW k \in Keys, DeleteRow(k)
      PROVE  hash_key' = hash_key /\ MapState(map', rowsCount', it', scan')
  <2>1. NoScan
    BY <1>6 DEF DeleteRow
  <2>2. ASSUME NEW x \in Nodes(map), Sound(map'), Nodes(map') = Nodes(map) \ {x},
               rowsCount' = rowsCount - 1
        PROVE  hash_key' = hash_key /\ MapState(map', rowsCount', it', scan')
    <3>1. IsFiniteSet(Nodes(map')) /\ rowsCount' = Cardinality(Nodes(map'))
      BY <1>1, <2>2, FS_RemoveElement
    <3>. QED BY <1>2, <2>1, <2>2, <3>1
  <2>3. CASE map' = map /\ rowsCount' = rowsCount
    BY <1>3, <2>1, <2>3
  <2>. QED BY <1>6, <2>2, <2>3, DeleteFacts
<1>7. ASSUME NEW k \in Keys, FindRow(k)
      PROVE  hash_key' = hash_key /\ MapState(map', rowsCount', it', scan')
  BY <1>3, <1>7 DEF FindRow
<1>8. CASE Recreate
  <2>1. Sound(map') /\ Nodes(map') = {} /\ rowsCount' = 0 /\ NoScan
    BY <1>8, CreateFacts, MapAssumption DEF Recreate
  <2>. QED BY <1>2, <2>1, FS_EmptySet
<1>9. CASE db_iter_first
  BY <1>9, StepFacts DEF db_iter_first
<1>10. CASE db_iter_next
  BY <1>10, StepFacts DEF db_iter_next, MapInv, MapState
<1>. QED BY <1>4, <1>5, <1>6, <1>7, <1>8, <1>9, <1>10 DEF MapNext

\* The hash function is the same after the step, so is what is said of it.
LEMMA Primed ==
  ASSUME hash_key' = hash_key, Hashes, MapState(map', rowsCount', it', scan')
  PROVE  MapInv'
BY DEF MapInv, Hashes, MapState, Sound, ChainOK, BucketOf, Nodes, Places, Node, OnPlace, Place,
       AtEnd, BeforeFirst

\* MapInv holds in every state of the map.
THEOREM MapInvariance == MapSpec => []MapInv
<1>1. MapInit => MapInv
  <2> SUFFICES ASSUME MapInit PROVE MapInv
    OBVIOUS
  <2>1. Sound(map) /\ Nodes(map) = {} /\ rowsCount = 0
    BY CreateFacts, MapAssumption DEF MapInit
  <2>. QED BY <2>1, FS_EmptySet DEF MapInit, MapInv, MapState, Hashes
<1>2. MapInv /\ [MapNext]_mapVars => MapInv'
  <2> SUFFICES ASSUME MapInv, [MapNext]_mapVars PROVE MapInv'
    OBVIOUS
  <2>1. CASE MapNext
    BY <2>1, MapStep, Primed DEF MapInv
  <2>2. CASE UNCHANGED mapVars
    <3>1. /\ hash_key' = hash_key /\ map' = map /\ rowsCount' = rowsCount /\ it' = it
          /\ scan' = scan
      BY <2>2 DEF mapVars
    <3>2. MapState(map', rowsCount', it', scan')
      BY <3>1 DEF MapInv
    <3>. QED BY <3>1, <3>2, Primed DEF MapInv
  <2>. QED BY <2>1, <2>2
<1>. QED BY <1>1, <1>2, PTL DEF MapSpec

LEMMA TypesFromInv == MapInv => MapTypeOK
<1> SUFFICES ASSUME MapInv PROVE MapTypeOK
  OBVIOUS
<1>1. /\ Sound(map) /\ IsFiniteSet(Nodes(map)) /\ rowsCount = Cardinality(Nodes(map))
      /\ it = BeforeFirst \/ it = AtEnd(map) \/ OnPlace(map, it)
  BY DEF MapInv, MapState
<1>2. rowsCount \in Nat /\ map.bucketCount \in Nat \ {0}
  BY <1>1, FS_CardinalityType DEF Sound
<1>3. /\ DOMAIN map.buckets = 0 .. map.bucketCount - 1
      /\ \A b \in DOMAIN map.buckets : map.buckets[b] \in Seq(Keys \X Rows)
  BY <1>1, PlaceFacts DEF Sound
<1>4. it.bucketIndex \in -1 .. map.bucketCount /\ it.node \in 0 .. rowsCount
  <2>1. CASE it = BeforeFirst \/ it = AtEnd(map)
    BY <1>2, <2>1 DEF BeforeFirst, AtEnd
  <2>2. CASE OnPlace(map, it)
    <3>1. PICK b, n : b = it.bucketIndex /\ n = it.node
      OBVIOUS
    <3>2. <<b, n>> \in Places(map)
      BY <2>2, <3>1 DEF OnPlace, Place
    <3>3. b \in 0 .. map.bucketCount - 1 /\ n \in 1 .. Len(map.buckets[b])
      BY <1>1, <3>2, PlaceFacts
    <3>4. Len(map.buckets[b]) <= rowsCount /\ Len(map.buckets[b]) \in Nat
      BY <1>1, <3>3, ChainLength, PlaceFacts
    <3>5. b \in -1 .. map.bucketCount /\ n \in 0 .. rowsCount
      BY <1>2, <3>3, <3>4
    <3>. QED BY <3>1, <3>5
  <2>. QED BY <1>1, <2>1, <2>2
<1>. QED BY <1>2, <1>3, <1>4 DEF MapTypeOK

\* The map, its chains and its iterator keep their types: the iterator never
\* points past the buckets or past the end of a chain.
THEOREM MapTypesTheorem == MapSpec => []MapTypeOK
BY MapInvariance, TypesFromInv, PTL

\* Whatever is inserted, rehashed, written and removed, and whatever the hash
\* function, a key has one node, in the bucket where find looks for it, and
\* the table's count is the number of nodes.
THEOREM ChainsTheorem == MapSpec => []ChainsSound
<1>1. MapInv => ChainsSound
  <2> SUFFICES ASSUME MapInv PROVE ChainsSound
    OBVIOUS
  <2>1. Sound(map) /\ IsFiniteSet(Nodes(map)) /\ rowsCount = Cardinality(Nodes(map))
    BY DEF MapInv, MapState
  <2>2. \A p \in Places(map) : BucketOf(Node(map, p)[1], map.bucketCount) = p[1]
    BY <2>1, PlaceFacts
  <2>3. \A p, q \in Places(map) : Node(map, p)[1] = Node(map, q)[1] => p = q
    BY <2>1, OnePlace
  <2>4. rowsCount = Cardinality(Places(map))
    BY <2>1, PlaceCount
  <2>. QED BY <2>2, <2>3, <2>4 DEF ChainsSound
<1>. QED BY <1>1, MapInvariance, PTL

-----------------------------------------------------------------------------
(* The refinement *)

\* Unread for any map, position and scan.
UnreadOf(m, i, s) == IF ~s THEN {} ELSE AfterKeys(m, i)

LEMMA Mapping ==
  /\ Contents = ContentsOf(map) /\ Unread = UnreadOf(map, it, scan)
  /\ hash_key' = hash_key => Contents' = ContentsOf(map')
  /\ Unread' = UnreadOf(map', it', scan')
<1>1. Contents = ContentsOf(map)
  BY DEF Contents, ContentsOf, KeysOf
<1>2. Unread = UnreadOf(map, it, scan)
  BY DEF Unread, UnreadOf, AfterKeys, Place
<1>3. ASSUME hash_key' = hash_key PROVE Contents' = ContentsOf(map')
  BY <1>3 DEF Contents, ContentsOf, KeysOf, row_hashmap_find, Chain, Position, BucketOf, Nodes,
              Places, Node, NULL
<1>4. Unread' = UnreadOf(map', it', scan')
  BY DEF Unread, UnreadOf, AfterKeys, Place, Nodes, Places, Node, Before
<1>. QED BY <1>1, <1>2, <1>3, <1>4

\* After a call other than those of the scan nothing is unread.
LEMMA NoScanMaps ==
  ASSUME NoScan
  PROVE  Abstract!NoScan /\ hash_key' = hash_key
<1>1. scan' = FALSE /\ hash_key' = hash_key
  BY DEF NoScan
<1>2. Unread' = {}
  BY <1>1, Mapping DEF UnreadOf
<1>. QED BY <1>1, <1>2 DEF Abstract!NoScan

LEMMA SameResults ==
  /\ Abstract!OK = OK /\ Abstract!FAILED = FAILED /\ Abstract!NULL = NULL
  /\ \A x : Abstract!Result(x) = Result(x)
BY DEF Abstract!OK, OK, Abstract!FAILED, FAILED, Abstract!NULL, NULL, Abstract!Result, Result

\* A node is the entry of its key.
LEMMA EntryOfNode ==
  ASSUME MapInv, NEW x \in Nodes(map)
  PROVE  x[1] \in DOMAIN Contents /\ Abstract!Entry(x[1]) = x
<1>1. IsContents(Contents, Nodes(map)) /\ Distinct(Nodes(map))
  BY ContentsFacts, Mapping DEF MapInv, MapState
<1>2. x = <<x[1], x[2]>>
  BY <1>1 DEF Distinct
<1>3. Contents[x[1]] = x[2] /\ x[1] \in DOMAIN Contents
  BY <1>1 DEF IsContents
<1>. QED BY <1>2, <1>3 DEF Abstract!Entry

\* A step of the iterator returns one of the entries that are left.
LEMMA ReturnFacts ==
  ASSUME MapInv, NEW i, i = BeforeFirst \/ OnPlace(map, i), Step(i)
  PROVE  Abstract!Return(AfterKeys(map, i))
<1>0. Hashes /\ Sound(map)
  BY DEF MapInv, MapState
<1>1. /\ Advances(map, i, it') /\ map' = map /\ hash_key' = hash_key
  BY StepFacts
<1>2. Yields(map, i, it')
  BY <1>0, <1>1, ScanFacts
<1>3. Contents' = Contents
  BY <1>1, Mapping
<1>4. CASE it'.node = 0 /\ AfterKeys(map, i) = {}
  <2>1. scan' = FALSE /\ out' = Result(NULL)
    BY <1>4 DEF Step
  <2>2. Unread' = {}
    BY <2>1, Mapping DEF UnreadOf
  <2>. QED BY <1>3, <1>4, <2>1, <2>2, SameResults DEF Abstract!Return
<1>5. CASE it'.node # 0
  <2>1. PICK x \in Nodes(map) : x = map.buckets[it'.bucketIndex][it'.node]
    BY <1>2, <1>5 DEF Yields
  <2>2. scan' = TRUE /\ out' = Result(x)
    BY <1>5, <2>1 DEF Step
  <2>3. x[1] \in AfterKeys(map, i) /\ AfterKeys(map, it') = AfterKeys(map, i) \ {x[1]}
    BY <1>2, <1>5, <2>1 DEF Yields
  <2>4. Unread' = AfterKeys(map, i) \ {x[1]}
    BY <1>1, <2>2, <2>3, Mapping DEF UnreadOf
  <2>5. Abstract!Entry(x[1]) = x
    BY EntryOfNode
  <2>6. out' = Abstract!Result(Abstract!Entry(x[1]))
    BY <2>2, <2>5, SameResults
  <2>. QED BY <1>3, <2>2, <2>3, <2>4, <2>6 DEF Abstract!Return
<1>. QED BY <1>2, <1>4, <1>5 DEF Yields

\* Every call of the map is a call of the abstract set.
LEMMA StepSimulation ==
  ASSUME MapInv, MapNext
  PROVE  Abstract!RowSetNext
<1>0. Hashes /\ Sound(map)
  BY DEF MapInv, MapState
<1>1. /\ IsContents(Contents, Nodes(map)) /\ Distinct(Nodes(map))
      /\ DOMAIN Contents = KeysOf(map)
  BY <1>0, ContentsFacts, Mapping
<1>2. ASSUME hash_key' = hash_key, Sound(map') PROVE IsContents(Contents', Nodes(map'))
  BY <1>0, <1>2, ContentsFacts, Mapping
<1>3. ASSUME hash_key' = hash_key, map' = map PROVE Contents' = Contents
  BY <1>3, Mapping
<1>4. ASSUME NEW k \in Keys, NEW r \in Rows, InsertRow(k, r) PROVE Abstract!Insert(k, r)
  <2>1. k \notin DOMAIN Contents
    BY <1>1, <1>4, InsertFacts
  <2>2. NoScan
    BY <1>4 DEF InsertRow
  <2>3. Abstract!NoScan /\ hash_key' = hash_key
    BY <2>2, NoScanMaps
  <2>4. CASE Sound(map') /\ Nodes(map') = Nodes(map) \cup {<<k, r>>} /\ out' = OK
    <3>1. IsContents(Contents', Nodes(map) \cup {<<k, r>>})
      BY <1>2, <2>3, <2>4
    <3>2. Contents' = [j \in DOMAIN Contents \cup {k} |-> IF j = k THEN r ELSE Contents[j]]
      BY <1>1, <2>1, <3>1, ContentsAdd
    <3>. QED BY <2>1, <2>3, <2>4, <3>2, SameResults DEF Abstract!Insert
  <2>5. CASE map' = map /\ out' = FAILED
    BY <1>3, <2>1, <2>3, <2>5, SameResults DEF Abstract!Insert
  <2>. QED BY <1>4, <2>4, <2>5, InsertFacts
<1>5. ASSUME NEW k \in Keys, NEW r \in Rows, WriteRow(k, r) PROVE Abstract!Write(k, r)
  <2>2. NoScan
    BY <1>5 DEF WriteRow
  <2>3. Abstract!NoScan /\ hash_key' = hash_key
    BY <2>2, NoScanMaps
  <2>4. CASE k \notin KeysOf(map) /\ map' = map /\ out' = FAILED
    BY <1>1, <1>3, <2>3, <2>4, SameResults DEF Abstract!Write
  <2>5. ASSUME NEW x \in Nodes(map), x[1] = k, Sound(map'), out' = OK,
               Nodes(map') = (Nodes(map) \ {x}) \cup {<<k, r>>}
        PROVE  Abstract!Write(k, r)
    <3>1. IsContents(Contents', (Nodes(map) \ {x}) \cup {<<x[1], r>>})
      BY <1>2, <2>3, <2>5
    <3>2. Contents' = [Contents EXCEPT ![x[1]] = r]
      BY <1>1, <3>1, ContentsWrite
    <3>3. k \in DOMAIN Contents
      BY <2>5, EntryOfNode
    <3>. QED BY <2>3, <2>5, <3>2, <3>3, SameResults DEF Abstract!Write
  <2>. QED BY <1>5, <2>4, <2>5, WriteRowFacts
<1>6. ASSUME NEW k \in Keys, DeleteRow(k) PROVE Abstract!Remove(k)
  <2>2. NoScan
    BY <1>6 DEF DeleteRow
  <2>3. Abstract!NoScan /\ hash_key' = hash_key
    BY <2>2, NoScanMaps
  <2>4. CASE k \notin KeysOf(map) /\ map' = map /\ out' = FAILED
    <3>1. Contents' = Contents /\ k \notin DOMAIN Contents
      BY <1>1, <1>3, <2>3, <2>4
    <3>2. Contents = [j \in DOMAIN Contents |-> Contents[j]]
      BY <1>1 DEF IsContents
    <3>3. DOMAIN Contents \ {k} = DOMAIN Contents
      BY <3>1
    <3>4. Contents' = [j \in DOMAIN Contents \ {k} |-> Contents[j]]
      BY <3>1, <3>2, <3>3
    <3>. QED BY <2>3, <2>4, <3>1, <3>4, SameResults DEF Abstract!Remove
  <2>5. ASSUME NEW x \in Nodes(map), x[1] = k, Sound(map'), out' = Result(x),
               Nodes(map') = Nodes(map) \ {x}
        PROVE  Abstract!Remove(k)
    <3>1. IsContents(Contents', Nodes(map) \ {x})
      BY <1>2, <2>3, <2>5
    <3>2. Contents' = [j \in DOMAIN Contents \ {x[1]} |-> Contents[j]]
      <4>1. PICK f, g, S : f = Contents /\ g = Contents' /\ S = Nodes(map)
        OBVIOUS
      <4>2. Distinct(S) /\ IsContents(f, S) /\ x \in S /\ IsContents(g, S \ {x})
        BY <1>1, <3>1, <4>1
      <4>3. g = [j \in DOMAIN f \ {x[1]} |-> f[j]]
        BY <4>2, ContentsRemove
      <4>. QED BY <4>1, <4>3
    <3>3. k \in DOMAIN Contents /\ Abstract!Entry(k) = x
      BY <2>5, EntryOfNode
    <3>. QED BY <2>3, <2>5, <3>2, <3>3, SameResults DEF Abstract!Remove
  <2>. QED BY <1>6, <2>4, <2>5, DeleteFacts
<1>7. ASSUME NEW k \in Keys, FindRow(k) PROVE Abstract!Find(k)
  <2>1. NoScan /\ map' = map /\ out' = Result(row_hashmap_find(map, k))
    BY <1>7 DEF FindRow
  <2>2. Abstract!NoScan /\ hash_key' = hash_key
    BY <2>1, NoScanMaps
  <2>3. Contents' = Contents
    BY <1>3, <2>1, <2>2
  <2>4. CASE k \notin KeysOf(map)
    <3>1. row_hashmap_find(map, k) = NULL /\ k \notin DOMAIN Contents
      BY <1>0, <1>1, <2>4, FindNull
    <3>. QED BY <2>1, <2>2, <2>3, <3>1, SameResults DEF Abstract!Find
  <2>5. CASE k \in KeysOf(map)
    <3>1. PICK x \in Nodes(map) : x[1] = k
      BY <2>5 DEF KeysOf
    <3>2. row_hashmap_find(map, k) = x
      BY <1>0, <3>1, FindFacts DEF FindsNode
    <3>3. k \in DOMAIN Contents /\ Abstract!Entry(k) = x
      BY <3>1, EntryOfNode
    <3>. QED BY <2>1, <2>2, <2>3, <3>2, <3>3, SameResults DEF Abstract!Find
  <2>. QED BY <2>4, <2>5
<1>8. CASE Recreate
  <2>1. /\ Sound(map') /\ Nodes(map') = {} /\ NoScan /\ out' = OK
    BY <1>8, CreateFacts, MapAssumption DEF Recreate
  <2>2. Abstract!NoScan /\ hash_key' = hash_key
    BY <2>1, NoScanMaps
  <2>3. IsContents(Contents', {})
    BY <1>2, <2>1, <2>2
  <2>4. Contents' = Abstract!Empty
    BY <2>3 DEF IsContents, Abstract!Empty
  <2>5. Abstract!Clear
    BY <2>1, <2>2, <2>4, SameResults DEF Abstract!Clear
  <2>. QED BY <2>5 DEF Abstract!RowSetNext
<1>9. CASE db_iter_first
  <2>1. Abstract!Return(AfterKeys(map, BeforeFirst))
    BY <1>9, ReturnFacts DEF db_iter_first
  <2>2. AfterKeys(map, BeforeFirst) = DOMAIN Contents
    BY <1>0, <1>1, FirstFacts
  <2>3. Abstract!First
    BY <2>1, <2>2 DEF Abstract!First
  <2>. QED BY <2>3 DEF Abstract!RowSetNext
<1>10. CASE db_iter_next
  <2>1. scan /\ OnPlace(map, it) /\ Step(it)
    BY <1>10 DEF db_iter_next, MapInv, MapState
  <2>2. Abstract!Return(AfterKeys(map, it))
    BY <2>1, ReturnFacts
  <2>3. AfterKeys(map, it) = Unread
    BY <2>1, Mapping DEF UnreadOf
  <2>4. Abstract!Next
    BY <2>1, <2>2, <2>3 DEF Abstract!Next
  <2>. QED BY <2>4 DEF Abstract!RowSetNext
<1>. QED BY <1>4, <1>5, <1>6, <1>7, <1>8, <1>9, <1>10 DEF MapNext, Abstract!RowSetNext

\* The hash map implements the abstract set of rows, for every hash function,
\* every set of keys and every initial capacity: what insert, write, remove and
\* find return, and a scan that returns every row exactly once.
THEOREM RefinementTheorem == MapSpec => ImplementsRowSet
<1>1. MapInit => Abstract!RowSetInit
  <2> SUFFICES ASSUME MapInit PROVE Abstract!RowSetInit
    OBVIOUS
  <2>1. Hashes /\ Sound(map) /\ Nodes(map) = {} /\ scan = FALSE /\ out = OK
    BY CreateFacts, MapAssumption DEF MapInit, Hashes
  <2>2. IsContents(Contents, {})
    BY <2>1, ContentsFacts, Mapping
  <2>3. Contents = Abstract!Empty
    BY <2>2 DEF IsContents, Abstract!Empty
  <2>4. Unread = {}
    BY <2>1, Mapping DEF UnreadOf
  <2>. QED BY <2>1, <2>3, <2>4, SameResults DEF Abstract!RowSetInit
<1>2. MapInv /\ [MapNext]_mapVars => [Abstract!RowSetNext]_(Abstract!rowSetVars)
  <2> SUFFICES ASSUME MapInv, [MapNext]_mapVars
               PROVE  [Abstract!RowSetNext]_(Abstract!rowSetVars)
    OBVIOUS
  <2>1. CASE MapNext
    BY <2>1, StepSimulation
  <2>2. CASE UNCHANGED mapVars
    <3>1. /\ hash_key' = hash_key /\ map' = map /\ it' = it /\ scan' = scan /\ out' = out
      BY <2>2 DEF mapVars
    <3>2. Contents' = Contents /\ Unread' = Unread
      BY <3>1, Mapping
    <3>. QED BY <3>1, <3>2 DEF Abstract!rowSetVars
  <2>. QED BY <2>1, <2>2
<1>. QED BY <1>1, <1>2, MapInvariance, PTL DEF MapSpec, ImplementsRowSet, Abstract!RowSetSpec
=============================================================================
