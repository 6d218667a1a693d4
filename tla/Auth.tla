-------------------------------- MODULE Auth --------------------------------
(***************************************************************************)
(* The auth store (src/auth.c): a bounded sequence of keys with distinct   *)
(* names.  A key is a record with a name and a role, and with its token    *)
(* where tokens are presented; the store holds a hash of the token, which  *)
(* verifies that token and no other.                                       *)
(***************************************************************************)
EXTENDS Integers, Sequences

CONSTANT AUTH_MAX_KEYS  \* keys in the auth store

ASSUME KeysAssumption == AUTH_MAX_KEYS \in Nat \ {0}

HasKey(ks, name) == \E i \in DOMAIN ks : ks[i].name = name

\* A mutant: the limit is tested with > instead of >=.
auth_add_key_OffByOne(ks, key, hashed) ==
  IF Len(ks) > AUTH_MAX_KEYS \/ HasKey(ks, key.name) \/ ~hashed
    THEN [rc |-> -1, keys |-> ks]
    ELSE [rc |-> 0, keys |-> Append(ks, key)]

\* -1 when the store is full, the name exists or crypto_pwhash_str finds no
\* memory (~hashed).
auth_add_key(ks, key, hashed) ==
  IF Len(ks) >= AUTH_MAX_KEYS \/ HasKey(ks, key.name) \/ ~hashed
    THEN [rc |-> -1, keys |-> ks]
    ELSE [rc |-> 0, keys |-> Append(ks, key)]

\* A mutant: the last entry is scrubbed and the others are not shifted.
auth_del_key_NoShift(ks, name) ==
  IF HasKey(ks, name)
    THEN [rc |-> 0, keys |-> SubSeq(ks, 1, Len(ks) - 1)]
    ELSE [rc |-> -1, keys |-> ks]

\* The entries behind the key move up by one.
auth_del_key(ks, name) ==
  IF HasKey(ks, name)
    THEN LET i == CHOOSE j \in DOMAIN ks : ks[j].name = name
         IN  [rc |-> 0, keys |-> SubSeq(ks, 1, i - 1) \o SubSeq(ks, i + 1, Len(ks))]
    ELSE [rc |-> -1, keys |-> ks]

NoGrant == [level |-> "NONE", name |-> "none"]

\* The level and the name of the first key whose hash verifies the token.
auth_verify_ex(ks, token) ==
  LET hits == {i \in DOMAIN ks : ks[i].token = token}
  IN  IF hits = {} THEN NoGrant
      ELSE LET key == ks[CHOOSE i \in hits : \A j \in hits : i <= j]
           IN  [level |-> IF key.role = "admin" THEN "ADMIN" ELSE "READONLY",
                name  |-> key.name]
=============================================================================
