------------------------------ MODULE KVStores ------------------------------
(***************************************************************************)
(* The storage implementations of internal/storage below the two           *)
(* interfaces KVStore (MemoryStore, with transactions and pages) and       *)
(* Backend (BoltBackend and PostgresBackend, with batches), and the loops  *)
(* of lifecycle.Manager that list and count keys over their scans.  Each   *)
(* call holds the store's lock or runs in one transaction, so a call is a  *)
(* function of the stored data; KeyStore.tla has the interleavings of the  *)
(* calls.  MCKeyReaper compares them with each other.                      *)
(*                                                                         *)
(* A key is a sequence of bytes of 0..Top, a value a model of its bytes    *)
(* with "" the empty one; data maps the keys present to their values.      *)
(***************************************************************************)
EXTENDS Naturals, FiniteSets, SequencesExt

CONSTANTS Top,          \* the largest byte, 0xff
          KeyPrefix     \* "key:", below which the key metadata is stored

NotFound == "not found"

\* Byte order: what bbolt's cursor, SQL's ORDER BY on BYTEA and sort.Strings follow.
Precedes(a, b) ==
    \/ IsStrictPrefix(a, b)
    \/ \E i \in 1 .. Len(a) : /\ i <= Len(b) /\ a[i] < b[i]
                              /\ \A j \in 1 .. i - 1 : a[j] = b[j]

hasPrefix(b, prefix) == IsPrefix(prefix, b)

KVItems(data, keys) == [i \in DOMAIN keys |-> [key |-> keys[i], value |-> data[keys[i]]]]

Sorted(keys) == SetToSortSeq(keys, Precedes)

Without(data, key)    == [k \in DOMAIN data \ {key} |-> data[k]]
With(data, key, value) == [k \in DOMAIN data \cup {key} |-> IF k = key THEN value ELSE data[k]]

Done(data)   == [data |-> data, err |-> FALSE]
Failed(data) == [data |-> data, err |-> TRUE]

\* The calls ops in order, with these Put and Delete, up to the first that fails.
Apply(put(_, _, _), del(_, _), data, ops) ==
    LET step(at, op) == CASE at.err            -> at
                          [] op.kind = "put"    -> put(at.data, op.key, op.value)
                          [] op.kind = "delete" -> del(at.data, op.key)
                          [] OTHER              -> Failed(at.data)
    IN  FoldLeft(step, Done(data), ops)

----------------------------------------------------------------------------
(* MemoryStore *)

NewMemoryStore == <<>>

memDelete(data, key) == Done(Without(data, key))

memPut(data, key, value) ==
    CASE key = <<>>  -> Failed(data)
      [] value = ""  -> memDelete(data, key)
      [] OTHER       -> Done(With(data, key, value))

memGet(data, key) == IF key \in DOMAIN data THEN data[key] ELSE NotFound

memScanPrefix(data, prefix) ==
    LET matching == {k \in DOMAIN data : hasPrefix(k, prefix)} IN [k \in matching |-> data[k]]

\* One page of the sorted matching keys, and how many match in all.
memScanPrefixPaged(data, prefix, offset, limit) ==
    LET keys == Sorted(DOMAIN memScanPrefix(data, prefix))
        size == IF limit <= 0 THEN 1000 ELSE limit
        page == SubSeq(keys, offset + 1, IF offset + size > Len(keys) THEN Len(keys) ELSE offset + size)
    IN  [items |-> IF offset >= Len(keys) THEN <<>> ELSE KVItems(data, page), total |-> Len(keys)]

\* memTx: the calls a transaction's function makes, on the data of the store itself.
txDelete(data, key)     == Done(Without(data, key))
txPut(data, key, value) ==
    CASE key = <<>> -> Failed(data)
      [] value = "" -> txDelete(data, key)
      [] OTHER      -> Done(With(data, key, value))
txGet(data, key)          == IF key \in DOMAIN data THEN data[key] ELSE NotFound
txGetForUpdate(data, key) == txGet(data, key)

\* The function given to WithTx returns at its first error.  A context already done ends
\* the call before it; nothing is undone when it fails.
memWithTx(data, ctxDone, ops) == IF ctxDone THEN Failed(data) ELSE Apply(txPut, txDelete, data, ops)

txWithTx(data, ops) == Apply(txPut, txDelete, data, ops)

----------------------------------------------------------------------------
(* BoltBackend *)

boltGet(data, key)        == IF key \in DOMAIN data THEN data[key] ELSE NotFound
boltDelete(data, key)     == Done(Without(data, key))
\* bbolt itself refuses an empty key, and ignores the deletion of one.
boltPut(data, key, value) ==
    CASE value = "" -> boltDelete(data, key)
      [] key = <<>> -> Failed(data)
      [] OTHER      -> Done(With(data, key, value))

\* The cursor starts at the first key not before the prefix and stops at the first
\* that lacks it.
boltScanPrefix(data, prefix) ==
    LET keys == SelectSeq(Sorted(DOMAIN data), LAMBDA k : ~Precedes(k, prefix))
        run  == {n \in 0 .. Len(keys) : \A i \in 1 .. n : hasPrefix(keys[i], prefix)}
    IN  KVItems(data, SubSeq(keys, 1, CHOOSE n \in run : \A m \in run : m <= n))

\* db.Update commits when its function returns nil and rolls back otherwise.
boltBatch(data, ops) ==
    LET end == Apply(boltPut, boltDelete, data, ops) IN IF end.err THEN Failed(data) ELSE end

----------------------------------------------------------------------------
(* PostgresBackend *)

pgGet(data, key)        == IF key \in DOMAIN data THEN data[key] ELSE NotFound
pgDelete(data, key)     == Done(Without(data, key))
pgPut(data, key, value) == IF value = "" THEN pgDelete(data, key) ELSE Done(With(data, key, value))

NoBound == "nil"

\* The least sequence after every key with this prefix: the last byte that is not Top,
\* plus one, and nothing after it.
nextPrefix(prefix) ==
    LET low == {i \in DOMAIN prefix : prefix[i] # Top}
        at  == CHOOSE i \in low : \A j \in low : j <= i
    IN  IF low = {} THEN NoBound ELSE Append(SubSeq(prefix, 1, at - 1), prefix[at] + 1)

\* WHERE k >= prefix AND k < end: a nil end is sent as NULL, and no key is below NULL.
pgScanPrefix(data, prefix) ==
    LET end == nextPrefix(prefix)
        in  == {k \in DOMAIN data : ~Precedes(k, prefix) /\ end # NoBound /\ Precedes(k, end)}
    IN  KVItems(data, Sorted(in))

\* The statements of a batch are one SQL transaction; committed tells whether COMMIT
\* succeeded.
pgBatch(data, ops, committed) ==
    LET end == Apply(pgPut, pgDelete, data, ops) IN IF end.err \/ ~committed THEN Failed(data) ELSE end

----------------------------------------------------------------------------
(* Manager: the keys of the store.  A value is the key id its metadata names, *)
(* or "junk" when json.Unmarshal fails.                                       *)

Unmarshalled(items) == SelectSeq([i \in DOMAIN items |-> items[i].value], LAMBDA id : id # "junk")

RECURSIVE PagesFrom(_, _, _)
\* The loop over the pages ends at an empty or a short one.
PagesFrom(data, offset, pageSize) ==
    LET items == memScanPrefixPaged(data, KeyPrefix, offset, pageSize).items
    IN  IF Len(items) < pageSize THEN items
        ELSE items \o PagesFrom(data, offset + Len(items), pageSize)

countKeys(data, pageSize) == Cardinality(ToSet(Unmarshalled(PagesFrom(data, 0, pageSize))))

ListKeyIDs(data, pageSize) ==
    FoldLeft(LAMBDA ids, id : IF id \in ToSet(ids) THEN ids ELSE Append(ids, id),
             <<>>, Unmarshalled(PagesFrom(data, 0, pageSize)))

\* The fallback ranges over a map: the ids come in any order, here as a set.
listKeyIDsLegacy(data) ==
    LET scan == memScanPrefix(data, KeyPrefix) IN {scan[k] : k \in DOMAIN scan} \ {"junk"}

countKeysLegacy(data) ==
    LET scan == memScanPrefix(data, KeyPrefix) IN Cardinality({scan[k] : k \in DOMAIN scan} \ {"junk"})
=============================================================================
