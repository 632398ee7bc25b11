---------------------------- MODULE MCKeyReaper ----------------------------
(***************************************************************************)
(* The reapers of KeyReaper.tla, and below them the stores of KVStores.tla *)
(* compared with each other on every store of up to four short keys.      *)
(***************************************************************************)
EXTENDS KeyReaper, SequencesExt

KV == INSTANCE KVStores WITH Top <- 2, KeyPrefix <- <<1>>

\* Keys over the bytes 0..2, so that a neighbour below, one above and one that ends in
\* the largest byte exist; values name one of two key ids or do not parse.
SomeKeys     == {<<0>>, <<1>>, <<1, 0>>, <<1, 2>>, <<1, 2, 2>>, <<2>>, <<2, 2>>}
SomeStores   == UNION {[keys -> {"a", "b", "junk"}] : keys \in {ks \in SUBSET SomeKeys : Cardinality(ks) <= 4}}
SomePrefixes == SomeKeys \cup {<<>>, <<0, 1>>, <<2, 1>>}
Ops          == [kind : {"put", "delete", "unknown"}, key : {<<>>, <<1>>, <<1, 0>>}, value : {"", "b"}]
Stored1      == KV!With(KV!With(KV!NewMemoryStore, <<1>>, "a"), <<2>>, "b")

Matching(data, prefix) == KV!KVItems(data, KV!Sorted({k \in DOMAIN data : IsPrefix(prefix, k)}))

(***************************************************************************)
(* A cursor that starts at the prefix and stops at the first key without   *)
(* it misses none that has it (boltdb.go, ScanPrefix).                     *)
(***************************************************************************)
ASSUME CursorFindsPrefix ==
    \A data \in SomeStores, p \in SomePrefixes : KV!boltScanPrefix(data, p) = Matching(data, p)

(***************************************************************************)
(* The range below nextPrefix is the keys with the prefix, for a prefix    *)
(* that has a byte other than 0xff; for the others, which nextPrefix says  *)
(* have no upper bound, the query finds nothing (postgres.go, ScanPrefix). *)
(***************************************************************************)
ASSUME RangeFindsPrefix ==
    \A data \in SomeStores, p \in SomePrefixes :
        KV!pgScanPrefix(data, p) = IF \E i \in DOMAIN p : p[i] # 2 THEN Matching(data, p) ELSE <<>>

(***************************************************************************)
(* A batch has the effect of its operations one by one, or none at all, in *)
(* both backends; a memory transaction that fails keeps what it wrote      *)
(* before the failure (memory.go, WithTx).                                 *)
(***************************************************************************)
ASSUME BatchIsAtomic ==
    \A x \in Ops, y \in Ops :
        LET bolt == KV!boltBatch(Stored1, <<x, y>>)
            pg   == KV!pgBatch(Stored1, <<x, y>>, TRUE)
            mem  == KV!memWithTx(Stored1, FALSE, <<x, y>>)
        IN  /\ bolt.err => bolt.data = Stored1
            /\ pg.err   => pg.data = Stored1
            /\ ~bolt.err => pg = bolt
            /\ ~mem.err  => mem = bolt
            /\ mem.err /\ ~KV!memWithTx(Stored1, FALSE, <<x>>).err
                 => mem.data = KV!memWithTx(Stored1, FALSE, <<x>>).data

(***************************************************************************)
(* Paging through an unchanging store lists and counts what one scan does, *)
(* each key id once, whatever the page size (manager.go, ListKeyIDs and    *)
(* countKeys), and stops when the last page is exactly full.               *)
(***************************************************************************)
ASSUME PagesCoverTheScan ==
    \A data \in SomeStores, size \in 1 .. 5 :
        /\ ToSet(KV!ListKeyIDs(data, size)) = KV!listKeyIDsLegacy(data)
        /\ IsInjective(KV!ListKeyIDs(data, size))
        /\ KV!countKeys(data, size) = KV!countKeysLegacy(data)
        /\ KV!PagesFrom(data, 0, size) = Matching(data, <<1>>)

(***************************************************************************)
(* What one store keeps under a key the others keep too, a transaction as  *)
(* much as a plain call; an empty value removes the key.                   *)
(***************************************************************************)
ASSUME StoresAgree ==
    \A k \in SomeKeys, v \in {"", "a", "b"} :
        LET m == KV!memPut(Stored1, k, v)
        IN  /\ m = KV!txPut(Stored1, k, v) /\ m = KV!boltPut(Stored1, k, v) /\ m = KV!pgPut(Stored1, k, v)
            /\ KV!memGet(m.data, k) = (IF v = "" THEN KV!NotFound ELSE v)
            /\ \A get \in {KV!txGet(m.data, k), KV!txGetForUpdate(m.data, k), KV!boltGet(m.data, k),
                           KV!pgGet(m.data, k)} : get = KV!memGet(m.data, k)
=============================================================================
