-------------------------- MODULE KeyClusterProofs --------------------------
(***************************************************************************)
(* The rows a cluster works on evolve as KeyStore says, so what            *)
(* KeyStoreProofs proves of the store holds in every cluster, whatever its *)
(* caches, listeners and crashes.                                          *)
(***************************************************************************)
EXTENDS KeyCluster, KeyStoreProofs

(* What is left of an operation names a key, and for a restore a version.  *)
PendingOK ==
  pending \in [Nodes -> {Done} \cup [op : {"invalidate"}, key : KeyIDs]
                               \cup [op : {"restore"}, key : KeyIDs, v : Versions]]

(* Every step keeps it so. *)
LEMMA PendingStep ==
  ASSUME PendingOK, [Next]_vars
  PROVE  PendingOK'
<1> USE DEF PendingOK
<1>1. ASSUME NEW n \in Nodes, Serve(n) PROVE PendingOK'
  BY <1>1 DEF Serve, Encrypt, Decrypt, ReadIndex, Lookup, Load, Fill, Reply, NegativeExpires
<1>2. ASSUME NEW n \in Nodes, Administer(n) PROVE PendingOK'
  <2>1. ASSUME NEW k \in KeyIDs, Create(n, k) \/ Rotate(n, k) PROVE PendingOK'
    <3>1. [op |-> "invalidate", key |-> k] \in [op : {"invalidate"}, key : KeyIDs]
      OBVIOUS
    <3>2. CASE Create(n, k)
      BY <3>2 DEF Create
    <3>3. CASE Rotate(n, k)
      BY <3>1, <3>3 DEF Rotate
    <3> QED BY <2>1, <3>2, <3>3
  <2>2. ASSUME NEW k \in KeyIDs, NEW v \in Versions,
               Shred(n, k, v) \/ SoftDelete(n, k, v) \/ RestoreBegin(n, k, v)
        PROVE  PendingOK'
    <3>1. /\ [op |-> "invalidate", key |-> k] \in [op : {"invalidate"}, key : KeyIDs]
          /\ [op |-> "restore", key |-> k, v |-> v]
               \in [op : {"restore"}, key : KeyIDs, v : Versions]
      OBVIOUS
    <3>2. CASE Shred(n, k, v)
      BY <3>1, <3>2 DEF Shred
    <3>3. CASE SoftDelete(n, k, v)
      BY <3>3 DEF SoftDelete
    <3>4. CASE RestoreBegin(n, k, v)
      BY <3>1, <3>4 DEF RestoreBegin
    <3> QED BY <2>2, <3>2, <3>3, <3>4
  <2>3. ASSUME FinishCreate(n) \/ InvalidateLocal(n) \/ CommitAnswerLost(n)
                 \/ RestoreCommit(n) \/ RestoreAbort(n)
        PROVE  PendingOK'
    BY <2>3, Zenon DEF FinishCreate, InvalidateLocal, CommitAnswerLost, RestoreCommit,
                RestoreAbort, nodeVars
  <2> QED BY <1>2, <2>1, <2>2, <2>3 DEF Administer
<1>3. ASSUME NEW n \in Nodes,
             \/ Listen(n) \/ Deliver(n) \/ Disconnect(n) \/ Reconnect(n)
             \/ ClearCache(n) \/ Crash(n)
      PROVE  PendingOK'
  BY <1>3 DEF Listen, Deliver, Disconnect, Reconnect, ClearCache, Crash
<1>4. CASE UNCHANGED vars
  BY <1>4 DEF vars, nodeVars
<1> QED BY <1>1, <1>2, <1>3, <1>4, ClusterAssumption DEF Next

(* Every step of a cluster is a step of the store or leaves it alone: a    *)
(* restore that invalidates first (manager.go:858-862) is one store step   *)
(* at its commit, a crash in CreateKey is a lost index write.              *)
LEMMA StepIsStoreStep ==
  ASSUME PendingOK, [Next]_vars
  PROVE  [StoreNext]_storeVars
<1> USE DEF StoreNext, ClientNext
<1>1. ASSUME NEW n \in Nodes, Serve(n) PROVE UNCHANGED storeVars
  BY <1>1 DEF Serve, Encrypt, Decrypt, ReadIndex, Lookup, Load, Fill, Reply, NegativeExpires
<1>2. ASSUME NEW n \in Nodes, Administer(n) PROVE [StoreNext]_storeVars
  <2>1. ASSUME NEW k \in KeyIDs, Create(n, k) \/ Rotate(n, k) PROVE StoreNext
    BY <2>1, Zenon DEF Create, Rotate, Nodes
  <2>2. ASSUME NEW k \in KeyIDs, NEW v \in Versions, Shred(n, k, v) \/ SoftDelete(n, k, v)
        PROVE  StoreNext
    BY <2>2, Zenon DEF Shred, SoftDelete
  <2>3. ASSUME NEW k \in KeyIDs, NEW v \in Versions, RestoreBegin(n, k, v)
        PROVE  UNCHANGED storeVars
    BY <2>3 DEF RestoreBegin
  <2>4. ASSUME FinishCreate(n) PROVE StoreNext
    BY <2>4 DEF FinishCreate, Nodes
  <2>5. ASSUME InvalidateLocal(n) \/ CommitAnswerLost(n) \/ RestoreAbort(n)
        PROVE  UNCHANGED storeVars
    BY <2>5 DEF InvalidateLocal, CommitAnswerLost, RestoreAbort
  <2>6. ASSUME RestoreCommit(n) PROVE StoreNext
    <3>1. pending[n].key \in KeyIDs /\ pending[n].v \in Versions
      BY <2>6 DEF RestoreCommit, PendingOK, Done
    <3> QED BY <2>6, <3>1 DEF RestoreCommit
  <2> QED BY <1>2, <2>1, <2>2, <2>3, <2>4, <2>5, <2>6 DEF Administer
<1>3. ASSUME NEW n \in Nodes,
             \/ Listen(n) \/ Deliver(n) \/ Disconnect(n) \/ Reconnect(n) \/ ClearCache(n)
      PROVE  UNCHANGED storeVars
  BY <1>3 DEF Listen, Deliver, Disconnect, Reconnect, ClearCache
<1>4. ASSUME NEW n \in Nodes, Crash(n) PROVE [StoreNext]_storeVars
  BY <1>4 DEF Crash, Nodes
<1>5. CASE UNCHANGED vars
  BY <1>5 DEF vars
<1> QED BY <1>1, <1>2, <1>3, <1>4, <1>5, ClusterAssumption DEF Next

(* A cluster implements the store: ordinary transactions on shared rows    *)
(* are all that its nodes do to the database.                              *)
THEOREM ClusterImplementsStore == Spec => StoreSpec
<1>1. Init => StoreInit /\ PendingOK
  BY DEF Init, PendingOK
<1>2. PendingOK /\ [Next]_vars => PendingOK'
  BY PendingStep
<1>3. PendingOK /\ [Next]_vars => [StoreNext]_storeVars
  BY StepIsStoreStep
<1> QED BY <1>1, <1>2, <1>3, PTL DEF Spec, StoreSpec

(* In a cluster, too, the version GetActiveKey looks at is the only one    *)
(* that can be Active.                                                     *)
THEOREM ClusterActiveIsLatest ==
  ASSUME Disciplined
  PROVE  Spec => []ActiveIsLatest
<1>1. StoreSpec => []ActiveIsLatest
  BY StoreActiveIsLatest
<1> QED BY <1>1, ClusterImplementsStore, PTL

(* ... and a version keeps its DEK and stays shredded, so that a DEK that  *)
(* some node cached long ago is still the version's own.                   *)
THEOREM ClusterVersionHistory ==
  ASSUME Disciplined
  PROVE  Spec => VersionHistory
<1>1. StoreSpec => VersionHistory
  BY StoreVersionHistory
<1> QED BY <1>1, ClusterImplementsStore

-----------------------------------------------------------------------------
(***************************************************************************)
(* The caches, for any number of nodes, keys and versions: what a node has *)
(* cached, what a request uses, and why a cache entry may be stale.        *)
(***************************************************************************)


(* findLatestVersionScan (manager.go:410-424) stops before the first hole. *)
LEMMA ScanFinds ==
  ASSUME NEW k \in KeyIDs
  PROVE  /\ ScanLatest(k) \in 0..MaxVersion
         /\ \A v \in 1..ScanLatest(k) : Exists(k, v)
         /\ ScanLatest(k) < MaxVersion => ~Exists(k, ScanLatest(k) + 1)
<1> DEFINE Good(n) == /\ \A v \in 1..n : Exists(k, v)
                      /\ n < MaxVersion => ~Exists(k, n + 1)
           holes == {n \in 0..MaxVersion : n < MaxVersion => ~Exists(k, n + 1)}
<1> USE StoreAssumption
<1>1. MaxVersion \in holes /\ holes \subseteq Nat
  OBVIOUS
<1>2. PICK n \in holes : \A m \in holes : n <= m
  <2> HIDE DEF holes
  <2> QED BY <1>1, LeastNat, Zenon
<1>3. ASSUME NEW v \in 1..n PROVE Exists(k, v)
  <2>1. v - 1 \in 0..MaxVersion /\ ~(n <= v - 1) /\ v - 1 + 1 = v /\ v - 1 < MaxVersion
    OBVIOUS
  <2>2. v - 1 \notin holes
    BY <1>2, <2>1
  <2> QED BY <2>1, <2>2
<1>4. n \in 0..MaxVersion /\ Good(n)
  BY <1>3
<1>5. ScanLatest(k) = CHOOSE m \in 0..MaxVersion : Good(m)
  BY DEF ScanLatest
<1>6. ScanLatest(k) \in 0..MaxVersion /\ Good(ScanLatest(k))
  <2> HIDE DEF Good
  <2> QED BY <1>4, <1>5
<1> QED BY <1>6
-----------------------------------------------------------------------------
Entries == Cached \cup {Empty, Negative}

(* The version has been given out, so that it cannot be issued anew. *)
Issued(k, v) == k \in born /\ (v = 1 \/ v <= latest[k])

(* A DEK that was read from a version is its own as long as it exists. *)
EntryOK(k, v, e) ==
  e \in Cached => Issued(k, v) /\ (Exists(k, v) => rows[k][v].dek = e.dek)

(* A request that knows its version knows one at least as new as the index *)
(* at its arrival, or found by a scan that stopped at a hole below it.     *)
RequestOK(r) ==
  r # Idle =>
    /\ r \in Requests
    /\ r.floor <= latest[r.key]
    /\ r.pc # "index" =>
         /\ r.v \in Versions
         /\ r.op = "encrypt" =>
              r.v >= r.floor \/ \E u \in (r.v + 1)..r.floor : ~Exists(r.key, u)
    /\ r.pc \in {"fill", "done"} => r.meta # Empty /\ EntryOK(r.key, r.v, r.meta)
    /\ r.pc = "done" => r.meta # Negative

CacheInv ==
  /\ StoreInv /\ TypeOK
  /\ \A n \in Nodes, k \in KeyIDs, v \in Versions : EntryOK(k, v, cache[n][k][v])
  /\ \A n \in Nodes : RequestOK(request[n])

(* What has been read from a version stays true of it (manager.go:468-653), *)
LEMMA EntryStays ==
  ASSUME Disciplined, StoreInv, [StoreNext]_storeVars, NEW k \in KeyIDs, NEW v \in Versions,
         NEW e, EntryOK(k, v, e)
  PROVE  EntryOK(k, v, e)'
<1> SUFFICES ASSUME e \in Cached PROVE Issued(k, v)' /\ (Exists(k, v)' => rows'[k][v].dek = e.dek)
  BY DEF EntryOK
<1>1. Issued(k, v) /\ (Exists(k, v) => rows[k][v].dek = e.dek)
  BY DEF EntryOK
<1>2. Kept(k, v)
  BY <1>1, VersionKept DEF Issued
<1>3. Issued(k, v)'
  BY <1>1, IndexGrows, StoreAssumption DEF Issued, Versions
<1> QED BY <1>1, <1>2, <1>3 DEF Kept, Issued

(* ... and so does what a request knows. *)
LEMMA RequestStays ==
  ASSUME Disciplined, StoreInv, [StoreNext]_storeVars, NEW r, RequestOK(r)
  PROVE  RequestOK(r)'
<1> SUFFICES ASSUME r # Idle, r \in Requests PROVE RequestOK(r)'
  BY DEF RequestOK
<1>1. /\ r.key \in KeyIDs /\ r.floor \in Nat /\ r.v \in Nat /\ r.floor <= MaxVersion
      /\ MaxVersion \in Nat
  BY StoreAssumption DEF Requests
<1>2. r.floor <= latest'[r.key]
  BY <1>1, IndexGrows DEF RequestOK
<1>3. ASSUME NEW u \in (r.v + 1)..r.floor, ~Exists(r.key, u) PROVE ~Exists(r.key, u)'
  <2>1. u \in Versions /\ u <= latest[r.key] /\ latest[r.key] # 0
    BY <1>1, <1>3, IndexGrows DEF RequestOK, Versions
  <2>2. r.key \in born
    BY <1>1, <2>1 DEF StoreInv, StoreShape
  <2> QED BY <1>3, <2>1, <2>2, VersionKept DEF Kept
<1>4. r.pc \in {"fill", "done"} => EntryOK(r.key, r.v, r.meta)'
  BY <1>1, EntryStays DEF RequestOK
<1> QED BY <1>2, <1>3, <1>4 DEF RequestOK
-----------------------------------------------------------------------------
(* The request q is r moved on to pc, with version v. *)
Moved(q, r, pc, v) == /\ q \in Requests /\ q.pc = pc /\ q.v = v
                      /\ q.key = r.key /\ q.op = r.op /\ q.floor = r.floor

(* What a request writes into its own record (manager.go:342-373, 693-740): *)
(* the version it found;                                                   *)
LEMMA FoundRecord ==
  ASSUME NEW r \in Requests, NEW w \in 0..MaxVersion
  PROVE  Moved([r EXCEPT !.pc = "lookup", !.v = w], r, "lookup", w)
BY Zenon DEF Requests, Moved

(* ... that the cache has no entry for it;                                 *)
LEMMA MissRecord ==
  ASSUME NEW r \in Requests
  PROVE  Moved([r EXCEPT !.pc = "load"], r, "load", r.v)
BY DEF Requests, Moved

(* ... and what was read, from the store or the cache.                     *)
LEMMA ReadRecord ==
  ASSUME NEW r \in Requests, NEW p \in {"fill", "done"}, NEW e \in Entries
  PROVE  /\ Moved([r EXCEPT !.pc = p, !.meta = e], r, p, r.v)
         /\ [r EXCEPT !.pc = p, !.meta = e].meta = e
BY Zenon DEF Requests, Moved, Entries

(* What loadMetadata keeps of a row (manager.go:342-373). *)
LEMMA MetaOK ==
  ASSUME StoreInv, NEW k \in KeyIDs, NEW v \in Versions
  PROVE  /\ Meta(rows[k][v]) \in Entries /\ Meta(rows[k][v]) # Empty
         /\ EntryOK(k, v, Meta(rows[k][v]))
<1>1. CASE rows[k][v] = NoRow
  BY <1>1, ClusterAssumption DEF Meta, Entries, EntryOK, Cached
<1>2. CASE rows[k][v] # NoRow
  <2>1. rows[k][v] \in Metadata
    BY <1>2 DEF StoreInv, StoreTypeOK
  <2> DEFINE e == [state |-> rows[k][v].state, dek |-> rows[k][v].dek]
  <2>2. e \in Cached /\ e.dek = rows[k][v].dek
    BY <2>1 DEF Metadata, Cached
  <2>3. Meta(rows[k][v]) = e
    BY <1>2 DEF Meta
  <2>4. Issued(k, v)
    BY <1>2, StoreAssumption DEF StoreInv, StoreShape, Issued, Exists
  <2> HIDE DEF e
  <2> QED BY <2>2, <2>3, <2>4, ClusterAssumption DEF Entries, EntryOK, Cached
<1> QED BY <1>1, <1>2

(* The answer of a request uses what the entry holds. *)
LEMMA RespondOK ==
  ASSUME NEW r, RequestOK(r), r # Idle, r.pc # "index", NEW e \in Entries, e # Empty,
         EntryOK(r.key, r.v, e)
  PROVE  RequestOK(Respond(r, e)) /\ Respond(r, e) \in Requests \cup {Idle}
<1>1. CASE Respond(r, e) = Idle
  BY <1>1 DEF RequestOK
<1>2. CASE Respond(r, e) # Idle
  <2> DEFINE q == [r EXCEPT !.pc = "done", !.meta = e]
  <2>1. r \in Requests /\ e # Negative /\ Respond(r, e) = q
    BY <1>2 DEF Respond, RequestOK
  <2>2. Moved(q, r, "done", r.v) /\ q.meta = e
    BY <2>1, ReadRecord, Zenon
  <2> HIDE DEF q
  <2> QED BY <2>1, <2>2 DEF RequestOK, Moved
<1> QED BY <1>1, <1>2

(* A step of a request leaves it in a state that RequestOK allows. *)
LEMMA ServeRequest ==
  ASSUME CacheInv, NEW n \in Nodes, Serve(n)
  PROVE  request' = [request EXCEPT ![n] = request'[n]] /\ request'[n] \in Requests \cup {Idle} /\ RequestOK(request'[n])
<1> DEFINE r == request[n]
           Goal == \E q \in Requests \cup {Idle} : request' = [request EXCEPT ![n] = q] /\ RequestOK(q)
<1>1. /\ request \in [Nodes -> Requests \cup {Idle}] /\ RequestOK(r)
      /\ Idle.pc = "idle" /\ RequestOK(Idle)
  BY DEF CacheInv, TypeOK, RequestOK, Idle
<1> SUFFICES Goal
  BY <1>1
<1>2. ASSUME NEW k \in KeyIDs, Encrypt(n, k) PROVE Goal
  <2> DEFINE d == latest[k] # 0 /\ InState(k, latest[k], "SoftDeleted")
             q == [pc |-> "index", op |-> "encrypt", key |-> k, v |-> 0, meta |-> Empty,
                   floor |-> latest[k], deleted |-> d]
  <2>1. latest[k] \in 0..MaxVersion /\ latest[k] <= latest[k] /\ d \in BOOLEAN /\ 0 \in 0..MaxVersion
    BY StoreAssumption DEF CacheInv, StoreInv, StoreTypeOK
  <2>2. request' = [request EXCEPT ![n] = q]
    BY <1>2 DEF Encrypt
  <2> HIDE DEF d
  <2>3. q \in Requests /\ RequestOK(q)
    BY <2>1 DEF Requests, RequestOK
  <2> QED BY <2>2, <2>3, Zenon
<1>3. ASSUME NEW k \in KeyIDs, NEW v \in Versions, Decrypt(n, k, v) PROVE Goal
  <2> DEFINE q == [pc |-> "lookup", op |-> "decrypt", key |-> k, v |-> v, meta |-> Empty,
                   floor |-> 0, deleted |-> FALSE]
  <2>1. latest[k] \in Nat /\ v \in 0..MaxVersion /\ 0 \in 0..MaxVersion
    BY StoreAssumption DEF CacheInv, StoreInv, StoreTypeOK, Versions
  <2>2. request' = [request EXCEPT ![n] = q]
    BY <1>3 DEF Decrypt
  <2>3. q \in Requests /\ RequestOK(q)
    BY <2>1 DEF Requests, RequestOK
  <2> QED BY <2>2, <2>3, Zenon
<1>4. CASE ReadIndex(n)
  <2>1. r \in Requests /\ r.pc = "index" /\ r.key \in KeyIDs /\ r.floor \in Nat
          /\ r.floor <= latest[r.key] /\ r.floor <= MaxVersion /\ MaxVersion \in Nat
    BY <1>1, <1>4, StoreAssumption DEF ReadIndex, Requests, RequestOK
  <2>2. PICK w \in {LatestVersion(r.key), ScanLatest(r.key)} :
          request' = [request EXCEPT ![n] =
            IF w = 0 THEN Idle ELSE [r EXCEPT !.pc = "lookup", !.v = w]]
    BY <1>1, <1>4, Zenon DEF ReadIndex
  <2>3. /\ w \in 0..MaxVersion
        /\ w >= r.floor \/ \E u \in (w + 1)..r.floor : ~Exists(r.key, u)
    <3>1. /\ ScanLatest(r.key) \in 0..MaxVersion
          /\ ScanLatest(r.key) < MaxVersion => ~Exists(r.key, ScanLatest(r.key) + 1)
      BY <2>1, ScanFinds
    <3>2. CASE w = ScanLatest(r.key)
      <4>1. w < r.floor => w + 1 \in (w + 1)..r.floor /\ w < MaxVersion
        BY <2>1, <3>1, <3>2
      <4>2. w \in Nat
        BY <2>1, <3>1, <3>2
      <4> QED BY <2>1, <3>1, <3>2, <4>1, <4>2
    <3>3. CASE latest[r.key] # 0 /\ w = latest[r.key]
      BY <2>1, <3>3 DEF CacheInv, StoreInv, StoreTypeOK
    <3> QED BY <2>2, <3>2, <3>3 DEF LatestVersion
  <2>4. CASE w = 0
    BY <1>1, <2>2, <2>4, Zenon
  <2>5. CASE w # 0
    <3> DEFINE q == [r EXCEPT !.pc = "lookup", !.v = w]
    <3>1. Moved(q, r, "lookup", w)
      BY <2>1, <2>3, FoundRecord, Zenon
    <3>2. request' = [request EXCEPT ![n] = q]
      BY <2>2, <2>5
    <3>3. w \in Versions
      BY <2>1, <2>3, <2>5 DEF Versions
    <3> HIDE DEF q
    <3>4. RequestOK(q)
      BY <2>1, <2>3, <3>1, <3>3 DEF RequestOK, Moved
    <3> QED BY <3>1, <3>2, <3>4, Zenon DEF Moved
  <2> QED BY <2>4, <2>5
<1>5. ASSUME r.pc \in {"lookup", "load", "fill"}
      PROVE  r # Idle /\ r \in Requests /\ r.key \in KeyIDs /\ r.v \in Versions /\ r.pc # "index" /\ r.pc # "done"
  BY <1>1, <1>5 DEF RequestOK, Requests
<1>6. CASE Lookup(n)
  <2> DEFINE e == cache[n][r.key][r.v]
  <2>1. r.pc = "lookup" /\ request' = [request EXCEPT ![n] =
          IF e = Empty THEN [r EXCEPT !.pc = "load"] ELSE Respond(r, e)]
    BY <1>6 DEF Lookup
  <2>2. e \in Entries /\ EntryOK(r.key, r.v, e)
    BY <1>5, <2>1 DEF CacheInv, TypeOK, Entries
  <2> HIDE DEF e
  <2>3. CASE e = Empty
    <3> DEFINE q == [r EXCEPT !.pc = "load"]
    <3>1. Moved(q, r, "load", r.v)
      BY <1>5, <2>1, MissRecord
    <3>2. request' = [request EXCEPT ![n] = q]
      BY <2>1, <2>3
    <3> HIDE DEF q
    <3>3. RequestOK(q)
      BY <1>1, <1>5, <2>1, <3>1 DEF RequestOK, Moved
    <3> QED BY <3>1, <3>2, <3>3, Zenon DEF Moved
  <2>4. CASE e # Empty
    BY <1>1, <1>5, <2>1, <2>2, <2>4, RespondOK, Zenon
  <2> QED BY <2>3, <2>4
<1>7. CASE Load(n)
  <2> DEFINE e == Meta(rows[r.key][r.v])
             q == [r EXCEPT !.pc = "fill", !.meta = e]
  <2>1. r.pc = "load" /\ (request' = [request EXCEPT ![n] = q] \/ request' = [request EXCEPT ![n] = Idle])
    BY <1>7 DEF Load
  <2>2. e \in Entries /\ e # Empty /\ EntryOK(r.key, r.v, e)
    BY <1>5, <2>1, MetaOK DEF CacheInv
  <2> HIDE DEF e
  <2>3. Moved(q, r, "fill", r.v) /\ q.meta = e
    BY <1>5, <2>1, <2>2, ReadRecord, Zenon
  <2> HIDE DEF q
  <2>4. RequestOK(q)
    BY <1>1, <1>5, <2>1, <2>2, <2>3 DEF RequestOK, Moved
  <2> QED BY <1>1, <2>1, <2>3, <2>4, Zenon DEF Moved
<1>8. CASE Fill(n)
  <2>1. r.pc = "fill" /\ request' = [request EXCEPT ![n] = Respond(r, r.meta)]
    BY <1>8 DEF Fill
  <2>2. r.meta \in Entries /\ r.meta # Empty /\ EntryOK(r.key, r.v, r.meta)
    BY <1>1, <1>5, <2>1 DEF RequestOK, Requests, Entries
  <2> QED BY <1>1, <1>5, <2>1, <2>2, RespondOK, Zenon
<1>9. CASE Reply(n)
  BY <1>1, <1>9, Zenon DEF Reply
<1>10. ASSUME NEW k \in KeyIDs, NEW v \in Versions, NegativeExpires(n, k, v) PROVE Goal
  <2>1. request' = request
    BY <1>10 DEF NegativeExpires
  <2> QED BY <1>1, <2>1
<1> HIDE DEF Goal
<1> QED BY <1>2, <1>3, <1>4, <1>6, <1>7, <1>8, <1>9, <1>10, Zenon DEF Serve
-----------------------------------------------------------------------------
(* Why an entry of n may differ from the store, see StaleHasCause. *)
Cause(n, k, v) ==
  \/ <<k, v>> \in excused[n]
  \/ \E i \in DOMAIN inbox[n] : inbox[n][i] = k
  \/ pending[n].op = "invalidate" /\ pending[n].key = k
  \/ listener[n] = "lost"

(* Types of the caches and of the LISTEN sessions. *)
NodeTypes ==
  /\ cache \in [Nodes -> [KeyIDs -> [Versions -> Entries]]]
  /\ listener \in [Nodes -> {"off", "starting", "up", "lost"}]
  /\ inbox \in [Nodes -> Seq(KeyIDs)] /\ \A n \in Nodes : Len(inbox[n]) <= MaxInbox
  /\ excused \in [Nodes -> SUBSET (KeyIDs \X Versions)]

(* What a step does to the caches: entries stay, are emptied, or hold what *)
(* was read from their version; and a stale one has a cause.               *)
CachesStep ==
  /\ NodeTypes'
  /\ \A m \in Nodes, l \in KeyIDs, u \in Versions :
       /\ \/ cache'[m][l][u] \in {cache[m][l][u], Empty}
          \/ UNCHANGED storeVars /\ EntryOK(l, u, cache'[m][l][u])
       /\ Stale(m, l, u)' => Cause(m, l, u)'

(* dekCache.invalidate (cache.go:86-104). *)
LEMMA InvalidateDoes ==
  ASSUME NodeTypes, NEW n \in Nodes, NEW k \in KeyIDs, Invalidate(n, k)
  PROVE  /\ cache' \in [Nodes -> [KeyIDs -> [Versions -> Entries]]]
         /\ excused' \in [Nodes -> SUBSET (KeyIDs \X Versions)]
         /\ \A m \in Nodes, l \in KeyIDs, u \in Versions :
              IF m = n /\ l = k THEN cache'[m][l][u] = Empty
              ELSE /\ cache'[m][l][u] = cache[m][l][u]
                   /\ <<l, u>> \in excused[m] => <<l, u>> \in excused'[m]
<1>1. NoEntries[k] \in [Versions -> Entries] /\ \A u \in Versions : NoEntries[k][u] = Empty
  BY DEF NoEntries, Entries
<1>2. cache' = [cache EXCEPT ![n][k] = NoEntries[k]] /\ excused' = [excused EXCEPT ![n] = @ \ All(k)]
  BY DEF Invalidate
<1>3. cache' \in [Nodes -> [KeyIDs -> [Versions -> Entries]]]
  BY <1>1, <1>2 DEF NodeTypes
<1>4. excused' \in [Nodes -> SUBSET (KeyIDs \X Versions)]
  BY <1>2 DEF NodeTypes
<1>5. ASSUME NEW m \in Nodes, NEW l \in KeyIDs, NEW u \in Versions
      PROVE  IF m = n /\ l = k THEN cache'[m][l][u] = Empty
             ELSE /\ cache'[m][l][u] = cache[m][l][u]
                  /\ <<l, u>> \in excused[m] => <<l, u>> \in excused'[m]
  <2>1. IF m = n /\ l = k THEN cache'[m][l] = NoEntries[k] ELSE cache'[m][l] = cache[m][l]
    BY <1>2 DEF NodeTypes
  <2>2. ~(m = n /\ l = k) /\ <<l, u>> \in excused[m] => <<l, u>> \in excused'[m]
    BY <1>2 DEF NodeTypes, All
  <2> QED BY <1>1, <2>1, <2>2
<1> QED BY <1>3, <1>4, <1>5

(* dekCache.clear (cache.go:108-113). *)
LEMMA ClearDoes ==
  ASSUME NodeTypes, NEW n \in Nodes, Clear(n)
  PROVE  /\ cache' \in [Nodes -> [KeyIDs -> [Versions -> Entries]]]
         /\ excused' \in [Nodes -> SUBSET (KeyIDs \X Versions)]
         /\ \A m \in Nodes, l \in KeyIDs, u \in Versions :
              IF m = n THEN cache'[m][l][u] = Empty
              ELSE cache'[m][l][u] = cache[m][l][u] /\ excused'[m] = excused[m]
<1>1. /\ NoEntries \in [KeyIDs -> [Versions -> Entries]]
      /\ \A l \in KeyIDs, u \in Versions : NoEntries[l][u] = Empty
  BY DEF NoEntries, Entries
<1>2. /\ cache' \in [Nodes -> [KeyIDs -> [Versions -> Entries]]]
      /\ \A m \in Nodes : IF m = n THEN cache'[m] = NoEntries ELSE cache'[m] = cache[m]
  BY <1>1 DEF Clear, NodeTypes
<1>3. /\ excused' \in [Nodes -> SUBSET (KeyIDs \X Versions)]
      /\ \A m \in Nodes : m # n => excused'[m] = excused[m]
  BY DEF Clear, NodeTypes
<1> QED BY <1>1, <1>2, <1>3

(* The history of what nothing repairs grows by what the nodes have cached. *)
LEMMA ExcuseDoes ==
  ASSUME NodeTypes, NEW nodes \in SUBSET Nodes, NEW S \in SUBSET (KeyIDs \X Versions),
         Excuse(nodes, S)
  PROVE  /\ excused' \in [Nodes -> SUBSET (KeyIDs \X Versions)]
         /\ \A m \in Nodes, l \in KeyIDs, u \in Versions :
              \/ <<l, u>> \in excused[m]
              \/ m \in nodes /\ <<l, u>> \in S /\ cache[m][l][u] # Empty
              => <<l, u>> \in excused'[m]
<1>1. excused \in [Nodes -> SUBSET (KeyIDs \X Versions)]
  BY DEF NodeTypes
<1>2. \A m \in Nodes : excused'[m] =
        IF m \in nodes THEN excused[m] \cup {e \in S : cache[m][e[1]][e[2]] # Empty} ELSE excused[m]
  BY DEF Excuse
<1>3. excused' \in [Nodes -> SUBSET (KeyIDs \X Versions)]
  BY <1>1 DEF Excuse
<1>4. ASSUME NEW m \in Nodes, NEW l \in KeyIDs, NEW u \in Versions,
             \/ <<l, u>> \in excused[m]
             \/ m \in nodes /\ <<l, u>> \in S /\ cache[m][l][u] # Empty
      PROVE  <<l, u>> \in excused'[m]
  BY <1>2, <1>4, Zenon
<1> QED BY <1>3, <1>4

(* Whoever has the notified key cached will drop it, or is excused.        *)
Notified(n, k, repairs) ==
  \A m \in Nodes, l \in KeyIDs, u \in Versions :
    /\ <<l, u>> \in excused[m] => <<l, u>> \in excused'[m]
    /\ (\E i \in DOMAIN inbox[m] : inbox[m][i] = l) =>
          \E i \in DOMAIN inbox'[m] : inbox'[m][i] = l
    /\ cache[m][k][u] # Empty =>
         \/ \E i \in DOMAIN inbox'[m] : inbox'[m][i] = k
         \/ <<k, u>> \in excused'[m]
         \/ repairs /\ m = n

(* NotifyInvalidationInTx (pg_kvstore.go:348-358): every node hears of     *)
(* it, has an excuse for what it has cached, or is the one that repairs.   *)
LEMMA NotifyDoes ==
  ASSUME NodeTypes, NEW n \in Nodes, NEW k \in KeyIDs, NEW repairs \in BOOLEAN,
         NotifyInvalidationInTx(n, k, repairs)
  PROVE  /\ inbox' \in [Nodes -> Seq(KeyIDs)] /\ \A m \in Nodes : Len(inbox'[m]) <= MaxInbox
         /\ excused' \in [Nodes -> SUBSET (KeyIDs \X Versions)]
         /\ Notified(n, k, repairs)
<1> DEFINE hears == {m \in Nodes : listener[m] = "up"}
           missed == Nodes \ (hears \cup (IF repairs THEN {n} ELSE {}))
<1>1. /\ \A m \in hears : Len(inbox[m]) < MaxInbox
      /\ inbox' = [m \in Nodes |-> IF m \in hears THEN Append(inbox[m], k) ELSE inbox[m]]
      /\ Excuse(missed, All(k))
  BY DEF NotifyInvalidationInTx
<1>2. missed \in SUBSET Nodes /\ All(k) \in SUBSET (KeyIDs \X Versions)
  BY DEF All
<1>3. \A m \in Nodes : m \in hears \/ m \in missed \/ (repairs /\ m = n)
  OBVIOUS
<1> HIDE DEF hears, missed
<1>4. /\ excused' \in [Nodes -> SUBSET (KeyIDs \X Versions)]
      /\ \A m \in Nodes, l \in KeyIDs, u \in Versions :
           \/ <<l, u>> \in excused[m]
           \/ m \in missed /\ <<l, u>> \in All(k) /\ cache[m][l][u] # Empty
           => <<l, u>> \in excused'[m]
  BY <1>1, <1>2, ExcuseDoes, Zenon
<1>5. ASSUME NEW m \in Nodes
      PROVE  /\ inbox'[m] \in Seq(KeyIDs) /\ Len(inbox'[m]) <= MaxInbox
             /\ \A i \in DOMAIN inbox[m] : i \in DOMAIN inbox'[m] /\ inbox'[m][i] = inbox[m][i]
             /\ m \in hears => \E i \in DOMAIN inbox'[m] : inbox'[m][i] = k
  <2>1. inbox[m] \in Seq(KeyIDs) /\ Len(inbox[m]) <= MaxInbox /\ MaxInbox \in Nat
    BY ClusterAssumption DEF NodeTypes
  <2>2. CASE m \in hears
    <3>1. inbox'[m] = Append(inbox[m], k) /\ Len(inbox[m]) < MaxInbox
      BY <1>1, <2>2
    <3>2. /\ Append(inbox[m], k) \in Seq(KeyIDs)
          /\ Len(Append(inbox[m], k)) = Len(inbox[m]) + 1
          /\ \A i \in 1..Len(inbox[m]) : Append(inbox[m], k)[i] = inbox[m][i]
          /\ Append(inbox[m], k)[Len(inbox[m]) + 1] = k
      BY <2>1
    <3>3. Len(inbox[m]) \in Nat /\ DOMAIN inbox[m] = 1..Len(inbox[m])
            /\ DOMAIN Append(inbox[m], k) = 1..(Len(inbox[m]) + 1)
      BY <2>1, <3>2
    <3> QED BY <2>1, <3>1, <3>2, <3>3
  <2>3. CASE m \notin hears
    BY <1>1, <2>1, <2>3
  <2> QED BY <2>2, <2>3
<1>6. inbox' \in [Nodes -> Seq(KeyIDs)]
  <2>1. inbox' = [m \in Nodes |-> inbox'[m]]
    BY <1>1
  <2> QED BY <1>5, <2>1
<1>7. \A u \in Versions : <<k, u>> \in All(k)
  BY DEF All
<1>8. Notified(n, k, repairs)
  BY <1>3, <1>4, <1>5, <1>7 DEF Notified
<1> QED BY <1>4, <1>5, <1>6, <1>8
-----------------------------------------------------------------------------
(* A step that changes neither rows nor caches keeps the causes it finds. *)
LEMMA QuietStep ==
  ASSUME StaleHasCause, NodeTypes, NodeTypes', UNCHANGED <<storeVars, cache>>,
         \A m \in Nodes, l \in KeyIDs, u \in Versions :
           Stale(m, l, u) /\ Cause(m, l, u) => Cause(m, l, u)'
  PROVE  CachesStep
<1>1. \A m \in Nodes, l \in KeyIDs, u \in Versions : Stale(m, l, u)' => Stale(m, l, u)
  BY DEF Stale, storeVars, Meta
<1>2. \A m \in Nodes, l \in KeyIDs, u \in Versions : Stale(m, l, u) => Cause(m, l, u)
  BY DEF StaleHasCause, Cause
<1> QED BY <1>1, <1>2 DEF CachesStep

(* Requests fill their own node's cache and note a row that has changed    *)
(* since it was read (manager.go:342-373).                                 *)
LEMMA ServeCaches ==
  ASSUME CacheInv, NodeTypes, StaleHasCause, NEW n \in Nodes, Serve(n)
  PROVE  CachesStep
<1> DEFINE r == request[n]
<1>1. ASSUME UNCHANGED <<storeVars, cache, pending, listener, inbox, excused>> PROVE CachesStep
  BY <1>1, QuietStep DEF NodeTypes, Cause
<1>2. CASE Fill(n)
  <2>1. /\ r # Idle /\ r \in Requests /\ r.key \in KeyIDs /\ r.v \in Versions
        /\ r.meta \in Entries /\ EntryOK(r.key, r.v, r.meta)
    <3>1. r.pc = "fill" /\ RequestOK(r)
      BY <1>2 DEF Fill, CacheInv
    <3>2. r # Idle
      BY <3>1 DEF Idle
    <3> QED BY <3>1, <3>2 DEF RequestOK, Requests, Entries
  <2> DEFINE k == r.key
             v == r.v
             e == r.meta
             fresh == e = Meta(rows[k][v])
  <2>2. /\ cache' = [cache EXCEPT ![n][k][v] = e]
        /\ excused' = [excused EXCEPT ![n] = IF fresh THEN @ ELSE @ \cup {<<k, v>>}]
        /\ UNCHANGED <<storeVars, pending, listener, inbox>>
    BY <1>2 DEF Fill
  <2>3. k \in KeyIDs /\ v \in Versions /\ e \in Entries /\ EntryOK(k, v, e)
    BY <2>1
  <2>4. fresh <=> e = Meta(rows[k][v])
    OBVIOUS
  <2> HIDE DEF k, v, e, fresh, r
  <2>5. NodeTypes'
    BY <2>2, <2>3 DEF NodeTypes
  <2>6. ASSUME NEW m \in Nodes, NEW l \in KeyIDs, NEW u \in Versions
        PROVE  /\ \/ cache'[m][l][u] \in {cache[m][l][u], Empty}
                  \/ UNCHANGED storeVars /\ EntryOK(l, u, cache'[m][l][u])
               /\ Stale(m, l, u)' => Cause(m, l, u)'
    <3>1. <<l, u>> \in excused[m] => <<l, u>> \in excused'[m]
      BY <2>2 DEF NodeTypes
    <3>2. rows' = rows
      BY <2>2 DEF storeVars
    <3>3. CASE m = n /\ l = k /\ u = v
      <4>1. cache'[m][l][u] = e
        BY <2>2, <3>3 DEF NodeTypes
      <4>2. ~fresh => <<l, u>> \in excused'[m]
        BY <2>2, <3>3 DEF NodeTypes
      <4> QED BY <2>2, <2>3, <2>4, <3>2, <3>3, <4>1, <4>2 DEF Stale, Cause, Meta
    <3>4. CASE ~(m = n /\ l = k /\ u = v)
      <4>1. cache'[m][l][u] = cache[m][l][u]
        BY <2>2, <3>4 DEF NodeTypes
      <4> QED BY <2>2, <3>1, <3>2, <4>1 DEF Stale, Meta, Cause, StaleHasCause
    <3> QED BY <3>3, <3>4
  <2> QED BY <2>5, <2>6 DEF CachesStep
<1>3. ASSUME NEW k \in KeyIDs, NEW v \in Versions, NegativeExpires(n, k, v) PROVE CachesStep
  <2>1. /\ cache' = [cache EXCEPT ![n][k][v] = Empty]
        /\ excused' = [excused EXCEPT ![n] = @ \ {<<k, v>>}]
        /\ UNCHANGED <<storeVars, pending, listener, inbox>>
    BY <1>3 DEF NegativeExpires
  <2>2. Empty \in Entries
    BY DEF Entries
  <2>3. NodeTypes'
    BY <2>1, <2>2 DEF NodeTypes
  <2>4. ASSUME NEW m \in Nodes, NEW l \in KeyIDs, NEW u \in Versions
        PROVE  /\ cache'[m][l][u] \in {cache[m][l][u], Empty}
               /\ Stale(m, l, u)' => Cause(m, l, u)'
    <3>1. CASE m = n /\ l = k /\ u = v
      <4>1. cache'[m][l][u] = Empty
        BY <2>1, <3>1 DEF NodeTypes
      <4> QED BY <4>1 DEF Stale
    <3>2. CASE ~(m = n /\ l = k /\ u = v)
      <4>1. cache'[m][l][u] = cache[m][l][u] /\ (<<l, u>> \in excused[m] => <<l, u>> \in excused'[m])
        BY <2>1, <3>2 DEF NodeTypes
      <4> QED BY <2>1, <4>1 DEF Stale, Meta, Cause, StaleHasCause, storeVars
    <3> QED BY <3>1, <3>2
  <2> QED BY <2>3, <2>4 DEF CachesStep
<1> QED BY <1>1, <1>2, <1>3 DEF Serve, Encrypt, Decrypt, ReadIndex, Lookup, Load, Reply

(* What a step leaves of the notifications and the invalidations that are  *)
(* under way, for every key of every node but one.                         *)
CausesStay(n, k) ==
  \A m \in Nodes, l \in KeyIDs :
    ~(m = n /\ l = k) =>
      /\ pending[m].op = "invalidate" /\ pending[m].key = l =>
           pending'[m].op = "invalidate" /\ pending'[m].key = l
      /\ (\E i \in DOMAIN inbox[m] : inbox[m][i] = l) =>
            \E i \in DOMAIN inbox'[m] : inbox'[m][i] = l

(* A step that invalidates one key of one node (cache.go:86-104): its own *)
(* after a commit, a restore's, or one that was notified.                  *)
LEMMA InvalidatingStep ==
  ASSUME StaleHasCause, NodeTypes, NEW n \in Nodes, NEW k \in KeyIDs, Invalidate(n, k),
         UNCHANGED <<storeVars, listener>>,
         inbox' \in [Nodes -> Seq(KeyIDs)], \A m \in Nodes : Len(inbox'[m]) <= MaxInbox,
         CausesStay(n, k)
  PROVE  CachesStep
<1>1. /\ cache' \in [Nodes -> [KeyIDs -> [Versions -> Entries]]]
      /\ excused' \in [Nodes -> SUBSET (KeyIDs \X Versions)]
      /\ \A m \in Nodes, l \in KeyIDs, u \in Versions :
           IF m = n /\ l = k THEN cache'[m][l][u] = Empty
           ELSE /\ cache'[m][l][u] = cache[m][l][u]
                /\ <<l, u>> \in excused[m] => <<l, u>> \in excused'[m]
  BY InvalidateDoes
<1>2. NodeTypes'
  BY <1>1 DEF NodeTypes
<1>3. ASSUME NEW m \in Nodes, NEW l \in KeyIDs, NEW u \in Versions
      PROVE  /\ cache'[m][l][u] \in {cache[m][l][u], Empty}
             /\ Stale(m, l, u)' => Cause(m, l, u)'
  <2>1. CASE m = n /\ l = k
    BY <1>1, <2>1, Zenon DEF Stale
  <2>2. CASE ~(m = n /\ l = k)
    <3>1. cache'[m][l][u] = cache[m][l][u]
      BY <1>1, <2>2, Zenon
    <3>2. Stale(m, l, u)' => Stale(m, l, u)
      BY <3>1 DEF Stale, Meta, storeVars
    <3>3. Cause(m, l, u) => Cause(m, l, u)'
      <4>1. <<l, u>> \in excused[m] => <<l, u>> \in excused'[m]
        BY <1>1, <2>2, Zenon
      <4>2. /\ pending[m].op = "invalidate" /\ pending[m].key = l =>
                 pending'[m].op = "invalidate" /\ pending'[m].key = l
            /\ (\E i \in DOMAIN inbox[m] : inbox[m][i] = l) =>
                  \E i \in DOMAIN inbox'[m] : inbox'[m][i] = l
        BY <2>2, Zenon DEF CausesStay
      <4>3. listener'[m] = listener[m]
        OBVIOUS
      <4> QED BY <4>1, <4>2, <4>3, Zenon DEF Cause
    <3> QED BY <3>1, <3>2, <3>3, Zenon DEF StaleHasCause, Cause
  <2> QED BY <2>1, <2>2
<1> QED BY <1>2, <1>3 DEF CachesStep

(* A step that clears one node's cache (cache.go:108-113): a reconnect, an *)
(* emergency seal, a crash.                                                *)
LEMMA ClearingStep ==
  ASSUME StaleHasCause, NodeTypes, NEW n \in Nodes, Clear(n), rows' = rows,
         listener' \in [Nodes -> {"off", "starting", "up", "lost"}],
         inbox' \in [Nodes -> Seq(KeyIDs)], \A m \in Nodes : Len(inbox'[m]) <= MaxInbox,
         \A m \in Nodes : m # n => /\ pending'[m] = pending[m]
                                   /\ inbox'[m] = inbox[m]
                                   /\ listener'[m] = listener[m]
  PROVE  CachesStep
<1>1. /\ cache' \in [Nodes -> [KeyIDs -> [Versions -> Entries]]]
      /\ excused' \in [Nodes -> SUBSET (KeyIDs \X Versions)]
      /\ \A m \in Nodes, l \in KeyIDs, u \in Versions :
           IF m = n THEN cache'[m][l][u] = Empty
           ELSE cache'[m][l][u] = cache[m][l][u] /\ excused'[m] = excused[m]
  BY ClearDoes
<1>2. NodeTypes'
  BY <1>1 DEF NodeTypes
<1>3. ASSUME NEW m \in Nodes, NEW l \in KeyIDs, NEW u \in Versions
      PROVE  /\ cache'[m][l][u] \in {cache[m][l][u], Empty}
             /\ Stale(m, l, u)' => Cause(m, l, u)'
  <2>1. CASE m = n
    BY <1>1, <2>1 DEF Stale
  <2>2. CASE m # n
    <3>1. /\ cache'[m][l][u] = cache[m][l][u] /\ excused'[m] = excused[m]
          /\ pending'[m] = pending[m] /\ inbox'[m] = inbox[m] /\ listener'[m] = listener[m]
      BY <1>1, <2>2
    <3>2. Stale(m, l, u)' => Stale(m, l, u)
      BY <3>1 DEF Stale, Meta
    <3>3. Cause(m, l, u) => Cause(m, l, u)'
      BY <3>1 DEF Cause
    <3> QED BY <3>1, <3>2, <3>3 DEF StaleHasCause, Cause
  <2> QED BY <2>1, <2>2
<1> QED BY <1>2, <1>3 DEF CachesStep

(* A transaction that changes rows of one key and notifies                 *)
(* (manager.go:555, 637, 852): who does not hear of it is excused, or is   *)
(* the node itself, which goes on to invalidate.                           *)
LEMMA NotifyingStep ==
  ASSUME StaleHasCause, NodeTypes, NEW n \in Nodes, NEW k \in KeyIDs, NEW repairs \in BOOLEAN,
         NotifyInvalidationInTx(n, k, repairs), UNCHANGED <<cache, listener>>,
         \A l \in KeyIDs : l # k => rows'[l] = rows[l],
         \A m \in Nodes, l \in KeyIDs :
           pending[m].op = "invalidate" /\ pending[m].key = l =>
             pending'[m].op = "invalidate" /\ pending'[m].key = l,
         repairs => pending'[n].op = "invalidate" /\ pending'[n].key = k
  PROVE  CachesStep
<1>1. /\ inbox' \in [Nodes -> Seq(KeyIDs)] /\ \A m \in Nodes : Len(inbox'[m]) <= MaxInbox
      /\ excused' \in [Nodes -> SUBSET (KeyIDs \X Versions)]
      /\ Notified(n, k, repairs)
  BY NotifyDoes, Zenon
<1>2. NodeTypes'
  BY <1>1 DEF NodeTypes
<1>3. ASSUME NEW m \in Nodes, NEW l \in KeyIDs, NEW u \in Versions
      PROVE  Stale(m, l, u)' => Cause(m, l, u)'
  <2>1. /\ <<l, u>> \in excused[m] => <<l, u>> \in excused'[m]
        /\ (\E i \in DOMAIN inbox[m] : inbox[m][i] = l) =>
              \E i \in DOMAIN inbox'[m] : inbox'[m][i] = l
        /\ cache[m][k][u] # Empty =>
             \/ \E i \in DOMAIN inbox'[m] : inbox'[m][i] = k
             \/ <<k, u>> \in excused'[m]
             \/ repairs /\ m = n
    BY <1>1, Zenon DEF Notified
  <2>2. CASE l = k
    BY <2>1, <2>2 DEF Stale, Cause
  <2>3. CASE l # k
    <3>1. Stale(m, l, u)' => Stale(m, l, u)
      BY <2>3 DEF Stale, Meta
    <3>2. Cause(m, l, u) => Cause(m, l, u)'
      BY <2>1 DEF Cause
    <3> QED BY <3>1, <3>2 DEF StaleHasCause, Cause
  <2> QED BY <2>2, <2>3
<1> QED BY <1>2, <1>3 DEF CachesStep

(* A transaction that changes one row and notifies nobody (manager.go:753, *)
(* 235, 320): every node that has it cached is excused.                    *)
LEMMA SilentStep ==
  ASSUME StaleHasCause, NodeTypes, NEW k \in KeyIDs, NEW v \in Versions,
         Excuse(Nodes, {<<k, v>>}), UNCHANGED <<cache, pending, listener, inbox>>,
         \A l \in KeyIDs, u \in Versions : <<l, u>> # <<k, v>> => rows'[l][u] = rows[l][u]
  PROVE  CachesStep
<1>1. /\ excused' \in [Nodes -> SUBSET (KeyIDs \X Versions)]
      /\ \A m \in Nodes, l \in KeyIDs, u \in Versions :
           \/ <<l, u>> \in excused[m]
           \/ m \in Nodes /\ <<l, u>> \in {<<k, v>>} /\ cache[m][l][u] # Empty
           => <<l, u>> \in excused'[m]
  <2>1. {<<k, v>>} \in SUBSET (KeyIDs \X Versions)
    BY SMTT(60)
  <2> QED BY <2>1, ExcuseDoes, Zenon
<1>2. NodeTypes'
  BY <1>1 DEF NodeTypes
<1>3. ASSUME NEW m \in Nodes, NEW l \in KeyIDs, NEW u \in Versions
      PROVE  Stale(m, l, u)' => Cause(m, l, u)'
  <2>1. CASE <<l, u>> = <<k, v>>
    BY <1>1, <2>1 DEF Stale, Cause
  <2>2. CASE <<l, u>> # <<k, v>>
    <3>1. Stale(m, l, u)' => Stale(m, l, u)
      BY <2>2 DEF Stale, Meta
    <3>2. Cause(m, l, u) => Cause(m, l, u)'
      BY <1>1 DEF Cause
    <3> QED BY <3>1, <3>2 DEF StaleHasCause, Cause
  <2> QED BY <2>1, <2>2
<1> QED BY <1>2, <1>3 DEF CachesStep

(* The lifecycle operations of a node. *)
LEMMA AdministerCaches ==
  ASSUME CacheInv, NodeTypes, StaleHasCause, PendingOK, NEW n \in Nodes, Administer(n)
  PROVE  CachesStep
<1>0. /\ rows \in [KeyIDs -> [Versions -> Metadata \cup {NoRow}]]
      /\ 1 \in Versions
      /\ Done.op = "none"
      /\ \A m \in Nodes : pending[m].op = "invalidate" => pending[m].key \in KeyIDs
      /\ pending[n].op = "restore" => pending[n].key \in KeyIDs /\ pending[n].v \in Versions
  <2>1. rows \in [KeyIDs -> [Versions -> Metadata \cup {NoRow}]]
    BY DEF CacheInv, StoreInv, StoreTypeOK
  <2>2. 1 \in Versions
    BY StoreAssumption DEF Versions
  <2>3. Done.op = "none"
    BY DEF Done
  <2>4. ASSUME NEW m \in Nodes
        PROVE  /\ pending[m].op = "invalidate" => pending[m].key \in KeyIDs
               /\ pending[m].op = "restore" => pending[m].key \in KeyIDs /\ pending[m].v \in Versions
    <3>1. \/ pending[m] = Done
          \/ pending[m] \in [op : {"invalidate"}, key : KeyIDs]
          \/ pending[m] \in [op : {"restore"}, key : KeyIDs, v : Versions]
      BY Zenon DEF PendingOK
    <3>2. CASE pending[m] = Done
      BY <2>3, <3>2
    <3>3. CASE pending[m] \in [op : {"invalidate"}, key : KeyIDs]
      BY <3>3
    <3>4. CASE pending[m] \in [op : {"restore"}, key : KeyIDs, v : Versions]
      BY <3>4
    <3> QED BY <3>1, <3>2, <3>3, <3>4, Zenon
  <2> QED BY <2>1, <2>2, <2>3, <2>4, Zenon
<1>1. ASSUME NEW k \in KeyIDs, Create(n, k) PROVE CachesStep
  <2>1. /\ Excuse(Nodes, {<<k, 1>>}) /\ UNCHANGED <<cache, pending, listener, inbox>>
        /\ \A l \in KeyIDs, u \in Versions : <<l, u>> # <<k, 1>> => rows'[l][u] = rows[l][u]
    <3>1. /\ Excuse(Nodes, {<<k, 1>>}) /\ UNCHANGED <<cache, pending, listener, inbox>>
          /\ rows' = [rows EXCEPT ![k][1] = NewRow]
      BY <1>1, Zenon DEF Create, CreateKey, ImportKey, PutFirst
    <3>2. ASSUME NEW l \in KeyIDs, NEW u \in Versions, <<l, u>> # <<k, 1>>
          PROVE  rows'[l][u] = rows[l][u]
      <4>1. l # k \/ u # 1
        BY <3>2, Zenon
      <4> QED BY <1>0, <3>1, <4>1
    <3> QED BY <3>1, <3>2, Zenon
  <2> QED BY <1>0, <2>1, SilentStep
<1>2. ASSUME NEW k \in KeyIDs, NEW v \in Versions, SoftDelete(n, k, v) PROVE CachesStep
  <2>1. /\ Excuse(Nodes, {<<k, v>>}) /\ UNCHANGED <<cache, pending, listener, inbox>>
        /\ \A l \in KeyIDs, u \in Versions : <<l, u>> # <<k, v>> => rows'[l][u] = rows[l][u]
    BY <1>0, <1>2 DEF SoftDelete, SoftDeleteKey
  <2> QED BY <2>1, SilentStep
<1>3. ASSUME NEW k \in KeyIDs, Rotate(n, k) \/ \E v \in Versions : Shred(n, k, v)
      PROVE  CachesStep
  <2>1. /\ pending[n] = Done /\ pending' = [pending EXCEPT ![n] = [op |-> "invalidate", key |-> k]]
        /\ NotifyInvalidationInTx(n, k, TRUE) /\ UNCHANGED <<cache, listener>>
    BY <1>3, Zenon DEF Rotate, Shred, Free
  <2>2. \A l \in KeyIDs : l # k => rows'[l] = rows[l]
    BY <1>0, <1>3, Zenon DEF Rotate, RotateKey, Shred, ShredKey
  <2>3. /\ pending'[n].op = "invalidate" /\ pending'[n].key = k
        /\ \A m \in Nodes : pending[m].op = "invalidate" => pending'[m] = pending[m]
    BY <1>0, <2>1 DEF PendingOK
  <2> QED BY <2>1, <2>2, <2>3, NotifyingStep, Zenon
<1>4. CASE RestoreCommit(n)
  <2> DEFINE k == pending[n].key
             v == pending[n].v
  <2>1. /\ pending[n].op = "restore" /\ pending' = [pending EXCEPT ![n] = Done]
        /\ NotifyInvalidationInTx(n, k, FALSE) /\ UNCHANGED <<cache, listener>>
    BY <1>4, Zenon DEF RestoreCommit
  <2>2. k \in KeyIDs /\ v \in Versions
    BY <1>0, <2>1
  <2>3. RestoreKey(k, v)
    BY <1>4 DEF RestoreCommit
  <2>4. \A m \in Nodes : pending[m].op = "invalidate" => pending'[m] = pending[m]
    BY <2>1 DEF PendingOK
  <2> HIDE DEF k, v
  <2>5. \A l \in KeyIDs : l # k => rows'[l] = rows[l]
    BY <1>0, <2>2, <2>3 DEF RestoreKey
  <2> QED BY <2>1, <2>2, <2>4, <2>5, NotifyingStep, Zenon
<1>5. CASE InvalidateLocal(n)
  <2>1. /\ pending[n].op = "invalidate" /\ Invalidate(n, pending[n].key)
        /\ pending' = [pending EXCEPT ![n] = Done] /\ UNCHANGED <<storeVars, listener, inbox>>
    BY <1>5 DEF InvalidateLocal
  <2>2. \A m \in Nodes : m # n => pending'[m] = pending[m]
    BY <2>1 DEF PendingOK
  <2>3. inbox' \in [Nodes -> Seq(KeyIDs)] /\ \A m \in Nodes : Len(inbox'[m]) <= MaxInbox
    BY <2>1 DEF NodeTypes
  <2>4. CausesStay(n, pending[n].key)
    BY <2>1, <2>2 DEF CausesStay
  <2>5. pending[n].key \in KeyIDs
    BY <1>0, <2>1
  <2>6. UNCHANGED <<storeVars, listener>>
    BY <2>1
  <2> QED BY <2>1, <2>3, <2>4, <2>5, <2>6, InvalidatingStep, Zenon
<1>6. ASSUME NEW k \in KeyIDs, NEW v \in Versions, RestoreBegin(n, k, v) PROVE CachesStep
  <2>1. /\ pending[n] = Done /\ Invalidate(n, k)
        /\ pending' = [pending EXCEPT ![n] = [op |-> "restore", key |-> k, v |-> v]]
        /\ UNCHANGED <<storeVars, listener, inbox>>
    BY <1>6 DEF RestoreBegin, Free
  <2>2. \A m \in Nodes : pending[m].op = "invalidate" => pending'[m] = pending[m]
    BY <1>0, <2>1 DEF PendingOK
  <2>3. inbox' \in [Nodes -> Seq(KeyIDs)] /\ \A m \in Nodes : Len(inbox'[m]) <= MaxInbox
    BY <2>1 DEF NodeTypes
  <2>4. CausesStay(n, k)
    BY <2>1, <2>2 DEF CausesStay
  <2>5. UNCHANGED <<storeVars, listener>>
    BY <2>1
  <2> QED BY <2>1, <2>3, <2>4, <2>5, InvalidatingStep, Zenon
<1>7. CASE CommitAnswerLost(n)
  <2> DEFINE k == pending[n].key
  <2>1. /\ pending[n].op = "invalidate" /\ Excuse({n}, All(k))
        /\ pending' = [pending EXCEPT ![n] = Done]
        /\ UNCHANGED <<storeVars, cache, listener, inbox>>
    BY <1>7 DEF CommitAnswerLost
  <2>2. k \in KeyIDs /\ {n} \in SUBSET Nodes /\ All(k) \in SUBSET (KeyIDs \X Versions)
    BY <1>0, <2>1 DEF All
  <2>3. \A m \in Nodes : m # n => pending'[m] = pending[m]
    BY <2>1 DEF PendingOK
  <2>4. pending[n].op = "invalidate" /\ pending[n].key = k
    BY <2>1
  <2> HIDE DEF k
  <2>5. /\ excused' \in [Nodes -> SUBSET (KeyIDs \X Versions)]
        /\ \A m \in Nodes, l \in KeyIDs, u \in Versions :
             \/ <<l, u>> \in excused[m]
             \/ m \in {n} /\ <<l, u>> \in All(k) /\ cache[m][l][u] # Empty
             => <<l, u>> \in excused'[m]
    BY <2>1, <2>2, ExcuseDoes, ZenonT(30)
  <2>6. NodeTypes'
    BY <2>1, <2>5 DEF NodeTypes
  <2>7. ASSUME NEW m \in Nodes, NEW l \in KeyIDs, NEW u \in Versions,
               Stale(m, l, u), Cause(m, l, u)
        PROVE  Cause(m, l, u)'
    <3>1. CASE m = n /\ l = k
      BY <2>5, <2>7, <3>1 DEF Stale, Cause, All
    <3>2. CASE ~(m = n /\ l = k)
      BY <2>1, <2>3, <2>4, <2>5, <2>7, <3>2 DEF Cause
    <3> QED BY <3>1, <3>2
  <2> QED BY <2>1, <2>6, <2>7, QuietStep
<1>8. CASE FinishCreate(n)
  <2>1. UNCHANGED nodeVars /\ rows' = rows
    BY <1>8 DEF FinishCreate, CreateIndex, CreateIndexLost
  <2>2. NodeTypes'
    BY <2>1 DEF NodeTypes, nodeVars
  <2>3. ASSUME NEW m \in Nodes, NEW l \in KeyIDs, NEW u \in Versions
        PROVE  /\ cache'[m][l][u] = cache[m][l][u]
               /\ Stale(m, l, u)' => Cause(m, l, u)'
    BY <2>1 DEF nodeVars, Stale, Meta, Cause, StaleHasCause
  <2> QED BY <2>2, <2>3 DEF CachesStep
<1>9. CASE RestoreAbort(n)
  <2>1. /\ pending[n].op = "restore" /\ pending' = [pending EXCEPT ![n] = Done]
        /\ UNCHANGED <<storeVars, cache, listener, inbox, excused>>
    BY <1>9 DEF RestoreAbort
  <2>2. \A m \in Nodes : pending[m].op = "invalidate" => pending'[m] = pending[m]
    BY <2>1 DEF PendingOK
  <2>3. NodeTypes'
    BY <2>1 DEF NodeTypes
  <2> QED BY <2>1, <2>2, <2>3, QuietStep DEF Cause
<1> QED BY <1>1, <1>2, <1>3, <1>4, <1>5, <1>6, <1>7, <1>8, <1>9 DEF Administer

(* The LISTEN session of a node, its emergency seal and its crash. *)
LEMMA ListenerCaches ==
  ASSUME NodeTypes, StaleHasCause, PendingOK, NEW n \in Nodes,
         \/ Listen(n) \/ Deliver(n) \/ Disconnect(n) \/ Reconnect(n) \/ ClearCache(n) \/ Crash(n)
  PROVE  CachesStep
<1>1. CASE Listen(n)
  <2>1. /\ listener[n] = "starting"
        /\ \E st \in {"up", "lost"} : listener' = [listener EXCEPT ![n] = st]
        /\ UNCHANGED <<storeVars, cache, pending, inbox, excused>>
    BY <1>1, ZenonT(30) DEF Listen
  <2>2. NodeTypes' /\ \A m \in Nodes : listener[m] = "lost" => listener'[m] = "lost"
    BY <2>1 DEF NodeTypes
  <2> QED BY <2>1, <2>2, QuietStep DEF Cause
<1>2. CASE Deliver(n)
  <2> DEFINE k == Head(inbox[n])
  <2>1. /\ inbox[n] # <<>> /\ Invalidate(n, k) /\ inbox' = [inbox EXCEPT ![n] = Tail(inbox[n])]
        /\ UNCHANGED <<storeVars, pending, listener>>
    BY <1>2 DEF Deliver, NodeTypes
  <2>2. inbox[n] \in Seq(KeyIDs) /\ Len(inbox[n]) <= MaxInbox /\ MaxInbox \in Nat
    BY ClusterAssumption DEF NodeTypes
  <2>3. /\ k \in KeyIDs /\ k = inbox[n][1] /\ Tail(inbox[n]) \in Seq(KeyIDs)
        /\ Len(Tail(inbox[n])) = Len(inbox[n]) - 1 /\ Len(inbox[n]) \in Nat
        /\ \A i \in 1..(Len(inbox[n]) - 1) : Tail(inbox[n])[i] = inbox[n][i + 1]
    BY <2>1, <2>2
  <2>4. inbox' \in [Nodes -> Seq(KeyIDs)] /\ \A m \in Nodes : Len(inbox'[m]) <= MaxInbox
    BY <2>1, <2>2, <2>3 DEF NodeTypes
  <2>5. ASSUME NEW m \in Nodes, NEW l \in KeyIDs, ~(m = n /\ l = k),
               NEW i \in DOMAIN inbox[m], inbox[m][i] = l
        PROVE  \E j \in DOMAIN inbox'[m] : inbox'[m][j] = l
    <3>1. CASE m # n
      <4>1. inbox'[m] = inbox[m]
        BY <2>1, <3>1 DEF NodeTypes
      <4> QED BY <2>5, <4>1
    <3>2. CASE m = n
      <4>1. inbox'[m] = Tail(inbox[n])
        BY <2>1, <3>2 DEF NodeTypes
      <4>2. i \in 1..Len(inbox[n]) /\ i # 1
        BY <2>2, <2>3, <2>5, <3>2
      <4>3. i - 1 \in 1..(Len(inbox[n]) - 1) /\ (i - 1) + 1 = i
        BY <2>3, <4>2
      <4>4. i - 1 \in DOMAIN Tail(inbox[n])
        BY <2>3, <4>3
      <4>5. Tail(inbox[n])[i - 1] = l
        BY <2>3, <2>5, <3>2, <4>3
      <4> QED BY <4>1, <4>4, <4>5
    <3> QED BY <3>1, <3>2
  <2> HIDE DEF k
  <2>6. CausesStay(n, k)
    <3>1. pending' = pending
      BY <2>1
    <3> QED BY <2>5, <3>1, Zenon DEF CausesStay
  <2>7. UNCHANGED <<storeVars, listener>>
    BY <2>1
  <2> QED BY <2>1, <2>3, <2>4, <2>6, <2>7, InvalidatingStep, Zenon
<1>3. CASE Disconnect(n)
  <2>1. /\ listener' = [listener EXCEPT ![n] = "lost"] /\ inbox' = [inbox EXCEPT ![n] = <<>>]
        /\ UNCHANGED <<storeVars, cache, pending, excused>>
    BY <1>3 DEF Disconnect
  <2>2. <<>> \in Seq(KeyIDs) /\ Len(<<>>) = 0 /\ MaxInbox \in Nat
    BY ClusterAssumption
  <2>3. /\ NodeTypes' /\ listener'[n] = "lost"
        /\ \A m \in Nodes : m # n => inbox'[m] = inbox[m] /\ listener'[m] = listener[m]
    BY <2>1, <2>2 DEF NodeTypes
  <2>4. ASSUME NEW m \in Nodes, NEW l \in KeyIDs, NEW u \in Versions, Cause(m, l, u)
        PROVE  Cause(m, l, u)'
    <3>1. CASE m = n
      BY <2>3, <3>1 DEF Cause
    <3>2. CASE m # n
      BY <2>1, <2>3, <2>4, <3>2 DEF Cause
    <3> QED BY <3>1, <3>2
  <2> QED BY <2>1, <2>3, <2>4, QuietStep
<1>4. CASE Reconnect(n)
  <2>1. /\ Clear(n) /\ listener' = [listener EXCEPT ![n] = "starting"]
        /\ rows' = rows /\ UNCHANGED <<pending, inbox>>
    BY <1>4 DEF Reconnect, storeVars
  <2>2. /\ listener' \in [Nodes -> {"off", "starting", "up", "lost"}]
        /\ inbox' \in [Nodes -> Seq(KeyIDs)] /\ \A m \in Nodes : Len(inbox'[m]) <= MaxInbox
        /\ \A m \in Nodes : m # n => listener'[m] = listener[m]
    BY <2>1 DEF NodeTypes
  <2> QED BY <2>1, <2>2, ClearingStep
<1>5. CASE ClearCache(n)
  <2>1. Clear(n) /\ rows' = rows /\ UNCHANGED <<pending, inbox, listener>>
    BY <1>5 DEF ClearCache, storeVars
  <2> QED BY <2>1, ClearingStep, Zenon DEF NodeTypes
<1>6. CASE Crash(n)
  <2>1. /\ Clear(n) /\ rows' = rows
        /\ pending' = [pending EXCEPT ![n] = Done]
        /\ listener' = [listener EXCEPT ![n] = IF n \in Listeners THEN "starting" ELSE "off"]
        /\ inbox' = [inbox EXCEPT ![n] = <<>>]
    BY <1>6 DEF Crash, storeVars, CreateIndexLost
  <2>2. <<>> \in Seq(KeyIDs) /\ Len(<<>>) = 0 /\ MaxInbox \in Nat
    BY ClusterAssumption
  <2>3. listener' \in [Nodes -> {"off", "starting", "up", "lost"}]
    BY <2>1 DEF NodeTypes
  <2>4. inbox' \in [Nodes -> Seq(KeyIDs)]
    BY <2>1, <2>2 DEF NodeTypes
  <2>5. \A m \in Nodes : Len(inbox'[m]) <= MaxInbox
    BY <2>1, <2>2 DEF NodeTypes
  <2>6. \A m \in Nodes : m # n => listener'[m] = listener[m] /\ inbox'[m] = inbox[m]
    BY <2>1 DEF NodeTypes
  <2>7. \A m \in Nodes : m # n => pending'[m] = pending[m]
    BY <2>1 DEF NodeTypes, PendingOK
  <2> QED BY <2>1, <2>3, <2>4, <2>5, <2>6, <2>7, ClearingStep
<1> QED BY <1>1, <1>2, <1>3, <1>4, <1>5, <1>6

(* Every step does to the caches what CachesStep says. *)
LEMMA NextCaches ==
  ASSUME CacheInv, NodeTypes, StaleHasCause, PendingOK, [Next]_vars
  PROVE  CachesStep
<1>1. CASE UNCHANGED vars
  <2>1. UNCHANGED <<storeVars, cache, pending, listener, inbox, excused>>
    BY <1>1 DEF vars, nodeVars
  <2> QED BY <2>1, QuietStep DEF NodeTypes, Cause
<1> QED BY <1>1, ServeCaches, AdministerCaches, ListenerCaches, ClusterAssumption DEF Next

(* Requests of the other nodes wait, and a crash drops the node's own. *)
LEMMA NextRequests ==
  ASSUME CacheInv, [Next]_vars
  PROVE  /\ request' \in [Nodes -> Requests \cup {Idle}]
         /\ \A m \in Nodes : RequestOK(request'[m])
<1>1. request \in [Nodes -> Requests \cup {Idle}] /\ \A m \in Nodes : RequestOK(request[m])
  BY DEF CacheInv, TypeOK
<1>2. RequestOK(Idle)
  BY DEF RequestOK
<1>3. ASSUME NEW n \in Nodes, Serve(n)
      PROVE  /\ request' \in [Nodes -> Requests \cup {Idle}]
             /\ \A m \in Nodes : RequestOK(request'[m])
  BY <1>1, <1>3, ServeRequest
<1>4. ASSUME NEW n \in Nodes, request' = request \/ request' = [request EXCEPT ![n] = Idle]
      PROVE  /\ request' \in [Nodes -> Requests \cup {Idle}]
             /\ \A m \in Nodes : RequestOK(request'[m])
  BY <1>1, <1>2, <1>4
<1>5. CASE UNCHANGED vars
  BY <1>1, <1>5 DEF vars, nodeVars
<1>6. ASSUME NEW n \in Nodes,
             \/ Administer(n) \/ Listen(n) \/ Deliver(n) \/ Disconnect(n) \/ Reconnect(n)
             \/ ClearCache(n) \/ Crash(n)
      PROVE  request' = request \/ request' = [request EXCEPT ![n] = Idle]
  BY <1>6, Zenon DEF Administer, Create, Rotate, Shred, SoftDelete, RestoreBegin, FinishCreate,
              InvalidateLocal, CommitAnswerLost, RestoreCommit, RestoreAbort, Listen, Deliver,
              Disconnect, Reconnect, ClearCache, Crash, nodeVars
<1> QED BY <1>3, <1>4, <1>5, <1>6, ClusterAssumption DEF Next

(* Every step keeps the invariant. *)
LEMMA CacheNextInv ==
  ASSUME Disciplined, CacheInv, StaleHasCause, [Next]_vars
  PROVE  CacheInv' /\ StaleHasCause'
<1>1. PendingOK /\ NodeTypes
  BY DEF CacheInv, TypeOK, PendingOK, NodeTypes, Entries
<1>2. [StoreNext]_storeVars
  BY <1>1, StepIsStoreStep
<1>3. StoreInv'
  BY <1>2, StoreNextInv DEF CacheInv
<1>4. CachesStep /\ PendingOK'
  BY <1>1, NextCaches, PendingStep
<1>5. /\ request' \in [Nodes -> Requests \cup {Idle}]
      /\ \A m \in Nodes : RequestOK(request'[m])
  BY NextRequests
<1>6. TypeOK'
  BY <1>4, <1>5, ZenonT(30) DEF CachesStep, NodeTypes, PendingOK, TypeOK, Entries
<1>7. ASSUME NEW n \in Nodes PROVE RequestOK(request[n])'
  <2>1. PICK q : q = request'[n]
    OBVIOUS
  <2>2. RequestOK(q)'
    BY <1>2, <1>5, <2>1, RequestStays DEF CacheInv
  <2> QED BY <2>1, <2>2 DEF RequestOK, EntryOK, Issued, Exists
<1>8. ASSUME NEW n \in Nodes, NEW k \in KeyIDs, NEW v \in Versions
      PROVE  EntryOK(k, v, cache[n][k][v])'
  <2>1. PICK e : e = cache'[n][k][v]
    OBVIOUS
  <2>2. EntryOK(k, v, e)
    <3>1. EntryOK(k, v, Empty) /\ EntryOK(k, v, cache[n][k][v])
      BY ClusterAssumption DEF CacheInv, EntryOK, Cached
    <3> QED BY <1>4, <2>1, <3>1 DEF CachesStep
  <2>3. EntryOK(k, v, e)'
    BY <1>2, <2>2, EntryStays DEF CacheInv
  <2> QED BY <2>1, <2>3 DEF EntryOK, Issued, Exists
<1>9. StaleHasCause'
  BY <1>4, Zenon DEF CachesStep, StaleHasCause, Cause
<1> QED BY <1>3, <1>6, <1>7, <1>8, <1>9, ZenonT(30) DEF CacheInv

(* The invariant holds in every reachable state. *)
THEOREM CacheInvariant ==
  ASSUME Disciplined
  PROVE  Spec => [](CacheInv /\ StaleHasCause)
<1>1. Init => CacheInv /\ StaleHasCause
  <2> SUFFICES ASSUME Init PROVE CacheInv /\ StaleHasCause
    OBVIOUS
  <2>1. StoreInv
    BY StoreInitInv DEF Init
  <2>2. /\ cache \in [Nodes -> [KeyIDs -> [Versions -> Cached \cup {Empty, Negative}]]]
        /\ \A n \in Nodes, k \in KeyIDs, v \in Versions : cache[n][k][v] = Empty
    BY DEF Init, NoEntries
  <2>3. TypeOK
    <3>1. <<>> \in Seq(KeyIDs) /\ Len(<<>>) = 0 /\ MaxInbox \in Nat
      BY ClusterAssumption
    <3> QED BY <2>2, <3>1 DEF Init, TypeOK
  <2>4. \A n \in Nodes, k \in KeyIDs, v \in Versions : EntryOK(k, v, cache[n][k][v])
    BY <2>2, ClusterAssumption, SMTT(60) DEF EntryOK, Cached
  <2>5. \A n \in Nodes : RequestOK(request[n])
    BY DEF Init, RequestOK
  <2>6. StaleHasCause
    BY <2>2 DEF StaleHasCause, Stale
  <2> QED BY <2>1, <2>3, <2>4, <2>5, <2>6 DEF CacheInv
<1>2. CacheInv /\ StaleHasCause /\ [Next]_vars => (CacheInv /\ StaleHasCause)'
  BY CacheNextInv
<1> QED BY <1>1, <1>2, PTL DEF Spec

(* Type correctness of the nodes' caches, requests and LISTEN sessions. *)
THEOREM ClusterTypeOK ==
  ASSUME Disciplined
  PROVE  Spec => []TypeOK
<1>1. CacheInv => TypeOK
  BY DEF CacheInv
<1>2. Spec => [](CacheInv /\ StaleHasCause)
  BY CacheInvariant
<1> QED BY <1>1, <1>2, PTL

(* A cached or loaded DEK is the one of its version (manager.go:342-373),  *)
(* on any number of nodes and however stale the caches are.                *)
THEOREM ClusterCachedDek ==
  ASSUME Disciplined
  PROVE  Spec => []CachedDekIsTheVersions
<1>1. CacheInv => CachedDekIsTheVersions
  <2> SUFFICES ASSUME CacheInv, NEW n \in Nodes
               PROVE  /\ \A k \in KeyIDs, v \in Versions :
                           cache[n][k][v] \in Cached /\ Exists(k, v) =>
                             cache[n][k][v].dek = rows[k][v].dek
                      /\ request[n].pc = "done" /\ Exists(request[n].key, request[n].v)
                           => request[n].meta.dek = rows[request[n].key][request[n].v].dek
    BY DEF CachedDekIsTheVersions
  <2>1. \A k \in KeyIDs, v \in Versions :
          cache[n][k][v] \in Cached /\ Exists(k, v) => cache[n][k][v].dek = rows[k][v].dek
    BY DEF CacheInv, EntryOK
  <2>2. ASSUME request[n].pc = "done", Exists(request[n].key, request[n].v)
        PROVE  request[n].meta.dek = rows[request[n].key][request[n].v].dek
    <3>1. RequestOK(request[n]) /\ request[n] # Idle
      BY <2>2 DEF CacheInv, Idle
    <3>2. request[n].meta \in Cached
      BY <2>2, <3>1 DEF RequestOK, Requests
    <3> QED BY <2>2, <3>1, <3>2 DEF RequestOK, EntryOK
  <2> QED BY <2>1, <2>2
<1>2. Spec => [](CacheInv /\ StaleHasCause)
  BY CacheInvariant
<1> QED BY <1>1, <1>2, PTL

(* A committed rotation is what later Encrypts use (manager.go:384-424,    *)
(* 693-719), unless the scan met a shredded version.                       *)
THEOREM ClusterRotationSticks ==
  ASSUME Disciplined
  PROVE  Spec => []RotationSticks
<1>1. CacheInv => RotationSticks
  <2> SUFFICES ASSUME CacheInv, NEW n \in Nodes,
                      request[n].pc = "done", request[n].op = "encrypt"
               PROVE  \/ request[n].v >= request[n].floor
                      \/ \E u \in (request[n].v + 1)..request[n].floor : ~Exists(request[n].key, u)
    BY DEF RotationSticks
  <2>1. RequestOK(request[n]) /\ request[n] # Idle
    BY DEF CacheInv, Idle
  <2> QED BY <2>1 DEF RequestOK
<1>2. Spec => [](CacheInv /\ StaleHasCause)
  BY CacheInvariant
<1> QED BY <1>1, <1>2, PTL

(* A cache entry differs from the store for one of the reasons that        *)
(* StaleHasCause names (cache.go, pg_listener.go), and for no other.       *)
THEOREM ClusterStaleHasCause ==
  ASSUME Disciplined
  PROVE  Spec => []StaleHasCause
<1>1. Spec => [](CacheInv /\ StaleHasCause)
  BY CacheInvariant
<1> QED BY <1>1, PTL
=============================================================================
