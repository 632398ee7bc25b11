----------------------------- MODULE KeyCluster -----------------------------
(***************************************************************************)
(* Several nodes over one PostgreSQL key store: each has a DEK metadata    *)
(* cache (lifecycle/cache.go) that loadMetadata fills without any lock     *)
(* against the database, and may have a LISTEN session                     *)
(* (storage/pg_listener.go) that hears the NOTIFY of other nodes' rotate,  *)
(* shred and restore transactions.                                         *)
(***************************************************************************)
EXTENDS KeyStore, Sequences

CONSTANTS Serving,    \* nodes that serve Encrypt and Decrypt requests
          Listeners,  \* nodes that run a CacheInvalidationListener
          MaxInbox,   \* bound: notifications queued for one node
          Empty,      \* no cache entry
          Negative    \* a negative cache entry

Nodes == Clients

ASSUME ClusterAssumption ==
  /\ Serving \in SUBSET Nodes /\ Listeners \in SUBSET Nodes
  /\ MaxInbox \in Nat \ {0}
  /\ Empty # Negative
  /\ {Empty, Negative} \cap [state : States, dek : Nat] = {}

VARIABLES cache,     \* cache[n][k][v]: dekCache.data and .negative
          request,   \* request[n]: the Encrypt or Decrypt request in progress
          pending,   \* pending[n]: what is left of a lifecycle operation
          listener,  \* listener[n]: the LISTEN session
          inbox,     \* inbox[n]: notifications sent to n and not yet handled
          excused    \* history: entries of n that may be stale, see StaleHasCause

nodeVars == <<cache, request, pending, listener, inbox, excused>>
vars == <<storeVars, nodeVars>>

Cached == [state : States, dek : Nat]
Idle == [pc |-> "idle"]
Done == [op |-> "none"]
All(k) == {k} \X Versions
NoEntries == [k \in KeyIDs |-> [v \in Versions |-> Empty]]

Init == /\ StoreInit
        /\ cache = [n \in Nodes |-> NoEntries]
        /\ request = [n \in Nodes |-> Idle]
        /\ pending = [n \in Nodes |-> Done]
        /\ listener = [n \in Nodes |-> IF n \in Listeners THEN "starting" ELSE "off"]
        /\ inbox = [n \in Nodes |-> <<>>]
        /\ excused = [n \in Nodes |-> {}]
-----------------------------------------------------------------------------
(* A request: GetActiveKey then encrypt, or GetKeyForDecrypt then decrypt. *)

(* A loadMetadata that caches the stored row itself, dates included. *)
MetaWholeRow(row) == IF row = NoRow THEN Negative ELSE row

(* The part of a row that loadMetadata keeps. *)
Meta(row) == IF row = NoRow THEN Negative ELSE [state |-> row.state, dek |-> row.dek]

(* floor and deleted record what the store held when the request arrived.  *)
Encrypt(n, k) ==
  /\ request[n] = Idle
  /\ request' = [request EXCEPT ![n] =
       [pc |-> "index", op |-> "encrypt", key |-> k, v |-> 0, meta |-> Empty,
        floor |-> latest[k],
        deleted |-> latest[k] # 0 /\ InState(k, latest[k], "SoftDeleted")]]
  /\ UNCHANGED <<storeVars, cache, pending, listener, inbox, excused>>

Decrypt(n, k, v) ==
  /\ request[n] = Idle
  /\ request' = [request EXCEPT ![n] =
       [pc |-> "lookup", op |-> "decrypt", key |-> k, v |-> v, meta |-> Empty,
        floor |-> 0, deleted |-> FALSE]]
  /\ UNCHANGED <<storeVars, cache, pending, listener, inbox, excused>>

(* A getLatestVersion that trusts an Active version it has cached. *)
ReadIndexFromCache(n) ==
  LET r == request[n]
      known == {v \in Versions : cache[n][r.key][v] \in [state : {"Active"}, dek : Nat]}
  IN /\ r.pc = "index"
     /\ \E v \in IF known # {} THEN known ELSE {LatestVersion(r.key)} :
          request' = [request EXCEPT ![n] =
            IF v = 0 THEN Idle ELSE [r EXCEPT !.pc = "lookup", !.v = v]]
     /\ UNCHANGED <<storeVars, cache, pending, listener, inbox, excused>>

(* getLatestVersion: the index row, or the scan when there is none or when *)
(* reading it fails.                                                       *)
ReadIndex(n) ==
  /\ request[n].pc = "index"
  /\ \E v \in {LatestVersion(request[n].key), ScanLatest(request[n].key)} :
       request' = [request EXCEPT ![n] =
         IF v = 0 THEN Idle ELSE [@ EXCEPT !.pc = "lookup", !.v = v]]
  /\ UNCHANGED <<storeVars, cache, pending, listener, inbox, excused>>

(* The answer: a key that is not Active is refused for encryption.         *)
Respond(r, meta) ==
  IF meta = Negative \/ (r.op = "encrypt" /\ meta.state # "Active") THEN Idle
  ELSE [r EXCEPT !.pc = "done", !.meta = meta]

(* loadMetadata: the cache lookups, *)
Lookup(n) ==
  LET r == request[n]
      e == cache[n][r.key][r.v]
  IN /\ r.pc = "lookup"
     /\ request' = [request EXCEPT ![n] =
          IF e = Empty THEN [r EXCEPT !.pc = "load"] ELSE Respond(r, e)]
     /\ UNCHANGED <<storeVars, cache, pending, listener, inbox, excused>>

(* ... store.Get, which may fail, *)
Load(n) ==
  LET r == request[n]
  IN /\ r.pc = "load"
     /\ \/ request' = [request EXCEPT ![n] =
                        [r EXCEPT !.pc = "fill", !.meta = Meta(rows[r.key][r.v])]]
        \/ request' = [request EXCEPT ![n] = Idle]
     /\ UNCHANGED <<storeVars, cache, pending, listener, inbox, excused>>

(* A cache.put filed under the version that is the latest by then. *)
FillAtLatest(n) ==
  LET r == request[n]
  IN /\ r.pc = "fill"
     /\ cache' = [cache EXCEPT ![n][r.key][LatestVersion(r.key)] = r.meta]
     /\ request' = [request EXCEPT ![n] = Respond(r, r.meta)]
     /\ UNCHANGED <<storeVars, pending, listener, inbox, excused>>

(* ... and cache.put or putNegative; nothing ties it to the row read.      *)
Fill(n) ==
  LET r == request[n]
  IN /\ r.pc = "fill"
     /\ cache' = [cache EXCEPT ![n][r.key][r.v] = r.meta]
     /\ request' = [request EXCEPT ![n] = Respond(r, r.meta)]
     /\ excused' = [excused EXCEPT ![n] =
          IF r.meta = Meta(rows[r.key][r.v]) THEN @ ELSE @ \cup {<<r.key, r.v>>}]
     /\ UNCHANGED <<storeVars, pending, listener, inbox>>

Reply(n) ==
  /\ request[n].pc = "done"
  /\ request' = [request EXCEPT ![n] = Idle]
  /\ UNCHANGED <<storeVars, cache, pending, listener, inbox, excused>>

(* A negative entry lasts 5 seconds. *)
NegativeExpires(n, k, v) ==
  /\ cache[n][k][v] = Negative
  /\ cache' = [cache EXCEPT ![n][k][v] = Empty]
  /\ excused' = [excused EXCEPT ![n] = @ \ {<<k, v>>}]
  /\ UNCHANGED <<storeVars, request, pending, listener, inbox>>
-----------------------------------------------------------------------------
(* The lifecycle operations of a node. *)

(* dekCache.invalidate: every entry of the key, positive or negative.      *)
Invalidate(n, k) ==
  /\ cache' = [cache EXCEPT ![n][k] = NoEntries[k]]
  /\ excused' = [excused EXCEPT ![n] = @ \ All(k)]

Clear(n) ==
  /\ cache' = [cache EXCEPT ![n] = NoEntries]
  /\ excused' = [excused EXCEPT ![n] = {}]

(* History: the change excuses what these nodes have cached of S. *)
Excuse(nodes, S) ==
  excused' = [m \in Nodes |->
    IF m \in nodes THEN excused[m] \cup {e \in S : cache[m][e[1]][e[2]] # Empty}
    ELSE excused[m]]

(* NOTIFY of a committed transaction; a node that is not listening misses  *)
(* it, which the committing node makes up for if repairs holds.            *)
NotifyInvalidationInTx(n, k, repairs) ==
  LET hears == {m \in Nodes : listener[m] = "up"}
      missed == Nodes \ (hears \cup (IF repairs THEN {n} ELSE {}))
  IN /\ \A m \in hears : Len(inbox[m]) < MaxInbox
     /\ inbox' = [m \in Nodes |-> IF m \in hears THEN Append(inbox[m], k) ELSE inbox[m]]
     /\ Excuse(missed, All(k))

Free(n) == pending[n] = Done /\ creating[n] = None

(* RestoreKey holds its row lock while it invalidates the cache.           *)
Locked(k, v) ==
  \E n \in Nodes : pending[n].op = "restore" /\ pending[n].key = k /\ pending[n].v = v

(* A RotateKey that relies on its own NOTIFY to invalidate the local cache. *)
RotateSkipsLocal(n, k) ==
  /\ Free(n) /\ ~Locked(k, LatestVersion(k))
  /\ RotateKey(k)
  /\ NotifyInvalidationInTx(n, k, TRUE)
  /\ UNCHANGED <<cache, request, pending, listener>>

Rotate(n, k) ==
  /\ Free(n) /\ ~Locked(k, LatestVersion(k))
  /\ RotateKey(k)
  /\ NotifyInvalidationInTx(n, k, TRUE)
  /\ pending' = [pending EXCEPT ![n] = [op |-> "invalidate", key |-> k]]
  /\ UNCHANGED <<cache, request, listener>>

Shred(n, k, v) ==
  /\ Free(n) /\ ~Locked(k, v)
  /\ ShredKey(k, v)
  /\ NotifyInvalidationInTx(n, k, TRUE)
  /\ pending' = [pending EXCEPT ![n] = [op |-> "invalidate", key |-> k]]
  /\ UNCHANGED <<cache, request, listener>>

(* cache.invalidate after the commit of a rotation or a shred. *)
InvalidateLocal(n) ==
  /\ pending[n].op = "invalidate"
  /\ Invalidate(n, pending[n].key)
  /\ pending' = [pending EXCEPT ![n] = Done]
  /\ UNCHANGED <<storeVars, request, listener, inbox>>

(* The commit took effect but its answer was lost: WithTx returns an error *)
(* and the operation returns before cache.invalidate.                      *)
CommitAnswerLost(n) ==
  /\ pending[n].op = "invalidate"
  /\ Excuse({n}, All(pending[n].key))
  /\ pending' = [pending EXCEPT ![n] = Done]
  /\ UNCHANGED <<storeVars, cache, request, listener, inbox>>

(* SoftDeleteKey neither invalidates nor notifies. *)
SoftDelete(n, k, v) ==
  /\ Free(n) /\ ~Locked(k, v)
  /\ SoftDeleteKey(k, v)
  /\ Excuse(Nodes, {<<k, v>>})
  /\ UNCHANGED <<cache, request, pending, listener, inbox>>

(* RestoreKey invalidates inside the transaction, *)
RestoreBegin(n, k, v) ==
  /\ Free(n) /\ ~Locked(k, v)
  /\ MayUse(k) /\ InState(k, v, "SoftDeleted")
  /\ Invalidate(n, k)
  /\ pending' = [pending EXCEPT ![n] = [op |-> "restore", key |-> k, v |-> v]]
  /\ UNCHANGED <<storeVars, request, listener, inbox>>

(* ... then commits, *)
RestoreCommit(n) ==
  /\ pending[n].op = "restore"
  /\ RestoreKey(pending[n].key, pending[n].v)
  /\ NotifyInvalidationInTx(n, pending[n].key, FALSE)
  /\ pending' = [pending EXCEPT ![n] = Done]
  /\ UNCHANGED <<cache, request, listener>>

(* ... or is rolled back. *)
RestoreAbort(n) ==
  /\ pending[n].op = "restore"
  /\ pending' = [pending EXCEPT ![n] = Done]
  /\ UNCHANGED <<storeVars, cache, request, listener, inbox, excused>>

(* Create and import touch no cache, not even a negative entry for v1.     *)
Create(n, k) ==
  /\ Free(n)
  /\ CreateKey(n, k) \/ ImportKey(k)
  /\ Excuse(Nodes, {<<k, 1>>})
  /\ UNCHANGED <<cache, request, pending, listener, inbox>>

FinishCreate(n) ==
  /\ CreateIndex(n) \/ CreateIndexLost(n)
  /\ UNCHANGED nodeVars
-----------------------------------------------------------------------------
(* The LISTEN session of a node, and the node itself. *)

(* listenOnce: Acquire and LISTEN, which may fail. *)
Listen(n) ==
  /\ listener[n] = "starting"
  /\ \E s \in {"up", "lost"} : listener' = [listener EXCEPT ![n] = s]
  /\ UNCHANGED <<storeVars, cache, request, pending, inbox, excused>>

(* WaitForNotification returns a key id and onNotify invalidates it. *)
Deliver(n) ==
  /\ inbox[n] # <<>>
  /\ Invalidate(n, Head(inbox[n]))
  /\ inbox' = [inbox EXCEPT ![n] = Tail(@)]
  /\ UNCHANGED <<storeVars, request, pending, listener>>

(* The connection breaks; what PostgreSQL had queued for it is gone. *)
Disconnect(n) ==
  /\ listener[n] = "up"
  /\ listener' = [listener EXCEPT ![n] = "lost"]
  /\ inbox' = [inbox EXCEPT ![n] = <<>>]
  /\ UNCHANGED <<storeVars, cache, request, pending, excused>>

(* A listenLoop that reconnects without calling onReconnect. *)
ReconnectKeepsCache(n) ==
  /\ listener[n] = "lost"
  /\ listener' = [listener EXCEPT ![n] = "starting"]
  /\ UNCHANGED <<storeVars, cache, request, pending, inbox, excused>>

(* Two seconds later onReconnect clears the cache; only then LISTEN again. *)
Reconnect(n) ==
  /\ listener[n] = "lost"
  /\ listener' = [listener EXCEPT ![n] = "starting"]
  /\ Clear(n)
  /\ UNCHANGED <<storeVars, request, pending, inbox>>

(* The emergency-seal callback clears the cache. *)
ClearCache(n) ==
  /\ Clear(n)
  /\ UNCHANGED <<storeVars, request, pending, listener, inbox>>

(* The process dies and starts again; its open transaction is rolled back. *)
Crash(n) ==
  /\ IF creating[n] = None THEN UNCHANGED storeVars ELSE CreateIndexLost(n)
  /\ Clear(n)
  /\ request' = [request EXCEPT ![n] = Idle]
  /\ pending' = [pending EXCEPT ![n] = Done]
  /\ listener' = [listener EXCEPT ![n] = IF n \in Listeners THEN "starting" ELSE "off"]
  /\ inbox' = [inbox EXCEPT ![n] = <<>>]
-----------------------------------------------------------------------------
Serve(n) ==
  \/ \E k \in KeyIDs : Encrypt(n, k) \/ \E v \in Versions : Decrypt(n, k, v)
  \/ ReadIndex(n) \/ Lookup(n) \/ Load(n) \/ Fill(n) \/ Reply(n)
  \/ \E k \in KeyIDs, v \in Versions : NegativeExpires(n, k, v)

Administer(n) ==
  \/ \E k \in KeyIDs : Create(n, k) \/ Rotate(n, k)
  \/ \E k \in KeyIDs, v \in Versions :
       Shred(n, k, v) \/ SoftDelete(n, k, v) \/ RestoreBegin(n, k, v)
  \/ FinishCreate(n) \/ InvalidateLocal(n) \/ CommitAnswerLost(n)
  \/ RestoreCommit(n) \/ RestoreAbort(n)

Next ==
  \/ \E n \in Serving : Serve(n)
  \/ \E n \in Nodes :
       \/ Administer(n)
       \/ Listen(n) \/ Deliver(n) \/ Disconnect(n) \/ Reconnect(n)
       \/ ClearCache(n) \/ Crash(n)

Spec == Init /\ [][Next]_vars

(* PostgreSQL delivers, the listener goroutine goes round its loop, and an *)
(* operation that has committed goes on to invalidate.                     *)
Fairness == \A n \in Nodes : /\ WF_vars(Deliver(n))
                             /\ WF_vars(Reconnect(n))
                             /\ WF_vars(InvalidateLocal(n))

FairSpec == Spec /\ Fairness
-----------------------------------------------------------------------------
Requests ==
  [pc : {"index", "lookup", "load", "fill", "done"}, op : {"encrypt", "decrypt"},
   key : KeyIDs, v : 0..MaxVersion, meta : Cached \cup {Empty, Negative},
   floor : 0..MaxVersion, deleted : BOOLEAN]

(* Types of the per-node state. *)
TypeOK ==
  /\ cache \in [Nodes -> [KeyIDs -> [Versions -> Cached \cup {Empty, Negative}]]]
  /\ request \in [Nodes -> Requests \cup {Idle}]
  /\ pending \in [Nodes -> {Done} \cup [op : {"invalidate"}, key : KeyIDs]
                                  \cup [op : {"restore"}, key : KeyIDs, v : Versions]]
  /\ listener \in [Nodes -> {"off", "starting", "up", "lost"}]
  /\ inbox \in [Nodes -> Seq(KeyIDs)] /\ \A n \in Nodes : Len(inbox[n]) <= MaxInbox
  /\ excused \in [Nodes -> SUBSET (KeyIDs \X Versions)]

(* Once a rotation is committed, no Encrypt that arrives later on any node *)
(* uses an older version, however stale the node's cache is, unless a      *)
(* version in between was shredded and reading the index failed            *)
(* (manager.go:384-424): GetActiveKey reads the index from the store.      *)
RotationSticks ==
  \A n \in Nodes :
    request[n].pc = "done" /\ request[n].op = "encrypt" =>
      \/ request[n].v >= request[n].floor
      \/ \E u \in (request[n].v + 1)..request[n].floor : ~Exists(request[n].key, u)

(* A cached or a loaded DEK is the DEK of the version it is filed under,   *)
(* as long as that version exists: a stale entry never decrypts with       *)
(* another version's DEK.                                                  *)
CachedDekIsTheVersions ==
  \A n \in Nodes :
    /\ \A k \in KeyIDs, v \in Versions :
         cache[n][k][v] \in Cached /\ Exists(k, v) => cache[n][k][v].dek = rows[k][v].dek
    /\ request[n].pc = "done" /\ Exists(request[n].key, request[n].v)
         => request[n].meta.dek = rows[request[n].key][request[n].v].dek

Stale(n, k, v) == cache[n][k][v] # Empty /\ cache[n][k][v] # Meta(rows[k][v])

(* A node's cache differs from the store only while a NOTIFY is on its way *)
(* to it, its own invalidation is due or its listener is about to clear    *)
(* it, or else for one of the reasons that nothing repairs: a load that    *)
(* crossed the change, a soft delete or a create (which do not notify), a  *)
(* commit whose answer was lost, a NOTIFY sent while the node was not      *)
(* listening.                                                              *)
StaleHasCause ==
  \A n \in Nodes, k \in KeyIDs, v \in Versions :
    Stale(n, k, v) =>
      \/ <<k, v>> \in excused[n]
      \/ \E i \in DOMAIN inbox[n] : inbox[n][i] = k
      \/ pending[n].op = "invalidate" /\ pending[n].key = k
      \/ listener[n] = "lost"

(* ... and the repairable ones are repaired, whatever the connections and  *)
(* the other nodes do meanwhile.                                           *)
StaleIsRepaired ==
  \A n \in Serving, k \in KeyIDs, v \in Versions :
    Stale(n, k, v) /\ <<k, v>> \notin excused[n]
      ~> ~Stale(n, k, v) \/ <<k, v>> \in excused[n]

(* "After soft delete: can still decrypt historical ciphertext, cannot     *)
(* encrypt" (docs/manual/user-manual.en.md:708): an Encrypt that arrives   *)
(* after the latest version was soft-deleted is refused.                   *)
SoftDeletedRefusesEncrypt ==
  \A n \in Nodes :
    request[n].pc = "done" /\ request[n].op = "encrypt" => ~request[n].deleted
=============================================================================
