# A TLA+ model of Yvonne

Yvonne is a key management server. It keeps data encryption keys (DEKs),
wrapped by a master key, in a key-value store; clients ask a node to encrypt,
decrypt, create, rotate, delete and restore keys. This directory holds TLA+
specifications of the parts whose correctness depends on the order in which
goroutines, nodes, timers and failures take their steps, the TLC
configurations that check them on small instances, and TLAPS proofs of the main
invariants for every instance. Paths below are relative to the repository.

## The system and its parts

- **Seal** (`internal/seal`). The master key is in memory only while a node is
  unsealed: by Shamir shares, directly (dev mode, local PKI) or by an HSM. A
  timer seals a session again; an emergency seal is final for the process.
- **Key lifecycle** (`internal/lifecycle`). `Manager` keeps one row per key
  version and an index row naming the latest version, and a per-node cache of
  rows. Two background loops work on the same rows: the recycle-bin reaper
  and the rotation daemon.
- **Storage** (`internal/storage`). PostgreSQL for clusters (transactions, row
  locks, `LISTEN/NOTIFY`, an advisory lock), memory and BoltDB for one node, a
  health check that puts the service into degraded mode.
- **Service and front ends** (`internal/service`, `api`, `grpc`, `mcp`,
  `admin`). Check seal, health and policy, call the manager, write the audit.
- **Audit** (`internal/audit`). A signed hash chain with an anchor file,
  rotated files and a syslog queue.
- **Authorization** (`internal/auth`). Policies, tokens, approvals, TOTP.
- **The rest.** Secure memory, cryptographic suites, configuration, metrics,
  start-up (`internal/bootstrap`, `cmd/yvonne`), SDKs (`sdk`).

`PROJECT.json` lists every part with its sources and status, the hazards of the
code line by line, and, for each definition of a module, the lines it models.

## Modules

| Module | Models | State |
|---|---|---|
| `SealContract` | what the server relies on from `seal.Unsealer` | mode, key, users of the key |
| `VaultSeal` | `seal/state.go` | fields of `VaultState`, its RWMutex, reseal goroutines |
| `Shamir`, `ColdBackup` | `seal/shamir.go`, `seal/backup.go` | none: operators |
| `KeyStore` | the stored rows and the manager's operations on them | rows, index rows, creates between their two Puts |
| `KeyCluster` | cache, requests, NOTIFY and LISTEN of several nodes, on `KeyStore` | per node: cache, request, pending operation, listener, inbox |
| `KeyReaper` | the reaper of several nodes, on `KeyStore` | per node: page, offset, batch, cutoff |
| `RotationDaemon` | the daemon of several nodes, on `KeyStore` | per node: scan result, seal; the advisory lock |
| `KVStores` | memory, BoltDB and PostgreSQL implementations, list and count loops | none: operators |
| `AuditChain` | `internal/audit` | chain, anchor file, log files, syslog queue, calls in progress |
| `Policies`, `Mfa`, `Approvals`, `SensitiveOps` | one-time codes, tickets and the gate before sensitive operations | stored secrets and tickets, handlers between read and write |
| `Authentication` | static tokens, JWT, service accounts, the choice among them | none: operators |
| `ServiceCore`, `FrontEnds` | operations and routes as sequences of steps | none |
| `Server` | a node: requests of four front ends, seal, database, shutdown | the contract's seal, requests, health flag, transit key, shutdown |
| `ClientCalls` | retries and circuit breaker of the Go SDK, the server's rate limiter | breaker atomics, calls, bucket |
| `MCVaultSeal`, `MCKeyReaper`, `MCSensitiveOps`, `MCServer` | instances for TLC, and named assumptions that compare operators with a reference | |
| `...Proofs` | the proofs, see Theorems | |

How they fit together: `KeyCluster`, `KeyReaper` and `RotationDaemon` extend
`KeyStore` and conjoin its actions with their own, so a rotation by a client, by
the daemon or on a node with a cache is the same `RotateKey`. `VaultSeal`
implements `SealContract`, and `Server` runs its requests against that contract.
`SensitiveOps` composes `Mfa` and `Approvals`.

### VaultSeal

One action per critical section. `Lock(op)` is the call of `v.mu.Lock()`: the
writer announces itself, from then on no reader enters, and the body runs when
the readers that are inside have left, as Go's RWMutex does. `ProvideShare` and
`DirectUnseal` are one step each, since nothing observes them half way: of what
they change, only `state` is read without the lock, and the key is in place
before it is stored. `Seal` and
`EmergencySeal` are three steps (store `Sealing`, wipe, store `Sealed`), because
`State()` can be called between them. A share is its x coordinate and the split
it comes from; `Combine` fails on a malformed share or a repeated x, returns
the split's secret when all shares come from one split and `Garbage` otherwise,
which is what interpolation does. A reseal goroutine is `armed`, `cancelled`
(its context is done, but `select` may still take the timer) or `fired`
(waiting to call `Seal`, which is not tied to its session).

### KeyStore

`rows[k][v]` is the row of version v: its state, the identity of its DEK, and two
facts about time, `expired` (in the recycle bin longer than the TTL) and `due`
(past `NextRotationAt`). `Destroyed` rows do not exist in the store: the
transaction that writes one deletes it. Rotate, shred, soft-delete and restore lock the rows they
touch with `SELECT ... FOR UPDATE` inside one transaction, so each is one step.
Two rotations that meet are serialised by the lock on the index row or, where
there is none, on the version rows. `CreateKey` is two independent Puts, hence two steps, the
second of which may be lost; `ImportKey` never writes the index. The
asymmetric creations of `manager.go` and `manager_sm2.go` write the same two
rows in the same order.

`Disciplined` says whether clients create an id once and use it only when the
creation has returned. The code does not enforce it: `CreateKey` overwrites
an existing version 1. The proofs and the passing runs assume it;
`key_recreated` shows what happens without.

### KeyCluster

A request on a node is: read the index, look in the cache, load the row, fill the
cache, reply, each its own step, with store errors in between. A rotation or shred is
the transaction with its NOTIFY, then the local invalidation, which a lost
commit answer or a crash may prevent. `RestoreKey` invalidates inside its
transaction. `SoftDeleteKey` and the creations touch no cache. The listener
goes through `starting`, `up`, `lost`; what is queued on a lost connection is
gone, and the cache is cleared before the next `LISTEN`. `excused` is a history
variable: the cache entries that may be wrong for a reason the code does not repair.

The scan that replaces a missing index (`findLatestVersionScan`) is one step
although the code reads one row at a time, and a node serves one request at a
time; the interleavings of interest are between a request and the operations
around it.

No code outside the tests creates a `CacheInvalidationListener` or calls
`SetNotifier`. `Listeners` is therefore a parameter: one node of the checked
instance listens and the other does not, which is how every node behaves in the
program as it is wired now.

### KeyReaper

A pass takes the cutoff once (the set of rows already expired), then alternates
between reading a page by offset, shredding what the page showed as expired, and
advancing. `ShredKey` does not test the state again, so `ReapShred` is
`KeyStore!ShredKey` on whatever the row is by then. `Fault` is a store error or
a restart.
`ORDER BY k` is an arbitrary injective numbering of the rows
(`Position`), and `Ordered` lists a set of rows by it: the paging argument depends on
the order being fixed, not on which it is.

### RotationDaemon

`TryAcquire`, `ScanExpiredKeys`, one attempt and one `Audit` per due key,
`Release`. `Rotate` takes the key id only and so rotates the version that is
latest by then. `RotateSealed` is the attempt on a sealed vault, where a nil
pointer ends the process. `Fault` is a seal, a store error, the loss of the
lock's connection (the daemon does not notice) or a restart. At the version
bound `MaxVersion` an attempt counts as refused.

### KVStores

Every call of the memory, BoltDB and PostgreSQL stores holds a lock or is one
transaction, so it is a function of the stored data. Keys are sequences of
bytes up to a largest one, which is what the edge cases of `nextPrefix` need.
`MCKeyReaper` states, as assumptions that TLC evaluates over bounded keys, that
cursor and range scans find the keys with a prefix (`CursorFindsPrefix`,
`RangeFindsPrefix`, the latter except for the prefixes that have no upper
bound), what a batch or a failed transaction leaves behind (`BatchIsAtomic`),
that pages cover a scan (`PagesCoverTheScan`) and that the stores agree
(`StoresAgree`).

### AuditChain

`Record` is cut where other goroutines or a stop can come between: `Chain` (under
the chain's lock), `AnchorOpen`, `AnchorWrite` and `AnchorRename` of `saveAnchor`
(outside it), `FileWrite`, which rotates first when the day has changed and puts
the line into the syslog channel or drops it. A signature is the position of its
line in the history `minted`; a line's `prev` is what it was chained to, so a
wrong link is visible. Files are inodes, since a writer that has opened the
temporary anchor file keeps writing to it after another has renamed it. `Prune` is the
daily clean-up with its own logger, which numbers from 1. `Crash` loses the
process, `PowerLoss` also what was not synced; `Start` makes a new key
and takes the chain up from the anchor. `anchor.alone` records that the last line
to be chained saved without company or error: only then is the anchor meant to
be the end of the chain. A file write that fails leaves nothing behind: a short write,
and a `Sync` that fails after the line was written, are left out.

### Policies, Mfa, Approvals, SensitiveOps

Handlers read an object, decide, and write it back later, with no lock across the
two: `ApproveRead`, `RejectRead` and `UpdateTicket` are separate steps, as are the
two halves of an MFA verification. A call remembers whether its copy has become
`stale`. The MFA store returns pointers, so a secret's `Enabled` flag is that of
an object which may have left the map. Each role has one verification or removal in
progress at a time: two of the same role that overlap are not explored. A code is the window it is of. The gate
checks the ticket first and the code later, against whatever is stored by then.
No router registers the middleware of the gate; the model is of what it would do.

### Authentication

Operators, with data reduced to what the decisions look at: algorithm, key,
times, issuer, audiences, roles. `MCServer` compares them with a description over
all combinations: `PatternsArePrefixes`, `LastRegistrationCounts`,
`JwtAcceptsFirstAudience`, `K8sAcceptsFirstAudience`, `JwtReplacesAppRole`.

### ServiceCore, FrontEnds, Server

An operation is a sequence of stages: checks, reads, writes, entering and leaving
`KEKRef`, secrets that come into being and are wiped, audit records. A stage has
the depth of its block; when one fails, what remains is the clean-up and the
records of the blocks that have been entered (`Failed`), which is Go's early
return with its `defer`s. Routes put the front end's middleware around the
operations. `Server` takes the routes as a constant and runs the requests stage by
stage; a request carries its route and the positions of it that remain. What is
local follows at once (`Settle`, in closed form: what has not been cleared since
it was made is held), what is shared (seal, health flag, store, transit
key, audit log) is a step. A write that fails may have happened. Shutdown stops
HTTP, admin, gRPC and MCP in this order, gives up on all but gRPC
after ten seconds, and closes the audit log. `BootRoute` is another route: the
automatic unseal of a node with `local_pki`. `MCServer` gives `Server` those of
`FrontEnds` and `ServiceCore` (`allRoutes`, `startUp`).

`RoutesAssumption` says what each route is like by itself: wherever it fails,
what it holds gets wiped and what it has changed gets recorded; it asks for the seal before
it writes, or holds anything but what its caller sent (`Sent`), and, if it is a gRPC route,
for health before it writes. For
the routes of the program TLC's evaluation settles it. That this is enough when requests,
seal, database and shutdown interleave is what the run checks for these routes, and the
proofs show for any.

The rows themselves are in `KeyStore`; here the store has one bit per request,
whether it has been changed. `held` has the names of the secrets a request has
in memory: keys, texts to encrypt or decrypted, shares. Credentials, and data to
be signed, are not counted. A text to encrypt is there before any check when it comes by
gRPC or MCP, where the library decodes the message first, or through the admin
console, which reads the body and then calls the API (`Sending`). The copies that
no path clears are named in `Uncleared`, among them these texts, the RSA key of the automatic
unseal and a generated private key.

`Record` of a request may fail while the log is open, as `FileWriteFails` and the other
errors of `AuditChain` do. Both callers discard the error, so the request goes on as if
nothing had happened; its `recorded` tells the two apart.

### ClientCalls

`Allow`, `RecordSuccess` and `RecordFailure` touch the breaker's atomics one at a
time, and each write is a step (`failure1` to `failure3`: the count, the time, the
state). A request can be lost before or
after the server has acted. The server refuses with a 4xx, or with 503 while it is
sealed, before it has changed anything; its 500 may come before or after the change,
as when the answer to a commit is lost, and is not retried. Time is a counter; the bucket of one address is
refilled by the time that has passed, and removed when idle. Backoff lengths are
left out: a backoff ends at some time.

## Runs

| Run | Question | Distinct states |
|---|---|---|
| `vault_seal` | Is the key there exactly when the state says so, is an emergency seal final and reached, are sessions timed, does the pool stay short of the threshold; does `VaultSeal` implement `SealContract`? | 61,474 |
| `key_cluster` | Does an Encrypt after a rotation use the new version; can a cached DEK belong to another version; why can a cache be stale, and is it repaired? | 203,035 |
| `key_reaper` | Does a reaper spare the active version, get every expired row in spite of paging over rows it deletes, and end its pass? | 23,112 |
| `rotation_daemon` | Is the Active version unique and the latest, are versions never reissued, does the lock prevent double rotation, is a due key rotated in the end? | 62,316 |
| `audit_chain` | Does a query show the chain, does the anchor follow it, does a line that was acknowledged stay, does the syslog queue drain? | 535,050 |
| `sensitive_ops` | Is a quorum real, does a sensitive operation run only with its quorum and its code, does a decision stick, although handlers overlap? | 465,072 |
| `client_calls` | Does the breaker's state match its count, is what a call returns true, does the limiter hold its rate, does every call return? | 580,770 |
| `server` | Does a sealed or degraded node change nothing, is every change given to the audit log, is every buffer wiped, does a shutdown end? | 288,139 |
| `soft_delete_encrypts` | violation: a soft-deleted key still encrypts from a cache | |
| `reaper_restored` | violation: a version restored in time is shredded | |
| `daemon_sealed` | violation: a due key on a sealed vault ends the process before the audit entry | |
| `key_recreated` | violation: creating an existing id gives a second Active version | |

`PROJECT.json`, "findings", quotes the comment or manual that each violation
contradicts and lists further divergences seen while reading. "mutants" has, for
every property, a plausible slip in the code that TLC finds with it.

Several properties carry an exception, because without it the code does not have
them. They are part of what the runs show:

- `RotationSticks`: a shredded version between, met by the scan.
- `StaleHasCause`: a load that crossed the change, soft deletes and
  creates (which notify nobody), a lost commit answer, a NOTIFY while not listening.
- `LockedRotatesDue`: a client, or a daemon whose session broke, rotated after the scan.
- `AnchorFollowsChain`: two savings that overlapped, or an error.
- `ReturnedIsKept`: after a loss of power, the lines that were not high-risk.
- `DecisionsStick`: a decision another one overlapped.
- `BreakerMatchesCount`: a success and a failure once recorded at the same time.
- `RefusedHasNoEffect`, second part: gRPC only; the HTTP handlers call the manager
  without asking for health.
- `AnswersTruthful`: a 500, and a 4xx to a later attempt, tell nothing about whether
  the operation was carried out.
- `RefusedHasNoEffect`, first part: what the caller sent, a text or a share.
- `ChangedIsRecorded`: servers whose requests the shutdown gave up on, and records that
  the log failed to write, whose error nobody looks at.
- `BuffersWiped`: `Uncleared`.

### Bounds

- `vault_seal`: threshold 3 with three holders of two splits and a malformed
  share gives complete, mixed, duplicate and failing pools; three sessions let
  the timers of two earlier ones meet a third; two readers, so that one can
  leave while another stays.
- `key_cluster`: one key (caches of different keys do not interact), two
  versions (an old and a current one), two nodes, of which one serves requests and listens and
  the other only administers; two queued notifications.
- `key_reaper`: one key, two versions, page size 1, so that a pass has several
  pages and a shred moves rows across a page boundary; two reapers; one fault.
- `rotation_daemon`: one key, three versions (a double rotation needs three), two
  daemons, one fault at any point.
- `audit_chain`: two recorders, one of them high-risk, and the pruner; three
  lines (a link has a middle), two starts, three days with a retention of two, a
  syslog channel of one, one fault.
- `sensitive_ops`: a requester and two approvers, two operations (a ticket for
  the wrong one), one ticket, two decisions in progress, two secrets (a replaced
  one), two windows; roles that play the same part are interchanged.
- `client_calls`: two callers, three calls in all, threshold 2, one retry,
  a reset time of zero (an open breaker may always be tried), a burst of 1 and
  a rate of 2 (an idle bucket would overflow without its cap), clock to 2.
- `server`: two goroutines, of which one takes every route and the other those that
  change the seal under it.

### Fairness

- `VaultSeal`: a closure returns, a timer expires, the holder of the lock
  proceeds (weak); the goroutine that waits to reseal gets the lock although
  others take it again and again (strong): a starving waiter of `sync.Mutex` is
  handed the lock in FIFO order.
- `KeyCluster`: notifications on an open connection are delivered, the listener
  loop goes on, a committed operation goes on to invalidate (all weak). Requests,
  clients, disconnections and crashes are not fair.
- `KeyReaper`: the ticker ticks and the goroutine runs (weak). Faults are
  bounded: a reaper that is restarted during every pass never finishes one.
- `RotationDaemon`: the daemon's steps, including the restart by the supervisor,
  are weakly fair, and a create returns; operators unseal a node that is again
  and again sealed (strong). Without the last, a daemon dies at every tick.
- `AuditChain`: the syslog goroutine takes the next line, and a write ends by its
  timeout (weak). Recorders are not fair.
- `ClientCalls`: a call goes on (weak): the HTTP client has a timeout and a
  backoff a timer.
- `Server`: handlers go on, and a writer that waits for the vault's RWMutex gets it
  although readers come and go (strong, since Go lets no new reader pass a waiting writer);
  `main` goes on with its shutdown (weak).

## Theorems

All for arbitrary constants that satisfy the named assumptions. Those about keys
assume `Disciplined`, except where noted.

**VaultSealProofs.** `Inv` conjoins `TypeOK`, `KeyMatchesState`, `FrozenIsEmpty`,
`PoolBelowThreshold` and `SessionIsTimed` with `WriterInside`, which says what the
state, the key and the readers are at each point inside `Seal` and `EmergencySeal`: without it
the steps of those bodies could not be told to start from the state the
previous one left. One lemma per group of actions. `VaultRefinesContract` maps a
vault that is `Unsealed` to "unsealed" and a flagged one to "frozen", with the
key present from the moment `state` says so; it uses `Inv` in every step.

**KeyStoreProofs.** `StoreInv` conjoins the types,
`DeksDistinct`, `ActiveAtIndex` (`ActiveIsLatest` without the scan) and
`StoreShape`: an id that nobody created has no rows; a row is version 1 or not
above the index; a create between its two Puts is the only one of its id and
has no index yet; every stored DEK has been minted. `StoreShape` is what makes
the rest inductive: the slot a rotation writes is empty because it lies above the
index, and a late index write cannot undo a rotation. The scan is a `CHOOSE`;
`ScanIsFirst` and `LatestIs` give it its unique value where it is used, without
an index, when only version 1 can exist. Rewriting one row (soft-delete, restore,
shred, expiry, falling due) is handled once, in `OneRowInv`.
`StoreVersionHistory` follows from the invariant. `VersionKept`, `IndexGrows` and
`BornGrows` say what no step of the store undoes; the modules below use them for
what a node, a daemon or a reaper has read some time ago.

**KeyClusterProofs.** `ClusterImplementsStore`: every cluster step is a
`KeyStore` step or leaves the store alone (without `Disciplined`), so the theorems above carry over to
any number of nodes, with caches, notifications and crashes. The one step that
needs an invariant is the commit of a restore, which uses what the transaction
read when it began (`PendingOK`). For the caches, `CacheInv` conjoins `StoreInv`, `TypeOK`, what each cache entry
is (`EntryOK`: its version's DEK, and equal to the row unless something
on its way or excused says otherwise) and what each request in progress has read
(`RequestOK`). The steps are grouped by what they do to a cache: fill, invalidate one
key, clear, a transaction that notifies, one that does not. From it follow
`ClusterTypeOK`, `ClusterCachedDek`, `ClusterRotationSticks` and
`ClusterStaleHasCause`, for any number of keys, versions and nodes.

**BackgroundProofs.** The two background loops. `DaemonsImplementStore` carries the
store's theorems over (without `Disciplined`; the three theorems it carries assume
it). `DaemonInv` adds `LockCovers`: what the holder of the lock still has in its batch
is due, or has been rotated from outside. It gives `DaemonLockedRotatesDue`.
`ReaperPasses` is the invariant of a reaper's pass, with any page size
and order of rows; `ReapersImplementStore` needs no more than that. `ReaperSpares`
adds `BatchRetired`: what is left of a page is a version that is not Active and never will
be again, which is why shredding on an old reading cannot hit a key in use.

**AuditChainProofs.** `AuditInv` conjoins the types with four parts. `ChainInv`: the lines of
one start are linked and numbered upwards. `CallsInv`: what each call of `Record` has
in hand at each of its points. `AnchorInv`: the anchor file and the temporary one are
different inodes; without an error neither is empty unless someone is about to write it; and if the
last call to chain was alone, what it saves, or has saved, is the end of the chain
(`TwoFiles`, `NoneEmpty`, `EndIsSaved`). `FilesInv`: no line is twice in the files, what is synced is the
beginning of a file, a line whose `Record` returned nil is there until its retention is
over, and the archive that the next rotation writes does not exist yet. It gives the type invariant,
`AuditQueryShowsChain`, `AuditAnchorFollowsChain` and `AuditReturnedIsKept`, for any number of
recorders, lines, starts, days and faults. That a free inode is left for a new
temporary file is a counting argument: every goroutine has at most one open.

**SensitiveOpsProofs.** `GateInvariant` has a part for the codes
(`SecretsProved`), one for the tickets and for the copies that handlers are about to
write (`WriteOK`: a copy has enough votes by itself, and if it is not stale it
only adds to the ticket), and one for requests at the gate (`Backed`). It gives the type invariant,
`SensitiveQuorum`, `SensitiveGate` and `SensitiveDecisions`. The quorum rests on votes of
different roles, so it needs cardinalities of finite sets.

**ClientCallsProofs.** `Inv` conjoins the types, `AllTruthful` (what a call at each
point knows about the server), `WithinBound` (for each earlier instant, what was let in since
plus the tokens in the bucket is within the bound: the limiter's potential) and
`BreakerBetween` (what state and count are while a record is half done).

**ServerProofs.** For any number of requests on any routes that satisfy
`RoutesAssumption`. `ServerInv` says that
each request either goes on (`GoesOn`: it holds what its route holds at that step, and as long as the
vault or the database has refused it, it has passed no check of that), or cleans up
(`CleansUp`: for everything it holds there is a wipe among what remains, and for a change
a record), or has returned; that a request under way in a
server which has been drained has been given up (`Timely`); and that nothing else runs during the automatic
unseal (`BootsAlone`). The core is `SettleIsGood`: local steps, with a failure at any of
them, lead from one such request to another. `Server` draws the least of a set of positions with a
`CHOOSE`, whose value follows from the well-foundedness of the naturals. It gives
`ServerRefused`, `ServerChangedIsRecorded` and `ServerBuffersWiped`.

Only model-checked: all liveness properties (they need fairness and `ENABLED`), and
the assumptions about `Shamir`, `ColdBackup`, `KVStores`, `Authentication` and the
routes, which are about recursive definitions or finite enumerations.

## Not modelled

- Cryptographic suites, generated code, parsing of configuration, metrics and
  tracing, rendering: no state whose order of changes matters. The reload on SIGHUP
  replaces a configuration that only the reload's own log message reads.
- The HSM, which is a device: unwrapping is a step that may fail.
- The SDK's request methods, and SDKs in other languages.
- The key type of asymmetric rows, the versioned ciphertext format, the set-up of connection
  pools.
- Code nothing in the program calls: `Core.GenerateMac`, `VerifyMac`,
  `GDKWithoutPlaintext`, `GetPublicKey`, `DisableKey`, `EnableKey`,
  `CancelKeyDeletion`, the `CleanupExpired` functions, the global key quota
  (`SetMaxGlobalKeys` is never called).
- Clock skew between nodes: `expired` and `due` are facts all nodes agree on.
- Faults of memory and of disks beyond lost unsynced data.

Modelled although the program does not wire it: the cache invalidation listener, the
MFA and quorum middleware, and the `Backend` implementations of BoltDB and PostgreSQL.

## Plan

1. The key type in the rows of `KeyStore`, with the rotation of asymmetric keys.
2. `Server` over `KeyStore` instead of one bit per request.
