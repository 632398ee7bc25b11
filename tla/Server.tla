------------------------------- MODULE Server -------------------------------
(***************************************************************************)
(* One node that serves requests: its handlers, given as the sequences of  *)
(* steps of FrontEnds.tla, run interleaved, step by step, against the      *)
(* seal, the database with its health flag, the transit keys and the audit *)
(* log, while the operator stops the process (cmd/yvonne/main.go).         *)
(***************************************************************************)
EXTENDS Sequences, Integers

CONSTANTS
    Routes,      \* Routes[via][name]: the steps of a handler, by front end
    BootRoute,   \* the steps by which the process unseals its vault and starts to serve
    Requests,    \* goroutines that serve a request
    Uses,        \* Uses[r]: the routes [via, name] that requests of r may take
    MasterKey, NoKey

VARIABLES
    mode, key, users,    \* the seal, as SealContract describes it
    call,                \* call[r]: the request r serves, or the last one it served
    healthy,             \* the flag of the database's health check
    transit,             \* one transit key is there to be used
    closing,             \* how far the shutdown is: 0, the server drained, audit closed, exit;
                         \* or that the process still starts
    abandoned            \* servers whose requests the shutdown did not wait for

seal == <<mode, key, users>>
shutdown == <<closing, abandoned>>
vars == <<seal, call, healthy, transit, shutdown>>

Seal == INSTANCE SealContract WITH Readers <- Requests, Keys <- {MasterKey}

\* The servers in the order in which main shuts them down.
Order == <<"http", "admin", "grpc", "mcp">>
AuditClosed == Len(Order) + 1
Exited      == Len(Order) + 2
Booting     == -1

\* `route`: the steps of its handler; `todo`: those that remain, by their positions.  `held`: the secrets
\* in memory.  `changed`: what the request has, or may have, changed; `recorded`: what
\* became of the audit records it made while the log was open.  `asleep`: the vault has not been unsealed since it began;
\* `degraded`: in a gRPC request, nor has the database been held to be healthy.
\* `unrecorded`: the front end of a request that has returned with a change and for which
\* the log was not even asked to write a record.
NoCall == [via |-> "none", route |-> <<>>, todo |-> {}, ok |-> TRUE, held |-> {}, changed |-> {},
           recorded |-> {}, asleep |-> FALSE, degraded |-> FALSE, unrecorded |-> {}]

Busy(v) == \E r \in Requests : call[r].via = v /\ call[r].todo # {}

----------------------------------------------------------------------------
(* Steps of a request *)

Route(c) == c.route

Beginning(via, route) == [NoCall EXCEPT !.via = via, !.route = route, !.todo = DOMAIN route]

\* The first of some positions: none comes before it.
Least(positions) == CHOOSE i \in positions : positions \cap (0 .. i - 1) = {}

\* The step that comes next.
First(c)   == Least(c.todo)
Current(c) == Route(c)[First(c)]

Done(c) == [c EXCEPT !.todo = @ \ {First(c)}]

Cleanup == {"wipe", "undo", "leave", "record"}

\* What remains after step i of a route has failed: the cleanup and the records that
\* follow, in the blocks that have been entered, without the record of a block that
\* refuses.
Remaining(route, i) ==
    {j \in i + 1 .. Len(route) :
        /\ route[j].do \in Cleanup
        /\ \A k \in i .. j : route[k].level >= route[j].level
        /\ ~(route[i].do = "check" /\ route[j].do = "record" /\ route[j].level = route[i].level)}

\* A deferred function that looks at another `err` than the one that is returned.
FailedShadowed(c) == [c EXCEPT !.todo = @ \cap Remaining(Route(c), First(c))]

Failed(c) == [c EXCEPT !.ok = FALSE, !.todo = @ \cap Remaining(Route(c), First(c))]

\* Checks of what the server shares; all others depend on the caller and its data
\* (credentials, policy, body, ciphertext) and may turn out either way.
SharedChecks == {"frozen", "unsealed", "writable"}

Undecided(step) == step.do = "try" \/ (step.do = "check" /\ step.on \notin SharedChecks)
Local(step)     == step.do \in {"new", "wipe", "undo", "lose", "end"} \/ Undecided(step)

\* The secrets in memory once the steps `past` of a route have been taken.  An undo takes
\* effect only in a request that has failed.
HeldAfter(route, past, ok, held) ==
    LET Clears(j, secret) == /\ route[j].on = secret
                             /\ route[j].do \in {"wipe", "lose", "unseal"} \/ (route[j].do = "undo" /\ ~ok)
        Stays(secret, j)  == \A k \in past : k > j => ~Clears(k, secret)
    IN  {x \in held : Stays(x, 0)}
        \cup {route[j].on : j \in {i \in past : route[i].do = "new" /\ Stays(route[i].on, i)}}
        \cup {"lost" : j \in {i \in past : route[i].do = "lose"}}

\* A request that has gone on to step i.
Upto(c, i) == [c EXCEPT !.todo = {j \in @ : j >= i},
                        !.held = HeldAfter(Route(c), {j \in c.todo : j < i}, c.ok, @)]

\* What stays of a request that has returned.
Returns(c) == [NoCall EXCEPT !.held = c.held,
                             !.unrecorded = IF c.changed # {} /\ c.recorded = {} THEN {c.via} ELSE {}]

\* A request up to its next step that touches something shared: what is local follows
\* at once, for nobody else can tell when it happens.
Shared(c) == {i \in c.todo : ~Local(Route(c)[i])}
Rest(c)   == IF Shared(c) = {} THEN Returns(Upto(c, Len(Route(c)) + 1)) ELSE Upto(c, Least(Shared(c)))

\* On the way each step that depends on the caller may fail; of what remains then, none
\* does.
Settle(c) ==
    LET failing == {i \in c.todo : Undecided(Route(c)[i]) /\ \A j \in Shared(c) : i < j}
    IN  {Rest(c)} \cup {Rest(Failed(Upto(c, i))) : i \in failing}

----------------------------------------------------------------------------
(* What the routes are like, each by itself *)

\* Copies that the code never clears.
Uncleared == {"private key", "RSA key", "plain bytes", "mac key", "base64", "request", "lost"}

\* What a caller has sent: a text to encrypt, a share of the master key.
Sent == {"request", "share"}

Fallible(step) == step.do \in {"check", "try", "enter", "read", "put", "commit", "share", "unseal",
                               "new transit", "transit"}
Writes(step)   == step.do \in {"put", "commit"}
Changes(step)  == Writes(step) \/ step.do = "freeze"
SealGate(step) == step.do = "enter" \/ (step.do = "check" /\ step.on = "unsealed")
HealthGate(step) == step.do = "check" /\ step.on = "writable"

\* The secrets in memory when the route comes to step i.
HeldAt(route, i) == HeldAfter(route, 1 .. i - 1, TRUE, {})

\* Wherever it fails, and at its end, what it holds gets wiped.
WipesAll(route) ==
    /\ HeldAt(route, Len(route) + 1) \subseteq Uncleared
    /\ \A i \in DOMAIN route : Fallible(route[i]) =>
           \A secret \in HeldAt(route, i) \ Uncleared :
               \E j \in Remaining(route, i) : route[j].do \in {"wipe", "undo"} /\ route[j].on = secret
    /\ \A i \in DOMAIN route : route[i].on # "lost"

\* It asks for the seal before it holds anything but what the caller sent, and before it
\* writes; and for the database's health before it writes.
AsksSeal(route) ==
    \A i \in DOMAIN route :
        \/ \E j \in 1 .. i - 1 : SealGate(route[j])
        \/ HeldAt(route, i) \subseteq Sent /\ ~Writes(route[i])
AsksHealth(route) ==
    \A i \in DOMAIN route : Writes(route[i]) => \E j \in 1 .. i - 1 : HealthGate(route[j])

\* A change is recorded, also if the route fails with it or after it.
RecordsAll(route) ==
    /\ (\E i \in DOMAIN route : Changes(route[i])) => \E i \in DOMAIN route : route[i].do = "record"
    /\ \A i \in DOMAIN route : Fallible(route[i]) /\ (\E j \in 1 .. i : Changes(route[j])) =>
           \/ \E j \in 1 .. i - 1 : route[j].do = "record"
           \/ \E j \in Remaining(route, i) : route[j].do = "record"

Steps == Seq([do : STRING, on : STRING, level : Nat])

ASSUME RoutesAssumption ==
    /\ DOMAIN Routes = {"http", "grpc", "mcp", "admin"}
    /\ \A v \in DOMAIN Routes : \A n \in DOMAIN Routes[v] :
           /\ Routes[v][n] \in Steps
           /\ WipesAll(Routes[v][n]) /\ AsksSeal(Routes[v][n]) /\ RecordsAll(Routes[v][n])
           /\ v = "grpc" => AsksHealth(Routes[v][n])
           /\ \A i \in DOMAIN Routes[v][n] : Routes[v][n][i].do \notin {"unseal", "start"}
    /\ BootRoute \in Steps /\ WipesAll(BootRoute)
    /\ \A i \in DOMAIN BootRoute :
           /\ ~Changes(BootRoute[i]) /\ BootRoute[i].do # "record"
           /\ BootRoute[i].do = "start" => i = Len(BootRoute)

ASSUME UsesAssumption ==
    \A r \in Requests : \A use \in Uses[r] : use.via \in DOMAIN Routes /\ use.name \in DOMAIN Routes[use.via]

----------------------------------------------------------------------------
(* The server *)

\* With unseal.type local_pki the process first unseals its vault by itself, in one of
\* the goroutines; with shamir it serves at once and waits for shares.
Init ==
    /\ Seal!Init
    /\ healthy = TRUE
    /\ transit = FALSE
    /\ abandoned = {}
    /\ \/ closing = 0 /\ call = [r \in Requests |-> NoCall]
       \/ /\ closing = Booting
          /\ \E b \in Requests, c \in Settle(Beginning("boot", BootRoute)) :
                 call = [r \in Requests |-> IF r = b THEN c ELSE NoCall]

Go(r, calls) == \E c \in calls : \E d \in Settle(c) : call' = [call EXCEPT ![r] = d]
Advance(r) == Go(r, {Done(call[r])})
Fail(r) == Go(r, {Failed(call[r])})

At(r, what) == closing < Exited /\ call[r].todo # {} /\ Current(call[r]).do = what
Changed(c, what) == [c EXCEPT !.changed = @ \cup {what}]

\* A check that asks only whether the vault is frozen.
PassesUnlessFrozen(which) == IF which = "writable" THEN healthy ELSE mode # "frozen"

Passes(which) ==
    CASE which = "frozen"   -> mode # "frozen"
      [] which = "unsealed" -> mode = "unsealed"
      [] which = "writable" -> healthy

Decide(r) ==
    /\ At(r, "check")
    /\ IF Passes(Current(call[r]).on) THEN Advance(r) ELSE Fail(r)
    /\ UNCHANGED <<seal, healthy, transit, shutdown>>

Enter(r) ==
    /\ At(r, "enter")
    /\ IF mode = "unsealed" THEN Seal!Borrow(r) /\ Advance(r) ELSE Fail(r) /\ UNCHANGED seal
    /\ UNCHANGED <<healthy, transit, shutdown>>

Leave(r) ==
    /\ At(r, "leave")
    /\ Seal!Return(r)
    /\ Advance(r)
    /\ UNCHANGED <<healthy, transit, shutdown>>

\* GetActiveKey, GetKeyForDecrypt.  The database may be away at any time.  A Get or Put
\* of PostgresKVStore that fails marks it unhealthy, be it only because the client has
\* gone; that a row is missing is no failure of that kind.
Read(r) ==
    /\ At(r, "read")
    /\ \/ Advance(r) /\ UNCHANGED healthy
       \/ Fail(r) /\ healthy' \in {healthy, FALSE}
    /\ UNCHANGED <<seal, transit, shutdown>>

\* A write whose answer is lost may have happened.
MayHaveWritten(c) == {c, Changed(c, "store")}

\* saveMetadata; the entry for the latest version is then written without looking at
\* the error.
Put(r) ==
    /\ \/ At(r, "put") /\ Go(r, {Done(Changed(call[r], "store"))}) /\ UNCHANGED healthy
       \/ At(r, "put") /\ Go(r, {Failed(c) : c \in MayHaveWritten(call[r])}) /\ healthy' = FALSE
       \/ At(r, "index") /\ Advance(r) /\ healthy' \in {healthy, FALSE}
    /\ UNCHANGED <<seal, transit, shutdown>>

\* WithTx: a transaction up to its commit, which leaves the health flag alone.
Transact(r) ==
    /\ \/ At(r, "commit") /\ Go(r, {Done(Changed(call[r], "store"))})
       \/ At(r, "commit") /\ Go(r, {Failed(c) : c \in MayHaveWritten(call[r])})
    /\ UNCHANGED <<seal, healthy, transit, shutdown>>

\* An audit record.  The log writes it or fails to; once the log is closed it is not
\* tried.  Nobody looks at the error.
Record(r) ==
    /\ At(r, "record")
    /\ Go(r, {Done([call[r] EXCEPT !.recorded = @ \cup outcome]) :
                 outcome \in IF closing < AuditClosed THEN {{"written"}, {"failed"}} ELSE {{}}})
    /\ UNCHANGED <<seal, healthy, transit, shutdown>>

\* Unsealer.EmergencySeal and Seal wait for the closures that use the key.
Freeze(r) ==
    /\ At(r, "freeze")
    /\ IF mode = "frozen" THEN Advance(r) /\ UNCHANGED seal
                          ELSE Go(r, {Done(Changed(call[r], "freeze"))}) /\ Seal!Freeze
    /\ UNCHANGED <<healthy, transit, shutdown>>

CloseSession(r) ==
    /\ At(r, "seal")
    /\ IF mode = "unsealed" THEN Seal!Close ELSE UNCHANGED seal
    /\ Advance(r)
    /\ UNCHANGED <<healthy, transit, shutdown>>

\* ProvideShare: refused, one of several, or the last one needed.
Share(r) ==
    /\ At(r, "share")
    /\ \/ Advance(r) /\ UNCHANGED seal
       \/ Fail(r) /\ UNCHANGED seal
       \/ /\ Seal!Unseal
          /\ \E c \in Settle(Done(call[r])) :
                 call' = [q \in Requests |-> [(IF q = r THEN c ELSE call[q]) EXCEPT !.asleep = FALSE]]
    /\ UNCHANGED <<healthy, transit, shutdown>>

\* VaultState.DirectUnseal: the vault takes the key over, or refuses it.
DirectUnseal(r) ==
    /\ At(r, "unseal")
    /\ IF mode = "sealed" THEN Seal!Unseal /\ Go(r, {Done([call[r] EXCEPT !.held = @ \ {Current(call[r]).on}])})
                          ELSE Fail(r) /\ UNCHANGED seal
    /\ UNCHANGED <<healthy, transit, shutdown>>

\* AutoUnseal has returned nil: the servers start.
Start(r) ==
    /\ At(r, "start")
    /\ closing' = 0
    /\ Advance(r)
    /\ UNCHANGED <<seal, healthy, transit, abandoned>>

\* TransitKeyManager, for one of its keys.
GenerateTransitKey(r) ==
    /\ At(r, "new transit")
    /\ \/ transit' = TRUE /\ Advance(r)
       \/ transit' = transit /\ Fail(r)
    /\ UNCHANGED <<seal, healthy, shutdown>>

\* The key is used up; or it is not there; or it has expired and is removed; or the
\* material does not fit it and it stays.
UnwrapWithTransitKey(r) ==
    /\ At(r, "transit")
    /\ \/ transit /\ transit' = FALSE /\ Advance(r)
       \/ transit' \in {transit, FALSE} /\ Fail(r)
    /\ UNCHANGED <<seal, healthy, shutdown>>

Serve(r) ==
    \/ Decide(r) \/ Enter(r) \/ Leave(r) \/ Read(r) \/ Put(r) \/ Transact(r) \/ Record(r)
    \/ Freeze(r) \/ CloseSession(r) \/ Share(r)
    \/ GenerateTransitKey(r) \/ UnwrapWithTransitKey(r)
    \/ DirectUnseal(r) \/ Start(r)

\* A server takes requests until its shutdown begins.
Begin(r) ==
    /\ call[r].todo = {} /\ closing # Booting
    /\ \E use \in Uses[r] :
        /\ \A i \in DOMAIN Order : Order[i] = use.via => closing < i
        /\ Go(r, {[Beginning(use.via, Routes[use.via][use.name]) EXCEPT
                        !.asleep = (mode # "unsealed"), !.degraded = ~healthy /\ use.via = "grpc"]})
    /\ UNCHANGED <<seal, healthy, transit, shutdown>>

----------------------------------------------------------------------------
(* The environment and the shutdown *)

\* The loop of StartHealthCheck.
Ping ==
    /\ closing # Booting /\ closing < Exited
    /\ healthy' \in BOOLEAN
    /\ call' = [r \in Requests |-> [call[r] EXCEPT !.degraded = @ /\ ~healthy']]
    /\ UNCHANGED <<seal, transit, shutdown>>

\* The session timer of the vault.
Reseal == closing < Exited /\ Seal!Close /\ UNCHANGED <<call, healthy, transit, shutdown>>

\* A signal, or a listener that fails.
Signal == closing = 0 /\ closing' = 1 /\ UNCHANGED <<seal, call, healthy, transit, abandoned>>

\* A shutdown that stops the gRPC server without waiting.
DrainAtOnce ==
    /\ closing \in DOMAIN Order
    /\ closing' = closing + 1
    /\ abandoned' = abandoned \cup ({v \in {Order[closing]} : Busy(v)} \ {"grpc"})
    /\ UNCHANGED <<seal, call, healthy, transit>>

\* Shutdown returns when the server is idle or its ten seconds are over; GracefulStop
\* of gRPC waits for as long as it takes.  After the last server, Server.Close closes
\* the audit log.
Drain ==
    /\ closing \in DOMAIN Order
    /\ Order[closing] = "grpc" => ~Busy("grpc")
    /\ closing' = closing + 1
    /\ abandoned' = abandoned \cup {v \in {Order[closing]} : Busy(v)}
    /\ UNCHANGED <<seal, call, healthy, transit>>

\* The process ends, with whatever still runs in it: after the shutdown, or by log.Fatalf
\* when AutoUnseal has failed.
Exit ==
    /\ closing = AuditClosed \/ (closing = Booting /\ \A r \in Requests : call[r].todo = {})
    /\ closing' = Exited
    /\ call' = [r \in Requests |-> NoCall]
    /\ mode' = "sealed" /\ key' = NoKey /\ users' = {}
    /\ UNCHANGED <<healthy, transit, abandoned>>

Next ==
    \/ \E r \in Requests : Begin(r) \/ Serve(r)
    \/ Ping \/ Reseal
    \/ Signal \/ Drain \/ Exit

\* Serve(r) is enabled, and has been taken.
Ready(r) ==
    /\ closing < Exited /\ call[r].todo # {}
    /\ Current(call[r]).do \in {"freeze", "seal"} => (mode = "unsealed" => users = {})
Served(r) == call'[r].todo # call[r].todo

\* Every handler goes on: the database answers or fails, and the RWMutex of the vault
\* lets a waiting writer in (strong fairness of Serve(r), written out).  So does main.
Spec ==
    /\ Init /\ [][Next]_vars
    /\ \A r \in Requests : []<>Ready(r) => []<><<Served(r)>>_vars
    /\ WF_vars(Drain) /\ WF_vars(Exit)

----------------------------------------------------------------------------

Returned(r) == call[r].todo = {}

\* A request during which the vault is never unsealed changes no key and never has a
\* secret in memory but what its caller sent, by whatever front end it comes; nor does a
\* gRPC request change a key while the database is held to be unhealthy all the time
\* (requireUnsealedV1, InterceptorChain, Core.requireUnsealed, Core.requireWritable).
RefusedHasNoEffect ==
    \A r \in Requests :
        /\ call[r].asleep => "store" \notin call[r].changed /\ call[r].held \subseteq Sent
        /\ call[r].degraded => "store" \notin call[r].changed

\* A request that has changed, or may have changed, a key or frozen the vault has given
\* a record to an audit log that was open when it returns, also if it failed half-way,
\* unless the shutdown has given up waiting for it.  That the log then writes it, the
\* code does not see to: its errors are discarded (auditMiddleware, Core.recordAudit,
\* startYvonne).
ChangedIsRecorded ==
    \A r \in Requests :
        call[r].unrecorded \subseteq abandoned

\* On every path, wherever it fails, a request leaves no secret in a buffer when it
\* returns, except the copies that the code never clears (the deferred Wipe calls).
BuffersWiped == \A r \in Requests : Returned(r) => call[r].held \subseteq Uncleared

\* A shutdown ends: in the end the process either serves, with none begun, or is gone.  No
\* request waits for ever for another one or for the vault, and GracefulStop returns
\* (startYvonne).
Stops == <>[](closing <= 0) \/ <>[](closing = Exited)
=============================================================================
