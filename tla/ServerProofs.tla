---------------------------- MODULE ServerProofs ----------------------------
(***************************************************************************)
(* Proofs about Server, for any number of requests at a time, whatever     *)
(* routes they take.  What each route is like by itself, RoutesAssumption  *)
(* says; the proofs show that this is enough, however the steps of several *)
(* requests, the seal, the health check and the shutdown interleave.       *)
(***************************************************************************)
EXTENDS Server, WellFoundedInduction, TLAPS

\* What the fields of a request may be.
Vias    == {"none", "boot", "http", "grpc", "mcp", "admin"}
Ways    == {<<>>, BootRoute} \cup UNION {{Routes[v][n] : n \in DOMAIN Routes[v]} : v \in DOMAIN Routes}
Secrets == {"lost"} \cup {BootRoute[i].on : i \in DOMAIN BootRoute}
           \cup UNION {UNION {{Routes[v][n][i].on : i \in DOMAIN Routes[v][n]} : n \in DOMAIN Routes[v]} : v \in DOMAIN Routes}

Calls == [via : Vias, route : Ways, todo : SUBSET Nat, ok : BOOLEAN,
          held : SUBSET Secrets, changed : SUBSET {"store", "freeze"}, recorded : SUBSET {"written", "failed"},
          asleep : BOOLEAN, degraded : BOOLEAN, unrecorded : SUBSET Vias]

\* A request, or the automatic unseal, that follows a route.
Follows(via, route) ==
    \/ via = "boot" /\ route = BootRoute
    \/ via \in DOMAIN Routes /\ \E n \in DOMAIN Routes[via] : route = Routes[via][n]
Known(c) == Follows(c.via, Route(c))

\* A request that has not failed and comes to step i, with `given_up` the servers that
\* the shutdown has given up: it holds what the route holds there; if the vault or the
\* database has refused it all the time it has passed no check of that; and a record is
\* missing only if there was no step for it yet.
GoesOn(c, i, given_up) ==
    /\ c \in Calls /\ Known(c) /\ c.ok /\ c.unrecorded = {}
    /\ i \in 1 .. Len(Route(c)) + 1
    /\ c.todo = i .. Len(Route(c))
    /\ c.held = HeldAt(Route(c), i)
    /\ "store" \in c.changed => \E j \in 1 .. i - 1 : Writes(Route(c)[j])
    /\ c.changed # {} => \E j \in 1 .. i - 1 : Changes(Route(c)[j])
    /\ c.asleep => c.via # "boot" /\ \A j \in 1 .. i - 1 : ~SealGate(Route(c)[j])
    /\ c.degraded => c.via = "grpc" /\ \A j \in 1 .. i - 1 : ~HealthGate(Route(c)[j])
    /\ c.recorded = {} /\ c.via \notin given_up => \A j \in 1 .. i - 1 : Route(c)[j].do # "record"

\* A request that has failed: what it holds and what it owes is among what remains.
CleansUp(c, given_up) ==
    /\ c \in Calls /\ Known(c) /\ ~c.ok /\ c.unrecorded = {}
    /\ \A i \in c.todo : i \in DOMAIN Route(c) /\ Route(c)[i].do \in Cleanup
    /\ \A secret \in c.held \ Uncleared :
           \E i \in c.todo : Route(c)[i].do \in {"wipe", "undo"} /\ Route(c)[i].on = secret
    /\ c.asleep => c.held \subseteq Sent /\ "store" \notin c.changed
    /\ c.degraded => "store" \notin c.changed
    /\ c.changed # {} /\ c.recorded = {} /\ c.via \notin given_up =>
           \E i \in c.todo : Route(c)[i].do = "record"

\* A request that has returned with nothing left in a buffer, and with its record given
\* to the log unless its server was given up.
HasReturned(c, given_up) ==
    /\ c \in Calls /\ c.via = "none" /\ c.todo = {} /\ c.held \subseteq Uncleared /\ c.unrecorded \subseteq given_up
    /\ c.changed = {} /\ ~c.asleep /\ ~c.degraded

Good(c, given_up) ==
    \/ HasReturned(c, given_up)
    \/ c.todo # {} /\ ((\E i \in Nat : GoesOn(c, i, given_up)) \/ CleansUp(c, given_up))

\* A request in the middle of its local steps.
Pending(c, given_up) == (\E i \in Nat : GoesOn(c, i, given_up)) \/ CleansUp(c, given_up)

\* A request that is under way when its server has been drained has been given up; none
\* that began while the vault was asleep, or the database unhealthy, has seen it
\* otherwise since.
Timely(c, m, h, stage, given_up) ==
    /\ c.asleep => m # "unsealed"
    /\ c.degraded => ~h
    /\ \A i \in DOMAIN Order : c.via = Order[i] /\ stage > i => Order[i] \in given_up

\* While the process unseals its vault by itself, nothing else is under way.
BootsAlone ==
    \A r \in Requests :
        /\ call[r].via = "boot" => closing = Booting /\ \A q \in Requests : call[q].via = "boot" => q = r
        /\ closing = Booting => ~call[r].asleep

\* What every step keeps.
ServerInv ==
    /\ call \in [Requests -> Calls]
    /\ closing \in Int
    /\ BootsAlone
    /\ \A r \in Requests :
        Good(call[r], abandoned) /\ Timely(call[r], mode, healthy, closing, abandoned)
----------------------------------------------------------------------------
(* The routes *)

\* What RoutesAssumption says of the route of a request.
LEMMA RouteFacts ==
    ASSUME NEW c, Known(c)
    PROVE  /\ Route(c) \in Steps /\ WipesAll(Route(c)) /\ RecordsAll(Route(c))
           /\ c.via # "boot" => AsksSeal(Route(c))
           /\ c.via = "grpc" => AsksHealth(Route(c))
           /\ c.via = "boot" => \A i \in DOMAIN Route(c) : Route(c)[i].do # "record"
           /\ c.via \in {"boot", "http", "grpc", "mcp", "admin"}
           /\ \A i \in DOMAIN Route(c) : Route(c)[i].on \in Secrets
           /\ \A i \in DOMAIN Route(c) :
                /\ Route(c)[i].do \in {"unseal", "start"} => c.via = "boot"
                /\ Route(c)[i].do = "start" => i = Len(Route(c))
<1>1. CASE c.via = "boot"
  <2>1. Route(c) = BootRoute
    BY <1>1, RoutesAssumption DEF Known, Follows
  <2>2. RecordsAll(BootRoute)
    BY RoutesAssumption DEF RecordsAll, Steps
  <2>3. \A i \in DOMAIN BootRoute : BootRoute[i].on \in Secrets
    BY DEF Secrets
  <2> QED BY <1>1, <2>1, <2>2, <2>3, RoutesAssumption
<1>2. CASE c.via # "boot"
  <2>1. PICK n \in DOMAIN Routes[c.via] : c.via \in DOMAIN Routes /\ Route(c) = Routes[c.via][n]
    BY <1>2, Zenon DEF Known, Follows
  <2>2. \A i \in DOMAIN Route(c) : Route(c)[i].on \in Secrets
    BY <2>1 DEF Secrets
  <2> QED BY <1>2, <2>1, <2>2, RoutesAssumption
<1> QED BY <1>1, <1>2

\* Positions of a route.
LEMMA StepFacts ==
    ASSUME NEW route \in Steps
    PROVE  Len(route) \in Nat /\ DOMAIN route = 1 .. Len(route)
BY DEF Steps

\* The secrets in memory after some steps and then some more.
LEMMA HeldAfterMore ==
    ASSUME NEW route \in Steps, NEW i \in 1 .. Len(route) + 1, NEW k \in i .. Len(route) + 1,
           \A j \in DOMAIN route : route[j].on # "lost"
    PROVE  HeldAt(route, k) = HeldAfter(route, i .. k - 1, TRUE, HeldAt(route, i))
<1>1. Len(route) \in Nat /\ DOMAIN route = 1 .. Len(route)
  BY StepFacts
<1> QED BY <1>1, SMTT(30) DEF HeldAt, HeldAfter

\* A step that neither makes nor clears a secret, and one that clears one, in a request
\* that has not failed.
LEMMA HeldAtNext ==
    ASSUME NEW route \in Steps, NEW i \in DOMAIN route, \A j \in DOMAIN route : route[j].on # "lost"
    PROVE  /\ route[i].do \notin {"new", "wipe", "lose", "unseal"} => HeldAt(route, i + 1) = HeldAt(route, i)
           /\ route[i].do = "unseal" => HeldAt(route, i + 1) = HeldAt(route, i) \ {route[i].on}
<1>1. Len(route) \in Nat /\ DOMAIN route = 1 .. Len(route)
  BY StepFacts
<1>2. HeldAt(route, i + 1) = HeldAfter(route, i .. (i + 1) - 1, TRUE, HeldAt(route, i))
  <2> DEFINE k == i + 1
  <2>1. i \in 1 .. Len(route) + 1 /\ k \in i .. Len(route) + 1
    BY <1>1
  <2> HIDE DEF k
  <2>2. HeldAt(route, k) = HeldAfter(route, i .. k - 1, TRUE, HeldAt(route, i))
    BY <2>1, HeldAfterMore, Zenon
  <2> QED BY <2>2, Zenon DEF k
<1>3. i .. (i + 1) - 1 = {i}
  BY <1>1
<1>4. ASSUME NEW H
      PROVE  /\ route[i].do \notin {"new", "wipe", "lose", "unseal"} => HeldAfter(route, {i}, TRUE, H) = H
             /\ route[i].do = "unseal" => HeldAfter(route, {i}, TRUE, H) = H \ {route[i].on}
  <2> DEFINE Clears(x) == /\ route[i].on = x
                          /\ route[i].do \in {"wipe", "lose", "unseal"} \/ (route[i].do = "undo" /\ ~TRUE)
  <2>1. ~(i > i) /\ i > 0
    BY <1>1
  <2>2. ASSUME NEW x
        PROVE  x \in HeldAfter(route, {i}, TRUE, H) <=>
                 \/ x \in H /\ ~Clears(x)
                 \/ route[i].do = "new" /\ x = route[i].on
                 \/ route[i].do = "lose" /\ x = "lost"
    BY <2>1 DEF HeldAfter
  <2> QED BY <2>2, Zenon
<1> QED BY <1>2, <1>3, <1>4, Zenon

\* A set of positions has a least one, which Least yields.
LEMMA LeastExists ==
    ASSUME NEW S \in SUBSET Nat, S # {}
    PROVE  Least(S) \in S /\ \A x \in S : Least(S) <= x
<1> DEFINE R == OpToRel(<, Nat)
<1>1. \E x \in S : \A y \in S : ~ (<<y, x>> \in R)
  <2>1. IsWellFoundedOn(R, Nat)
    BY NatLessThanWellFounded, Zenon
  <2> HIDE DEF R
  <2> QED BY <2>1, WFMin, Zenon
<1>2. \A x, y \in Nat : y < x => <<y, x>> \in R
  BY DEF OpToRel
<1> HIDE DEF R
<1>3. PICK x \in S : \A y \in S : ~ (<<y, x>> \in R)
  BY <1>1
<1>4. ASSUME NEW y \in S PROVE x <= y
  <2>1. x \in Nat /\ y \in Nat /\ ~(y < x)
    BY <1>2, <1>3, Zenon
  <2> QED BY <2>1
<1>5. \A z \in S : S \cap (0 .. z - 1) = {} <=> \A y \in S : z <= y
  OBVIOUS
<1>6. \E z \in S : S \cap (0 .. z - 1) = {}
  BY <1>4, <1>5
<1>7. Least(S) \in S /\ S \cap (0 .. Least(S) - 1) = {}
  BY <1>6, Zenon DEF Least
<1> QED BY <1>5, <1>7, Zenon

----------------------------------------------------------------------------
(* The fields of a request *)

\* Whether a request follows a route of its front end depends on these two alone.
LEMMA SameRoute ==
    ASSUME NEW c, NEW d, d.via = c.via, d.route = c.route
    PROVE  Route(d) = Route(c) /\ (Known(c) => Known(d))
BY DEF Route, Known

\* The fields of a request after its local steps up to step i.
LEMMA UptoIs ==
    ASSUME NEW c \in Calls, Known(c), \A j \in c.todo : j \in DOMAIN Route(c), NEW i \in Nat
    PROVE  LET d == Upto(c, i) IN
           /\ d \in Calls /\ Known(d) /\ Route(d) = Route(c)
           /\ d.todo = {j \in c.todo : j >= i}
           /\ d.held = HeldAfter(Route(c), {j \in c.todo : j < i}, c.ok, c.held)
           /\ d.via = c.via /\ d.route = c.route /\ d.ok = c.ok /\ d.changed = c.changed
           /\ d.recorded = c.recorded /\ d.asleep = c.asleep /\ d.degraded = c.degraded
           /\ d.unrecorded = c.unrecorded
<1> DEFINE T == {j \in c.todo : j >= i}
           H == HeldAfter(Route(c), {j \in c.todo : j < i}, c.ok, c.held)
           d == [c EXCEPT !.todo = T, !.held = H]
<1>1. Upto(c, i) = d
  BY DEF Upto
<1>2. T \in SUBSET Nat /\ H \in SUBSET Secrets
  <2>1. \A j \in c.todo : Route(c)[j].on \in Secrets
    BY RouteFacts
  <2>2. ASSUME NEW x \in H PROVE x \in c.held \/ x = "lost" \/ \E j \in c.todo : x = Route(c)[j].on
    BY <2>2 DEF HeldAfter
  <2>3. "lost" \in Secrets /\ c.held \in SUBSET Secrets /\ c.todo \in SUBSET Nat
    BY DEF Calls, Secrets
  <2> HIDE DEF H
  <2> QED BY <2>1, <2>2, <2>3
<1> HIDE DEF T, H
<1>3. /\ d \in Calls /\ d.todo = T /\ d.held = H
      /\ d.via = c.via /\ d.route = c.route /\ d.ok = c.ok /\ d.changed = c.changed
      /\ d.recorded = c.recorded /\ d.asleep = c.asleep /\ d.degraded = c.degraded
      /\ d.unrecorded = c.unrecorded
  BY <1>2, Zenon DEF Calls
<1> HIDE DEF d
<1>4. Route(d) = Route(c) /\ Known(d)
  BY <1>3, SameRoute
<1> QED BY <1>1, <1>3, <1>4 DEF T, H

\* The fields of a request whose current step fails.
LEMMA FailedIs ==
    ASSUME NEW c \in Calls, Known(c)
    PROVE  LET d == Failed(c) IN
           /\ d \in Calls /\ Known(d) /\ Route(d) = Route(c)
           /\ d.todo = c.todo \cap Remaining(Route(c), First(c))
           /\ ~d.ok /\ d.held = c.held
           /\ d.via = c.via /\ d.route = c.route /\ d.changed = c.changed
           /\ d.recorded = c.recorded /\ d.asleep = c.asleep /\ d.degraded = c.degraded
           /\ d.unrecorded = c.unrecorded
<1> DEFINE T == c.todo \cap Remaining(Route(c), First(c))
           d == [c EXCEPT !.ok = FALSE, !.todo = T]
<1>1. Failed(c) = d
  BY DEF Failed
<1>2. T \in SUBSET Nat
  BY DEF Calls
<1> HIDE DEF T
<1>3. /\ d \in Calls /\ d.todo = T /\ d.held = c.held /\ ~d.ok
      /\ d.via = c.via /\ d.route = c.route /\ d.changed = c.changed
      /\ d.recorded = c.recorded /\ d.asleep = c.asleep /\ d.degraded = c.degraded
      /\ d.unrecorded = c.unrecorded
  BY <1>2, Zenon DEF Calls
<1> HIDE DEF d
<1>4. Route(d) = Route(c) /\ Known(d)
  BY <1>3, SameRoute
<1> QED BY <1>1, <1>3, <1>4 DEF T

\* The fields of a request whose current step is done.
LEMMA DoneIs ==
    ASSUME NEW c \in Calls, Known(c)
    PROVE  LET d == Done(c) IN
           /\ d \in Calls /\ Known(d) /\ Route(d) = Route(c)
           /\ d.todo = c.todo \ {First(c)}
           /\ d.ok = c.ok /\ d.held = c.held
           /\ d.via = c.via /\ d.route = c.route /\ d.changed = c.changed
           /\ d.recorded = c.recorded /\ d.asleep = c.asleep /\ d.degraded = c.degraded
           /\ d.unrecorded = c.unrecorded
<1> DEFINE T == c.todo \ {First(c)}
           d == [c EXCEPT !.todo = T]
<1>1. Done(c) = d
  BY DEF Done
<1>2. T \in SUBSET Nat
  BY DEF Calls
<1> HIDE DEF T
<1>3. /\ d \in Calls /\ d.todo = T /\ d.held = c.held /\ d.ok = c.ok
      /\ d.via = c.via /\ d.route = c.route /\ d.changed = c.changed
      /\ d.recorded = c.recorded /\ d.asleep = c.asleep /\ d.degraded = c.degraded
      /\ d.unrecorded = c.unrecorded
  BY <1>2 DEF Calls
<1> HIDE DEF d
<1>4. Route(d) = Route(c) /\ Known(d)
  BY <1>3, SameRoute
<1> QED BY <1>1, <1>3, <1>4 DEF T

\* The fields of what stays of a request that has returned.
LEMMA ReturnsIs ==
    ASSUME NEW c \in Calls
    PROVE  LET d == Returns(c) IN
           /\ d \in Calls /\ d.via = "none" /\ d.todo = {} /\ d.held = c.held
           /\ d.unrecorded = IF c.changed # {} /\ c.recorded = {} THEN {c.via} ELSE {}
           /\ d.changed = {} /\ ~d.asleep /\ ~d.degraded
<1> DEFINE U == IF c.changed # {} /\ c.recorded = {} THEN {c.via} ELSE {}
           H == c.held
           d == [NoCall EXCEPT !.held = H, !.unrecorded = U]
<1>1. Returns(c) = d
  BY DEF Returns
<1>2. U \in SUBSET Vias /\ H \in SUBSET Secrets
  BY DEF Calls
<1> HIDE DEF U, H
<1>3. NoCall \in Calls /\ NoCall.via = "none" /\ NoCall.todo = {} /\ NoCall.changed = {} /\ ~NoCall.asleep /\ ~NoCall.degraded
  BY Zenon DEF NoCall, Calls, Vias, Ways
<1>4. /\ d \in Calls /\ d.held = H /\ d.unrecorded = U
      /\ d.via = NoCall.via /\ d.todo = NoCall.todo /\ d.changed = NoCall.changed
      /\ d.asleep = NoCall.asleep /\ d.degraded = NoCall.degraded
  BY <1>2, <1>3, Zenon DEF Calls
<1> HIDE DEF d
<1> QED BY <1>1, <1>3, <1>4 DEF U, H

----------------------------------------------------------------------------
(* What a request does by itself *)

\* A request that goes on through local steps holds what the route holds there.
LEMMA GoesOnUpto ==
    ASSUME NEW c, NEW g, NEW i, GoesOn(c, i, g), NEW k \in i .. Len(Route(c)) + 1,
           \A j \in i .. k - 1 : Local(Route(c)[j])
    PROVE  GoesOn(Upto(c, k), k, g)
<1> DEFINE s == Route(c)
           d == Upto(c, k)
<1>1. s \in Steps /\ Len(s) \in Nat /\ DOMAIN s = 1 .. Len(s) /\ \A j \in DOMAIN s : s[j].on # "lost"
  BY RouteFacts, StepFacts DEF GoesOn, WipesAll
<1>2. i \in 1 .. Len(s) + 1 /\ k \in Nat /\ k \in 1 .. Len(s) + 1 /\ c.todo = i .. Len(s)
  BY <1>1 DEF GoesOn
<1>3. c \in Calls /\ Known(c) /\ \A j \in c.todo : j \in DOMAIN s
  BY <1>1, <1>2 DEF GoesOn
<1>4. /\ d \in Calls /\ Known(d) /\ Route(d) = s
      /\ d.todo = {j \in c.todo : j >= k}
      /\ d.held = HeldAfter(s, {j \in c.todo : j < k}, c.ok, c.held)
      /\ d.via = c.via /\ d.ok = c.ok /\ d.changed = c.changed
      /\ d.recorded = c.recorded /\ d.asleep = c.asleep /\ d.degraded = c.degraded
      /\ d.unrecorded = c.unrecorded
  BY <1>2, <1>3, UptoIs, Zenon
<1>5. d.todo = k .. Len(s) /\ {j \in c.todo : j < k} = i .. k - 1
  BY <1>1, <1>2, <1>4
<1>6. c.ok = TRUE /\ c.held = HeldAt(s, i)
  BY <1>3 DEF GoesOn, Calls
<1>7. d.held = HeldAt(s, k)
  BY <1>1, <1>2, <1>4, <1>5, <1>6, HeldAfterMore, Zenon
<1>8. \A j \in 1 .. k - 1 : j \in 1 .. i - 1 \/ Local(s[j])
  BY <1>1, <1>2
<1>9. \A x : Local(x) => ~SealGate(x) /\ ~HealthGate(x) /\ x.do # "record"
  BY DEF Local, Undecided, SharedChecks, SealGate, HealthGate
<1>10. \A j \in 1 .. i - 1 : j \in 1 .. k - 1
  BY <1>1, <1>2
<1> HIDE DEF d, s
<1> QED BY <1>2, <1>4, <1>5, <1>6, <1>7, <1>8, <1>9, <1>10, Zenon DEF GoesOn, s, d

\* The next step of a request that goes on.
LEMMA GoesOnFirst ==
    ASSUME NEW c, NEW g, NEW i, GoesOn(c, i, g), c.todo # {}
    PROVE  i \in DOMAIN Route(c) /\ First(c) = i
<1>1. Len(Route(c)) \in Nat /\ DOMAIN Route(c) = 1 .. Len(Route(c))
  BY RouteFacts, StepFacts DEF GoesOn
<1>2. i \in Nat /\ i >= 1 /\ c.todo = i .. Len(Route(c))
  BY <1>1 DEF GoesOn
<1>3. i \in c.todo /\ c.todo \in SUBSET Nat
  BY <1>1, <1>2
<1>4. Least(c.todo) \in c.todo /\ Least(c.todo) <= i
  BY <1>3, LeastExists
<1> QED BY <1>1, <1>2, <1>3, <1>4 DEF First

\* A step that fails, possibly after it has written, leaves the cleanup that the request
\* needs.
LEMMA FailsCleanly ==
    ASSUME NEW c, NEW g, NEW i, GoesOn(c, i, g), c.todo # {}, Fallible(Route(c)[i]),
           NEW d \in Calls, d.via = c.via, d.route = c.route, d.todo = c.todo, d.ok = c.ok, d.held = c.held,
           d.recorded = c.recorded, d.asleep = c.asleep, d.degraded = c.degraded, d.unrecorded = c.unrecorded,
           d.changed # c.changed => Writes(Route(c)[i])
    PROVE  CleansUp(Failed(d), g)
<1> DEFINE s == Route(c)
           f == Failed(d)
<1>1. /\ s \in Steps /\ WipesAll(s) /\ RecordsAll(s) /\ (c.via # "boot" => AsksSeal(s))
      /\ c.via = "grpc" => AsksHealth(s)
  BY RouteFacts DEF GoesOn
<1>2. Len(s) \in Nat /\ DOMAIN s = 1 .. Len(s)
  BY <1>1, StepFacts
<1>3. i \in DOMAIN s /\ First(c) = i
  BY GoesOnFirst
<1>4. First(d) = i /\ Known(d) /\ Route(d) = s
  BY <1>3, SameRoute DEF First, GoesOn
<1>5. /\ f \in Calls /\ Known(f) /\ Route(f) = s /\ ~f.ok
      /\ f.todo = c.todo \cap Remaining(s, i) /\ f.held = c.held
      /\ f.via = c.via /\ f.changed = d.changed /\ f.recorded = c.recorded
      /\ f.asleep = c.asleep /\ f.degraded = c.degraded /\ f.unrecorded = c.unrecorded
  BY <1>4, FailedIs
<1>6. f.todo = Remaining(s, i) /\ \A j \in Remaining(s, i) : j \in DOMAIN s /\ s[j].do \in Cleanup
  <2>1. \A j \in Remaining(s, i) : j \in i + 1 .. Len(s) /\ s[j].do \in Cleanup
    BY DEF Remaining
  <2> QED BY <1>2, <1>3, <1>5, <2>1 DEF GoesOn
<1>7. f.unrecorded = {} /\ f.held = HeldAt(s, i)
  BY <1>5 DEF GoesOn
<1> HIDE DEF f, s
<1>8. \A x \in f.held \ Uncleared : \E j \in f.todo : s[j].do \in {"wipe", "undo"} /\ s[j].on = x
  BY <1>1, <1>3, <1>6, <1>7 DEF WipesAll, s
<1>9. f.asleep => f.held \subseteq Sent /\ "store" \notin f.changed
  <2> SUFFICES ASSUME c.asleep PROVE f.held \subseteq Sent /\ "store" \notin f.changed
    BY <1>5
  <2>1. AsksSeal(s) /\ \A j \in 1 .. i - 1 : ~SealGate(s[j])
    BY <1>1 DEF GoesOn, s
  <2>2. HeldAt(s, i) \subseteq Sent /\ ~Writes(s[i])
    BY <1>3, <2>1 DEF AsksSeal
  <2>3. ASSUME NEW j \in 1 .. i - 1 PROVE ~Writes(s[j])
    <3>1. j \in DOMAIN s /\ \A k \in 1 .. j - 1 : k \in 1 .. i - 1
      BY <1>2, <1>3
    <3> QED BY <2>1, <3>1 DEF AsksSeal
  <2>4. "store" \notin c.changed
    BY <2>3 DEF GoesOn, s
  <2> QED BY <1>5, <1>7, <2>2, <2>4 DEF s
<1>10. f.degraded => "store" \notin f.changed
  <2> SUFFICES ASSUME c.degraded PROVE "store" \notin f.changed
    BY <1>5
  <2>1. AsksHealth(s) /\ \A j \in 1 .. i - 1 : ~HealthGate(s[j])
    BY <1>1 DEF GoesOn, s
  <2>2. ~Writes(s[i])
    BY <1>3, <2>1 DEF AsksHealth
  <2>3. ASSUME NEW j \in 1 .. i - 1 PROVE ~Writes(s[j])
    <3>1. j \in DOMAIN s /\ \A k \in 1 .. j - 1 : k \in 1 .. i - 1
      BY <1>2, <1>3
    <3> QED BY <2>1, <3>1 DEF AsksHealth
  <2>4. "store" \notin c.changed
    BY <2>3 DEF GoesOn, s
  <2> QED BY <1>5, <2>2, <2>4 DEF s
<1>11. f.changed # {} /\ f.recorded = {} /\ f.via \notin g => \E j \in f.todo : s[j].do = "record"
  <2> SUFFICES ASSUME d.changed # {}, c.recorded = {}, c.via \notin g
               PROVE  \E j \in f.todo : s[j].do = "record"
    BY <1>5
  <2>1. \A j \in 1 .. i - 1 : s[j].do # "record"
    BY DEF GoesOn, s
  <2>2. \E j \in 1 .. i : Changes(s[j])
    <3>1. CASE d.changed # c.changed
      BY <1>2, <1>3, <3>1 DEF Changes, s
    <3>2. CASE d.changed = c.changed
      <4>1. \E j \in 1 .. i - 1 : Changes(s[j])
        BY <3>2 DEF GoesOn, s
      <4> QED BY <1>2, <1>3, <4>1
    <3> QED BY <3>1, <3>2
  <2> QED BY <1>1, <1>3, <1>6, <2>1, <2>2 DEF RecordsAll, s
<1> QED BY <1>5, <1>6, <1>7, <1>8, <1>9, <1>10, <1>11 DEF CleansUp, f

\* A request that cleans up comes to a step that others can see, or returns with nothing
\* left to do.
LEMMA CleansUpRest ==
    ASSUME NEW c, NEW g, CleansUp(c, g)
    PROVE  Good(Rest(c), g)
<1> DEFINE s == Route(c)
<1>1. s \in Steps /\ Len(s) \in Nat /\ DOMAIN s = 1 .. Len(s)
  BY RouteFacts, StepFacts DEF CleansUp
<1>2. c \in Calls /\ Known(c) /\ c.ok = FALSE /\ \A j \in c.todo : j \in DOMAIN s /\ s[j].do \in Cleanup
  BY DEF CleansUp, Calls
<1>3. ASSUME NEW k \in Nat, \A j \in Shared(c) : k <= j
      PROVE  LET d == Upto(c, k) IN
             /\ d.todo = {} => Good(Returns(d), g)
             /\ CleansUp(d, g)
  <2> DEFINE d == Upto(c, k)
  <2>1. /\ d \in Calls /\ Known(d) /\ Route(d) = s
        /\ d.todo = {j \in c.todo : j >= k}
        /\ d.held = HeldAfter(s, {j \in c.todo : j < k}, c.ok, c.held)
        /\ d.via = c.via /\ d.ok = c.ok /\ d.changed = c.changed
        /\ d.recorded = c.recorded /\ d.asleep = c.asleep /\ d.degraded = c.degraded
        /\ d.unrecorded = c.unrecorded
    BY <1>2, UptoIs, Zenon
  <2> HIDE DEF d
  <2>2. ASSUME NEW j \in c.todo, s[j].do = "record" PROVE j \in d.todo
    <3>1. j \in Shared(c)
      BY <2>2 DEF Shared, Local, Undecided
    <3> QED BY <1>1, <1>2, <1>3, <2>1, <3>1
  <2>3. ASSUME NEW x \in d.held
        PROVE  x \in c.held /\ \A j \in c.todo : j < k => ~(s[j].do \in {"wipe", "undo"} /\ s[j].on = x)
    <3>1. \A j \in c.todo : s[j].do \notin {"new", "lose"} /\ j > 0
      BY <1>1, <1>2 DEF Cleanup
    <3> QED BY <1>2, <2>1, <2>3, <3>1 DEF HeldAfter
  <2>4. \A x \in d.held \ Uncleared : \E j \in d.todo : s[j].do \in {"wipe", "undo"} /\ s[j].on = x
    <3> SUFFICES ASSUME NEW x \in d.held \ Uncleared
                 PROVE  \E j \in d.todo : s[j].do \in {"wipe", "undo"} /\ s[j].on = x
      OBVIOUS
    <3>1. PICK j \in c.todo : s[j].do \in {"wipe", "undo"} /\ s[j].on = x
      BY <2>3 DEF CleansUp
    <3>2. ~(j < k) /\ j \in Nat
      BY <1>1, <1>2, <2>3, <3>1
    <3> QED BY <2>1, <3>1, <3>2
  <2>5. CleansUp(d, g)
    <3>1. d.asleep => d.held \subseteq Sent /\ "store" \notin d.changed
      BY <2>1, <2>3 DEF CleansUp
    <3>2. d.changed # {} /\ d.recorded = {} /\ d.via \notin g => \E j \in d.todo : s[j].do = "record"
      BY <2>1, <2>2 DEF CleansUp
    <3> QED BY <1>2, <2>1, <2>4, <3>1, <3>2 DEF CleansUp
  <2>6. ASSUME d.todo = {} PROVE Good(Returns(d), g)
    <3>1. d.held \subseteq Uncleared /\ (d.changed # {} /\ d.recorded = {} => d.via \in g)
      BY <2>4, <2>5, <2>6 DEF CleansUp
    <3> QED BY <2>1, <3>1, ReturnsIs, ZenonT(30) DEF Good, HasReturned
  <2> QED BY <2>5, <2>6 DEF d
<1>4. CASE Shared(c) = {}
  <2> DEFINE k == Len(s) + 1
  <2>1. k \in Nat /\ \A j \in Shared(c) : k <= j
    BY <1>1, <1>4
  <2>2. \A j \in DOMAIN s : ~(j >= k)
    BY <1>1
  <2> HIDE DEF k
  <2>3. Upto(c, k).todo = {j \in c.todo : j >= k}
    BY <1>2, <2>1, UptoIs, Zenon
  <2>4. Upto(c, k).todo = {}
    BY <1>2, <2>2, <2>3
  <2> QED BY <1>3, <1>4, <2>1, <2>4 DEF Rest, k
<1>5. CASE Shared(c) # {}
  <2> DEFINE k == Least(Shared(c))
  <2>1. Shared(c) \in SUBSET Nat /\ \A j \in Shared(c) : j \in c.todo
    BY <1>1, <1>2 DEF Shared
  <2>2. k \in Shared(c) /\ k \in Nat /\ \A j \in Shared(c) : k <= j
    BY <1>5, <2>1, LeastExists
  <2> HIDE DEF k
  <2>3. Upto(c, k).todo = {j \in c.todo : j >= k}
    BY <1>2, <2>2, UptoIs, Zenon
  <2>4. k \in Upto(c, k).todo
    BY <2>1, <2>2, <2>3
  <2> QED BY <1>3, <1>5, <2>2, <2>4 DEF Rest, Good, k
<1> QED BY <1>4, <1>5

\* A request that goes on comes to a step that others can see, or returns at the end of
\* its route.
LEMMA GoesOnRest ==
    ASSUME NEW c, NEW g, NEW i, GoesOn(c, i, g)
    PROVE  Good(Rest(c), g)
<1> DEFINE s == Route(c)
<1>1. s \in Steps /\ Len(s) \in Nat /\ DOMAIN s = 1 .. Len(s) /\ WipesAll(s) /\ RecordsAll(s)
  BY RouteFacts, StepFacts DEF GoesOn
<1>2. i \in Nat /\ i \in 1 .. Len(s) + 1 /\ c.todo = i .. Len(s)
  BY <1>1 DEF GoesOn
<1>3. \A j \in i .. Len(s) : j \in Shared(c) \/ Local(s[j])
  BY <1>2 DEF Shared
<1>4. CASE Shared(c) = {}
  <2> DEFINE k == Len(s) + 1
             d == Upto(c, k)
  <2>1. k \in i .. Len(s) + 1 /\ k - 1 = Len(s)
    BY <1>1, <1>2
  <2> HIDE DEF k
  <2>2. GoesOn(d, k, g)
    BY <1>3, <1>4, <2>1, GoesOnUpto
  <2>3. Route(d) = s
    <3>1. \A j \in c.todo : j \in DOMAIN s
      BY <1>1, <1>2
    <3>2. k \in Nat
      BY <1>1, <1>2, <2>1
    <3> QED BY <3>1, <3>2, UptoIs, Zenon DEF GoesOn
  <2> HIDE DEF d
  <2>4. d \in Calls /\ d.held = HeldAt(s, k) /\ HeldAt(s, k) \subseteq Uncleared
    BY <1>1, <2>2, <2>3 DEF GoesOn, WipesAll, k
  <2>5. d.changed # {} /\ d.recorded = {} => d.via \in g
    <3> SUFFICES ASSUME d.changed # {}, d.recorded = {}, d.via \notin g PROVE FALSE
      OBVIOUS
    <3>1. (\E j \in 1 .. k - 1 : Changes(s[j])) /\ \A j \in 1 .. k - 1 : s[j].do # "record"
      BY <2>2, <2>3 DEF GoesOn
    <3> QED BY <1>1, <2>1, <3>1 DEF RecordsAll
  <2>6. Good(Returns(d), g)
    BY <2>4, <2>5, ReturnsIs, ZenonT(30) DEF Good, HasReturned
  <2> QED BY <1>4, <2>6 DEF Rest, d, k
<1>5. CASE Shared(c) # {}
  <2> DEFINE k == Least(Shared(c))
  <2>1. Shared(c) \in SUBSET Nat /\ \A j \in Shared(c) : j \in i .. Len(s)
    BY <1>1, <1>2 DEF Shared
  <2>2. k \in Shared(c) /\ \A j \in Shared(c) : k <= j
    BY <1>5, <2>1, LeastExists
  <2> HIDE DEF k
  <2>3. k \in Nat /\ k \in i .. Len(s) + 1 /\ k \in i .. Len(s)
    BY <1>1, <1>2, <2>1, <2>2
  <2>4. \A j \in i .. k - 1 : Local(s[j])
    BY <1>1, <1>2, <1>3, <2>2, <2>3
  <2>5. GoesOn(Upto(c, k), k, g)
    BY <2>3, <2>4, GoesOnUpto
  <2>6. Upto(c, k).todo # {}
    <3>1. \A j \in c.todo : j \in DOMAIN s
      BY <1>1, <1>2
    <3>2. Upto(c, k).todo = {j \in c.todo : j >= k}
      BY <2>3, <3>1, UptoIs, Zenon DEF GoesOn
    <3> QED BY <1>2, <2>3, <3>2
  <2> QED BY <1>5, <2>3, <2>5, <2>6 DEF Rest, Good, k
<1> QED BY <1>4, <1>5

\* Whichever local step fails on the way, a request comes to a good state.
LEMMA SettleIsGood ==
    ASSUME NEW c, NEW g, (\E i \in Nat : GoesOn(c, i, g)) \/ CleansUp(c, g), NEW d \in Settle(c)
    PROVE  Good(d, g)
<1> DEFINE s == Route(c)
           failing == {j \in c.todo : Undecided(s[j]) /\ \A k \in Shared(c) : j < k}
<1>1. CASE d = Rest(c)
  BY <1>1, GoesOnRest, CleansUpRest
<1>2. ASSUME NEW j \in failing, d = Rest(Failed(Upto(c, j))) PROVE Good(d, g)
  <2>1. ~CleansUp(c, g)
    BY <1>2 DEF CleansUp, Cleanup, Undecided
  <2>2. PICK i \in Nat : GoesOn(c, i, g)
    BY <2>1
  <2>3. s \in Steps /\ Len(s) \in Nat /\ DOMAIN s = 1 .. Len(s)
    BY <2>2, RouteFacts, StepFacts, ZenonT(30) DEF GoesOn
  <2>4. j \in i .. Len(s) /\ i \in 1 .. Len(s) + 1 /\ c.todo = i .. Len(s)
    BY <2>2 DEF GoesOn
  <2>5. j \in Nat /\ j \in i .. Len(s) + 1 /\ \A k \in i .. j - 1 : k \in c.todo /\ k \in i .. Len(s)
    BY <2>3, <2>4
  <2>6. \A k \in i .. j - 1 : Local(s[k])
    BY <1>2, <2>3, <2>4, <2>5 DEF Shared
  <2> DEFINE e == Upto(c, j)
  <2>7. GoesOn(e, j, g)
    BY <2>2, <2>5, <2>6, GoesOnUpto
  <2>8. Route(e) = s /\ e.todo # {}
    <3>1. \A k \in c.todo : k \in DOMAIN s
      BY <2>3, <2>4
    <3>2. Route(e) = s /\ e.todo = {k \in c.todo : k >= j}
      BY <2>2, <2>5, <3>1, UptoIs, Zenon DEF GoesOn
    <3> QED BY <2>4, <2>5, <3>2
  <2> HIDE DEF e
  <2>9. Fallible(Route(e)[j])
    BY <1>2, <2>8, Zenon DEF Undecided, Fallible
  <2>10. CleansUp(Failed(e), g)
    <3>1. e \in Calls
      BY <2>7, Zenon DEF GoesOn
    <3> QED BY <2>7, <2>8, <2>9, <3>1, FailsCleanly, Zenon
  <2> QED BY <1>2, <2>10, CleansUpRest DEF e
<1> QED BY <1>1, <1>2 DEF Settle

\* Local steps change neither the front end of a request nor what it knows of the seal
\* and the database.
LEMMA SettleKeeps ==
    ASSUME NEW c, NEW g, (\E i \in Nat : GoesOn(c, i, g)) \/ CleansUp(c, g), NEW d \in Settle(c)
    PROVE  /\ d.via \in {c.via, "none"}
           /\ d.asleep => c.asleep
           /\ d.degraded => c.degraded
<1>1. c \in Calls /\ Known(c) /\ \A j \in c.todo : j \in DOMAIN Route(c)
  <2>1. ASSUME NEW i \in Nat, GoesOn(c, i, g) PROVE \A j \in c.todo : j \in DOMAIN Route(c)
    <3>1. Len(Route(c)) \in Nat /\ DOMAIN Route(c) = 1 .. Len(Route(c))
      BY <2>1, RouteFacts, StepFacts, Zenon DEF GoesOn
    <3> QED BY <2>1, <3>1 DEF GoesOn
  <2> QED BY <2>1 DEF GoesOn, CleansUp
<1>2. ASSUME NEW e \in Calls, Known(e), \A j \in e.todo : j \in DOMAIN Route(e)
      PROVE  /\ Rest(e).via \in {e.via, "none"}
             /\ Rest(e).asleep => e.asleep
             /\ Rest(e).degraded => e.degraded
  <2>0. Len(Route(e)) + 1 \in Nat
    BY <1>2, RouteFacts, StepFacts
  <2>1. ASSUME NEW k \in Nat
        PROVE  /\ Upto(e, k) \in Calls /\ Upto(e, k).via = e.via
               /\ Upto(e, k).asleep = e.asleep /\ Upto(e, k).degraded = e.degraded
    BY <1>2, UptoIs, Zenon
  <2>2. CASE Shared(e) = {}
    BY <2>0, <2>1, <2>2, ReturnsIs, Zenon DEF Rest
  <2>3. CASE Shared(e) # {}
    <3>1. Shared(e) \in SUBSET Nat
      BY DEF Shared, Calls
    <3>2. Least(Shared(e)) \in Nat
      BY <2>3, <3>1, LeastExists
    <3> QED BY <2>1, <2>3, <3>2 DEF Rest
  <2> QED BY <2>2, <2>3
<1>3. CASE d = Rest(c)
  BY <1>1, <1>2, <1>3
<1>4. ASSUME NEW j \in c.todo, d = Rest(Failed(Upto(c, j)))
      PROVE  d.via \in {c.via, "none"} /\ (d.asleep => c.asleep) /\ (d.degraded => c.degraded)
  <2> DEFINE e == Upto(c, j)
             f == Failed(e)
  <2>1. j \in Nat
    BY <1>1 DEF Calls
  <2>2. /\ e \in Calls /\ Known(e) /\ Route(e) = Route(c) /\ e.todo = {k \in c.todo : k >= j}
        /\ e.via = c.via /\ e.asleep = c.asleep /\ e.degraded = c.degraded
    BY <1>1, <2>1, UptoIs, Zenon
  <2> HIDE DEF e
  <2>3. /\ f \in Calls /\ Known(f) /\ Route(f) = Route(e) /\ f.todo = e.todo \cap Remaining(Route(e), First(e))
        /\ f.via = e.via /\ f.asleep = e.asleep /\ f.degraded = e.degraded
    BY <2>2, FailedIs
  <2> HIDE DEF f
  <2>4. \A k \in f.todo : k \in DOMAIN Route(f)
    BY <1>1, <2>2, <2>3
  <2> QED BY <1>2, <1>4, <2>2, <2>3, <2>4 DEF e, f
<1> QED BY <1>3, <1>4 DEF Settle

\* A step taken by a request that goes on.
LEMMA GoesOnDone ==
    ASSUME NEW c, NEW g, NEW i, GoesOn(c, i, g), c.todo # {},
           NEW d \in Calls, d.via = c.via, d.route = c.route, d.todo = c.todo, d.ok = c.ok,
           d.unrecorded = c.unrecorded,
           d.held = HeldAt(Route(c), i + 1),
           d.asleep => c.asleep /\ ~SealGate(Route(c)[i]),
           d.degraded => c.degraded /\ ~HealthGate(Route(c)[i]),
           "store" \in d.changed => "store" \in c.changed \/ Writes(Route(c)[i]),
           d.changed # {} => c.changed # {} \/ Changes(Route(c)[i]),
           d.recorded = {} /\ d.via \notin g => c.recorded = {} /\ Route(c)[i].do # "record"
    PROVE  GoesOn(Done(d), i + 1, g)
<1> DEFINE s == Route(c)
           e == Done(d)
<1>1. s \in Steps /\ Len(s) \in Nat /\ DOMAIN s = 1 .. Len(s)
  BY RouteFacts, StepFacts, ZenonT(30) DEF GoesOn
<1>2. i \in DOMAIN s /\ First(c) = i /\ c.todo = i .. Len(s)
  BY GoesOnFirst, Zenon DEF GoesOn
<1>3. First(d) = i /\ Known(d) /\ Route(d) = s
  BY <1>2, SameRoute DEF First, GoesOn
<1>4. /\ e \in Calls /\ Known(e) /\ Route(e) = s /\ e.ok = d.ok /\ e.held = d.held
      /\ e.todo = d.todo \ {i}
      /\ e.via = d.via /\ e.changed = d.changed /\ e.recorded = d.recorded
      /\ e.asleep = d.asleep /\ e.degraded = d.degraded /\ e.unrecorded = d.unrecorded
  BY <1>3, DoneIs
<1>5. e.todo = i + 1 .. Len(s) /\ i + 1 \in 1 .. Len(s) + 1
  <2>1. e.todo = (i .. Len(s)) \ {i}
    BY <1>2, <1>4
  <2>2. i \in Int /\ i \in 1 .. Len(s) /\ Len(s) \in Int
    BY <1>1, <1>2
  <2>3. (i .. Len(s)) \ {i} = i + 1 .. Len(s)
    BY <2>2
  <2>4. i + 1 \in 1 .. Len(s) + 1
    BY <2>2
  <2> QED BY <2>1, <2>3, <2>4, ZenonT(30)
<1>6. \A j \in 1 .. (i + 1) - 1 : j \in 1 .. i - 1 \/ j = i
  BY <1>1, <1>2
<1>7. i \in 1 .. (i + 1) - 1 /\ \A j \in 1 .. i - 1 : j \in 1 .. (i + 1) - 1
  BY <1>1, <1>2
<1> HIDE DEF e, s
<1>8. "store" \in e.changed => \E j \in 1 .. (i + 1) - 1 : Writes(s[j])
  BY <1>4, <1>7, ZenonT(30) DEF GoesOn, s
<1>9. e.changed # {} => \E j \in 1 .. (i + 1) - 1 : Changes(s[j])
  BY <1>4, <1>7 DEF GoesOn, s
<1>10. e.asleep => e.via # "boot" /\ \A j \in 1 .. (i + 1) - 1 : ~SealGate(s[j])
  BY <1>4, <1>6 DEF GoesOn, s
<1>11. e.degraded => e.via = "grpc" /\ \A j \in 1 .. (i + 1) - 1 : ~HealthGate(s[j])
  BY <1>4, <1>6 DEF GoesOn, s
<1>12. e.recorded = {} /\ e.via \notin g => \A j \in 1 .. (i + 1) - 1 : s[j].do # "record"
  BY <1>4, <1>6, ZenonT(30) DEF GoesOn, s
<1>13. e.ok /\ e.unrecorded = {} /\ e.held = HeldAt(s, i + 1)
  BY <1>4 DEF GoesOn, s
<1> QED BY <1>4, <1>5, <1>8, <1>9, <1>10, <1>11, <1>12, <1>13, Zenon DEF GoesOn, e

\* A step taken by a request that cleans up.
LEMMA CleansUpDone ==
    ASSUME NEW c, NEW g, CleansUp(c, g), c.todo # {}, Current(c).do \in {"leave", "record"},
           NEW d \in Calls, d.via = c.via, d.route = c.route, d.todo = c.todo, d.ok = c.ok, d.held = c.held,
           d.unrecorded = c.unrecorded, d.changed = c.changed, d.asleep = c.asleep, d.degraded = c.degraded,
           d.recorded = {} /\ d.via \notin g => c.recorded = {} /\ Current(c).do # "record"
    PROVE  CleansUp(Done(d), g)
<1> DEFINE s == Route(c)
           e == Done(d)
           i == First(c)
<1>1. Route(d) = s /\ Known(d) /\ First(d) = i /\ s[i].do \in {"leave", "record"} /\ s[i] = Current(c)
  BY SameRoute DEF First, CleansUp, Current
<1> HIDE DEF i
<1>2. /\ e \in Calls /\ Known(e) /\ Route(e) = s /\ e.ok = d.ok /\ e.held = d.held
      /\ e.todo = d.todo \ {i}
      /\ e.via = d.via /\ e.changed = d.changed /\ e.recorded = d.recorded
      /\ e.asleep = d.asleep /\ e.degraded = d.degraded /\ e.unrecorded = d.unrecorded
  BY <1>1, DoneIs
<1> HIDE DEF e, s
<1>3. \A x \in e.held \ Uncleared : \E j \in e.todo : Route(e)[j].do \in {"wipe", "undo"} /\ Route(e)[j].on = x
  BY <1>1, <1>2 DEF CleansUp, s
<1>4. e.changed # {} /\ e.recorded = {} /\ e.via \notin g => \E j \in e.todo : Route(e)[j].do = "record"
  BY <1>1, <1>2 DEF CleansUp, s
<1>5. \A j \in e.todo : j \in DOMAIN Route(e) /\ Route(e)[j].do \in Cleanup
  BY <1>2, Zenon DEF CleansUp, s
<1>6. ~e.ok /\ e.unrecorded = {}
  BY <1>2, Zenon DEF CleansUp
<1>7. /\ e.asleep => e.held \subseteq Sent /\ "store" \notin e.changed
      /\ e.degraded => "store" \notin e.changed
  BY <1>2, Zenon DEF CleansUp
<1>8. CleansUp(e, g)
  BY <1>2, <1>3, <1>4, <1>5, <1>6, <1>7, Zenon DEF CleansUp
<1> QED BY <1>8, Zenon DEF e

----------------------------------------------------------------------------
(* A step of one request *)

\* The fields of a request after an assignment to `changed` (a write or a freeze),
LEMMA ChangedIs ==
    ASSUME NEW c \in Calls, NEW what \in {"store", "freeze"}
    PROVE  LET d == Changed(c, what) IN
           /\ d \in Calls /\ d.changed = c.changed \cup {what}
           /\ d.via = c.via /\ d.route = c.route /\ d.todo = c.todo /\ d.ok = c.ok /\ d.held = c.held
           /\ d.recorded = c.recorded /\ d.asleep = c.asleep /\ d.degraded = c.degraded
           /\ d.unrecorded = c.unrecorded
BY DEF Changed, Calls

\* ... to `recorded` (Core.recordAudit),
LEMMA RecordedIs ==
    ASSUME NEW c \in Calls, NEW b \in SUBSET {"written", "failed"}
    PROVE  LET d == [c EXCEPT !.recorded = b] IN
           /\ d \in Calls /\ d.recorded = b
           /\ d.via = c.via /\ d.route = c.route /\ d.todo = c.todo /\ d.ok = c.ok /\ d.held = c.held
           /\ d.changed = c.changed /\ d.asleep = c.asleep /\ d.degraded = c.degraded
           /\ d.unrecorded = c.unrecorded
BY DEF Calls

\* ... to `held` (VaultState.DirectUnseal),
LEMMA HeldIs ==
    ASSUME NEW c \in Calls, NEW H \in SUBSET Secrets
    PROVE  LET d == [c EXCEPT !.held = H] IN
           /\ d \in Calls /\ d.held = H
           /\ d.via = c.via /\ d.route = c.route /\ d.todo = c.todo /\ d.ok = c.ok /\ d.recorded = c.recorded
           /\ d.changed = c.changed /\ d.asleep = c.asleep /\ d.degraded = c.degraded
           /\ d.unrecorded = c.unrecorded
BY DEF Calls

\* ... to `asleep` (ProvideShare has unsealed the vault),
LEMMA AsleepIs ==
    ASSUME NEW c \in Calls, NEW b \in BOOLEAN
    PROVE  LET d == [c EXCEPT !.asleep = b] IN
           /\ d \in Calls /\ d.asleep = b
           /\ d.via = c.via /\ d.route = c.route /\ d.todo = c.todo /\ d.ok = c.ok /\ d.held = c.held
           /\ d.changed = c.changed /\ d.recorded = c.recorded /\ d.degraded = c.degraded
           /\ d.unrecorded = c.unrecorded
BY DEF Calls

\* ... and to `degraded` (the ping of StartHealthCheck).
LEMMA DegradedIs ==
    ASSUME NEW c \in Calls, NEW b \in BOOLEAN
    PROVE  LET d == [c EXCEPT !.degraded = b] IN
           /\ d \in Calls /\ d.degraded = b
           /\ d.via = c.via /\ d.route = c.route /\ d.todo = c.todo /\ d.ok = c.ok /\ d.held = c.held
           /\ d.changed = c.changed /\ d.recorded = c.recorded /\ d.asleep = c.asleep
           /\ d.unrecorded = c.unrecorded
BY DEF Calls

\* A step that succeeds and touches no secret leads to a request that goes on or cleans
\* up.
LEMMA AdvancePending ==
    ASSUME NEW c, NEW g, Good(c, g), c.todo # {},
           Current(c).do \notin {"new", "wipe", "undo", "lose", "unseal"},
           c.asleep => ~SealGate(Current(c)), c.degraded => ~HealthGate(Current(c)),
           NEW d \in Calls, d.via = c.via, d.route = c.route, d.todo = c.todo, d.ok = c.ok, d.held = c.held,
           d.asleep = c.asleep, d.degraded = c.degraded, d.unrecorded = c.unrecorded,
           \/ d.changed = c.changed
           \/ Writes(Current(c))
           \/ Current(c).do = "freeze" /\ d.changed = c.changed \cup {"freeze"},
           d.recorded = {} /\ d.via \notin g => c.recorded = {} /\ Current(c).do # "record"
    PROVE  Pending(Done(d), g)
<1>1. ASSUME NEW i \in Nat, GoesOn(c, i, g) PROVE Pending(Done(d), g)
  <2> DEFINE s == Route(c)
  <2>1. i \in DOMAIN s /\ First(c) = i /\ Current(c) = s[i]
    BY <1>1, GoesOnFirst DEF Current
  <2>2. s \in Steps /\ \A j \in DOMAIN s : s[j].on # "lost"
    BY <1>1, RouteFacts, ZenonT(30) DEF GoesOn, WipesAll
  <2>3. HeldAt(s, i + 1) = HeldAt(s, i)
    BY <2>1, <2>2, HeldAtNext
  <2>4. /\ d.held = HeldAt(s, i + 1)
        /\ d.asleep => c.asleep /\ ~SealGate(s[i])
        /\ d.degraded => c.degraded /\ ~HealthGate(s[i])
        /\ d.recorded = {} /\ d.via \notin g => c.recorded = {} /\ s[i].do # "record"
    BY <1>1, <2>1, <2>3, Zenon DEF GoesOn
  <2>a. /\ "store" \in d.changed => "store" \in c.changed \/ Writes(s[i])
        /\ d.changed # {} => c.changed # {} \/ Changes(s[i])
    BY <2>1 DEF Changes
  <2>5. GoesOn(Done(d), i + 1, g)
    BY <1>1, <2>4, <2>a, GoesOnDone, ZenonT(30)
  <2>6. i + 1 \in Nat
    OBVIOUS
  <2> QED BY <2>5, <2>6, Zenon DEF Pending
<1>2. CASE CleansUp(c, g)
  <2>1. First(c) \in c.todo
    BY <1>2, LeastExists DEF First, CleansUp, Calls
  <2>2. Current(c).do \in {"leave", "record"}
    BY <1>2, <2>1 DEF CleansUp, Current, Cleanup
  <2>3. d.changed = c.changed
    BY <2>2 DEF Writes
  <2>4. CleansUp(Done(d), g)
    BY <1>2, <2>2, <2>3, CleansUpDone
  <2> QED BY <2>4 DEF Pending
<1> QED BY <1>1, <1>2 DEF Good, HasReturned

\* A step that fails leads to a request that cleans up.
LEMMA FailPending ==
    ASSUME NEW c, NEW g, Good(c, g), c.todo # {}, Fallible(Current(c)),
           NEW d \in Calls, d.via = c.via, d.route = c.route, d.todo = c.todo, d.ok = c.ok, d.held = c.held,
           d.recorded = c.recorded, d.asleep = c.asleep, d.degraded = c.degraded, d.unrecorded = c.unrecorded,
           d.changed # c.changed => Writes(Current(c))
    PROVE  Pending(Failed(d), g)
<1>1. ASSUME NEW i \in Nat, GoesOn(c, i, g) PROVE Pending(Failed(d), g)
  <2>1. Current(c) = Route(c)[i]
    BY <1>1, GoesOnFirst DEF Current
  <2>2. CleansUp(Failed(d), g)
    BY <1>1, <2>1, FailsCleanly
  <2> QED BY <2>2 DEF Pending
<1>2. ~CleansUp(c, g)
  <2>1. ASSUME CleansUp(c, g) PROVE FALSE
    <3>1. First(c) \in c.todo
      BY <2>1, LeastExists DEF First, CleansUp, Calls
    <3> QED BY <2>1, <3>1, ZenonT(30) DEF CleansUp, Current, Cleanup, Fallible
  <2> QED BY <2>1
<1> QED BY <1>1, <1>2 DEF Good, HasReturned

\* What a request has seen less of disturbs nothing.
LEMMA ForgetsIsGood ==
    ASSUME NEW c, NEW g, Good(c, g), NEW d \in Calls,
           d.via = c.via, d.route = c.route, d.todo = c.todo, d.ok = c.ok, d.held = c.held,
           d.changed = c.changed, d.recorded = c.recorded, d.unrecorded = c.unrecorded,
           d.asleep => c.asleep, d.degraded => c.degraded
    PROVE  Good(d, g)
<1>1. ASSUME NEW i \in Nat, GoesOn(c, i, g) PROVE GoesOn(d, i, g)
  <2>1. Known(d) /\ Route(d) = Route(c)
    BY <1>1, SameRoute DEF GoesOn
  <2> QED BY <1>1, <2>1 DEF GoesOn
<1>2. CleansUp(c, g) => CleansUp(d, g)
  <2>1. CleansUp(c, g) => Known(d) /\ Route(d) = Route(c)
    BY SameRoute DEF CleansUp
  <2> QED BY <2>1 DEF CleansUp
<1>3. HasReturned(c, g) => HasReturned(d, g)
  BY DEF HasReturned
<1> QED BY <1>1, <1>2, <1>3 DEF Good

\* The more servers are given up, the less is owed.
LEMMA GivenUpIsGood ==
    ASSUME NEW c, NEW g, NEW h, g \subseteq h, Good(c, g)
    PROVE  Good(c, h)
<1>1. ASSUME NEW i \in Nat, GoesOn(c, i, g) PROVE GoesOn(c, i, h)
  BY <1>1 DEF GoesOn
<1>2. CleansUp(c, g) => CleansUp(c, h)
  BY DEF CleansUp
<1>3. HasReturned(c, g) => HasReturned(c, h)
  BY DEF HasReturned
<1> QED BY <1>1, <1>2, <1>3 DEF Good

----------------------------------------------------------------------------
(* The invariant *)

\* One request moves on, and nothing it shares gets better for those that are asleep.
LEMMA MoveOK ==
    ASSUME ServerInv, NEW r \in Requests, NEW c, Pending(c, abandoned), NEW d \in Settle(c),
           call' = [call EXCEPT ![r] = d], closing' = closing, abandoned' = abandoned,
           mode' = "unsealed" => mode = "unsealed" \/ \A q \in Requests : ~call[q].asleep,
           healthy' => healthy,
           Timely(c, mode', healthy', closing, abandoned),
           c.via = "boot" => call[r].via = "boot",
           closing = Booting => ~c.asleep
    PROVE  ServerInv'
<1>0. Good(d, abandoned)
  BY SettleIsGood, Zenon DEF Pending
<1>1. Good(d, abandoned) /\ d \in Calls
  BY <1>0, Zenon DEF Good, HasReturned, GoesOn, CleansUp
<1>2. d.via \in {c.via, "none"} /\ (d.asleep => c.asleep) /\ (d.degraded => c.degraded)
  BY SettleKeeps DEF Pending
<1>3. call' \in [Requests -> Calls] /\ call'[r] = d /\ \A q \in Requests : q # r => call'[q] = call[q]
  BY <1>1 DEF ServerInv
<1>4. Timely(d, mode', healthy', closing, abandoned)
  <2>1. \A i \in DOMAIN Order : Order[i] # "none"
    BY DEF Order
  <2> QED BY <1>2, <2>1 DEF Timely
<1>5. \A q \in Requests : Timely(call[q], mode', healthy', closing, abandoned)
  BY DEF ServerInv, Timely
<1>6. \A q \in Requests : call'[q].via = "boot" => call[q].via = "boot"
  BY <1>2, <1>3
<1>7. \A q \in Requests : closing = Booting => ~call'[q].asleep
  BY <1>2, <1>3 DEF ServerInv, BootsAlone
<1>8. BootsAlone'
  BY <1>6, <1>7 DEF ServerInv, BootsAlone, Booting
<1>9. \A q \in Requests : Good(call'[q], abandoned') /\ Timely(call'[q], mode', healthy', closing', abandoned')
  BY <1>1, <1>3, <1>4, <1>5 DEF ServerInv
<1> QED BY <1>3, <1>8, <1>9 DEF ServerInv

\* The same for a request that is under way.
LEMMA StepOK ==
    ASSUME ServerInv, NEW r \in Requests, NEW c, Pending(c, abandoned), Go(r, {c}),
           closing' = closing, abandoned' = abandoned,
           mode' = "unsealed" => mode = "unsealed" \/ \A q \in Requests : ~call[q].asleep,
           healthy' => healthy,
           c.via = call[r].via, c.asleep => call[r].asleep, c.degraded => call[r].degraded
    PROVE  ServerInv'
<1>1. PICK d \in Settle(c) : call' = [call EXCEPT ![r] = d]
  BY Zenon DEF Go
<1>2. Timely(c, mode', healthy', closing, abandoned)
  BY DEF ServerInv, Timely
<1>3. closing = Booting => ~c.asleep
  BY DEF ServerInv, BootsAlone
<1> QED BY <1>1, <1>2, <1>3, MoveOK, Zenon

\* A step of a request whose call is as it was.
LEMMA AdvanceOK ==
    ASSUME ServerInv, NEW r \in Requests, call[r].todo # {}, Advance(r),
           Current(call[r]).do \notin {"new", "wipe", "undo", "lose", "unseal", "record"},
           call[r].asleep => ~SealGate(Current(call[r])), call[r].degraded => ~HealthGate(Current(call[r])),
           closing' = closing, abandoned' = abandoned,
           mode' = "unsealed" => mode = "unsealed", healthy' => healthy
    PROVE  ServerInv'
<1>1. call[r] \in Calls /\ Good(call[r], abandoned) /\ Known(call[r])
  BY ZenonT(30) DEF ServerInv, Good, HasReturned, GoesOn, CleansUp
<1>2. Pending(Done(call[r]), abandoned)
  BY <1>1, AdvancePending
<1>3. /\ Done(call[r]).via = call[r].via /\ Done(call[r]).asleep = call[r].asleep
      /\ Done(call[r]).degraded = call[r].degraded
  BY <1>1, DoneIs, ZenonT(30)
<1> QED BY <1>2, <1>3, StepOK DEF Advance

\* A step of a request that fails, its call as it was.
LEMMA FailOK ==
    ASSUME ServerInv, NEW r \in Requests, call[r].todo # {}, Fail(r), Fallible(Current(call[r])),
           closing' = closing, abandoned' = abandoned,
           mode' = "unsealed" => mode = "unsealed", healthy' => healthy
    PROVE  ServerInv'
<1>1. call[r] \in Calls /\ Good(call[r], abandoned) /\ Known(call[r])
  BY ZenonT(30) DEF ServerInv, Good, HasReturned, GoesOn, CleansUp
<1>2. Pending(Failed(call[r]), abandoned)
  BY <1>1, FailPending
<1>3. /\ Failed(call[r]).via = call[r].via /\ Failed(call[r]).asleep = call[r].asleep
      /\ Failed(call[r]).degraded = call[r].degraded
  BY <1>1, FailedIs, ZenonT(30)
<1> QED BY <1>2, <1>3, StepOK DEF Fail

\* A write, whose answer may be lost.
LEMMA WriteOK ==
    ASSUME ServerInv, NEW r \in Requests, call[r].todo # {}, Writes(Current(call[r])),
           \/ Go(r, {Done(Changed(call[r], "store"))})
           \/ Go(r, {Failed(c) : c \in MayHaveWritten(call[r])}),
           closing' = closing, abandoned' = abandoned, mode' = mode, healthy' => healthy
    PROVE  ServerInv'
<1> DEFINE c == call[r]
           d == Changed(c, "store")
<1>1. c \in Calls /\ Good(c, abandoned) /\ Known(c)
  BY Zenon DEF ServerInv, Good, HasReturned, GoesOn, CleansUp
<1>2. /\ d \in Calls /\ d.via = c.via /\ d.route = c.route /\ d.todo = c.todo /\ d.ok = c.ok /\ d.held = c.held
      /\ d.recorded = c.recorded /\ d.asleep = c.asleep /\ d.degraded = c.degraded
      /\ d.unrecorded = c.unrecorded
  BY <1>1, ChangedIs, ZenonT(30)
<1>3. Known(d)
  BY <1>1, <1>2, SameRoute
<1> HIDE DEF d
<1>4. /\ Current(c).do \notin {"new", "wipe", "undo", "lose", "unseal", "record", "enter", "check"}
      /\ Fallible(Current(c)) /\ ~SealGate(Current(c)) /\ ~HealthGate(Current(c))
  BY Zenon DEF Writes, Fallible, SealGate, HealthGate
<1>5. CASE Go(r, {Done(d)})
  <2>1. Pending(Done(d), abandoned)
    BY <1>1, <1>2, <1>4, AdvancePending, Zenon
  <2>2. Done(d).via = c.via /\ Done(d).asleep = c.asleep /\ Done(d).degraded = c.degraded
    BY <1>2, <1>3, DoneIs, Zenon
  <2> QED BY <1>5, <2>1, <2>2, StepOK, Zenon
<1>6. CASE Go(r, {Failed(e) : e \in MayHaveWritten(c)})
  <2>1. PICK e \in {c, d} : Go(r, {Failed(e)})
    BY <1>6, Zenon DEF Go, MayHaveWritten, d
  <2>2. Pending(Failed(e), abandoned)
    BY <1>1, <1>2, <1>4, FailPending, Zenon
  <2>3. Failed(e).via = c.via /\ Failed(e).asleep = c.asleep /\ Failed(e).degraded = c.degraded
    BY <1>1, <1>2, <1>3, FailedIs, ZenonT(30)
  <2> QED BY <2>1, <2>2, <2>3, StepOK
<1> QED BY <1>5, <1>6 DEF d

\* Where a request begins.
LEMMA GoesOnAt1 ==
    ASSUME NEW c \in Calls, NEW g, Known(c), c.ok, c.unrecorded = {}, c.todo = DOMAIN Route(c),
           c.held = {}, c.changed = {}, c.asleep => c.via # "boot", c.degraded => c.via = "grpc"
    PROVE  Pending(c, g)
<1>1. Len(Route(c)) \in Nat /\ DOMAIN Route(c) = 1 .. Len(Route(c))
  BY RouteFacts, StepFacts
<1>2. 1 .. 1 - 1 = {}
  OBVIOUS
<1>3. HeldAt(Route(c), 1) = {}
  BY <1>2 DEF HeldAt, HeldAfter
<1>4. 1 \in 1 .. Len(Route(c)) + 1
  BY <1>1
<1>5. GoesOn(c, 1, g)
  BY <1>1, <1>2, <1>3, <1>4, Zenon DEF GoesOn
<1>6. 1 \in Nat
  OBVIOUS
<1> QED BY <1>5, <1>6, Zenon DEF Pending

\* The fields of a request that begins.
LEMMA BeginningIs ==
    ASSUME NEW v \in Vias, NEW route, Follows(v, route)
    PROVE  LET f == Beginning(v, route) IN
           /\ f \in Calls /\ Known(f) /\ f.todo = DOMAIN Route(f) /\ f.via = v /\ f.route = route
           /\ f.ok /\ f.unrecorded = {} /\ f.held = {} /\ f.changed = {} /\ ~f.asleep /\ ~f.degraded
<1> DEFINE T == DOMAIN route
           f == [NoCall EXCEPT !.via = v, !.route = route, !.todo = T]
<1>1. route \in Steps /\ route \in Ways
  <2>1. CASE route = BootRoute
    BY <2>1, RoutesAssumption DEF Ways
  <2>2. ASSUME NEW w \in DOMAIN Routes, NEW n \in DOMAIN Routes[w], route = Routes[w][n]
        PROVE  route \in Steps /\ route \in Ways
    BY <2>2, RoutesAssumption DEF Ways
  <2> QED BY <2>1, <2>2, Zenon DEF Follows
<1>2. Len(route) \in Nat /\ T = 1 .. Len(route)
  BY <1>1, StepFacts
<1>3. T \in SUBSET Nat
  BY <1>2
<1>4. Beginning(v, route) = f
  BY DEF Beginning
<1> HIDE DEF T
<1>5. /\ f \in Calls /\ f.todo = T /\ f.via = v /\ f.route = route /\ f.ok /\ f.unrecorded = {}
      /\ f.held = {} /\ f.changed = {} /\ ~f.asleep /\ ~f.degraded
  BY <1>1, <1>3 DEF NoCall, Calls
<1> HIDE DEF f
<1>6. Route(f) = route /\ Known(f)
  BY <1>5 DEF Route, Known
<1> QED BY <1>4, <1>5, <1>6, Zenon DEF T

\* The process as it starts, with or without an automatic unseal.
LEMMA InitOK == Init => ServerInv
<1> SUFFICES ASSUME Init PROVE ServerInv
  OBVIOUS
<1>1. NoCall \in Calls
  BY DEF NoCall, Calls, Vias, Ways
<1>2. /\ NoCall.via = "none" /\ NoCall.todo = {} /\ NoCall.held = {} /\ NoCall.unrecorded = {}
      /\ NoCall.changed = {} /\ ~NoCall.asleep /\ ~NoCall.degraded
  BY DEF NoCall
<1>3. Good(NoCall, abandoned)
  BY <1>1, <1>2 DEF Good, HasReturned
<1>4. \A i \in DOMAIN Order : i > 0 /\ Order[i] \notin {"none", "boot"}
  BY DEF Order
<1>5. mode = "sealed" /\ healthy = TRUE /\ abandoned = {}
  BY Zenon DEF Init, Seal!Init
<1>6. Timely(NoCall, mode, healthy, closing, abandoned)
  BY <1>2, <1>4 DEF Timely
<1>7. CASE closing = 0 /\ call = [r \in Requests |-> NoCall]
  <2>1. BootsAlone
    BY <1>2, <1>7 DEF BootsAlone, Booting
  <2>2. call \in [Requests -> Calls] /\ closing \in Int /\ \A r \in Requests : call[r] = NoCall
    BY <1>1, <1>7
  <2>3. \A r \in Requests : Good(call[r], abandoned) /\ Timely(call[r], mode, healthy, closing, abandoned)
    BY <1>3, <1>6, <2>2
  <2> QED BY <2>1, <2>2, <2>3 DEF ServerInv
<1>8. CASE /\ closing = Booting
           /\ \E b \in Requests, d \in Settle(Beginning("boot", BootRoute)) :
                  call = [r \in Requests |-> IF r = b THEN d ELSE NoCall]
  <2> DEFINE c == Beginning("boot", BootRoute)
  <2>1. PICK b \in Requests, d \in Settle(c) : call = [r \in Requests |-> IF r = b THEN d ELSE NoCall]
    BY <1>8, Zenon
  <2>2. /\ c \in Calls /\ c.via = "boot" /\ c.ok /\ c.unrecorded = {} /\ c.held = {} /\ c.changed = {}
        /\ ~c.asleep /\ ~c.degraded /\ c.todo = DOMAIN Route(c) /\ Known(c)
    <3>1. "boot" \in Vias /\ Follows("boot", BootRoute)
      BY Zenon DEF Vias, Follows
    <3> QED BY <3>1, BeginningIs, ZenonT(30)
  <2> HIDE DEF c
  <2>3. Pending(c, abandoned)
    BY <2>2, GoesOnAt1
  <2>4. Good(d, abandoned)
    BY <2>3, SettleIsGood, Zenon DEF Pending
  <2>5. d \in Calls
    BY <2>4, Zenon DEF Good, HasReturned, GoesOn, CleansUp
  <2>6. d.via \in {"boot", "none"} /\ ~d.asleep /\ ~d.degraded
    BY <2>2, <2>3, SettleKeeps DEF Pending
  <2>7. Timely(d, mode, healthy, closing, abandoned)
    BY <1>4, <2>6 DEF Timely
  <2>8. \A r \in Requests : /\ call[r] \in {d, NoCall} /\ (call[r].via = "boot" => r = b) /\ ~call[r].asleep
    BY <1>2, <2>1, <2>6
  <2>9. BootsAlone
    BY <1>8, <2>8, Zenon DEF BootsAlone
  <2>10. call \in [Requests -> Calls]
    BY <1>1, <2>1, <2>5
  <2>11. closing \in Int
    <3>1. Booting \in Int
      BY DEF Booting
    <3> QED BY <1>8, <3>1, Zenon
  <2>12. \A r \in Requests : Good(call[r], abandoned) /\ Timely(call[r], mode, healthy, closing, abandoned)
    BY <1>3, <1>6, <2>4, <2>7, <2>8
  <2> QED BY <2>9, <2>10, <2>11, <2>12 DEF ServerInv
<1> QED BY <1>7, <1>8, Zenon DEF Init

\* A server accepts a request.
LEMMA BeginOK ==
    ASSUME ServerInv, NEW r \in Requests, Begin(r)
    PROVE  ServerInv'
<1>1. PICK use \in Uses[r] :
        /\ \A i \in DOMAIN Order : Order[i] = use.via => closing < i
        /\ Go(r, {[Beginning(use.via, Routes[use.via][use.name]) EXCEPT
                        !.asleep = (mode # "unsealed"), !.degraded = ~healthy /\ use.via = "grpc"]})
  BY Zenon DEF Begin
<1> DEFINE v == use.via
           w == Routes[v][use.name]
           f == Beginning(v, w)
           c == [f EXCEPT !.asleep = (mode # "unsealed"), !.degraded = ~healthy /\ v = "grpc"]
<1>2. Follows(v, w) /\ v \in {"http", "grpc", "mcp", "admin"}
  BY UsesAssumption, RoutesAssumption, Zenon DEF Follows
<1>3. v \in Vias
  BY <1>2, Zenon DEF Vias, Ways
<1> HIDE DEF v, w
<1>6. /\ f \in Calls /\ Known(f) /\ f.todo = DOMAIN Route(f) /\ f.via = v /\ f.route = w /\ f.ok /\ f.unrecorded = {}
      /\ f.held = {} /\ f.changed = {}
  BY <1>2, <1>3, BeginningIs, ZenonT(30)
<1> HIDE DEF f
<1>7. /\ c \in Calls /\ c.todo = DOMAIN Route(f) /\ c.via = v /\ c.route = w /\ c.ok /\ c.unrecorded = {}
      /\ c.held = {} /\ c.changed = {}
      /\ c.asleep = (mode # "unsealed") /\ c.degraded = (~healthy /\ v = "grpc")
  BY <1>6, Zenon DEF Calls
<1>8. Go(r, {c})
  BY <1>1 DEF c, f, v, w
<1> HIDE DEF c
<1>9. Known(c) /\ Route(c) = Route(f)
  BY <1>6, <1>7, SameRoute
<1>10. Pending(c, abandoned)
  BY <1>2, <1>7, <1>9, GoesOnAt1, Zenon
<1>11. PICK d \in Settle(c) : call' = [call EXCEPT ![r] = d]
  BY <1>8, Zenon DEF Go
<1>12. /\ mode' = mode /\ healthy' = healthy /\ closing' = closing /\ abandoned' = abandoned
       /\ closing # Booting /\ closing \in Int
  BY DEF Begin, seal, shutdown, ServerInv
<1>13. \A i \in DOMAIN Order : c.via = Order[i] => ~(closing > i)
  <2>1. DOMAIN Order \subseteq Int
    BY DEF Order
  <2> QED BY <1>1, <1>7, <1>12, <2>1 DEF v
<1>14. Timely(c, mode', healthy', closing, abandoned)
  BY <1>7, <1>12, <1>13, Zenon DEF Timely
<1> QED BY <1>2, <1>7, <1>10, <1>11, <1>12, <1>14, MoveOK, Zenon

\* Steps of the others that leave the requests alone.
LEMMA QuietOK ==
    ASSUME ServerInv, call' = call, closing' = closing, abandoned' = abandoned,
           mode' = "unsealed" => mode = "unsealed", healthy' = healthy
    PROVE  ServerInv'
<1>1. BootsAlone'
  BY DEF ServerInv, BootsAlone, Booting
<1>2. \A q \in Requests : Timely(call[q], mode', healthy, closing, abandoned)
  BY DEF ServerInv, Timely
<1> QED BY <1>1, <1>2 DEF ServerInv

\* A request that comes to a step which is no cleanup has not failed.
LEMMA OwnWay ==
    ASSUME NEW c \in Calls, NEW g, Good(c, g), c.todo # {}, Current(c).do \notin Cleanup
    PROVE  \E i \in Nat : GoesOn(c, i, g) /\ i \in DOMAIN Route(c) /\ Current(c) = Route(c)[i]
<1>1. First(c) \in c.todo
  BY LeastExists DEF First, Calls
<1>2. ~CleansUp(c, g)
  BY <1>1 DEF CleansUp, Current
<1>3. PICK i \in Nat : GoesOn(c, i, g)
  BY <1>2 DEF Good, HasReturned
<1>4. i \in DOMAIN Route(c) /\ Current(c) = Route(c)[i]
  BY <1>3, GoesOnFirst DEF Current
<1> QED BY <1>3, <1>4

\* A health flag that stays or drops.
LEMMA FlagDrops ==
    ASSUME NEW a, NEW b \in {a, FALSE}
    PROVE  b => a
BY Zenon

\* Each step of a handler.
LEMMA ServeOK ==
    ASSUME ServerInv, NEW r \in Requests, Serve(r)
    PROVE  ServerInv'
<1> DEFINE c == call[r]
           step == Current(c)
<1>0. c \in Calls /\ Good(c, abandoned) /\ Timely(c, mode, healthy, closing, abandoned)
  BY DEF ServerInv
<1>1. CASE Decide(r)
  <2>1. c.todo # {} /\ step.do = "check" /\ mode' = mode /\ healthy' = healthy /\ closing' = closing /\ abandoned' = abandoned
    BY <1>1 DEF Decide, At, seal, shutdown
  <2>2. CASE Passes(step.on) /\ Advance(r)
    <3>1. step.on = "unsealed" => mode = "unsealed"
      BY <2>2 DEF Passes
    <3>2. step.on = "writable" => healthy
      BY <2>2 DEF Passes
    <3>3. (c.asleep => ~SealGate(step)) /\ (c.degraded => ~HealthGate(step))
      BY <1>0, <2>1, <3>1, <3>2 DEF SealGate, HealthGate, Timely
    <3> QED BY <2>1, <2>2, <3>3, AdvanceOK
  <2>3. CASE Fail(r)
    BY <2>1, <2>3, FailOK, Zenon DEF Fallible
  <2> QED BY <1>1, <2>2, <2>3 DEF Decide
<1>2. CASE Enter(r)
  <2>1. c.todo # {} /\ step.do = "enter" /\ mode' = mode /\ healthy' = healthy /\ closing' = closing /\ abandoned' = abandoned
    BY <1>2 DEF Enter, At, seal, shutdown, Seal!Borrow
  <2>2. CASE mode = "unsealed" /\ Advance(r)
    <3>1. ~c.asleep /\ ~HealthGate(step)
      BY <1>0, <2>1, <2>2 DEF HealthGate, Timely
    <3> QED BY <2>1, <2>2, <3>1, AdvanceOK
  <2>3. CASE Fail(r)
    BY <2>1, <2>3, FailOK, ZenonT(30) DEF Fallible
  <2> QED BY <1>2, <2>2, <2>3 DEF Enter
<1>3. CASE Leave(r)
  <2>1. c.todo # {} /\ step.do = "leave" /\ mode' = mode /\ healthy' = healthy /\ closing' = closing /\ abandoned' = abandoned
    BY <1>3 DEF Leave, At, shutdown, Seal!Return
  <2>2. Advance(r) /\ ~SealGate(step) /\ ~HealthGate(step)
    BY <1>3, <2>1 DEF Leave, SealGate, HealthGate
  <2> QED BY <2>1, <2>2, AdvanceOK
<1>4. CASE Read(r)
  <2>1. c.todo # {} /\ step.do = "read" /\ mode' = mode /\ closing' = closing /\ abandoned' = abandoned
    BY <1>4 DEF Read, At, seal, shutdown
  <2>2. ~SealGate(step) /\ ~HealthGate(step) /\ Fallible(step)
    BY <2>1 DEF SealGate, HealthGate, Fallible
  <2>3. Advance(r) \/ Fail(r)
    BY <1>4, Zenon DEF Read
  <2>4. healthy' \in {healthy, FALSE}
    BY <1>4, Zenon DEF Read
  <2>5. healthy' => healthy
    BY <2>4, FlagDrops, Zenon
  <2> QED BY <2>5, <2>1, <2>2, <2>3, AdvanceOK, FailOK
<1>5. CASE Put(r)
  <2>0. healthy' \in {healthy, FALSE}
    BY <1>5, Zenon DEF Put
  <2>1. c.todo # {} /\ mode' = mode /\ closing' = closing /\ abandoned' = abandoned
    BY <1>5, Zenon DEF Put, At, seal, shutdown
  <2>4. healthy' => healthy
    BY <2>0, FlagDrops, Zenon
  <2>2. CASE At(r, "index") /\ Advance(r)
    <3>1. step.do = "index" /\ ~SealGate(step) /\ ~HealthGate(step)
      BY <2>2 DEF At, SealGate, HealthGate
    <3> QED BY <2>1, <2>2, <2>4, <3>1, AdvanceOK, ZenonT(30)
  <2>3. CASE ~(At(r, "index") /\ Advance(r))
    <3>1. /\ Writes(step)
          /\ \/ Go(r, {Done(Changed(c, "store"))})
             \/ Go(r, {Failed(e) : e \in MayHaveWritten(c)})
      BY <1>5, <2>3, ZenonT(30) DEF Put, At, Writes
    <3> QED BY <2>1, <2>4, <3>1, WriteOK
  <2> QED BY <2>2, <2>3
<1>6. CASE Transact(r)
  <2>1. c.todo # {} /\ mode' = mode /\ closing' = closing /\ abandoned' = abandoned /\ (healthy' => healthy)
    BY <1>6 DEF Transact, At, seal, shutdown
  <2>2. /\ Writes(step)
        /\ \/ Go(r, {Done(Changed(c, "store"))})
           \/ Go(r, {Failed(e) : e \in MayHaveWritten(c)})
    BY <1>6 DEF Transact, At, Writes
  <2> QED BY <2>1, <2>2, WriteOK, ZenonT(30)
<1>7. CASE Record(r)
  <2> DEFINE Outcomes == IF closing < AuditClosed THEN {{"written"}, {"failed"}} ELSE {{}}
  <2>0. PICK outcome \in Outcomes : Go(r, {Done([c EXCEPT !.recorded = c.recorded \cup outcome])})
    <3> DEFINE D(o) == Done([c EXCEPT !.recorded = c.recorded \cup o])
    <3>1. Go(r, {D(o) : o \in Outcomes})
      BY <1>7 DEF Record
    <3> HIDE DEF D, Outcomes
    <3>2. \E o \in Outcomes : Go(r, {D(o)})
      BY <3>1, Zenon DEF Go
    <3> QED BY <3>2 DEF D
  <2> DEFINE b == c.recorded \cup outcome
             d == [c EXCEPT !.recorded = b]
  <2>1. /\ c.todo # {} /\ step.do = "record" /\ mode' = mode /\ healthy' = healthy /\ closing' = closing
        /\ abandoned' = abandoned /\ Go(r, {Done(d)})
    BY <1>7, <2>0 DEF Record, At, seal, shutdown
  <2>2. /\ d \in Calls /\ d.recorded = b
        /\ d.via = c.via /\ d.route = c.route /\ d.todo = c.todo /\ d.ok = c.ok /\ d.held = c.held
        /\ d.changed = c.changed /\ d.asleep = c.asleep /\ d.degraded = c.degraded
        /\ d.unrecorded = c.unrecorded
    <3>1. b \in SUBSET {"written", "failed"}
      <4>1. c.recorded \in SUBSET {"written", "failed"}
        BY <1>0 DEF Calls
      <4> QED BY <4>1
    <3> HIDE DEF b
    <3> QED BY <1>0, <3>1, RecordedIs
  <2>3. c.via \in {"http", "grpc", "mcp", "admin"}
    <3>1. Known(c)
      BY <1>0, <2>1 DEF Good, HasReturned, GoesOn, CleansUp
    <3>2. First(c) \in c.todo
      BY <1>0, <2>1, LeastExists DEF First, Calls
    <3>3. First(c) \in DOMAIN Route(c)
      BY <1>0, <2>1, <3>1, <3>2, GoesOnFirst DEF Good, HasReturned, CleansUp
    <3>4. c.via # "boot"
      BY <2>1, <3>1, <3>3, RouteFacts DEF Current
    <3> QED BY <3>1, <3>4, RouteFacts
  <2>4. ~(closing < AuditClosed) => c.via \in abandoned
    <3>1. SUFFICES ASSUME ~(closing < AuditClosed) PROVE c.via \in abandoned
      OBVIOUS
    <3>2. PICK i \in DOMAIN Order : c.via = Order[i] /\ i < AuditClosed /\ i \in Int
      <4>1. /\ 1 \in DOMAIN Order /\ Order[1] = "http" /\ 1 < AuditClosed
            /\ 2 \in DOMAIN Order /\ Order[2] = "admin" /\ 2 < AuditClosed
            /\ 3 \in DOMAIN Order /\ Order[3] = "grpc" /\ 3 < AuditClosed
            /\ 4 \in DOMAIN Order /\ Order[4] = "mcp" /\ 4 < AuditClosed
        BY DEF Order, AuditClosed
      <4> QED BY <2>3, <4>1
    <3>3. closing > i
      <4>1. AuditClosed \in Int /\ closing \in Int
        BY DEF AuditClosed, Order, ServerInv
      <4> QED BY <3>1, <3>2, <4>1
    <3> QED BY <1>0, <3>2, <3>3 DEF Timely
  <2>5. d.recorded = {} => d.via \in abandoned
    <3>1. closing < AuditClosed => b # {}
      OBVIOUS
    <3> HIDE DEF b
    <3> QED BY <2>2, <2>4, <3>1, Zenon
  <2> HIDE DEF d
  <2>6. step.do \notin {"new", "wipe", "undo", "lose", "unseal"} /\ ~SealGate(step) /\ ~HealthGate(step)
    BY <2>1 DEF SealGate, HealthGate
  <2>7. Pending(Done(d), abandoned)
    BY <1>0, <2>1, <2>2, <2>5, <2>6, AdvancePending, Zenon
  <2>8. Known(d)
    BY <1>0, <2>1, <2>2, SameRoute, Zenon DEF Good, HasReturned, GoesOn, CleansUp
  <2>9. Done(d).via = c.via /\ Done(d).asleep = c.asleep /\ Done(d).degraded = c.degraded
    BY <2>2, <2>8, DoneIs, Zenon
  <2> QED BY <2>1, <2>7, <2>9, StepOK
<1>8. CASE Freeze(r)
  <2>1. c.todo # {} /\ step.do = "freeze" /\ healthy' = healthy /\ closing' = closing /\ abandoned' = abandoned
    BY <1>8 DEF Freeze, At, shutdown
  <2>2. step.do \notin {"new", "wipe", "undo", "lose", "unseal", "record"} /\ ~SealGate(step) /\ ~HealthGate(step)
    BY <2>1, Zenon DEF SealGate, HealthGate
  <2>3. CASE mode = "frozen"
    <3>1. Advance(r) /\ mode' = mode
      BY <1>8, <2>3 DEF Freeze, seal
    <3> QED BY <2>1, <2>2, <3>1, AdvanceOK, Zenon
  <2>4. CASE mode # "frozen"
    <3> DEFINE d == Changed(c, "freeze")
    <3>1. Go(r, {Done(d)}) /\ mode' = "frozen"
      BY <1>8, <2>4 DEF Freeze, Seal!Freeze
    <3>2. /\ d \in Calls /\ d.changed = c.changed \cup {"freeze"}
          /\ d.via = c.via /\ d.route = c.route /\ d.todo = c.todo /\ d.ok = c.ok /\ d.held = c.held
          /\ d.recorded = c.recorded /\ d.asleep = c.asleep /\ d.degraded = c.degraded
          /\ d.unrecorded = c.unrecorded
      BY <1>0, ChangedIs, Zenon
    <3> HIDE DEF d
    <3>3. Pending(Done(d), abandoned)
      BY <1>0, <2>1, <2>2, <3>2, AdvancePending, Zenon
    <3>4. Known(d)
      BY <1>0, <2>1, <3>2, SameRoute, ZenonT(30) DEF Good, HasReturned, GoesOn, CleansUp
    <3>5. Done(d).via = c.via /\ Done(d).asleep = c.asleep /\ Done(d).degraded = c.degraded
      BY <3>2, <3>4, DoneIs
    <3> QED BY <2>1, <3>1, <3>3, <3>5, StepOK
  <2> QED BY <2>3, <2>4
<1>9. CASE CloseSession(r)
  <2>1. /\ c.todo # {} /\ step.do = "seal" /\ healthy' = healthy /\ closing' = closing /\ abandoned' = abandoned
        /\ mode' = "unsealed" => mode = "unsealed"
    BY <1>9 DEF CloseSession, At, seal, shutdown, Seal!Close
  <2>2. Advance(r) /\ ~SealGate(step) /\ ~HealthGate(step)
    BY <1>9, <2>1 DEF CloseSession, SealGate, HealthGate
  <2> QED BY <2>1, <2>2, AdvanceOK, Zenon
<1>10. CASE Share(r)
  <2>1. c.todo # {} /\ step.do = "share" /\ healthy' = healthy /\ closing' = closing /\ abandoned' = abandoned
    BY <1>10 DEF Share, At, shutdown
  <2>2. ~SealGate(step) /\ ~HealthGate(step) /\ Fallible(step)
    BY <2>1 DEF SealGate, HealthGate, Fallible
  <2>3. CASE (Advance(r) \/ Fail(r)) /\ mode' = mode
    BY <2>1, <2>2, <2>3, AdvanceOK, FailOK, Zenon
  <2>4. ASSUME NEW d \in Settle(Done(c)),
               call' = [q \in Requests |-> [(IF q = r THEN d ELSE call[q]) EXCEPT !.asleep = FALSE]]
        PROVE  ServerInv'
    <3>1. Pending(Done(c), abandoned)
      BY <1>0, <2>1, <2>2, AdvancePending, Zenon
    <3>2. Known(c)
      BY <1>0, <2>1, Zenon DEF Good, HasReturned, GoesOn, CleansUp
    <3>3. Good(d, abandoned) /\ d.via \in {c.via, "none"} /\ (d.degraded => c.degraded)
      <4>1. Done(c).via = c.via /\ Done(c).degraded = c.degraded
        BY <1>0, <3>2, DoneIs, Zenon
      <4> QED BY <2>4, <3>1, <4>1, SettleIsGood, SettleKeeps, Zenon DEF Pending
    <3>5. ASSUME NEW q \in Requests
          PROVE  /\ call'[q] \in Calls /\ Good(call'[q], abandoned)
                 /\ call'[q].via \in {call[q].via, "none"} /\ ~call'[q].asleep
                 /\ call'[q].degraded => call[q].degraded
      <4> DEFINE e == IF q = r THEN d ELSE call[q]
      <4>1. /\ Good(e, abandoned) /\ e.via \in {call[q].via, "none"} /\ (e.degraded => call[q].degraded)
        BY <3>3 DEF ServerInv
      <4>2. e \in Calls
        BY <4>1, Zenon DEF Good, HasReturned, GoesOn, CleansUp
      <4>3. call'[q] = [e EXCEPT !.asleep = FALSE]
        BY <2>4
      <4> HIDE DEF e
      <4> DEFINE f == [e EXCEPT !.asleep = FALSE]
      <4>4. /\ f \in Calls /\ f.asleep = FALSE
            /\ f.via = e.via /\ f.route = e.route /\ f.todo = e.todo /\ f.ok = e.ok /\ f.held = e.held
            /\ f.changed = e.changed /\ f.recorded = e.recorded /\ f.degraded = e.degraded
            /\ f.unrecorded = e.unrecorded
        BY <4>2, AsleepIs, Zenon
      <4> HIDE DEF f
      <4>5. Good(f, abandoned)
        BY <4>1, <4>4, ForgetsIsGood, Zenon
      <4> QED BY <4>1, <4>3, <4>4, <4>5 DEF f
    <3>6. call' \in [Requests -> Calls]
      <4>1. DOMAIN call' = Requests /\ call' = [q \in Requests |-> call'[q]]
        BY <2>4
      <4> QED BY <3>5, <4>1
    <3>7. ASSUME NEW q \in Requests PROVE Timely(call'[q], mode', healthy, closing, abandoned)
      <4>1. \A i \in DOMAIN Order : Order[i] # "none"
        BY DEF Order
      <4> QED BY <3>5, <4>1 DEF Timely, ServerInv
    <3>8. BootsAlone'
      BY <2>1, <3>5, Zenon DEF ServerInv, BootsAlone, Booting
    <3> QED BY <2>1, <3>5, <3>6, <3>7, <3>8, Zenon DEF ServerInv
  <2> QED BY <1>10, <2>3, <2>4 DEF Share, seal
<1>11. CASE GenerateTransitKey(r)
  <2>1. /\ c.todo # {} /\ step.do = "new transit" /\ mode' = mode /\ healthy' = healthy /\ closing' = closing
        /\ abandoned' = abandoned
    BY <1>11, Zenon DEF GenerateTransitKey, At, seal, shutdown
  <2>2. ~SealGate(step) /\ ~HealthGate(step) /\ Fallible(step)
    BY <2>1, Zenon DEF SealGate, HealthGate, Fallible
  <2>3. Advance(r) \/ Fail(r)
    BY <1>11, Zenon DEF GenerateTransitKey
  <2> QED BY <2>1, <2>2, <2>3, AdvanceOK, FailOK, Zenon
<1>12. CASE UnwrapWithTransitKey(r)
  <2>1. /\ c.todo # {} /\ step.do = "transit" /\ mode' = mode /\ healthy' = healthy /\ closing' = closing
        /\ abandoned' = abandoned
    BY <1>12 DEF UnwrapWithTransitKey, At, seal, shutdown
  <2>2. ~SealGate(step) /\ ~HealthGate(step) /\ Fallible(step)
    BY <2>1 DEF SealGate, HealthGate, Fallible
  <2>3. Advance(r) \/ Fail(r)
    BY <1>12, ZenonT(30) DEF UnwrapWithTransitKey
  <2> QED BY <2>1, <2>2, <2>3, AdvanceOK, FailOK, Zenon
<1>13. CASE DirectUnseal(r)
  <2>1. c.todo # {} /\ step.do = "unseal" /\ healthy' = healthy /\ closing' = closing /\ abandoned' = abandoned
    BY <1>13 DEF DirectUnseal, At, shutdown
  <2>2. CASE Fail(r) /\ mode' = mode
    BY <2>1, <2>2, FailOK, Zenon DEF Fallible
  <2>3. CASE Go(r, {Done([c EXCEPT !.held = @ \ {step.on}])})
    <3> DEFINE H == c.held \ {step.on}
               d == [c EXCEPT !.held = H]
    <3>1. PICK i \in Nat : GoesOn(c, i, abandoned) /\ i \in DOMAIN Route(c) /\ step = Route(c)[i]
      BY <1>0, <2>1, OwnWay DEF Cleanup
    <3>2. c.via = "boot"
      BY <2>1, <3>1, RouteFacts, Zenon DEF GoesOn
    <3>3. \A q \in Requests : ~call[q].asleep
      BY <3>2 DEF ServerInv, BootsAlone
    <3>4. /\ d \in Calls /\ d.held = H
          /\ d.via = c.via /\ d.route = c.route /\ d.todo = c.todo /\ d.ok = c.ok /\ d.recorded = c.recorded
          /\ d.changed = c.changed /\ d.asleep = c.asleep /\ d.degraded = c.degraded
          /\ d.unrecorded = c.unrecorded
      <4>1. H \in SUBSET Secrets
        BY <1>0 DEF Calls
      <4> HIDE DEF H
      <4> QED BY <1>0, <4>1, HeldIs
    <3>5. Go(r, {Done(d)})
      BY <2>3
    <3> HIDE DEF d
    <3>6. d.held = HeldAt(Route(c), i + 1)
      <4>1. Route(c) \in Steps /\ \A j \in DOMAIN Route(c) : Route(c)[j].on # "lost"
        BY <3>1, RouteFacts, Zenon DEF GoesOn, WipesAll
      <4>2. HeldAt(Route(c), i + 1) = HeldAt(Route(c), i) \ {Route(c)[i].on}
        BY <2>1, <3>1, <4>1, HeldAtNext, Zenon
      <4> QED BY <3>1, <3>4, <4>2, Zenon DEF GoesOn
    <3>7. ~SealGate(step) /\ ~HealthGate(step) /\ step.do # "record"
      BY <2>1 DEF SealGate, HealthGate
    <3>8. GoesOn(Done(d), i + 1, abandoned)
      BY <2>1, <3>1, <3>4, <3>6, <3>7, GoesOnDone, Zenon
    <3>9. Pending(Done(d), abandoned)
      BY <3>1, <3>8 DEF Pending
    <3>10. Known(d)
      BY <3>1, <3>4, SameRoute, ZenonT(30) DEF GoesOn
    <3>11. Done(d).via = c.via /\ Done(d).asleep = c.asleep /\ Done(d).degraded = c.degraded
      BY <3>4, <3>10, DoneIs
    <3> QED BY <2>1, <3>3, <3>5, <3>9, <3>11, StepOK, Zenon
  <2> QED BY <1>13, <2>2, <2>3 DEF DirectUnseal, seal
<1>14. CASE Start(r)
  <2>1. c.todo # {} /\ step.do = "start" /\ healthy' = healthy /\ mode' = mode /\ closing' = 0 /\ abandoned' = abandoned
    BY <1>14, Zenon DEF Start, At, seal
  <2>2. PICK d \in Settle(Done(c)) : call' = [call EXCEPT ![r] = d]
    BY <1>14, Zenon DEF Start, Advance, Go
  <2>3. PICK i \in Nat : GoesOn(c, i, abandoned) /\ i \in DOMAIN Route(c) /\ step = Route(c)[i]
    BY <1>0, <2>1, OwnWay, Zenon DEF Cleanup
  <2>4. Known(c) /\ c.via = "boot" /\ i = Len(Route(c)) /\ First(c) = i /\ c.todo = i .. Len(Route(c))
    BY <2>1, <2>3, RouteFacts, GoesOnFirst, ZenonT(30) DEF GoesOn
  <2>5. Done(c).todo = {}
    <3>1. i .. i = {i}
      OBVIOUS
    <3> QED BY <1>0, <2>4, <3>1, DoneIs, Zenon
  <2>6. d.via = "none" /\ ~d.asleep /\ ~d.degraded
    <3>1. d = Rest(Done(c)) /\ Shared(Done(c)) = {}
      BY <2>2, <2>5 DEF Settle, Shared
    <3>2. \E e : d = Returns(e)
      BY <3>1 DEF Rest
    <3> QED BY <3>2 DEF Returns, NoCall
  <2>7. Good(d, abandoned)
    <3>1. ~SealGate(step) /\ ~HealthGate(step)
      BY <2>1 DEF SealGate, HealthGate
    <3>2. Pending(Done(c), abandoned)
      BY <1>0, <2>1, <3>1, AdvancePending, Zenon
    <3> QED BY <2>2, <3>2, SettleIsGood, Zenon DEF Pending
  <2>8. d \in Calls
    BY <2>7, Zenon DEF Good, HasReturned, GoesOn, CleansUp
  <2>9. call' \in [Requests -> Calls] /\ call'[r] = d /\ \A q \in Requests : q # r => call'[q] = call[q]
    BY <2>2, <2>8 DEF ServerInv
  <2>10. \A q \in Requests : call'[q].via # "boot"
    BY <2>4, <2>6, <2>9, ZenonT(30) DEF ServerInv, BootsAlone
  <2>11. BootsAlone'
    BY <2>1, <2>10 DEF BootsAlone, Booting
  <2>12. ASSUME NEW q \in Requests PROVE Timely(call'[q], mode, healthy, 0, abandoned)
    <3>1. \A j \in DOMAIN Order : ~(0 > j)
      BY DEF Order
    <3> QED BY <2>6, <2>9, <3>1 DEF ServerInv, Timely
  <2>13. ASSUME NEW q \in Requests PROVE Good(call'[q], abandoned)
    BY <2>7, <2>9, Zenon DEF ServerInv
  <2>14. closing' \in Int
    BY <2>1
  <2> QED BY <2>1, <2>9, <2>11, <2>12, <2>13, <2>14, ZenonT(30) DEF ServerInv
<1> QED BY <1>1, <1>2, <1>3, <1>4, <1>5, <1>6, <1>7, <1>8, <1>9, <1>10, <1>11, <1>12, <1>13, <1>14 DEF Serve

\* The ping of StartHealthCheck, after which a request may no longer be degraded.
LEMMA PingOK ==
    ASSUME ServerInv, Ping
    PROVE  ServerInv'
<1>1. /\ mode' = mode /\ closing' = closing /\ abandoned' = abandoned
      /\ call' = [r \in Requests |-> [call[r] EXCEPT !.degraded = @ /\ ~healthy']]
  BY DEF Ping, seal, shutdown
<1>2. ASSUME NEW q \in Requests
      PROVE  /\ call'[q] \in Calls /\ Good(call'[q], abandoned)
             /\ Timely(call'[q], mode, healthy', closing, abandoned)
             /\ call'[q].via = call[q].via /\ call'[q].asleep = call[q].asleep
  <2> DEFINE c == call[q]
             b == c.degraded /\ ~healthy'
             d == [c EXCEPT !.degraded = b]
  <2>1. c \in Calls /\ Good(c, abandoned) /\ Timely(c, mode, healthy, closing, abandoned)
    BY DEF ServerInv
  <2>2. call'[q] = d
    BY <1>1
  <2>3. b \in BOOLEAN /\ (b => c.degraded /\ ~healthy')
    OBVIOUS
  <2> HIDE DEF b
  <2>4. /\ d \in Calls /\ d.degraded = b
        /\ d.via = c.via /\ d.route = c.route /\ d.todo = c.todo /\ d.ok = c.ok /\ d.held = c.held
        /\ d.changed = c.changed /\ d.recorded = c.recorded /\ d.asleep = c.asleep
        /\ d.unrecorded = c.unrecorded
    BY <2>1, <2>3, DegradedIs
  <2> HIDE DEF d
  <2>5. Good(d, abandoned)
    BY <2>1, <2>3, <2>4, ForgetsIsGood
  <2>6. Timely(d, mode, healthy', closing, abandoned)
    BY <2>1, <2>3, <2>4 DEF Timely
  <2> QED BY <2>2, <2>4, <2>5, <2>6
<1>3. call' \in [Requests -> Calls]
  <2>1. DOMAIN call' = Requests /\ call' = [q \in Requests |-> call'[q]]
    BY <1>1
  <2> QED BY <1>2, <2>1
<1>4. BootsAlone'
  BY <1>1, <1>2 DEF ServerInv, BootsAlone, Booting
<1> QED BY <1>1, <1>2, <1>3, <1>4 DEF ServerInv

\* A server that is idle when it has been drained, or given up.
LEMMA DrainOK ==
    ASSUME ServerInv, Drain
    PROVE  ServerInv'
<1>1. /\ mode' = mode /\ healthy' = healthy /\ call' = call /\ closing' = closing + 1
      /\ abandoned' = abandoned \cup {v \in {Order[closing]} : Busy(v)} /\ closing \in DOMAIN Order
  BY DEF Drain, seal
<1>2. DOMAIN Order \subseteq Int /\ \A i \in DOMAIN Order : i # -1 /\ i + 1 # -1 /\ Order[i] # "none"
  BY DEF Order
<1>3. BootsAlone'
  <2>1. closing # Booting /\ closing' # Booting
    BY <1>1, <1>2 DEF Booting
  <2>2. \A r \in Requests : call[r].via # "boot"
    BY <2>1 DEF ServerInv, BootsAlone
  <2> QED BY <1>1, <2>1, <2>2 DEF BootsAlone, Booting
<1>4. \A r \in Requests : Good(call[r], abandoned')
  BY <1>1, GivenUpIsGood DEF ServerInv
<1>5. ASSUME NEW r \in Requests PROVE Timely(call[r], mode, healthy, closing + 1, abandoned')
  <2>1. Timely(call[r], mode, healthy, closing, abandoned) /\ Good(call[r], abandoned)
    BY DEF ServerInv
  <2>2. ASSUME NEW i \in DOMAIN Order, call[r].via = Order[i], closing + 1 > i PROVE Order[i] \in abandoned'
    <3>1. CASE closing > i
      BY <1>1, <2>1, <2>2, <3>1 DEF Timely
    <3>2. CASE closing = i
      <4>1. call[r].todo # {}
        BY <1>2, <2>1, <2>2 DEF Good, HasReturned
      <4>2. Busy(Order[i])
        BY <2>2, <4>1 DEF Busy
      <4> QED BY <1>1, <3>2, <4>2
    <3>3. closing > i \/ closing = i
      BY <1>1, <1>2, <2>2
    <3> QED BY <3>1, <3>2, <3>3
  <2> QED BY <2>1, <2>2 DEF Timely
<1>6. closing' \in Int
  BY <1>1, <1>2
<1> QED BY <1>1, <1>3, <1>4, <1>5, <1>6 DEF ServerInv

\* The signal that begins the shutdown finds no automatic unseal under way.
LEMMA SignalOK ==
    ASSUME ServerInv, Signal
    PROVE  ServerInv'
<1>1. /\ mode' = mode /\ healthy' = healthy /\ call' = call /\ closing = 0 /\ closing' = 1 /\ abandoned' = abandoned
  BY DEF Signal, seal
<1>2. \A r \in Requests : call[r].via # "boot"
  BY <1>1 DEF ServerInv, BootsAlone, Booting
<1>3. BootsAlone'
  BY <1>1, <1>2 DEF BootsAlone, Booting
<1>4. \A r \in Requests : Timely(call[r], mode, healthy, 1, abandoned)
  <2>1. \A i \in DOMAIN Order : ~(1 > i)
    BY DEF Order
  <2> QED BY <2>1 DEF ServerInv, Timely
<1> QED BY <1>1, <1>3, <1>4 DEF ServerInv

\* The end of the process takes the requests with it.
LEMMA ExitOK ==
    ASSUME ServerInv, Exit
    PROVE  ServerInv'
<1>1. /\ mode' = "sealed" /\ healthy' = healthy /\ call' = [r \in Requests |-> NoCall]
      /\ closing' = Exited /\ abandoned' = abandoned
  BY DEF Exit
<1>2. NoCall \in Calls
  BY DEF NoCall, Calls, Vias, Ways
<1>3. /\ NoCall.via = "none" /\ NoCall.todo = {} /\ NoCall.held = {} /\ NoCall.unrecorded = {}
      /\ NoCall.changed = {} /\ ~NoCall.asleep /\ ~NoCall.degraded
  BY DEF NoCall
<1>4. Good(NoCall, abandoned)
  BY <1>2, <1>3 DEF Good, HasReturned
<1>5. \A i \in DOMAIN Order : Order[i] # "none"
  BY DEF Order
<1>6. Timely(NoCall, mode', healthy', closing', abandoned)
  BY <1>3, <1>5 DEF Timely
<1>7. call' \in [Requests -> Calls] /\ \A r \in Requests : call'[r] = NoCall
  BY <1>1, <1>2
<1>8. BootsAlone'
  BY <1>3, <1>7 DEF BootsAlone
<1>9. closing' \in Int
  BY <1>1 DEF Exited, Order
<1>10. \A r \in Requests : Good(call'[r], abandoned') /\ Timely(call'[r], mode', healthy', closing', abandoned')
  BY <1>1, <1>4, <1>6, <1>7
<1> QED BY <1>7, <1>8, <1>9, <1>10 DEF ServerInv

----------------------------------------------------------------------------
(* The theorems *)

\* At every moment each request either goes on along its route with what the route holds
\* there, or cleans up what it holds and owes, or has returned; and one that is under way
\* in a server that has been drained has been given up.
THEOREM ServerInvariant == Spec => []ServerInv
<1>1. ASSUME ServerInv, [Next]_vars PROVE ServerInv'
  <2>1. ASSUME NEW r \in Requests, Begin(r) PROVE ServerInv'
    BY <1>1, <2>1, BeginOK
  <2>2. ASSUME NEW r \in Requests, Serve(r) PROVE ServerInv'
    BY <1>1, <2>2, ServeOK
  <2>3. CASE Ping
    BY <1>1, <2>3, PingOK
  <2>4. CASE Reseal
    BY <1>1, <2>4, QuietOK DEF Reseal, Seal!Close, shutdown
  <2>5. CASE Signal
    BY <1>1, <2>5, SignalOK
  <2>6. CASE Drain
    BY <1>1, <2>6, DrainOK
  <2>7. CASE Exit
    BY <1>1, <2>7, ExitOK
  <2>8. CASE UNCHANGED vars
    BY <1>1, <2>8, QuietOK DEF vars, seal, shutdown
  <2> QED BY <1>1, <2>1, <2>2, <2>3, <2>4, <2>5, <2>6, <2>7, <2>8 DEF Next
<1> QED BY <1>1, InitOK, PTL DEF Spec

\* A request during which the vault is never unsealed writes no key and has no secret in
\* memory but what its caller sent, and a gRPC request writes none while the database is
\* held to be unhealthy
\* (requireUnsealedV1, InterceptorChain, Core.requireUnsealed, Core.requireWritable).
THEOREM ServerRefused == Spec => []RefusedHasNoEffect
<1>1. ASSUME ServerInv PROVE RefusedHasNoEffect
  <2>1. SUFFICES ASSUME NEW r \in Requests
                 PROVE  /\ call[r].asleep => "store" \notin call[r].changed /\ call[r].held \subseteq Sent
                        /\ call[r].degraded => "store" \notin call[r].changed
    BY DEF RefusedHasNoEffect
  <2> DEFINE c == call[r]
             s == Route(c)
  <2>2. ASSUME NEW i \in Nat, GoesOn(c, i, abandoned), c.todo # {}
        PROVE  /\ c.asleep => "store" \notin c.changed /\ c.held \subseteq Sent
               /\ c.degraded => "store" \notin c.changed
    <3>1. i \in DOMAIN s
      BY <2>2, GoesOnFirst
    <3>2. /\ s \in Steps /\ (c.via # "boot" => AsksSeal(s)) /\ (c.via = "grpc" => AsksHealth(s))
      BY <2>2, RouteFacts, ZenonT(30) DEF GoesOn
    <3>3. Len(s) \in Nat /\ DOMAIN s = 1 .. Len(s)
      BY <3>2, StepFacts
    <3>4. \A j \in 1 .. i - 1 : j \in DOMAIN s /\ \A k \in 1 .. j - 1 : k \in 1 .. i - 1
      BY <3>1, <3>3
    <3>5. ASSUME c.asleep PROVE c.held \subseteq Sent /\ "store" \notin c.changed
      <4>1. AsksSeal(s) /\ \A j \in 1 .. i - 1 : ~SealGate(s[j])
        BY <2>2, <3>2, <3>5, Zenon DEF GoesOn
      <4>2. HeldAt(s, i) \subseteq Sent
        BY <3>1, <4>1 DEF AsksSeal
      <4>3. \A j \in 1 .. i - 1 : ~Writes(s[j])
        BY <3>4, <4>1 DEF AsksSeal
      <4> QED BY <2>2, <4>2, <4>3, Zenon DEF GoesOn
    <3>6. ASSUME c.degraded PROVE "store" \notin c.changed
      <4>1. AsksHealth(s) /\ \A j \in 1 .. i - 1 : ~HealthGate(s[j])
        BY <2>2, <3>2, <3>6, ZenonT(30) DEF GoesOn
      <4>2. \A j \in 1 .. i - 1 : ~Writes(s[j])
        BY <3>4, <4>1 DEF AsksHealth
      <4> QED BY <2>2, <4>2, Zenon DEF GoesOn
    <3> QED BY <3>5, <3>6
  <2>3. Good(c, abandoned)
    BY <1>1 DEF ServerInv
  <2> QED BY <2>2, <2>3, ZenonT(30) DEF Good, HasReturned, CleansUp
<1> QED BY <1>1, ServerInvariant, PTL

\* A request that changes a key, or freezes the vault, has given a record to an audit log
\* that was open when it returns, wherever it failed, unless the shutdown has given it up;
\* whether the log has written it, the code does not ask (auditMiddleware,
\* Core.recordAudit, startYvonne).
THEOREM ServerChangedIsRecorded == Spec => []ChangedIsRecorded
<1>1. ASSUME ServerInv PROVE ChangedIsRecorded
  <2>1. ASSUME NEW r \in Requests PROVE call[r].unrecorded \subseteq abandoned
    <3>1. Good(call[r], abandoned)
      BY <1>1 DEF ServerInv
    <3> QED BY <3>1, Zenon DEF Good, HasReturned, GoesOn, CleansUp
  <2> QED BY <2>1 DEF ChangedIsRecorded
<1> QED BY <1>1, ServerInvariant, PTL

\* A request that has returned, on whatever path, has left no secret in a buffer but the
\* copies that the code never clears (the deferred Wipe calls).
THEOREM ServerBuffersWiped == Spec => []BuffersWiped
<1>1. ASSUME ServerInv PROVE BuffersWiped
  <2>1. ASSUME NEW r \in Requests, call[r].todo = {} PROVE call[r].held \subseteq Uncleared
    <3>1. Good(call[r], abandoned)
      BY <1>1 DEF ServerInv
    <3> QED BY <2>1, <3>1, Zenon DEF Good, HasReturned
  <2> QED BY <2>1 DEF BuffersWiped, Returned
<1> QED BY <1>1, ServerInvariant, PTL
=============================================================================
