----------------------------- MODULE ClientCalls ----------------------------
(***************************************************************************)
(* Goroutines that share one Client of the Go SDK (sdk/go/yvonne), with    *)
(* its retry loop and circuit breaker, and the server's rate limiter       *)
(* (api/ratelimit.go) that the attempts pass.  The breaker's fields are    *)
(* separate atomics, written one after the other; a request may be lost    *)
(* before or after the server has acted on it.                             *)
(***************************************************************************)
EXTENDS Integers

CONSTANTS
    Callers,
    Threshold,      \* FailureThreshold
    ResetTimeout,   \* in ticks, as are all times here
    MaxRetries,
    Rate, Burst,    \* tokens per tick, capacity of a bucket
    CleanEvery,     \* the limiter looks for idle buckets when more time has passed
    IdleMax,        \* and removes those that were idle for longer than this
    MaxTime,        \* bound on the clock
    MaxCalls        \* bound on the calls of all callers

\* The last conjunct holds for 10 minutes and any rate and burst a server would be
\* given; it is what makes the removal of a bucket harmless.
ASSUME ClientAssumption ==
    /\ {Threshold, MaxCalls} \subseteq Nat \ {0}
    /\ {ResetTimeout, MaxRetries, Rate, Burst, CleanEvery, IdleMax, MaxTime} \subseteq Nat
    /\ Burst <= Rate * IdleMax

VARIABLES
    cb,         \* CircuitBreaker: state, failureCount, lastFailureTime
    caller,     \* the call of each goroutine
    limiter,    \* the bucket of the client's address; -1 tokens: there is none
    now,
    history     \* what happened: calls, requests let in since t, overlapping records

vars == <<cb, caller, limiter, now, history>>

\* pc of a call: cas, before the CompareAndSwap of Allow; send, before doOnce;
\* success1/2 and failure1/2/3, before the writes of RecordSuccess and RecordFailure.
\* `count` is what RecordFailure's Add returned, `done` how often the server has
\* carried this call out, `result` what the call returned.
NewCall == [pc |-> "send", attempt |-> 0, error |-> "none", count |-> 0, done |-> 0, result |-> "none"]

Init ==
    /\ cb = [state |-> "closed", count |-> 0, last |-> 0]
    /\ caller = [c \in Callers |-> [NewCall EXCEPT !.pc = "idle"]]
    /\ limiter = [tokens |-> -1, last |-> 0, clean |-> 0]
    /\ now = 0
    /\ history = [calls |-> 0, let |-> [t \in 0..MaxTime |-> 0], raced |-> FALSE]

Call(c) == caller[c]
At(c, pc) == Call(c).pc = pc
Set(c, call) == caller' = [caller EXCEPT ![c] = call]
Goto(c, pc) == Set(c, [Call(c) EXCEPT !.pc = pc])
Return(c, result) == Set(c, [Call(c) EXCEPT !.pc = "idle", !.result = result, !.error = "none", !.count = 0])

Tick == now < MaxTime /\ now' = now + 1 /\ UNCHANGED <<cb, caller, limiter, history>>

----------------------------------------------------------------------------
(* CircuitBreaker *)

\* doWithRetry begins with Allow: it loads the state and, if that is open, the time of
\* the last failure.
Begin(c) ==
    /\ At(c, "idle") /\ history.calls < MaxCalls
    /\ LET first == CASE cb.state # "open" -> NewCall
                      [] cb.state = "open" /\ now - cb.last > ResetTimeout -> [NewCall EXCEPT !.pc = "cas"]
                      [] OTHER -> [NewCall EXCEPT !.pc = "idle", !.result = "open"]
       IN  Set(c, first)
    /\ history' = [history EXCEPT !.calls = @ + 1]
    /\ UNCHANGED <<cb, limiter, now>>

\* A compare-and-swap that is repeated until it succeeds.
AllowCasSpins(c) ==
    /\ At(c, "cas") /\ cb.state = "open"
    /\ cb' = [cb EXCEPT !.state = "half-open"] /\ Goto(c, "send")
    /\ UNCHANGED <<limiter, now, history>>

\* Only one goroutine takes the step from open to half-open; the others are refused,
\* even if the breaker was closed meanwhile.
AllowCas(c) ==
    /\ At(c, "cas")
    /\ IF cb.state = "open"
       THEN cb' = [cb EXCEPT !.state = "half-open"] /\ Goto(c, "send")
       ELSE cb' = cb /\ Return(c, "open")
    /\ UNCHANGED <<limiter, now, history>>

SuccessSteps == {"success1", "success2"}
FailureSteps == {"failure1", "failure2", "failure3"}

Recording == {c \in Callers : Call(c).pc \in SuccessSteps \cup FailureSteps}

\* History: a success and a failure are being recorded at the same time.
Raced == history' = [history EXCEPT !.raced = @ \/ \E c, d \in Recording :
                         Call(c).pc \in SuccessSteps /\ Call(d).pc \in FailureSteps]

\* A RecordSuccess that leaves the count.
RecordSuccessKeepsCount(c) ==
    \/ At(c, "success1") /\ UNCHANGED cb /\ Goto(c, "success2")
    \/ At(c, "success2") /\ cb' = [cb EXCEPT !.state = "closed"] /\ Return(c, "ok")

\* RecordSuccess: failureCount.Store(0), state.Store(closed).
RecordSuccess(c) ==
    \/ At(c, "success1") /\ cb' = [cb EXCEPT !.count = 0] /\ Goto(c, "success2")
    \/ At(c, "success2") /\ cb' = [cb EXCEPT !.state = "closed"] /\ Return(c, "ok")

\* A loop that makes one attempt too many.
AfterFailureOnceMore(c) ==
    IF Call(c).error # "retryable" \/ Call(c).attempt > MaxRetries
    THEN Return(c, IF Call(c).error = "retryable" THEN "failed" ELSE Call(c).error)
    ELSE Set(c, [Call(c) EXCEPT !.pc = "backoff", !.attempt = @ + 1, !.error = "none", !.count = 0])

\* What doWithRetry does after a recorded failure: give up on an error that is not
\* retryable or on the last attempt, else wait for the next attempt.
AfterFailure(c) ==
    IF Call(c).error # "retryable" \/ Call(c).attempt = MaxRetries
    THEN Return(c, IF Call(c).error = "retryable" THEN "failed" ELSE Call(c).error)
    ELSE Set(c, [Call(c) EXCEPT !.pc = "backoff", !.attempt = @ + 1, !.error = "none", !.count = 0])

\* RecordFailure: failureCount.Add(1), lastFailureTime.Store(now) and, if the count it
\* got reaches the threshold, state.Store(open).
RecordFailure(c) ==
    \/ /\ At(c, "failure1")
       /\ cb' = [cb EXCEPT !.count = @ + 1]
       /\ Set(c, [Call(c) EXCEPT !.pc = "failure2", !.count = cb.count + 1])
    \/ /\ At(c, "failure2")
       /\ cb' = [cb EXCEPT !.last = now]
       /\ IF Call(c).count >= Threshold THEN Goto(c, "failure3") ELSE AfterFailure(c)
    \/ /\ At(c, "failure3")
       /\ cb' = [cb EXCEPT !.state = "open"]
       /\ AfterFailure(c)

Record(c) == (RecordSuccess(c) \/ RecordFailure(c)) /\ Raced /\ UNCHANGED <<limiter, now>>

\* The wait before a retry ends, or the caller's context is cancelled.
Backoff(c) ==
    /\ At(c, "backoff")
    /\ Goto(c, "send") \/ Return(c, "failed")
    /\ UNCHANGED <<cb, limiter, now, history>>

----------------------------------------------------------------------------
(* The server's RateLimiter and the answer *)

\* A refill without the cap.
BucketUncapped ==
    LET cleaning == now - limiter.clean > CleanEvery
        gone     == limiter.tokens = -1 \/ (cleaning /\ now - limiter.last > IdleMax)
    IN  [tokens |-> IF gone THEN Burst ELSE limiter.tokens + (now - limiter.last) * Rate,
         last |-> now, clean |-> IF cleaning THEN now ELSE limiter.clean]

\* The bucket Allow works on: idle ones are removed now and then, a new one is full,
\* an old one is refilled for the time that has passed.
Bucket ==
    LET cleaning == now - limiter.clean > CleanEvery
        gone     == limiter.tokens = -1 \/ (cleaning /\ now - limiter.last > IdleMax)
        refilled == limiter.tokens + (now - limiter.last) * Rate
    IN  [tokens |-> IF gone \/ refilled > Burst THEN Burst ELSE refilled,
         last |-> now, clean |-> IF cleaning THEN now ELSE limiter.clean]

\* An error that carries no status (here 0) came from the network or from an answer cut
\* short.
RetryableStatus == {502, 503, 504}
isRetryable(status) == status = 0 \/ status \in RetryableStatus

\* An error that is not retryable is returned with its status: 4xx or 500.
Kind(status) == IF isRetryable(status) THEN "retryable" ELSE IF status < 500 THEN "refused" ELSE "broken"

Fails(call, status) == [call EXCEPT !.pc = "failure1", !.error = Kind(status)]

CarriedOut(call) == [call EXCEPT !.done = @ + 1]

\* A handler answers 4xx, or 503 for a sealed vault, before it has changed anything, and
\* 500 to any error of the manager, such as a write that failed or whose answer was lost.
ErrorAnswers(call) == {Fails(call, 400), Fails(call, 503), Fails(call, 500), Fails(CarriedOut(call), 500)}

\* doOnce, when the request reaches the server: over the limit it is answered with
\* 429, which is not retried; else the server carries it out, and the answer arrives or
\* is lost, or it answers with an error.
Arrive(c) ==
    /\ At(c, "send")
    /\ IF Bucket.tokens < 1
       THEN /\ limiter' = Bucket
            /\ Set(c, Fails(Call(c), 429))
            /\ history' = history
       ELSE /\ limiter' = [Bucket EXCEPT !.tokens = @ - 1]
            /\ history' = [history EXCEPT !.let = [t \in 0..MaxTime |-> @[t] + (IF t <= now THEN 1 ELSE 0)]]
            /\ \/ Set(c, [CarriedOut(Call(c)) EXCEPT !.pc = "success1"])
               \/ Set(c, Fails(CarriedOut(Call(c)), 0))
               \/ \E call \in ErrorAnswers(Call(c)) : Set(c, call)
    /\ UNCHANGED <<cb, now>>

\* The request does not reach the server: a network error, which is retried.
Lost(c) ==
    /\ At(c, "send")
    /\ Set(c, Fails(Call(c), 0))
    /\ UNCHANGED <<cb, limiter, now, history>>

Step(c) == AllowCas(c) \/ Lost(c) \/ Arrive(c) \/ Record(c) \/ Backoff(c)

Next == Tick \/ \E c \in Callers : Begin(c) \/ Step(c)

\* doOnce ends by the HTTP client's timeout at the latest, a backoff by its timer.
Spec == Init /\ [][Next]_vars /\ \A c \in Callers : WF_vars(Step(c))

----------------------------------------------------------------------------

\* While nothing is being recorded, the breaker is closed below the threshold of
\* failures since the last success and not closed at it, unless a success and a
\* failure were once recorded at the same time
\* (retry_circuit_breaker.go: RecordSuccess, RecordFailure).
BreakerMatchesCount ==
    Recording = {} /\ ~history.raced => (cb.state = "closed" <=> cb.count < Threshold)

\* What a call returns is true of the server: after a success the operation was carried
\* out, after "circuit open" or a 4xx to the first attempt it was not, and it never was
\* more often than there are attempts.  A 500 tells nothing, nor does a 4xx to a later
\* attempt: the operation may have been carried out (retry_circuit_breaker.go:
\* doWithRetry; handler_keys.go).
AnswersTruthful ==
    \A c \in Callers :
        /\ Call(c).done <= MaxRetries + 1
        /\ Call(c).result = "ok" => Call(c).done >= 1
        /\ Call(c).result = "open" => Call(c).done = 0
        /\ Call(c).result = "refused" /\ Call(c).attempt = 0 => Call(c).done = 0

\* In every stretch of time up to now the server lets in no more than the burst and
\* what the rate allows for it, however the requests are spread and although idle
\* buckets are removed (ratelimit.go: Allow).
AcceptedWithinRate ==
    \A t \in 0..now : history.let[t] <= Burst + Rate * (now - t)

\* Every call returns, whatever fails (retry_circuit_breaker.go: doWithRetry).
CallReturns == \A c \in Callers : []<>At(c, "idle")
=============================================================================
