------------------------- MODULE ClientCallsProofs -------------------------
(***************************************************************************)
(* Proofs about ClientCalls, for any number of callers and calls and for   *)
(* every threshold, number of retries, rate, burst and idle time that the  *)
(* assumption allows.                                                      *)
(***************************************************************************)
EXTENDS ClientCalls, TLAPS

Pcs == {"idle", "cas", "send", "backoff"} \cup SuccessSteps \cup FailureSteps
Errors == {"none", "retryable", "refused", "broken"}
Results == {"none", "ok", "open", "refused", "broken", "failed"}

Breakers == [state : {"closed", "open", "half-open"}, count : Nat, last : Nat]
Calls == [pc : Pcs, attempt : Nat, error : Errors, count : Nat, done : Nat, result : Results]
Limiters == [tokens : Nat \cup {-1}, last : Nat, clean : Nat]
Histories == [calls : Nat, let : [0..MaxTime -> Nat], raced : BOOLEAN]

Types ==
  /\ cb \in Breakers
  /\ caller \in [Callers -> Calls]
  /\ limiter \in Limiters
  /\ now \in 0..MaxTime
  /\ history \in Histories

(* How far a call is and what the server has done for it so far.           *)
CallIsTruthful(C) ==
  /\ C.attempt <= MaxRetries /\ C.done <= C.attempt + 1
  /\ C.pc \in {"cas", "send", "backoff"} => C.done <= C.attempt
  /\ C.pc = "cas" => C.done = 0
  /\ C.pc \notin {"failure1", "failure2", "failure3"} => C.error = "none"
  /\ C.pc \in {"success1", "success2"} => C.done >= 1
  /\ C.error = "refused" /\ C.attempt = 0 => C.done = 0
  /\ C.pc # "idle" => C.result = "none"
  /\ C.result = "ok" => C.done >= 1
  /\ C.result = "open" => C.done = 0
  /\ C.result = "refused" /\ C.attempt = 0 => C.done = 0

AllTruthful == \A c \in Callers : CallIsTruthful(caller[c])

(* What the bucket still holds and what it has let in since t are together *)
(* within the bound at the time of its last refill; later than that nothing *)
(* has been let in.                                                        *)
WithinBound ==
  IF limiter.tokens = -1
  THEN \A t \in 0..MaxTime : history.let[t] = 0
  ELSE /\ limiter.tokens <= Burst /\ limiter.last <= now
       /\ \A t \in 0..MaxTime :
            IF t > limiter.last THEN history.let[t] = 0
            ELSE history.let[t] + limiter.tokens <= Burst + Rate * (limiter.last - t)

(* The breaker between the writes.  Unless a success and a failure are     *)
(* being recorded together: with a failure under way, the count is ahead   *)
(* of the state only on behalf of a caller that is about to open it; with  *)
(* a success half recorded, the count is back at 0.                        *)
Succeeding == {c \in Callers : caller[c].pc \in {"success1", "success2"}}
Failing    == {c \in Callers : caller[c].pc \in {"failure1", "failure2", "failure3"}}
Opening    == {c \in Callers : caller[c].pc \in {"failure2", "failure3"}}
Closing    == {c \in Callers : caller[c].pc = "success2"}

CountFits(c) ==
  /\ caller[c].count <= cb.count
  /\ caller[c].pc = "failure3" => caller[c].count >= Threshold

BreakerBetween ==
  ~history.raced /\ (Succeeding = {} \/ Failing = {}) =>
    /\ \A c \in Opening : CountFits(c)
    /\ Closing # {} => cb.count = 0
    /\ Closing = {} /\ cb.state # "closed" => cb.count >= Threshold
    /\ Closing = {} /\ cb.state = "closed" /\ cb.count >= Threshold =>
         \E c \in Opening : caller[c].count >= Threshold

Inv == Types /\ AllTruthful /\ WithinBound /\ BreakerBetween
-----------------------------------------------------------------------------
(* More time at the same rate allows no less (ratelimit.go: Allow).        *)
LEMMA TimeAllowsMore ==
  ASSUME NEW r \in Nat, NEW a \in Nat, NEW b \in Nat, a <= b
  PROVE  r * a \in Nat /\ r * b \in Nat /\ r * a <= r * b
<1>1. r * (b - a) \in Nat /\ r * a \in Nat /\ r * b \in Nat
  OBVIOUS
<1>2. r * b = r * a + r * (b - a)
  OBVIOUS
<1> QED BY <1>1, <1>2

(* What the rate allows adds up over adjacent stretches of time.           *)
LEMMA Distributes ==
  ASSUME NEW r \in Nat, NEW a \in Nat, NEW b \in Nat
  PROVE  r * a \in Nat /\ r * b \in Nat /\ r * (a + b) = r * a + r * b /\ b * r = r * b
OBVIOUS

(* Init gives every variable a value of its type.                          *)
LEMMA TypesInit == Init => Types
<1> SUFFICES ASSUME Init PROVE Types
  OBVIOUS
<1>1. [NewCall EXCEPT !.pc = "idle"] \in Calls
  BY DEF NewCall, Calls, Pcs, SuccessSteps, FailureSteps, Errors, Results
<1>2. cb \in Breakers /\ limiter \in Limiters /\ history \in Histories /\ now \in 0..MaxTime
  BY ClientAssumption DEF Init, Breakers, Limiters, Histories
<1> QED BY <1>1, <1>2 DEF Init, Types

(* A call, field by field.                                                 *)
Is(D, pc, attempt, error, count, done, result) ==
  /\ D \in Calls
  /\ D.pc = pc /\ D.attempt = attempt /\ D.error = error
  /\ D.count = count /\ D.done = done /\ D.result = result

(* The updates of a call that the actions are made of                      *)
(* (retry_circuit_breaker.go: doWithRetry, doOnce).                        *)

(* A call goes on to another step.                                         *)
LEMMA Going ==
  ASSUME NEW C \in Calls, NEW p \in Pcs,
         NEW D, D = [C EXCEPT !.pc = p]
  PROVE  Is(D, p, C.attempt, C.error, C.count, C.done, C.result)
BY DEF Calls, Pcs, SuccessSteps, FailureSteps, Errors, Results, Is

(* A call returns to its caller.                                           *)
LEMMA Returning ==
  ASSUME NEW C \in Calls, NEW r \in Results,
         NEW D, D = [C EXCEPT !.pc = "idle", !.result = r, !.error = "none", !.count = 0]
  PROVE  Is(D, "idle", C.attempt, "none", 0, C.done, r)
BY Zenon DEF Calls, Pcs, SuccessSteps, FailureSteps, Errors, Results, Is

(* A new call is refused by the open breaker.                              *)
LEMMA Refusing ==
  ASSUME NEW D, D = [NewCall EXCEPT !.pc = "idle", !.result = "open"]
  PROVE  Is(D, "idle", 0, "none", 0, 0, "open")
<1>1. NewCall \in Calls
  BY DEF NewCall, Calls, Pcs, SuccessSteps, FailureSteps, Errors, Results
<1>2. D \in Calls
  BY <1>1, Zenon DEF Calls, Pcs, SuccessSteps, FailureSteps, Results
<1> QED BY <1>2 DEF NewCall, Is

(* A call waits before its next attempt.                                   *)
LEMMA Retrying ==
  ASSUME NEW C \in Calls, NEW n \in Nat,
         NEW D, D = [C EXCEPT !.pc = "backoff", !.attempt = n, !.error = "none", !.count = 0]
  PROVE  Is(D, "backoff", n, "none", 0, C.done, C.result)
BY Zenon DEF Calls, Pcs, SuccessSteps, FailureSteps, Errors, Results, Is

(* RecordFailure has taken its count.                                      *)
LEMMA Counting ==
  ASSUME NEW C \in Calls, NEW n \in Nat,
         NEW D, D = [C EXCEPT !.pc = "failure2", !.count = n]
  PROVE  Is(D, "failure2", C.attempt, C.error, n, C.done, C.result)
BY Zenon DEF Calls, Pcs, SuccessSteps, FailureSteps, Errors, Results, Is

(* An attempt has failed.                                                  *)
LEMMA FailingOnce ==
  ASSUME NEW C \in Calls, NEW e \in Errors,
         NEW D, D = [C EXCEPT !.pc = "failure1", !.error = e]
  PROVE  Is(D, "failure1", C.attempt, e, C.count, C.done, C.result)
BY Zenon DEF Calls, Pcs, SuccessSteps, FailureSteps, Errors, Results, Is

(* A failure is retryable, a refusal or a 500, as its status says.         *)
LEMMA Kinds ==
  /\ \A status : Kind(status) \in {"retryable", "refused", "broken"}
  /\ Kind(0) = "retryable" /\ Kind(500) = "broken"
BY DEF Kind, isRetryable, RetryableStatus

(* An attempt has failed with a status.                                    *)
LEMMA FailingWith ==
  ASSUME NEW C \in Calls, NEW status
  PROVE  Is(Fails(C, status), "failure1", C.attempt, Kind(status), C.count, C.done, C.result)
<1>1. Kind(status) \in Errors
  BY Kinds DEF Errors
<1>2. Fails(C, status) = [C EXCEPT !.pc = "failure1", !.error = Kind(status)]
  BY Zenon DEF Fails
<1> QED BY <1>1, <1>2, FailingOnce, Zenon

(* The server has carried the call out.                                    *)
LEMMA Serving ==
  ASSUME NEW C \in Calls
  PROVE  Is(CarriedOut(C), C.pc, C.attempt, C.error, C.count, C.done + 1, C.result)
BY DEF CarriedOut, Calls, Pcs, SuccessSteps, FailureSteps, Errors, Results, Is

(* A step of one caller changes that caller's call only.                   *)
LEMMA OneCall ==
  ASSUME caller \in [Callers -> Calls], NEW c \in Callers, NEW C \in Calls, Set(c, C)
  PROVE  /\ caller' \in [Callers -> Calls]
         /\ caller'[c] = C
         /\ \A d \in Callers : d # c => caller'[d] = caller[d]
BY DEF Set

-----------------------------------------------------------------------------
(* What each action does to the call of its caller                         *)

(* Begin: a new call, at its first attempt, at the compare-and-swap or     *)
(* refused (CircuitBreaker.Allow).                                         *)
LEMMA BeginMoves ==
  ASSUME Types, NEW c \in Callers, Begin(c)
  PROVE  /\ caller[c].pc = "idle" /\ cb' = cb
         /\ \E D : /\ Set(c, D)
                   /\ \/ \E p \in {"send", "cas"} : Is(D, p, 0, "none", 0, 0, "none")
                      \/ Is(D, "idle", 0, "none", 0, 0, "open")
<1>1. NewCall \in Calls /\ Is(NewCall, "send", 0, "none", 0, 0, "none")
  BY DEF NewCall, Is, Calls, Pcs, SuccessSteps, FailureSteps, Errors, Results
<1>2. \A D : D = [NewCall EXCEPT !.pc = "cas"] => Is(D, "cas", 0, "none", 0, 0, "none")
  BY <1>1, Going DEF Is, Pcs, SuccessSteps, FailureSteps
<1>3. \A D : D = [NewCall EXCEPT !.pc = "idle", !.result = "open"] =>
              Is(D, "idle", 0, "none", 0, 0, "open")
  BY Refusing
<1>4. \/ Set(c, NewCall)
      \/ Set(c, [NewCall EXCEPT !.pc = "cas"])
      \/ Set(c, [NewCall EXCEPT !.pc = "idle", !.result = "open"])
  <2>1. CASE cb.state # "open"
    BY <2>1 DEF Begin
  <2>2. CASE cb.state = "open" /\ now - cb.last > ResetTimeout
    BY <2>2 DEF Begin
  <2>3. CASE cb.state = "open" /\ ~(now - cb.last > ResetTimeout)
    BY <2>3 DEF Begin
  <2> QED BY <2>1, <2>2, <2>3
<1>5. caller[c].pc = "idle" /\ cb' = cb
  BY DEF Begin, At, Call
<1> QED BY <1>1, <1>2, <1>3, <1>4, <1>5

(* AllowCas: the one that swaps goes on, the others are refused.           *)
LEMMA AllowMoves ==
  ASSUME Types, NEW c \in Callers, AllowCas(c)
  PROVE  /\ caller[c].pc = "cas"
         /\ \/ /\ cb.state = "open" /\ cb' = [cb EXCEPT !.state = "half-open"]
               /\ \E D : Set(c, D) /\ Is(D, "send", caller[c].attempt, caller[c].error, caller[c].count,
                                        caller[c].done, caller[c].result)
            \/ /\ cb' = cb
               /\ \E D : Set(c, D) /\ Is(D, "idle", caller[c].attempt, "none", 0, caller[c].done, "open")
<1>1. caller[c] \in Calls
  BY DEF Types
<1>2. caller[c].pc = "cas"
  BY DEF AllowCas, At, Call
<1>3. CASE cb.state = "open"
  <2>1. cb' = [cb EXCEPT !.state = "half-open"] /\ Set(c, [caller[c] EXCEPT !.pc = "send"])
    BY <1>3 DEF AllowCas, Goto, Call
  <2> QED BY <1>1, <1>2, <1>3, <2>1, Going DEF Pcs, SuccessSteps, FailureSteps
<1>4. CASE cb.state # "open"
  <2>1. cb' = cb /\ Set(c, [caller[c] EXCEPT !.pc = "idle", !.result = "open", !.error = "none", !.count = 0])
    BY <1>4 DEF AllowCas, Return, Call
  <2> QED BY <1>1, <1>2, <2>1, Returning, Zenon DEF Results
<1> QED BY <1>3, <1>4

(* Arrive and Lost: the attempt succeeds, or it fails, and then with a     *)
(* refusal only if the server has not carried it out (doOnce, isRetryable). *)
LEMMA SendMoves ==
  ASSUME Types, NEW c \in Callers, Arrive(c) \/ Lost(c)
  PROVE  /\ caller[c].pc = "send" /\ cb' = cb
         /\ \E D : /\ Set(c, D)
                   /\ \/ Is(D, "success1", caller[c].attempt, caller[c].error, caller[c].count,
                            caller[c].done + 1, caller[c].result)
                      \/ \E e \in {"retryable", "broken"} :
                           Is(D, "failure1", caller[c].attempt, e, caller[c].count,
                              caller[c].done + 1, caller[c].result)
                      \/ \E e \in {"retryable", "refused", "broken"} :
                           Is(D, "failure1", caller[c].attempt, e, caller[c].count,
                              caller[c].done, caller[c].result)
<1> DEFINE C == caller[c]
           E == CarriedOut(C)
<1>1. C \in Calls
  BY DEF Types
<1>2. C.pc = "send" /\ cb' = cb
  BY DEF Arrive, Lost, At, Call
<1>3. \/ Set(c, [E EXCEPT !.pc = "success1"])
      \/ \E status \in {0, 500} : Set(c, Fails(E, status))
      \/ \E status : Set(c, Fails(C, status))
  <2>1. CASE Lost(c)
    BY <2>1, Zenon DEF Lost, Call
  <2>2. CASE Arrive(c) /\ Bucket.tokens < 1
    BY <2>2 DEF Arrive, Call
  <2>3. CASE Arrive(c) /\ ~(Bucket.tokens < 1)
    <3>1. \/ Set(c, [CarriedOut(Call(c)) EXCEPT !.pc = "success1"])
          \/ Set(c, Fails(CarriedOut(Call(c)), 0))
          \/ \E call \in ErrorAnswers(Call(c)) : Set(c, call)
      BY <2>3, Zenon DEF Arrive
    <3>2. ASSUME NEW call \in ErrorAnswers(Call(c))
          PROVE  (\E status : call = Fails(C, status)) \/ call = Fails(E, 500)
      BY <3>2 DEF ErrorAnswers, Call
    <3> HIDE DEF E
    <3>3. E = CarriedOut(Call(c))
      BY DEF E, Call
    <3> QED BY <3>1, <3>2, <3>3
  <2> QED BY <2>1, <2>2, <2>3
<1>4. Is(E, C.pc, C.attempt, C.error, C.count, C.done + 1, C.result)
  BY <1>1, Serving
<1>5. E \in Calls /\ E.attempt = C.attempt /\ E.error = C.error /\ E.count = C.count
      /\ E.done = C.done + 1 /\ E.result = C.result
  BY <1>4, Zenon DEF Is
<1> HIDE DEF E
<1>6. CASE Set(c, [E EXCEPT !.pc = "success1"])
  <2>1. "success1" \in Pcs
    BY DEF Pcs, SuccessSteps
  <2>2. \A D : D = [E EXCEPT !.pc = "success1"] =>
              Is(D, "success1", E.attempt, E.error, E.count, E.done, E.result)
    BY <1>5, <2>1, Going, Zenon
  <2> QED BY <1>2, <1>5, <1>6, <2>2
<1>7. ASSUME NEW status \in {0, 500}, Set(c, Fails(E, status))
      PROVE  \E D : /\ Set(c, D)
                    /\ \E e \in {"retryable", "broken"} :
                         Is(D, "failure1", C.attempt, e, C.count, C.done + 1, C.result)
  <2>1. Kind(status) \in {"retryable", "broken"}
    BY Kinds
  <2>2. Is(Fails(E, status), "failure1", E.attempt, Kind(status), E.count, E.done, E.result)
    BY <1>5, FailingWith, Zenon
  <2> QED BY <1>5, <1>7, <2>1, <2>2, Zenon
<1>8. ASSUME NEW status, Set(c, Fails(C, status))
      PROVE  \E D : /\ Set(c, D)
                    /\ \E e \in {"retryable", "refused", "broken"} :
                         Is(D, "failure1", C.attempt, e, C.count, C.done, C.result)
  <2> HIDE DEF C
  <2>1. Is(Fails(C, status), "failure1", C.attempt, Kind(status), C.count, C.done, C.result)
    BY <1>1, FailingWith, Zenon
  <2> QED BY <1>8, <2>1, Kinds, Zenon
<1> QED BY <1>2, <1>3, <1>6, <1>7, <1>8

(* After a failure the call returns its error, gives up or tries again     *)
(* (doWithRetry).                                                          *)
After(C, D) ==
  \/ Is(D, "idle", C.attempt, "none", 0, C.done, C.error)
  \/ Is(D, "idle", C.attempt, "none", 0, C.done, "failed")
  \/ C.attempt # MaxRetries /\ Is(D, "backoff", C.attempt + 1, "none", 0, C.done, C.result)

(* Record: the writes of RecordSuccess and RecordFailure one by one, and   *)
(* after the last one the return or the next attempt (doWithRetry).        *)
LEMMA RecordMoves ==
  ASSUME Types, NEW c \in Callers, Record(c)
  PROVE
    \/ /\ caller[c].pc = "success1" /\ cb' = [cb EXCEPT !.count = 0]
       /\ \E D : Set(c, D) /\ Is(D, "success2", caller[c].attempt, caller[c].error, caller[c].count,
                                caller[c].done, caller[c].result)
    \/ /\ caller[c].pc = "success2" /\ cb' = [cb EXCEPT !.state = "closed"]
       /\ \E D : Set(c, D) /\ Is(D, "idle", caller[c].attempt, "none", 0, caller[c].done, "ok")
    \/ /\ caller[c].pc = "failure1" /\ cb' = [cb EXCEPT !.count = cb.count + 1]
       /\ \E D : Set(c, D) /\ Is(D, "failure2", caller[c].attempt, caller[c].error, cb.count + 1,
                                caller[c].done, caller[c].result)
    \/ /\ caller[c].pc = "failure2" /\ cb' = [cb EXCEPT !.last = now]
       /\ \/ /\ caller[c].count >= Threshold
             /\ \E D : Set(c, D) /\ Is(D, "failure3", caller[c].attempt, caller[c].error, caller[c].count,
                                      caller[c].done, caller[c].result)
          \/ /\ ~(caller[c].count >= Threshold)
             /\ \E D : Set(c, D) /\ After(caller[c], D)
    \/ /\ caller[c].pc = "failure3" /\ cb' = [cb EXCEPT !.state = "open"]
       /\ \E D : Set(c, D) /\ After(caller[c], D)
<1> DEFINE C == caller[c]
<1>1. C \in Calls /\ C.attempt + 1 \in Nat /\ cb.count + 1 \in Nat
  BY DEF Types, Calls, Breakers
<1>2. ASSUME C.pc = "success1", cb' = [cb EXCEPT !.count = 0], Goto(c, "success2")
      PROVE  \E D : Set(c, D) /\ Is(D, "success2", C.attempt, C.error, C.count, C.done, C.result)
  <2>1. Set(c, [C EXCEPT !.pc = "success2"])
    BY <1>2 DEF Goto, Call
  <2> HIDE DEF C
  <2> QED BY <1>1, <2>1, Going DEF Pcs, SuccessSteps, FailureSteps
<1>3. ASSUME NEW r \in Results, Return(c, r)
      PROVE  \E D : Set(c, D) /\ Is(D, "idle", C.attempt, "none", 0, C.done, r)
  <2>1. Set(c, [C EXCEPT !.pc = "idle", !.result = r, !.error = "none", !.count = 0])
    BY <1>3 DEF Return, Call
  <2> HIDE DEF C
  <2>2. \A D : D = [C EXCEPT !.pc = "idle", !.result = r, !.error = "none", !.count = 0] =>
              Is(D, "idle", C.attempt, "none", 0, C.done, r)
    BY <1>1, Returning, Zenon
  <2> QED BY <2>1, <2>2
<1>4. ASSUME Set(c, [C EXCEPT !.pc = "failure2", !.count = cb.count + 1])
      PROVE  \E D : Set(c, D) /\ Is(D, "failure2", C.attempt, C.error, cb.count + 1, C.done, C.result)
  <2> HIDE DEF C
  <2>1. \A D : D = [C EXCEPT !.pc = "failure2", !.count = cb.count + 1] =>
              Is(D, "failure2", C.attempt, C.error, cb.count + 1, C.done, C.result)
    BY <1>1, Counting, Zenon
  <2> QED BY <1>4, <2>1
<1>5. ASSUME AfterFailure(c)
      PROVE  \E D : Set(c, D) /\ After(C, D)
  <2>1. CASE C.error # "retryable"
    <3>1. Return(c, C.error)
      BY <1>5, <2>1 DEF AfterFailure, Call
    <3>2. C.error \in Results
      BY <1>1, <2>1 DEF Calls, Errors, Results
    <3> QED BY <1>3, <3>1, <3>2, Zenon DEF After
  <2>2. CASE C.error = "retryable" /\ C.attempt = MaxRetries
    <3>1. Return(c, "failed")
      BY <1>5, <2>2 DEF AfterFailure, Call
    <3> QED BY <1>3, <3>1 DEF Results, After
  <2>3. CASE C.error = "retryable" /\ C.attempt # MaxRetries
    <3>1. Set(c, [C EXCEPT !.pc = "backoff", !.attempt = C.attempt + 1, !.error = "none", !.count = 0])
      BY <1>5, <2>3 DEF AfterFailure, Call
    <3> HIDE DEF C
    <3>2. \A D : D = [C EXCEPT !.pc = "backoff", !.attempt = C.attempt + 1, !.error = "none", !.count = 0] =>
                Is(D, "backoff", C.attempt + 1, "none", 0, C.done, C.result)
      BY <1>1, Retrying, Zenon
    <3> QED BY <2>3, <3>1, <3>2, Zenon DEF After
  <2> QED BY <2>1, <2>2, <2>3
<1>6. CASE At(c, "success1") /\ cb' = [cb EXCEPT !.count = 0] /\ Goto(c, "success2")
  BY <1>2, <1>6 DEF At, Call
<1>7. CASE At(c, "success2") /\ cb' = [cb EXCEPT !.state = "closed"] /\ Return(c, "ok")
  BY <1>3, <1>7 DEF At, Call, Results
<1>8. CASE At(c, "failure1") /\ cb' = [cb EXCEPT !.count = cb.count + 1]
            /\ Set(c, [C EXCEPT !.pc = "failure2", !.count = cb.count + 1])
  BY <1>4, <1>8 DEF At, Call
<1>9. CASE At(c, "failure2") /\ cb' = [cb EXCEPT !.last = now] /\ C.count >= Threshold /\ Goto(c, "failure3")
  <2>1. Set(c, [C EXCEPT !.pc = "failure3"])
    BY <1>9 DEF Goto, Call
  <2>2. "failure3" \in Pcs
    BY DEF Pcs, FailureSteps
  <2> HIDE DEF C
  <2>3. \E D : Set(c, D) /\ Is(D, "failure3", C.attempt, C.error, C.count, C.done, C.result)
    BY <1>1, <2>1, <2>2, Going, Zenon
  <2> QED BY <1>9, <2>3, Zenon DEF At, Call, C
<1>10. CASE At(c, "failure2") /\ cb' = [cb EXCEPT !.last = now] /\ ~(C.count >= Threshold) /\ AfterFailure(c)
  BY <1>5, <1>10, Zenon DEF At, Call
<1>11. CASE At(c, "failure3") /\ cb' = [cb EXCEPT !.state = "open"] /\ AfterFailure(c)
  BY <1>5, <1>11, Zenon DEF At, Call
<1> QED BY <1>6, <1>7, <1>8, <1>9, <1>10, <1>11 DEF Record, RecordSuccess, RecordFailure, Call

(* Backoff: the next attempt, or the end of the call.                      *)
LEMMA BackoffMoves ==
  ASSUME Types, NEW c \in Callers, Backoff(c)
  PROVE  /\ caller[c].pc = "backoff" /\ cb' = cb
         /\ \E D : /\ Set(c, D)
                   /\ \/ Is(D, "send", caller[c].attempt, caller[c].error, caller[c].count,
                            caller[c].done, caller[c].result)
                      \/ Is(D, "idle", caller[c].attempt, "none", 0, caller[c].done, "failed")
<1> DEFINE C == caller[c]
<1>1. C \in Calls
  BY DEF Types
<1>2. C.pc = "backoff" /\ cb' = cb
  BY DEF Backoff, At, Call
<1>3. \/ Set(c, [C EXCEPT !.pc = "send"])
      \/ Set(c, [C EXCEPT !.pc = "idle", !.result = "failed", !.error = "none", !.count = 0])
  BY DEF Backoff, Goto, Return, Call
<1> HIDE DEF C
<1>4. \A D : D = [C EXCEPT !.pc = "send"] => Is(D, "send", C.attempt, C.error, C.count, C.done, C.result)
  BY <1>1, Going DEF Pcs, SuccessSteps, FailureSteps
<1>5. \A D : D = [C EXCEPT !.pc = "idle", !.result = "failed", !.error = "none", !.count = 0] =>
            Is(D, "idle", C.attempt, "none", 0, C.done, "failed")
  BY <1>1, Returning, Zenon DEF Results
<1> QED BY <1>2, <1>3, <1>4, <1>5 DEF C

-----------------------------------------------------------------------------
(* Types and AllTruthful *)

(* A step of a caller keeps its own call truthful, and so all of them.     *)
LEMMA CallsTruthful ==
  ASSUME Types, AllTruthful, NEW c \in Callers, Begin(c) \/ Step(c)
  PROVE  caller' \in [Callers -> Calls] /\ AllTruthful'
<1> DEFINE C == caller[c]
<1>1. C \in Calls /\ CallIsTruthful(C) /\ MaxRetries \in Nat
  BY ClientAssumption DEF Types, AllTruthful
<1>2. C.attempt \in Nat /\ C.done \in Nat
  BY <1>1 DEF Calls
<1>3. \E D \in Calls : Set(c, D) /\ CallIsTruthful(D)
  <2>1. CASE Begin(c)
    BY <1>1, <2>1, BeginMoves DEF Is, CallIsTruthful
  <2>2. CASE AllowCas(c)
    BY <1>1, <1>2, <2>2, AllowMoves DEF Is, CallIsTruthful
  <2>3. CASE Arrive(c) \/ Lost(c)
    BY <1>1, <1>2, <2>3, SendMoves DEF Is, CallIsTruthful
  <2>4. CASE Record(c)
    <3>1. CASE C.pc = "success1"
      <4>1. PICK D : Set(c, D) /\ Is(D, "success2", C.attempt, C.error, C.count, C.done, C.result)
        BY <2>4, <3>1, RecordMoves, Zenon
      <4> QED BY <1>1, <1>2, <3>1, <4>1 DEF Is, CallIsTruthful
    <3>2. CASE C.pc = "success2"
      <4>1. PICK D : Set(c, D) /\ Is(D, "idle", C.attempt, "none", 0, C.done, "ok")
        BY <2>4, <3>2, RecordMoves, Zenon
      <4> QED BY <1>1, <1>2, <3>2, <4>1 DEF Is, CallIsTruthful
    <3>3. CASE C.pc = "failure1"
      <4>1. PICK D : Set(c, D) /\ Is(D, "failure2", C.attempt, C.error, cb.count + 1, C.done, C.result)
        BY <2>4, <3>3, RecordMoves, Zenon
      <4> QED BY <1>1, <1>2, <3>3, <4>1 DEF Is, CallIsTruthful
    <3>4. ASSUME NEW D, Set(c, D), After(C, D), C.pc \in {"failure2", "failure3"}
          PROVE  \E G \in Calls : Set(c, G) /\ CallIsTruthful(G)
      <4>1. C.error \notin {"ok", "open"}
        BY <1>1 DEF Calls, Errors
      <4>2. CASE Is(D, "idle", C.attempt, "none", 0, C.done, C.error)
        BY <1>1, <1>2, <3>4, <4>1, <4>2 DEF Is, CallIsTruthful
      <4>3. CASE Is(D, "idle", C.attempt, "none", 0, C.done, "failed")
        BY <1>1, <1>2, <3>4, <4>3 DEF Is, CallIsTruthful
      <4>4. CASE C.attempt # MaxRetries /\ Is(D, "backoff", C.attempt + 1, "none", 0, C.done, C.result)
        BY <1>1, <1>2, <3>4, <4>4 DEF Is, CallIsTruthful
      <4> QED BY <3>4, <4>2, <4>3, <4>4, Zenon DEF After
    <3>5. CASE C.pc = "failure2" /\ C.count >= Threshold
      <4>1. PICK D : Set(c, D) /\ Is(D, "failure3", C.attempt, C.error, C.count, C.done, C.result)
        BY <2>4, <3>5, RecordMoves, Zenon
      <4> QED BY <1>1, <1>2, <3>5, <4>1 DEF Is, CallIsTruthful
    <3>6. CASE C.pc = "failure2" /\ ~(C.count >= Threshold)
      BY <2>4, <3>4, <3>6, RecordMoves, Zenon
    <3>7. CASE C.pc = "failure3"
      BY <2>4, <3>4, <3>7, RecordMoves, Zenon
    <3> QED BY <2>4, <3>1, <3>2, <3>3, <3>5, <3>6, <3>7, RecordMoves, Zenon
  <2>5. CASE Backoff(c)
    BY <1>1, <1>2, <2>5, BackoffMoves DEF Is, CallIsTruthful
  <2> QED BY <2>1, <2>2, <2>3, <2>4, <2>5 DEF Step
<1>4. caller \in [Callers -> Calls]
  BY DEF Types
<1> QED BY <1>3, <1>4, OneCall DEF AllTruthful

(* Every step of the breaker's methods leaves it a breaker.                *)
LEMMA BreakerTypes ==
  ASSUME Types, NEW c \in Callers, Begin(c) \/ Step(c)
  PROVE  cb' \in Breakers
<1>1. /\ cb \in Breakers /\ cb.count + 1 \in Nat /\ now \in Nat
      /\ cb.state \in {"closed", "open", "half-open"}
  BY ClientAssumption DEF Types, Breakers
<1>2. ASSUME NEW n \in Nat PROVE [cb EXCEPT !.count = n] \in Breakers
  BY <1>1 DEF Breakers
<1>3. ASSUME NEW s \in {"closed", "open", "half-open"} PROVE [cb EXCEPT !.state = s] \in Breakers
  BY <1>1 DEF Breakers
<1>4. [cb EXCEPT !.last = now] \in Breakers
  BY <1>1 DEF Breakers
<1>5. CASE AllowCas(c)
  BY <1>1, <1>3, <1>5, AllowMoves
<1>6. CASE Record(c)
  <2>1. CASE caller[c].pc = "success1"
    <3>1. [cb EXCEPT !.count = 0] \in Breakers
      BY <1>2
    <3> QED BY <1>6, <2>1, <3>1, RecordMoves, Zenon
  <2>2. CASE caller[c].pc = "success2"
    BY <1>3, <1>6, <2>2, RecordMoves, Zenon
  <2>3. CASE caller[c].pc = "failure1"
    BY <1>1, <1>2, <1>6, <2>3, RecordMoves, Zenon
  <2>4. CASE caller[c].pc = "failure2"
    BY <1>4, <1>6, <2>4, RecordMoves, Zenon
  <2>5. CASE caller[c].pc = "failure3"
    BY <1>3, <1>6, <2>5, RecordMoves, Zenon
  <2> QED BY <1>6, <2>1, <2>2, <2>3, <2>4, <2>5, RecordMoves, Zenon
<1>7. CASE Begin(c) \/ Arrive(c) \/ Lost(c) \/ Backoff(c)
  BY <1>1, <1>7 DEF Begin, Arrive, Lost, Backoff
<1> QED BY <1>5, <1>6, <1>7 DEF Step

(* The bucket Allow works on, in each of the three ways it comes about     *)
(* (ratelimit.go: Allow).                                                  *)
LEMMA BucketCases ==
  ASSUME Types, limiter.tokens # -1 => limiter.last <= now
  PROVE  /\ Bucket \in Limiters /\ Bucket.tokens \in Nat /\ Bucket.last = now
         /\ \/ limiter.tokens = -1 /\ Bucket.tokens = Burst
            \/ limiter.tokens # -1 /\ now - limiter.last > IdleMax /\ Bucket.tokens = Burst
            \/ /\ limiter.tokens # -1 /\ Bucket.tokens <= Burst
               /\ Bucket.tokens <= limiter.tokens + (now - limiter.last) * Rate
<1> DEFINE cleaning == now - limiter.clean > CleanEvery
           gone     == limiter.tokens = -1 \/ (cleaning /\ now - limiter.last > IdleMax)
           refilled == limiter.tokens + (now - limiter.last) * Rate
           tokens   == IF gone \/ refilled > Burst THEN Burst ELSE refilled
           clean    == IF cleaning THEN now ELSE limiter.clean
<1>1. /\ limiter.tokens \in Nat \cup {-1} /\ limiter.last \in Nat /\ limiter.clean \in Nat
      /\ now \in Nat /\ Burst \in Nat /\ Rate \in Nat
  BY ClientAssumption DEF Types, Limiters
<1>2. Bucket = [tokens |-> tokens, last |-> now, clean |-> clean]
  BY DEF Bucket
<1>3. clean \in Nat
  BY <1>1
<1>4. CASE gone
  <2>1. tokens = Burst
    BY <1>4
  <2> HIDE DEF tokens, clean
  <2> QED BY <1>1, <1>2, <1>3, <1>4, <2>1 DEF Limiters
<1>5. CASE ~gone
  <2>1. now - limiter.last \in Nat /\ limiter.tokens \in Nat
    BY <1>1, <1>5
  <2>2. (now - limiter.last) * Rate \in Nat
    BY <1>1, <2>1
  <2>3. refilled \in Nat
    BY <2>1, <2>2
  <2>4. tokens \in Nat /\ tokens <= Burst /\ tokens <= refilled
    <3> HIDE DEF refilled
    <3> QED BY <1>1, <1>5, <2>3
  <2> HIDE DEF tokens, clean
  <2> QED BY <1>1, <1>2, <1>3, <1>5, <2>1, <2>4 DEF Limiters
<1> QED BY <1>4, <1>5

-----------------------------------------------------------------------------
(* WithinBound *)

(* The history changes in one of its fields: the calls (Begin),            *)
LEMMA CountedCall ==
  ASSUME NEW H \in Histories, NEW n \in Nat, NEW G, G = [H EXCEPT !.calls = n]
  PROVE  G \in Histories /\ G.let = H.let /\ G.raced = H.raced
BY DEF Histories

(* the requests that were let in (Arrive),                                 *)
LEMMA CountedRequest ==
  ASSUME NEW H \in Histories, NEW L \in [0..MaxTime -> Nat], NEW G, G = [H EXCEPT !.let = L]
  PROVE  G \in Histories /\ G.raced = H.raced /\ G.let = L
BY DEF Histories

(* or the overlap of a success and a failure (Record).                     *)
LEMMA CountedRace ==
  ASSUME NEW H \in Histories, NEW b \in BOOLEAN, NEW G, G = [H EXCEPT !.raced = b]
  PROVE  G \in Histories /\ G.let = H.let /\ G.raced = b
BY DEF Histories

(* The bucket Allow works on respects the bound at this moment, also when  *)
(* it replaces one that was removed as idle: that one would have been full *)
(* (ratelimit.go: Allow, cleanup).                                         *)
LEMMA BucketWithinBound ==
  ASSUME Types, WithinBound
  PROVE  /\ Bucket \in Limiters /\ Bucket.tokens \in Nat /\ Bucket.tokens <= Burst /\ Bucket.last = now
         /\ \A t \in 0..MaxTime :
              IF t > now THEN history.let[t] = 0
              ELSE history.let[t] + Bucket.tokens <= Burst + Rate * (now - t)
<1>1. /\ limiter.tokens \in Nat \cup {-1} /\ limiter.last \in Nat /\ now \in Nat
      /\ Burst \in Nat /\ Rate \in Nat /\ IdleMax \in Nat /\ MaxTime \in Nat
      /\ history.let \in [0..MaxTime -> Nat]
  BY ClientAssumption DEF Types, Limiters, Histories
<1>2. limiter.tokens # -1 => limiter.last <= now
  BY DEF WithinBound
<1> DEFINE B == Bucket.tokens
<1>3. /\ Bucket \in Limiters /\ B \in Nat /\ Bucket.last = now
      /\ \/ limiter.tokens = -1 /\ B = Burst
         \/ limiter.tokens # -1 /\ now - limiter.last > IdleMax /\ B = Burst
         \/ limiter.tokens # -1 /\ B <= Burst /\ B <= limiter.tokens + (now - limiter.last) * Rate
  BY <1>2, BucketCases
<1>4. B <= Burst
  BY <1>1, <1>3
<1> HIDE DEF B
<1>5. ASSUME NEW t \in 0..MaxTime, t > now PROVE history.let[t] = 0
  <2>1. CASE limiter.tokens = -1
    BY <2>1, Zenon DEF WithinBound
  <2>2. CASE limiter.tokens # -1
    <3>1. t > limiter.last
      BY <1>1, <1>2, <1>5, <2>2
    <3> QED BY <2>2, <3>1, Zenon DEF WithinBound
  <2> QED BY <2>1, <2>2
<1>6. ASSUME NEW t \in 0..MaxTime, t <= now PROVE history.let[t] + B <= Burst + Rate * (now - t)
  <2> DEFINE L == history.let[t]
             due == Rate * (now - t)
  <2>1. L \in Nat /\ t \in Nat /\ now - t \in Nat /\ due \in Nat
    BY <1>1, <1>6, Distributes
  <2>2. CASE L = 0
    <3> HIDE DEF due, L
    <3>1. L + B <= Burst + due
      BY <1>1, <1>3, <1>4, <2>1, <2>2
    <3> QED BY <3>1 DEF L, due
  <2>3. CASE L # 0
    <3>1. limiter.tokens \in Nat /\ t <= limiter.last /\ limiter.last <= now
      <4>1. limiter.tokens # -1
        BY <2>3, Zenon DEF WithinBound
      <4>2. ~(t > limiter.last)
        BY <2>3, <4>1, Zenon DEF WithinBound
      <4> QED BY <1>1, <1>2, <2>1, <4>1, <4>2
    <3> DEFINE p == limiter.last - t
               q == now - limiter.last
               before == Rate * p
               since == Rate * q
    <3>2. L + limiter.tokens <= Burst + before
      <4>1. ~(t > limiter.last) /\ limiter.tokens # -1
        BY <1>1, <2>1, <3>1, SMTT(60)
      <4> QED BY <1>6, <4>1, Zenon DEF WithinBound
    <3>3. p \in Nat /\ q \in Nat /\ now - t = p + q
      BY <1>1, <2>1, <3>1, SMTT(60)
    <3>4. due = before + since /\ before \in Nat /\ since \in Nat /\ q * Rate = since
      <4> HIDE DEF p, q
      <4> QED BY <1>1, <3>3, Distributes
    <3>5. CASE q > IdleMax /\ B = Burst
      <4> DEFINE idle == Rate * IdleMax
      <4>1. idle \in Nat /\ idle <= since
        <5> HIDE DEF q
        <5> QED BY <1>1, <3>3, <3>5, TimeAllowsMore
      <4>2. Burst <= idle
        BY ClientAssumption
      <4> HIDE DEF L, due, before, since, idle
      <4>3. due = before + since /\ before \in Nat /\ since \in Nat
        BY <3>4
      <4>4. L + B <= Burst + due
        BY <1>1, <2>1, <3>1, <3>2, <3>5, <4>1, <4>2, <4>3
      <4> QED BY <4>4 DEF L, due
    <3>6. CASE B <= limiter.tokens + q * Rate
      <4>1. B <= limiter.tokens + since
        BY <3>4, <3>6
      <4> HIDE DEF L, due, before, since
      <4>2. L + B <= Burst + due
        BY <1>1, <1>3, <2>1, <3>1, <3>2, <3>4, <4>1
      <4> QED BY <4>2 DEF L, due
    <3> QED BY <1>1, <1>3, <3>1, <3>5, <3>6
  <2> QED BY <2>2, <2>3
<1> QED BY <1>1, <1>3, <1>4, <1>5, <1>6 DEF B

(* A request that arrives takes a token from the bucket or is refused; in  *)
(* both cases the bound is kept (ratelimit.go: Allow).                     *)
LEMMA ArriveWithinBound ==
  ASSUME Types, WithinBound, NEW c \in Callers, Arrive(c)
  PROVE  limiter' \in Limiters /\ history' \in Histories /\ WithinBound' /\ history'.raced = history.raced
<1>1. /\ now \in Nat /\ MaxTime \in Nat /\ Burst \in Nat /\ now' = now
      /\ history \in Histories /\ history.let \in [0..MaxTime -> Nat]
  BY ClientAssumption DEF Types, Histories, Arrive
<1> DEFINE Due(t) == Rate * (now - t)
<1>2. \A t \in 0..MaxTime : t <= now => Due(t) \in Nat
  BY ClientAssumption, <1>1
<1>3. /\ Bucket \in Limiters /\ Bucket.tokens \in Nat /\ Bucket.tokens <= Burst /\ Bucket.last = now
      /\ \A t \in 0..MaxTime : t > now => history.let[t] = 0
      /\ \A t \in 0..MaxTime : t <= now => history.let[t] + Bucket.tokens <= Burst + Due(t)
  <2>1. \A t \in 0..MaxTime : t <= now => ~(t > now)
    BY <1>1
  <2> QED BY <2>1, BucketWithinBound, Zenon
<1> HIDE DEF Due
<1>4. SUFFICES /\ limiter' \in Limiters /\ history' \in Histories /\ history'.raced = history.raced
               /\ limiter'.tokens \in Nat /\ limiter'.tokens <= Burst /\ limiter'.last = now
               /\ \A t \in 0..MaxTime : t > now => history'.let[t] = 0
               /\ \A t \in 0..MaxTime : t <= now => history'.let[t] + limiter'.tokens <= Burst + Due(t)
  <2>1. limiter'.tokens \in Nat => limiter'.tokens # -1
    OBVIOUS
  <2>2. \A t \in 0..MaxTime : ~(t > now) => t <= now
    BY <1>1
  <2>3. now <= now
    BY <1>1
  <2> QED BY <1>1, <2>1, <2>2, <2>3, Zenon DEF WithinBound, Due
<1>5. CASE Bucket.tokens < 1
  BY <1>1, <1>3, <1>5 DEF Arrive
<1>6. CASE ~(Bucket.tokens < 1)
  <2> DEFINE L == [t \in 0..MaxTime |-> history.let[t] + (IF t <= now THEN 1 ELSE 0)]
  <2>1. L \in [0..MaxTime -> Nat]
    BY <1>1
  <2>2. history' = [history EXCEPT !.let = L] /\ limiter' = [Bucket EXCEPT !.tokens = Bucket.tokens - 1]
    <3>1. history' = [history EXCEPT !.let = [t \in 0..MaxTime |-> @[t] + (IF t <= now THEN 1 ELSE 0)]]
      BY <1>6, Zenon DEF Arrive
    <3>2. limiter' = [Bucket EXCEPT !.tokens = @ - 1]
      BY <1>6, Zenon DEF Arrive
    <3> QED BY <3>1, <3>2, Zenon
  <2>3. \A t \in 0..MaxTime : L[t] = IF t <= now THEN history.let[t] + 1 ELSE history.let[t]
    BY <1>1
  <2> HIDE DEF L
  <2>4. history' \in Histories /\ history'.let = L /\ history'.raced = history.raced
    BY <1>1, <2>1, <2>2, CountedRequest
  <2>5. Bucket.tokens - 1 \in Nat
    BY <1>3, <1>6
  <2>6. ASSUME NEW b \in Limiters, NEW n \in Nat
        PROVE  LET d == [b EXCEPT !.tokens = n]
               IN  d \in Limiters /\ d.tokens = n /\ d.last = b.last
    BY DEF Limiters
  <2>7. limiter' \in Limiters /\ limiter'.tokens = Bucket.tokens - 1 /\ limiter'.last = now
    BY <1>3, <2>2, <2>5, <2>6
  <2>8. Bucket.tokens - 1 <= Burst
    BY <1>1, <1>3
  <2>9. ASSUME NEW t \in 0..MaxTime, t > now PROVE history'.let[t] = 0
    <3>1. ~(t <= now)
      BY <1>1, <2>9
    <3> QED BY <1>3, <2>3, <2>4, <2>9, <3>1, Zenon
  <2>10. ASSUME NEW t \in 0..MaxTime, t <= now PROVE history'.let[t] + limiter'.tokens <= Burst + Due(t)
    <3>1. history'.let[t] = history.let[t] + 1 /\ history.let[t] \in Nat
      BY <1>1, <2>3, <2>4, <2>10
    <3>2. history.let[t] + Bucket.tokens <= Burst + Due(t)
      BY <1>3, <2>10
    <3>3. history'.let[t] + limiter'.tokens = history.let[t] + Bucket.tokens
      BY <1>3, <2>7, <3>1
    <3> QED BY <3>2, <3>3
  <2> QED BY <2>4, <2>5, <2>7, <2>8, <2>9, <2>10
<1> QED BY <1>5, <1>6

-----------------------------------------------------------------------------
(* BreakerBetween *)

(* A Record step takes place without a race only if successes and failures *)
(* are not being recorded together, and it keeps the rest of the history.  *)
LEMMA RecordHistory ==
  ASSUME Types, NEW c \in Callers, Record(c)
  PROVE  /\ history' \in Histories /\ history'.let = history.let
         /\ ~history'.raced => ~history.raced /\ (Succeeding = {} \/ Failing = {})
<1> DEFINE overlap == \E a, d \in Recording : Call(a).pc \in SuccessSteps /\ Call(d).pc \in FailureSteps
           b == history.raced \/ overlap
<1>1. history' = [history EXCEPT !.raced = b]
  BY Zenon DEF Record, Raced
<1>2. b \in BOOLEAN /\ history \in Histories
  BY DEF Types
<1>3. history' \in Histories /\ history'.let = history.let /\ history'.raced = b
  <2> HIDE DEF b
  <2> QED BY <1>1, <1>2, CountedRace
<1>4. overlap \/ Succeeding = {} \/ Failing = {}
  BY DEF Succeeding, Failing, Recording, Call, SuccessSteps, FailureSteps
<1> HIDE DEF overlap
<1> QED BY <1>3, <1>4, Zenon

(* A step of a caller that is not recording leaves the picture of those    *)
(* that are, or adds the caller to it (Allow, doOnce, the backoff).        *)
LEMMA BetweenKeptOutside ==
  ASSUME Types, BreakerBetween, NEW c \in Callers, NEW D \in Calls, Set(c, D),
         history'.raced = history.raced,
         caller[c].pc \notin {"success1", "success2", "failure1", "failure2", "failure3"},
         D.pc \notin {"success2", "failure2", "failure3"},
         cb'.count = cb.count, cb'.state = "closed" <=> cb.state = "closed"
  PROVE  BreakerBetween'
<1>1. /\ caller'[c] = D
      /\ \A d \in Callers : d # c => caller'[d] = caller[d]
  BY OneCall DEF Types
<1>2. Opening' = Opening /\ Closing' = Closing
  BY <1>1 DEF Opening, Closing
<1>3. Succeeding \subseteq Succeeding' /\ Failing \subseteq Failing'
  BY <1>1 DEF Succeeding, Failing
<1>4. c \notin Opening /\ Opening \subseteq Callers
  BY DEF Opening
<1>5. \A d \in Opening : caller'[d] = caller[d]
  BY <1>1, <1>4
<1> HIDE DEF Opening, Closing, Succeeding, Failing
<1>6. \A d \in Opening : CountFits(d) => CountFits(d)'
  BY <1>5 DEF CountFits
<1> QED BY <1>2, <1>3, <1>5, <1>6 DEF BreakerBetween

(* The writes of RecordSuccess and RecordFailure, while only one of them   *)
(* is at work.                                                             *)
LEMMA BetweenKeptByRecord ==
  ASSUME Types, BreakerBetween, NEW c \in Callers, Record(c)
  PROVE  BreakerBetween'
<1> SUFFICES ASSUME ~history'.raced
             PROVE  /\ \A d \in Opening' : CountFits(d)'
                    /\ Closing' # {} => cb'.count = 0
                    /\ Closing' = {} /\ cb'.state # "closed" => cb'.count >= Threshold
                    /\ Closing' = {} /\ cb'.state = "closed" /\ cb'.count >= Threshold =>
                         \E d \in Opening' : caller'[d].count >= Threshold
  BY DEF BreakerBetween
<1>1. Succeeding = {} \/ Failing = {}
  BY RecordHistory
<1>2. /\ \A d \in Opening : CountFits(d)
      /\ Closing # {} => cb.count = 0
      /\ Closing = {} /\ cb.state # "closed" => cb.count >= Threshold
      /\ Closing = {} /\ cb.state = "closed" /\ cb.count >= Threshold =>
           \E d \in Opening : caller[d].count >= Threshold
  BY RecordHistory DEF BreakerBetween
<1>3. /\ caller \in [Callers -> Calls] /\ cb \in Breakers /\ cb.count \in Nat
      /\ Threshold \in Nat \ {0}
      /\ \A d \in Callers : caller[d].count \in Nat
  BY ClientAssumption DEF Types, Breakers, Calls
<1>4. Opening \subseteq Failing /\ Closing \subseteq Succeeding
  BY DEF Opening, Failing, Closing, Succeeding
<1>5. CASE caller[c].pc = "success1"
  <2>1. PICK D : Set(c, D) /\ Is(D, "success2", caller[c].attempt, caller[c].error, caller[c].count,
                                 caller[c].done, caller[c].result)
    BY <1>5, RecordMoves, Zenon
  <2>2. caller'[c].pc = "success2" /\ \A d \in Callers : d # c => caller'[d] = caller[d]
    BY <1>3, <2>1, OneCall DEF Is
  <2>3. cb' = [cb EXCEPT !.count = 0]
    BY <1>5, RecordMoves, Zenon
  <2>4. cb'.count = 0
    BY <1>3, <2>3 DEF Breakers
  <2>5. Opening = {}
    BY <1>1, <1>4, <1>5 DEF Succeeding
  <2>6. Opening' = {} /\ c \in Closing'
    BY <2>2, <2>5 DEF Opening, Closing
  <2> QED BY <2>4, <2>6
<1>6. CASE caller[c].pc = "success2"
  <2>1. PICK D : Set(c, D) /\ Is(D, "idle", caller[c].attempt, "none", 0, caller[c].done, "ok")
    BY <1>6, RecordMoves, Zenon
  <2>2. caller'[c].pc = "idle" /\ \A d \in Callers : d # c => caller'[d] = caller[d]
    BY <1>3, <2>1, OneCall DEF Is
  <2>3. cb' = [cb EXCEPT !.state = "closed"]
    BY <1>6, RecordMoves, Zenon
  <2>4. c \in Closing
    BY <1>6 DEF Closing
  <2>5. cb'.count = 0 /\ cb'.state = "closed"
    BY <1>2, <1>3, <2>3, <2>4 DEF Breakers
  <2>6. Opening = {}
    BY <1>1, <1>4, <1>6 DEF Succeeding
  <2>7. Opening' = {}
    BY <2>2, <2>6 DEF Opening
  <2> QED BY <1>3, <2>5, <2>7
<1>7. CASE caller[c].pc = "failure1"
  <2>1. PICK D : Set(c, D) /\ Is(D, "failure2", caller[c].attempt, caller[c].error, cb.count + 1,
                                 caller[c].done, caller[c].result)
    BY <1>7, RecordMoves, Zenon
  <2>2. /\ caller'[c].pc = "failure2" /\ caller'[c].count = cb.count + 1
        /\ \A d \in Callers : d # c => caller'[d] = caller[d]
    BY <1>3, <2>1, OneCall DEF Is
  <2>3. cb' = [cb EXCEPT !.count = cb.count + 1]
    BY <1>7, RecordMoves, Zenon
  <2>4. cb'.count = cb.count + 1 /\ cb'.state = cb.state
    BY <1>3, <2>3 DEF Breakers
  <2>5. Closing = {}
    BY <1>1, <1>4, <1>7 DEF Failing
  <2>6. Closing' = {} /\ Opening' = Opening \cup {c}
    BY <2>2, <2>5 DEF Opening, Closing
  <2>7. \A d \in Opening' : CountFits(d)'
    <3> SUFFICES ASSUME NEW d \in Opening' PROVE CountFits(d)'
      OBVIOUS
    <3>1. CASE d = c
      BY <1>3, <2>2, <2>4, <3>1 DEF CountFits
    <3>2. CASE d # c
      <4>1. d \in Opening /\ d \in Callers /\ caller'[d] = caller[d]
        BY <2>2, <2>6, <3>2 DEF Opening
      <4>2. CountFits(d) /\ caller[d].count \in Nat
        BY <1>2, <1>3, <4>1
      <4> QED BY <1>3, <2>4, <4>1, <4>2 DEF CountFits
    <3> QED BY <3>1, <3>2
  <2>8. cb'.count >= Threshold => \E d \in Opening' : caller'[d].count >= Threshold
    BY <2>2, <2>4, <2>6
  <2>9. cb'.state # "closed" => cb'.count >= Threshold
    BY <1>2, <1>3, <2>4, <2>5
  <2> QED BY <2>6, <2>7, <2>8, <2>9
<1>8. CASE caller[c].pc \in {"failure2", "failure3"}
  <2>1. Closing = {} /\ c \in Opening /\ Opening \subseteq Callers
    BY <1>1, <1>4, <1>8 DEF Failing, Opening
  <2>2. CASE caller[c].pc = "failure2" /\ caller[c].count >= Threshold
    <3>1. PICK D : Set(c, D) /\ Is(D, "failure3", caller[c].attempt, caller[c].error, caller[c].count,
                                   caller[c].done, caller[c].result)
      BY <2>2, RecordMoves, Zenon
    <3>2. /\ caller'[c].pc = "failure3" /\ caller'[c].count = caller[c].count
          /\ \A d \in Callers : d # c => caller'[d] = caller[d]
      BY <1>3, <3>1, OneCall DEF Is
    <3>3. cb' = [cb EXCEPT !.last = now]
      BY <2>2, RecordMoves, Zenon
    <3>4. cb'.count = cb.count /\ cb'.state = cb.state
      BY <1>3, <3>3 DEF Breakers
    <3>5. Closing' = {} /\ Opening' = Opening
      BY <2>1, <2>2, <3>2 DEF Opening, Closing
    <3>6. \A d \in Opening :
            /\ caller'[d].count = caller[d].count
            /\ caller'[d].pc = "failure3" => d = c \/ caller[d].pc = "failure3"
      BY <2>1, <3>2
    <3>7. \A d \in Opening : CountFits(d)'
      <4> SUFFICES ASSUME NEW d \in Opening PROVE CountFits(d)'
        OBVIOUS
      <4>1. CountFits(d)
        BY <1>2
      <4>2. /\ caller'[d].count = caller[d].count
            /\ caller'[d].pc = "failure3" => d = c \/ caller[d].pc = "failure3"
        BY <3>6
      <4>3. caller'[d].pc = "failure3" => caller'[d].count >= Threshold
        BY <2>2, <4>1, <4>2 DEF CountFits
      <4>4. caller'[d].count <= cb'.count
        BY <3>4, <4>1, <4>2 DEF CountFits
      <4> QED BY <4>3, <4>4 DEF CountFits
    <3>8. cb'.count >= Threshold => \E d \in Opening' : caller'[d].count >= Threshold
      BY <2>1, <2>2, <3>2, <3>5
    <3> QED BY <1>2, <2>1, <3>4, <3>5, <3>7, <3>8
  <2>3. CASE caller[c].pc = "failure3" \/ ~(caller[c].count >= Threshold)
    <3>1. PICK D : Set(c, D) /\ After(caller[c], D)
      BY <1>8, <2>3, RecordMoves, Zenon
    <3>2. D \in Calls /\ D.pc \in {"idle", "backoff"}
      BY <3>1, Zenon DEF After, Is
    <3>3. /\ caller'[c].pc \in {"idle", "backoff"}
          /\ \A d \in Callers : d # c => caller'[d] = caller[d]
      BY <1>3, <3>1, <3>2, OneCall
    <3>4. Closing' = {} /\ Opening' = Opening \ {c}
      BY <2>1, <3>3 DEF Opening, Closing
    <3>5. \A d \in Opening' : d \in Opening /\ d # c /\ caller'[d] = caller[d]
      BY <2>1, <3>3, <3>4
    <3>6. CASE caller[c].pc = "failure3"
      <4>1. cb' = [cb EXCEPT !.state = "open"]
        BY <3>6, RecordMoves, Zenon
      <4>2. cb'.count = cb.count /\ cb'.state = "open"
        BY <1>3, <4>1 DEF Breakers
      <4>3. cb.count >= Threshold
        BY <1>2, <1>3, <2>1, <3>6 DEF CountFits
      <4>4. \A d \in Opening' : CountFits(d)'
        BY <1>2, <3>5, <4>2, Zenon DEF CountFits
      <4> QED BY <3>4, <4>2, <4>3, <4>4
    <3>7. CASE caller[c].pc = "failure2" /\ ~(caller[c].count >= Threshold)
      <4>1. cb' = [cb EXCEPT !.last = now]
        BY <3>7, RecordMoves, Zenon
      <4>2. cb'.count = cb.count /\ cb'.state = cb.state
        BY <1>3, <4>1 DEF Breakers
      <4>3. ASSUME cb.state = "closed", cb.count >= Threshold
            PROVE  \E d \in Opening' : caller'[d].count >= Threshold
        BY <1>2, <2>1, <3>3, <3>4, <3>7, <4>3
      <4>4. \A d \in Opening' : CountFits(d)'
        BY <1>2, <3>5, <4>2, Zenon DEF CountFits
      <4> QED BY <1>2, <2>1, <3>4, <4>2, <4>3, <4>4
    <3> QED BY <1>8, <2>3, <3>6, <3>7
  <2> QED BY <1>8, <2>2, <2>3
<1> QED BY <1>5, <1>6, <1>7, <1>8, RecordMoves, Zenon

-----------------------------------------------------------------------------
(* Every step keeps the types, the truth of the calls and the bound.       *)
LEMMA SoundNext ==
  ASSUME Types, AllTruthful, WithinBound, [Next]_vars
  PROVE  Types' /\ AllTruthful' /\ WithinBound'
<1>1. now \in Nat /\ MaxTime \in Nat /\ limiter.last \in Nat
  BY ClientAssumption DEF Types, Limiters
<1>2. CASE Tick
  <2>1. now' = now + 1 /\ now' \in 0..MaxTime /\ UNCHANGED <<cb, caller, limiter, history>>
    BY <1>1, <1>2 DEF Tick, Types
  <2>2. limiter.last <= now => limiter.last <= now'
    BY <1>1, <2>1
  <2>3. Types'
    BY <2>1 DEF Types
  <2>4. WithinBound'
    BY <2>1, <2>2, Zenon DEF WithinBound
  <2> QED BY <2>1, <2>3, <2>4 DEF AllTruthful
<1>3. CASE UNCHANGED vars
  <2>1. UNCHANGED <<cb, caller, limiter, now, history>>
    BY <1>3 DEF vars
  <2>2. Types' /\ AllTruthful'
    BY <2>1 DEF Types, AllTruthful
  <2>3. WithinBound'
    BY <2>1, Zenon DEF WithinBound
  <2> QED BY <2>2, <2>3
<1>4. ASSUME NEW c \in Callers, Begin(c) \/ Step(c)
      PROVE  Types' /\ AllTruthful' /\ WithinBound'
  <2>1. caller' \in [Callers -> Calls] /\ AllTruthful' /\ cb' \in Breakers
    BY <1>4, CallsTruthful, BreakerTypes
  <2>2. now' = now
    BY <1>4 DEF Begin, Step, AllowCas, Lost, Arrive, Record, Backoff
  <2>3. CASE Arrive(c)
    BY <2>1, <2>2, <2>3, ArriveWithinBound DEF Types
  <2>4. ASSUME limiter' = limiter, history' \in Histories, history'.let = history.let
        PROVE  Types' /\ WithinBound'
    <3>1. Types'
      BY <2>1, <2>2, <2>4 DEF Types
    <3>2. WithinBound'
      BY <2>2, <2>4, Zenon DEF WithinBound
    <3> QED BY <3>1, <3>2
  <2>5. CASE Begin(c)
    <3>1. history.calls + 1 \in Nat /\ history \in Histories
      BY DEF Types, Histories
    <3>2. history' = [history EXCEPT !.calls = history.calls + 1] /\ limiter' = limiter
      BY <2>5 DEF Begin
    <3> QED BY <2>1, <2>4, <3>1, <3>2, CountedCall
  <2>6. CASE Record(c)
    <3>1. limiter' = limiter
      BY <2>6 DEF Record
    <3> QED BY <2>1, <2>4, <2>6, <3>1, RecordHistory
  <2>7. CASE AllowCas(c) \/ Lost(c) \/ Backoff(c)
    <3>1. limiter' = limiter /\ history' = history /\ history \in Histories
      BY <2>7 DEF AllowCas, Lost, Backoff, Types
    <3> QED BY <2>1, <2>4, <3>1
  <2> QED BY <1>4, <2>3, <2>5, <2>6, <2>7 DEF Step
<1> QED BY <1>2, <1>3, <1>4 DEF Next

(* Every step keeps the breaker consistent between the writes.             *)
LEMMA BreakerNext ==
  ASSUME Types, WithinBound, BreakerBetween, [Next]_vars
  PROVE  BreakerBetween'
<1>1. CASE Tick \/ UNCHANGED vars
  <2>1. UNCHANGED <<cb, caller, history>>
    BY <1>1 DEF Tick, vars
  <2>2. UNCHANGED <<Succeeding, Failing, Opening, Closing>>
    BY <2>1 DEF Succeeding, Failing, Opening, Closing
  <2> QED BY <2>1, <2>2, Zenon DEF BreakerBetween, CountFits
<1>2. ASSUME NEW c \in Callers, Begin(c) PROVE BreakerBetween'
  <2>1. PICK D \in Calls : Set(c, D) /\ D.pc \in {"idle", "send", "cas"}
    BY <1>2, BeginMoves DEF Is
  <2>2. history' = [history EXCEPT !.calls = history.calls + 1] /\ history.calls + 1 \in Nat
        /\ history \in Histories
    BY <1>2 DEF Begin, Types, Histories
  <2>3. history'.raced = history.raced
    BY <2>2, CountedCall
  <2> QED BY <1>2, <2>1, <2>3, BeginMoves, BetweenKeptOutside
<1>3. ASSUME NEW c \in Callers, AllowCas(c) PROVE BreakerBetween'
  <2>1. PICK D \in Calls : Set(c, D) /\ D.pc \in {"idle", "send"}
    BY <1>3, AllowMoves DEF Is
  <2>2. history' = history /\ cb \in Breakers
    BY <1>3 DEF AllowCas, Types
  <2>3. cb'.count = cb.count /\ (cb'.state = "closed" <=> cb.state = "closed")
    <3>1. \/ cb' = cb
          \/ cb.state = "open" /\ cb' = [cb EXCEPT !.state = "half-open"]
      BY <1>3, AllowMoves
    <3> QED BY <2>2, <3>1 DEF Breakers
  <2>4. caller[c].pc = "cas"
    BY <1>3, AllowMoves
  <2> QED BY <2>1, <2>2, <2>3, <2>4, BetweenKeptOutside
<1>4. ASSUME NEW c \in Callers, Arrive(c) \/ Lost(c) PROVE BreakerBetween'
  <2>1. PICK D \in Calls : Set(c, D) /\ D.pc \in {"success1", "failure1"}
    BY <1>4, SendMoves DEF Is
  <2>2. history'.raced = history.raced
    BY <1>4, ArriveWithinBound DEF Lost
  <2> QED BY <1>4, <2>1, <2>2, SendMoves, BetweenKeptOutside
<1>5. ASSUME NEW c \in Callers, Record(c) PROVE BreakerBetween'
  BY <1>5, BetweenKeptByRecord
<1>6. ASSUME NEW c \in Callers, Backoff(c) PROVE BreakerBetween'
  <2>1. PICK D \in Calls : Set(c, D) /\ D.pc \in {"idle", "send"}
    BY <1>6, BackoffMoves DEF Is
  <2>2. history' = history
    BY <1>6 DEF Backoff
  <2> QED BY <1>6, <2>1, <2>2, BackoffMoves, BetweenKeptOutside
<1> QED BY <1>1, <1>2, <1>3, <1>4, <1>5, <1>6 DEF Next, Step

(* The inductive invariant holds in every state.                           *)
LEMMA ClientInvariant == Spec => []Inv
<1>1. Init => Inv
  <2> SUFFICES ASSUME Init PROVE Inv
    OBVIOUS
  <2>1. Types
    BY TypesInit
  <2>2. \A c \in Callers : Is(caller[c], "idle", 0, "none", 0, 0, "none")
    BY <2>1, Zenon DEF Init, NewCall, Is, Types
  <2>3. AllTruthful
    <3>1. \A D : Is(D, "idle", 0, "none", 0, 0, "none") => CallIsTruthful(D)
      BY ClientAssumption DEF CallIsTruthful, Is
    <3> QED BY <2>2, <3>1, Zenon DEF AllTruthful
  <2>4. WithinBound
    BY DEF Init, WithinBound
  <2>5. Opening = {} /\ Closing = {}
    BY <2>2 DEF Opening, Closing, Is
  <2>6. BreakerBetween
    BY <2>5, ClientAssumption DEF Init, BreakerBetween
  <2> QED BY <2>1, <2>3, <2>4, <2>6 DEF Inv
<1>2. Inv /\ [Next]_vars => Inv'
  BY SoundNext, BreakerNext DEF Inv
<1> QED BY <1>1, <1>2, PTL DEF Spec

(* For any number of callers, calls and retries: while nothing is being    *)
(* recorded and no success ever overlapped a failure, the breaker is       *)
(* closed exactly below the threshold (RecordSuccess, RecordFailure).      *)
THEOREM ClientBreakerMatchesCount == Spec => []BreakerMatchesCount
<1>1. Inv => BreakerMatchesCount
  <2> SUFFICES ASSUME Inv, Recording = {}, ~history.raced
               PROVE  cb.state = "closed" <=> cb.count < Threshold
    BY DEF BreakerMatchesCount
  <2>1. Succeeding = {} /\ Opening = {} /\ Closing = {}
    BY DEF Recording, Succeeding, Opening, Closing, Call, SuccessSteps, FailureSteps
  <2>2. cb.count \in Nat /\ Threshold \in Nat
    BY ClientAssumption DEF Inv, Types, Breakers
  <2> QED BY <2>1, <2>2 DEF Inv, BreakerBetween
<1> QED BY <1>1, ClientInvariant, PTL

(* For any number of callers, calls and retries, what a call returns is    *)
(* true of the server: a success was carried out, a call the breaker or a  *)
(* 4xx refused at its first attempt was not (doWithRetry).                 *)
THEOREM ClientAnswersTruthful == Spec => []AnswersTruthful
<1>1. Inv => AnswersTruthful
  <2> SUFFICES ASSUME Inv, NEW c \in Callers
               PROVE  /\ caller[c].done <= MaxRetries + 1
                      /\ caller[c].result = "ok" => caller[c].done >= 1
                      /\ caller[c].result = "open" => caller[c].done = 0
                      /\ caller[c].result = "refused" /\ caller[c].attempt = 0 => caller[c].done = 0
    BY Zenon DEF AnswersTruthful, Call
  <2>1. CallIsTruthful(caller[c]) /\ caller[c].done \in Nat /\ caller[c].attempt \in Nat /\ MaxRetries \in Nat
    BY ClientAssumption DEF Inv, AllTruthful, Types, Calls
  <2> QED BY <2>1 DEF CallIsTruthful
<1> QED BY <1>1, ClientInvariant, PTL

(* For every rate, burst and idle time the assumption allows, the server   *)
(* lets in no more than the burst and what the rate allows in any stretch  *)
(* of time, although idle buckets are removed (ratelimit.go: Allow).       *)
THEOREM ClientAcceptedWithinRate == Spec => []AcceptedWithinRate
<1>1. Inv => AcceptedWithinRate
  <2> SUFFICES ASSUME Inv, NEW t \in 0..now PROVE history.let[t] <= Burst + Rate * (now - t)
    BY DEF AcceptedWithinRate
  <2> DEFINE due == Rate * (now - t)
  <2>1. /\ now \in 0..MaxTime /\ t \in 0..MaxTime /\ ~(t > now) /\ now - t \in Nat
        /\ Burst \in Nat /\ Rate \in Nat /\ history.let[t] \in Nat
    <3>1. now \in 0..MaxTime /\ MaxTime \in Nat /\ Burst \in Nat /\ Rate \in Nat
      BY ClientAssumption DEF Inv, Types
    <3>2. t \in 0..MaxTime /\ ~(t > now) /\ now - t \in Nat
      BY <3>1
    <3>3. history.let \in [0..MaxTime -> Nat]
      BY DEF Inv, Types, Histories
    <3> QED BY <3>1, <3>2, <3>3
  <2>2. due \in Nat
    BY <2>1, Distributes
  <2>3. Bucket.tokens \in Nat /\ history.let[t] + Bucket.tokens <= Burst + due
    BY <2>1, BucketWithinBound, Zenon DEF Inv
  <2> HIDE DEF due
  <2>4. history.let[t] <= Burst + due
    BY <2>1, <2>2, <2>3
  <2> QED BY <2>4 DEF due
<1> QED BY <1>1, ClientInvariant, PTL
=============================================================================
