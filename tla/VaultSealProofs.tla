--------------------------- MODULE VaultSealProofs ---------------------------
(***************************************************************************)
(* Proofs about VaultSeal, for any number of holders, splits, readers and  *)
(* sessions, any threshold, with or without the reseal timeout.            *)
(***************************************************************************)
EXTENDS VaultSeal, SequenceTheorems, TLAPS

(* What the invariants need to be inductive: where a writer that holds the *)
(* lock is tells the state, the freeze flag and whether the key is gone.   *)
WriterInside ==
  /\ state = "Sealing" <=> writer \in Inside
  /\ writer \in {"wiped", "frozen"} => masterKey = NoKey /\ collectedShares = <<>>
  /\ writer \in {"freezing", "frozen"} => emergencySealed
  /\ writer \in {"sealing", "wiped"} => ~emergencySealed
  /\ writer \in {"share", "direct"} => session < MaxSessions
  /\ state = "Unsealed" => session # 0

Inv == /\ TypeOK
       /\ WriterInside
       /\ KeyMatchesState
       /\ FrozenIsEmpty
       /\ PoolBelowThreshold
       /\ SessionIsTimed

(* A wiped pool (state.go:262-270) is a pool, and short of any threshold.  *)
LEMMA EmptyPool == <<>> \in Seq(Shares) /\ Len(<<>>) < Threshold
BY EmptySeq, SealAssumption

(* Combine (shamir.go:204-282) returns an error or a key: a pool that      *)
(* passes its checks holds well-formed shares only.                        *)
LEMMA CombineType ==
  ASSUME NEW pool \in Seq(Shares)
  PROVE  Combine(pool) \in Keys \cup {NoKey}
<1>1. CASE Combine(pool) \in {NoKey, Garbage}
  BY <1>1 DEF Keys
<1>2. CASE Combine(pool) \notin {NoKey, Garbage}
  <2>1. /\ ~(Len(pool) < 2)
        /\ ~(\E i \in DOMAIN pool : pool[i] = BadShare)
        /\ Combine(pool) = pool[1].split
    BY <1>2 DEF Combine
  <2>2. 1 \in DOMAIN pool /\ pool[1] \in Shares
    BY <2>1
  <2>3. pool[1] \in [x : Holders, split : Splits]
    BY <2>1, <2>2 DEF Shares
  <2> QED BY <2>1, <2>3 DEF Keys
<1> QED BY <1>1, <1>2

(* NewVaultState (state.go:80-88) starts in the invariant. *)
LEMMA InitInv == Init => Inv
<1> SUFFICES ASSUME Init PROVE Inv
  OBVIOUS
<1> USE SealAssumption DEF Init
<1>1. TypeOK
  <2>1. timers \in [Sessions -> {"off", "armed", "cancelled", "fired"}]
    OBVIOUS
  <2>2. 0 \in 0..MaxSessions
    OBVIOUS
  <2> QED BY <2>1, <2>2, EmptyPool, Zenon DEF TypeOK
<1>2. WriterInside /\ KeyMatchesState
  BY DEF WriterInside, KeyMatchesState, Inside
<1>3. FrozenIsEmpty /\ PoolBelowThreshold /\ SessionIsTimed
  BY EmptyPool DEF FrozenIsEmpty, PoolBelowThreshold, SessionIsTimed
<1> QED BY <1>1, <1>2, <1>3 DEF Inv

(* The end of an unseal (state.go:134-142, 247-255) keeps the invariant    *)
(* when the vault was neither frozen nor unsealed and the key is a key.    *)
LEMMA StartSessionInv ==
  ASSUME Inv, writer \in {"share", "direct"}, readers = {}, ~Refuses,
         NEW k \in Keys, StartSession(k),
         writer' = "idle",
         collectedShares' \in {collectedShares, <<>>},
         UNCHANGED <<emergencySealed, readers>>
  PROVE  Inv'
<1> USE SealAssumption
<1>0. session < MaxSessions /\ session \in 0..MaxSessions
  BY DEF Inv, WriterInside, TypeOK
<1>1. session + 1 \in Sessions /\ session' = session + 1
  BY <1>0 DEF StartSession, Sessions
<1>2. state' = "Unsealed" /\ masterKey' = k /\ masterKey' # NoKey /\ ~emergencySealed'
  BY DEF StartSession, Keys, Refuses
<1>3. collectedShares' \in Seq(Shares) /\ Len(collectedShares') < Threshold
  BY EmptyPool, Zenon DEF Inv, TypeOK, PoolBelowThreshold
<1>4. /\ timers' \in [Sessions -> {"off", "armed", "cancelled", "fired"}]
      /\ cancelReseal' \in 0..MaxSessions
      /\ AutoReseal => timers'[session'] = "armed"
  BY <1>0, <1>1 DEF StartSession, Inv, TypeOK, Sessions
<1>5. TypeOK'
  BY <1>1, <1>2, <1>3, <1>4 DEF Inv, TypeOK, Sessions
<1>6. WriterInside' /\ KeyMatchesState' /\ FrozenIsEmpty'
  BY <1>0, <1>1, <1>2 DEF WriterInside, KeyMatchesState, FrozenIsEmpty, Inside
<1>7. PoolBelowThreshold' /\ SessionIsTimed'
  BY <1>3, <1>4 DEF PoolBelowThreshold, SessionIsTimed
<1> QED BY <1>5, <1>6, <1>7 DEF Inv

(* A step of the write-lock queue, the readers and the timers keeps the    *)
(* invariant: it touches neither the key nor the pool.                     *)
LEMMA LockStepInv ==
  ASSUME Inv,
         \/ \E r \in Readers : KEKRefEnter(r) \/ KEKRefExit(r)
         \/ \E op \in Waiting : Lock(op)
         \/ \E s \in Sessions : LockAuto(s) \/ TimerFire(s) \/ TimerDone(s)
  PROVE  Inv'
<1> USE SealAssumption DEF Inv
<1>1. ASSUME NEW r \in Readers, KEKRefEnter(r) \/ KEKRefExit(r) PROVE Inv'
  <2>1. TypeOK'
    BY <1>1 DEF TypeOK, KEKRefEnter, KEKRefExit
  <2>2. WriterInside' /\ KeyMatchesState'
    BY <1>1 DEF WriterInside, KeyMatchesState, KEKRefEnter, KEKRefExit, Inside
  <2>3. FrozenIsEmpty' /\ PoolBelowThreshold' /\ SessionIsTimed'
    BY <1>1 DEF FrozenIsEmpty, PoolBelowThreshold, SessionIsTimed, KEKRefEnter,
                KEKRefExit
  <2> QED BY <2>1, <2>2, <2>3
<1>2. ASSUME NEW op \in Waiting, Lock(op) PROVE Inv'
  <2>1. TypeOK'
    BY <1>2 DEF TypeOK, Lock
  <2>2. WriterInside' /\ KeyMatchesState'
    BY <1>2 DEF WriterInside, KeyMatchesState, Lock, Inside, Waiting
  <2>3. FrozenIsEmpty' /\ PoolBelowThreshold' /\ SessionIsTimed'
    BY <1>2 DEF FrozenIsEmpty, PoolBelowThreshold, SessionIsTimed, Lock, Waiting
  <2> QED BY <2>1, <2>2, <2>3
<1>3. ASSUME NEW s \in Sessions, LockAuto(s) PROVE Inv'
  <2>1. TypeOK'
    BY <1>3 DEF TypeOK, LockAuto, Waiting
  <2>2. WriterInside' /\ KeyMatchesState'
    BY <1>3 DEF WriterInside, KeyMatchesState, LockAuto, Inside
  <2>3. FrozenIsEmpty' /\ PoolBelowThreshold' /\ SessionIsTimed'
    BY <1>3 DEF FrozenIsEmpty, PoolBelowThreshold, SessionIsTimed, LockAuto
  <2> QED BY <2>1, <2>2, <2>3
<1>4. ASSUME NEW s \in Sessions, TimerFire(s) \/ TimerDone(s) PROVE Inv'
  <2>1. TypeOK'
    BY <1>4 DEF TypeOK, TimerFire, TimerDone
  <2>2. WriterInside' /\ KeyMatchesState'
    BY <1>4 DEF WriterInside, KeyMatchesState, TimerFire, TimerDone
  <2>3. FrozenIsEmpty' /\ PoolBelowThreshold'
    BY <1>4 DEF FrozenIsEmpty, PoolBelowThreshold, TimerFire, TimerDone
  <2>4. SessionIsTimed'
    <3> SUFFICES ASSUME AutoReseal, state' = "Unsealed", writer' # "seal"
                 PROVE  timers'[session'] \in {"armed", "fired"}
      BY DEF SessionIsTimed
    <3>1. timers[session] \in {"armed", "fired"} /\ session' = session
      BY <1>4 DEF SessionIsTimed, TimerFire, TimerDone
    <3>2. session \in Sessions
      BY <1>4 DEF WriterInside, TypeOK, Sessions, TimerFire, TimerDone
    <3>3. timers'[session] \in {timers[session], "fired"}
      BY <1>4, <3>1, <3>2 DEF TypeOK, TimerFire, TimerDone
    <3> QED BY <3>1, <3>3
  <2> QED BY <2>1, <2>2, <2>3, <2>4
<1> QED BY <1>1, <1>2, <1>3, <1>4

(* A step of the body of ProvideShare, DirectUnseal, Seal or EmergencySeal *)
(* keeps the invariant.                                                    *)
LEMMA BodyInv == ASSUME Inv, Body PROVE Inv'
<1> USE SealAssumption DEF Inv
<1>1. ASSUME NEW sh \in Shares, ProvideShare(sh) PROVE Inv'
  <2> DEFINE pool == Append(collectedShares, sh)
             key == Combine(pool)
  <2>1. pool \in Seq(Shares)
    BY DEF TypeOK
  <2>2. key \in Keys \cup {NoKey}
    BY <2>1, CombineType, Zenon
  <2>3. writer = "share" /\ readers = {} /\ writer' = "idle"
    BY <1>1 DEF ProvideShare, Running
  <2>4. UNCHANGED <<emergencySealed, readers>>
    BY <1>1 DEF ProvideShare
  <2>5. CASE ~Refuses /\ ~(Len(pool) < Threshold) /\ key # NoKey
    <3>1. collectedShares' = <<>> /\ StartSession(key)
      BY <1>1, <2>5 DEF ProvideShare
    <3> QED BY <2>2, <2>3, <2>4, <2>5, <3>1, StartSessionInv DEF Keys
  <2>6. CASE Refuses \/ Len(pool) < Threshold \/ key = NoKey
    <3>1. NoSession
      BY <1>1, <2>6 DEF ProvideShare
    <3>2. \/ collectedShares' = collectedShares
          \/ ~Refuses /\ collectedShares' = pool /\ Len(pool) < Threshold
          \/ ~Refuses /\ collectedShares' = <<>>
      BY <1>1, <2>6 DEF ProvideShare
    <3>3. collectedShares' \in Seq(Shares) /\ PoolBelowThreshold'
      BY <2>1, <3>2, EmptyPool, Zenon DEF TypeOK, PoolBelowThreshold
    <3>4. TypeOK'
      BY <2>3, <2>4, <3>1, <3>3 DEF TypeOK, NoSession
    <3>5. WriterInside' /\ KeyMatchesState'
      BY <2>3, <2>4, <3>1 DEF WriterInside, KeyMatchesState, NoSession, Inside
    <3>6. FrozenIsEmpty'
      BY <2>3, <2>4, <3>1, <3>2 DEF FrozenIsEmpty, NoSession, Refuses
    <3>7. SessionIsTimed'
      BY <2>3, <2>4, <3>1 DEF SessionIsTimed, NoSession
    <3> QED BY <3>3, <3>4, <3>5, <3>6, <3>7
  <2> QED BY <2>5, <2>6
<1>2. ASSUME NEW k \in Splits, DirectUnseal(k) PROVE Inv'
  <2>1. /\ writer = "direct" /\ readers = {} /\ writer' = "idle"
        /\ UNCHANGED <<collectedShares, emergencySealed, readers>>
    BY <1>2 DEF DirectUnseal, Running
  <2>2. CASE Refuses
    <3>1. NoSession
      BY <1>2, <2>2 DEF DirectUnseal
    <3>2. TypeOK'
      BY <2>1, <3>1 DEF TypeOK, NoSession
    <3>3. WriterInside' /\ KeyMatchesState'
      BY <2>1, <3>1 DEF WriterInside, KeyMatchesState, NoSession, Inside
    <3>4. FrozenIsEmpty' /\ PoolBelowThreshold' /\ SessionIsTimed'
      BY <2>1, <3>1 DEF FrozenIsEmpty, PoolBelowThreshold, SessionIsTimed, NoSession
    <3> QED BY <3>2, <3>3, <3>4
  <2>3. CASE ~Refuses
    <3>1. StartSession(k)
      BY <1>2, <2>3 DEF DirectUnseal
    <3> QED BY <2>1, <2>3, <3>1, StartSessionInv DEF Keys
  <2> QED BY <2>2, <2>3
<1>3. CASE SealBegin
  <2>1. TypeOK'
    BY <1>3 DEF TypeOK, SealBegin, Inside
  <2>2. WriterInside' /\ KeyMatchesState'
    BY <1>3 DEF WriterInside, KeyMatchesState, FrozenIsEmpty, TypeOK, SealBegin,
                Running, Inside
  <2>3. FrozenIsEmpty' /\ PoolBelowThreshold' /\ SessionIsTimed'
    BY <1>3 DEF FrozenIsEmpty, PoolBelowThreshold, SessionIsTimed, SealBegin, Running
  <2> QED BY <2>1, <2>2, <2>3
<1>4. CASE SealWipe \/ EmergencyWipe
  <2>1. TypeOK'
    <3>1. timers' \in [Sessions -> {"off", "armed", "cancelled", "fired"}]
      BY <1>4 DEF TypeOK, SealWipe, EmergencyWipe, Wipe
    <3>2. cancelReseal' = 0 /\ collectedShares' = <<>>
      BY <1>4 DEF SealWipe, EmergencyWipe, Wipe
    <3>3. cancelReseal' \in 0..MaxSessions
      BY <3>2
    <3>4. collectedShares' \in Seq(Shares)
      BY <3>2, EmptyPool
    <3> QED BY <1>4, <3>1, <3>3, <3>4 DEF TypeOK, SealWipe, EmergencyWipe, Wipe, Inside
  <2>2. WriterInside' /\ KeyMatchesState'
    BY <1>4 DEF WriterInside, KeyMatchesState, SealWipe, EmergencyWipe, Wipe, Inside
  <2>3. FrozenIsEmpty' /\ PoolBelowThreshold' /\ SessionIsTimed'
    BY <1>4, EmptyPool
       DEF FrozenIsEmpty, PoolBelowThreshold, SessionIsTimed, WriterInside,
                SealWipe, EmergencyWipe, Wipe, Inside
  <2> QED BY <2>1, <2>2, <2>3
<1>5. CASE SealEnd \/ EmergencyEnd
  <2>1. TypeOK'
    BY <1>5 DEF TypeOK, SealEnd, EmergencyEnd
  <2>2. WriterInside' /\ KeyMatchesState'
    BY <1>5 DEF WriterInside, KeyMatchesState, SealEnd, EmergencyEnd, Inside
  <2>3. FrozenIsEmpty' /\ PoolBelowThreshold' /\ SessionIsTimed'
    BY <1>5 DEF FrozenIsEmpty, PoolBelowThreshold, SessionIsTimed, WriterInside,
                SealEnd, EmergencyEnd
  <2> QED BY <2>1, <2>2, <2>3
<1>6. CASE EmergencyBegin
  <2>1. TypeOK'
    BY <1>6 DEF TypeOK, EmergencyBegin, Inside
  <2>2. WriterInside' /\ KeyMatchesState'
    BY <1>6 DEF WriterInside, KeyMatchesState, EmergencyBegin, Running, Inside
  <2>3. FrozenIsEmpty' /\ PoolBelowThreshold' /\ SessionIsTimed'
    BY <1>6 DEF FrozenIsEmpty, PoolBelowThreshold, SessionIsTimed, EmergencyBegin
  <2> QED BY <2>1, <2>2, <2>3
<1> QED BY <1>1, <1>2, <1>3, <1>4, <1>5, <1>6 DEF Body

(* The invariant is inductive. *)
LEMMA NextInv == Inv /\ [Next]_vars => Inv'
<1> SUFFICES ASSUME Inv, [Next]_vars PROVE Inv'
  OBVIOUS
<1>1. CASE Body
  BY <1>1, BodyInv
<1>2. CASE UNCHANGED vars
  BY <1>2 DEF vars, Inv, TypeOK, WriterInside, KeyMatchesState, FrozenIsEmpty,
              PoolBelowThreshold, SessionIsTimed
<1>3. CASE Next /\ ~Body
  BY <1>3, LockStepInv DEF Next
<1> QED BY <1>1, <1>2, <1>3 DEF Next

(* For every value of the constants, the red lines of state.go hold: the   *)
(* key is in memory only while Unsealed and under every running KEKRef     *)
(* closure, a frozen vault stays empty, the share pool stays short of the  *)
(* threshold, and every open session is covered by a reseal.               *)
THEOREM VaultInvariant == Spec => []Inv
<1>1. Init => Inv
  BY InitInv
<1>2. Inv /\ [Next]_vars => Inv'
  BY NextInv
<1> QED BY <1>1, <1>2, PTL DEF Spec

(* The type of the fields of VaultState is invariant. *)
THEOREM VaultTypeOK == Spec => []TypeOK
BY VaultInvariant, PTL DEF Inv

(* The master key and the state agree, and closures keep their key         *)
(* (state.go:9, 57, 367-387).                                              *)
THEOREM VaultKeyMatchesState == Spec => []KeyMatchesState
BY VaultInvariant, PTL DEF Inv

(* EmergencySeal is final (state.go:294-306). *)
THEOREM VaultFrozenIsEmpty == Spec => []FrozenIsEmpty
BY VaultInvariant, PTL DEF Inv

(* What waits in the pool is short of the threshold, whatever shares were  *)
(* submitted and however often Combine failed (state.go:236-244).          *)
THEOREM VaultPoolBelowThreshold == Spec => []PoolBelowThreshold
BY VaultInvariant, PTL DEF Inv

(* No session runs without a reseal to come (state.go:140-143, 251-257).   *)
THEOREM VaultSessionIsTimed == Spec => []SessionIsTimed
BY VaultInvariant, PTL DEF Inv

(* The initial vault is an initial state of the contract. *)
LEMMA InitRefines == Init => Contract!Init
BY DEF Init, Contract!Init

(* Every step of VaultState is a step of the contract of the Unsealer      *)
(* interface, or leaves what the contract talks about unchanged.           *)
LEMMA StepRefines ==
  ASSUME Inv, Inv', [Next]_vars
  PROVE  [Contract!Next]_(Contract!vars)
<1> USE SealAssumption DEF Contract!vars
<1>1. ASSUME NEW r \in Readers, KEKRefEnter(r) PROVE Contract!Borrow(r)
  BY <1>1 DEF KEKRefEnter, Contract!Borrow, Inv, FrozenIsEmpty
<1>2. ASSUME NEW r \in Readers, KEKRefExit(r) PROVE Contract!Return(r)
  BY <1>2 DEF KEKRefExit, Contract!Return
<1>3. ASSUME NEW op \in Waiting, Lock(op) PROVE UNCHANGED Contract!vars
  BY <1>3 DEF Lock
<1>4. ASSUME NEW s \in Sessions, LockAuto(s) \/ TimerFire(s) \/ TimerDone(s)
      PROVE  UNCHANGED Contract!vars
  BY <1>4 DEF LockAuto, TimerFire, TimerDone
<1>5. ASSUME NEW k \in Keys, ~Refuses, StartSession(k),
             UNCHANGED <<emergencySealed, readers>>
      PROVE  Contract!Unseal
  BY <1>5 DEF StartSession, Refuses, Contract!Unseal
<1>6. ASSUME NoSession, UNCHANGED <<emergencySealed, readers>>
      PROVE  UNCHANGED Contract!vars
  BY <1>6 DEF NoSession
<1>7. ASSUME NEW sh \in Shares, ProvideShare(sh)
      PROVE  Contract!Unseal \/ UNCHANGED Contract!vars
  <2> DEFINE key == Combine(Append(collectedShares, sh))
  <2>1. key \in Keys \cup {NoKey}
    <3>1. Append(collectedShares, sh) \in Seq(Shares)
      BY DEF Inv, TypeOK
    <3> QED BY <3>1, CombineType, Zenon
  <2>2. /\ UNCHANGED <<emergencySealed, readers>>
        /\ NoSession \/ (~Refuses /\ key # NoKey /\ StartSession(key))
    BY <1>7 DEF ProvideShare
  <2> QED BY <1>5, <1>6, <2>1, <2>2
<1>8. ASSUME NEW k \in Splits, DirectUnseal(k)
      PROVE  Contract!Unseal \/ UNCHANGED Contract!vars
  BY <1>5, <1>6, <1>8 DEF DirectUnseal, Keys
<1>9. CASE SealBegin
  BY <1>9 DEF SealBegin, Running, Contract!Next, Contract!Close, Inv, FrozenIsEmpty,
              WriterInside, TypeOK, Inside
<1>10. CASE SealWipe \/ EmergencyWipe \/ SealEnd \/ EmergencyEnd
  BY <1>10 DEF SealWipe, EmergencyWipe, SealEnd, EmergencyEnd, Inv, WriterInside,
               Inside
<1>11. CASE EmergencyBegin
  <2>1. emergencySealed => state # "Unsealed"
    BY <1>11 DEF Inv, FrozenIsEmpty, EmergencyBegin, Running
  <2> QED BY <1>11, <2>1 DEF EmergencyBegin, Running, Contract!Next, Contract!Freeze
<1>12. CASE UNCHANGED vars
  BY <1>12 DEF vars
<1> QED BY <1>1, <1>2, <1>3, <1>4, <1>7, <1>8, <1>9, <1>10, <1>11, <1>12
        DEF Next, Body, Contract!Next

(* VaultState implements the contract of the Unsealer interface, for every *)
(* number of readers and every behaviour of the timers.                    *)
THEOREM VaultRefinesContract == Spec => ImplementsContract
<1>1. Init => Contract!Init
  BY InitRefines
<1>2. Inv /\ Inv' /\ [Next]_vars => [Contract!Next]_(Contract!vars)
  BY StepRefines
<1> QED BY <1>1, <1>2, VaultInvariant, PTL DEF Spec, Contract!Spec, ImplementsContract
=============================================================================
