------------------------------ MODULE VaultSeal ------------------------------
(***************************************************************************)
(* VaultState (seal/state.go): the seal / unseal state machine of one      *)
(* process.  Every mutating method takes the write half of v.mu, every use *)
(* of the master key (KEKRef, MasterKeyRef) runs inside the read half, and *)
(* v.state and v.emergencySealed are atomics that are also read without    *)
(* the lock.  Go's RWMutex lets one writer at a time announce itself; from *)
(* then on no new reader enters, and the writer runs once the readers that *)
(* are inside have left.                                                   *)
(***************************************************************************)
EXTENDS Naturals, Sequences

CONSTANTS Holders,      \* x coordinates: who holds a share
          Splits,       \* runs of Split, named after the secret they divide
          BadShare,     \* a share Combine rejects: x = 0 or a deviating length
          Garbage,      \* what interpolating shares of different splits gives
          NoKey,        \* masterKey = nil
          Threshold,    \* v.threshold
          Readers,      \* goroutines that call KEKRef or MasterKeyRef
          AutoReseal,   \* v.autoResealAfter > 0
          MaxSessions   \* bound: number of unseals

ASSUME SealAssumption ==
  /\ Threshold \in Nat \ {0}
  /\ MaxSessions \in Nat
  /\ AutoReseal \in BOOLEAN
  /\ Garbage \notin Splits
  /\ NoKey \notin Splits \cup {Garbage}
  /\ BadShare \notin [x : Holders, split : Splits]

VARIABLES state,            \* v.state
          masterKey,        \* v.masterKey
          collectedShares,  \* v.collectedShares
          emergencySealed,  \* v.emergencySealed
          session,          \* unseals so far: names the running session
          cancelReseal,     \* session whose timer v.cancelReseal cancels, 0 = nil
          timers,           \* per session, where its autoResealLoop is
          readers,          \* readers inside a KEKRef closure, holding the RLock
          writer            \* who has announced or holds the write lock

vars == <<state, masterKey, collectedShares, emergencySealed, session,
          cancelReseal, timers, readers, writer>>

Shares == [x : Holders, split : Splits] \cup {BadShare}
Keys == Splits \cup {Garbage}
Sessions == 1..MaxSessions

(* Operations waiting for the write lock, and points inside their bodies.  *)
Waiting == {"share", "direct", "seal", "emergency"}
Inside == {"sealing", "wiped", "freezing", "frozen"}

Init == /\ state = "Sealed"
        /\ masterKey = NoKey
        /\ collectedShares = <<>>
        /\ emergencySealed = FALSE
        /\ session = 0
        /\ cancelReseal = 0
        /\ timers = [s \in Sessions |-> "off"]
        /\ readers = {}
        /\ writer = "idle"
-----------------------------------------------------------------------------
(* A reader that ignores the announced writer. *)
KEKRefEnterBarging(r) ==
  /\ writer \notin Inside
  /\ r \notin readers
  /\ state = "Unsealed" /\ masterKey # NoKey
  /\ readers' = readers \cup {r}
  /\ UNCHANGED <<state, masterKey, collectedShares, emergencySealed, session,
                 cancelReseal, timers, writer>>

(* KEKRef / MasterKeyRef up to the call of the closure.  On a sealed vault *)
(* they return an error and change nothing.                                *)
KEKRefEnter(r) ==
  /\ writer = "idle"
  /\ r \notin readers
  /\ state = "Unsealed" /\ masterKey # NoKey
  /\ readers' = readers \cup {r}
  /\ UNCHANGED <<state, masterKey, collectedShares, emergencySealed, session,
                 cancelReseal, timers, writer>>

(* The closure returns and the deferred RUnlock runs. *)
KEKRefExit(r) ==
  /\ r \in readers
  /\ readers' = readers \ {r}
  /\ UNCHANGED <<state, masterKey, collectedShares, emergencySealed, session,
                 cancelReseal, timers, writer>>
-----------------------------------------------------------------------------
(* v.mu.Lock() of a caller of ProvideShare, DirectUnseal, Seal or          *)
(* EmergencySeal: it announces itself, and runs when the readers have left. *)
Lock(op) ==
  /\ writer = "idle"
  /\ op \in {"share", "direct"} => session < MaxSessions
  /\ writer' = op
  /\ UNCHANGED <<state, masterKey, collectedShares, emergencySealed, session,
                 cancelReseal, timers, readers>>

(* v.mu.Lock() of the Seal call at the end of an autoResealLoop whose      *)
(* timer has fired; nothing ties that call to the session it was made for. *)
LockAuto(s) ==
  /\ writer = "idle"
  /\ timers[s] = "fired"
  /\ timers' = [timers EXCEPT ![s] = "off"]
  /\ writer' = "seal"
  /\ UNCHANGED <<state, masterKey, collectedShares, emergencySealed, session,
                 cancelReseal, readers>>

Running(op) == writer = op /\ readers = {}
Refuses == emergencySealed \/ state = "Unsealed"

(* Combine (shamir.go) on the whole pool: an error, the secret of the      *)
(* split the shares come from, or, when they come from several splits, a   *)
(* well-formed key nobody ever had.                                        *)
Combine(pool) ==
  IF \/ Len(pool) < 2
     \/ \E i \in DOMAIN pool : pool[i] = BadShare
     \/ \E i, j \in DOMAIN pool : i # j /\ pool[i].x = pool[j].x
  THEN NoKey
  ELSE IF \A i \in DOMAIN pool : pool[i].split = pool[1].split
       THEN pool[1].split
       ELSE Garbage

(* An unseal that forgets to start the reseal timer. *)
StartSessionNoTimer(k) ==
  /\ masterKey' = k
  /\ state' = "Unsealed"
  /\ session' = session + 1
  /\ UNCHANGED <<cancelReseal, timers>>

(* The end of ProvideShare and DirectUnseal: the key is installed, the     *)
(* state stored, and the session's own autoResealLoop started.             *)
StartSession(k) ==
  /\ masterKey' = k
  /\ state' = "Unsealed"
  /\ session' = session + 1
  /\ IF AutoReseal
     THEN /\ timers' = [timers EXCEPT ![session + 1] = "armed"]
          /\ cancelReseal' = session + 1
     ELSE UNCHANGED <<timers, cancelReseal>>

NoSession == UNCHANGED <<state, masterKey, session, cancelReseal, timers>>

(* A ProvideShare that keeps the pool when Combine fails. *)
ProvideShareKeepsPool(sh) ==
  LET pool == Append(collectedShares, sh)
      key  == Combine(pool)
  IN /\ Running("share")
     /\ writer' = "idle"
     /\ IF Refuses
        THEN NoSession /\ UNCHANGED collectedShares
        ELSE IF Len(pool) < Threshold \/ key = NoKey
        THEN NoSession /\ collectedShares' = pool
        ELSE StartSession(key) /\ collectedShares' = <<>>
     /\ UNCHANGED <<emergencySealed, readers>>

(* A ProvideShare without the emergencySealed test. *)
ProvideShareThaws(sh) ==
  LET pool == Append(collectedShares, sh)
      key  == Combine(pool)
  IN /\ Running("share")
     /\ writer' = "idle"
     /\ IF state = "Unsealed"
        THEN NoSession /\ UNCHANGED collectedShares
        ELSE IF Len(pool) < Threshold
        THEN NoSession /\ collectedShares' = pool
        ELSE /\ collectedShares' = <<>>
             /\ IF key = NoKey THEN NoSession ELSE StartSession(key)
     /\ UNCHANGED <<emergencySealed, readers>>

(* A ProvideShare that installs the last share instead of the combined key. *)
ProvideShareInstallsShare(sh) ==
  LET pool == Append(collectedShares, sh)
      key  == Combine(pool)
  IN /\ Running("share")
     /\ writer' = "idle"
     /\ IF Refuses
        THEN NoSession /\ UNCHANGED collectedShares
        ELSE IF Len(pool) < Threshold
        THEN NoSession /\ collectedShares' = pool
        ELSE /\ collectedShares' = <<>>
             /\ IF key = NoKey THEN NoSession ELSE StartSession(sh)
     /\ UNCHANGED <<emergencySealed, readers>>

(* ProvideShare: refused on a frozen or an unsealed vault; otherwise the   *)
(* share joins the pool, and the pool that reaches the threshold is        *)
(* combined once and wiped whatever the outcome.                           *)
ProvideShare(sh) ==
  LET pool == Append(collectedShares, sh)
      key  == Combine(pool)
  IN /\ Running("share")
     /\ writer' = "idle"
     /\ IF Refuses
        THEN NoSession /\ UNCHANGED collectedShares
        ELSE IF Len(pool) < Threshold
        THEN NoSession /\ collectedShares' = pool
        ELSE /\ collectedShares' = <<>>
             /\ IF key = NoKey THEN NoSession ELSE StartSession(key)
     /\ UNCHANGED <<emergencySealed, readers>>

(* DirectUnseal: dev mode and the local PKI unsealer install a key.  The   *)
(* shares collected so far stay in the pool.                               *)
DirectUnseal(k) ==
  /\ Running("direct")
  /\ writer' = "idle"
  /\ IF Refuses THEN NoSession ELSE StartSession(k)
  /\ UNCHANGED <<collectedShares, emergencySealed, readers>>
-----------------------------------------------------------------------------
(* Seal that wipes first and stores StateSealing afterwards. *)
SealBeginLateStore ==
  /\ Running("seal")
  /\ writer' = IF state = "Sealed" THEN "idle" ELSE "sealing"
  /\ UNCHANGED <<state, masterKey, collectedShares, emergencySealed, session,
                 cancelReseal, timers, readers>>

(* Seal up to v.state.Store(StateSealing); a sealed vault returns at once, *)
(* leaving a partly collected pool as it is.                               *)
SealBegin ==
  /\ Running("seal")
  /\ IF state = "Sealed"
     THEN writer' = "idle" /\ UNCHANGED state
     ELSE writer' = "sealing" /\ state' = "Sealing"
  /\ UNCHANGED <<masterKey, collectedShares, emergencySealed, session,
                 cancelReseal, timers, readers>>

(* cancelReseal(), masterKey.Wipe() and wipeCollectedShares(). *)
Wipe == /\ timers' = [s \in Sessions |->
                        IF s = cancelReseal /\ timers[s] = "armed"
                        THEN "cancelled" ELSE timers[s]]
        /\ cancelReseal' = 0
        /\ masterKey' = NoKey
        /\ collectedShares' = <<>>

SealWipe ==
  /\ writer = "sealing" /\ writer' = "wiped"
  /\ Wipe
  /\ UNCHANGED <<state, emergencySealed, session, readers>>

SealEnd ==
  /\ writer = "wiped" /\ writer' = "idle"
  /\ state' = "Sealed"
  /\ UNCHANGED <<masterKey, collectedShares, emergencySealed, session,
                 cancelReseal, timers, readers>>

(* EmergencySeal: the flag first, then StateSealing, the wipe, the         *)
(* callback that clears the DEK cache, and StateSealed.                    *)
EmergencyBegin ==
  /\ Running("emergency") /\ writer' = "freezing"
  /\ emergencySealed' = TRUE
  /\ state' = "Sealing"
  /\ UNCHANGED <<masterKey, collectedShares, session, cancelReseal, timers,
                 readers>>

EmergencyWipe ==
  /\ writer = "freezing" /\ writer' = "frozen"
  /\ Wipe
  /\ UNCHANGED <<state, emergencySealed, session, readers>>

EmergencyEnd ==
  /\ writer = "frozen" /\ writer' = "idle"
  /\ state' = "Sealed"
  /\ UNCHANGED <<masterKey, collectedShares, emergencySealed, session,
                 cancelReseal, timers, readers>>
-----------------------------------------------------------------------------
(* autoResealLoop: the timer expires.  When the context was cancelled at   *)
(* about the same time both channels are ready and select may still take   *)
(* timer.C.                                                                *)
TimerFire(s) ==
  /\ timers[s] \in {"armed", "cancelled"}
  /\ timers' = [timers EXCEPT ![s] = "fired"]
  /\ UNCHANGED <<state, masterKey, collectedShares, emergencySealed, session,
                 cancelReseal, readers, writer>>

(* autoResealLoop: ctx.Done() ends the goroutine. *)
TimerDone(s) ==
  /\ timers[s] = "cancelled"
  /\ timers' = [timers EXCEPT ![s] = "off"]
  /\ UNCHANGED <<state, masterKey, collectedShares, emergencySealed, session,
                 cancelReseal, readers, writer>>

Body == \/ \E sh \in Shares : ProvideShare(sh)
        \/ \E k \in Splits : DirectUnseal(k)
        \/ SealBegin \/ SealWipe \/ SealEnd
        \/ EmergencyBegin \/ EmergencyWipe \/ EmergencyEnd

Next == \/ \E r \in Readers : KEKRefEnter(r) \/ KEKRefExit(r)
        \/ \E op \in Waiting : Lock(op)
        \/ \E s \in Sessions : LockAuto(s) \/ TimerFire(s) \/ TimerDone(s)
        \/ Body

Spec == Init /\ [][Next]_vars

(* A closure returns, a timer expires, the holder of the lock proceeds,    *)
(* and a goroutine blocked in Lock gets its turn however often others      *)
(* lock: sync.Mutex hands over in FIFO order once a waiter starves.        *)
Fairness == /\ \A r \in Readers : WF_vars(KEKRefExit(r))
            /\ \A s \in Sessions : WF_vars(TimerFire(s)) /\ SF_vars(LockAuto(s))
            /\ WF_vars(Body)

FairSpec == Spec /\ Fairness
-----------------------------------------------------------------------------
(* Types of the fields of VaultState and of the goroutines around it. *)
TypeOK ==
  /\ state \in {"Sealed", "Unsealed", "Sealing"}
  /\ masterKey \in Keys \cup {NoKey}
  /\ collectedShares \in Seq(Shares)
  /\ emergencySealed \in BOOLEAN
  /\ session \in 0..MaxSessions
  /\ cancelReseal \in 0..MaxSessions
  /\ timers \in [Sessions -> {"off", "armed", "cancelled", "fired"}]
  /\ readers \in SUBSET Readers
  /\ writer \in {"idle"} \cup Waiting \cup Inside

(* "The master key is in memory only while Unsealed" (state.go:9, 57), as  *)
(* the lock-free State() sees it: the state is stored Unsealed only after  *)
(* the key is there and is stored Sealing before the key goes, so the two  *)
(* differ only inside Seal and EmergencySeal.  A KEKRef closure that is    *)
(* running always has a live key under it.                                 *)
KeyMatchesState ==
  /\ state = "Unsealed" => masterKey # NoKey
  /\ masterKey # NoKey => state = "Unsealed" \/ writer \in {"sealing", "freezing"}
  /\ readers # {} => state = "Unsealed" /\ writer \notin Inside

(* EmergencySeal is final (state.go:69-71, 294-306): from its wipe on, no  *)
(* interleaving of shares, direct unseals and timers brings a key or a     *)
(* collected share back into memory.                                       *)
FrozenIsEmpty ==
  emergencySealed /\ writer # "freezing" =>
    masterKey = NoKey /\ collectedShares = <<>> /\ state # "Unsealed"

(* Shares never pile up (state.go:12, 238-239): a pool that reached the    *)
(* threshold was combined and wiped, also when Combine failed on it, so    *)
(* what is left waiting is always short of the threshold.                  *)
PoolBelowThreshold == Len(collectedShares) < Threshold

(* Every unsealed session is covered by a reseal: its own timer is running *)
(* or has fired, or a Seal is already waiting for the lock, however many   *)
(* earlier sessions were sealed by hand with their timers still about.     *)
SessionIsTimed ==
  AutoReseal /\ state = "Unsealed" =>
    \/ timers[session] \in {"armed", "fired"}
    \/ writer = "seal"

(* Liveness of autoResealLoop (state.go:350-360): with the timeout enabled *)
(* no session stays open, although KEKRef closures keep coming.            *)
SessionEnds == AutoReseal /\ state = "Unsealed" ~> state = "Sealed"

(* Liveness of EmergencySeal: once it asks for the lock, it gets through   *)
(* to the wipe although KEKRef closures keep coming.                       *)
EmergencyCompletes ==
  writer = "emergency" ~> emergencySealed /\ masterKey = NoKey /\ state = "Sealed"

(* VaultState implements the contract of the Unsealer interface: the mode  *)
(* is what IsEmergencySealed and State report, the key is visible while    *)
(* the state is Unsealed, the users are the running KEKRef closures.       *)
Contract == INSTANCE SealContract WITH
  mode  <- IF emergencySealed THEN "frozen"
           ELSE IF state = "Unsealed" THEN "unsealed" ELSE "sealed",
  key   <- IF state = "Unsealed" THEN masterKey ELSE NoKey,
  users <- readers

(* The refinement as a property of a run (see Contract). *)
ImplementsContract == Contract!Spec
=============================================================================
