-------------------------- MODULE BackgroundProofs --------------------------
(***************************************************************************)
(* Proofs about what a node does to the store in the background, for any   *)
(* number of nodes, keys, versions, clients and faults.  RotationDaemon:   *)
(* the daemons do to the rows what KeyStore says, and the advisory lock    *)
(* covers scan and rotate.  KeyReaper: for any page size, the reapers do   *)
(* what KeyStore says, and spare the versions in use.                      *)
(***************************************************************************)
EXTENDS RotationDaemon, KeyReaper, KeyStoreProofs

-----------------------------------------------------------------------------
(* RotationDaemon *)

Daemons == [pc : {"asleep", "scan", "batch", "audit", "dead"},
            due : SUBSET KeyIDs, owed : KeyIDs \cup {None},
            lost : BOOLEAN, outside : SUBSET KeyIDs]

(* Types of what the daemons add to the store. *)
DaemonTypes ==
  /\ daemon \in [Nodes -> Daemons]
  /\ lock \in Nodes \cup {None}
  /\ sealed \in [Nodes -> BOOLEAN]
  /\ faults \in 0..MaxFaults

(* Every Active version of the key is due. *)
AllDue(k) == \A v \in Versions : InState(k, v, "Active") => rows[k][v].due

(* A daemon in a pass holds the lock unless its session broke; a key that  *)
(* it is about to rotate exists, and is still due unless it is noted as    *)
(* rotated since the scan.                                                 *)
LockCovers ==
  \A n \in Nodes :
    /\ daemon[n].pc \in {"scan", "batch", "audit"} /\ ~daemon[n].lost => lock = n
    /\ daemon[n].due \subseteq born
    /\ lock = n /\ daemon[n].pc \in {"batch", "audit"} =>
         \A k \in daemon[n].due \ daemon[n].outside : AllDue(k)

DaemonInv == StoreInv /\ DaemonTypes /\ LockCovers
-----------------------------------------------------------------------------
(* Every step of the daemons is a RotateKey or leaves the rows alone; the  *)
(* clients' steps are the store's (daemon.go:161-189).                     *)
LEMMA DaemonStepIsStoreStep == [Next]_vars => [StoreNext]_storeVars
<1> SUFFICES ASSUME [Next]_vars PROVE [StoreNext]_storeVars
  OBVIOUS
<1>1. CASE Client
  BY <1>1 DEF Client, StoreNext
<1>2. ASSUME NEW n \in Nodes, Daemon(n) PROVE [StoreNext]_storeVars
  <2>1. ASSUME NEW k \in KeyIDs, Rotate(n, k) PROVE StoreNext
    BY <2>1 DEF Rotate, StoreNext, ClientNext
  <2>2. ASSUME NEW k \in KeyIDs, RotateRefused(n, k) \/ RotateSealed(n, k)
        PROVE  UNCHANGED storeVars
    BY <2>2 DEF RotateRefused, RotateSealed
  <2>3. CASE TryAcquire(n) \/ ScanExpiredKeys(n) \/ Audit(n) \/ Release(n) \/ Restart(n)
    BY <2>3 DEF TryAcquire, ScanExpiredKeys, Audit, Release, Restart
  <2> QED BY <1>2, <2>1, <2>2, <2>3 DEF Daemon
<1>3. ASSUME NEW n \in Nodes, Unseal(n) \/ Fault(n) PROVE UNCHANGED storeVars
  BY <1>3 DEF Unseal, Fault
<1>4. CASE UNCHANGED vars
  BY <1>4 DEF vars
<1> QED BY <1>1, <1>2, <1>3, <1>4 DEF Next

(* Several daemons over one store implement the store. *)
THEOREM DaemonsImplementStore == Spec => StoreSpec
<1>1. Init => StoreInit
  BY DEF Init
<1> QED BY <1>1, DaemonStepIsStoreStep, PTL DEF Spec, StoreSpec

(* Automatic rotation, too, leaves at most one version Active, the one     *)
(* that the index or the scan leads to (manager.go:689).                   *)
THEOREM DaemonActiveIsLatest ==
  ASSUME Disciplined
  PROVE  Spec => []ActiveIsLatest
<1>1. StoreSpec => []ActiveIsLatest
  BY StoreActiveIsLatest
<1> QED BY <1>1, DaemonsImplementStore, PTL

(* ... never uses a DEK twice, although daemons and clients rotate the     *)
(* same key at the same time (manager.go:530),                             *)
THEOREM DaemonDeksDistinct ==
  ASSUME Disciplined
  PROVE  Spec => []DeksDistinct
<1>1. StoreSpec => []DeksDistinct
  BY StoreDeksDistinct
<1> QED BY <1>1, DaemonsImplementStore, PTL

(* ... and rewrites no version's past (manager.go:468-585).                *)
THEOREM DaemonVersionHistory ==
  ASSUME Disciplined
  PROVE  Spec => VersionHistory
<1>1. StoreSpec => VersionHistory
  BY StoreVersionHistory
<1> QED BY <1>1, DaemonsImplementStore
-----------------------------------------------------------------------------
(* A step that does not rotate a key makes none of its versions Active and *)
(* undoes no NextRotationAt that has passed.                               *)
LEMMA StaysDue ==
  ASSUME Disciplined, StoreInv, NEW k \in KeyIDs, k \in born, AllDue(k),
         [StoreNext]_storeVars, ~(latest'[k] > latest[k] /\ latest'[k] > 1)
  PROVE  AllDue(k)'
<1> USE DEF AllDue, InState, Exists
<1>1. ASSUME NEW l \in KeyIDs, PutFirst(l) PROVE AllDue(k)'
  <2>1. l # k
    BY <1>1 DEF PutFirst, MayCreate
  <2> QED BY <1>1, <2>1 DEF PutFirst, StoreInv, StoreTypeOK
<1>2. ASSUME NEW l \in KeyIDs, RotateKey(l) PROVE AllDue(k)'
  <2>1. CASE l = k
    <3>1. LatestVersion(k) \in Nat /\ LatestVersion(k) # 0 /\ LatestVersion(k) >= latest[k]
      BY <1>2, <2>1, LatestIs DEF RotateKey, StoreInv, StoreTypeOK
    <3>2. latest'[k] = LatestVersion(k) + 1
      BY <1>2, <2>1 DEF RotateKey, StoreInv, StoreTypeOK
    <3>3. latest[k] \in Nat
      BY StoreAssumption DEF StoreInv, StoreTypeOK
    <3> QED BY <3>1, <3>2, <3>3
  <2>2. CASE l # k
    BY <1>2, <2>2 DEF RotateKey, StoreInv, StoreTypeOK
  <2> QED BY <2>1, <2>2
<1>3. ASSUME NEW l \in KeyIDs, NEW v \in Versions, ShredKey(l, v) PROVE AllDue(k)'
  BY <1>3 DEF ShredKey, StoreInv, StoreTypeOK
<1>4. ASSUME NEW l \in KeyIDs, NEW v \in Versions,
             SoftDeleteKey(l, v) \/ RestoreKey(l, v) \/ Expire(l, v) \/ FallDue(l, v)
      PROVE  AllDue(k)'
  <2>1. rows \in [KeyIDs -> [Versions -> Metadata \cup {NoRow}]] /\ rows[l][v] \in Metadata
    BY <1>4 DEF SoftDeleteKey, RestoreKey, Expire, FallDue, StoreInv, StoreTypeOK
  <2>2. CASE l # k
    BY <1>4, <2>1, <2>2 DEF SoftDeleteKey, RestoreKey, Expire, FallDue
  <2>3. CASE l = k
    <3>1. \A u \in Versions : u # v => rows'[k][u] = rows[k][u]
      BY <1>4, <2>1, <2>3 DEF SoftDeleteKey, RestoreKey, Expire, FallDue
    <3>2. rows'[k][v].state = "Active" => rows[k][v].state = "Active" /\ (rows[k][v].due => rows'[k][v].due)
      <4>1. CASE SoftDeleteKey(l, v)
        BY <2>1, <2>3, <4>1 DEF SoftDeleteKey, Metadata
      <4>2. CASE RestoreKey(l, v)
        BY <2>1, <2>3, <4>2 DEF RestoreKey, Metadata
      <4>3. CASE Expire(l, v)
        BY <2>1, <2>3, <4>3 DEF Expire, Metadata
      <4>4. CASE FallDue(l, v)
        BY <2>1, <2>3, <4>4 DEF FallDue, Metadata
      <4> QED BY <1>4, <4>1, <4>2, <4>3, <4>4
    <3>3. rows[k][v] # NoRow
      BY <1>4, <2>3 DEF SoftDeleteKey, RestoreKey, Expire, FallDue
    <3> QED BY <3>1, <3>2, <3>3
  <2> QED BY <2>2, <2>3
<1>5. ASSUME NEW c \in Clients, CreateIndex(c) \/ CreateIndexLost(c) PROVE AllDue(k)'
  BY <1>5 DEF CreateIndex, CreateIndexLost
<1>6. CASE UNCHANGED storeVars
  BY <1>6 DEF storeVars
<1> HIDE DEF AllDue
<1> QED BY <1>1, <1>2, <1>3, <1>4, <1>5, <1>6 DEF StoreNext, ClientNext, CreateKey, ImportKey

(* What a daemon's own step does to the state of daemons: another record   *)
(* for one of them.                                                        *)
Becomes(n, D) == daemon' = [daemon EXCEPT ![n] = D]

(* It keeps LockCovers if the lock and the new record fit: the lock is the *)
(* daemon's, or was not its own and is not taken from another.             *)
LEMMA OwnStep ==
  ASSUME DaemonTypes, LockCovers, NEW n \in Nodes, NEW D \in Daemons, Becomes(n, D),
         UNCHANGED storeVars,
         lock' = lock \/ lock' = Freed(n) \/ (lock = None /\ lock' = n),
         D.pc \in {"scan", "batch", "audit"} /\ ~D.lost => lock' = n,
         D.due \subseteq born,
         lock' = n /\ D.pc \in {"batch", "audit"} => \A k \in D.due \ D.outside : AllDue(k)
  PROVE  LockCovers'
<1> SUFFICES ASSUME NEW m \in Nodes
             PROVE  /\ daemon'[m].pc \in {"scan", "batch", "audit"} /\ ~daemon'[m].lost => lock' = m
                    /\ daemon'[m].due \subseteq born'
                    /\ lock' = m /\ daemon'[m].pc \in {"batch", "audit"} =>
                         \A k \in daemon'[m].due \ daemon'[m].outside : AllDue(k)'
  BY DEF LockCovers
<1>1. /\ born' = born
      /\ \A k : AllDue(k)' <=> AllDue(k)
  BY DEF storeVars, AllDue, InState, Exists
<1>2. CASE m = n
  <2>1. daemon'[m] = D
    BY <1>2 DEF Becomes, DaemonTypes
  <2> QED BY <1>1, <1>2, <2>1
<1>3. CASE m # n
  <2>1. daemon'[m] = daemon[m]
    BY <1>3 DEF Becomes, DaemonTypes
  <2>2. lock = m => lock' = m
    BY <1>3, DaemonAssumption DEF Freed
  <2>3. lock' = m => lock = m
    BY <1>3, DaemonAssumption DEF Freed
  <2> QED BY <1>1, <2>1, <2>2, <2>3 DEF LockCovers
<1> QED BY <1>2, <1>3

(* A step of the store keeps it if every daemon keeps its place and notes  *)
(* the keys that the step rotates.                                         *)
LEMMA StoreStepCovers ==
  ASSUME Disciplined, StoreInv, DaemonTypes, LockCovers, [StoreNext]_storeVars, lock' = lock,
         born \subseteq born',
         \A m \in Nodes :
           /\ daemon'[m].due \subseteq daemon[m].due
           /\ daemon'[m].lost = daemon[m].lost
           /\ daemon'[m].pc \in {"scan", "batch", "audit"} <=>
                daemon[m].pc \in {"scan", "batch", "audit"}
           /\ daemon'[m].pc \in {"batch", "audit"} <=> daemon[m].pc \in {"batch", "audit"}
           /\ lock = m => \A k \in daemon'[m].due \ daemon'[m].outside :
                /\ k \notin daemon[m].outside
                /\ ~(latest'[k] > latest[k] /\ latest'[k] > 1)
  PROVE  LockCovers'
<1> SUFFICES ASSUME NEW m \in Nodes
             PROVE  /\ daemon'[m].pc \in {"scan", "batch", "audit"} /\ ~daemon'[m].lost => lock' = m
                    /\ daemon'[m].due \subseteq born'
                    /\ lock' = m /\ daemon'[m].pc \in {"batch", "audit"} =>
                         \A k \in daemon'[m].due \ daemon'[m].outside : AllDue(k)'
  BY DEF LockCovers
<1>1. daemon'[m].pc \in {"scan", "batch", "audit"} /\ ~daemon'[m].lost => lock' = m
  BY DEF LockCovers
<1>2. daemon'[m].due \subseteq born'
  BY DEF LockCovers
<1>3. ASSUME lock' = m, daemon'[m].pc \in {"batch", "audit"},
             NEW k \in daemon'[m].due \ daemon'[m].outside
      PROVE  AllDue(k)'
  <2>1. k \in daemon[m].due \ daemon[m].outside /\ k \in born
    BY <1>3 DEF LockCovers
  <2>2. k \in KeyIDs
    BY <2>1 DEF StoreInv, StoreTypeOK
  <2>3. AllDue(k)
    BY <1>3, <2>1 DEF LockCovers
  <2> QED BY <1>3, <2>1, <2>2, <2>3, StaysDue
<1> QED BY <1>1, <1>2, <1>3

(* A daemon's record by its fields. *)
Is(D, pc, due, lost, outside) ==
  D \in Daemons /\ D.pc = pc /\ D.due = due /\ D.lost = lost /\ D.outside = outside

(* The records that the steps of a daemon write (daemon.go:88-189): the    *)
(* lock is taken, broken, an entry is audited;                             *)
LEMMA PassRecords ==
  ASSUME NEW d \in Daemons
  PROVE  /\ Is([d EXCEPT !.pc = "scan"], "scan", d.due, d.lost, d.outside)
         /\ Is([d EXCEPT !.pc = "batch", !.owed = None], "batch", d.due, d.lost, d.outside)
         /\ Is([d EXCEPT !.lost = TRUE], d.pc, d.due, TRUE, d.outside)
  BY Zenon DEF Is, Daemons

(* ... a scan, and rotations by others;                                    *)
LEMMA ScanRecords ==
  ASSUME NEW d \in Daemons, NEW S \in SUBSET KeyIDs
  PROVE  /\ Is([d EXCEPT !.pc = "batch", !.due = S], "batch", S, d.lost, d.outside)
         /\ Is(Note(d, S), d.pc, d.due, d.lost, d.outside \cup (S \cap d.due))
  BY Zenon DEF Is, Daemons, Note

(* ... an attempt, and its panic on a sealed vault;                        *)
LEMMA AttemptRecords ==
  ASSUME NEW d \in Daemons, NEW k \in KeyIDs
  PROVE  /\ Is([d EXCEPT !.pc = "audit", !.due = @ \ {k}, !.owed = k, !.outside = @ \ {k}],
               "audit", d.due \ {k}, d.lost, d.outside \ {k})
         /\ Is([Asleep EXCEPT !.pc = "dead", !.owed = k], "dead", {}, FALSE, {})
  BY Zenon DEF Is, Daemons, Asleep

(* ... and the one that they start from and return to. *)
LEMMA AsleepRecord == Is(Asleep, "asleep", {}, FALSE, {})
  BY DEF Is, Daemons, Asleep

(* A step of one daemon that leaves the rows alone keeps the invariant.    *)
LEMMA OwnStepInv ==
  ASSUME DaemonInv, NEW n \in Nodes, UNCHANGED storeVars,
         \/ TryAcquire(n) \/ ScanExpiredKeys(n) \/ Audit(n) \/ Release(n) \/ Restart(n)
         \/ \E k \in KeyIDs : RotateRefused(n, k) \/ RotateSealed(n, k)
         \/ Unseal(n) \/ Fault(n)
  PROVE  DaemonTypes' /\ LockCovers'
<1> DEFINE d == daemon[n]
           Fits(D) ==
             /\ Becomes(n, D)
             /\ D \in Daemons
             /\ lock' = lock \/ lock' = Freed(n) \/ (lock = None /\ lock' = n)
             /\ D.pc \in {"scan", "batch", "audit"} /\ ~D.lost => lock' = n
             /\ D.due \subseteq born
             /\ lock' = n /\ D.pc \in {"batch", "audit"} => \A k \in D.due \ D.outside : AllDue(k)
             /\ sealed' \in [Nodes -> BOOLEAN] /\ faults' \in 0..MaxFaults
<1>1. /\ daemon \in [Nodes -> Daemons] /\ d \in Daemons
      /\ lock \in Nodes \cup {None} /\ sealed \in [Nodes -> BOOLEAN] /\ faults \in 0..MaxFaults
  BY DEF DaemonInv, DaemonTypes
<1>2. /\ d.pc \in {"scan", "batch", "audit"} /\ ~d.lost => lock = n
      /\ d.due \subseteq born
      /\ lock = n /\ d.pc \in {"batch", "audit"} => \A k \in d.due \ d.outside : AllDue(k)
  BY DEF DaemonInv, LockCovers
<1>3. \E D : Fits(D)
  <2>1. CASE TryAcquire(n)
    <3> DEFINE D == [d EXCEPT !.pc = "scan"]
    <3>1. Becomes(n, D)
      BY <1>1, <2>1 DEF TryAcquire, Becomes
    <3>2. Is(D, "scan", d.due, d.lost, d.outside)
      BY <1>1, PassRecords, Zenon
    <3> HIDE DEF D
    <3> QED BY <1>1, <1>2, <2>1, <3>1, <3>2 DEF TryAcquire, Is, Freed
  <2>2. CASE ScanExpiredKeys(n)
    <3> DEFINE S == {k \in KeyIDs : Due(k)}
               D == [d EXCEPT !.pc = "batch", !.due = S]
    <3>1. Becomes(n, D)
      BY <1>1, <2>2, ZenonT(30) DEF ScanExpiredKeys, Becomes
    <3>2. Is(D, "batch", S, d.lost, d.outside)
      BY <1>1, ScanRecords, Zenon
    <3>3. S \subseteq born /\ \A k \in S : AllDue(k)
      BY DEF DaemonInv, StoreInv, StoreShape, ActiveAtIndex, Due, AllDue, InState
    <3> HIDE DEF D, S
    <3> QED BY <1>1, <1>2, <2>2, <3>1, <3>2, <3>3 DEF ScanExpiredKeys, Is
  <2>3. CASE Audit(n)
    <3> DEFINE D == [d EXCEPT !.pc = "batch", !.owed = None]
    <3>1. Becomes(n, D)
      BY <1>1, <2>3, ZenonT(30) DEF Audit, Becomes
    <3>2. Is(D, "batch", d.due, d.lost, d.outside)
      BY <1>1, PassRecords, Zenon
    <3> HIDE DEF D
    <3> QED BY <1>1, <1>2, <2>3, <3>1, <3>2 DEF Audit, Is, Freed
  <2>4. CASE Release(n)
    <3> DEFINE D == Asleep
    <3>1. Becomes(n, D)
      BY <1>1, <2>4 DEF Release, Becomes
    <3>2. Is(D, "asleep", {}, FALSE, {})
      BY <1>1, AsleepRecord, Zenon
    <3> HIDE DEF D
    <3> QED BY <1>1, <1>2, <2>4, <3>1, <3>2 DEF Release, Is, Freed
  <2>5. CASE Restart(n)
    <3> DEFINE D == Asleep
    <3>1. Becomes(n, D)
      BY <1>1, <2>5 DEF Restart, Becomes
    <3>2. Is(D, "asleep", {}, FALSE, {})
      BY <1>1, AsleepRecord, ZenonT(30)
    <3> HIDE DEF D
    <3> QED BY <1>1, <1>2, <2>5, <3>1, <3>2 DEF Restart, Is, Freed
  <2>6. ASSUME NEW k \in KeyIDs, RotateRefused(n, k) PROVE \E D : Fits(D)
    <3> DEFINE D == Attempted(n, k)
    <3>1. Becomes(n, D)
      BY <1>1, <2>6 DEF RotateRefused, Becomes, MayAttempt
    <3>2. Is(D, "audit", d.due \ {k}, d.lost, d.outside \ {k})
      BY <1>1, AttemptRecords, Zenon DEF Attempted
    <3> HIDE DEF D
    <3> QED BY <1>1, <1>2, <2>6, <3>1, <3>2 DEF RotateRefused, Is, Freed, MayAttempt
  <2>7. ASSUME NEW k \in KeyIDs, RotateSealed(n, k) PROVE \E D : Fits(D)
    <3> DEFINE D == [Asleep EXCEPT !.pc = "dead", !.owed = k]
    <3>1. Becomes(n, D)
      BY <1>1, <2>7, Zenon DEF RotateSealed, Becomes
    <3>2. Is(D, "dead", {}, FALSE, {})
      BY <1>1, AttemptRecords, Zenon
    <3> HIDE DEF D
    <3> QED BY <1>1, <1>2, <2>7, <3>1, <3>2, Zenon DEF RotateSealed, Is, Freed
  <2>8. CASE Unseal(n)
    <3>1. Becomes(n, d)
      BY <1>1, <2>8 DEF Unseal, Becomes
    <3> QED BY <1>1, <1>2, <2>8, <3>1 DEF Unseal
  <2>9. CASE Fault(n)
    <3>1. faults' \in 0..MaxFaults
      BY <1>1, <2>9, DaemonAssumption DEF Fault
    <3>2. CASE sealed' = [sealed EXCEPT ![n] = TRUE] /\ UNCHANGED <<daemon, lock>>
      <4>1. Becomes(n, d)
        BY <1>1, <3>2 DEF Becomes
      <4> QED BY <1>1, <1>2, <3>1, <3>2, <4>1
    <3>3. CASE daemon' = [daemon EXCEPT ![n] = Asleep] /\ lock' = Freed(n) /\ sealed' \in [Nodes -> BOOLEAN]
      <4>1. Becomes(n, Asleep)
        BY <3>3 DEF Becomes
      <4> QED BY <1>1, <1>2, <3>1, <3>3, <4>1, AsleepRecord DEF Is
    <3>4. ASSUME NEW k \in KeyIDs, MayAttempt(n, k), UNCHANGED <<lock, sealed>>,
                 daemon' = [daemon EXCEPT ![n] = Attempted(n, k)]
          PROVE  \E D : Fits(D)
      <4> DEFINE D == Attempted(n, k)
      <4>1. Becomes(n, D)
        BY <3>4 DEF Becomes
      <4>2. Is(D, "audit", d.due \ {k}, d.lost, d.outside \ {k})
        BY <1>1, AttemptRecords, Zenon DEF Attempted
      <4> HIDE DEF D
      <4> QED BY <1>1, <1>2, <3>1, <3>4, <4>1, <4>2 DEF Is, MayAttempt
    <3>5. CASE /\ lock = n /\ lock' = None /\ UNCHANGED sealed
               /\ daemon' = [daemon EXCEPT ![n].lost = TRUE]
      <4> DEFINE D == [d EXCEPT !.lost = TRUE]
      <4>1. Becomes(n, D)
        BY <1>1, <3>5 DEF Becomes
      <4>2. Is(D, d.pc, d.due, TRUE, d.outside)
        BY <1>1, PassRecords, Zenon
      <4> HIDE DEF D
      <4> QED BY <1>1, <1>2, <3>1, <3>5, <4>1, <4>2, DaemonAssumption DEF Is, Freed
    <3> HIDE DEF Fits
    <3> QED BY <1>1, <2>9, <3>2, <3>3, <3>4, <3>5, Zenon DEF Fault
  <2> HIDE DEF Fits
  <2> QED BY <2>1, <2>2, <2>3, <2>4, <2>5, <2>6, <2>7, <2>8, <2>9
<1>4. PICK D : Fits(D)
  BY <1>3
<1>5. LockCovers'
  BY <1>4, OwnStep DEF DaemonInv
<1>6. DaemonTypes'
  BY <1>1, <1>4 DEF DaemonTypes, Becomes, Freed
<1> QED BY <1>5, <1>6

(* Clients and time keep the invariant: every daemon notes what they       *)
(* rotate.                                                                 *)
LEMMA ClientInv ==
  ASSUME Disciplined, DaemonInv, Client, [StoreNext]_storeVars
  PROVE  DaemonTypes' /\ LockCovers'
<1> DEFINE rotated == {k \in KeyIDs : latest'[k] > latest[k] /\ latest'[k] > 1}
<1>1. /\ daemon' = [n \in Nodes |-> Note(daemon[n], rotated)]
      /\ lock' = lock /\ sealed' = sealed /\ faults' = faults
  BY DEF Client
<1>2. rotated \in SUBSET KeyIDs
  OBVIOUS
<1>3. \A k \in KeyIDs \ rotated : ~(latest'[k] > latest[k] /\ latest'[k] > 1)
  OBVIOUS
<1> HIDE DEF rotated
<1>4. ASSUME NEW m \in Nodes
      PROVE  Is(daemon'[m], daemon[m].pc, daemon[m].due, daemon[m].lost,
                daemon[m].outside \cup (rotated \cap daemon[m].due))
  <2>1. daemon[m] \in Daemons
    BY DEF DaemonInv, DaemonTypes
  <2> QED BY <1>1, <1>2, <2>1, ScanRecords, Zenon
<1>5. DaemonTypes'
  BY <1>1, <1>4 DEF DaemonInv, DaemonTypes, Is
<1>6. \A m \in Nodes : daemon[m].due \subseteq KeyIDs
  BY DEF DaemonInv, DaemonTypes, Daemons
<1>7. LockCovers'
  BY <1>1, <1>3, <1>4, <1>6, BornGrows, StoreStepCovers DEF DaemonInv, Is
<1> QED BY <1>5, <1>7

(* A daemon's rotation does, too: with the lock it is alone, and without   *)
(* it the others note the key.                                             *)
LEMMA RotateKeepsInv ==
  ASSUME Disciplined, DaemonInv, NEW n \in Nodes, NEW k \in KeyIDs, Rotate(n, k)
  PROVE  DaemonTypes' /\ LockCovers'
<1> DEFINE S == IF daemon[n].lost THEN {k} ELSE {}
<1>1. RotateKey(k) /\ lock' = lock /\ sealed' = sealed /\ faults' = faults
  BY DEF Rotate
<1>2. daemon[n].pc = "batch" /\ k \in daemon[n].due
  BY DEF Rotate, MayAttempt
<1>3. daemon \in [Nodes -> Daemons] /\ S \in SUBSET KeyIDs
  BY DEF DaemonInv, DaemonTypes
<1>4. Is(daemon'[n], "audit", daemon[n].due \ {k}, daemon[n].lost, daemon[n].outside \ {k})
  BY <1>3, AttemptRecords, Zenon DEF Rotate, Attempted
<1>5. ASSUME NEW m \in Nodes, m # n
      PROVE  Is(daemon'[m], daemon[m].pc, daemon[m].due, daemon[m].lost,
                daemon[m].outside \cup (S \cap daemon[m].due))
  BY <1>3, <1>5, ScanRecords, Zenon DEF Rotate
<1>6. DaemonTypes'
  <2>1. daemon' \in [Nodes -> Daemons]
    <3>1. \A m \in Nodes : daemon'[m] \in Daemons
      BY <1>4, <1>5 DEF Is
    <3>2. daemon' = [m \in Nodes |-> daemon'[m]]
      BY DEF Rotate
    <3> QED BY <3>1, <3>2
  <2> QED BY <1>1, <2>1 DEF DaemonInv, DaemonTypes
<1>7. [StoreNext]_storeVars
  BY <1>1 DEF StoreNext, ClientNext
<1>8. \A l \in KeyIDs : l # k => latest'[l] = latest[l] /\ latest[l] \in Nat
  BY <1>1, StoreAssumption DEF RotateKey, DaemonInv, StoreInv, StoreTypeOK
<1>9. ASSUME NEW m \in Nodes, m # n, lock = m PROVE daemon[n].lost
  BY <1>2, <1>9 DEF DaemonInv, LockCovers
<1>10. \A m \in Nodes : daemon[m].due \subseteq KeyIDs
  BY <1>3 DEF Daemons
<1>11. ASSUME NEW m \in Nodes
       PROVE  /\ daemon'[m].due \subseteq daemon[m].due
              /\ daemon'[m].lost = daemon[m].lost
              /\ daemon'[m].pc \in {"scan", "batch", "audit"} <=>
                   daemon[m].pc \in {"scan", "batch", "audit"}
              /\ daemon'[m].pc \in {"batch", "audit"} <=> daemon[m].pc \in {"batch", "audit"}
              /\ lock = m => \A l \in daemon'[m].due \ daemon'[m].outside :
                   /\ l \notin daemon[m].outside
                   /\ ~(latest'[l] > latest[l] /\ latest'[l] > 1)
  <2>1. CASE m = n
    BY <1>2, <1>4, <1>8, <1>10, <2>1 DEF Is
  <2>2. CASE m # n
    BY <1>5, <1>8, <1>9, <1>10, <2>2 DEF Is
  <2> QED BY <2>1, <2>2
<1> HIDE DEF S
<1>12. LockCovers'
  BY <1>1, <1>7, <1>11, BornGrows, StoreStepCovers DEF DaemonInv
<1> QED BY <1>6, <1>12

(* So every step keeps the invariant. *)
LEMMA DaemonNextInv ==
  ASSUME Disciplined, DaemonInv, [Next]_vars
  PROVE  DaemonInv'
<1>1. StoreInv'
  BY StoreNextInv, DaemonStepIsStoreStep DEF DaemonInv
<1>2. CASE Client
  BY <1>1, <1>2, ClientInv, DaemonStepIsStoreStep DEF DaemonInv
<1>3. ASSUME NEW n \in Nodes, Daemon(n) \/ Unseal(n) \/ Fault(n) PROVE DaemonInv'
  <2>1. ASSUME NEW k \in KeyIDs, Rotate(n, k) PROVE DaemonInv'
    BY <1>1, <2>1, RotateKeepsInv DEF DaemonInv
  <2>2. ASSUME \/ TryAcquire(n) \/ ScanExpiredKeys(n) \/ Audit(n) \/ Release(n) \/ Restart(n)
               \/ \E k \in KeyIDs : RotateRefused(n, k) \/ RotateSealed(n, k)
               \/ Unseal(n) \/ Fault(n)
        PROVE  DaemonInv'
    <3>1. UNCHANGED storeVars
      BY <2>2, Zenon DEF TryAcquire, ScanExpiredKeys, Audit, Release, Restart, RotateRefused,
                  RotateSealed, Unseal, Fault
    <3> QED BY <1>1, <2>2, <3>1, OwnStepInv DEF DaemonInv
  <2> QED BY <1>3, <2>1, <2>2 DEF Daemon
<1>4. CASE UNCHANGED vars
  <2>1. UNCHANGED <<rows, latest, minted, creating, born, daemon, lock, sealed, faults>>
    BY <1>4 DEF vars, storeVars
  <2> QED BY <1>1, <2>1 DEF DaemonInv, DaemonTypes, LockCovers, AllDue, InState, Exists
<1> QED BY <1>2, <1>3, <1>4 DEF Next

(* The invariant holds in every reachable state. *)
THEOREM DaemonInvariant ==
  ASSUME Disciplined
  PROVE  Spec => []DaemonInv
<1>1. Init => DaemonInv
  <2> SUFFICES ASSUME Init PROVE DaemonInv
    OBVIOUS
  <2>1. StoreInv
    BY StoreInitInv DEF Init
  <2>2. DaemonTypes
    BY AsleepRecord, DaemonAssumption DEF Init, DaemonTypes, Is
  <2>3. LockCovers
    BY AsleepRecord DEF Init, LockCovers, Is
  <2> QED BY <2>1, <2>2, <2>3 DEF DaemonInv
<1>2. DaemonInv /\ [Next]_vars => DaemonInv'
  BY DaemonNextInv
<1> QED BY <1>1, <1>2, PTL DEF Spec

(* Type correctness of the daemons and of the rows they work on. *)
THEOREM DaemonTypeOK ==
  ASSUME Disciplined
  PROVE  Spec => []TypeOK
<1>1. DaemonInv => TypeOK
  BY DEF DaemonInv, DaemonTypes, StoreInv, TypeOK, Daemons
<1>2. Spec => []DaemonInv
  BY DaemonInvariant
<1> QED BY <1>1, <1>2, PTL

(* "The lock covers scan and rotate" (daemon.go:87), for every number of   *)
(* nodes: a daemon that holds the lock rotates what is due.                *)
THEOREM DaemonLockedRotatesDue ==
  ASSUME Disciplined
  PROVE  Spec => LockedRotatesDue
<1> DEFINE RotatesDue ==
      \A n \in Nodes, k \in KeyIDs :
        /\ daemon[n].pc = "batch" /\ daemon'[n].pc = "audit" /\ daemon'[n].owed = k
        /\ latest'[k] # latest[k]
        /\ lock = n /\ k \notin daemon[n].outside
        => Due(k)
<1>1. DaemonInv /\ [Next]_vars => [RotatesDue]_vars
  <2> SUFFICES ASSUME DaemonInv, Next, NEW n \in Nodes, NEW k \in KeyIDs,
                      daemon[n].pc = "batch", daemon'[n].pc = "audit",
                      latest'[k] # latest[k], lock = n, k \notin daemon[n].outside
               PROVE  Due(k)
    OBVIOUS
  <2>1. daemon \in [Nodes -> Daemons]
    BY DEF DaemonInv, DaemonTypes
  <2>2. ~Client
    <3> SUFFICES ASSUME Client PROVE FALSE
      OBVIOUS
    <3> DEFINE rotated == {l \in KeyIDs : latest'[l] > latest[l] /\ latest'[l] > 1}
    <3>1. daemon'[n] = Note(daemon[n], rotated) /\ rotated \in SUBSET KeyIDs
      BY DEF Client
    <3> HIDE DEF rotated
    <3>2. Is(daemon'[n], daemon[n].pc, daemon[n].due, daemon[n].lost,
             daemon[n].outside \cup (rotated \cap daemon[n].due))
      BY <2>1, <3>1, ScanRecords, Zenon
    <3> QED BY <3>2 DEF Is
  <2>3. PICK m \in Nodes, l \in KeyIDs : Rotate(m, l)
    <3>1. PICK m \in Nodes : Daemon(m) \/ Unseal(m) \/ Fault(m)
      BY <2>2 DEF Next
    <3> QED BY <3>1, Zenon DEF Daemon, TryAcquire, ScanExpiredKeys, Audit, Release, Restart,
                        RotateRefused, RotateSealed, Unseal, Fault, storeVars
  <2>4. m = n
    <3> SUFFICES ASSUME m # n PROVE FALSE
      OBVIOUS
    <3> DEFINE S == IF daemon[m].lost THEN {l} ELSE {}
    <3>1. daemon'[n] = Note(daemon[n], S) /\ S \in SUBSET KeyIDs
      BY <2>3 DEF Rotate
    <3> HIDE DEF S
    <3>2. Is(daemon'[n], daemon[n].pc, daemon[n].due, daemon[n].lost,
             daemon[n].outside \cup (S \cap daemon[n].due))
      BY <2>1, <3>1, ScanRecords, Zenon
    <3> QED BY <3>2 DEF Is
  <2>5. l = k
    BY <2>3 DEF Rotate, RotateKey, DaemonInv, StoreInv, StoreTypeOK
  <2>6. k \in daemon[n].due /\ RotateKey(k)
    BY <2>3, <2>4, <2>5 DEF Rotate, MayAttempt
  <2>7. AllDue(k)
    BY <2>6 DEF DaemonInv, LockCovers
  <2>8. LatestVersion(k) \in Versions /\ InState(k, LatestVersion(k), "Active")
    BY <2>6, LatestIs, StoreAssumption
       DEF RotateKey, DaemonInv, StoreInv, StoreTypeOK, Versions
  <2> QED BY <2>7, <2>8 DEF AllDue, Due
<1> HIDE DEF RotatesDue
<1>2. Spec => []DaemonInv
  BY DaemonInvariant
<1>3. Spec => [][RotatesDue]_vars
  BY <1>1, <1>2, PTL DEF Spec
<1> QED BY <1>3 DEF RotatesDue, LockedRotatesDue
-----------------------------------------------------------------------------
(* KeyReaper *)

INSTANCE FiniteSetTheorems
INSTANCE FunctionTheorems
INSTANCE SequenceTheorems

(* A pass under way, and what is left of a page: rows that clients do not  *)
(* encrypt with and never will again.                                      *)
Pass == [pc : {"page", "batch"}, offset : 0..Cardinality(Rows),
         count : 0..PageSize, batch : Seq(Rows), cutoff : SUBSET Rows]

Retired(e) ==
  /\ e[1] \in born /\ ~InState(e[1], e[2], "Active")
  /\ e[2] = 1 \/ e[2] <= latest[e[1]]

(* A page that has been read lies within the rows there can be. *)
PassInv ==
  /\ ReaperTypeOK
  /\ \A n \in Reapers : reaper[n].pc = "batch" =>
       reaper[n].offset + reaper[n].count <= Cardinality(Rows)

BatchRetired ==
  \A n \in Reapers : reaper[n] # NotReaping =>
    \A i \in 1..Len(reaper[n].batch) : Retired(reaper[n].batch[i])

-----------------------------------------------------------------------------
(* The order of the rows *)

(* There are finitely many rows. *)
LEMMA RowsFinite == IsFiniteSet(Rows) /\ Cardinality(Rows) \in Nat
<1>1. IsFiniteSet(Versions)
  BY FS_Interval, StoreAssumption DEF Versions
<1>2. IsFiniteSet(Rows)
  BY <1>1, FS_Product, ReaperAssumption DEF Rows
<1> QED BY <1>2, FS_CardinalityType

(* ORDER BY k puts the rows in an order (pg_kvstore.go:235-271). *)
LEMMA PositionOrders ==
  Position \in [Rows -> 1..Cardinality(Rows)] /\ IsInjective(Position)
<1>1. ExistsBijection(1..Cardinality(Rows), Rows)
  BY RowsFinite, FS_CardinalityType
<1>2. ExistsBijection(Rows, 1..Cardinality(Rows))
  BY <1>1, Fun_ExistsBijSymmetric
<1>3. \E f \in [Rows -> 1..Cardinality(Rows)] : IsInjective(f)
  BY <1>2 DEF ExistsBijection, Bijection, Injection
<1> QED BY <1>3 DEF Position

InOrder(f) == \A i \in DOMAIN f : \A j \in 1..i-1 : Position[f[j]] < Position[f[i]]

(* A first row goes before all others. *)
LEMMA FirstGoesFirst ==
  ASSUME NEW some \in SUBSET Rows, NEW n \in Nat, n # 0, NEW e \in some,
         \A x \in some : Position[e] <= Position[x],
         NEW g \in [1..n-1 -> some \ {e}], InOrder(g)
  PROVE  \E f \in [1..n -> some] : InOrder(f)
<1> DEFINE f == [i \in 1..n |-> IF i = 1 THEN e ELSE g[i - 1]]
<1>1. f \in [1..n -> some]
  OBVIOUS
<1>2. \A x \in some \ {e} : Position[e] < Position[x]
  BY PositionOrders DEF IsInjective
<1>3. ASSUME NEW i \in 1..n, NEW j \in 1..i-1
      PROVE  Position[f[j]] < Position[f[i]]
  <2>1. i - 1 \in 1..n-1 /\ f[i] = g[i - 1] /\ g[i - 1] \in some \ {e}
    OBVIOUS
  <2>2. CASE j = 1
    BY <1>2, <2>1, <2>2
  <2>3. CASE j # 1
    <3>1. f[j] = g[j - 1] /\ j - 1 \in 1..(i - 1)-1
      BY <2>1, <2>3
    <3> QED BY <2>1, <3>1 DEF InOrder
  <2> QED BY <2>2, <2>3
<1>4. InOrder(f)
  BY <1>3, Zenon DEF InOrder
<1> QED BY <1>1, <1>4

(* Any set of rows can be listed in that order: a least set that cannot    *)
(* would have a first row.                                                 *)
LEMMA OrderExists ==
  ASSUME NEW some \in SUBSET Rows
  PROVE  \E f \in [1..Cardinality(some) -> some] : InOrder(f)
<1> DEFINE Lists(S) == \E f \in [1..Cardinality(S) -> S] : InOrder(f)
           Bad == {n \in Nat : \E S \in SUBSET Rows : Cardinality(S) = n /\ ~Lists(S)}
<1>1. \A S \in SUBSET Rows : IsFiniteSet(S) /\ Cardinality(S) \in Nat
  BY RowsFinite, FS_Subset, FS_CardinalityType
<1>2. ASSUME Bad # {} PROVE FALSE
  <2>1. PICK n \in Bad : \A m \in Bad : n <= m
    BY <1>2, LeastNat, Zenon
  <2>2. PICK S \in SUBSET Rows : Cardinality(S) = n /\ ~Lists(S)
    BY <2>1
  <2>3. n \in Nat
    BY <2>1
  <2>4. CASE n = 0
    <3>1. S = {}
      BY <1>1, <2>2, <2>4, FS_EmptySet
    <3> DEFINE f == [i \in 1..n |-> i]
    <3>2. f \in [1..n -> S] /\ InOrder(f)
      BY <2>4 DEF InOrder
    <3> QED BY <2>2, <3>2
  <2>5. CASE n # 0
    <3>1. S # {}
      BY <1>1, <2>2, <2>5, FS_EmptySet
    <3> DEFINE P == {Position[x] : x \in S}
    <3>2. P \subseteq Nat /\ P # {}
      BY <3>1, PositionOrders, RowsFinite
    <3>3. \E p \in P : \A q \in P : p <= q
      BY <3>2, LeastNat, ZenonT(30)
    <3>4. PICK e \in S : \A x \in S : Position[e] <= Position[x]
      BY <3>3
    <3>5. Cardinality(S \ {e}) = n - 1 /\ S \ {e} \in SUBSET Rows /\ n - 1 \in Nat
      BY <1>1, <2>2, <2>3, <2>5, <3>4, FS_RemoveElement
    <3>6. n - 1 \notin Bad
      BY <2>1, <2>3, <3>5
    <3>7. Lists(S \ {e})
      BY <3>5, <3>6, Zenon
    <3>8. PICK g \in [1..n-1 -> S \ {e}] : InOrder(g)
      BY <3>5, <3>7, Zenon
    <3>9. \E f \in [1..n -> S] : InOrder(f)
      BY <2>3, <2>5, <3>4, <3>8, FirstGoesFirst
    <3> QED BY <2>2, <3>9
  <2> QED BY <2>4, <2>5
<1>3. Lists(some)
  BY <1>1, <1>2, Zenon
<1> QED BY <1>3

(* The listing is a sequence of these rows, as many as there are. *)
LEMMA OrderedIs ==
  ASSUME NEW some \in SUBSET Rows
  PROVE  /\ Ordered(some) \in Seq(Rows) /\ Len(Ordered(some)) <= Cardinality(Rows)
         /\ Len(Ordered(some)) \in Nat
         /\ \A i \in 1..Len(Ordered(some)) : Ordered(some)[i] \in some
<1>1. Ordered(some) \in [1..Cardinality(some) -> some]
  BY OrderExists, Zenon DEF Ordered, InOrder
<1>2. Cardinality(some) \in Nat /\ Cardinality(some) <= Cardinality(Rows)
  BY RowsFinite, FS_Subset, FS_CardinalityType
<1> HIDE DEF Ordered
<1>3. Ordered(some) \in Seq(Rows) /\ Len(Ordered(some)) = Cardinality(some)
  BY <1>1, <1>2
<1> QED BY <1>1, <1>2, <1>3

(* A page has at most PageSize rows and ends where the rows end            *)
(* (pg_kvstore.go:235-271).                                                *)
LEMMA PageIs ==
  ASSUME NEW offset \in Nat
  PROVE  LET items == ScanPrefixPaged(offset) IN
         /\ items \in Seq(Rows) /\ Len(items) \in 0..PageSize
         /\ items # <<>> => offset + Len(items) <= Cardinality(Rows)
<1> DEFINE all == Stored
           m == Min({offset + PageSize, Len(all)})
<1>1. all \in Seq(Rows) /\ Len(all) \in Nat /\ Len(all) <= Cardinality(Rows)
  BY OrderedIs DEF Stored
<1> HIDE DEF all
<1>2. m \in Nat /\ m <= offset + PageSize /\ m <= Len(all)
  BY <1>1, ReaperAssumption DEF Min
<1> HIDE DEF m
<1>3. \A i \in offset + 1 .. m : all[i] \in Rows
  BY <1>1, <1>2
<1>4. /\ SubSeq(all, offset + 1, m) \in Seq(Rows)
      /\ Len(SubSeq(all, offset + 1, m)) = IF offset + 1 <= m THEN m - (offset + 1) + 1 ELSE 0
  BY <1>2, <1>3, SubSeqProperties
<1>5. SubSeq(all, offset + 1, m) # <<>> => offset + 1 <= m
  BY <1>2, SubSeqEmpty
<1>6. ScanPrefixPaged(offset) = SubSeq(all, offset + 1, m)
  BY DEF ScanPrefixPaged, all, m
<1> QED BY <1>1, <1>2, <1>4, <1>5, <1>6, RowsFinite, ReaperAssumption

-----------------------------------------------------------------------------
(* Steps of a reaper *)

(* What a reaper n makes of its pass: D is a pass or none, what is left to *)
(* shred in it was left before or is expired now, and the store stays as   *)
(* it is or loses the row at the head of the batch.                        *)
Left(n) == IF reaper[n] = NotReaping THEN {} ELSE Range(reaper[n].batch)

PassBecomes(n, D) ==
  /\ reaper' = [reaper EXCEPT ![n] = D]
  /\ D \in {NotReaping} \cup Pass
  /\ D.pc = "batch" => D.offset + D.count <= Cardinality(Rows)
  /\ D # NotReaping => Range(D.batch) \subseteq Left(n) \cup ExpiredRows
  /\ \/ UNCHANGED storeVars
     \/ \E e \in Left(n) : ShredKey(e[1], e[2])

(* The records of a pass, field by field: a shorter batch *)
LEMMA BatchRecord ==
  ASSUME NEW r \in Pass, NEW b \in Seq(Rows)
  PROVE  LET D == [r EXCEPT !.batch = b] IN
         D \in Pass /\ D.batch = b /\ D.pc = r.pc /\ D.offset = r.offset /\ D.count = r.count
BY DEF Pass

(* ... and the way to the next page. *)
LEMMA OffsetRecord ==
  ASSUME NEW r \in Pass, NEW o \in 0..Cardinality(Rows)
  PROVE  LET D == [r EXCEPT !.pc = "page", !.offset = o] IN
         D \in Pass /\ D.batch = r.batch /\ D.pc = "page"
BY Zenon DEF Pass

(* No pass is the absence of one. *)
LEMMA PassAwake == \A r \in Pass : r # NotReaping /\ r.pc # "asleep"
BY DEF Pass, NotReaping

(* A node in a pass has a pass. *)
LEMMA InPass ==
  ASSUME PassInv, NEW n \in Reapers
  PROVE  /\ reaper[n] \in {NotReaping} \cup Pass
         /\ reaper[n].pc \in {"page", "batch"} <=> reaper[n] \in Pass
         /\ Batch(n) # <<>> => reaper[n] \in Pass /\ reaper[n].pc = "batch" /\ Batch(n) = reaper[n].batch
<1>1. reaper[n] \in {NotReaping} \cup Pass
  BY DEF PassInv, ReaperTypeOK, Pass
<1>2. reaper[n].pc \in {"page", "batch"} <=> reaper[n] \in Pass
  BY <1>1 DEF NotReaping, Pass
<1> QED BY <1>1, <1>2 DEF Batch

(* The next row of the batch is dropped: shredded, gone, or failed. *)
LEMMA DropRow ==
  ASSUME PassInv, NEW n \in Reapers, Batch(n) # <<>>,
         reaper' = [reaper EXCEPT ![n].batch = Tail(@)],
         \/ UNCHANGED storeVars
         \/ ShredKey(Head(Batch(n))[1], Head(Batch(n))[2])
  PROVE  \E D : PassBecomes(n, D)
<1> DEFINE r == reaper[n]
           D == [r EXCEPT !.batch = Tail(r.batch)]
<1>1. r \in Pass /\ r.pc = "batch" /\ Batch(n) = r.batch /\ r # NotReaping
  BY InPass, PassAwake
<1>2. r.batch \in Seq(Rows) /\ r.batch # <<>>
  BY <1>1 DEF Pass
<1> DEFINE b == r.batch
<1> HIDE DEF b
<1>3. b \in Seq(Rows) /\ b # <<>>
  BY <1>2 DEF b
<1>4. /\ Tail(b) \in Seq(Rows) /\ Len(b) \in Nat /\ Len(b) > 0 /\ Len(Tail(b)) = Len(b) - 1
      /\ Head(b) = b[1]
      /\ \A i \in 1..Len(Tail(b)) : Tail(b)[i] = b[i + 1]
  BY <1>3, HeadTailProperties
<1>5. Range(Tail(b)) \subseteq Range(b) /\ Head(b) \in Range(b)
  BY <1>3, <1>4 DEF Range
<1>6. D \in Pass /\ D.batch = Tail(b) /\ D.pc = r.pc /\ D.offset = r.offset /\ D.count = r.count
  BY <1>1, <1>4, BatchRecord, Zenon DEF b
<1>7. Left(n) = Range(b)
  BY <1>1 DEF Left, b
<1>8. reaper' = [reaper EXCEPT ![n] = D]
  OBVIOUS
<1>9. r.offset + r.count <= Cardinality(Rows)
  BY <1>1 DEF PassInv
<1> HIDE DEF D, r
<1>10. UNCHANGED storeVars \/ \E e \in Left(n) : ShredKey(e[1], e[2])
  BY <1>1, <1>5, <1>7 DEF b, r
<1> QED BY <1>5, <1>6, <1>7, <1>8, <1>9, <1>10, Zenon DEF PassBecomes

(* A reaper falls asleep. *)
LEMMA FallAsleep ==
  ASSUME NEW n, reaper' = [reaper EXCEPT ![n] = NotReaping], UNCHANGED storeVars
  PROVE  \E D : PassBecomes(n, D)
<1>1. PassBecomes(n, NotReaping)
  BY DEF PassBecomes, NotReaping
<1> QED BY <1>1

(* Every step of a reaper is of this form (manager.go:877-986). *)
LEMMA PassStep ==
  ASSUME PassInv, NEW n \in Reapers, Reap(n) \/ PassFails(n)
  PROVE  \E D : PassBecomes(n, D)
<1> DEFINE r == reaper[n]
<1>0. ExpiredRows \in SUBSET Rows
  BY DEF ExpiredRows
<1>1. CASE ReapStart(n)
  <2> DEFINE D == [pc |-> "page", offset |-> 0, count |-> 0, batch |-> <<>>, cutoff |-> ExpiredRows]
  <2>1. D \in Pass /\ D.pc = "page" /\ D.batch = <<>>
    BY <1>0, RowsFinite, ReaperAssumption DEF Pass
  <2>2. reaper' = [reaper EXCEPT ![n] = D] /\ UNCHANGED storeVars
    BY <1>1 DEF ReapStart
  <2>3. Range(<<>>) = {}
    BY DEF Range
  <2> HIDE DEF D
  <2>4. PassBecomes(n, D)
    BY <2>1, <2>2, <2>3 DEF PassBecomes
  <2> QED BY <2>4
<1>2. CASE ReapPage(n)
  <2> DEFINE items == ScanPrefixPaged(r.offset)
             some == Range(items) \cap ExpiredRows \cap r.cutoff
             b == Ordered(some)
             D == [r EXCEPT !.pc = "batch", !.count = Len(items), !.batch = b]
  <2>1. r.pc = "page" /\ UNCHANGED storeVars
        /\ reaper' = [reaper EXCEPT ![n] = IF items = <<>> THEN NotReaping ELSE D]
    BY <1>2 DEF ReapPage
  <2>2. r \in Pass /\ r.offset \in Nat
    BY <2>1, InPass, RowsFinite DEF Pass
  <2> HIDE DEF r
  <2>3. Len(items) \in 0..PageSize /\ (items # <<>> => r.offset + Len(items) <= Cardinality(Rows))
    BY <2>2, PageIs, ZenonT(30)
  <2>4. some \in SUBSET Rows /\ some \subseteq ExpiredRows
    BY <1>0
  <2> HIDE DEF items, some
  <2>5. /\ b \in Seq(Rows) /\ Len(b) \in Nat
        /\ \A i \in 1..Len(b) : b[i] \in some
    BY <2>4, OrderedIs
  <2> HIDE DEF b
  <2>6. Range(b) \subseteq some
    BY <2>5 DEF Range
  <2>7. D \in Pass /\ D.batch = b /\ D.offset = r.offset /\ D.count = Len(items)
    <3>1. PICK c \in 0..PageSize : c = Len(items)
      BY <2>3
    <3>2. LET E == [r EXCEPT !.pc = "batch", !.count = c, !.batch = b] IN
          E \in Pass /\ E.batch = b /\ E.offset = r.offset /\ E.count = c
      BY <2>2, <2>5, Zenon DEF Pass
    <3> QED BY <3>1, <3>2
  <2> HIDE DEF D
  <2>8. CASE items = <<>>
    BY <2>1, <2>8, FallAsleep, ZenonT(30) DEF r
  <2>9. CASE items # <<>>
    <3>1. PassBecomes(n, D)
      BY <2>1, <2>3, <2>4, <2>6, <2>7, <2>9 DEF PassBecomes
    <3> QED BY <3>1
  <2> QED BY <2>8, <2>9
<1>3. CASE ReapShred(n) \/ ReapGone(n)
  BY <1>3, DropRow DEF ReapShred, ReapGone
<1>4. CASE ReapNextPage(n)
  <2> DEFINE D == [r EXCEPT !.pc = "page", !.offset = r.offset + r.count]
  <2>1. r.pc = "batch" /\ r.batch = <<>> /\ UNCHANGED storeVars
        /\ reaper' = [reaper EXCEPT ![n] = IF r.count < PageSize THEN NotReaping ELSE D]
    BY <1>4 DEF ReapNextPage
  <2>2. r \in Pass /\ r.offset + r.count \in 0..Cardinality(Rows)
    <3>1. r \in Pass /\ r.offset + r.count <= Cardinality(Rows)
      BY <2>1, InPass DEF PassInv
    <3> QED BY <3>1, RowsFinite, ReaperAssumption DEF Pass
  <2>3. <<>> \in Seq(Rows) /\ 0 \in 0..PageSize /\ Range(<<>>) = {}
    BY ReaperAssumption DEF Range
  <2> HIDE DEF r
  <2>4. D \in Pass /\ D.batch = <<>> /\ D.pc = "page"
    BY <2>1, <2>2, OffsetRecord, Zenon
  <2> HIDE DEF D
  <2>5. CASE r.count < PageSize
    BY <2>1, <2>5, FallAsleep, Zenon
  <2>6. CASE ~(r.count < PageSize)
    <3>1. PassBecomes(n, D)
      BY <2>1, <2>3, <2>4, <2>6 DEF PassBecomes
    <3> QED BY <3>1
  <2> QED BY <2>5, <2>6
<1>5. CASE PassFails(n)
  BY <1>5, DropRow, FallAsleep DEF PassFails
<1> QED BY <1>1, <1>2, <1>3, <1>4, <1>5 DEF Reap

(* A step of the system is one of a reaper, or leaves the passes alone. *)
LEMMA StepKinds ==
  ASSUME PassInv, [ReaperNext]_reaperVars
  PROVE  /\ passFailures' \in 0..MaxPassFailures
         /\ \/ \E n \in Reapers : \E D : PassBecomes(n, D)
            \/ [StoreNext]_storeVars /\ UNCHANGED reaper
<1>1. passFailures \in 0..MaxPassFailures /\ MaxPassFailures \in Nat
  BY ReaperAssumption DEF PassInv, ReaperTypeOK
<1>2. CASE UNCHANGED reaperVars
  BY <1>1, <1>2 DEF reaperVars
<1>3. CASE Meanwhile
  BY <1>1, <1>3 DEF Meanwhile, StoreNext
<1>4. ASSUME NEW n \in Reapers, Reap(n) \/ PassFails(n)
      PROVE  passFailures' \in 0..MaxPassFailures /\ \E D : PassBecomes(n, D)
  <2>1. passFailures' \in 0..MaxPassFailures
    BY <1>1, <1>4 DEF Reap, PassFails
  <2> QED BY <1>4, <2>1, PassStep
<1> QED BY <1>2, <1>3, <1>4 DEF ReaperNext

(* The types, and the bound of a page, are kept by every step. *)
LEMMA PassNext == PassInv /\ [ReaperNext]_reaperVars => PassInv'
<1> SUFFICES ASSUME PassInv, [ReaperNext]_reaperVars
             PROVE  PassInv'
  OBVIOUS
<1>1. passFailures' \in 0..MaxPassFailures
  BY StepKinds
<1>2. reaper \in [Reapers -> {NotReaping} \cup Pass]
  BY DEF PassInv, ReaperTypeOK, Pass
<1>3. ASSUME NEW n \in Reapers, NEW D, PassBecomes(n, D)
      PROVE  PassInv'
  <2>1. reaper' \in [Reapers -> {NotReaping} \cup Pass]
    BY <1>2, <1>3 DEF PassBecomes
  <2>2. ASSUME NEW m \in Reapers, reaper'[m].pc = "batch"
        PROVE  reaper'[m].offset + reaper'[m].count <= Cardinality(Rows)
    <3>1. CASE m = n
      <4>1. reaper'[m] = D
        BY <1>2, <1>3, <3>1 DEF PassBecomes
      <4> QED BY <1>3, <2>2, <4>1 DEF PassBecomes
    <3>2. CASE m # n
      <4>1. reaper'[m] = reaper[m]
        BY <1>2, <1>3, <3>2 DEF PassBecomes
      <4> QED BY <2>2, <4>1 DEF PassInv
    <3> QED BY <3>1, <3>2
  <2>3. ReaperTypeOK'
    BY <1>1, <2>1 DEF ReaperTypeOK, Pass
  <2> QED BY <2>2, <2>3 DEF PassInv
<1>4. CASE UNCHANGED reaper
  BY <1>1, <1>4 DEF PassInv, ReaperTypeOK
<1> QED BY <1>3, <1>4, StepKinds

(* Every variable keeps its type, and no pass leaves the table. *)
THEOREM ReaperPasses == ReaperSpec => []PassInv
<1>1. ReaperInit => PassInv
  BY ReaperAssumption DEF ReaperInit, PassInv, ReaperTypeOK, NotReaping
<1> QED BY <1>1, PassNext, PTL DEF ReaperSpec

(* Offsets and counts of a pass stay within the rows there can be, for any *)
(* page size (manager.go:897-947).                                         *)
THEOREM ReaperTypes == ReaperSpec => []ReaperTypeOK
<1>1. PassInv => ReaperTypeOK
  BY DEF PassInv
<1> QED BY <1>1, ReaperPasses, PTL

(* Every step of a reaper is a step of the store. *)
LEMMA ReaperStepIsStoreStep == PassInv /\ [ReaperNext]_reaperVars => [StoreNext]_storeVars
<1> SUFFICES ASSUME PassInv, [ReaperNext]_reaperVars
             PROVE  [StoreNext]_storeVars
  OBVIOUS
<1>1. ASSUME NEW n \in Reapers, NEW e \in Left(n), ShredKey(e[1], e[2])
      PROVE  StoreNext
  <2>1. e \in Rows
    <3>1. reaper[n] # NotReaping /\ e \in Range(reaper[n].batch)
      BY <1>1 DEF Left
    <3>2. reaper[n].batch \in Seq(Rows)
      BY <3>1, InPass DEF Pass
    <3> QED BY <3>1, <3>2 DEF Range
  <2>2. e[1] \in KeyIDs /\ e[2] \in Versions
    BY <2>1 DEF Rows
  <2> QED BY <1>1, <2>2 DEF StoreNext, ClientNext
<1> QED BY <1>1, StepKinds DEF PassBecomes

(* The reapers and their clients do nothing to the store that clients and  *)
(* time could not do.                                                      *)
THEOREM ReapersImplementStore == ReaperSpec => StoreSpec
<1>1. ReaperInit => StoreInit
  BY DEF ReaperInit
<1> QED BY <1>1, ReaperPasses, ReaperStepIsStoreStep, PTL DEF ReaperSpec, StoreSpec

-----------------------------------------------------------------------------
(* What reapers spare *)

(* A version that is not Active never is again: no rotation issues its     *)
(* number and RestoreKey makes it Deactivated (manager.go:800-870).        *)
LEMMA RetiredStays ==
  ASSUME Disciplined, StoreInv, [StoreNext]_storeVars, NEW e \in Rows, Retired(e)
  PROVE  Retired(e)'
<1>1. e[1] \in KeyIDs /\ e[2] \in Versions /\ e[2] \in Nat /\ e[1] \in born
  BY StoreAssumption DEF Rows, Retired, Versions
<1>2. Kept(e[1], e[2])
  BY <1>1, VersionKept
<1>3. latest[e[1]] <= latest'[e[1]] /\ latest[e[1]] \in Nat /\ latest'[e[1]] \in Nat /\ born \subseteq born'
  BY <1>1, IndexGrows
<1>4. ~InState(e[1], e[2], "Active")'
  BY <1>2 DEF Kept, Retired, InState, Exists
<1>5. e[2] = 1 \/ e[2] <= latest'[e[1]]
  BY <1>1, <1>3 DEF Retired
<1> QED BY <1>1, <1>3, <1>4, <1>5 DEF Retired

(* What is in the recycle bin is retired. *)
LEMMA ExpiredIsRetired ==
  ASSUME StoreInv, NEW e \in ExpiredRows
  PROVE  Retired(e)
<1>1. e[1] \in KeyIDs /\ e[2] \in Versions /\ InState(e[1], e[2], "SoftDeleted")
  BY DEF ExpiredRows, Rows, Reapable
<1> QED BY <1>1 DEF StoreInv, StoreShape, Retired, InState

(* So a batch never comes to hold an Active version. *)
LEMMA RetiredNext ==
  ASSUME Disciplined, StoreInv, PassInv, BatchRetired, [ReaperNext]_reaperVars
  PROVE  BatchRetired'
<1>1. [StoreNext]_storeVars
  BY ReaperStepIsStoreStep
<1>2. reaper \in [Reapers -> {NotReaping} \cup Pass]
  BY DEF PassInv, ReaperTypeOK, Pass
<1>3. \A m \in Reapers : \A e \in Left(m) : e \in Rows /\ Retired(e)
  <2> SUFFICES ASSUME NEW m \in Reapers, NEW e \in Left(m)
               PROVE  e \in Rows /\ Retired(e)
    OBVIOUS
  <2>1. reaper[m] # NotReaping /\ e \in Range(reaper[m].batch)
    BY DEF Left
  <2>2. reaper[m].batch \in Seq(Rows)
    BY <1>2, <2>1 DEF Pass
  <2>3. PICK i \in 1..Len(reaper[m].batch) : e = reaper[m].batch[i]
    BY <2>1, <2>2 DEF Range
  <2> QED BY <2>1, <2>2, <2>3 DEF BatchRetired
<1>4. \A e \in ExpiredRows : e \in Rows /\ Retired(e)
  BY ExpiredIsRetired DEF ExpiredRows
<1>5. ASSUME NEW m \in Reapers, NEW b \in Seq(Rows), Range(b) \subseteq Left(m) \cup ExpiredRows
      PROVE  \A i \in 1..Len(b) : Retired(b[i])'
  <2> SUFFICES ASSUME NEW i \in 1..Len(b) PROVE Retired(b[i])'
    OBVIOUS
  <2>1. b[i] \in Range(b)
    BY DEF Range
  <2>2. PICK e : e = b[i]
    OBVIOUS
  <2>3. e \in Rows /\ Retired(e)
    BY <1>3, <1>4, <1>5, <2>1, <2>2
  <2>4. Retired(e)'
    BY <1>1, <2>3, RetiredStays
  <2> QED BY <2>2, <2>4
<1>6. ASSUME NEW m \in Reapers, NEW b \in Seq(Rows), reaper'[m].batch = b,
             Range(b) \subseteq Left(m) \cup ExpiredRows
      PROVE  \A i \in 1..Len(reaper'[m].batch) : Retired(reaper[m].batch[i])'
  <2>1. \A i \in 1..Len(b) : Retired(b[i])'
    BY <1>5, <1>6
  <2> QED BY <1>6, <2>1 DEF Retired, InState, Exists
<1>7. ASSUME NEW m \in Reapers, reaper'[m] = reaper[m], reaper'[m] # NotReaping
      PROVE  \A i \in 1..Len(reaper'[m].batch) : Retired(reaper[m].batch[i])'
  <2>1. reaper[m].batch \in Seq(Rows) /\ Range(reaper[m].batch) \subseteq Left(m) \cup ExpiredRows
    BY <1>2, <1>7 DEF Pass, Left
  <2> QED BY <1>6, <1>7, <2>1
<1>8. ASSUME NEW n \in Reapers, NEW D, PassBecomes(n, D), NEW m \in Reapers, reaper'[m] # NotReaping
      PROVE  \A i \in 1..Len(reaper'[m].batch) : Retired(reaper[m].batch[i])'
  <2>1. CASE m = n
    <3>1. reaper'[m] = D
      BY <1>2, <1>8, <2>1 DEF PassBecomes
    <3>2. D.batch \in Seq(Rows) /\ Range(D.batch) \subseteq Left(m) \cup ExpiredRows
      BY <1>8, <2>1, <3>1 DEF PassBecomes, Pass
    <3> QED BY <1>6, <3>1, <3>2
  <2>2. CASE m # n
    <3>1. reaper'[m] = reaper[m]
      BY <1>2, <1>8, <2>2 DEF PassBecomes
    <3> QED BY <1>7, <1>8, <3>1
  <2> QED BY <2>1, <2>2
<1>9. CASE UNCHANGED reaper
  BY <1>7, <1>9 DEF BatchRetired
<1>10. CASE \E n \in Reapers : \E D : PassBecomes(n, D)
  BY <1>8, <1>10 DEF BatchRetired
<1> QED BY <1>9, <1>10, StepKinds

(* With clients that create an id once, everything left of a page is a     *)
(* version that is not Active.                                             *)
THEOREM ReaperInvariant ==
  ASSUME Disciplined
  PROVE  ReaperSpec => [](StoreInv /\ PassInv /\ BatchRetired)
<1>1. StoreSpec => []StoreInv
  BY StoreInvariant
<1>2. ReaperInit => BatchRetired
  BY DEF ReaperInit, BatchRetired
<1>3. StoreInv /\ PassInv /\ BatchRetired /\ [ReaperNext]_reaperVars => BatchRetired'
  BY RetiredNext
<1> QED BY <1>1, <1>2, <1>3, ReaperPasses, ReapersImplementStore, PTL DEF ReaperSpec

(* A batch grows no shorter while its reaper does nothing. *)
LEMMA BatchStays ==
  ASSUME PassInv, NEW n \in Reapers, UNCHANGED reaper, Batch(n) # <<>>
  PROVE  Batch(n)' # Tail(Batch(n))
<1>1. Batch(n)' = Batch(n)
  BY DEF Batch
<1>2. Batch(n) \in Seq(Rows)
  BY InPass DEF Pass
<1>3. Len(Tail(Batch(n))) = Len(Batch(n)) - 1 /\ Len(Batch(n)) \in Nat
  BY <1>2, HeadTailProperties
<1>4. Tail(Batch(n)) # Batch(n)
  <2>1. \A l \in Nat : l - 1 # l
    OBVIOUS
  <2> QED BY <1>3, <2>1, Zenon
<1> QED BY <1>1, <1>4, Zenon

(* A reaper never takes the version clients encrypt with, however long the *)
(* batch has been waiting and whatever clients did meanwhile               *)
(* (manager.go:595-653, 897-947).                                          *)
THEOREM ReaperSpares ==
  ASSUME Disciplined
  PROVE  ReaperSpec => ReaperSparesActive
<1> DEFINE Spares == \A n \in Reapers, k \in KeyIDs, v \in Versions :
             Batch(n) # <<>> /\ Batch(n)' = Tail(Batch(n)) /\ InState(k, v, "Active")
               => Exists(k, v)'
<1>1. StoreInv /\ PassInv /\ BatchRetired /\ [ReaperNext]_reaperVars => [Spares]_reaperVars
  <2> SUFFICES ASSUME StoreInv, PassInv, BatchRetired, [ReaperNext]_reaperVars,
                      NEW n \in Reapers, NEW k \in KeyIDs, NEW v \in Versions,
                      Batch(n) # <<>>, Batch(n)' = Tail(Batch(n)), InState(k, v, "Active")
               PROVE  Exists(k, v)'
    OBVIOUS
  <2>1. CASE UNCHANGED storeVars
    BY <2>1 DEF storeVars, InState, Exists
  <2>2. ASSUME NEW m \in Reapers, NEW e \in Left(m), ShredKey(e[1], e[2])
        PROVE  Exists(k, v)'
    <3>1. reaper[m] # NotReaping /\ e \in Range(reaper[m].batch)
      BY <2>2 DEF Left
    <3>2. reaper[m].batch \in Seq(Rows)
      BY <3>1, InPass DEF Pass
    <3>3. PICK i \in 1..Len(reaper[m].batch) : e = reaper[m].batch[i]
      BY <3>1, <3>2 DEF Range
    <3>4. Retired(e)
      BY <3>1, <3>3 DEF BatchRetired
    <3>5. <<e[1], e[2]>> # <<k, v>>
      BY <3>4 DEF Retired
    <3> QED BY <2>2, <3>5 DEF ShredKey, InState, Exists, StoreInv, StoreTypeOK
  <2>3. CASE UNCHANGED reaper
    BY <2>3, BatchStays
  <2> QED BY <2>1, <2>2, <2>3, StepKinds DEF PassBecomes
<1> HIDE DEF Spares
<1>2. ReaperSpec => [][Spares]_reaperVars
  BY <1>1, ReaperInvariant, PTL DEF ReaperSpec
<1> QED BY <1>2 DEF Spares, ReaperSparesActive
=============================================================================
