------------------------------ MODULE KeyStore ------------------------------
(***************************************************************************)
(* What lifecycle.Manager (lifecycle/manager.go) keeps in the KVStore: one *)
(* row "key:<id>:v:<n>" per key version and one index row                  *)
(* "meta:latest:<id>".  Rotate, Shred, SoftDelete and Restore are          *)
(* transactions that lock the rows they touch (GetForUpdate), so each is   *)
(* one step here; CreateKey is two independent Puts, so it is two steps.   *)
(* The caches, the reaper and the rotation daemon are in KeyCluster,       *)
(* KeyReaper and RotationDaemon, which extend this module.                 *)
(***************************************************************************)
EXTENDS Naturals

CONSTANTS KeyIDs,
          MaxVersion,   \* bound: versions per key
          Periodic,     \* keys created with RotationPeriodDays > 0
          Clients,      \* callers of CreateKey
          NoRow,        \* ErrNotFound
          None,         \* no create in progress
          Disciplined   \* clients create an id once and use it once created

ASSUME StoreAssumption ==
  /\ MaxVersion \in Nat \ {0}
  /\ Periodic \in SUBSET KeyIDs
  /\ None \notin KeyIDs
  /\ Disciplined \in BOOLEAN
  /\ NoRow \notin [state : {"Active", "Deactivated", "SoftDeleted"}, dek : Nat,
                   expired : BOOLEAN, due : BOOLEAN]

VARIABLES rows,      \* rows[k][v]: the metadata row of version v, or NoRow
          latest,    \* latest[k]: the index row, 0 when there is none
          minted,    \* DEKs generated so far; names the next one
          creating,  \* creating[c]: the id client c is creating, between the Puts
          born       \* ids some client has created or imported

storeVars == <<rows, latest, minted, creating, born>>

Versions == 1..MaxVersion
States == {"Active", "Deactivated", "SoftDeleted"}

(* KeyMetadata: expired says that DeletedAt lies further back than the     *)
(* recycle-bin TTL, due that NextRotationAt has passed.  A row in state    *)
(* Destroyed is deleted by the transaction that writes it.                 *)
Metadata == [state : States, dek : Nat, expired : BOOLEAN, due : BOOLEAN]

NewRow == [state |-> "Active", dek |-> minted + 1, expired |-> FALSE, due |-> FALSE]

StoreInit == /\ rows = [k \in KeyIDs |-> [v \in Versions |-> NoRow]]
             /\ latest = [k \in KeyIDs |-> 0]
             /\ minted = 0
             /\ creating = [c \in Clients |-> None]
             /\ born = {}

Exists(k, v) == rows[k][v] # NoRow
InState(k, v, s) == Exists(k, v) /\ rows[k][v].state = s

(* findLatestVersionScan: the version before the first hole, 0 if v1 is one. *)
ScanLatest(k) ==
  CHOOSE n \in 0..MaxVersion :
    /\ \A v \in 1..n : Exists(k, v)
    /\ n < MaxVersion => ~Exists(k, n + 1)

(* getLatestVersion and findLatestVersionInTx. *)
LatestVersion(k) == IF latest[k] # 0 THEN latest[k] ELSE ScanLatest(k)

MayCreate(k) == Disciplined => k \notin born
MayUse(k) == Disciplined => k \in born /\ \A c \in Clients : creating[c] # k

(* saveMetadata of version 1 with a fresh DEK: an upsert, also over an     *)
(* existing row.                                                           *)
PutFirst(k) == /\ MayCreate(k)
               /\ rows' = [rows EXCEPT ![k][1] = NewRow]
               /\ minted' = minted + 1
               /\ born' = born \cup {k}
               /\ UNCHANGED latest

(* CreateKey, CreateAsymmetricKey and createSM2Key up to saveMetadata. *)
CreateKey(c, k) == /\ creating[c] = None
                   /\ PutFirst(k)
                   /\ creating' = [creating EXCEPT ![c] = k]

(* ... their setLatestVersion(1), *)
CreateIndex(c) == /\ creating[c] # None
                  /\ latest' = [latest EXCEPT ![creating[c]] = 1]
                  /\ creating' = [creating EXCEPT ![c] = None]
                  /\ UNCHANGED <<rows, minted, born>>

(* ... whose error is ignored, or that a crash prevents. *)
CreateIndexLost(c) == /\ creating[c] # None
                      /\ creating' = [creating EXCEPT ![c] = None]
                      /\ UNCHANGED <<rows, latest, minted, born>>

(* ImportKey stores version 1, without a rotation period, and never writes *)
(* the index.                                                              *)
ImportKey(k) == k \notin Periodic /\ PutFirst(k) /\ UNCHANGED creating

(* A RotateKey that leaves the old version Active. *)
RotateKeyKeepsActive(k) ==
  LET v == LatestVersion(k)
  IN /\ MayUse(k)
     /\ v # 0 /\ v < MaxVersion
     /\ InState(k, v, "Active")
     /\ rows' = [rows EXCEPT ![k][v + 1] = NewRow]
     /\ latest' = [latest EXCEPT ![k] = v + 1]
     /\ minted' = minted + 1
     /\ UNCHANGED <<creating, born>>

(* A RotateKey that wraps the old DEK again instead of a new one. *)
RotateKeySameDek(k) ==
  LET v == LatestVersion(k)
  IN /\ MayUse(k)
     /\ v # 0 /\ v < MaxVersion
     /\ InState(k, v, "Active")
     /\ rows' = [rows EXCEPT ![k][v].state = "Deactivated",
                             ![k][v + 1] = [NewRow EXCEPT !.dek = rows[k][v].dek]]
     /\ latest' = [latest EXCEPT ![k] = v + 1]
     /\ UNCHANGED <<minted, creating, born>>

(* A RotateKey that derives the new version by scanning for a free slot. *)
RotateKeyReusesSlot(k) ==
  LET v == LatestVersion(k)
  IN /\ MayUse(k)
     /\ v # 0 /\ v < MaxVersion
     /\ InState(k, v, "Active")
     /\ \E w \in Versions :
          /\ ~Exists(k, w) /\ \A u \in 1..(w - 1) : Exists(k, u)
          /\ rows' = [rows EXCEPT ![k][v].state = "Deactivated", ![k][w] = NewRow]
          /\ latest' = [latest EXCEPT ![k] = IF w > v THEN w ELSE v]
     /\ minted' = minted + 1
     /\ UNCHANGED <<creating, born>>

(* RotateKey: the latest version must be there and Active; it becomes      *)
(* Deactivated, the next one is created Active and becomes the latest.     *)
RotateKey(k) ==
  LET v == LatestVersion(k)
  IN /\ MayUse(k)
     /\ v # 0 /\ v < MaxVersion
     /\ InState(k, v, "Active")
     /\ rows' = [rows EXCEPT ![k][v].state = "Deactivated", ![k][v + 1] = NewRow]
     /\ latest' = [latest EXCEPT ![k] = v + 1]
     /\ minted' = minted + 1
     /\ UNCHANGED <<creating, born>>

(* A ShredKey that stops at the row marked Destroyed, without deleting it. *)
ShredKeyKeepsRow(k, v) ==
  /\ MayUse(k)
  /\ Exists(k, v)
  /\ rows' = [rows EXCEPT ![k][v].state = "Destroyed"]
  /\ UNCHANGED <<latest, minted, creating, born>>

(* ShredKey: whatever its state, the row is overwritten and deleted; the   *)
(* index still names the version.                                          *)
ShredKey(k, v) ==
  /\ MayUse(k)
  /\ Exists(k, v)
  /\ rows' = [rows EXCEPT ![k][v] = NoRow]
  /\ UNCHANGED <<latest, minted, creating, born>>

(* SoftDeleteKey; on a soft-deleted row it returns nil and DeletedAt stays. *)
SoftDeleteKey(k, v) ==
  /\ MayUse(k)
  /\ Exists(k, v) /\ rows[k][v].state # "SoftDeleted"
  /\ rows' = [rows EXCEPT ![k][v].state = "SoftDeleted", ![k][v].expired = FALSE]
  /\ UNCHANGED <<latest, minted, creating, born>>

(* A RestoreKey that makes the version Active again. *)
RestoreKeyActive(k, v) ==
  /\ MayUse(k)
  /\ InState(k, v, "SoftDeleted")
  /\ rows' = [rows EXCEPT ![k][v].state = "Active", ![k][v].expired = FALSE]
  /\ UNCHANGED <<latest, minted, creating, born>>

(* RestoreKey; on a row that is not soft-deleted it returns nil. *)
RestoreKey(k, v) ==
  /\ MayUse(k)
  /\ InState(k, v, "SoftDeleted")
  /\ rows' = [rows EXCEPT ![k][v].state = "Deactivated", ![k][v].expired = FALSE]
  /\ UNCHANGED <<latest, minted, creating, born>>

(* Time passes: a recycle-bin entry outlives its TTL, *)
Expire(k, v) ==
  /\ InState(k, v, "SoftDeleted") /\ ~rows[k][v].expired
  /\ rows' = [rows EXCEPT ![k][v].expired = TRUE]
  /\ UNCHANGED <<latest, minted, creating, born>>

(* ... or a version reaches its NextRotationAt. *)
FallDue(k, v) ==
  /\ k \in Periodic /\ InState(k, v, "Active") /\ ~rows[k][v].due
  /\ rows' = [rows EXCEPT ![k][v].due = TRUE]
  /\ UNCHANGED <<latest, minted, creating, born>>

ClientNext ==
  \/ \E c \in Clients :
       \/ \E k \in KeyIDs : CreateKey(c, k)
       \/ CreateIndex(c)
       \/ CreateIndexLost(c)
  \/ \E k \in KeyIDs : ImportKey(k) \/ RotateKey(k)
  \/ \E k \in KeyIDs, v \in Versions :
       ShredKey(k, v) \/ SoftDeleteKey(k, v) \/ RestoreKey(k, v)

StoreNext == ClientNext \/ \E k \in KeyIDs, v \in Versions : Expire(k, v) \/ FallDue(k, v)

StoreSpec == StoreInit /\ [][StoreNext]_storeVars
-----------------------------------------------------------------------------
(* Types of the stored rows and of the creates in progress. *)
StoreTypeOK ==
  /\ rows \in [KeyIDs -> [Versions -> Metadata \cup {NoRow}]]
  /\ latest \in [KeyIDs -> 0..MaxVersion]
  /\ minted \in Nat
  /\ creating \in [Clients -> KeyIDs \cup {None}]
  /\ born \in SUBSET KeyIDs

(* "The unique version whose state is Active" (manager.go:689): an Active  *)
(* version is the one the index, or the scan that replaces a missing       *)
(* index, leads to; so there is never a second one, whatever the order of  *)
(* rotations, shreds, soft deletes, restores and lost index writes.        *)
ActiveIsLatest ==
  \A k \in KeyIDs, v \in Versions : InState(k, v, "Active") => v = LatestVersion(k)

(* GetActiveKey "returns the only version whose state is Active"           *)
(* (manager.go:689), stated for clients that may create an existing id.    *)
OneActive ==
  \A k \in KeyIDs, u, v \in Versions :
    InState(k, u, "Active") /\ InState(k, v, "Active") => u = v

(* A DEK belongs to one version of one key: no two rows hold the same.     *)
DeksDistinct ==
  \A k1, k2 \in KeyIDs, v1, v2 \in Versions :
    /\ Exists(k1, v1) /\ Exists(k2, v2)
    /\ rows[k1][v1].dek = rows[k2][v2].dek
    => k1 = k2 /\ v1 = v2

(* What no step may do to a version that has been issued: give it another  *)
(* DEK, make it Active again (manager.go:802), or bring it back once it is *)
(* shredded (manager.go:587, "physically shredded").  Ciphertexts carry    *)
(* only the version number, so a reissued number would decrypt to garbage. *)
VersionHistory ==
  [][\A k \in born, v \in Versions :
       /\ Exists(k, v) /\ Exists(k, v)' =>
            /\ rows'[k][v].dek = rows[k][v].dek
            /\ rows'[k][v].state = "Active" => rows[k][v].state = "Active"
       /\ ~Exists(k, v) /\ (v = 1 \/ v <= latest[k]) => ~Exists(k, v)'
    ]_storeVars
=============================================================================
