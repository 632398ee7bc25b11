--------------------------- MODULE KeyStoreProofs ---------------------------
(***************************************************************************)
(* Proofs about KeyStore, for any number of keys, versions and clients, as *)
(* long as clients create each id once (Disciplined).                      *)
(***************************************************************************)
EXTENDS KeyStore, WellFoundedInduction, TLAPS

(* What ActiveIsLatest rests on: ids nobody created have no rows; a key    *)
(* without an index row has at most version 1; no version lies above the   *)
(* index; a create in progress owns its id, whose index is not yet there;  *)
(* DEK numbers are issued in order.                                        *)
StoreShape ==
  /\ \A k \in KeyIDs : k \notin born =>
       latest[k] = 0 /\ \A v \in Versions : ~Exists(k, v)
  /\ \A k \in KeyIDs, v \in Versions :
       Exists(k, v) => v = 1 \/ v <= latest[k]
  /\ \A c \in Clients : creating[c] # None =>
       creating[c] \in born /\ latest[creating[c]] = 0
  /\ \A c, d \in Clients : creating[c] # None /\ creating[c] = creating[d] => c = d
  /\ \A k \in KeyIDs, v \in Versions : Exists(k, v) => rows[k][v].dek <= minted

(* ActiveIsLatest without the scan: the index, or version 1 before it.     *)
ActiveAtIndex ==
  \A k \in KeyIDs, v \in Versions :
    InState(k, v, "Active") => v = IF latest[k] # 0 THEN latest[k] ELSE 1

StoreInv == StoreTypeOK /\ StoreShape /\ ActiveAtIndex /\ DeksDistinct

(* A set of naturals has a least member. *)
LEMMA LeastNat ==
  ASSUME NEW T, T \subseteq Nat, T # {}
  PROVE  \E x \in T : \A y \in T : x <= y
<1> DEFINE R == OpToRel(<, Nat)
<1>1. \E x \in T : \A y \in T : ~ (<<y, x>> \in R)
  <2>1. IsWellFoundedOn(R, Nat)
    BY NatLessThanWellFounded, Zenon
  <2> HIDE DEF R
  <2> QED BY <2>1, WFMin, Zenon
<1>2. \A x, y \in Nat : y < x => <<y, x>> \in R
  BY DEF OpToRel
<1> HIDE DEF R
<1>3. PICK x \in T : \A y \in T : ~ (<<y, x>> \in R)
  BY <1>1
<1>4. ASSUME NEW y \in T PROVE x <= y
  <2>1. x \in Nat /\ y \in Nat /\ ~(y < x)
    BY <1>2, <1>3, Zenon
  <2> QED BY <2>1
<1> QED BY <1>4

(* findLatestVersionScan (manager.go:410-424) where it is used: without an *)
(* index row only version 1 can be there, so it finds 1 or nothing.        *)
LEMMA ScanIsFirst ==
  ASSUME NEW k \in KeyIDs, \A v \in Versions : Exists(k, v) => v = 1
  PROVE  ScanLatest(k) = IF Exists(k, 1) THEN 1 ELSE 0
<1> DEFINE Good(n) == /\ \A v \in 1..n : Exists(k, v)
                      /\ n < MaxVersion => ~Exists(k, n + 1)
           w == IF Exists(k, 1) THEN 1 ELSE 0
<1> USE StoreAssumption DEF Versions
<1>1. w \in 0..MaxVersion /\ Good(w)
  OBVIOUS
<1>2. \A n \in 0..MaxVersion : Good(n) => n = w
  <2> SUFFICES ASSUME NEW n \in 0..MaxVersion, Good(n), n # w PROVE FALSE
    OBVIOUS
  <2>1. CASE n = 0
    BY <2>1
  <2>2. CASE n = 1
    BY <2>2
  <2>3. CASE n >= 2
    <3>1. 2 \in 1..n /\ 2 \in Versions
      BY <2>3
    <3> QED BY <3>1
  <2> QED BY <2>1, <2>2, <2>3
<1>3. ScanLatest(k) = CHOOSE n \in 0..MaxVersion : Good(n)
  BY DEF ScanLatest
<1> HIDE DEF Good, w
<1> QED BY <1>1, <1>2, <1>3 DEF w

(* So getLatestVersion (manager.go:384-394) finds the index, or version 1. *)
LEMMA LatestIs ==
  ASSUME StoreShape, StoreTypeOK, NEW k \in KeyIDs
  PROVE  LatestVersion(k) = IF latest[k] # 0 THEN latest[k]
                            ELSE IF Exists(k, 1) THEN 1 ELSE 0
<1>1. CASE latest[k] = 0
  <2>1. \A v \in Versions : Exists(k, v) => v = 1
    BY <1>1, StoreAssumption DEF StoreShape, Versions
  <2> QED BY <1>1, <2>1, ScanIsFirst DEF LatestVersion
<1> QED BY <1>1 DEF LatestVersion

(* An empty store satisfies the invariant. *)
LEMMA StoreInitInv == StoreInit => StoreInv
<1> SUFFICES ASSUME StoreInit PROVE StoreInv
  OBVIOUS
<1> USE StoreAssumption DEF StoreInit, Exists, InState
<1>1. StoreTypeOK
  BY DEF StoreTypeOK, Versions
<1>2. StoreShape /\ ActiveAtIndex /\ DeksDistinct
  BY DEF StoreShape, ActiveAtIndex, DeksDistinct
<1> QED BY <1>1, <1>2 DEF StoreInv

(* A transaction that shreds one version, or rewrites its metadata keeping *)
(* the DEK and never turning it Active: Shred, SoftDelete, Restore and the *)
(* passing of time (manager.go:595-653, 753-798, 809-870).                 *)
LEMMA OneRowInv ==
  ASSUME StoreInv, NEW k \in KeyIDs, NEW v \in Versions,
         NEW r \in Metadata \cup {NoRow},
         Exists(k, v),
         r # NoRow => /\ r.dek = rows[k][v].dek
                      /\ r.state = "Active" => rows[k][v].state = "Active",
         rows' = [rows EXCEPT ![k][v] = r],
         UNCHANGED <<latest, minted, creating, born>>
  PROVE  StoreInv'
<1> USE DEF Exists, InState
<1>1. StoreTypeOK'
  BY DEF StoreInv, StoreTypeOK
<1>2. \A l \in KeyIDs, u \in Versions :
        Exists(l, u)' => /\ Exists(l, u)
                         /\ rows'[l][u].dek = rows[l][u].dek
                         /\ rows'[l][u].state = "Active" => rows[l][u].state = "Active"
  BY DEF StoreInv, StoreTypeOK
<1>3. StoreShape'
  <2>1. \A l \in KeyIDs : l \notin born' =>
          latest'[l] = 0 /\ \A u \in Versions : ~Exists(l, u)'
    BY <1>2 DEF StoreInv, StoreShape
  <2>2. \A l \in KeyIDs, u \in Versions : Exists(l, u)' => u = 1 \/ u <= latest'[l]
    BY <1>2 DEF StoreInv, StoreShape
  <2>3. \A l \in KeyIDs, u \in Versions : Exists(l, u)' => rows'[l][u].dek <= minted'
    BY <1>2 DEF StoreInv, StoreShape
  <2> QED BY <2>1, <2>2, <2>3 DEF StoreInv, StoreShape
<1>4. ActiveAtIndex'
  BY <1>2 DEF StoreInv, ActiveAtIndex
<1>5. DeksDistinct'
  BY <1>2 DEF StoreInv, DeksDistinct
<1> QED BY <1>1, <1>3, <1>4, <1>5 DEF StoreInv

(* The row of a new version is metadata, in state Active. *)
LEMMA NewRowType ==
  ASSUME StoreTypeOK
  PROVE  NewRow \in Metadata /\ NewRow # NoRow /\ NewRow.state = "Active"
<1>1. minted + 1 \in Nat
  BY DEF StoreTypeOK
<1>2. NewRow \in Metadata
  BY <1>1 DEF NewRow, Metadata, States
<1>3. NewRow # NoRow
  BY <1>2, StoreAssumption DEF Metadata, States
<1> QED BY <1>2, <1>3 DEF NewRow

(* A row written with the next DEK number into a free slot of key k: v1 of *)
(* a new key, or the version RotateKey adds.                               *)
LEMMA FreshDek ==
  ASSUME StoreInv, NEW k \in KeyIDs, NEW v \in Versions, ~Exists(k, v),
         rows'[k][v] = NewRow, rows' \in [KeyIDs -> [Versions -> Metadata \cup {NoRow}]],
         minted' = minted + 1,
         \A l \in KeyIDs, u \in Versions : <<l, u>> # <<k, v>> =>
           /\ Exists(l, u)' <=> Exists(l, u)
           /\ Exists(l, u) => rows'[l][u].dek = rows[l][u].dek
  PROVE  /\ DeksDistinct'
         /\ \A l \in KeyIDs, u \in Versions : Exists(l, u)' => rows'[l][u].dek <= minted'
<1>1. minted \in Nat /\ NewRow.dek = minted + 1
  BY DEF StoreInv, StoreTypeOK, NewRow
<1>2. \A l \in KeyIDs, u \in Versions : Exists(l, u) =>
        rows[l][u].dek \in Nat /\ rows[l][u].dek <= minted
  BY DEF StoreInv, StoreTypeOK, StoreShape, Metadata, Exists
<1>3. \A l \in KeyIDs, u \in Versions : Exists(l, u)' =>
        \/ <<l, u>> = <<k, v>> /\ rows'[l][u].dek = minted + 1
        \/ <<l, u>> # <<k, v>> /\ Exists(l, u) /\ rows'[l][u].dek = rows[l][u].dek
  BY <1>1
<1>4. \A l \in KeyIDs, u \in Versions : Exists(l, u)' => rows'[l][u].dek <= minted'
  BY <1>1, <1>2, <1>3
<1>5. DeksDistinct'
  <2> SUFFICES ASSUME NEW k1 \in KeyIDs, NEW k2 \in KeyIDs,
                      NEW v1 \in Versions, NEW v2 \in Versions,
                      Exists(k1, v1)', Exists(k2, v2)',
                      rows'[k1][v1].dek = rows'[k2][v2].dek
               PROVE  k1 = k2 /\ v1 = v2
    BY DEF DeksDistinct
  <2>1. CASE <<k1, v1>> # <<k, v>> /\ <<k2, v2>> # <<k, v>>
    BY <1>3, <2>1 DEF StoreInv, DeksDistinct
  <2>2. CASE <<k1, v1>> = <<k, v>> /\ <<k2, v2>> # <<k, v>>
    BY <1>1, <1>2, <1>3, <2>2
  <2>3. CASE <<k1, v1>> # <<k, v>> /\ <<k2, v2>> = <<k, v>>
    BY <1>1, <1>2, <1>3, <2>3
  <2> QED BY <2>1, <2>2, <2>3
<1> QED BY <1>4, <1>5

(* saveMetadata of version 1 of a new key (manager.go:225-236,             *)
(* transit.go:230-242), whatever becomes of the create in progress.        *)
LEMMA PutFirstInv ==
  ASSUME StoreInv, Disciplined, NEW k \in KeyIDs, PutFirst(k),
         creating' \in [Clients -> KeyIDs \cup {None}],
         \A c \in Clients : creating'[c] = creating[c] \/ creating'[c] = k,
         \A c, d \in Clients : creating'[c] = k /\ creating'[d] = k => c = d
  PROVE  StoreInv'
<1> USE StoreAssumption
<1>1. k \notin born /\ latest[k] = 0 /\ \A v \in Versions : ~Exists(k, v)
  BY DEF StoreInv, StoreShape, PutFirst, MayCreate
<1>2. 1 \in Versions /\ NewRow \in Metadata /\ NewRow # NoRow /\ NewRow.state = "Active"
  BY NewRowType DEF Versions, StoreInv
<1>3. rows' \in [KeyIDs -> [Versions -> Metadata \cup {NoRow}]]
  BY <1>2 DEF PutFirst, StoreInv, StoreTypeOK
<1>4. rows'[k][1] = NewRow
  BY <1>2 DEF PutFirst, StoreInv, StoreTypeOK
<1>5. \A l \in KeyIDs, u \in Versions : <<l, u>> # <<k, 1>> => rows'[l][u] = rows[l][u]
  BY DEF PutFirst, StoreInv, StoreTypeOK
<1>6. /\ DeksDistinct'
      /\ \A l \in KeyIDs, u \in Versions : Exists(l, u)' => rows'[l][u].dek <= minted'
  BY <1>1, <1>2, <1>3, <1>4, <1>5, FreshDek DEF PutFirst, Exists
<1>7. StoreTypeOK'
  BY <1>3 DEF PutFirst, StoreInv, StoreTypeOK
<1>8. StoreShape'
  <2>1. \A l \in KeyIDs : l \notin born' =>
          latest'[l] = 0 /\ \A u \in Versions : ~Exists(l, u)'
    BY <1>5 DEF PutFirst, StoreInv, StoreShape, Exists
  <2>2. \A l \in KeyIDs, u \in Versions : Exists(l, u)' => u = 1 \/ u <= latest'[l]
    BY <1>1, <1>5 DEF PutFirst, StoreInv, StoreShape, Exists
  <2>3. \A c \in Clients : creating'[c] # None =>
          creating'[c] \in born' /\ latest'[creating'[c]] = 0
    BY <1>1 DEF PutFirst, StoreInv, StoreShape
  <2>4. \A c, d \in Clients :
          creating'[c] # None /\ creating'[c] = creating'[d] => c = d
    BY <1>1 DEF StoreInv, StoreShape
  <2> QED BY <1>6, <2>1, <2>2, <2>3, <2>4 DEF StoreShape
<1>9. ActiveAtIndex'
  BY <1>1, <1>5 DEF PutFirst, StoreInv, ActiveAtIndex, InState, Exists
<1> QED BY <1>6, <1>7, <1>8, <1>9 DEF StoreInv

(* setLatestVersion(1) of a create (manager.go:397-403) finds the key as   *)
(* its first Put left it: nobody rotates a key that is being created.      *)
LEMMA CreateIndexInv ==
  ASSUME StoreInv, NEW c \in Clients, CreateIndex(c)
  PROVE  StoreInv'
<1> DEFINE k == creating[c]
<1> USE StoreAssumption DEF CreateIndex, Exists, InState
<1>1. k \in KeyIDs /\ k \in born /\ latest[k] = 0
  BY DEF StoreInv, StoreTypeOK, StoreShape
<1>2. 1 \in 0..MaxVersion
  OBVIOUS
<1>3. StoreTypeOK'
  BY <1>1, <1>2 DEF StoreInv, StoreTypeOK
<1>4. latest'[k] = 1 /\ \A l \in KeyIDs : l # k => latest'[l] = latest[l]
  BY <1>1 DEF StoreInv, StoreTypeOK
<1>5. \A d \in Clients : creating'[d] # None => d # c /\ creating'[d] = creating[d]
  BY DEF StoreInv, StoreTypeOK
<1>6. StoreShape'
  <2>1. \A l \in KeyIDs : l \notin born' =>
          latest'[l] = 0 /\ \A u \in Versions : ~Exists(l, u)'
    BY <1>1, <1>4 DEF StoreInv, StoreShape
  <2>2. \A l \in KeyIDs, u \in Versions : Exists(l, u)' => u = 1 \/ u <= latest'[l]
    <3> SUFFICES ASSUME NEW l \in KeyIDs, NEW u \in Versions, Exists(l, u)
                 PROVE  u = 1 \/ u <= latest'[l]
      OBVIOUS
    <3>1. u = 1 \/ u <= latest[l]
      BY DEF StoreInv, StoreShape
    <3>2. u \in Nat /\ u >= 1
      BY DEF Versions
    <3> QED BY <1>1, <1>4, <3>1, <3>2
  <2>3. \A d \in Clients : creating'[d] # None =>
          creating'[d] \in born' /\ latest'[creating'[d]] = 0
    BY <1>4, <1>5 DEF StoreInv, StoreShape, StoreTypeOK
  <2>4. \A d, e \in Clients :
          creating'[d] # None /\ creating'[d] = creating'[e] => d = e
    BY <1>5 DEF StoreInv, StoreShape
  <2> QED BY <2>1, <2>2, <2>3, <2>4 DEF StoreInv, StoreShape
<1>7. ActiveAtIndex'
  BY <1>1, <1>4 DEF StoreInv, ActiveAtIndex
<1>8. DeksDistinct'
  BY DEF StoreInv, DeksDistinct
<1> QED BY <1>3, <1>6, <1>7, <1>8 DEF StoreInv

(* RotateKey (manager.go:468-585) writes above every version there is. *)
LEMMA RotateInv ==
  ASSUME StoreInv, Disciplined, NEW k \in KeyIDs, RotateKey(k)
  PROVE  /\ StoreInv'
         /\ \A l \in KeyIDs, u \in Versions :
              <<l, u>> # <<k, LatestVersion(k) + 1>> =>
                /\ Exists(l, u)' = Exists(l, u)
                /\ Exists(l, u) => rows'[l][u].dek = rows[l][u].dek
                /\ InState(l, u, "Active")' => InState(l, u, "Active")
         /\ ~Exists(k, LatestVersion(k) + 1)
         /\ LatestVersion(k) >= latest[k]
<1> DEFINE v == LatestVersion(k)
<1> USE StoreAssumption
<1>1. /\ v \in Versions /\ v + 1 \in Versions
      /\ latest[k] \in Nat
      /\ latest[k] # 0 => v = latest[k]
      /\ latest[k] = 0 => v = 1
  <2>1. latest[k] \in 0..MaxVersion
    BY DEF StoreInv, StoreTypeOK
  <2>2. v = IF latest[k] # 0 THEN latest[k] ELSE IF Exists(k, 1) THEN 1 ELSE 0
    BY LatestIs DEF StoreInv
  <2> QED BY <2>1, <2>2 DEF RotateKey, Versions
<1>2. ~Exists(k, v + 1)
  <2>1. Exists(k, v + 1) => v + 1 = 1 \/ v + 1 <= latest[k]
    BY <1>1 DEF StoreInv, StoreShape
  <2> QED BY <1>1, <2>1 DEF Versions
<1>3. Exists(k, v) /\ rows[k][v].state = "Active" /\ rows[k][v] \in Metadata
  BY <1>1 DEF RotateKey, InState, StoreInv, StoreTypeOK, Exists
<1>4. /\ rows' \in [KeyIDs -> [Versions -> Metadata \cup {NoRow}]]
      /\ rows'[k][v + 1] = NewRow
      /\ rows'[k][v] = [rows[k][v] EXCEPT !.state = "Deactivated"]
      /\ \A l \in KeyIDs, u \in Versions :
           <<l, u>> # <<k, v>> /\ <<l, u>> # <<k, v + 1>> => rows'[l][u] = rows[l][u]
  <2>1. v # v + 1
    BY <1>1 DEF Versions
  <2>2. [rows[k][v] EXCEPT !.state = "Deactivated"] \in Metadata
    BY <1>3 DEF Metadata, States
  <2>3. NewRow \in Metadata
    BY NewRowType DEF StoreInv
  <2>4. rows \in [KeyIDs -> [Versions -> Metadata \cup {NoRow}]]
    BY DEF StoreInv, StoreTypeOK
  <2>5. rows' = [rows EXCEPT ![k] = [rows[k] EXCEPT
                   ![v] = [rows[k][v] EXCEPT !.state = "Deactivated"], ![v + 1] = NewRow]]
    BY <1>1, <2>1, <2>4, Zenon DEF RotateKey
  <2> HIDE DEF v
  <2> QED BY <1>1, <2>1, <2>2, <2>3, <2>4, <2>5
<1>5. [rows[k][v] EXCEPT !.state = "Deactivated"] # NoRow
  BY <1>3 DEF Metadata, States
<1>6. /\ latest'[k] = v + 1 /\ latest' \in [KeyIDs -> 0..MaxVersion]
      /\ \A l \in KeyIDs : l # k => latest'[l] = latest[l]
  <2>1. v + 1 \in 0..MaxVersion
    BY <1>1 DEF Versions
  <2> QED BY <2>1 DEF RotateKey, StoreInv, StoreTypeOK
<1>7. /\ minted' = minted + 1 /\ minted' \in Nat /\ creating' = creating /\ born' = born
      /\ k \in born /\ \A c \in Clients : creating[c] # k
  BY DEF RotateKey, MayUse, StoreInv, StoreTypeOK
<1> HIDE DEF v
<1>8. \A l \in KeyIDs, u \in Versions : <<l, u>> # <<k, v + 1>> =>
        /\ Exists(l, u)' = Exists(l, u)
        /\ Exists(l, u) => rows'[l][u].dek = rows[l][u].dek
        /\ InState(l, u, "Active")' => InState(l, u, "Active") /\ <<l, u>> # <<k, v>>
  <2> SUFFICES ASSUME NEW l \in KeyIDs, NEW u \in Versions, <<l, u>> # <<k, v + 1>>
               PROVE  /\ Exists(l, u)' = Exists(l, u)
                      /\ Exists(l, u) => rows'[l][u].dek = rows[l][u].dek
                      /\ InState(l, u, "Active")' =>
                           InState(l, u, "Active") /\ <<l, u>> # <<k, v>>
    OBVIOUS
  <2>1. CASE <<l, u>> = <<k, v>>
    <3>1. /\ rows'[l][u].dek = rows[l][u].dek
          /\ rows'[l][u].state = "Deactivated"
      BY <1>3, <1>4, <2>1 DEF Metadata
    <3> QED BY <1>3, <1>4, <1>5, <2>1, <3>1 DEF Exists, InState
  <2>2. CASE <<l, u>> # <<k, v>>
    BY <1>4, <2>2 DEF Exists, InState
  <2> QED BY <2>1, <2>2
<1>9. /\ DeksDistinct'
      /\ \A l \in KeyIDs, u \in Versions : Exists(l, u)' => rows'[l][u].dek <= minted'
  BY <1>1, <1>2, <1>4, <1>7, <1>8, FreshDek
<1>10. StoreTypeOK'
  BY <1>4, <1>6, <1>7 DEF StoreInv, StoreTypeOK
<1>11. StoreShape'
  <2>1. \A l \in KeyIDs : l \notin born' =>
          latest'[l] = 0 /\ \A u \in Versions : ~Exists(l, u)'
    BY <1>6, <1>7, <1>8 DEF StoreInv, StoreShape
  <2>2. \A l \in KeyIDs, u \in Versions : Exists(l, u)' => u = 1 \/ u <= latest'[l]
    <3> SUFFICES ASSUME NEW l \in KeyIDs, NEW u \in Versions, Exists(l, u)'
                 PROVE  u = 1 \/ u <= latest'[l]
      OBVIOUS
    <3>1. CASE <<l, u>> = <<k, v + 1>>
      BY <1>1, <1>6, <3>1 DEF Versions
    <3>2. CASE <<l, u>> # <<k, v + 1>>
      <4>1. u = 1 \/ u <= latest[l]
        BY <1>8, <3>2 DEF StoreInv, StoreShape
      <4> QED BY <1>1, <1>6, <4>1 DEF Versions
    <3> QED BY <3>1, <3>2
  <2>3. \A c \in Clients : creating'[c] # None =>
          creating'[c] \in born' /\ latest'[creating'[c]] = 0
    BY <1>6, <1>7 DEF StoreInv, StoreShape, StoreTypeOK
  <2> QED BY <1>7, <1>9, <2>1, <2>2, <2>3 DEF StoreInv, StoreShape
<1>12. ActiveAtIndex'
  <2> SUFFICES ASSUME NEW l \in KeyIDs, NEW u \in Versions, InState(l, u, "Active")'
               PROVE  u = IF latest'[l] # 0 THEN latest'[l] ELSE 1
    BY DEF ActiveAtIndex
  <2>1. CASE <<l, u>> = <<k, v + 1>>
    BY <1>1, <1>6, <2>1 DEF Versions
  <2>2. CASE <<l, u>> # <<k, v + 1>>
    <3>1. /\ u = IF latest[l] # 0 THEN latest[l] ELSE 1
          /\ <<l, u>> # <<k, v>>
      BY <1>8, <2>2 DEF StoreInv, ActiveAtIndex
    <3>2. l # k
      BY <1>1, <3>1
    <3> QED BY <1>6, <3>1, <3>2
  <2> QED BY <2>1, <2>2
<1>13. v >= latest[k]
  BY <1>1 DEF Versions
<1> QED BY <1>2, <1>8, <1>9, <1>10, <1>11, <1>12, <1>13 DEF StoreInv, v

(* SoftDelete, Restore and the passing of time rewrite one row, keep its   *)
(* DEK and never turn it Active.                                           *)
LEMMA RewriteIsOneRow ==
  ASSUME StoreInv, NEW k \in KeyIDs, NEW v \in Versions,
         SoftDeleteKey(k, v) \/ RestoreKey(k, v) \/ Expire(k, v) \/ FallDue(k, v)
  PROVE  /\ Exists(k, v)
         /\ UNCHANGED <<latest, minted, creating, born>>
         /\ \E r \in Metadata :
              /\ rows' = [rows EXCEPT ![k][v] = r]
              /\ r.dek = rows[k][v].dek
              /\ r.state = "Active" => rows[k][v].state = "Active"
<1>1. Exists(k, v) /\ rows[k][v] \in Metadata
  BY DEF SoftDeleteKey, RestoreKey, Expire, FallDue, InState, Exists,
              StoreInv, StoreTypeOK
<1>2. \E r \in Metadata :
        /\ rows' = [rows EXCEPT ![k][v] = r]
        /\ r.dek = rows[k][v].dek
        /\ r.state = "Active" => rows[k][v].state = "Active"
  <2>1. CASE SoftDeleteKey(k, v)
    <3> DEFINE r == [rows[k][v] EXCEPT !.state = "SoftDeleted", !.expired = FALSE]
    <3>1. r \in Metadata /\ r.dek = rows[k][v].dek /\ r.state = "SoftDeleted"
      BY <1>1, Zenon DEF Metadata, States
    <3>2. rows' = [rows EXCEPT ![k][v] = r]
      BY <1>1, <2>1, Zenon DEF SoftDeleteKey, StoreInv, StoreTypeOK, Metadata
    <3> QED BY <3>1, <3>2, Zenon
  <2>2. CASE RestoreKey(k, v)
    <3> DEFINE r == [rows[k][v] EXCEPT !.state = "Deactivated", !.expired = FALSE]
    <3>1. r \in Metadata /\ r.dek = rows[k][v].dek /\ r.state = "Deactivated"
      BY <1>1, Zenon DEF Metadata, States
    <3>2. rows' = [rows EXCEPT ![k][v] = r]
      BY <1>1, <2>2, Zenon DEF RestoreKey, StoreInv, StoreTypeOK, Metadata
    <3> QED BY <3>1, <3>2, Zenon
  <2>3. CASE Expire(k, v)
    <3> DEFINE r == [rows[k][v] EXCEPT !.expired = TRUE]
    <3>1. r \in Metadata /\ r.dek = rows[k][v].dek /\ r.state = rows[k][v].state
      BY <1>1, Zenon DEF Metadata
    <3>2. rows' = [rows EXCEPT ![k][v] = r]
      BY <2>3 DEF Expire
    <3> QED BY <3>1, <3>2, Zenon
  <2>4. CASE FallDue(k, v)
    <3> DEFINE r == [rows[k][v] EXCEPT !.due = TRUE]
    <3>1. r \in Metadata /\ r.dek = rows[k][v].dek /\ r.state = rows[k][v].state
      BY <1>1, Zenon DEF Metadata
    <3>2. rows' = [rows EXCEPT ![k][v] = r]
      BY <2>4 DEF FallDue
    <3> QED BY <3>1, <3>2, Zenon
  <2> QED BY <2>1, <2>2, <2>3, <2>4
<1>3. UNCHANGED <<latest, minted, creating, born>>
  BY DEF SoftDeleteKey, RestoreKey, Expire, FallDue
<1> QED BY <1>1, <1>2, <1>3, Zenon

(* Every step preserves the invariant. *)
LEMMA StoreNextInv ==
  ASSUME Disciplined, StoreInv, [StoreNext]_storeVars
  PROVE  StoreInv'
<1>1. ASSUME NEW c \in Clients, NEW k \in KeyIDs, CreateKey(c, k) PROVE StoreInv'
  <2>1. \A d \in Clients : creating[d] # k
    BY <1>1, StoreAssumption DEF StoreInv, StoreShape, CreateKey, PutFirst, MayCreate
  <2>2. /\ creating' \in [Clients -> KeyIDs \cup {None}]
        /\ \A d \in Clients : IF d = c THEN creating'[d] = k ELSE creating'[d] = creating[d]
    BY <1>1 DEF CreateKey, StoreInv, StoreTypeOK
  <2> QED BY <1>1, <2>1, <2>2, PutFirstInv DEF CreateKey
<1>2. ASSUME NEW k \in KeyIDs, ImportKey(k) PROVE StoreInv'
  <2>1. \A d \in Clients : creating[d] # k
    BY <1>2, StoreAssumption DEF StoreInv, StoreShape, ImportKey, PutFirst, MayCreate
  <2>2. creating' \in [Clients -> KeyIDs \cup {None}] /\ creating' = creating
    BY <1>2 DEF ImportKey, StoreInv, StoreTypeOK
  <2> QED BY <1>2, <2>1, <2>2, PutFirstInv DEF ImportKey
<1>3. ASSUME NEW c \in Clients, CreateIndexLost(c) PROVE StoreInv'
  <2> USE <1>3 DEF CreateIndexLost, Exists, InState
  <2>1. /\ creating' \in [Clients -> KeyIDs \cup {None}]
        /\ \A d \in Clients : creating'[d] # None => creating'[d] = creating[d]
    BY DEF StoreInv, StoreTypeOK
  <2>2. StoreTypeOK' /\ ActiveAtIndex' /\ DeksDistinct'
    BY <2>1 DEF StoreInv, StoreTypeOK, ActiveAtIndex, DeksDistinct
  <2>3. StoreShape'
    BY <2>1 DEF StoreInv, StoreShape
  <2> QED BY <2>2, <2>3 DEF StoreInv
<1>4. ASSUME NEW k \in KeyIDs, NEW v \in Versions, ShredKey(k, v) PROVE StoreInv'
  BY <1>4, OneRowInv, Zenon DEF ShredKey
<1>5. ASSUME NEW k \in KeyIDs, NEW v \in Versions,
             SoftDeleteKey(k, v) \/ RestoreKey(k, v) \/ Expire(k, v) \/ FallDue(k, v)
      PROVE  StoreInv'
  BY <1>5, RewriteIsOneRow, OneRowInv
<1>6. CASE UNCHANGED storeVars
  BY <1>6 DEF storeVars, StoreInv, StoreTypeOK, StoreShape, ActiveAtIndex, DeksDistinct,
              Exists, InState
<1> QED BY <1>1, <1>2, <1>3, <1>4, <1>5, <1>6, CreateIndexInv, RotateInv DEF StoreNext, ClientNext

(* The invariant holds in every reachable state. *)
THEOREM StoreInvariant ==
  ASSUME Disciplined
  PROVE  StoreSpec => []StoreInv
<1>1. StoreInv /\ [StoreNext]_storeVars => StoreInv'
  BY StoreNextInv
<1> QED BY <1>1, StoreInitInv, PTL DEF StoreSpec

(* Every row and every index entry keeps its type. *)
THEOREM StoreTypes ==
  ASSUME Disciplined
  PROVE  StoreSpec => []StoreTypeOK
<1>1. StoreInv => StoreTypeOK
  BY DEF StoreInv
<1>2. StoreSpec => []StoreInv
  BY StoreInvariant
<1> QED BY <1>1, <1>2, PTL

(* GetActiveKey (manager.go:693-710) looks only at the latest version: an  *)
(* Active version is never anywhere else.                                  *)
THEOREM StoreActiveIsLatest ==
  ASSUME Disciplined
  PROVE  StoreSpec => []ActiveIsLatest
<1>1. StoreInv => ActiveIsLatest
  <2> SUFFICES ASSUME StoreInv, NEW k \in KeyIDs, NEW v \in Versions,
                      InState(k, v, "Active")
               PROVE  v = LatestVersion(k)
    BY DEF ActiveIsLatest
  <2>1. v = IF latest[k] # 0 THEN latest[k] ELSE 1
    BY DEF StoreInv, ActiveAtIndex
  <2>2. LatestVersion(k) = IF latest[k] # 0 THEN latest[k]
                           ELSE IF Exists(k, 1) THEN 1 ELSE 0
    BY LatestIs DEF StoreInv
  <2>3. Exists(k, v)
    BY DEF InState
  <2> QED BY <2>1, <2>2, <2>3
<1>2. StoreSpec => []StoreInv
  BY StoreInvariant
<1> QED BY <1>1, <1>2, PTL

(* No two versions share a DEK. *)
THEOREM StoreDeksDistinct ==
  ASSUME Disciplined
  PROVE  StoreSpec => []DeksDistinct
<1>1. StoreInv => DeksDistinct
  BY DEF StoreInv
<1>2. StoreSpec => []StoreInv
  BY StoreInvariant
<1> QED BY <1>1, <1>2, PTL

(* What a step leaves of a version that has been issued. *)
Kept(k, v) ==
  /\ Exists(k, v) /\ Exists(k, v)' =>
       /\ rows'[k][v].dek = rows[k][v].dek
       /\ rows'[k][v].state = "Active" => rows[k][v].state = "Active"
  /\ ~Exists(k, v) /\ (v = 1 \/ v <= latest[k]) => ~Exists(k, v)'

(* Every step keeps every issued version so (manager.go:468-653). *)
LEMMA VersionKept ==
  ASSUME Disciplined, StoreInv, [StoreNext]_storeVars, NEW l \in born, NEW u \in Versions
  PROVE  Kept(l, u)
<1> USE DEF Kept
<1>0. l \in KeyIDs
  BY DEF StoreInv, StoreTypeOK
<1>1. ASSUME NEW k \in KeyIDs, PutFirst(k) PROVE Kept(l, u)
  <2>1. l # k
    BY <1>1 DEF PutFirst, MayCreate
  <2>2. rows'[l] = rows[l]
    BY <1>0, <1>1, <2>1 DEF PutFirst, StoreInv, StoreTypeOK
  <2> QED BY <2>2 DEF Exists
<1>2. ASSUME rows' = rows PROVE Kept(l, u)
  BY <1>2 DEF Exists
<1>3. ASSUME NEW k \in KeyIDs, RotateKey(k) PROVE Kept(l, u)
  <2>1. /\ <<l, u>> # <<k, LatestVersion(k) + 1>> =>
             /\ Exists(l, u)' = Exists(l, u)
             /\ Exists(l, u) => rows'[l][u].dek = rows[l][u].dek
             /\ InState(l, u, "Active")' => InState(l, u, "Active")
        /\ ~Exists(k, LatestVersion(k) + 1)
        /\ LatestVersion(k) >= latest[k]
    BY <1>0, <1>3, RotateInv
  <2>2. CASE <<l, u>> # <<k, LatestVersion(k) + 1>>
    BY <2>1, <2>2 DEF InState
  <2>3. CASE <<l, u>> = <<k, LatestVersion(k) + 1>>
    <3>1. LatestVersion(k) \in Nat /\ latest[k] \in Nat /\ LatestVersion(k) # 0
      BY LatestIs, <1>3 DEF RotateKey, StoreInv, StoreTypeOK
    <3> QED BY <2>1, <2>3, <3>1
  <2> QED BY <2>2, <2>3
<1>4. ASSUME NEW k \in KeyIDs, NEW v \in Versions, ShredKey(k, v) PROVE Kept(l, u)
  BY <1>0, <1>4 DEF ShredKey, StoreInv, StoreTypeOK, Exists
<1>5. ASSUME NEW k \in KeyIDs, NEW v \in Versions,
             SoftDeleteKey(k, v) \/ RestoreKey(k, v) \/ Expire(k, v) \/ FallDue(k, v)
      PROVE  Kept(l, u)
  <2>1. PICK r \in Metadata :
          /\ Exists(k, v)
          /\ rows' = [rows EXCEPT ![k][v] = r]
          /\ r.dek = rows[k][v].dek
          /\ r.state = "Active" => rows[k][v].state = "Active"
    BY <1>5, RewriteIsOneRow
  <2> QED BY <1>0, <2>1 DEF StoreInv, StoreTypeOK, Exists
<1> QED BY <1>1, <1>2, <1>3, <1>4, <1>5
        DEF storeVars, StoreNext, ClientNext, CreateKey, CreateIndex, CreateIndexLost, ImportKey

(* Ids that have been created stay so. *)
LEMMA BornGrows == [StoreNext]_storeVars => born \subseteq born'
  BY ZenonT(30) DEF StoreNext, ClientNext, storeVars, CreateKey, CreateIndex, CreateIndexLost, ImportKey,
         PutFirst, RotateKey, ShredKey, SoftDeleteKey, RestoreKey, Expire, FallDue

(* The index only moves forward (manager.go:545-548). *)
LEMMA IndexGrows ==
  ASSUME StoreInv, [StoreNext]_storeVars, NEW k \in KeyIDs
  PROVE  latest[k] <= latest'[k] /\ latest[k] \in Nat /\ latest'[k] \in Nat /\ born \subseteq born'
<1> USE StoreAssumption
<1>1. latest \in [KeyIDs -> 0..MaxVersion] /\ latest[k] \in Nat
  BY DEF StoreInv, StoreTypeOK
<1>2. ASSUME NEW c \in Clients, CreateIndex(c)
      PROVE  latest[k] <= latest'[k] /\ latest'[k] \in Nat /\ born \subseteq born'
  BY <1>1, <1>2 DEF CreateIndex, StoreInv, StoreShape
<1>3. ASSUME NEW l \in KeyIDs, RotateKey(l)
      PROVE  latest[k] <= latest'[k] /\ latest'[k] \in Nat /\ born \subseteq born'
  <2>1. LatestVersion(l) \in Nat /\ LatestVersion(l) >= latest[l]
    BY <1>1, LatestIs DEF StoreInv, StoreTypeOK
  <2>2. latest' = [latest EXCEPT ![l] = LatestVersion(l) + 1] /\ born' = born
    BY <1>3 DEF RotateKey
  <2> QED BY <1>1, <2>1, <2>2
<1>4. CASE latest' = latest /\ born \subseteq born'
  BY <1>1, <1>4
<1> QED BY <1>1, <1>2, <1>3, <1>4, Zenon
        DEF storeVars, StoreNext, ClientNext, CreateKey, CreateIndexLost, ImportKey, PutFirst,
            ShredKey, SoftDeleteKey, RestoreKey, Expire, FallDue

(* A version keeps its DEK, never turns Active again and never returns     *)
(* after ShredKey (manager.go:595-653).                                    *)
THEOREM StoreVersionHistory ==
  ASSUME Disciplined
  PROVE  StoreSpec => VersionHistory
<1>1. StoreInv /\ [StoreNext]_storeVars =>
        [\A k \in born, v \in Versions : Kept(k, v)]_storeVars
  BY VersionKept
<1>2. StoreSpec => []StoreInv
  BY StoreInvariant
<1> QED BY <1>1, <1>2, PTL DEF StoreSpec, VersionHistory, Kept
=============================================================================
