------------------------------ MODULE KeyReaper ------------------------------
(***************************************************************************)
(* The recycle-bin reaper of lifecycle.Manager (manager.go:872-986): every *)
(* node runs one, without a cluster lock, next to clients that go on using *)
(* the store.  A pass reads the version rows page by page and shreds, row  *)
(* by row, what it saw expired in the page.                                *)
(***************************************************************************)
EXTENDS KeyStore, Sequences, Functions, FiniteSetsExt

CONSTANTS Reapers,         \* nodes that run StartSoftDeleteReaper
          PageSize,        \* rows per ScanPrefixPaged
          MaxPassFailures  \* bound: store errors and restarts

ASSUME ReaperAssumption ==
  PageSize \in Nat \ {0} /\ MaxPassFailures \in Nat /\ IsFiniteSet(KeyIDs)

VARIABLES reaper,        \* reaper[n]: where the pass of node n is
          passFailures   \* store errors and restarts so far

reaperVars == <<storeVars, reaper, passFailures>>

NotReaping == [pc |-> "asleep"]

ReaperInit == StoreInit /\ reaper = [n \in Reapers |-> NotReaping] /\ passFailures = 0

Rows == KeyIDs \X Versions

(* ORDER BY k: some fixed order of the rows. *)
Position == CHOOSE f \in [Rows -> 1..Cardinality(Rows)] : IsInjective(f)

Ordered(some) ==
  CHOOSE f \in [1..Cardinality(some) -> some] :
    \A i \in DOMAIN f : \A j \in 1..i-1 : Position[f[j]] < Position[f[i]]

Stored == Ordered({e \in Rows : Exists(e[1], e[2])})

(* A scan without LIMIT, and one whose OFFSET is one too far. *)
ScanPrefixUnlimited(offset) == SubSeq(Stored, offset + 1, Len(Stored))
ScanPrefixOffByOne(offset) ==
  SubSeq(Stored, offset + 2, Min({offset + 1 + PageSize, Len(Stored)}))

(* ScanPrefixPaged(offset, limit): the rows there are now, in that order.  *)
ScanPrefixPaged(offset) ==
  SubSeq(Stored, offset + 1, Min({offset + PageSize, Len(Stored)}))

Reapable(k, v) == InState(k, v, "SoftDeleted") /\ rows[k][v].expired
ExpiredRows == {e \in Rows : Reapable(e[1], e[2])}

(* The 24-hour tick; cutoff is taken once, for all pages. *)
ReapStart(n) ==
  /\ reaper[n] = NotReaping
  /\ reaper' = [reaper EXCEPT ![n] =
       [pc |-> "page", offset |-> 0, count |-> 0, batch |-> <<>>, cutoff |-> ExpiredRows]]
  /\ UNCHANGED storeVars

(* One page: an empty one ends the pass, otherwise the rows that were in   *)
(* the bin before the cutoff are the ones to shred.                        *)
ReapPage(n) ==
  LET r == reaper[n]
      items == ScanPrefixPaged(r.offset)
  IN /\ r.pc = "page"
     /\ reaper' = [reaper EXCEPT ![n] =
          IF items = <<>> THEN NotReaping
          ELSE [r EXCEPT !.pc = "batch", !.count = Len(items),
                 !.batch = Ordered(Range(items) \cap ExpiredRows \cap r.cutoff)]]
     /\ UNCHANGED storeVars

Batch(n) == IF reaper[n].pc = "batch" THEN reaper[n].batch ELSE <<>>

(* ShredKey of the next row of the batch, as it was read: ShredKey does    *)
(* not look at the state the row has now.                                  *)
ReapShred(n) ==
  /\ Batch(n) # <<>>
  /\ ShredKey(Head(Batch(n))[1], Head(Batch(n))[2])
  /\ reaper' = [reaper EXCEPT ![n].batch = Tail(@)]

(* The row is gone by now: ShredKey returns an error, the pass goes on.    *)
ReapGone(n) ==
  /\ Batch(n) # <<>> /\ ~Exists(Head(Batch(n))[1], Head(Batch(n))[2])
  /\ reaper' = [reaper EXCEPT ![n].batch = Tail(@)]
  /\ UNCHANGED storeVars

(* A paging loop that reads the same page again. *)
ReapNextSamePage(n) ==
  LET r == reaper[n]
  IN /\ r.pc = "batch" /\ r.batch = <<>>
     /\ reaper' = [reaper EXCEPT ![n] =
          IF r.count < PageSize THEN NotReaping ELSE [r EXCEPT !.pc = "page"]]
     /\ UNCHANGED storeVars

(* offset += len(items), also past rows that the shreds moved up; a short  *)
(* page is the last.                                                       *)
ReapNextPage(n) ==
  LET r == reaper[n]
  IN /\ r.pc = "batch" /\ r.batch = <<>>
     /\ reaper' = [reaper EXCEPT ![n] =
          IF r.count < PageSize THEN NotReaping
          ELSE [r EXCEPT !.pc = "page", !.offset = @ + r.count]]
     /\ UNCHANGED storeVars

(* A store error fails one shred, or the scan and so the pass; a restart   *)
(* loses the pass.                                                         *)
PassFails(n) ==
  /\ passFailures < MaxPassFailures
  /\ passFailures' = passFailures + 1
  /\ \/ Batch(n) # <<>> /\ reaper' = [reaper EXCEPT ![n].batch = Tail(@)]
     \/ reaper[n] # NotReaping /\ reaper' = [reaper EXCEPT ![n] = NotReaping]
  /\ UNCHANGED storeVars

Reap(n) ==
  /\ ReapStart(n) \/ ReapPage(n) \/ ReapShred(n) \/ ReapGone(n) \/ ReapNextPage(n)
  /\ UNCHANGED passFailures

(* Clients go on, and entries of the recycle bin outlive their TTL. *)
Meanwhile == /\ ClientNext \/ \E k \in KeyIDs, v \in Versions : Expire(k, v)
             /\ UNCHANGED <<reaper, passFailures>>

ReaperNext == \/ Meanwhile
              \/ \E n \in Reapers : Reap(n) \/ PassFails(n)

ReaperSpec == ReaperInit /\ [][ReaperNext]_reaperVars

(* The ticker ticks and the goroutine runs. *)
ReaperFairness == \A n \in Reapers : WF_reaperVars(Reap(n))

ReaperFairSpec == ReaperSpec /\ ReaperFairness
-----------------------------------------------------------------------------
(* Types of the passes; offsets stay within the rows there can be. *)
ReaperTypeOK ==
  /\ reaper \in [Reapers ->
    {NotReaping} \cup [pc : {"page", "batch"}, offset : 0..Cardinality(Rows),
                   count : 0..PageSize, batch : Seq(Rows), cutoff : SUBSET Rows]]
  /\ passFailures \in 0..MaxPassFailures

(* A reaper never takes the version clients encrypt with: what it shreds   *)
(* was in the recycle bin when it read the page, and RestoreKey, which may *)
(* run before the shred, never makes a version Active (manager.go:800).    *)
ReaperSparesActive ==
  [][\A n \in Reapers, k \in KeyIDs, v \in Versions :
       Batch(n) # <<>> /\ Batch(n)' = Tail(Batch(n)) /\ InState(k, v, "Active")
         => Exists(k, v)']_reaperVars

(* "TTL expired: a background goroutine shreds it" (manager.go:752): an    *)
(* expired entry is shredded or restored in the end, although paging by    *)
(* offset skips rows when a page is shredded, and passes fail and crash.   *)
ExpiredIsReaped ==
  \A k \in KeyIDs, v \in Versions : Reapable(k, v) ~> ~Reapable(k, v)

(* A pass comes to its end, whatever clients add and shred meanwhile. *)
PassEnds == \A n \in Reapers : reaper[n] # NotReaping ~> reaper[n] = NotReaping

(* "Runs ShredKey on SoftDeleted keys whose DeletedAt is more than ttl     *)
(* ago" (manager.go:874): what a reaper shreds is at that moment in the    *)
(* recycle bin and expired.                                                *)
ReaperShredsOnlyExpired ==
  [][\A n \in Reapers, k \in KeyIDs, v \in Versions :
       /\ Batch(n) # <<>> /\ Batch(n)' = Tail(Batch(n))
       /\ Exists(k, v) /\ ~Exists(k, v)'
       => Reapable(k, v)]_reaperVars
=============================================================================
