--------------------------- MODULE RotationDaemon ---------------------------
(***************************************************************************)
(* The automatic rotation daemon (lifecycle/daemon.go): every node runs    *)
(* one; a PostgreSQL advisory lock (storage/pg_locker.go) keeps all but    *)
(* one of them from scanning and rotating, while clients go on using the   *)
(* store.  The master key is the node's own: it may be sealed at any time. *)
(***************************************************************************)
EXTENDS KeyStore

CONSTANTS Nodes,      \* nodes that run a RotationDaemon
          MaxFaults   \* bound: seals, store errors, lost locks and restarts

ASSUME DaemonAssumption == MaxFaults \in Nat /\ None \notin Nodes

VARIABLES daemon,  \* daemon[n]: see Asleep
          lock,    \* the node whose session holds the advisory lock, or None
          sealed,  \* sealed[n]: KEKRef refuses
          faults

vars == <<storeVars, daemon, lock, sealed, faults>>

(* due: keys found by the scan and still to rotate; owed: the key whose    *)
(* attempt has no audit entry yet; lost (history): the lock broke away in  *)
(* this pass; outside (history): which of the due keys a client or a       *)
(* daemon that lost the lock has rotated since the scan.                   *)
Asleep == [pc |-> "asleep", due |-> {}, owed |-> None, lost |-> FALSE, outside |-> {}]

Init == /\ StoreInit
        /\ daemon = [n \in Nodes |-> Asleep]
        /\ lock = None
        /\ sealed = [n \in Nodes |-> TRUE]
        /\ faults = 0

Due(k) == \E v \in Versions : InState(k, v, "Active") /\ rows[k][v].due
Freed(n) == IF lock = n THEN None ELSE lock
Note(d, keys) == [d EXCEPT !.outside = @ \cup (keys \cap d.due)]

(* A TryAcquire that does not look at the result of pg_try_advisory_lock.  *)
TryAcquireAlways(n) ==
  /\ daemon[n].pc = "asleep"
  /\ lock' = IF lock = None THEN n ELSE lock
  /\ daemon' = [daemon EXCEPT ![n].pc = "scan"]
  /\ UNCHANGED <<storeVars, sealed, faults>>

(* The hourly tick: TryAcquire; without the lock there is nothing to do.   *)
TryAcquire(n) ==
  /\ daemon[n].pc = "asleep"
  /\ lock = None
  /\ lock' = n
  /\ daemon' = [daemon EXCEPT ![n].pc = "scan"]
  /\ UNCHANGED <<storeVars, sealed, faults>>

(* A scanExpiredKeys that hands on versions where key ids are expected. *)
ScanExpiredVersions(n) ==
  /\ daemon[n].pc = "scan"
  /\ daemon' = [daemon EXCEPT ![n].pc = "batch", ![n].due =
       {e \in KeyIDs \X Versions : InState(e[1], e[2], "Active") /\ rows[e[1]][e[2]].due}]
  /\ UNCHANGED <<storeVars, lock, sealed, faults>>

(* scanExpiredKeys: one ScanPrefix, then the Active rows that are due.     *)
ScanExpiredKeys(n) ==
  /\ daemon[n].pc = "scan"
  /\ daemon' = [daemon EXCEPT ![n].pc = "batch", ![n].due = {k \in KeyIDs : Due(k)}]
  /\ UNCHANGED <<storeVars, lock, sealed, faults>>

(* rotateAndAudit of a due key, in no particular order, up to its audit.   *)
MayAttempt(n, k) == daemon[n].pc = "batch" /\ k \in daemon[n].due
Attempted(n, k) ==
  [daemon[n] EXCEPT !.pc = "audit", !.due = @ \ {k}, !.owed = k, !.outside = @ \ {k}]

(* RotateKey by id: it rotates the version that is the latest by now.      *)
Rotate(n, k) ==
  /\ MayAttempt(n, k) /\ ~sealed[n]
  /\ RotateKey(k)
  /\ daemon' = [m \in Nodes |-> IF m = n THEN Attempted(n, k)
                                ELSE Note(daemon[m], IF daemon[n].lost THEN {k} ELSE {})]
  /\ UNCHANGED <<lock, sealed, faults>>

(* RotateKey fails because the latest version is not Active any more.      *)
RotateRefused(n, k) ==
  /\ MayAttempt(n, k) /\ ~sealed[n]
  /\ LatestVersion(k) \in 1..(MaxVersion - 1) => ~InState(k, LatestVersion(k), "Active")
  /\ daemon' = [daemon EXCEPT ![n] = Attempted(n, k)]
  /\ UNCHANGED <<storeVars, lock, sealed, faults>>

(* KEKRef refuses and its error is dropped: rotateErr and newMeta are both *)
(* nil, newMeta.Version panics, and the process dies with its sessions.    *)
RotateSealed(n, k) ==
  /\ MayAttempt(n, k) /\ sealed[n]
  /\ daemon' = [daemon EXCEPT ![n] = [Asleep EXCEPT !.pc = "dead", !.owed = k]]
  /\ lock' = Freed(n)
  /\ UNCHANGED <<storeVars, sealed, faults>>

(* auditFn; its error is only logged. *)
Audit(n) ==
  /\ daemon[n].pc = "audit"
  /\ daemon' = [daemon EXCEPT ![n].pc = "batch", ![n].owed = None]
  /\ UNCHANGED <<storeVars, lock, sealed, faults>>

(* A scanOnce without the deferred release. *)
ReleaseForgotten(n) ==
  /\ daemon[n].pc = "batch" /\ daemon[n].due = {}
  /\ daemon' = [daemon EXCEPT ![n] = Asleep]
  /\ UNCHANGED <<storeVars, lock, sealed, faults>>

(* The end of scanOnce: pg_advisory_unlock. *)
Release(n) ==
  /\ daemon[n].pc = "batch" /\ daemon[n].due = {}
  /\ daemon' = [daemon EXCEPT ![n] = Asleep]
  /\ lock' = Freed(n)
  /\ UNCHANGED <<storeVars, sealed, faults>>

(* The process is started again, with its vault sealed. *)
Restart(n) ==
  /\ daemon[n].pc = "dead"
  /\ daemon' = [daemon EXCEPT ![n] = Asleep]
  /\ sealed' = [sealed EXCEPT ![n] = TRUE]
  /\ UNCHANGED <<storeVars, lock, faults>>

(* The shares are provided. *)
Unseal(n) ==
  /\ sealed[n] /\ daemon[n].pc # "dead"
  /\ sealed' = [sealed EXCEPT ![n] = FALSE]
  /\ UNCHANGED <<storeVars, daemon, lock, faults>>

(* A seal, by an operator or the reseal timeout; the store failing the     *)
(* scan, or a rotation; the lock's connection breaking, which frees the    *)
(* lock while the daemon goes on; a restart.                               *)
Fault(n) ==
  /\ faults < MaxFaults /\ faults' = faults + 1
  /\ \/ /\ ~sealed[n] /\ sealed' = [sealed EXCEPT ![n] = TRUE]
        /\ UNCHANGED <<daemon, lock>>
     \/ /\ daemon[n].pc = "scan" /\ daemon' = [daemon EXCEPT ![n] = Asleep]
        /\ lock' = Freed(n)
        /\ UNCHANGED sealed
     \/ /\ \E k \in KeyIDs : /\ MayAttempt(n, k) /\ ~sealed[n]
                             /\ daemon' = [daemon EXCEPT ![n] = Attempted(n, k)]
        /\ UNCHANGED <<lock, sealed>>
     \/ /\ lock = n /\ lock' = None
        /\ daemon' = [daemon EXCEPT ![n].lost = TRUE]
        /\ UNCHANGED sealed
     \/ /\ daemon[n].pc # "dead"
        /\ daemon' = [daemon EXCEPT ![n] = Asleep]
        /\ lock' = Freed(n)
        /\ sealed' = [sealed EXCEPT ![n] = TRUE]
  /\ UNCHANGED storeVars

(* Clients and time; a client's RotateKey does not take the advisory lock. *)
Client ==
  /\ ClientNext \/ \E k \in KeyIDs, v \in Versions : FallDue(k, v)
  /\ LET rotated == {k \in KeyIDs : latest'[k] > latest[k] /\ latest'[k] > 1}
     IN daemon' = [n \in Nodes |-> Note(daemon[n], rotated)]
  /\ UNCHANGED <<lock, sealed, faults>>

Daemon(n) ==
  \/ TryAcquire(n) \/ ScanExpiredKeys(n) \/ Audit(n) \/ Release(n) \/ Restart(n)
  \/ \E k \in KeyIDs : Rotate(n, k) \/ RotateRefused(n, k) \/ RotateSealed(n, k)

Next == Client \/ \E n \in Nodes : Daemon(n) \/ Unseal(n) \/ Fault(n)

Spec == Init /\ [][Next]_vars

(* CreateKey returns, long before its key is due. *)
FinishCreate == /\ \E c \in Clients : CreateIndex(c) \/ CreateIndexLost(c)
                /\ UNCHANGED <<daemon, lock, sealed, faults>>

(* The ticker ticks, the goroutine runs, the supervisor restarts a dead    *)
(* process; operators unseal a restarted node, sometimes before its first  *)
(* tick, an hour later (else it dies again and again).                     *)
Fairness == /\ WF_vars(FinishCreate)
            /\ \A n \in Nodes : WF_vars(Daemon(n)) /\ SF_vars(Unseal(n))

FairSpec == Spec /\ Fairness
-----------------------------------------------------------------------------
(* Types of the store's rows and of the daemons' state. *)
TypeOK ==
  /\ StoreTypeOK
  /\ daemon \in [Nodes -> [pc : {"asleep", "scan", "batch", "audit", "dead"},
                           due : SUBSET KeyIDs, owed : KeyIDs \cup {None},
                           lost : BOOLEAN, outside : SUBSET KeyIDs]]
  /\ lock \in Nodes \cup {None}
  /\ sealed \in [Nodes -> BOOLEAN]
  /\ faults \in 0..MaxFaults

(* "The lock covers scan and rotate" (daemon.go:87): a daemon that holds   *)
(* the lock rotates a key only if it is due, so that two daemons do not    *)
(* rotate it twice, unless it was rotated after the scan by a client, who  *)
(* takes no lock, or by a daemon whose session has broken.                 *)
LockedRotatesDue ==
  [][\A n \in Nodes, k \in KeyIDs :
       /\ daemon[n].pc = "batch" /\ daemon'[n].pc = "audit" /\ daemon'[n].owed = k
       /\ latest'[k] # latest[k]
       /\ lock = n /\ k \notin daemon[n].outside
       => Due(k)]_vars

(* A key whose rotation is due is rotated in the end (or taken out of use  *)
(* by a client), whichever daemons crash on a sealed vault, lose the lock  *)
(* or fail on the way.                                                     *)
DueIsRotated ==
  \A k \in KeyIDs, v \in 1..(MaxVersion - 1) :
    InState(k, v, "Active") /\ rows[k][v].due ~> ~InState(k, v, "Active")

(* "Audit log (recorded whether it succeeded or not)" (daemon.go:169): a   *)
(* daemon that has attempted a rotation is about to write its entry.       *)
AttemptIsAudited ==
  \A n \in Nodes : daemon[n].owed # None => daemon[n].pc = "audit"
=============================================================================
