----------------------------- MODULE AuditChain -----------------------------
(***************************************************************************)
(* The audit log of internal/audit: concurrent calls of Record append to a *)
(* hash chain, save the end of the chain in an anchor file, write a line   *)
(* to a file that rotates daily and hand it to a syslog queue.  The        *)
(* process may be closed, crash or lose power at any point and is started  *)
(* again from the anchor.                                                  *)
(*                                                                         *)
(* A signature is the position of its line in `minted`, the history of     *)
(* everything that was ever chained; the initial signature of start b,     *)
(* the hash of that start's fresh key, is -b.  Files are inodes, because a *)
(* writer that opened the temporary anchor file keeps writing to it after  *)
(* another has renamed it.                                                 *)
(***************************************************************************)
EXTENDS Integers, FiniteSets, Sequences, Functions

CONSTANTS
    Recorders,      \* goroutines that call Record on the server's logger
    HighRisk,       \* those of them that record an action of highRiskActions
    Pruner,         \* the goroutine of pruneLoop, with a logger of its own
    Retention,      \* retentionDays
    SyslogCap,      \* capacity of the syslog channel
    MaxLines,       \* bound on the number of chained lines
    MaxBoots,       \* bound on the number of starts
    MaxDay,         \* bound on the calendar
    MaxFaults       \* bound on I/O errors and unclean stops

ASSUME AuditAssumption ==
    /\ IsFiniteSet(Recorders) /\ HighRisk \subseteq Recorders /\ Pruner \notin Recorders
    /\ {Retention, SyslogCap, MaxLines, MaxBoots, MaxDay, MaxFaults} \subseteq Nat \ {0}

VARIABLES
    minted,     \* every chained line, in chain order
    proc,       \* the process: its chain and its sequence number
    rec,        \* the calls of Record in progress
    anchor,     \* the anchor file, its temporary file and their inodes
    logs,       \* current file, archives, what is on the platter
    syslog,     \* queue, write in progress, writes given up on
    day,
    faults

vars == <<minted, proc, rec, anchor, logs, syslog, day, faults>>

Goroutines == Recorders \cup {Pruner}
Sigs == 1 .. MaxLines
Days == 1 .. MaxDay
Inodes == {0} \cup (1 .. Cardinality(Goroutines) + 2)     \* 0: no such file
Empty == 0                                              \* a file truncated and not yet written

Line == [prev : -MaxBoots .. MaxLines, boot : 1 .. MaxBoots, seq : Sigs, high : BOOLEAN,
         prune : BOOLEAN, day : 0 .. MaxDay, done : {"no", "ok", "error", "lost"}]

Idle == [pc |-> "idle", sig |-> 0, read |-> 0, fd |-> 0]

\* Goroutines between the advance of the chain and the end of saveAnchor.
Saving == {g \in Goroutines : rec[g].pc \in {"chained", "opened", "wrote"}}

Lines(name) == IF name = 0 THEN logs.cur ELSE logs.arch[name]
OnDisk == UNION {Range(Lines(f)) : f \in 0 .. MaxDay}

TypeOK ==
    /\ minted \in Seq(Line) /\ Len(minted) <= MaxLines
    /\ proc \in [up : BOOLEAN, boot : 1 .. MaxBoots, last : -MaxBoots .. MaxLines, seq : 0 .. MaxLines]
    /\ rec \in [Goroutines -> [pc : {"idle", "pruned", "chained", "opened", "wrote", "saved"},
                               sig : 0 .. MaxLines, read : -MaxBoots .. MaxLines, fd : Inodes]]
    /\ anchor \in [file : Inodes, tmp : Inodes, content : [Inodes -> -MaxBoots .. MaxLines], alone : BOOLEAN]
    /\ logs \in [cur : Seq(Sigs), exists : BOOLEAN, arch : [Days -> Seq(Sigs)], today : Days, synced : SUBSET Sigs]
    /\ syslog \in [queue : Seq(Sigs), busy : BOOLEAN] /\ Len(syslog.queue) <= SyslogCap
    /\ day \in Days /\ faults \in 0 .. MaxFaults

NewSyslog == [queue |-> <<>>, busy |-> FALSE]

Init ==
    /\ minted = <<>>
    /\ proc = [up |-> TRUE, boot |-> 1, last |-> -1, seq |-> 0]
    /\ rec = [g \in Goroutines |-> Idle]
    /\ anchor = [file |-> 0, tmp |-> 0, content |-> [i \in Inodes |-> Empty], alone |-> TRUE]
    /\ logs = [cur |-> <<>>, exists |-> TRUE, arch |-> [d \in Days |-> <<>>], today |-> 1, synced |-> {}]
    /\ syslog = NewSyslog
    /\ day = 1
    /\ faults = 0

----------------------------------------------------------------------------
(* Record: the chain *)

\* A logger that numbers a line when its call begins to write it.
ChainNumberedLate(g) ==
    /\ proc.up /\ Len(minted) < MaxLines
    /\ rec[g].pc = IF g = Pruner THEN "pruned" ELSE "idle"
    /\ minted' = Append(minted, [prev |-> proc.last, boot |-> proc.boot,
                                 seq |-> 1 + Cardinality(OnDisk),
                                 high |-> g \in HighRisk \cup {Pruner}, prune |-> g = Pruner, day |-> 0, done |-> "no"])
    /\ proc' = [proc EXCEPT !.last = Len(minted'), !.seq = IF g = Pruner THEN @ ELSE @ + 1]
    /\ rec' = [rec EXCEPT ![g] = [Idle EXCEPT !.pc = "chained", !.sig = Len(minted')]]
    /\ anchor' = [anchor EXCEPT !.alone = Saving = {}]
    /\ UNCHANGED <<logs, syslog, day, faults>>

\* The signature of a line is computed from the last one and takes its place.
computeAndAdvance(line) ==
    /\ minted' = Append(minted, [line EXCEPT !.prev = proc.last])
    /\ proc' = [proc EXCEPT !.last = Len(minted'), !.seq = IF line.prune THEN @ ELSE @ + 1]

LastSignatureHex == proc.last

\* computeAndAdvance and the sequence number, under chainMu and the chain's own
\* mutex.  The pruner's logger shares the chain but is created for each pruning,
\* so its lines all have sequence number 1.
Chain(g) ==
    /\ proc.up /\ Len(minted) < MaxLines
    /\ rec[g].pc = IF g = Pruner THEN "pruned" ELSE "idle"
    /\ computeAndAdvance([prev |-> 0, boot |-> proc.boot,
                          seq |-> IF g = Pruner THEN 1 ELSE proc.seq + 1,
                          high |-> g \in HighRisk \cup {Pruner}, prune |-> g = Pruner, day |-> 0, done |-> "no"])
    /\ rec' = [rec EXCEPT ![g] = [Idle EXCEPT !.pc = "chained", !.sig = Len(minted')]]
    /\ anchor' = [anchor EXCEPT !.alone = Saving = {}]
    /\ UNCHANGED <<logs, syslog, day, faults>>

(* saveAnchor: LastSignatureHex and the truncating open of WriteFile (one step: what
   a later open leaves behind, a later write leaves behind too), its write, Rename.
   `alone` is history: the last line to be chained has met no other saveAnchor
   and no error so far. *)

FreeInode == CHOOSE i \in Inodes \ {0} :
                 i \notin {anchor.file, anchor.tmp} \cup {rec[g].fd : g \in Goroutines}

AnchorOpen(g) ==
    /\ proc.up /\ rec[g].pc = "chained"
    /\ LET i == IF anchor.tmp = 0 THEN FreeInode ELSE anchor.tmp IN
       /\ anchor' = [anchor EXCEPT !.tmp = i, !.content[i] = Empty]
       /\ rec' = [rec EXCEPT ![g].pc = "opened", ![g].read = LastSignatureHex, ![g].fd = i]
    /\ UNCHANGED <<minted, proc, logs, syslog, day, faults>>

AnchorWrite(g) ==
    /\ proc.up /\ rec[g].pc = "opened"
    /\ anchor' = [anchor EXCEPT !.content[rec[g].fd] = rec[g].read]
    /\ rec' = [rec EXCEPT ![g].pc = "wrote"]
    /\ UNCHANGED <<minted, proc, logs, syslog, day, faults>>

\* The write may fail, and saveAnchor then returns before the rename.
AnchorWriteFails(g) ==
    /\ proc.up /\ rec[g].pc = "opened" /\ faults < MaxFaults
    /\ rec' = [rec EXCEPT ![g] = [Idle EXCEPT !.pc = "saved", !.sig = rec[g].sig]]
    /\ anchor' = [anchor EXCEPT !.alone = FALSE]
    /\ faults' = faults + 1
    /\ UNCHANGED <<minted, proc, logs, syslog, day>>

\* A saveAnchor that leaves the temporary file in place.
AnchorRenameForgotten(g) ==
    /\ proc.up /\ rec[g].pc = "wrote"
    /\ rec' = [rec EXCEPT ![g] = [Idle EXCEPT !.pc = "saved", !.sig = rec[g].sig]]
    /\ UNCHANGED <<minted, proc, anchor, logs, syslog, day, faults>>

\* Another call may have renamed the temporary file: the rename then fails, and
\* Record goes on either way.
AnchorRename(g) ==
    /\ proc.up /\ rec[g].pc = "wrote"
    /\ anchor' = IF anchor.tmp = 0 THEN anchor
                 ELSE [anchor EXCEPT !.file = anchor.tmp, !.tmp = 0, !.content[anchor.file] = Empty]
    /\ rec' = [rec EXCEPT ![g] = [Idle EXCEPT !.pc = "saved", !.sig = rec[g].sig]]
    /\ UNCHANGED <<minted, proc, logs, syslog, day, faults>>

----------------------------------------------------------------------------
(* Record: the file *)

\* rotateLocked: close, rename to the archive of the day the file was opened (an
\* error is ignored, a file that is not there cannot be renamed), open.
RotateLocked(renamed) ==
    IF renamed /\ logs.exists
    THEN [logs EXCEPT !.arch[logs.today] = logs.cur, !.cur = <<>>]
    ELSE logs

\* A queue without a limit.
SyslogEnqueueUnbounded(s) == syslog' = [syslog EXCEPT !.queue = Append(@, s)]

\* SyslogWriter.Write: never blocks, and drops the line when the channel is full.
SyslogEnqueue(s) ==
    syslog' = IF Len(syslog.queue) < SyslogCap THEN [syslog EXCEPT !.queue = Append(@, s)] ELSE syslog

\* FileRotator.Write, under its mutex: rotate when the day has changed, append,
\* sync a high-risk line (and so all of the file).  Then the line goes to syslog
\* and Record returns nil.
FileWrite(g) ==
    /\ proc.up /\ rec[g].pc = "saved"
    /\ \E renamed \in BOOLEAN :
         /\ ~renamed => day # logs.today /\ faults < MaxFaults
         /\ faults' = IF renamed THEN faults ELSE faults + 1
         /\ LET rotated == IF day = logs.today THEN logs ELSE RotateLocked(renamed)
                cur     == Append(rotated.cur, rec[g].sig) IN
            logs' = [rotated EXCEPT !.cur = cur, !.exists = TRUE, !.today = day,
                                    !.synced = IF minted[rec[g].sig].high THEN @ \cup Range(cur) ELSE @]
    /\ SyslogEnqueue(rec[g].sig)
    /\ minted' = [minted EXCEPT ![rec[g].sig].day = day, ![rec[g].sig].done = "ok"]
    /\ rec' = [rec EXCEPT ![g] = Idle]
    /\ UNCHANGED <<proc, anchor, day>>

\* The write fails, or the rotation has moved the file away and cannot open a new
\* one: Record returns the error and the chained line is nowhere.
FileWriteFails(g) ==
    /\ proc.up /\ rec[g].pc = "saved" /\ faults < MaxFaults
    /\ faults' = faults + 1
    /\ logs' = IF day = logs.today THEN logs ELSE [RotateLocked(TRUE) EXCEPT !.exists = FALSE]
    /\ minted' = [minted EXCEPT ![rec[g].sig].done = "error"]
    /\ rec' = [rec EXCEPT ![g] = Idle]
    /\ UNCHANGED <<proc, anchor, syslog, day>>

----------------------------------------------------------------------------
(* Syslog *)

\* writeLoop receives a line and starts the goroutine that writes it.
SyslogTake ==
    /\ proc.up /\ ~syslog.busy /\ syslog.queue # <<>>
    /\ syslog' = [queue |-> Tail(syslog.queue), busy |-> TRUE]
    /\ UNCHANGED <<minted, proc, rec, anchor, logs, day, faults>>

\* A writer without the time limit, when syslogd does not answer.
SyslogDoneHung == FALSE /\ UNCHANGED vars

\* syslogd answers, with success or an error that is only reported, or 100 ms pass
\* and the line is given up.
SyslogDone ==
    /\ proc.up /\ syslog.busy
    /\ syslog' = [syslog EXCEPT !.busy = FALSE]
    /\ UNCHANGED <<minted, proc, rec, anchor, logs, day, faults>>

----------------------------------------------------------------------------
(* The calendar, pruning, stops and starts *)

NextDay ==
    /\ day < MaxDay /\ day' = day + 1
    /\ UNCHANGED <<minted, proc, rec, anchor, logs, syslog, faults>>

\* A cutoff one day too late.
ExpiredEarly(d) == d + Retention - 1 <= day

\* pruneOldFiles: the archives whose date lies Retention days back or more.
Expired(d) == d + Retention <= day

Prune ==
    LET old == {d \in Days : Expired(d) /\ logs.arch[d] # <<>>} IN
    /\ proc.up /\ rec[Pruner].pc = "idle" /\ old # {}
    /\ logs' = [logs EXCEPT !.arch = [d \in Days |-> IF d \in old THEN <<>> ELSE @[d]]]
    /\ rec' = [rec EXCEPT ![Pruner].pc = "pruned"]
    /\ UNCHANGED <<minted, proc, anchor, syslog, day, faults>>

\* What every stop has in common: the calls in progress are gone.
Stop ==
    /\ proc.up /\ proc' = [proc EXCEPT !.up = FALSE]
    /\ rec' = [g \in Goroutines |-> Idle]
    /\ syslog' = NewSyslog
    /\ UNCHANGED day

\* Close wipes the key and closes the file; the syslog queue is drained as far as
\* a second allows.
Close ==
    /\ Stop /\ \A g \in Goroutines : rec[g].pc = "idle"
    /\ UNCHANGED <<minted, anchor, logs, faults>>

Crash ==
    /\ Stop /\ faults < MaxFaults /\ faults' = faults + 1
    /\ anchor' = [anchor EXCEPT !.alone = FALSE]
    /\ UNCHANGED <<minted, logs>>

\* Synced(f): the prefix of a file that ends with its last synced line.
Synced(f) ==
    LET upto == {0} \cup {i \in 1 .. Len(f) : f[i] \in logs.synced}
    IN  SubSeq(f, 1, CHOOSE i \in upto : \A j \in upto : j <= i)

\* At worst a loss of power takes everything that was not synced, and leaves an
\* anchor that was renamed without a sync empty.  The low-risk lines it takes are
\* marked in the history.
PowerLoss ==
    /\ Stop /\ faults < MaxFaults /\ faults' = faults + 1
    /\ logs' = [logs EXCEPT !.cur = Synced(@), !.arch = [d \in Days |-> Synced(@[d])]]
    /\ minted' = [s \in DOMAIN minted |->
                    IF minted[s].done = "ok" /\ s \notin logs.synced /\ ~minted[s].high
                    THEN [minted[s] EXCEPT !.done = "lost"] ELSE minted[s]]
    /\ \E kept \in BOOLEAN :
         anchor' = [anchor EXCEPT !.alone = FALSE, !.content[anchor.file] = IF kept THEN @ ELSE Empty]

\* loadAnchor: no file is a first start, an empty file is a refusal.
LoadAnchor(initial) == IF anchor.file = 0 THEN initial ELSE anchor.content[anchor.file]

Readable == anchor.file # 0 => anchor.content[anchor.file] # Empty

\* NewFileRotator opens or creates the current file and calls it today's.
openCurrent == logs' = [logs EXCEPT !.exists = TRUE, !.today = day]

\* NewDualWriteLogger in a new process: a fresh key, the current file opened as
\* today's whatever it holds, the chain taken up from the anchor.
Start ==
    /\ ~proc.up /\ proc.boot < MaxBoots /\ Readable
    /\ proc' = [up |-> TRUE, boot |-> proc.boot + 1, last |-> LoadAnchor(-(proc.boot + 1)), seq |-> 0]
    /\ openCurrent
    /\ UNCHANGED <<minted, rec, anchor, syslog, day, faults>>

----------------------------------------------------------------------------
(* Query *)

\* verifyChainEntry with the key of the running process: each line by itself, from
\* the previous signature it carries.
VerifyChainEntry(s) == minted[s].boot = proc.boot

\* The lines of all files that match the filter, sorted by ChainSeq (in any order
\* where it is equal), the last `limit` of them.
QueryAnswers(filter, limit) ==
    LET found == OnDisk \cap filter
        n     == Cardinality(found)
    IN  {IF n > limit THEN SubSeq(q, n - limit + 1, n) ELSE q :
            q \in {p \in Bijection(1 .. n, found) :
                      \A i, j \in 1 .. n : i < j => minted[p[i]].seq <= minted[p[j]].seq}}

----------------------------------------------------------------------------

Next ==
    \/ \E g \in Goroutines :
         \/ Chain(g) \/ AnchorOpen(g) \/ AnchorWrite(g) \/ AnchorWriteFails(g) \/ AnchorRename(g)
         \/ FileWrite(g) \/ FileWriteFails(g)
    \/ SyslogTake \/ SyslogDone
    \/ NextDay \/ Prune \/ Close \/ Crash \/ PowerLoss \/ Start

Fairness == WF_vars(SyslogTake) /\ WF_vars(SyslogDone)

Spec == Init /\ [][Next]_vars /\ Fairness

----------------------------------------------------------------------------

\* Query lists the lines that the running process signed through its own logger in
\* chain order, each linked to the one before it or to a line that is not listed,
\* although lines reach the files in any order, and lines of earlier starts and of
\* the pruner, which number from 1 again, are mixed in (logger.go: Record,
\* query.go: Query).
QueryShowsChain ==
    proc.up => \A q \in QueryAnswers(Sigs, MaxLines) :
        LET Mine(i) == VerifyChainEntry(q[i]) /\ ~minted[q[i]].prune IN
        \A i, j \in DOMAIN q : i < j /\ Mine(i) /\ Mine(j) =>
            q[i] < q[j] /\ minted[q[j]].prev >= q[i]

\* Once no saveAnchor is in progress, the anchor file holds the end of the chain,
\* so that a restart continues it, if the last line to be chained saved alone and
\* without an error; and in any case a signature of this chain, unless an error
\* struck (logger.go: saveAnchor).
AnchorFollowsChain ==
    proc.up /\ Saving = {} /\ Len(minted) > 0 /\ minted[Len(minted)].boot = proc.boot =>
        /\ anchor.alone => LoadAnchor(0) = proc.last
        /\ faults = 0 => LoadAnchor(0) \in Sigs

\* A line whose Record returned nil is in exactly one file, once, until its archive
\* is Retention days old; a loss of power takes no line that was written as
\* high-risk (file_rotator.go: Write, rotateLocked, pruneOldFiles).
ReturnedIsKept ==
    \A s \in DOMAIN minted :
        minted[s].done = "ok" /\ day < minted[s].day + Retention =>
            \E f \in 0 .. MaxDay : \E i \in DOMAIN Lines(f) :
                /\ Lines(f)[i] = s
                /\ \A g \in 0 .. MaxDay : \A j \in DOMAIN Lines(g) : Lines(g)[j] = s => g = f /\ j = i

\* No line stays in the syslog queue for ever, even if syslogd no longer answers
\* (syslog_writer.go: writeWithTimeout).
SyslogDrains == \A s \in Sigs : []<>(s \notin Range(syslog.queue))
=============================================================================
