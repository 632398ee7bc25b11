-------------------------- MODULE AuditChainProofs --------------------------
(***************************************************************************)
(* Proofs about AuditChain, for any number of recorders, lines, starts,    *)
(* days and faults.  The inductive invariant has a part for the chain, one *)
(* for the calls of Record, one for the anchor file and one for the log    *)
(* files.                                                                  *)
(***************************************************************************)
EXTENDS AuditChain, TLAPS

\* A call between the advance of the chain and the end of its write to the file.
Recording(g) == rec[g].pc \notin {"idle", "pruned"}

\* This start has chained a line.
Started == \E s \in DOMAIN minted : minted[s].boot = proc.boot

\* The lines of one start are linked one to the next and numbered upwards
\* (logger.go: Record).
ChainInv ==
    /\ proc.seq <= Len(minted)
    /\ \A s \in DOMAIN minted : minted[s].boot <= proc.boot
    /\ \A s, t \in DOMAIN minted : s < t /\ minted[s].boot = minted[t].boot =>
         /\ minted[t].prev = t - 1
         /\ ~minted[s].prune /\ ~minted[t].prune => minted[s].seq < minted[t].seq
    /\ proc.up => \A s \in DOMAIN minted : minted[s].boot = proc.boot =>
         /\ proc.last = Len(minted)
         /\ ~minted[s].prune => minted[s].seq <= proc.seq

\* Every call in progress has a line of its own that is in no file yet.
CallsInv ==
    /\ \A g \in Goroutines : rec[g].pc # "idle" => proc.up
    /\ \A g \in Goroutines : Recording(g) =>
         /\ rec[g].sig \in DOMAIN minted
         /\ minted[rec[g].sig].boot = proc.boot
         /\ minted[rec[g].sig].done = "no"
    /\ \A g, h \in Goroutines : Recording(g) /\ Recording(h) /\ rec[g].sig = rec[h].sig => g = h

\* The inode i is about to be written.
Opened(i) == \E g \in Goroutines : rec[g].pc = "opened" /\ rec[g].fd = i

\* The anchor and its temporary file are different inodes, and a descriptor that is
\* open was opened on a temporary file that is there, or has become the anchor
\* (logger.go: saveAnchor).
TwoFiles ==
    /\ anchor.tmp # 0 => anchor.tmp # anchor.file
    /\ \A g \in Goroutines : rec[g].pc \in {"opened", "wrote"} =>
         rec[g].fd # 0 /\ rec[g].read \in Sigs /\ (anchor.tmp # 0 \/ anchor.file # 0)

\* Without an error no file is empty, unless someone is about to write it, and there
\* is an anchor or there will be one.
NoneEmpty ==
    faults = 0 =>
        /\ \A i \in {anchor.file, anchor.tmp} \ {0} : anchor.content[i] \in Sigs \/ Opened(i)
        /\ minted # <<>> => anchor.file # 0 \/ Saving # {}

\* If the last call to chain was alone, what it saves, or has saved, is the end of the
\* chain.
EndIsSaved ==
    proc.up /\ anchor.alone /\ Started =>
        /\ \A g, h \in Saving : g = h
        /\ \A g \in Saving :
             /\ rec[g].pc \in {"opened", "wrote"} => rec[g].fd = anchor.tmp
             /\ rec[g].pc = "opened" => rec[g].read = proc.last
             /\ rec[g].pc = "wrote" => anchor.content[anchor.tmp] = proc.last
        /\ Saving = {} => anchor.file # 0 /\ anchor.content[anchor.file] = proc.last

AnchorInv == TwoFiles /\ NoneEmpty /\ EndIsSaved

\* The lines of file f when the files are L, and whether there is a line i in it.
LinesOf(L, f) == IF f = 0 THEN L.cur ELSE L.arch[f]

At(L, f, i) == f \in 0 .. MaxDay /\ i \in DOMAIN LinesOf(L, f)

\* No line is twice in the files, or there or synced before its Record has written it;
\* a file has only lines of its day or earlier; what is synced is the beginning of a
\* file (file_rotator.go: Write, rotateLocked).
Placed(L, m) ==
    /\ \A f, g, i, j : At(L, f, i) /\ At(L, g, j) /\ LinesOf(L, f)[i] = LinesOf(L, g)[j] => f = g /\ i = j
    /\ \A f, i : At(L, f, i) =>
         /\ LinesOf(L, f)[i] \in DOMAIN m /\ m[LinesOf(L, f)[i]].done # "no"
         /\ m[LinesOf(L, f)[i]].day <= IF f = 0 THEN L.today ELSE f
    /\ \A f, i, j : At(L, f, j) /\ i \in 1 .. j /\ LinesOf(L, f)[j] \in L.synced => LinesOf(L, f)[i] \in L.synced
    /\ \A s \in L.synced : s \in DOMAIN m /\ m[s].done # "no"

\* Every line whose Record returned nil is in a file on day d, unless it is older than
\* its retention, and synced if it is high-risk.
Kept(L, m, d) ==
    \A s \in DOMAIN m : m[s].done = "ok" =>
        /\ m[s].high => s \in L.synced
        /\ d < m[s].day + Retention => \E f, i : At(L, f, i) /\ LinesOf(L, f)[i] = s

\* The archive that the next rotation writes does not exist.
Calendar(L, d) ==
    /\ L.today <= d
    /\ ~L.exists => L.cur = <<>> /\ L.today < d
    /\ \A a \in Days : L.arch[a] # <<>> => a < L.today \/ (a = L.today /\ ~L.exists)

FilesInv == Placed(logs, minted) /\ Kept(logs, minted, day) /\ Calendar(logs, day)

AuditInv == TypeOK /\ ChainInv /\ CallsInv /\ AnchorInv /\ FilesInv

----------------------------------------------------------------------------
(* The lines in the files *)

CallType == [pc : {"idle", "pruned", "chained", "opened", "wrote", "saved"},
             sig : 0 .. MaxLines, read : -MaxBoots .. MaxLines, fd : Inodes]
AnchorType == [file : Inodes, tmp : Inodes, content : [Inodes -> -MaxBoots .. MaxLines], alone : BOOLEAN]
LogsType == [cur : Seq(Sigs), exists : BOOLEAN, arch : [Days -> Seq(Sigs)], today : Days, synced : SUBSET Sigs]

\* What finiteness gives in every state: an inode that neither a file nor a descriptor
\* holds when there is no temporary file (logger.go: saveAnchor), and an end of what a
\* loss of power leaves of each file, a prefix with all its synced lines
\* (file_rotator.go: Write), and no more lines to answer with than were chained
\* (query.go: Query).
Finiteness ==
    /\ anchor.tmp = 0 => /\ FreeInode \in Inodes \ {0} /\ FreeInode # anchor.file
                         /\ \A g \in Goroutines : rec[g].fd # FreeInode
    /\ \A f \in Seq(Sigs) :
         /\ Synced(f) \in Seq(Sigs) /\ Len(Synced(f)) <= Len(f)
         /\ \A i \in 1 .. Len(Synced(f)) : Synced(f)[i] = f[i]
         /\ \A i \in 1 .. Len(f) : f[i] \in logs.synced => i \in 1 .. Len(Synced(f))
    /\ Cardinality(OnDisk \cap Sigs) \in 0 .. MaxLines

\* The constants are numbers.
LEMMA AuditConstants ==
  /\ Retention \in Nat \ {0} /\ SyslogCap \in Nat \ {0} /\ MaxLines \in Nat \ {0}
  /\ MaxBoots \in Nat \ {0} /\ MaxDay \in Nat \ {0} /\ MaxFaults \in Nat \ {0}
BY AuditAssumption

\* The domain of the history (logger.go: the lines that Record has chained).
LEMMA MintedSeq ==
  ASSUME TypeOK
  PROVE  /\ Len(minted) \in Nat /\ DOMAIN minted = 1 .. Len(minted) /\ DOMAIN minted \subseteq Sigs
         /\ \A s \in DOMAIN minted : minted[s] \in Line
<1>1. minted \in Seq(Line) /\ Len(minted) <= MaxLines
  BY DEF TypeOK
<1>2. Len(minted) \in Nat /\ DOMAIN minted = 1 .. Len(minted) /\ \A s \in DOMAIN minted : minted[s] \in Line
  BY <1>1
<1> QED BY <1>1, <1>2, AuditConstants DEF Sigs

\* What is left of a queue when its head is taken (syslog_writer.go: writeLoop).
LEMMA TailOf ==
  ASSUME NEW S, NEW q \in Seq(S), q # <<>>
  PROVE  Tail(q) \in Seq(S) /\ Len(Tail(q)) = Len(q) - 1
OBVIOUS

\* Files are sequences of lines.
LEMMA FileTypes ==
  ASSUME NEW L \in LogsType
  PROVE  /\ \A f \in 0 .. MaxDay :
              /\ LinesOf(L, f) \in Seq(Sigs) /\ Len(LinesOf(L, f)) \in Nat
              /\ DOMAIN LinesOf(L, f) = 1 .. Len(LinesOf(L, f))
         /\ \A f, i, j : At(L, f, j) /\ i \in 1 .. j => At(L, f, i)
<1>1. ASSUME NEW f \in 0 .. MaxDay
      PROVE  /\ LinesOf(L, f) \in Seq(Sigs) /\ Len(LinesOf(L, f)) \in Nat
             /\ DOMAIN LinesOf(L, f) = 1 .. Len(LinesOf(L, f))
  <2>1. f # 0 => f \in Days
    BY AuditConstants DEF Days
  <2>2. LinesOf(L, f) \in Seq(Sigs)
    BY <2>1 DEF LinesOf, LogsType
  <2> QED BY <2>2
<1>2. ASSUME NEW f, NEW i, NEW j, At(L, f, j), i \in 1 .. j
      PROVE  At(L, f, i)
  <2>1. f \in 0 .. MaxDay /\ j \in 1 .. Len(LinesOf(L, f)) /\ Len(LinesOf(L, f)) \in Nat
        /\ DOMAIN LinesOf(L, f) = 1 .. Len(LinesOf(L, f))
    BY <1>1, <1>2 DEF At
  <2>2. i \in 1 .. Len(LinesOf(L, f))
    BY <1>2, <2>1
  <2> QED BY <2>1, <2>2 DEF At
<1> QED BY <1>1, <1>2

\* What is in the files L names it in the module's own words.
LEMMA LinesAre ==
  \A f : Lines(f) = LinesOf(logs, f)
BY DEF Lines, LinesOf

\* The days of files are numbers.
LEMMA DayTypes ==
  ASSUME NEW L \in LogsType, NEW f \in 0 .. MaxDay
  PROVE  L.today \in Int /\ f \in Int
BY AuditConstants DEF LogsType, Days

\* The days of lines are numbers.
LEMMA LineDays ==
  ASSUME TypeOK
  PROVE  \A s \in DOMAIN minted : minted[s].day \in Int
<1>1. \A s \in DOMAIN minted : minted[s] \in Line
  BY MintedSeq
<1>2. 0 .. MaxDay \subseteq Int
  BY AuditConstants
<1> QED BY <1>1, <1>2 DEF Line

\* Files whose lines come from other files, each from one of its own, at the same
\* position and not of an earlier day, are as good (file_rotator.go: rotateLocked).
LEMMA MovedPlaced ==
  ASSUME NEW L \in LogsType, NEW N \in LogsType, NEW m \in Seq(Line),
         NEW from \in [0 .. MaxDay -> 0 .. MaxDay],
         \A f, i : At(N, f, i) =>
           /\ At(L, from[f], i) /\ LinesOf(N, f)[i] = LinesOf(L, from[f])[i]
           /\ (IF from[f] = 0 THEN L.today ELSE from[f]) <= (IF f = 0 THEN N.today ELSE f),
         \A f, g, i, j : At(N, f, i) /\ At(N, g, j) /\ from[f] = from[g] => f = g,
         N.synced = L.synced, Placed(L, m)
  PROVE  Placed(N, m)
<1> DEFINE Due(K, f) == IF f = 0 THEN K.today ELSE f
<1>a. /\ \A f, g, i, j : At(L, f, i) /\ At(L, g, j) /\ LinesOf(L, f)[i] = LinesOf(L, g)[j] => f = g /\ i = j
      /\ \A f, i : At(L, f, i) => /\ LinesOf(L, f)[i] \in DOMAIN m /\ m[LinesOf(L, f)[i]].done # "no"
                                 /\ m[LinesOf(L, f)[i]].day <= Due(L, f)
  BY DEF Placed
<1>b. \A f, i : At(N, f, i) => /\ At(L, from[f], i) /\ LinesOf(N, f)[i] = LinesOf(L, from[f])[i]
                             /\ Due(L, from[f]) <= Due(N, f)
  OBVIOUS
<1>c. \A f, i : At(N, f, i) => f \in 0 .. MaxDay
  BY DEF At
<1>d. \A f \in 0 .. MaxDay : Due(L, f) \in Int /\ Due(N, f) \in Int
  BY DayTypes
<1> HIDE DEF Due
<1>1. ASSUME NEW f, NEW g, NEW i, NEW j, At(N, f, i), At(N, g, j), LinesOf(N, f)[i] = LinesOf(N, g)[j]
      PROVE  f = g /\ i = j
  <2> DEFINE p == from[f]
             q == from[g]
  <2>1. /\ At(L, p, i) /\ LinesOf(N, f)[i] = LinesOf(L, p)[i]
        /\ At(L, q, j) /\ LinesOf(N, g)[j] = LinesOf(L, q)[j]
    BY <1>1, <1>b
  <2> HIDE DEF p, q
  <2>2. LinesOf(L, p)[i] = LinesOf(L, q)[j]
    BY <1>1, <2>1, Zenon
  <2>3. p = q /\ i = j
    BY <2>1, <2>2, <1>a
  <2> USE DEF p, q
  <2> QED BY <1>1, <2>3
<1>2. ASSUME NEW f, NEW i, At(N, f, i)
      PROVE  /\ LinesOf(N, f)[i] \in DOMAIN m /\ m[LinesOf(N, f)[i]].done # "no"
             /\ m[LinesOf(N, f)[i]].day <= IF f = 0 THEN N.today ELSE f
  <2> DEFINE s == LinesOf(N, f)[i]
  <2>1. At(L, from[f], i) /\ s = LinesOf(L, from[f])[i] /\ Due(L, from[f]) <= Due(N, f)
    BY <1>2, <1>b
  <2>2. s \in DOMAIN m /\ m[s].done # "no" /\ m[s].day <= Due(L, from[f])
    BY <2>1, <1>a
  <2>3. Due(L, from[f]) \in Int /\ Due(N, f) \in Int
    BY <1>2, <1>c, <1>d
  <2> HIDE DEF s
  <2>4. m[s].day \in Int
    <3>1. m[s] \in Line
      BY <2>2
    <3> QED BY <3>1, AuditConstants DEF Line
  <2>5. m[s].day <= Due(N, f)
    BY <2>1, <2>2, <2>3, <2>4
  <2> QED BY <2>2, <2>5 DEF Due, s
<1>3. ASSUME NEW f, NEW i, NEW j, At(N, f, j), i \in 1 .. j, LinesOf(N, f)[j] \in N.synced
      PROVE  LinesOf(N, f)[i] \in N.synced
  <2>1. At(N, f, i)
    BY <1>3, FileTypes
  <2>2. /\ At(L, from[f], j) /\ LinesOf(N, f)[j] = LinesOf(L, from[f])[j]
        /\ LinesOf(N, f)[i] = LinesOf(L, from[f])[i]
    BY <1>3, <2>1
  <2>3. LinesOf(L, from[f])[i] \in L.synced
    BY <1>3, <2>2 DEF Placed
  <2> QED BY <2>2, <2>3
<1>4. \A s \in N.synced : s \in DOMAIN m /\ m[s].done # "no"
  BY DEF Placed
<1> QED BY <1>1, <1>2, <1>3, <1>4 DEF Placed

\* Lines that are in the files keep their day and stay written.
LEMMA RelabelPlaced ==
  ASSUME NEW L, NEW m, NEW n, DOMAIN n = DOMAIN m,
         \A s \in DOMAIN m : m[s].done # "no" => n[s].done # "no" /\ n[s].day = m[s].day,
         Placed(L, m)
  PROVE  Placed(L, n)
<1>1. ASSUME NEW f, NEW i, At(L, f, i)
      PROVE  /\ LinesOf(L, f)[i] \in DOMAIN n /\ n[LinesOf(L, f)[i]].done # "no"
             /\ n[LinesOf(L, f)[i]].day <= IF f = 0 THEN L.today ELSE f
  <2>1. /\ LinesOf(L, f)[i] \in DOMAIN m /\ m[LinesOf(L, f)[i]].done # "no"
        /\ m[LinesOf(L, f)[i]].day <= IF f = 0 THEN L.today ELSE f
    BY <1>1 DEF Placed
  <2> QED BY <2>1
<1>2. \A s \in L.synced : s \in DOMAIN n /\ n[s].done # "no"
  BY DEF Placed
<1> QED BY <1>1, <1>2 DEF Placed

\* Files with the same lines and the same or a later day of the current one.
LEMMA SameLines ==
  ASSUME NEW L \in LogsType, NEW N \in LogsType, NEW m \in Seq(Line), NEW d,
         N.cur = L.cur, N.arch = L.arch, L.today <= N.today, N.synced = L.synced, Placed(L, m), Kept(L, m, d)
  PROVE  Placed(N, m) /\ Kept(N, m, d)
<1> DEFINE from == [f \in 0 .. MaxDay |-> f]
<1>1. from \in [0 .. MaxDay -> 0 .. MaxDay] /\ \A f \in 0 .. MaxDay : from[f] = f
  OBVIOUS
<1> HIDE DEF from
<1>2. \A f : LinesOf(N, f) = LinesOf(L, f)
  BY DEF LinesOf
<1>3. \A f, i : At(N, f, i) <=> At(L, f, i)
  BY <1>2 DEF At
<1>4. \A f, i : At(N, f, i) => f \in 0 .. MaxDay /\ from[f] = f
  BY <1>1 DEF At
<1>5. ASSUME NEW f, NEW i, At(N, f, i)
      PROVE  /\ At(L, from[f], i) /\ LinesOf(N, f)[i] = LinesOf(L, from[f])[i]
             /\ (IF from[f] = 0 THEN L.today ELSE from[f]) <= (IF f = 0 THEN N.today ELSE f)
  <2>1. f \in 0 .. MaxDay /\ from[f] = f /\ f \in Int
    BY <1>4, <1>5, DayTypes
  <2> QED BY <1>2, <1>3, <1>5, <2>1
<1>6. \A f, g, i, j : At(N, f, i) /\ At(N, g, j) /\ from[f] = from[g] => f = g
  BY <1>4
<1>7. Placed(N, m)
  BY <1>1, <1>5, <1>6, MovedPlaced, Zenon
<1>8. ASSUME NEW s, \E f, i : At(L, f, i) /\ LinesOf(L, f)[i] = s
      PROVE  \E f, i : At(N, f, i) /\ LinesOf(N, f)[i] = s
  BY <1>2, <1>3, <1>8
<1>9. Kept(N, m, d)
  BY <1>8, Zenon DEF Kept
<1> QED BY <1>7, <1>9

\* The variables of calls and anchor, by the names of their types.
LEMMA TypeNames ==
  ASSUME TypeOK
  PROVE  /\ rec \in [Goroutines -> CallType] /\ anchor \in AnchorType /\ logs \in LogsType
         /\ proc \in [up : BOOLEAN, boot : 1 .. MaxBoots, last : -MaxBoots .. MaxLines, seq : 0 .. MaxLines]
         /\ syslog \in [queue : Seq(Sigs), busy : BOOLEAN] /\ Len(syslog.queue) <= SyslogCap
         /\ day \in Days /\ faults \in 0 .. MaxFaults
BY DEF TypeOK, CallType, AnchorType, LogsType

\* What rotateLocked does to the files (file_rotator.go:137-164).
LEMMA RotateLockedFields ==
  ASSUME logs \in LogsType, NEW r \in BOOLEAN
  PROVE  /\ RotateLocked(r) \in LogsType
         /\ RotateLocked(r).today = logs.today /\ RotateLocked(r).synced = logs.synced
         /\ RotateLocked(r).exists = logs.exists
         /\ r /\ logs.exists =>
              /\ RotateLocked(r).cur = <<>> /\ RotateLocked(r).arch[logs.today] = logs.cur
              /\ \A d \in Days : d # logs.today => RotateLocked(r).arch[d] = logs.arch[d]
         /\ ~(r /\ logs.exists) => RotateLocked(r) = logs
<1>1. CASE r /\ logs.exists
  <2>1. RotateLocked(r) = [logs EXCEPT !.arch = [logs.arch EXCEPT ![logs.today] = logs.cur], !.cur = <<>>]
    BY <1>1 DEF RotateLocked, LogsType
  <2>2. [logs.arch EXCEPT ![logs.today] = logs.cur] \in [Days -> Seq(Sigs)]
    BY DEF LogsType
  <2>3. <<>> \in Seq(Sigs)
    OBVIOUS
  <2>4. RotateLocked(r).arch = [logs.arch EXCEPT ![logs.today] = logs.cur]
    BY <2>1 DEF LogsType
  <2>5. RotateLocked(r).arch[logs.today] = logs.cur /\ \A d \in Days : d # logs.today => RotateLocked(r).arch[d] = logs.arch[d]
    BY <2>4 DEF LogsType
  <2>6. RotateLocked(r) \in LogsType
    BY <2>1, <2>2, <2>3, Zenon DEF LogsType
  <2>7. /\ RotateLocked(r).today = logs.today /\ RotateLocked(r).synced = logs.synced
        /\ RotateLocked(r).exists = logs.exists /\ RotateLocked(r).cur = <<>>
    BY <2>1 DEF LogsType
  <2> QED BY <1>1, <2>5, <2>6, <2>7, Zenon
<1>2. CASE ~(r /\ logs.exists)
  BY <1>2 DEF RotateLocked, LogsType
<1> QED BY <1>1, <1>2

\* The files after the rotation at the start of FileRotator.Write: every line is where
\* it was or has moved with the current file to the archive of its day, which was not
\* there (file_rotator.go: rotateLocked).
LEMMA RotationKeeps ==
  ASSUME TypeOK, FilesInv, NEW r \in BOOLEAN, day # logs.today
  PROVE  /\ Placed(RotateLocked(r), minted) /\ Kept(RotateLocked(r), minted, day)
         /\ \A a \in Days : RotateLocked(r).arch[a] # <<>> => a <= logs.today
<1> DEFINE R == RotateLocked(r)
           t == logs.today
<1>1. /\ logs \in LogsType /\ R \in LogsType /\ t \in Days
      /\ R.today = t /\ R.synced = logs.synced /\ R.exists = logs.exists
      /\ r /\ logs.exists => /\ R.cur = <<>> /\ R.arch[t] = logs.cur
                             /\ \A d \in Days : d # t => R.arch[d] = logs.arch[d]
      /\ ~(r /\ logs.exists) => R = logs
  BY TypeNames, RotateLockedFields, Zenon DEF LogsType
<1>2. Days \subseteq Int /\ 0 \notin Days /\ Days \subseteq 0 .. MaxDay /\ 0 \in 0 .. MaxDay
      /\ \A f \in 0 .. MaxDay : f # 0 => f \in Days
  BY AuditConstants DEF Days
<1>3. /\ \A a \in Days : logs.arch[a] # <<>> => a < t \/ (a = t /\ ~logs.exists)
      /\ Placed(logs, minted) /\ Kept(logs, minted, day)
  BY DEF FilesInv, Calendar
<1> HIDE DEF R, t
<1>4. CASE ~(r /\ logs.exists)
  <2>1. \A a \in Days : logs.arch[a] # <<>> => a <= t
    BY <1>1, <1>2, <1>3
  <2> QED BY <1>1, <1>3, <1>4, <2>1 DEF R, t
<1>5. CASE r /\ logs.exists
  <2> DEFINE from == [f \in 0 .. MaxDay |-> IF f = t THEN 0 ELSE f]
  <2>1. from \in [0 .. MaxDay -> 0 .. MaxDay] /\ \A f \in 0 .. MaxDay : from[f] = IF f = t THEN 0 ELSE f
    BY <1>2
  <2> HIDE DEF from
  <2>2. logs.arch[t] = <<>>
    BY <1>1, <1>2, <1>3, <1>5
  <2>3. /\ LinesOf(R, 0) = <<>> /\ LinesOf(R, t) = LinesOf(logs, 0) /\ LinesOf(logs, t) = <<>>
        /\ \A f \in 0 .. MaxDay : f # 0 /\ f # t => LinesOf(R, f) = LinesOf(logs, f)
    BY <1>1, <1>2, <1>5, <2>2 DEF LinesOf
  <2>4. \A i : ~At(R, 0, i) /\ ~At(logs, t, i)
    BY <2>3 DEF At
  <2>5. ASSUME NEW f, NEW i, At(R, f, i)
        PROVE  /\ At(logs, from[f], i) /\ LinesOf(R, f)[i] = LinesOf(logs, from[f])[i]
               /\ (IF from[f] = 0 THEN logs.today ELSE from[f]) <= (IF f = 0 THEN R.today ELSE f)
               /\ f # 0 /\ f \in 0 .. MaxDay
    <3>1. f \in 0 .. MaxDay /\ f # 0
      BY <2>4, <2>5 DEF At
    <3>2. CASE f = t
      BY <1>1, <1>2, <2>1, <2>3, <2>5, <3>1, <3>2 DEF At, t
    <3>3. CASE f # t
      BY <1>1, <1>2, <2>1, <2>3, <2>5, <3>1, <3>3 DEF At
    <3> QED BY <3>1, <3>2, <3>3
  <2>6. \A f, g, i, j : At(R, f, i) /\ At(R, g, j) /\ from[f] = from[g] => f = g
    BY <2>1, <2>5
  <2>7. minted \in Seq(Line)
    BY DEF TypeOK
  <2>8. Placed(R, minted)
    <3>1. \A f, i : At(R, f, i) =>
            /\ At(logs, from[f], i) /\ LinesOf(R, f)[i] = LinesOf(logs, from[f])[i]
            /\ (IF from[f] = 0 THEN logs.today ELSE from[f]) <= (IF f = 0 THEN R.today ELSE f)
      BY <2>5
    <3>2. /\ logs \in LogsType /\ R \in LogsType /\ R.synced = logs.synced /\ Placed(logs, minted)
          /\ from \in [0 .. MaxDay -> 0 .. MaxDay]
      BY <1>1, <1>3, <2>1
    <3> QED BY ONLY <2>6, <2>7, <3>1, <3>2, MovedPlaced, Zenon
  <2>9. ASSUME NEW f, NEW i, At(logs, f, i)
        PROVE  \E g : At(R, g, i) /\ LinesOf(R, g)[i] = LinesOf(logs, f)[i]
    <3>1. f \in 0 .. MaxDay /\ f # t
      BY <2>4, <2>9 DEF At
    <3>2. CASE f = 0
      BY <1>1, <1>2, <2>3, <2>9, <3>2 DEF At
    <3>3. CASE f # 0
      BY <2>3, <2>9, <3>1, <3>3 DEF At
    <3> QED BY <3>2, <3>3
  <2>10. Kept(R, minted, day)
    BY <1>1, <1>3, <2>9 DEF Kept
  <2>11. \A a \in Days : R.arch[a] # <<>> => a <= t
    BY <1>1, <1>2, <1>3, <1>5
  <2> QED BY <2>8, <2>10, <2>11 DEF R, t
<1> QED BY <1>4, <1>5

\* Appending a line that was in no file, and syncing the file or not, keeps what was
\* there (file_rotator.go: Write).
LEMMA AppendKeeps ==
  ASSUME NEW R \in LogsType, NEW N \in LogsType, NEW m \in Seq(Line), NEW n, DOMAIN n = DOMAIN m,
         NEW x \in DOMAIN m, m[x].done = "no", NEW d \in Days, R.today <= d,
         N.cur = Append(R.cur, x), x \in Sigs, N.arch = R.arch, N.today = d,
         N.synced = R.synced \/ N.synced = R.synced \cup Range(N.cur),
         n[x].high => N.synced = R.synced \cup Range(N.cur),
         \A s \in DOMAIN m : s # x => n[s] = m[s],
         n[x].done = "ok", n[x].day = d,
         Placed(R, m), Kept(R, m, d)
  PROVE  Placed(N, n) /\ Kept(N, n, d)
<1> DEFINE k == Len(R.cur) + 1
           Due(K, f) == IF f = 0 THEN K.today ELSE f
<1>1. /\ Len(R.cur) \in Nat /\ DOMAIN R.cur = 1 .. Len(R.cur)
      /\ DOMAIN N.cur = 1 .. k /\ N.cur[k] = x
      /\ \A i \in 1 .. Len(R.cur) : N.cur[i] = R.cur[i]
  <2>1. R.cur \in Seq(Sigs)
    BY DEF LogsType
  <2> QED BY <2>1
<1>2. k \in Nat \ {0} /\ k \notin DOMAIN R.cur /\ DOMAIN N.cur = DOMAIN R.cur \cup {k}
  BY <1>1
<1>3. 0 \in 0 .. MaxDay
  BY AuditConstants
<1> HIDE DEF k
<1>4. ASSUME NEW f, NEW i, At(N, f, i)
      PROVE  \/ At(R, f, i) /\ LinesOf(N, f)[i] = LinesOf(R, f)[i]
             \/ f = 0 /\ i = k /\ LinesOf(N, f)[i] = x
  <2>1. CASE f = 0
    BY <1>1, <1>2, <1>4, <2>1 DEF At, LinesOf
  <2>2. CASE f # 0
    BY <1>4, <2>2 DEF At, LinesOf
  <2> QED BY <2>1, <2>2
<1>5. /\ \A f, g, i, j : At(R, f, i) /\ At(R, g, j) /\ LinesOf(R, f)[i] = LinesOf(R, g)[j] => f = g /\ i = j
      /\ \A f, i : At(R, f, i) => /\ LinesOf(R, f)[i] \in DOMAIN m /\ m[LinesOf(R, f)[i]].done # "no"
                                  /\ m[LinesOf(R, f)[i]].day <= Due(R, f)
      /\ \A f, i, j : At(R, f, j) /\ i \in 1 .. j /\ LinesOf(R, f)[j] \in R.synced => LinesOf(R, f)[i] \in R.synced
      /\ \A s \in R.synced : s \in DOMAIN m /\ m[s].done # "no"
  BY DEF Placed
<1>6. ASSUME NEW f, NEW i, At(R, f, i)
      PROVE  At(N, f, i) /\ LinesOf(N, f)[i] = LinesOf(R, f)[i] /\ LinesOf(R, f)[i] # x
  <2>1. LinesOf(R, f)[i] # x
    BY <1>5, <1>6
  <2>2. CASE f = 0
    BY <1>1, <1>2, <1>6, <2>1, <2>2 DEF At, LinesOf
  <2>3. CASE f # 0
    BY <1>6, <2>1, <2>3 DEF At, LinesOf
  <2> QED BY <2>2, <2>3
<1>7. At(N, 0, k) /\ LinesOf(N, 0)[k] = x
  BY <1>1, <1>2, <1>3 DEF At, LinesOf
<1>8. \A f \in 0 .. MaxDay : Due(R, f) \in Int /\ Due(N, f) \in Int /\ Due(R, f) <= Due(N, f)
  BY DayTypes
<1> HIDE DEF Due
<1>9. ASSUME NEW f, NEW g, NEW i, NEW j, At(N, f, i), At(N, g, j), LinesOf(N, f)[i] = LinesOf(N, g)[j]
      PROVE  f = g /\ i = j
  <2>1. CASE LinesOf(N, f)[i] = x
    <3>1. f = 0 /\ i = k
      BY <1>4, <1>6, <1>9, <2>1
    <3>2. LinesOf(N, g)[j] = x
      BY <1>9, <2>1
    <3>3. g = 0 /\ j = k
      BY <1>4, <1>6, <1>9, <3>2
    <3> QED BY <3>1, <3>3
  <2>2. CASE LinesOf(N, f)[i] # x
    <3>1. /\ At(R, f, i) /\ LinesOf(N, f)[i] = LinesOf(R, f)[i]
          /\ At(R, g, j) /\ LinesOf(N, g)[j] = LinesOf(R, g)[j]
      BY <1>4, <1>9, <2>2
    <3>2. LinesOf(R, f)[i] = LinesOf(R, g)[j]
      BY <1>9, <3>1, Zenon
    <3> QED BY <1>5, <3>1, <3>2
  <2> QED BY <2>1, <2>2
<1>10. ASSUME NEW f, NEW i, At(N, f, i)
       PROVE  /\ LinesOf(N, f)[i] \in DOMAIN n /\ n[LinesOf(N, f)[i]].done # "no"
              /\ n[LinesOf(N, f)[i]].day <= Due(N, f)
  <2>1. CASE f = 0 /\ i = k /\ LinesOf(N, f)[i] = x
    <3>1. Due(N, f) = d /\ d \in Int
      BY <2>1 DEF Due, Days
    <3> QED BY <2>1, <3>1
  <2>2. CASE At(R, f, i) /\ LinesOf(N, f)[i] = LinesOf(R, f)[i]
    <3> DEFINE s == LinesOf(N, f)[i]
    <3>1. s \in DOMAIN m /\ m[s].done # "no" /\ m[s].day <= Due(R, f) /\ s # x
      BY <1>5, <1>6, <2>2
    <3>2. f \in 0 .. MaxDay
      BY <1>10 DEF At
    <3> HIDE DEF s
    <3>3. n[s] = m[s] /\ m[s] \in Line
      BY <3>1
    <3>4. m[s].day \in Int
      BY <3>3, AuditConstants DEF Line
    <3>5. m[s].day <= Due(N, f)
      BY <1>8, <3>1, <3>2, <3>4
    <3> QED BY <3>1, <3>3, <3>5 DEF s
  <2> QED BY <1>4, <1>10, <2>1, <2>2
<1>11. ASSUME NEW f, NEW i, NEW j, At(N, f, j), i \in 1 .. j, LinesOf(N, f)[j] \in N.synced
       PROVE  LinesOf(N, f)[i] \in N.synced
  <2>1. CASE LinesOf(N, f)[j] \in R.synced
    <3>1. LinesOf(N, f)[j] # x
      BY <1>5, <2>1
    <3>2. At(R, f, j) /\ LinesOf(N, f)[j] = LinesOf(R, f)[j]
      BY <1>4, <1>11, <3>1
    <3>3. At(R, f, i) /\ LinesOf(R, f)[i] \in R.synced
      BY <1>5, <1>11, <2>1, <3>2, FileTypes
    <3>4. LinesOf(N, f)[i] \in R.synced
      BY <1>6, <3>3
    <3> QED BY <3>4
  <2>2. CASE N.synced = R.synced \cup Range(N.cur) /\ LinesOf(N, f)[j] \in Range(N.cur)
    <3>1. PICK l \in DOMAIN N.cur : N.cur[l] = LinesOf(N, f)[j]
      BY <2>2 DEF Range
    <3>2. At(N, 0, l) /\ LinesOf(N, 0)[l] = LinesOf(N, f)[j]
      BY <1>3, <3>1, Zenon DEF At, LinesOf
    <3>3. f = 0
      BY <1>9, <1>11, <3>2
    <3>4. At(N, f, i)
      BY <1>11, FileTypes
    <3>5. LinesOf(N, f)[i] \in Range(N.cur)
      BY <3>3, <3>4 DEF At, LinesOf, Range
    <3> QED BY <2>2, <3>5
  <2> QED BY <1>11, <2>1, <2>2
<1>12. ASSUME NEW s \in N.synced PROVE s \in DOMAIN n /\ n[s].done # "no"
  <2>1. CASE s \in R.synced
    <3>1. s \in DOMAIN m /\ m[s].done # "no"
      BY <1>5, <2>1
    <3> QED BY <3>1
  <2>2. CASE s \in Range(N.cur)
    <3>1. PICK l \in DOMAIN N.cur : N.cur[l] = s
      BY <2>2 DEF Range
    <3>2. At(N, 0, l) /\ LinesOf(N, 0)[l] = s
      BY <1>3, <3>1 DEF At, LinesOf
    <3> QED BY <1>10, <3>2
  <2> QED BY <2>1, <2>2
<1>13. Placed(N, n)
  <2>1. \A f, i : At(N, f, i) => n[LinesOf(N, f)[i]].day <= IF f = 0 THEN N.today ELSE f
    BY <1>10 DEF Due
  <2> QED BY <1>9, <1>10, <1>11, <1>12, <2>1, ZenonT(30) DEF Placed
<1>14. ASSUME NEW s \in DOMAIN n, n[s].done = "ok"
       PROVE  /\ n[s].high => s \in N.synced
              /\ d < n[s].day + Retention => \E f, i : At(N, f, i) /\ LinesOf(N, f)[i] = s
  <2>1. CASE s = x
    <3>1. x \in Range(N.cur)
      BY <1>1, <1>2 DEF Range
    <3> QED BY <1>7, <2>1, <3>1
  <2>2. CASE s # x
    <3>1. n[s] = m[s] /\ m[s].done = "ok"
      BY <1>14, <2>2
    <3>2. /\ m[s].high => s \in R.synced
          /\ d < m[s].day + Retention => \E f, i : At(R, f, i) /\ LinesOf(R, f)[i] = s
      BY <1>14, <3>1 DEF Kept
    <3>3. R.synced \subseteq N.synced
      OBVIOUS
    <3>4. (\E f, i : At(R, f, i) /\ LinesOf(R, f)[i] = s) => \E f, i : At(N, f, i) /\ LinesOf(N, f)[i] = s
      BY <1>6
    <3> QED BY <3>1, <3>2, <3>3, <3>4
  <2> QED BY <2>1, <2>2
<1> QED BY <1>13, <1>14 DEF Kept

----------------------------------------------------------------------------
(* The initial state *)

\* The values that steps write are of their type.
LEMMA SmallTypes ==
  /\ 0 \in -MaxBoots .. MaxLines /\ 0 \in 0 .. MaxLines /\ 0 \in Inodes /\ Sigs \subseteq 0 .. MaxLines
  /\ 0 .. MaxLines \subseteq -MaxBoots .. MaxLines
  /\ Idle \in CallType
  /\ Idle.pc = "idle" /\ Idle.fd = 0
  /\ \A p \in {"chained", "saved"}, s \in 0 .. MaxLines :
       LET r == [Idle EXCEPT !.pc = p, !.sig = s] IN
       r \in CallType /\ r.pc = p /\ r.sig = s /\ r.read = 0 /\ r.fd = 0
<1>1. /\ 0 \in -MaxBoots .. MaxLines /\ 0 \in 0 .. MaxLines /\ 0 \in Inodes /\ Sigs \subseteq 0 .. MaxLines
      /\ 0 .. MaxLines \subseteq -MaxBoots .. MaxLines
  BY AuditConstants DEF Inodes, Sigs
<1>2. Idle \in CallType
  BY <1>1 DEF Idle, CallType
<1>3. Idle.pc = "idle" /\ Idle.sig = 0 /\ Idle.read = 0 /\ Idle.fd = 0
  BY DEF Idle
<1>4. ASSUME NEW p \in {"chained", "saved"}, NEW s \in 0 .. MaxLines
      PROVE  LET r == [Idle EXCEPT !.pc = p, !.sig = s] IN
             r \in CallType /\ r.pc = p /\ r.sig = s /\ r.read = 0 /\ r.fd = 0
  BY <1>2, <1>3, Zenon DEF CallType
<1> QED BY <1>1, <1>2, <1>3, <1>4, Zenon

\* The invariant holds when the log is first created.
LEMMA AuditInitially ==
  ASSUME Init
  PROVE  AuditInv
<1>0. /\ Idle \in CallType /\ Idle.pc = "idle" /\ Idle.fd = 0
      /\ 0 \in Inodes /\ 0 \in -MaxBoots .. MaxLines
  BY SmallTypes, Zenon
<1>1. /\ minted = <<>> /\ day = 1 /\ faults = 0
      /\ proc = [up |-> TRUE, boot |-> 1, last |-> -1, seq |-> 0]
      /\ rec = [g \in Goroutines |-> Idle]
      /\ anchor = [file |-> 0, tmp |-> 0, content |-> [i \in Inodes |-> 0], alone |-> TRUE]
      /\ logs = [cur |-> <<>>, exists |-> TRUE, arch |-> [d \in Days |-> <<>>], today |-> 1, synced |-> {}]
      /\ syslog = [queue |-> <<>>, busy |-> FALSE]
  BY DEF Init, Empty, NewSyslog
<1>2. \A g \in Goroutines : rec[g].pc = "idle" /\ rec[g].fd = 0
  BY <1>0, <1>1
<1>3. DOMAIN minted = {} /\ Len(minted) = 0
  BY <1>1
<1>4. /\ logs.cur = <<>> /\ logs.exists /\ logs.today = 1 /\ logs.synced = {}
      /\ \A d \in Days : logs.arch[d] = <<>>
  BY <1>1
<1>5. TypeOK
  <2>1. minted \in Seq(Line) /\ Len(minted) <= MaxLines
    BY <1>1, AuditConstants
  <2>2. proc \in [up : BOOLEAN, boot : 1 .. MaxBoots, last : -MaxBoots .. MaxLines, seq : 0 .. MaxLines]
    <3>1. 1 \in 1 .. MaxBoots /\ -1 \in -MaxBoots .. MaxLines /\ 0 \in 0 .. MaxLines
      BY AuditConstants
    <3> QED BY <1>1, <3>1
  <2>3. rec \in [Goroutines -> CallType]
    BY <1>0, <1>1
  <2>4. anchor \in AnchorType
    BY <1>0, <1>1 DEF AnchorType
  <2>5. logs \in LogsType
    <3>1. <<>> \in Seq(Sigs) /\ 1 \in Days
      BY AuditConstants DEF Days
    <3>2. [d \in Days |-> <<>>] \in [Days -> Seq(Sigs)]
      BY <3>1
    <3> QED BY <1>1, <3>1, <3>2 DEF LogsType
  <2>6. syslog \in [queue : Seq(Sigs), busy : BOOLEAN] /\ Len(syslog.queue) <= SyslogCap
    <3>1. <<>> \in Seq(Sigs) /\ Len(<<>>) <= SyslogCap
      BY AuditConstants
    <3> QED BY <1>1, <3>1
  <2>7. day \in Days /\ faults \in 0 .. MaxFaults
    BY <1>1, AuditConstants DEF Days
  <2> QED BY <2>1, <2>2, <2>3, <2>4, <2>5, <2>6, <2>7, Zenon DEF TypeOK, CallType, AnchorType, LogsType
<1>6. ChainInv /\ CallsInv
  BY <1>1, <1>2, <1>3 DEF ChainInv, CallsInv, Recording
<1>7. AnchorInv
  <2>1. ~Started /\ anchor.file = 0 /\ anchor.tmp = 0
    BY <1>1, <1>3 DEF Started
  <2> QED BY <1>1, <1>2, <2>1 DEF AnchorInv, TwoFiles, NoneEmpty, EndIsSaved
<1>8. FilesInv
  <2>1. \A f \in 0 .. MaxDay : LinesOf(logs, f) = <<>>
    <3>1. \A f \in 0 .. MaxDay : f # 0 => f \in Days
      BY AuditConstants DEF Days
    <3> QED BY <1>4, <3>1 DEF LinesOf
  <2>2. \A f, i : ~At(logs, f, i)
    BY <2>1 DEF At
  <2>3. Placed(logs, minted)
    BY <1>4, <2>2 DEF Placed
  <2>4. Kept(logs, minted, day)
    BY <1>3 DEF Kept
  <2>5. Calendar(logs, day)
    BY <1>1, <1>4 DEF Calendar
  <2> QED BY <2>3, <2>4, <2>5 DEF FilesInv
<1> QED BY <1>5, <1>6, <1>7, <1>8 DEF AuditInv

----------------------------------------------------------------------------
(* What the invariant gives *)

\* Every answer of Query shows the lines of the running process in chain order,
\* although they were written in any order (query.go: Query).
LEMMA QueryInOrder ==
  ASSUME AuditInv, Finiteness
  PROVE  QueryShowsChain
<1> SUFFICES ASSUME proc.up, NEW q \in QueryAnswers(Sigs, MaxLines),
                    NEW i \in DOMAIN q, NEW j \in DOMAIN q, i < j,
                    VerifyChainEntry(q[i]), ~minted[q[i]].prune,
                    VerifyChainEntry(q[j]), ~minted[q[j]].prune
             PROVE  q[i] < q[j] /\ minted[q[j]].prev >= q[i]
  BY DEF QueryShowsChain
<1> DEFINE found == OnDisk \cap Sigs
           n == Cardinality(found)
<1>1. TypeOK /\ ChainInv /\ FilesInv
  BY DEF AuditInv
<1>2. found \subseteq DOMAIN minted
  <2>1. ASSUME NEW s \in OnDisk PROVE s \in DOMAIN minted
    <3>1. PICK f \in 0 .. MaxDay : s \in Range(Lines(f))
      BY <2>1 DEF OnDisk
    <3>2. PICK k \in DOMAIN LinesOf(logs, f) : LinesOf(logs, f)[k] = s
      BY <3>1, LinesAre DEF Range
    <3> QED BY <1>1, <3>1, <3>2 DEF FilesInv, Placed, At
  <2> QED BY <2>1
<1>3. n \in Nat /\ n <= MaxLines
  BY AuditConstants DEF Finiteness
<1> HIDE DEF found, n
<1>4. PICK p \in Bijection(1 .. n, found) :
        /\ \A k, l \in 1 .. n : k < l => minted[p[k]].seq <= minted[p[l]].seq
        /\ q = IF n > MaxLines THEN SubSeq(p, n - MaxLines + 1, n) ELSE p
  BY Zenon DEF QueryAnswers, found, n
<1>5. q = p /\ q \in [1 .. n -> found] /\ q[i] # q[j] /\ i \in 1 .. n /\ j \in 1 .. n
  <2>1. q = p
    BY <1>3, <1>4, AuditConstants
  <2>2. p \in [1 .. n -> found] /\ IsInjective(p)
    BY <1>4 DEF Bijection, Injection
  <2> QED BY <1>3, <2>1, <2>2 DEF IsInjective
<1> DEFINE s == q[i]
           t == q[j]
<1>6. s \in DOMAIN minted /\ t \in DOMAIN minted /\ s # t /\ minted[s].seq <= minted[t].seq
  BY <1>2, <1>4, <1>5, Zenon
<1>7. minted[s].boot = proc.boot /\ minted[t].boot = proc.boot /\ ~minted[s].prune /\ ~minted[t].prune
  BY DEF VerifyChainEntry
<1> HIDE DEF s, t
<1>8. s \in Int /\ t \in Int /\ minted[s].seq \in Int /\ minted[t].seq \in Int
  <2>1. Sigs \subseteq Int
    BY AuditConstants DEF Sigs
  <2>2. minted[s] \in Line /\ minted[t] \in Line /\ s \in Sigs /\ t \in Sigs
    BY <1>1, <1>6, MintedSeq
  <2> QED BY <2>1, <2>2, Zenon DEF Line
<1>9. ~(t < s)
  <2>1. t < s => minted[t].seq < minted[s].seq
    BY <1>1, <1>6, <1>7 DEF ChainInv
  <2> QED BY <1>6, <1>8, <2>1
<1>10. s < t
  BY <1>6, <1>8, <1>9
<1>11. minted[t].prev = t - 1
  BY <1>1, <1>6, <1>7, <1>10 DEF ChainInv
<1>12. s < t /\ minted[t].prev >= s
  BY <1>8, <1>10, <1>11
<1> QED BY <1>12 DEF s, t

\* Once nobody is saving, the anchor is the end of the chain if the last call was alone,
\* and a signature of the chain in any case unless an error struck (logger.go:
\* saveAnchor).
LEMMA AnchorAtRest ==
  ASSUME AuditInv
  PROVE  AnchorFollowsChain
<1> SUFFICES ASSUME proc.up, Saving = {}, Len(minted) > 0, minted[Len(minted)].boot = proc.boot
             PROVE  /\ anchor.alone => LoadAnchor(0) = proc.last
                    /\ faults = 0 => LoadAnchor(0) \in Sigs
  BY DEF AnchorFollowsChain
<1>1. TypeOK /\ AnchorInv
  BY DEF AuditInv
<1>2. Len(minted) \in DOMAIN minted /\ minted # <<>>
  BY <1>1, MintedSeq
<1>3. Started
  BY <1>2 DEF Started
<1>4. anchor.alone => LoadAnchor(0) = proc.last
  BY <1>1, <1>3 DEF AnchorInv, EndIsSaved, LoadAnchor
<1>5. \A i : ~Opened(i)
  BY DEF Opened, Saving
<1>6. faults = 0 => LoadAnchor(0) \in Sigs
  BY <1>1, <1>2, <1>5 DEF AnchorInv, NoneEmpty, LoadAnchor
<1> QED BY <1>4, <1>6

\* A line whose Record returned nil is in exactly one file, once, until its archive has
\* expired (file_rotator.go: Write, rotateLocked, pruneOldFiles).
LEMMA KeptOnce ==
  ASSUME AuditInv
  PROVE  ReturnedIsKept
<1> SUFFICES ASSUME NEW s \in DOMAIN minted, minted[s].done = "ok", day < minted[s].day + Retention
             PROVE  \E f \in 0 .. MaxDay : \E i \in DOMAIN Lines(f) :
                      /\ Lines(f)[i] = s
                      /\ \A g \in 0 .. MaxDay : \A j \in DOMAIN Lines(g) : Lines(g)[j] = s => g = f /\ j = i
  BY DEF ReturnedIsKept
<1>1. Placed(logs, minted) /\ Kept(logs, minted, day)
  BY DEF AuditInv, FilesInv
<1>2. PICK f, i : At(logs, f, i) /\ LinesOf(logs, f)[i] = s
  BY <1>1 DEF Kept
<1>3. \A g, j : At(logs, g, j) /\ LinesOf(logs, g)[j] = s => g = f /\ j = i
  BY <1>1, <1>2 DEF Placed
<1>4. f \in 0 .. MaxDay /\ i \in DOMAIN Lines(f) /\ Lines(f)[i] = s
  BY <1>2, LinesAre DEF At
<1>5. \A g \in 0 .. MaxDay : \A j \in DOMAIN Lines(g) : Lines(g)[j] = s => g = f /\ j = i
  BY <1>3, LinesAre DEF At
<1> QED BY <1>4, <1>5

----------------------------------------------------------------------------
(* What the steps do to the history *)

\* The step chains no line, and changes no more of one than its day and its outcome.
Relabelled ==
    /\ minted' \in Seq(Line) /\ Len(minted') = Len(minted)
    /\ \A s \in DOMAIN minted :
         /\ minted'[s].prev = minted[s].prev /\ minted'[s].boot = minted[s].boot
         /\ minted'[s].seq = minted[s].seq /\ minted'[s].high = minted[s].high
         /\ minted'[s].prune = minted[s].prune

\* Record's write to the file sets the day and the outcome of one line
\* (file_rotator.go: Write).
LEMMA FileRelabels ==
  ASSUME TypeOK, NEW x \in DOMAIN minted, NEW d \in 0 .. MaxDay, NEW o \in {"ok", "error"},
         minted' = [minted EXCEPT ![x] = [minted[x] EXCEPT !.day = d, !.done = o]]
  PROVE  /\ Relabelled
         /\ \A s \in DOMAIN minted : s # x => minted'[s] = minted[s]
         /\ minted'[x].day = d /\ minted'[x].done = o
<1> DEFINE new == [minted[x] EXCEPT !.day = d, !.done = o]
<1>1. minted \in Seq(Line) /\ Len(minted) \in Nat /\ DOMAIN minted = 1 .. Len(minted)
  BY MintedSeq DEF TypeOK
<1>2. minted[x] \in Line
  BY MintedSeq
<1>3. /\ new \in Line /\ new.day = d /\ new.done = o
      /\ new.prev = minted[x].prev /\ new.boot = minted[x].boot /\ new.seq = minted[x].seq
      /\ new.high = minted[x].high /\ new.prune = minted[x].prune
  BY <1>2, Zenon DEF Line
<1> HIDE DEF new
<1>4. minted' = [minted EXCEPT ![x] = new]
  BY DEF new
<1>5. /\ minted' \in Seq(Line) /\ Len(minted') = Len(minted)
      /\ \A s \in DOMAIN minted : minted'[s] = IF s = x THEN new ELSE minted[s]
  BY <1>1, <1>3, <1>4
<1> QED BY <1>3, <1>5, Zenon DEF Relabelled

\* A step that leaves the history alone relabels it trivially.
LEMMA UnchangedRelabels ==
  ASSUME TypeOK, UNCHANGED minted
  PROVE  Relabelled
BY DEF Relabelled, TypeOK

\* Both outcomes of FileRotator.Write relabel the line of the call.
LEMMA WriteRelabels ==
  ASSUME TypeOK, CallsInv, NEW g \in Goroutines
  PROVE  /\ FileWrite(g) =>
              /\ Relabelled /\ rec[g].sig \in DOMAIN minted
              /\ \A s \in DOMAIN minted : s # rec[g].sig => minted'[s] = minted[s]
              /\ minted'[rec[g].sig].day = day /\ minted'[rec[g].sig].done = "ok"
         /\ FileWriteFails(g) =>
              /\ Relabelled /\ rec[g].sig \in DOMAIN minted
              /\ \A s \in DOMAIN minted : s # rec[g].sig => minted'[s] = minted[s]
              /\ minted'[rec[g].sig].day = minted[rec[g].sig].day /\ minted'[rec[g].sig].done = "error"
<1>1. rec[g].pc = "saved" => rec[g].sig \in DOMAIN minted
  BY DEF CallsInv, Recording
<1>2. day \in 0 .. MaxDay
  BY AuditConstants DEF TypeOK, Days
<1>3. ASSUME FileWrite(g)
      PROVE  minted' = [minted EXCEPT ![rec[g].sig] = [minted[rec[g].sig] EXCEPT !.day = day, !.done = "ok"]]
  BY <1>1, <1>3, MintedSeq, Zenon DEF FileWrite
<1>4. ASSUME FileWriteFails(g)
      PROVE  minted' = [minted EXCEPT ![rec[g].sig] =
                          [minted[rec[g].sig] EXCEPT !.day = minted[rec[g].sig].day, !.done = "error"]]
  <2>1. rec[g].sig \in DOMAIN minted /\ minted[rec[g].sig] \in Line
    BY <1>1, <1>4, MintedSeq DEF FileWriteFails
  <2>2. [minted[rec[g].sig] EXCEPT !.done = "error"]
          = [minted[rec[g].sig] EXCEPT !.day = minted[rec[g].sig].day, !.done = "error"]
    BY <2>1, Zenon DEF Line
  <2> QED BY <1>4, <2>2, Zenon DEF FileWriteFails
<1>5. FileWrite(g) => rec[g].sig \in DOMAIN minted
  BY <1>1 DEF FileWrite
<1>6. FileWriteFails(g) => rec[g].sig \in DOMAIN minted /\ minted[rec[g].sig].day \in 0 .. MaxDay
  BY <1>1, MintedSeq DEF FileWriteFails, Line
<1> QED BY <1>2, <1>3, <1>4, <1>5, <1>6, FileRelabels, ZenonT(60)

\* A loss of power marks lines as lost, of which none is synced or high-risk
\* (file_rotator.go: Write syncs the high-risk lines).
LEMMA PowerLossRelabels ==
  ASSUME TypeOK, PowerLoss
  PROVE  /\ Relabelled
         /\ \A s \in DOMAIN minted :
              /\ minted'[s].day = minted[s].day
              /\ minted'[s].done = IF minted[s].done = "ok" /\ s \notin logs.synced /\ ~minted[s].high
                                   THEN "lost" ELSE minted[s].done
<1>1. minted \in Seq(Line) /\ Len(minted) \in Nat /\ DOMAIN minted = 1 .. Len(minted)
  BY MintedSeq DEF TypeOK
<1>2. DOMAIN minted' = DOMAIN minted
  BY DEF PowerLoss
<1>3. ASSUME NEW s \in DOMAIN minted
      PROVE  /\ minted'[s] \in Line
             /\ minted'[s].prev = minted[s].prev /\ minted'[s].boot = minted[s].boot
             /\ minted'[s].seq = minted[s].seq /\ minted'[s].high = minted[s].high
             /\ minted'[s].prune = minted[s].prune /\ minted'[s].day = minted[s].day
             /\ minted'[s].done = IF minted[s].done = "ok" /\ s \notin logs.synced /\ ~minted[s].high
                                  THEN "lost" ELSE minted[s].done
  <2>1. minted[s] \in Line
    BY MintedSeq
  <2>2. minted'[s] = IF minted[s].done = "ok" /\ s \notin logs.synced /\ ~minted[s].high
                     THEN [minted[s] EXCEPT !.done = "lost"] ELSE minted[s]
    BY DEF PowerLoss
  <2> QED BY <2>1, <2>2 DEF Line
<1>4. minted' \in [1 .. Len(minted) -> Line]
  BY <1>1, <1>2, <1>3 DEF PowerLoss
<1>5. minted' \in Seq(Line) /\ Len(minted') = Len(minted)
  BY <1>1, <1>4
<1> QED BY <1>3, <1>5 DEF Relabelled

----------------------------------------------------------------------------
(* The files *)

\* What FileRotator.Write leaves behind (file_rotator.go: Write).
LEMMA FileWriteFields ==
  ASSUME TypeOK, CallsInv, NEW g \in Goroutines, FileWrite(g)
  PROVE  \E renamed \in BOOLEAN :
           LET rotated == IF day = logs.today THEN logs ELSE RotateLocked(renamed)
               cur     == Append(rotated.cur, rec[g].sig) IN
           /\ ~renamed => day # logs.today /\ faults < MaxFaults
           /\ faults' = IF renamed THEN faults ELSE faults + 1
           /\ rotated \in LogsType /\ cur \in Seq(Sigs)
           /\ logs' \in LogsType
           /\ logs'.cur = cur /\ logs'.exists /\ logs'.today = day /\ logs'.arch = rotated.arch
           /\ logs'.synced = IF minted[rec[g].sig].high THEN logs.synced \cup Range(cur) ELSE logs.synced
<1>1. logs \in LogsType /\ day \in Days
  BY DEF TypeOK, LogsType
<1>2. PICK renamed \in BOOLEAN :
         /\ ~renamed => day # logs.today /\ faults < MaxFaults
         /\ faults' = IF renamed THEN faults ELSE faults + 1
         /\ LET rotated == IF day = logs.today THEN logs ELSE RotateLocked(renamed)
                cur     == Append(rotated.cur, rec[g].sig) IN
            logs' = [rotated EXCEPT !.cur = cur, !.exists = TRUE, !.today = day,
                                    !.synced = IF minted[rec[g].sig].high THEN @ \cup Range(cur) ELSE @]
  BY Zenon DEF FileWrite
<1> DEFINE rotated == IF day = logs.today THEN logs ELSE RotateLocked(renamed)
           cur == Append(rotated.cur, rec[g].sig)
<1>3. rotated \in LogsType /\ rotated.synced = logs.synced
  BY <1>1, RotateLockedFields
<1>4. rec[g].sig \in Sigs
  BY MintedSeq DEF CallsInv, Recording, FileWrite
<1>5. logs' = [rotated EXCEPT !.cur = cur, !.exists = TRUE, !.today = day,
                              !.synced = IF minted[rec[g].sig].high THEN @ \cup Range(cur) ELSE @]
  BY <1>2
<1> HIDE DEF rotated
<1>6. cur \in Seq(Sigs)
  BY <1>3, <1>4 DEF LogsType
<1>7. Range(cur) \subseteq Sigs
  BY <1>6 DEF Range
<1> HIDE DEF cur
<1>8. logs' \in LogsType
  BY <1>1, <1>3, <1>5, <1>6, <1>7, Zenon DEF LogsType
<1>9. /\ logs'.cur = cur /\ logs'.exists /\ logs'.today = day /\ logs'.arch = rotated.arch
      /\ logs'.synced = IF minted[rec[g].sig].high THEN logs.synced \cup Range(cur) ELSE logs.synced
  BY <1>3, <1>5 DEF LogsType
<1> QED BY <1>2, <1>3, <1>6, <1>8, <1>9, Zenon DEF rotated, cur

\* The write of a line (file_rotator.go: Write).
LEMMA FileWriteKeeps ==
  ASSUME TypeOK, CallsInv, FilesInv, NEW g \in Goroutines, FileWrite(g)
  PROVE  FilesInv'
<1> DEFINE x == rec[g].sig
<1>1. PICK renamed \in BOOLEAN :
           LET rotated == IF day = logs.today THEN logs ELSE RotateLocked(renamed)
               cur     == Append(rotated.cur, x) IN
           /\ rotated \in LogsType /\ cur \in Seq(Sigs)
           /\ logs' \in LogsType
           /\ logs'.cur = cur /\ logs'.exists /\ logs'.today = day /\ logs'.arch = rotated.arch
           /\ logs'.synced = IF minted[x].high THEN logs.synced \cup Range(cur) ELSE logs.synced
  BY FileWriteFields, Zenon
<1> DEFINE R == IF day = logs.today THEN logs ELSE RotateLocked(renamed)
<1>2. /\ R \in LogsType /\ logs' \in LogsType
      /\ logs'.cur = Append(R.cur, x) /\ logs'.exists /\ logs'.today = day /\ logs'.arch = R.arch
      /\ logs'.synced = IF minted[x].high THEN logs.synced \cup Range(logs'.cur) ELSE logs.synced
  BY <1>1
<1>3. logs \in LogsType /\ R.synced = logs.synced /\ R.today = logs.today
  BY TypeNames, RotateLockedFields
<1>4. /\ day \in Days /\ day' = day /\ minted \in Seq(Line) /\ Days \subseteq Int
      /\ logs.today <= day /\ logs.today \in Days
  BY <1>3 DEF TypeOK, FilesInv, Calendar, FileWrite, Days, LogsType
<1>5. Placed(R, minted) /\ Kept(R, minted, day) /\ \A a \in Days : R.arch[a] # <<>> => a < day
  <2>1. CASE day = logs.today
    <3>1. logs.exists
      BY <1>4, <2>1 DEF FilesInv, Calendar
    <3> QED BY <2>1, <3>1 DEF FilesInv, Calendar
  <2>2. CASE day # logs.today
    <3>1. Placed(R, minted) /\ Kept(R, minted, day) /\ \A a \in Days : R.arch[a] # <<>> => a <= logs.today
      BY <2>2, RotationKeeps
    <3>2. day \in Int /\ logs.today \in Int /\ \A a \in Days : a \in Int
      BY <1>4, ZenonT(30)
    <3>3. logs.today < day
      BY <1>4, <2>2, <3>2
    <3> HIDE DEF R
    <3> QED BY <3>1, <3>2, <3>3
  <2> QED BY <2>1, <2>2
<1> HIDE DEF R
<1>6. /\ x \in DOMAIN minted /\ x \in Sigs /\ minted[x].done = "no"
  BY MintedSeq DEF FileWrite, CallsInv, Recording
<1>7. /\ Relabelled /\ \A s \in DOMAIN minted : s # x => minted'[s] = minted[s]
      /\ minted'[x].day = day /\ minted'[x].done = "ok"
  BY WriteRelabels
<1>8. DOMAIN minted' = DOMAIN minted /\ minted'[x].high = minted[x].high
  BY <1>6, <1>7, MintedSeq, SMTT(60) DEF Relabelled
<1> HIDE DEF x
<1>9. /\ logs'.synced = R.synced \/ logs'.synced = R.synced \cup Range(logs'.cur)
      /\ minted'[x].high => logs'.synced = R.synced \cup Range(logs'.cur)
      /\ R.today <= day
  BY <1>2, <1>3, <1>4, <1>8
<1>10. Placed(logs', minted') /\ Kept(logs', minted', day)
  <2>1. /\ R \in LogsType /\ logs' \in LogsType /\ minted \in Seq(Line) /\ DOMAIN minted' = DOMAIN minted
        /\ x \in DOMAIN minted /\ minted[x].done = "no" /\ day \in Days /\ R.today <= day
    BY <1>2, <1>4, <1>6, <1>8, <1>9
  <2>2. logs'.cur = Append(R.cur, x) /\ x \in Sigs /\ logs'.arch = R.arch /\ logs'.today = day
    BY <1>2, <1>6
  <2>3. /\ \A s \in DOMAIN minted : s # x => minted'[s] = minted[s]
        /\ minted'[x].done = "ok" /\ minted'[x].day = day
    BY <1>7
  <2>4. Placed(R, minted) /\ Kept(R, minted, day)
    BY <1>5
  <2> QED BY ONLY <1>9, <2>1, <2>2, <2>3, <2>4, AppendKeeps, Zenon
<1>11. Calendar(logs', day)
  BY <1>2, <1>4, <1>5 DEF Calendar
<1> QED BY <1>4, <1>10, <1>11 DEF FilesInv

\* What a failing FileRotator.Write leaves behind.
LEMMA FileWriteFailsFields ==
  ASSUME TypeOK, NEW g \in Goroutines, FileWriteFails(g), day # logs.today
  PROVE  /\ logs' \in LogsType /\ ~logs'.exists
         /\ logs'.cur = RotateLocked(TRUE).cur /\ logs'.arch = RotateLocked(TRUE).arch
         /\ logs'.today = logs.today /\ logs'.synced = logs.synced
<1>1. RotateLocked(TRUE) \in LogsType /\ RotateLocked(TRUE).today = logs.today /\ RotateLocked(TRUE).synced = logs.synced
  BY RotateLockedFields, Zenon DEF TypeOK, LogsType
<1>2. logs' = [RotateLocked(TRUE) EXCEPT !.exists = FALSE]
  BY DEF FileWriteFails
<1> QED BY <1>1, <1>2, Zenon DEF LogsType

\* A write that fails, with or without a rotation before it.
LEMMA FileWriteFailsKeeps ==
  ASSUME TypeOK, CallsInv, FilesInv, NEW g \in Goroutines, FileWriteFails(g)
  PROVE  FilesInv'
<1> DEFINE x == rec[g].sig
           R == IF day = logs.today THEN logs ELSE RotateLocked(TRUE)
<1>1. /\ day \in Days /\ day' = day /\ logs \in LogsType /\ Days \subseteq Int
      /\ logs.today <= day /\ logs.today \in Days
  BY TypeNames DEF FilesInv, Calendar, FileWriteFails, Days, LogsType
<1>2. Placed(R, minted) /\ Kept(R, minted, day)
  <2>1. CASE day = logs.today
    BY <2>1 DEF FilesInv
  <2>2. CASE day # logs.today
    BY <2>2, RotationKeeps, Zenon
  <2> QED BY <2>1, <2>2, Zenon
<1>3. x \in DOMAIN minted /\ minted[x].done = "no"
  BY DEF FileWriteFails, CallsInv, Recording
<1>4. /\ Relabelled /\ \A s \in DOMAIN minted : s # x => minted'[s] = minted[s]
      /\ minted'[x].done = "error"
  BY WriteRelabels
<1>5. DOMAIN minted' = DOMAIN minted
  BY <1>4, MintedSeq DEF Relabelled
<1> HIDE DEF x, R
<1>6. \A s \in DOMAIN minted : minted[s].done # "no" => minted'[s].done # "no" /\ minted'[s].day = minted[s].day
  BY <1>3, <1>4
<1>7. Placed(R, minted')
  BY <1>2, <1>5, <1>6, RelabelPlaced
<1>8. Kept(R, minted', day)
  BY <1>2, <1>4, <1>5 DEF Kept
<1>9. CASE day = logs.today
  <2>1. logs' = logs /\ R = logs
    BY <1>9 DEF FileWriteFails, R
  <2> QED BY <1>1, <1>7, <1>8, <2>1 DEF FilesInv
<1>10. CASE day # logs.today
  <2>1. /\ ~logs'.exists /\ logs'.cur = RotateLocked(TRUE).cur /\ logs'.arch = RotateLocked(TRUE).arch
        /\ logs'.today = logs.today /\ logs'.synced = logs.synced
    BY <1>10, FileWriteFailsFields, Zenon
  <2>2. /\ R = RotateLocked(TRUE) /\ R.today = logs.today /\ R.synced = logs.synced
    BY <1>1, <1>10, RotateLockedFields, Zenon DEF R
  <2>3. /\ R \in LogsType /\ logs' \in LogsType /\ minted' \in Seq(Line)
        /\ logs'.cur = R.cur /\ logs'.arch = R.arch /\ logs'.synced = R.synced /\ R.today <= logs'.today
    <3>1. R \in LogsType
      BY <1>1, <2>2, RotateLockedFields, Zenon
    <3>2. logs' \in LogsType
      BY <1>10, FileWriteFailsFields, Zenon
    <3>3. minted' \in Seq(Line)
      BY <1>4 DEF Relabelled
    <3>4. R.today <= logs'.today
      <4>1. logs.today \in Int /\ R.today = logs.today /\ logs'.today = logs.today
        BY <1>1, <2>1, <2>2, Zenon
      <4> QED BY <4>1
    <3> QED BY <2>1, <2>2, <3>1, <3>2, <3>3, <3>4, Zenon
  <2>4. Placed(logs', minted') /\ Kept(logs', minted', day)
    BY ONLY <1>7, <1>8, <2>3, SameLines
  <2>5. \A a \in Days : R.arch[a] # <<>> => a <= logs.today
    BY <1>10, <2>2, RotationKeeps, Zenon
  <2>6. R.cur = <<>>
    BY <1>1, <2>2, RotateLockedFields, Zenon DEF FilesInv, Calendar
  <2>7. Calendar(logs', day)
    <3>1. day \in Int /\ logs.today \in Int /\ \A a \in Days : a \in Int
      BY <1>1, Zenon
    <3>2. logs.today < day
      BY <1>1, <1>10, <3>1
    <3>3. logs'.today = logs.today /\ ~logs'.exists /\ logs'.cur = <<>> /\ logs'.arch = R.arch
      BY <2>1, <2>2, <2>6, Zenon
    <3>4. \A a \in Days : logs'.arch[a] # <<>> => a < logs'.today \/ a = logs'.today
      BY <2>5, <3>1, <3>3
    <3> QED BY <3>1, <3>2, <3>3, <3>4 DEF Calendar
  <2> QED BY <1>1, <2>4, <2>7 DEF FilesInv
<1> QED BY <1>9, <1>10

\* The effect of pruning on the calls and on the files (file_rotator.go:
\* pruneOldFiles): archives of unexpired days stay.
LEMMA PruneFields ==
  ASSUME TypeOK, Prune
  PROVE  /\ rec' \in [Goroutines -> CallType] /\ logs' \in LogsType
         /\ rec[Pruner].pc = "idle" /\ rec'[Pruner].pc = "pruned" /\ rec'[Pruner].fd = rec[Pruner].fd
         /\ \A h \in Goroutines : h # Pruner => rec'[h] = rec[h]
         /\ logs'.cur = logs.cur /\ logs'.exists = logs.exists /\ logs'.today = logs.today
         /\ logs'.synced = logs.synced
         /\ \A d \in Days : \/ logs'.arch[d] = logs.arch[d]
                            \/ logs'.arch[d] = <<>> /\ Expired(d)
<1>1. rec \in [Goroutines -> CallType] /\ logs \in LogsType /\ Pruner \in Goroutines
  BY TypeNames DEF Goroutines
<1> DEFINE r == [rec[Pruner] EXCEPT !.pc = "pruned"]
           old == {d \in Days : Expired(d) /\ logs.arch[d] # <<>>}
           a == [d \in Days |-> IF d \in old THEN <<>> ELSE logs.arch[d]]
<1>2. r \in CallType /\ r.pc = "pruned" /\ r.fd = rec[Pruner].fd
  BY <1>1 DEF CallType
<1>3. rec' = [rec EXCEPT ![Pruner] = r]
  BY <1>1 DEF Prune, CallType
<1>4. logs' = [logs EXCEPT !.arch = a]
  BY <1>1 DEF Prune, LogsType
<1> HIDE DEF r
<1>5. rec' \in [Goroutines -> CallType] /\ rec'[Pruner] = r /\ \A h \in Goroutines : h # Pruner => rec'[h] = rec[h]
  BY <1>1, <1>2, <1>3
<1>6. a \in [Days -> Seq(Sigs)] /\ \A d \in Days : a[d] = logs.arch[d] \/ (a[d] = <<>> /\ Expired(d))
  <2>1. \A d \in Days : logs.arch[d] \in Seq(Sigs)
    BY <1>1 DEF LogsType
  <2>2. <<>> \in Seq(Sigs)
    OBVIOUS
  <2> QED BY <2>1, <2>2
<1> HIDE DEF a
<1>7. /\ logs' \in LogsType /\ logs'.cur = logs.cur /\ logs'.exists = logs.exists
      /\ logs'.today = logs.today /\ logs'.synced = logs.synced /\ logs'.arch = a
  BY <1>1, <1>4, <1>6, Zenon DEF LogsType
<1>8. rec[Pruner].pc = "idle"
  BY DEF Prune
<1> QED BY <1>2, <1>5, <1>6, <1>7, <1>8

\* Pruning takes no line before its archive has expired (file_rotator.go:
\* pruneOldFiles).
LEMMA PruneKeeps ==
  ASSUME TypeOK, FilesInv, Prune
  PROVE  FilesInv'
<1>1. /\ logs \in LogsType /\ logs' \in LogsType /\ minted' = minted /\ day' = day
      /\ logs'.cur = logs.cur /\ logs'.exists = logs.exists /\ logs'.today = logs.today
      /\ logs'.synced = logs.synced
      /\ \A d \in Days : logs'.arch[d] = logs.arch[d] \/ (logs'.arch[d] = <<>> /\ Expired(d))
  BY TypeNames, PruneFields DEF Prune
<1>2. /\ day \in Int /\ Retention \in Int /\ minted \in Seq(Line)
      /\ \A f \in 0 .. MaxDay : f \in Int /\ (f # 0 => f \in Days)
  BY AuditConstants DEF TypeOK, Days
<1> DEFINE from == [f \in 0 .. MaxDay |-> f]
<1>3. from \in [0 .. MaxDay -> 0 .. MaxDay] /\ \A f \in 0 .. MaxDay : from[f] = f
  OBVIOUS
<1> HIDE DEF from
<1>4. ASSUME NEW f \in 0 .. MaxDay
      PROVE  LinesOf(logs', f) = LinesOf(logs, f) \/ (LinesOf(logs', f) = <<>> /\ f # 0 /\ Expired(f))
  BY <1>1, <1>2 DEF LinesOf
<1>5. ASSUME NEW f, NEW i, At(logs', f, i)
      PROVE  /\ At(logs, from[f], i) /\ LinesOf(logs', f)[i] = LinesOf(logs, from[f])[i]
             /\ (IF from[f] = 0 THEN logs.today ELSE from[f]) <= (IF f = 0 THEN logs'.today ELSE f)
             /\ from[f] = f
  <2>1. f \in 0 .. MaxDay /\ from[f] = f /\ f \in Int /\ logs.today \in Int
    BY <1>1, <1>3, <1>5, DayTypes DEF At
  <2>2. LinesOf(logs', f) = LinesOf(logs, f)
    BY <1>4, <1>5, <2>1 DEF At
  <2> QED BY <1>1, <1>5, <2>1, <2>2 DEF At
<1>6. Placed(logs', minted)
  <2>1. \A f, i : At(logs', f, i) =>
           /\ At(logs, from[f], i) /\ LinesOf(logs', f)[i] = LinesOf(logs, from[f])[i]
           /\ (IF from[f] = 0 THEN logs.today ELSE from[f]) <= (IF f = 0 THEN logs'.today ELSE f)
    BY <1>5
  <2>2. \A f, g, i, j : At(logs', f, i) /\ At(logs', g, j) /\ from[f] = from[g] => f = g
    BY <1>5
  <2>3. Placed(logs, minted)
    BY DEF FilesInv
  <2> QED BY ONLY <1>1, <1>2, <1>3, <2>1, <2>2, <2>3, MovedPlaced, Zenon
<1>7. ASSUME NEW s \in DOMAIN minted, minted[s].done = "ok"
      PROVE  /\ minted[s].high => s \in logs'.synced
             /\ day < minted[s].day + Retention => \E f, i : At(logs', f, i) /\ LinesOf(logs', f)[i] = s
  <2>1. /\ minted[s].high => s \in logs.synced
        /\ day < minted[s].day + Retention => \E f, i : At(logs, f, i) /\ LinesOf(logs, f)[i] = s
    BY <1>7, Zenon DEF FilesInv, Kept
  <2>2. ASSUME day < minted[s].day + Retention
        PROVE  \E f, i : At(logs', f, i) /\ LinesOf(logs', f)[i] = s
    <3>1. PICK f, i : At(logs, f, i) /\ LinesOf(logs, f)[i] = s
      BY <2>1, <2>2
    <3>2. f \in 0 .. MaxDay /\ f \in Int
      BY <1>2, <3>1 DEF At
    <3>3. minted[s].day <= IF f = 0 THEN logs.today ELSE f
      BY <3>1 DEF FilesInv, Placed
    <3>4. minted[s].day \in Int
      BY LineDays
    <3>5. ~(f # 0 /\ Expired(f))
      BY <1>2, <2>2, <3>2, <3>3, <3>4 DEF Expired
    <3>6. LinesOf(logs', f) = LinesOf(logs, f)
      BY <1>4, <3>2, <3>5
    <3> QED BY <3>1, <3>6 DEF At
  <2> QED BY <1>1, <2>1, <2>2
<1>8. Kept(logs', minted, day)
  BY <1>7 DEF Kept
<1>9. Calendar(logs', day)
  <2>1. Calendar(logs, day)
    BY DEF FilesInv
  <2> QED BY <1>1, <2>1 DEF Calendar
<1> QED BY <1>1, <1>6, <1>8, <1>9 DEF FilesInv

\* The effect of a loss of power on files and anchor.
LEMMA PowerLossFields ==
  ASSUME TypeOK, Finiteness, PowerLoss
  PROVE  /\ anchor' \in AnchorType /\ ~anchor'.alone
         /\ anchor'.file = anchor.file /\ anchor'.tmp = anchor.tmp
         /\ logs' \in LogsType
         /\ logs'.exists = logs.exists /\ logs'.today = logs.today /\ logs'.synced = logs.synced
         /\ logs'.cur = Synced(logs.cur) /\ \A d \in Days : logs'.arch[d] = Synced(logs.arch[d])
<1>1. anchor \in AnchorType /\ logs \in LogsType /\ 0 \in -MaxBoots .. MaxLines
  BY TypeNames, SmallTypes, Zenon
<1>2. PICK kept \in BOOLEAN : anchor' = [anchor EXCEPT !.alone = FALSE, !.content[anchor.file] = IF kept THEN @ ELSE Empty]
  BY Zenon DEF PowerLoss
<1> DEFINE c == [anchor.content EXCEPT ![anchor.file] = IF kept THEN @ ELSE 0]
           a == [d \in Days |-> Synced(logs.arch[d])]
<1>3. c \in [Inodes -> -MaxBoots .. MaxLines]
  BY <1>1 DEF AnchorType
<1>4. anchor' = [anchor EXCEPT !.alone = FALSE, !.content = c]
  BY <1>1, <1>2 DEF AnchorType, Empty
<1>5. Synced(logs.cur) \in Seq(Sigs) /\ \A d \in Days : Synced(logs.arch[d]) \in Seq(Sigs)
  BY <1>1 DEF LogsType, Finiteness
<1>6. logs' = [logs EXCEPT !.cur = Synced(logs.cur), !.arch = a]
  BY <1>1 DEF PowerLoss, LogsType
<1>7. a \in [Days -> Seq(Sigs)] /\ \A d \in Days : a[d] = Synced(logs.arch[d])
  BY <1>5
<1> HIDE DEF c, a
<1>8. /\ anchor' \in AnchorType /\ ~anchor'.alone
      /\ anchor'.file = anchor.file /\ anchor'.tmp = anchor.tmp
  BY <1>1, <1>3, <1>4, Zenon DEF AnchorType
<1>9. /\ logs' \in LogsType
      /\ logs'.exists = logs.exists /\ logs'.today = logs.today /\ logs'.synced = logs.synced
      /\ logs'.cur = Synced(logs.cur) /\ logs'.arch = a
  BY <1>1, <1>5, <1>6, <1>7, ZenonT(30) DEF LogsType
<1> QED BY <1>7, <1>8, <1>9

\* A loss of power takes no line that is still said to be kept (file_rotator.go: Write).
LEMMA PowerLossKeeps ==
  ASSUME TypeOK, Finiteness, FilesInv, PowerLoss
  PROVE  FilesInv'
<1>1. /\ logs \in LogsType /\ logs' \in LogsType /\ day' = day
      /\ logs'.exists = logs.exists /\ logs'.today = logs.today /\ logs'.synced = logs.synced
      /\ logs'.cur = Synced(logs.cur) /\ \A d \in Days : logs'.arch[d] = Synced(logs.arch[d])
  BY TypeNames, PowerLossFields, Zenon DEF PowerLoss, Stop
<1>2. /\ minted \in Seq(Line) /\ \A f \in 0 .. MaxDay : f \in Int /\ (f # 0 => f \in Days)
  BY AuditConstants DEF TypeOK, Days
<1>3. /\ Relabelled
      /\ \A s \in DOMAIN minted :
           /\ minted'[s].day = minted[s].day
           /\ minted'[s].done = IF minted[s].done = "ok" /\ s \notin logs.synced /\ ~minted[s].high
                                THEN "lost" ELSE minted[s].done
  BY PowerLossRelabels
<1>4. DOMAIN minted' = DOMAIN minted /\ \A s \in DOMAIN minted : minted'[s].high = minted[s].high
  BY <1>3, MintedSeq DEF Relabelled
<1>5. ASSUME NEW f \in 0 .. MaxDay
      PROVE  /\ \A i : At(logs', f, i) => At(logs, f, i) /\ LinesOf(logs', f)[i] = LinesOf(logs, f)[i]
             /\ \A i : At(logs, f, i) /\ LinesOf(logs, f)[i] \in logs.synced =>
                  At(logs', f, i) /\ LinesOf(logs', f)[i] = LinesOf(logs, f)[i]
             /\ LinesOf(logs, f) = <<>> => LinesOf(logs', f) = <<>>
  <2> DEFINE p == LinesOf(logs, f)
             q == LinesOf(logs', f)
  <2>1. p \in Seq(Sigs) /\ DOMAIN p = 1 .. Len(p) /\ Len(p) \in Nat
    BY <1>1, FileTypes
  <2>2. q = Synced(p)
    BY <1>1, <1>2 DEF LinesOf
  <2> HIDE DEF p, q
  <2>3. /\ q \in Seq(Sigs) /\ Len(q) <= Len(p)
        /\ \A i \in 1 .. Len(q) : q[i] = p[i]
        /\ \A i \in 1 .. Len(p) : p[i] \in logs.synced => i \in 1 .. Len(q)
    BY <2>1, <2>2 DEF Finiteness
  <2>4. DOMAIN q = 1 .. Len(q) /\ Len(q) \in Nat
    BY <2>3
  <2>5. \A i \in DOMAIN q : i \in DOMAIN p /\ q[i] = p[i]
    BY <2>1, <2>3, <2>4
  <2>6. \A i \in DOMAIN p : p[i] \in logs.synced => i \in DOMAIN q /\ q[i] = p[i]
    BY <2>1, <2>3, <2>4
  <2>7. p = <<>> => q = <<>>
    BY <2>1, <2>3, <2>4
  <2> QED BY <2>5, <2>6, <2>7 DEF At, p, q
<1> DEFINE from == [f \in 0 .. MaxDay |-> f]
<1>6. from \in [0 .. MaxDay -> 0 .. MaxDay] /\ \A f \in 0 .. MaxDay : from[f] = f
  OBVIOUS
<1> HIDE DEF from
<1>7. ASSUME NEW f, NEW i, At(logs', f, i)
      PROVE  /\ At(logs, from[f], i) /\ LinesOf(logs', f)[i] = LinesOf(logs, from[f])[i]
             /\ (IF from[f] = 0 THEN logs.today ELSE from[f]) <= (IF f = 0 THEN logs'.today ELSE f)
             /\ from[f] = f
  <2>1. f \in 0 .. MaxDay /\ from[f] = f /\ f \in Int /\ logs.today \in Int
    BY <1>1, <1>6, <1>7, DayTypes DEF At
  <2>2. At(logs, f, i) /\ LinesOf(logs', f)[i] = LinesOf(logs, f)[i]
    BY <1>5, <1>7, <2>1
  <2> QED BY <1>1, <2>1, <2>2
<1>8. Placed(logs', minted)
  <2>1. \A f, i : At(logs', f, i) =>
           /\ At(logs, from[f], i) /\ LinesOf(logs', f)[i] = LinesOf(logs, from[f])[i]
           /\ (IF from[f] = 0 THEN logs.today ELSE from[f]) <= (IF f = 0 THEN logs'.today ELSE f)
    BY <1>7
  <2>2. \A f, g, i, j : At(logs', f, i) /\ At(logs', g, j) /\ from[f] = from[g] => f = g
    BY <1>7
  <2>3. Placed(logs, minted)
    BY DEF FilesInv
  <2> QED BY ONLY <1>1, <1>2, <1>6, <2>1, <2>2, <2>3, MovedPlaced, Zenon
<1>9. Placed(logs', minted')
  <2>1. \A s \in DOMAIN minted : minted[s].done # "no" => minted'[s].done # "no" /\ minted'[s].day = minted[s].day
    BY <1>3
  <2> QED BY <1>4, <1>8, <2>1, RelabelPlaced
<1>10. ASSUME NEW s \in DOMAIN minted', minted'[s].done = "ok"
       PROVE  /\ minted'[s].high => s \in logs'.synced
              /\ day < minted'[s].day + Retention => \E f, i : At(logs', f, i) /\ LinesOf(logs', f)[i] = s
  <2>1. s \in DOMAIN minted /\ minted[s].done = "ok" /\ (s \in logs.synced \/ minted[s].high)
    BY <1>3, <1>4, <1>10
  <2>2. /\ minted[s].high => s \in logs.synced
        /\ day < minted[s].day + Retention => \E f, i : At(logs, f, i) /\ LinesOf(logs, f)[i] = s
    BY <2>1 DEF FilesInv, Kept
  <2>3. s \in logs.synced
    BY <2>1, <2>2
  <2>4. ASSUME day < minted[s].day + Retention
        PROVE  \E f, i : At(logs', f, i) /\ LinesOf(logs', f)[i] = s
    <3>1. PICK f, i : At(logs, f, i) /\ LinesOf(logs, f)[i] = s
      BY <2>2, <2>4
    <3>2. f \in 0 .. MaxDay
      BY <3>1 DEF At
    <3> QED BY <1>5, <2>3, <3>1, <3>2
  <2> QED BY <1>1, <1>3, <2>1, <2>3, <2>4
<1>11. Kept(logs', minted', day)
  BY <1>10 DEF Kept
<1>12. Calendar(logs', day)
  <2>1. Calendar(logs, day)
    BY DEF FilesInv
  <2>2. logs.cur = <<>> => logs'.cur = <<>>
    <3>1. 0 \in 0 .. MaxDay
      BY AuditConstants
    <3> QED BY <1>5, <3>1 DEF LinesOf
  <2>3. \A a \in Days : logs.arch[a] = <<>> => logs'.arch[a] = <<>>
    <3>1. \A a \in Days : a \in 0 .. MaxDay /\ a # 0
      BY AuditConstants DEF Days
    <3> QED BY <1>5, <3>1 DEF LinesOf
  <2> QED BY <1>1, <2>1, <2>2, <2>3 DEF Calendar
<1> QED BY <1>1, <1>9, <1>11, <1>12 DEF FilesInv

\* What chaining a line does: one line more, linked to the last signature
\* (logger.go: computeAndAdvance).
LEMMA ChainAppends ==
  ASSUME TypeOK, ChainInv, NEW g \in Goroutines, Chain(g)
  PROVE  /\ minted' \in Seq(Line) /\ Len(minted') = Len(minted) + 1 /\ Len(minted') \in Sigs
         /\ DOMAIN minted' = DOMAIN minted \cup {Len(minted')}
         /\ \A s \in DOMAIN minted : s < Len(minted') /\ minted'[s] = minted[s]
         /\ minted'[Len(minted')].prev = proc.last /\ minted'[Len(minted')].boot = proc.boot
         /\ minted'[Len(minted')].seq = IF g = Pruner THEN 1 ELSE proc.seq + 1
         /\ minted'[Len(minted')].prune <=> g = Pruner
         /\ minted'[Len(minted')].day = 0 /\ minted'[Len(minted')].done = "no"
         /\ proc' = [up |-> TRUE, boot |-> proc.boot, last |-> Len(minted'),
                     seq |-> IF g = Pruner THEN proc.seq ELSE proc.seq + 1]
         /\ proc'.up /\ proc'.boot = proc.boot /\ proc'.last = Len(minted')
         /\ proc'.seq = IF g = Pruner THEN proc.seq ELSE proc.seq + 1
<1> DEFINE line == [prev |-> proc.last, boot |-> proc.boot,
                seq |-> IF g = Pruner THEN 1 ELSE proc.seq + 1, high |-> g \in HighRisk \cup {Pruner},
                prune |-> g = Pruner, day |-> 0, done |-> "no"]
<1>1. minted \in Seq(Line) /\ Len(minted) \in Nat /\ Len(minted) < MaxLines /\ DOMAIN minted = 1 .. Len(minted)
  BY MintedSeq DEF TypeOK, Chain
<1>2. proc \in [up : BOOLEAN, boot : 1 .. MaxBoots, last : -MaxBoots .. MaxLines, seq : 0 .. MaxLines] /\ proc.up
  BY DEF TypeOK, Chain
<1>3. proc.seq <= Len(minted)
  BY DEF ChainInv
<1>4. line \in Line
  <2>1. (IF g = Pruner THEN 1 ELSE proc.seq + 1) \in Sigs
    BY <1>1, <1>2, <1>3, AuditConstants DEF Sigs
  <2>2. 0 \in 0 .. MaxDay
    BY AuditConstants
  <2> QED BY <1>2, <2>1, <2>2 DEF Line
<1>5. /\ minted' = Append(minted, line)
      /\ proc' = [proc EXCEPT !.last = Len(minted'), !.seq = IF g = Pruner THEN @ ELSE @ + 1]
  <2> DEFINE old == [prev |-> 0, boot |-> proc.boot,
                seq |-> IF g = Pruner THEN 1 ELSE proc.seq + 1, high |-> g \in HighRisk \cup {Pruner},
                prune |-> g = Pruner, day |-> 0, done |-> "no"]
  <2>1. /\ minted' = Append(minted, [old EXCEPT !.prev = proc.last])
        /\ proc' = [proc EXCEPT !.last = Len(minted'), !.seq = IF old.prune THEN @ ELSE @ + 1]
    BY Zenon DEF Chain, computeAndAdvance
  <2>2. old.prune <=> g = Pruner
    BY Zenon
  <2>3. [old EXCEPT !.prev = proc.last] = line
    OBVIOUS
  <2> HIDE DEF old, line
  <2> QED BY <2>1, <2>2, <2>3, Zenon
<1>6. /\ line.prev = proc.last /\ line.boot = proc.boot /\ line.day = 0 /\ line.done = "no"
      /\ line.seq = IF g = Pruner THEN 1 ELSE proc.seq + 1
      /\ line.prune <=> g = Pruner
  BY Zenon
<1> HIDE DEF line
<1>7. /\ minted' \in Seq(Line) /\ Len(minted') = Len(minted) + 1
      /\ \A s \in 1 .. Len(minted) : minted'[s] = minted[s]
      /\ minted'[Len(minted) + 1] = line
  BY <1>1, <1>4, <1>5
<1>8. DOMAIN minted' = 1 .. Len(minted) + 1
  BY <1>7
<1>9. Len(minted') \in Sigs /\ DOMAIN minted' = DOMAIN minted \cup {Len(minted')}
  BY <1>1, <1>7, <1>8, AuditConstants DEF Sigs
<1>10. proc' = [up |-> TRUE, boot |-> proc.boot, last |-> Len(minted'),
                     seq |-> IF g = Pruner THEN proc.seq ELSE proc.seq + 1]
  BY <1>2, <1>5, Zenon
<1>11. \A s \in DOMAIN minted : s < Len(minted') /\ minted'[s] = minted[s]
  BY <1>1, <1>7
<1>12. minted'[Len(minted')] = line
  BY <1>7
<1>13. /\ proc'.up /\ proc'.boot = proc.boot /\ proc'.last = Len(minted')
       /\ proc'.seq = IF g = Pruner THEN proc.seq ELSE proc.seq + 1
  BY <1>10
<1> QED BY <1>6, <1>7, <1>9, <1>10, <1>11, <1>12, <1>13

\* No step loses or doubles a line of the files.
LEMMA FilesStep ==
  ASSUME TypeOK, Finiteness, ChainInv, CallsInv, FilesInv, [Next]_vars
  PROVE  FilesInv'
<1>1. /\ logs \in LogsType /\ minted \in Seq(Line) /\ day \in Days /\ logs.today \in Days /\ Days \subseteq Int
  <2>1. logs \in LogsType /\ day \in Days
    BY TypeNames
  <2>2. minted \in Seq(Line)
    BY DEF TypeOK
  <2>3. logs.today \in Days
    BY <2>1 DEF LogsType
  <2>4. Days \subseteq Int
    BY AuditConstants DEF Days
  <2> QED BY <2>1, <2>2, <2>3, <2>4
<1>2. Placed(logs, minted) /\ Kept(logs, minted, day) /\ Calendar(logs, day)
  BY DEF FilesInv
<1>3. ASSUME UNCHANGED <<minted, logs, day>> PROVE FilesInv'
  BY <1>2, <1>3 DEF FilesInv
<1>4. ASSUME NEW g \in Goroutines, Chain(g) PROVE FilesInv'
  <2>1. UNCHANGED <<logs, day>>
    BY <1>4 DEF Chain
  <2> DEFINE n == Len(minted')
  <2>2. /\ DOMAIN minted' = DOMAIN minted \cup {n} /\ minted'[n].done = "no"
        /\ \A s \in DOMAIN minted : minted'[s] = minted[s]
    BY <1>4, ChainAppends, ZenonT(30)
  <2> HIDE DEF n
  <2>3. Placed(logs, minted')
    <3>1. ASSUME NEW f, NEW i, At(logs, f, i)
          PROVE  /\ LinesOf(logs, f)[i] \in DOMAIN minted' /\ minted'[LinesOf(logs, f)[i]].done # "no"
                 /\ minted'[LinesOf(logs, f)[i]].day <= IF f = 0 THEN logs.today ELSE f
      <4>1. /\ LinesOf(logs, f)[i] \in DOMAIN minted /\ minted[LinesOf(logs, f)[i]].done # "no"
            /\ minted[LinesOf(logs, f)[i]].day <= IF f = 0 THEN logs.today ELSE f
        BY <1>2, <3>1, ZenonT(30) DEF Placed
      <4> QED BY <2>2, <4>1
    <3>2. \A s \in logs.synced : s \in DOMAIN minted' /\ minted'[s].done # "no"
      BY <1>2, <2>2 DEF Placed
    <3> QED BY <1>2, <3>1, <3>2, Zenon DEF Placed
  <2>4. Kept(logs, minted', day)
    <3>1. ASSUME NEW s \in DOMAIN minted', minted'[s].done = "ok"
          PROVE  s \in DOMAIN minted /\ minted'[s] = minted[s]
      BY <2>2, <3>1
    <3> QED BY <1>2, <3>1 DEF Kept
  <2> QED BY <1>2, <2>1, <2>3, <2>4 DEF FilesInv
<1>5. ASSUME NEW g \in Goroutines,
             AnchorOpen(g) \/ AnchorWrite(g) \/ AnchorWriteFails(g) \/ AnchorRename(g)
      PROVE  FilesInv'
  BY <1>3, <1>5 DEF AnchorOpen, AnchorWrite, AnchorWriteFails, AnchorRename
<1>6. ASSUME SyslogTake \/ SyslogDone \/ Close \/ Crash \/ UNCHANGED vars PROVE FilesInv'
  BY <1>3, <1>6 DEF SyslogTake, SyslogDone, Close, Crash, Stop, vars
<1>7. ASSUME NextDay PROVE FilesInv'
  <2>1. UNCHANGED <<minted, logs>> /\ day' = day + 1
    BY <1>7 DEF NextDay
  <2>2. /\ day \in Int /\ logs.today \in Int
        /\ Retention \in Int
    <3>1. day \in Int /\ logs.today \in Int
      BY <1>1, Zenon
    <3>2. Retention \in Int
      BY AuditConstants
    <3> QED BY <3>1, <3>2
  <2>3. \A s \in DOMAIN minted : minted[s].day \in Int
    BY LineDays
  <2>4. Kept(logs, minted, day + 1)
    <3>1. \A s \in DOMAIN minted : day + 1 < minted[s].day + Retention => day < minted[s].day + Retention
      BY <2>2, <2>3
    <3> QED BY <1>2, <3>1 DEF Kept
  <2>5. Calendar(logs, day + 1)
    BY <1>2, <2>2 DEF Calendar
  <2> QED BY <1>2, <2>1, <2>4, <2>5 DEF FilesInv
<1>8. ASSUME Start PROVE FilesInv'
  <2>1. UNCHANGED <<minted, day>> /\ logs' = [logs EXCEPT !.exists = TRUE, !.today = day]
    BY <1>8 DEF Start, openCurrent
  <2>2. /\ logs' \in LogsType /\ logs'.cur = logs.cur /\ logs'.arch = logs.arch /\ logs'.synced = logs.synced
        /\ logs'.exists /\ logs'.today = day
    BY <1>1, <2>1, Zenon DEF LogsType
  <2>3. logs.today <= day /\ day \in Int /\ logs.today \in Int /\ \A a \in Days : a \in Int
    BY <1>1, <1>2, Zenon DEF Calendar
  <2>4. Placed(logs', minted) /\ Kept(logs', minted, day)
    <3>1. logs \in LogsType /\ minted \in Seq(Line) /\ logs.today <= logs'.today
      BY <1>1, <2>2, <2>3
    <3> QED BY ONLY <1>2, <2>2, <3>1, SameLines
  <2>5. \A a \in Days : logs.arch[a] # <<>> => a < day
    BY <1>2, <2>3 DEF Calendar
  <2>6. Calendar(logs', day)
    BY <2>2, <2>3, <2>5 DEF Calendar
  <2> QED BY <2>1, <2>4, <2>6 DEF FilesInv
<1> QED BY <1>4, <1>5, <1>6, <1>7, <1>8, FileWriteKeeps, FileWriteFailsKeeps, PruneKeeps, PowerLossKeeps
        DEF Next

----------------------------------------------------------------------------
(* Types *)

\* The effect of chaining on the calls and the anchor.
LEMMA ChainFields ==
  ASSUME TypeOK, ChainInv, NEW g \in Goroutines, Chain(g)
  PROVE  /\ rec' \in [Goroutines -> CallType] /\ anchor' \in AnchorType
         /\ rec[g].pc \in {"idle", "pruned"}
         /\ rec'[g].pc = "chained" /\ rec'[g].sig = Len(minted') /\ rec'[g].fd = 0
         /\ \A h \in Goroutines : h # g => rec'[h] = rec[h]
         /\ anchor'.file = anchor.file /\ anchor'.tmp = anchor.tmp /\ anchor'.content = anchor.content
         /\ anchor'.alone <=> Saving = {}
<1>1. rec \in [Goroutines -> CallType] /\ anchor \in AnchorType
  BY TypeNames
<1>2. Len(minted') \in 0 .. MaxLines
  BY ChainAppends, SmallTypes, Zenon
<1> DEFINE r == [Idle EXCEPT !.pc = "chained", !.sig = Len(minted')]
<1>3. r \in CallType /\ r.pc = "chained" /\ r.sig = Len(minted') /\ r.fd = 0
  BY <1>2, SmallTypes, Zenon
<1>4. rec' = [rec EXCEPT ![g] = r]
  BY DEF Chain
<1> HIDE DEF r
<1>5. rec' \in [Goroutines -> CallType] /\ rec'[g] = r /\ \A h \in Goroutines : h # g => rec'[h] = rec[h]
  BY <1>1, <1>3, <1>4
<1>6. anchor' = [anchor EXCEPT !.alone = Saving = {}]
  BY DEF Chain
<1>7. /\ anchor' \in AnchorType
      /\ anchor'.file = anchor.file /\ anchor'.tmp = anchor.tmp /\ anchor'.content = anchor.content
      /\ anchor'.alone <=> Saving = {}
  BY <1>1, <1>6, Zenon DEF AnchorType
<1>8. rec[g].pc \in {"idle", "pruned"}
  BY DEF Chain
<1> QED BY <1>3, <1>5, <1>7, <1>8

\* The effect of the truncating open: the temporary file is empty and has a descriptor.
LEMMA AnchorOpenFields ==
  ASSUME TypeOK, Finiteness, NEW g \in Goroutines, AnchorOpen(g)
  PROVE  \E i \in Inodes \ {0} :
           /\ rec' \in [Goroutines -> CallType] /\ anchor' \in AnchorType
           /\ anchor.tmp # 0 => i = anchor.tmp
           /\ anchor.tmp = 0 => i # anchor.file /\ \A h \in Goroutines : rec[h].fd # i
           /\ rec'[g].pc = "opened" /\ rec'[g].sig = rec[g].sig /\ rec'[g].read = proc.last /\ rec'[g].fd = i
           /\ \A h \in Goroutines : h # g => rec'[h] = rec[h]
           /\ anchor'.file = anchor.file /\ anchor'.tmp = i /\ anchor'.alone = anchor.alone
           /\ anchor'.content[i] = 0 /\ \A j \in Inodes : j # i => anchor'.content[j] = anchor.content[j]
<1>1. rec \in [Goroutines -> CallType] /\ anchor \in AnchorType /\ proc.last \in -MaxBoots .. MaxLines
      /\ 0 \in -MaxBoots .. MaxLines
  BY TypeNames, SmallTypes, Zenon
<1> DEFINE i == IF anchor.tmp = 0 THEN FreeInode ELSE anchor.tmp
<1>2. /\ i \in Inodes \ {0}
      /\ anchor.tmp # 0 => i = anchor.tmp
      /\ anchor.tmp = 0 => i # anchor.file /\ \A h \in Goroutines : rec[h].fd # i
  <2>1. CASE anchor.tmp = 0
    BY <2>1 DEF Finiteness
  <2>2. CASE anchor.tmp # 0
    BY <1>1, <2>2 DEF AnchorType
  <2> QED BY <2>1, <2>2
<1>3. /\ anchor' = [anchor EXCEPT !.tmp = i, !.content[i] = Empty]
      /\ rec' = [rec EXCEPT ![g].pc = "opened", ![g].read = proc.last, ![g].fd = i]
  BY DEF AnchorOpen, LastSignatureHex
<1> HIDE DEF i
<1> DEFINE r == [rec[g] EXCEPT !.pc = "opened", !.read = proc.last, !.fd = i]
           c == [anchor.content EXCEPT ![i] = 0]
<1>4. r \in CallType /\ r.pc = "opened" /\ r.sig = rec[g].sig /\ r.read = proc.last /\ r.fd = i
  BY <1>1, <1>2, Zenon DEF CallType
<1>5. rec' = [rec EXCEPT ![g] = r]
  BY <1>1, <1>3, Zenon DEF CallType
<1> HIDE DEF r
<1>6. rec' \in [Goroutines -> CallType] /\ rec'[g] = r /\ \A h \in Goroutines : h # g => rec'[h] = rec[h]
  BY <1>1, <1>4, <1>5
<1>7. c \in [Inodes -> -MaxBoots .. MaxLines] /\ c[i] = 0 /\ \A j \in Inodes : j # i => c[j] = anchor.content[j]
  BY <1>1, <1>2 DEF AnchorType
<1>8. anchor' = [anchor EXCEPT !.tmp = i, !.content = c]
  BY <1>1, <1>3 DEF AnchorType, Empty
<1> HIDE DEF c
<1>9. /\ anchor' \in AnchorType
      /\ anchor'.file = anchor.file /\ anchor'.tmp = i /\ anchor'.alone = anchor.alone /\ anchor'.content = c
  BY <1>1, <1>2, <1>7, <1>8, Zenon DEF AnchorType
<1> QED BY <1>2, <1>4, <1>6, <1>7, <1>9

\* The effect of the write to the descriptor.
LEMMA AnchorWriteFields ==
  ASSUME TypeOK, NEW g \in Goroutines, AnchorWrite(g)
  PROVE  /\ rec' \in [Goroutines -> CallType] /\ anchor' \in AnchorType
         /\ rec'[g].pc = "wrote" /\ rec'[g].sig = rec[g].sig /\ rec'[g].read = rec[g].read /\ rec'[g].fd = rec[g].fd
         /\ \A h \in Goroutines : h # g => rec'[h] = rec[h]
         /\ anchor'.file = anchor.file /\ anchor'.tmp = anchor.tmp /\ anchor'.alone = anchor.alone
         /\ anchor'.content[rec[g].fd] = rec[g].read
         /\ \A j \in Inodes : j # rec[g].fd => anchor'.content[j] = anchor.content[j]
<1>1. rec \in [Goroutines -> CallType] /\ anchor \in AnchorType
  BY TypeNames
<1> DEFINE r == [rec[g] EXCEPT !.pc = "wrote"]
           c == [anchor.content EXCEPT ![rec[g].fd] = rec[g].read]
<1>2. rec[g].fd \in Inodes /\ rec[g].read \in -MaxBoots .. MaxLines
  BY <1>1 DEF CallType
<1>3. r \in CallType /\ r.pc = "wrote" /\ r.sig = rec[g].sig /\ r.read = rec[g].read /\ r.fd = rec[g].fd
  BY <1>1 DEF CallType
<1>4. rec' = [rec EXCEPT ![g] = r]
  BY <1>1 DEF AnchorWrite, CallType
<1>5. anchor' = [anchor EXCEPT !.content = c]
  BY <1>1, <1>2 DEF AnchorWrite, AnchorType
<1> HIDE DEF r
<1>6. rec' \in [Goroutines -> CallType] /\ rec'[g] = r /\ \A h \in Goroutines : h # g => rec'[h] = rec[h]
  BY <1>1, <1>3, <1>4
<1>7. c \in [Inodes -> -MaxBoots .. MaxLines] /\ c[rec[g].fd] = rec[g].read
      /\ \A j \in Inodes : j # rec[g].fd => c[j] = anchor.content[j]
  BY <1>1, <1>2 DEF AnchorType
<1> HIDE DEF c
<1>8. /\ anchor' \in AnchorType /\ anchor'.content = c
      /\ anchor'.file = anchor.file /\ anchor'.tmp = anchor.tmp /\ anchor'.alone = anchor.alone
  BY <1>1, <1>5, <1>7 DEF AnchorType
<1> QED BY <1>3, <1>6, <1>7, <1>8

\* The end of saveAnchor, with or without an error: the call is done saving.
LEMMA SavedFields ==
  ASSUME TypeOK, NEW g \in Goroutines,
         rec' = [rec EXCEPT ![g] = [Idle EXCEPT !.pc = "saved", !.sig = rec[g].sig]]
  PROVE  /\ rec' \in [Goroutines -> CallType]
         /\ rec'[g].pc = "saved" /\ rec'[g].sig = rec[g].sig /\ rec'[g].fd = 0
         /\ \A h \in Goroutines : h # g => rec'[h] = rec[h]
<1>1. rec \in [Goroutines -> CallType] /\ rec[g].sig \in 0 .. MaxLines
  BY TypeNames DEF CallType
<1> DEFINE r == [Idle EXCEPT !.pc = "saved", !.sig = rec[g].sig]
<1>2. r \in CallType /\ r.pc = "saved" /\ r.sig = rec[g].sig /\ r.fd = 0
  BY <1>1, SmallTypes, Zenon
<1> HIDE DEF r
<1>3. rec' \in [Goroutines -> CallType] /\ rec'[g] = r /\ \A h \in Goroutines : h # g => rec'[h] = rec[h]
  BY <1>1, <1>2 DEF r
<1> QED BY <1>2, <1>3, Zenon

\* The effect of the rename: the temporary file, if it is still there, is the anchor.
LEMMA AnchorRenameFields ==
  ASSUME TypeOK, NEW g \in Goroutines, AnchorRename(g)
  PROVE  /\ anchor' \in AnchorType /\ anchor'.alone = anchor.alone
         /\ anchor.tmp = 0 => anchor' = anchor
         /\ anchor.tmp # 0 =>
              /\ anchor'.file = anchor.tmp /\ anchor'.tmp = 0
              /\ \A j \in Inodes : j # anchor.file => anchor'.content[j] = anchor.content[j]
<1>1. anchor \in AnchorType /\ 0 \in -MaxBoots .. MaxLines /\ 0 \in Inodes
  BY TypeNames, SmallTypes, Zenon
<1>2. CASE anchor.tmp = 0
  BY <1>1, <1>2 DEF AnchorRename
<1>3. CASE anchor.tmp # 0
  <2> DEFINE c == [anchor.content EXCEPT ![anchor.file] = 0]
  <2>1. c \in [Inodes -> -MaxBoots .. MaxLines] /\ \A j \in Inodes : j # anchor.file => c[j] = anchor.content[j]
    BY <1>1 DEF AnchorType
  <2>2. anchor' = [anchor EXCEPT !.file = anchor.tmp, !.tmp = 0, !.content = c]
    BY <1>1, <1>3 DEF AnchorRename, AnchorType, Empty
  <2> HIDE DEF c
  <2>3. /\ anchor' \in AnchorType /\ anchor'.file = anchor.tmp /\ anchor'.tmp = 0
        /\ anchor'.alone = anchor.alone /\ anchor'.content = c
    BY <1>1, <2>1, <2>2, Zenon DEF AnchorType
  <2> QED BY <1>3, <2>1, <2>3
<1> QED BY <1>2, <1>3

\* The type invariant is inductive, with what the chain and the calls know of their
\* numbers.
LEMMA AuditTypeStep ==
  ASSUME TypeOK, Finiteness, ChainInv, CallsInv, [Next]_vars
  PROVE  TypeOK'
<1> DEFINE ProcType == [up : BOOLEAN, boot : 1 .. MaxBoots, last : -MaxBoots .. MaxLines, seq : 0 .. MaxLines]
           SyslogOK == syslog \in [queue : Seq(Sigs), busy : BOOLEAN] /\ Len(syslog.queue) <= SyslogCap
<1> USE AuditConstants
<1>1. /\ rec \in [Goroutines -> CallType] /\ anchor \in AnchorType /\ logs \in LogsType
      /\ proc \in ProcType /\ SyslogOK /\ day \in Days /\ faults \in 0 .. MaxFaults
      /\ minted \in Seq(Line) /\ Len(minted) <= MaxLines
  BY TypeNames, Zenon DEF TypeOK
<1> DEFINE Goal == /\ minted' \in Seq(Line) /\ Len(minted') <= MaxLines
                   /\ proc' \in ProcType /\ rec' \in [Goroutines -> CallType] /\ anchor' \in AnchorType
                   /\ logs' \in LogsType /\ SyslogOK' /\ day' \in Days /\ faults' \in 0 .. MaxFaults
<1>2. Goal => TypeOK'
  BY ZenonT(30) DEF TypeOK, CallType, AnchorType, LogsType
<1>3. Relabelled => minted' \in Seq(Line) /\ Len(minted') <= MaxLines
  BY <1>1 DEF Relabelled
<1>4. ASSUME NEW g \in Goroutines, Chain(g) PROVE Goal
  <2>1. UNCHANGED <<logs, syslog, day, faults>>
    BY <1>4 DEF Chain
  <2>2. minted' \in Seq(Line) /\ Len(minted') <= MaxLines /\ proc' \in ProcType
    <3>1. /\ minted' \in Seq(Line) /\ Len(minted') \in Sigs /\ Len(minted') = Len(minted) + 1
          /\ proc' = [up |-> TRUE, boot |-> proc.boot, last |-> Len(minted'),
                     seq |-> IF g = Pruner THEN proc.seq ELSE proc.seq + 1]
      BY <1>4, ChainAppends
    <3>2. Len(minted') \in -MaxBoots .. MaxLines /\ Len(minted') <= MaxLines
      BY <3>1 DEF Sigs
    <3>3. proc.seq <= Len(minted) /\ proc.seq \in Nat /\ proc.boot \in 1 .. MaxBoots /\ Len(minted) \in Nat
      BY <1>1, MintedSeq, SMTT(60) DEF ChainInv
    <3>4. (IF g = Pruner THEN proc.seq ELSE proc.seq + 1) \in 0 .. MaxLines
      BY <3>1, <3>2, <3>3
    <3> QED BY <3>1, <3>2, <3>3, <3>4
  <2> QED BY <1>1, <1>4, <2>1, <2>2, ChainFields
<1>5. ASSUME NEW g \in Goroutines, AnchorOpen(g) PROVE Goal
  <2>1. UNCHANGED <<minted, proc, logs, syslog, day, faults>>
    BY <1>5 DEF AnchorOpen
  <2> QED BY <1>1, <1>5, <2>1, AnchorOpenFields
<1>6. ASSUME NEW g \in Goroutines, AnchorWrite(g) PROVE Goal
  <2>1. UNCHANGED <<minted, proc, logs, syslog, day, faults>>
    BY <1>6 DEF AnchorWrite
  <2> QED BY <1>1, <1>6, <2>1, AnchorWriteFields
<1>7. ASSUME NEW g \in Goroutines, AnchorWriteFails(g) PROVE Goal
  <2>1. UNCHANGED <<minted, proc, logs, syslog, day>> /\ faults' \in 0 .. MaxFaults
    BY <1>1, <1>7 DEF AnchorWriteFails
  <2>2. anchor' \in AnchorType
    BY <1>1, <1>7, Zenon DEF AnchorWriteFails, AnchorType
  <2>3. rec' \in [Goroutines -> CallType]
    BY <1>7, SavedFields, Zenon DEF AnchorWriteFails
  <2> QED BY <1>1, <2>1, <2>2, <2>3
<1>8. ASSUME NEW g \in Goroutines, AnchorRename(g) PROVE Goal
  <2>1. UNCHANGED <<minted, proc, logs, syslog, day, faults>>
    BY <1>8 DEF AnchorRename
  <2>2. rec' \in [Goroutines -> CallType]
    BY <1>8, SavedFields, Zenon DEF AnchorRename
  <2> QED BY <1>1, <1>8, <2>1, <2>2, AnchorRenameFields
<1>9. ASSUME NEW g \in Goroutines, FileWrite(g) PROVE Goal
  <2>1. UNCHANGED <<proc, anchor, day>> /\ rec' = [rec EXCEPT ![g] = Idle] /\ SyslogEnqueue(rec[g].sig)
    BY <1>9 DEF FileWrite
  <2>2. rec' \in [Goroutines -> CallType]
    BY <1>1, <2>1, SmallTypes, Zenon
  <2>3. logs' \in LogsType /\ faults' \in 0 .. MaxFaults
    <3>1. PICK renamed \in BOOLEAN :
             /\ ~renamed => faults < MaxFaults
             /\ faults' = IF renamed THEN faults ELSE faults + 1
             /\ logs' \in LogsType
      BY <1>9, FileWriteFields, ZenonT(30)
    <3> QED BY <1>1, <3>1
  <2>4. rec[g].sig \in Sigs
    BY <1>9, MintedSeq, WriteRelabels
  <2>5. SyslogOK'
    <3>1. CASE Len(syslog.queue) < SyslogCap
      <4> DEFINE q == Append(syslog.queue, rec[g].sig)
      <4>1. syslog' = [syslog EXCEPT !.queue = q]
        BY <1>1, <2>1, <3>1 DEF SyslogEnqueue
      <4>2. q \in Seq(Sigs) /\ Len(q) = Len(syslog.queue) + 1 /\ Len(syslog.queue) \in Nat
        BY <1>1, <2>4
      <4>3. Len(q) <= SyslogCap
        BY <3>1, <4>2
      <4> HIDE DEF q
      <4>4. syslog' \in [queue : Seq(Sigs), busy : BOOLEAN] /\ syslog'.queue = q
        BY <1>1, <4>1, <4>2, Zenon
      <4> QED BY <4>3, <4>4
    <3>2. CASE ~(Len(syslog.queue) < SyslogCap)
      BY <1>1, <2>1, <3>2 DEF SyslogEnqueue
    <3> QED BY <3>1, <3>2
  <2> QED BY <1>1, <1>3, <1>9, <2>1, <2>2, <2>3, <2>5, WriteRelabels, Zenon
<1>10. ASSUME NEW g \in Goroutines, FileWriteFails(g) PROVE Goal
  <2>1. UNCHANGED <<proc, anchor, syslog, day>> /\ rec' = [rec EXCEPT ![g] = Idle] /\ faults' \in 0 .. MaxFaults
    BY <1>1, <1>10 DEF FileWriteFails
  <2>2. rec' \in [Goroutines -> CallType]
    BY <1>1, <2>1, SmallTypes, Zenon
  <2>3. logs' \in LogsType
    <3>1. CASE day = logs.today
      BY <1>1, <1>10, <3>1 DEF FileWriteFails
    <3>2. CASE day # logs.today
      BY <1>10, <3>2, FileWriteFailsFields, Zenon
    <3> QED BY <3>1, <3>2
  <2> QED BY <1>1, <1>3, <1>10, <2>1, <2>2, <2>3, WriteRelabels
<1>11. ASSUME SyslogTake PROVE Goal
  <2>1. UNCHANGED <<minted, proc, rec, anchor, logs, day, faults>> /\ syslog.queue # <<>>
        /\ syslog' = [queue |-> Tail(syslog.queue), busy |-> TRUE]
    BY <1>11 DEF SyslogTake
  <2>2. Tail(syslog.queue) \in Seq(Sigs) /\ Len(Tail(syslog.queue)) <= SyslogCap
    <3>1. syslog.queue \in Seq(Sigs) /\ Len(syslog.queue) \in Nat /\ Len(syslog.queue) <= SyslogCap
      BY <1>1
    <3>2. Tail(syslog.queue) \in Seq(Sigs) /\ Len(Tail(syslog.queue)) = Len(syslog.queue) - 1
      BY <2>1, <3>1, TailOf, Zenon
    <3> QED BY <3>1, <3>2
  <2> QED BY <1>1, <2>1, <2>2
<1>12. ASSUME SyslogDone PROVE Goal
  <2>1. UNCHANGED <<minted, proc, rec, anchor, logs, day, faults>> /\ syslog' = [syslog EXCEPT !.busy = FALSE]
    BY <1>12 DEF SyslogDone
  <2> QED BY <1>1, <2>1, Zenon
<1>13. ASSUME NextDay PROVE Goal
  <2>1. UNCHANGED <<minted, proc, rec, anchor, logs, syslog, faults>> /\ day' \in Days
    BY <1>1, <1>13 DEF NextDay, Days
  <2> QED BY <1>1, <2>1
<1>14. ASSUME Prune PROVE Goal
  <2>1. UNCHANGED <<minted, proc, anchor, syslog, day, faults>>
    BY <1>14 DEF Prune
  <2> QED BY <1>1, <1>14, <2>1, PruneFields
<1>15. ASSUME Stop
       PROVE  proc' \in ProcType /\ rec' \in [Goroutines -> CallType] /\ SyslogOK' /\ day' \in Days
  <2>1. UNCHANGED day /\ proc' = [proc EXCEPT !.up = FALSE] /\ rec' = [g \in Goroutines |-> Idle]
        /\ syslog' = [queue |-> <<>>, busy |-> FALSE]
    BY <1>15 DEF Stop, NewSyslog
  <2>2. rec' \in [Goroutines -> CallType]
    BY <2>1, SmallTypes, Zenon
  <2>3. <<>> \in Seq(Sigs) /\ Len(<<>>) <= SyslogCap
    OBVIOUS
  <2> QED BY <1>1, <2>1, <2>2, <2>3, Zenon
<1>16. ASSUME Close PROVE Goal
  <2>1. Stop /\ UNCHANGED <<minted, anchor, logs, faults>>
    BY <1>16 DEF Close
  <2> QED BY <1>1, <1>15, <2>1
<1>17. ASSUME Crash PROVE Goal
  <2>1. Stop /\ UNCHANGED <<minted, logs>> /\ faults' \in 0 .. MaxFaults /\ anchor' = [anchor EXCEPT !.alone = FALSE]
    BY <1>1, <1>17 DEF Crash
  <2>2. anchor' \in AnchorType
    BY <1>1, <2>1, Zenon DEF AnchorType
  <2> QED BY <1>1, <1>15, <2>1, <2>2
<1>18. ASSUME PowerLoss PROVE Goal
  <2>1. Stop /\ faults' \in 0 .. MaxFaults
    BY <1>1, <1>18 DEF PowerLoss
  <2> QED BY <1>1, <1>3, <1>15, <1>18, <2>1, PowerLossFields, PowerLossRelabels
<1>19. ASSUME Start PROVE Goal
  <2>1. UNCHANGED <<minted, rec, anchor, syslog, day, faults>> /\ proc.boot < MaxBoots
        /\ proc' = [up |-> TRUE, boot |-> proc.boot + 1, last |-> LoadAnchor(-(proc.boot + 1)), seq |-> 0]
        /\ logs' = [logs EXCEPT !.exists = TRUE, !.today = day]
    BY <1>19 DEF Start, openCurrent
  <2>2. LoadAnchor(-(proc.boot + 1)) \in -MaxBoots .. MaxLines
    <3>1. -(proc.boot + 1) \in -MaxBoots .. MaxLines
      BY <1>1, <2>1
    <3>2. anchor.content[anchor.file] \in -MaxBoots .. MaxLines
      BY <1>1 DEF AnchorType
    <3> QED BY <3>1, <3>2 DEF LoadAnchor
  <2>3. proc' \in ProcType
    <3>1. proc.boot + 1 \in 1 .. MaxBoots /\ 0 \in 0 .. MaxLines
      BY <1>1, <2>1
    <3> QED BY <2>1, <2>2, <3>1, Zenon
  <2>4. logs' \in LogsType
    BY <1>1, <2>1, Zenon DEF LogsType
  <2> QED BY <1>1, <2>1, <2>3, <2>4
<1>20. ASSUME UNCHANGED vars PROVE Goal
  BY <1>1, <1>20, Zenon DEF vars
<1> HIDE DEF Goal
<1> QED BY <1>2, <1>4, <1>5, <1>6, <1>7, <1>8, <1>9, <1>10, <1>11, <1>12, <1>13, <1>14, <1>16, <1>17, <1>18,
           <1>19, <1>20 DEF Next

----------------------------------------------------------------------------
(* The chain *)

\* What the steps do to the chain: they leave it, stop the process, chain one line or
\* start the process again.
LEMMA ChainCases ==
  ASSUME TypeOK, ChainInv, CallsInv, [Next]_vars
  PROVE  \/ Relabelled /\ UNCHANGED proc
         \/ Relabelled /\ proc.up /\ proc' = [proc EXCEPT !.up = FALSE]
         \/ \E g \in Goroutines : Chain(g)
         \/ Start
<1>1. UNCHANGED minted => Relabelled
  BY UnchangedRelabels
<1>2. ASSUME NEW g \in Goroutines,
             AnchorOpen(g) \/ AnchorWrite(g) \/ AnchorWriteFails(g) \/ AnchorRename(g)
      PROVE  UNCHANGED <<minted, proc>>
  BY <1>2 DEF AnchorOpen, AnchorWrite, AnchorWriteFails, AnchorRename
<1>3. ASSUME NEW g \in Goroutines, FileWrite(g) \/ FileWriteFails(g)
      PROVE  Relabelled /\ UNCHANGED proc
  <2>1. UNCHANGED proc
    BY <1>3, Zenon DEF FileWrite, FileWriteFails
  <2> QED BY <1>3, <2>1, WriteRelabels, Zenon
<1>4. ASSUME SyslogTake \/ SyslogDone \/ NextDay \/ Prune
      PROVE  UNCHANGED <<minted, proc>>
  BY <1>4 DEF SyslogTake, SyslogDone, NextDay, Prune
<1>5. ASSUME Close \/ Crash \/ PowerLoss
      PROVE  Relabelled /\ proc.up /\ proc' = [proc EXCEPT !.up = FALSE]
  <2>1. proc.up /\ proc' = [proc EXCEPT !.up = FALSE]
    BY <1>5, Zenon DEF Close, Crash, PowerLoss, Stop
  <2>2. Relabelled
    BY <1>1, <1>5, PowerLossRelabels DEF Close, Crash
  <2> QED BY <2>1, <2>2
<1>6. ASSUME UNCHANGED vars PROVE UNCHANGED <<minted, proc>>
  BY <1>6 DEF vars
<1> QED BY <1>1, <1>2, <1>3, <1>4, <1>5, <1>6 DEF Next

\* Lines keep their places in the chain (logger.go: Record holds chainMu while it
\* advances the chain and numbers the line).
LEMMA ChainStep ==
  ASSUME TypeOK, ChainInv, CallsInv, [Next]_vars, TypeOK'
  PROVE  ChainInv'
<1>1. /\ Len(minted) \in Nat /\ DOMAIN minted = 1 .. Len(minted) /\ \A s \in DOMAIN minted : minted[s] \in Line
      /\ proc \in [up : BOOLEAN, boot : 1 .. MaxBoots, last : -MaxBoots .. MaxLines, seq : 0 .. MaxLines]
  BY MintedSeq, TypeNames
<1>2. ASSUME Relabelled, proc' = proc \/ proc' = [proc EXCEPT !.up = FALSE]
      PROVE  ChainInv'
  <2>1. Len(minted') = Len(minted) /\ DOMAIN minted' = DOMAIN minted
    BY <1>1, <1>2 DEF Relabelled
  <2>2. proc'.boot = proc.boot /\ proc'.last = proc.last /\ proc'.seq = proc.seq /\ (proc'.up => proc.up)
    BY <1>1, <1>2
  <2>3. \A s \in DOMAIN minted : /\ minted'[s].prev = minted[s].prev /\ minted'[s].boot = minted[s].boot
                                 /\ minted'[s].seq = minted[s].seq /\ minted'[s].prune = minted[s].prune
    BY <1>2 DEF Relabelled
  <2>4. proc'.seq <= Len(minted') /\ \A s \in DOMAIN minted' : minted'[s].boot <= proc'.boot
    BY <2>1, <2>2, <2>3 DEF ChainInv
  <2>5. ASSUME NEW s \in DOMAIN minted, NEW t \in DOMAIN minted, s < t, minted'[s].boot = minted'[t].boot
        PROVE  /\ minted'[t].prev = t - 1
               /\ ~minted'[s].prune /\ ~minted'[t].prune => minted'[s].seq < minted'[t].seq
    <3>1. /\ minted[t].prev = t - 1
          /\ ~minted[s].prune /\ ~minted[t].prune => minted[s].seq < minted[t].seq
      BY <2>3, <2>5 DEF ChainInv
    <3> QED BY <2>3, <3>1
  <2>6. ASSUME NEW s \in DOMAIN minted, proc'.up, minted'[s].boot = proc'.boot
        PROVE  /\ proc'.last = Len(minted')
               /\ ~minted'[s].prune => minted'[s].seq <= proc'.seq
    <3>1. proc.last = Len(minted) /\ (~minted[s].prune => minted[s].seq <= proc.seq)
      BY <2>2, <2>3, <2>6 DEF ChainInv
    <3> QED BY <2>1, <2>2, <2>3, <3>1
  <2> QED BY <2>1, <2>4, <2>5, <2>6, Zenon DEF ChainInv
<1>3. ASSUME NEW g \in Goroutines, Chain(g) PROVE ChainInv'
  <2> DEFINE n == Len(minted')
  <2>1. /\ n = Len(minted) + 1 /\ DOMAIN minted' = DOMAIN minted \cup {n}
        /\ \A s \in DOMAIN minted : s < n /\ minted'[s] = minted[s]
    BY <1>3, ChainAppends, ZenonT(30)
  <2>2. /\ minted'[n].prev = proc.last /\ minted'[n].boot = proc.boot
        /\ minted'[n].prune <=> g = Pruner
        /\ g # Pruner => minted'[n].seq = proc.seq + 1
    BY <1>3, ChainAppends
  <2>3. /\ proc'.boot = proc.boot /\ proc'.last = n
        /\ proc'.seq = IF g = Pruner THEN proc.seq ELSE proc.seq + 1
    BY <1>3, ChainAppends
  <2>4. proc.up
    BY <1>3 DEF Chain
  <2> HIDE DEF n
  <2>5. proc.seq \in Nat /\ proc.boot \in Nat /\ \A s \in DOMAIN minted : s \in Nat /\ minted[s].seq \in Nat
    BY <1>1, AuditConstants DEF Line, Sigs
  <2>6. proc'.seq <= n /\ \A s \in DOMAIN minted' : minted'[s].boot <= proc'.boot
    <3>1. proc.seq <= Len(minted) /\ \A s \in DOMAIN minted : minted[s].boot <= proc.boot
      BY DEF ChainInv
    <3>2. proc'.seq <= n
      BY <1>1, <2>1, <2>3, <2>5, <3>1
    <3>3. ASSUME NEW s \in DOMAIN minted' PROVE minted'[s].boot <= proc'.boot
      <4>1. CASE s \in DOMAIN minted
        BY <2>1, <2>3, <3>1, <4>1
      <4>2. CASE s = n
        BY <2>2, <2>3, <2>5, <4>2
      <4> QED BY <2>1, <4>1, <4>2, Zenon
    <3> QED BY <3>2, <3>3, Zenon
  <2>7. ASSUME NEW s \in DOMAIN minted', NEW t \in DOMAIN minted', s < t, minted'[s].boot = minted'[t].boot
        PROVE  /\ minted'[t].prev = t - 1
               /\ ~minted'[s].prune /\ ~minted'[t].prune => minted'[s].seq < minted'[t].seq
    <3>1. s \in DOMAIN minted
      BY <1>1, <2>1, <2>7
    <3>2. CASE t \in DOMAIN minted
      BY <2>1, <2>7, <3>1, <3>2 DEF ChainInv
    <3>3. CASE t = n
      <4>1. minted[s].boot = proc.boot
        BY <2>1, <2>2, <2>7, <3>1, <3>3
      <4>2. proc.last = Len(minted) /\ (~minted[s].prune => minted[s].seq <= proc.seq)
        BY <2>4, <3>1, <4>1 DEF ChainInv
      <4> QED BY <1>1, <2>1, <2>2, <2>5, <3>1, <3>3, <4>2
    <3> QED BY <2>1, <3>2, <3>3
  <2>8. ASSUME NEW s \in DOMAIN minted', minted'[s].boot = proc'.boot
        PROVE  proc'.last = n /\ (~minted'[s].prune => minted'[s].seq <= proc'.seq)
    <3>1. CASE s \in DOMAIN minted
      BY <2>1, <2>3, <2>4, <2>5, <2>8, <3>1, SMTT(60) DEF ChainInv
    <3>2. CASE s = n
      BY <2>2, <2>3, <2>5, <3>2
    <3> QED BY <2>1, <3>1, <3>2
  <2> QED BY <2>6, <2>7, <2>8 DEF ChainInv, n
<1>4. ASSUME Start PROVE ChainInv'
  <2>1. minted' = minted /\ proc'.boot = proc.boot + 1 /\ proc'.seq = 0
    BY <1>4 DEF Start
  <2>2. \A s \in DOMAIN minted : minted[s].boot \in Nat /\ minted[s].boot <= proc.boot
    BY <1>1, AuditConstants DEF ChainInv, Line
  <2>3. proc.boot \in Nat
    BY <1>1, AuditConstants
  <2>4. \A s \in DOMAIN minted : minted[s].boot <= proc'.boot /\ minted[s].boot # proc'.boot
    BY <2>1, <2>2, <2>3
  <2>5. proc'.seq <= Len(minted)
    BY <1>1, <2>1
  <2>6. \A s, t \in DOMAIN minted : s < t /\ minted[s].boot = minted[t].boot =>
          /\ minted[t].prev = t - 1
          /\ ~minted[s].prune /\ ~minted[t].prune => minted[s].seq < minted[t].seq
    BY DEF ChainInv
  <2> QED BY <2>1, <2>4, <2>5, <2>6, ZenonT(30) DEF ChainInv
<1> QED BY <1>2, <1>3, <1>4, ChainCases

----------------------------------------------------------------------------
(* The calls *)

\* No call in progress loses its line, and no line is taken by two calls (logger.go:
\* Record).
LEMMA CallsStep ==
  ASSUME TypeOK, Finiteness, ChainInv, CallsInv, [Next]_vars, TypeOK'
  PROVE  CallsInv'
<1>1. /\ rec \in [Goroutines -> CallType]
      /\ DOMAIN minted = 1 .. Len(minted)
      /\ proc \in [up : BOOLEAN, boot : 1 .. MaxBoots, last : -MaxBoots .. MaxLines, seq : 0 .. MaxLines]
  BY TypeNames, MintedSeq
<1>2. ASSUME UNCHANGED <<minted, proc>>,
             \A h \in Goroutines :
               /\ rec'[h].pc = "idle" <=> rec[h].pc = "idle"
               /\ rec'[h].pc = "pruned" <=> rec[h].pc = "pruned"
               /\ rec'[h].sig = rec[h].sig
      PROVE  CallsInv'
  <2>1. \A h \in Goroutines : Recording(h)' = Recording(h) /\ rec'[h].sig = rec[h].sig
    BY <1>2 DEF Recording
  <2>2. \A h \in Goroutines : rec'[h].pc # "idle" => proc'.up
    BY <1>2 DEF CallsInv
  <2>3. \A h \in Goroutines : Recording(h)' =>
          /\ rec'[h].sig \in DOMAIN minted' /\ minted'[rec'[h].sig].boot = proc'.boot
          /\ minted'[rec'[h].sig].done = "no"
    BY <1>2, <2>1 DEF CallsInv
  <2>4. \A g, h \in Goroutines : Recording(g)' /\ Recording(h)' /\ rec'[g].sig = rec'[h].sig => g = h
    BY <2>1, Zenon DEF CallsInv
  <2> QED BY <2>2, <2>3, <2>4, Zenon DEF CallsInv
<1>3. ASSUME NEW g \in Goroutines, Chain(g) PROVE CallsInv'
  <2>1. /\ DOMAIN minted' = DOMAIN minted \cup {Len(minted')} /\ proc'.up /\ proc'.boot = proc.boot
        /\ \A s \in DOMAIN minted : s < Len(minted') /\ minted'[s] = minted[s]
        /\ minted'[Len(minted')].boot = proc.boot /\ minted'[Len(minted')].done = "no"
    BY <1>3, ChainAppends, Zenon
  <2>2. /\ rec'[g].pc = "chained" /\ rec'[g].sig = Len(minted')
        /\ \A h \in Goroutines : h # g => rec'[h] = rec[h]
    BY <1>3, ChainFields
  <2>3. ASSUME NEW h \in Goroutines, h # g, Recording(h)'
        PROVE  /\ rec'[h].sig \in DOMAIN minted /\ rec'[h].sig = rec[h].sig /\ Recording(h)
               /\ minted[rec[h].sig].boot = proc.boot /\ minted[rec[h].sig].done = "no"
    BY <2>2, <2>3 DEF CallsInv, Recording
  <2>4. ASSUME NEW h \in Goroutines, Recording(h)'
        PROVE  /\ rec'[h].sig \in DOMAIN minted' /\ minted'[rec'[h].sig].boot = proc'.boot
               /\ minted'[rec'[h].sig].done = "no"
    <3>1. CASE h = g
      BY <2>1, <2>2, <3>1, Zenon
    <3>2. CASE h # g
      BY <2>1, <2>3, <2>4, <3>2, Zenon
    <3> QED BY <3>1, <3>2
  <2>5. ASSUME NEW h \in Goroutines, NEW k \in Goroutines, Recording(h)', Recording(k)', rec'[h].sig = rec'[k].sig
        PROVE  h = k
    <3>1. ASSUME NEW l \in Goroutines, l # g, Recording(l)' PROVE rec'[l].sig # rec'[g].sig
      <4>1. rec'[l].sig \in DOMAIN minted
        BY <2>3, <3>1
      <4>2. rec'[l].sig < Len(minted')
        BY <2>1, <4>1
      <4>3. rec'[l].sig \in Nat
        BY <4>1, MintedSeq
      <4> QED BY <2>2, <4>2, <4>3
    <3>2. CASE h # g /\ k # g
      BY <2>3, <2>5, <3>2 DEF CallsInv
    <3> QED BY <2>5, <3>1, <3>2
  <2> QED BY <2>1, <2>4, <2>5, Zenon DEF CallsInv
<1>4. ASSUME NEW g \in Goroutines, AnchorOpen(g) PROVE CallsInv'
  <2>1. /\ rec[g].pc = "chained" /\ rec'[g].pc = "opened" /\ rec'[g].sig = rec[g].sig
        /\ \A h \in Goroutines : h # g => rec'[h] = rec[h]
    BY <1>4, AnchorOpenFields, Zenon DEF AnchorOpen
  <2>2. UNCHANGED <<minted, proc>>
    BY <1>4 DEF AnchorOpen
  <2> QED BY <1>2, <2>1, <2>2
<1>5. ASSUME NEW g \in Goroutines, AnchorWrite(g) PROVE CallsInv'
  <2>1. /\ rec[g].pc = "opened" /\ rec'[g].pc = "wrote" /\ rec'[g].sig = rec[g].sig
        /\ \A h \in Goroutines : h # g => rec'[h] = rec[h]
    BY <1>5, AnchorWriteFields, Zenon DEF AnchorWrite
  <2>2. UNCHANGED <<minted, proc>>
    BY <1>5 DEF AnchorWrite
  <2> QED BY <1>2, <2>1, <2>2
<1>6. ASSUME NEW g \in Goroutines, AnchorWriteFails(g) \/ AnchorRename(g) PROVE CallsInv'
  <2>1. /\ rec[g].pc \in {"opened", "wrote"}
        /\ rec' = [rec EXCEPT ![g] = [Idle EXCEPT !.pc = "saved", !.sig = rec[g].sig]]
    BY <1>6 DEF AnchorWriteFails, AnchorRename
  <2>2. /\ rec'[g].pc = "saved" /\ rec'[g].sig = rec[g].sig
        /\ \A h \in Goroutines : h # g => rec'[h] = rec[h]
    BY <2>1, SavedFields, Zenon
  <2>3. UNCHANGED <<minted, proc>>
    BY <1>6 DEF AnchorWriteFails, AnchorRename
  <2> QED BY <1>2, <2>1, <2>2, <2>3
<1>7. ASSUME NEW g \in Goroutines, FileWrite(g) \/ FileWriteFails(g) PROVE CallsInv'
  <2>1. UNCHANGED proc /\ rec' = [rec EXCEPT ![g] = Idle] /\ rec[g].pc = "saved"
    BY <1>7, Zenon DEF FileWrite, FileWriteFails
  <2>2. /\ Relabelled /\ \A s \in DOMAIN minted : s # rec[g].sig => minted'[s] = minted[s]
    BY <1>7, WriteRelabels
  <2>3. DOMAIN minted' = DOMAIN minted
    BY <1>1, <2>2 DEF Relabelled
  <2>4. rec'[g].pc = "idle" /\ \A h \in Goroutines : h # g => rec'[h] = rec[h]
    <3>1. Idle \in CallType /\ Idle.pc = "idle"
      BY SmallTypes, Zenon
    <3> QED BY <1>1, <2>1, <3>1
  <2>5. ASSUME NEW h \in Goroutines, Recording(h)'
        PROVE  h # g /\ Recording(h) /\ rec'[h] = rec[h] /\ rec[h].sig # rec[g].sig
    BY <2>1, <2>4, <2>5 DEF CallsInv, Recording
  <2>6. \A h \in Goroutines : rec'[h].pc # "idle" => proc'.up
    BY <2>1, <2>4 DEF CallsInv
  <2>7. ASSUME NEW h \in Goroutines, Recording(h)'
        PROVE  /\ rec'[h].sig \in DOMAIN minted' /\ minted'[rec'[h].sig].boot = proc'.boot
               /\ minted'[rec'[h].sig].done = "no"
    <3>1. Recording(h) /\ rec'[h] = rec[h] /\ rec[h].sig # rec[g].sig
      BY <2>5, <2>7
    <3>2. /\ rec[h].sig \in DOMAIN minted /\ minted[rec[h].sig].boot = proc.boot
          /\ minted[rec[h].sig].done = "no"
      BY <3>1, Zenon DEF CallsInv
    <3>3. minted'[rec[h].sig] = minted[rec[h].sig]
      BY <2>2, <3>1, <3>2, Zenon
    <3> QED BY <2>1, <2>3, <3>1, <3>2, <3>3
  <2> QED BY <2>5, <2>6, <2>7 DEF CallsInv
<1>8. ASSUME Prune PROVE CallsInv'
  <2>1. UNCHANGED <<minted, proc>> /\ proc.up
    BY <1>8 DEF Prune
  <2>2. rec'[Pruner].pc = "pruned" /\ \A h \in Goroutines : h # Pruner => rec'[h] = rec[h]
    BY <1>8, PruneFields
  <2>3. \A h \in Goroutines : Recording(h)' => Recording(h) /\ rec'[h] = rec[h]
    BY <2>2 DEF Recording
  <2>4. \A h \in Goroutines : rec'[h].pc # "idle" => proc'.up
    BY <2>1
  <2>5. ASSUME NEW h \in Goroutines, Recording(h)'
        PROVE  /\ rec'[h].sig \in DOMAIN minted' /\ minted'[rec'[h].sig].boot = proc'.boot
               /\ minted'[rec'[h].sig].done = "no"
    <3>1. Recording(h) /\ rec'[h] = rec[h]
      BY <2>3, <2>5, Zenon
    <3>2. /\ rec[h].sig \in DOMAIN minted /\ minted[rec[h].sig].boot = proc.boot
          /\ minted[rec[h].sig].done = "no"
      BY <3>1, Zenon DEF CallsInv
    <3> QED BY <2>1, <3>1, <3>2
  <2>6. \A g, h \in Goroutines : Recording(g)' /\ Recording(h)' /\ rec'[g].sig = rec'[h].sig => g = h
    BY <2>3, Zenon DEF CallsInv
  <2> QED BY <2>4, <2>5, <2>6, Zenon DEF CallsInv
<1>9. ASSUME Close \/ Crash \/ PowerLoss PROVE CallsInv'
  <2>1. rec' = [g \in Goroutines |-> Idle]
    BY <1>9, Zenon DEF Close, Crash, PowerLoss, Stop
  <2>2. \A h \in Goroutines : rec'[h].pc = "idle"
    BY <2>1, SmallTypes, Zenon
  <2> QED BY <2>2 DEF CallsInv, Recording
<1>10. ASSUME Start PROVE CallsInv'
  <2>1. ~proc.up /\ rec' = rec
    BY <1>10 DEF Start
  <2>2. \A h \in Goroutines : rec'[h].pc = "idle"
    BY <2>1 DEF CallsInv
  <2> QED BY <2>2 DEF CallsInv, Recording
<1>11. ASSUME SyslogTake \/ SyslogDone \/ NextDay \/ UNCHANGED vars PROVE CallsInv'
  <2>1. UNCHANGED <<minted, proc, rec>>
    BY <1>11 DEF SyslogTake, SyslogDone, NextDay, vars
  <2> QED BY <1>2, <2>1
<1> QED BY <1>3, <1>4, <1>5, <1>6, <1>7, <1>8, <1>9, <1>10, <1>11 DEF Next

----------------------------------------------------------------------------
(* The anchor *)

\* While a call is in progress the end of the chain is a line of this start.
LEMMA LastIsLine ==
  ASSUME TypeOK, ChainInv, CallsInv, NEW g \in Goroutines, Recording(g)
  PROVE  proc.up /\ Started /\ proc.last \in Sigs /\ minted # <<>>
<1>1. proc.up /\ rec[g].sig \in DOMAIN minted /\ minted[rec[g].sig].boot = proc.boot
  BY DEF CallsInv, Recording
<1>2. proc.last = Len(minted)
  BY <1>1 DEF ChainInv
<1>3. Len(minted) \in Nat /\ DOMAIN minted = 1 .. Len(minted) /\ DOMAIN minted \subseteq Sigs
  BY MintedSeq
<1>4. Len(minted) \in DOMAIN minted /\ Len(minted) # 0
  BY <1>1, <1>3
<1>5. minted # <<>>
  BY <1>4
<1> QED BY <1>1, <1>2, <1>3, <1>4, <1>5 DEF Started

\* A step that touches neither the anchor nor a call of saveAnchor.
LEMMA AnchorLeft ==
  ASSUME TypeOK, CallsInv, AnchorInv, Relabelled, UNCHANGED <<anchor, proc>>, faults' = 0 => faults = 0,
         \A h \in Goroutines : rec[h].pc \in {"chained", "opened", "wrote"} \/ rec'[h].pc \in {"chained", "opened", "wrote"}
                                 => rec'[h] = rec[h]
  PROVE  AnchorInv'
<1>1. Saving' = Saving /\ \A g \in Saving : rec'[g] = rec[g]
  BY DEF Saving
<1>2. DOMAIN minted' = DOMAIN minted
  BY MintedSeq DEF Relabelled
<1>3. Started' = Started
  BY <1>2 DEF Started, Relabelled
<1>4. minted' # <<>> => minted # <<>>
  BY MintedSeq DEF Relabelled
<1>5. TwoFiles'
  BY DEF AnchorInv, TwoFiles
<1>6. \A i : Opened(i) => Opened(i)'
  BY DEF Opened
<1>7. NoneEmpty'
  BY <1>1, <1>4, <1>6 DEF AnchorInv, NoneEmpty
<1>8. EndIsSaved'
  <2> SUFFICES ASSUME (proc.up /\ anchor.alone /\ Started)' PROVE EndIsSaved'
    BY DEF EndIsSaved
  <2>1. /\ \A g, h \in Saving : g = h
        /\ \A g \in Saving :
             /\ rec[g].pc \in {"opened", "wrote"} => rec[g].fd = anchor.tmp
             /\ rec[g].pc = "opened" => rec[g].read = proc.last
             /\ rec[g].pc = "wrote" => anchor.content[anchor.tmp] = proc.last
        /\ Saving = {} => anchor.file # 0 /\ anchor.content[anchor.file] = proc.last
    BY <1>3, Zenon DEF AnchorInv, EndIsSaved
  <2> QED BY <1>1, <2>1 DEF EndIsSaved
<1> QED BY <1>5, <1>7, <1>8 DEF AnchorInv

\* Chaining a line.
LEMMA AnchorChain ==
  ASSUME TypeOK, ChainInv, CallsInv, AnchorInv, NEW g \in Goroutines, Chain(g)
  PROVE  AnchorInv'
<1>1. /\ rec[g].pc \in {"idle", "pruned"} /\ rec'[g].pc = "chained"
      /\ \A h \in Goroutines : h # g => rec'[h] = rec[h]
      /\ anchor'.file = anchor.file /\ anchor'.tmp = anchor.tmp /\ anchor'.content = anchor.content
      /\ anchor'.alone <=> Saving = {}
  BY ChainFields
<1>2. Saving' = Saving \cup {g} /\ faults' = faults
  BY <1>1 DEF Saving, Chain
<1>3. TwoFiles'
  BY <1>1 DEF AnchorInv, TwoFiles
<1>4. \A i : Opened(i) => Opened(i)'
  BY <1>1 DEF Opened
<1>5. NoneEmpty'
  BY <1>1, <1>2, <1>4 DEF AnchorInv, NoneEmpty
<1>6. EndIsSaved'
  BY <1>1, <1>2 DEF EndIsSaved
<1> QED BY <1>3, <1>5, <1>6 DEF AnchorInv

\* Opening the temporary file.
LEMMA AnchorOpens ==
  ASSUME TypeOK, Finiteness, ChainInv, CallsInv, AnchorInv, NEW g \in Goroutines, AnchorOpen(g)
  PROVE  AnchorInv'
<1>1. rec[g].pc = "chained" /\ UNCHANGED <<minted, proc, faults>>
  BY DEF AnchorOpen
<1>2. PICK i \in Inodes \ {0} :
           /\ anchor.tmp # 0 => i = anchor.tmp
           /\ anchor.tmp = 0 => i # anchor.file /\ \A h \in Goroutines : rec[h].fd # i
           /\ rec'[g].pc = "opened" /\ rec'[g].sig = rec[g].sig /\ rec'[g].read = proc.last /\ rec'[g].fd = i
           /\ \A h \in Goroutines : h # g => rec'[h] = rec[h]
           /\ anchor'.file = anchor.file /\ anchor'.tmp = i /\ anchor'.alone = anchor.alone
           /\ anchor'.content[i] = 0 /\ \A j \in Inodes : j # i => anchor'.content[j] = anchor.content[j]
  BY AnchorOpenFields
<1>3. proc.last \in Sigs /\ minted # <<>>
  BY <1>1, LastIsLine DEF Recording
<1>4. Saving' = Saving /\ g \in Saving
  BY <1>1, <1>2, ZenonT(30) DEF Saving
<1>5. anchor.file \in Inodes /\ i # anchor.file
  BY <1>2, TypeNames DEF AnchorType, AnchorInv, TwoFiles
<1>6. TwoFiles'
  <2>1. ASSUME NEW h \in Goroutines, rec'[h].pc \in {"opened", "wrote"}
        PROVE  rec'[h].fd # 0 /\ rec'[h].read \in Sigs /\ (anchor'.tmp # 0 \/ anchor'.file # 0)
    <3>1. CASE h = g
      BY <1>2, <1>3, <3>1
    <3>2. CASE h # g
      BY <1>2, <2>1, <3>2 DEF AnchorInv, TwoFiles
    <3> QED BY <3>1, <3>2
  <2> QED BY <1>2, <1>5, <2>1 DEF TwoFiles
<1>7. NoneEmpty'
  <2>1. Opened(i)'
    BY <1>2, ZenonT(30) DEF Opened
  <2>2. \A j : Opened(j) => Opened(j)'
    BY <1>1, <1>2 DEF Opened
  <2> QED BY <1>1, <1>2, <1>4, <1>5, <2>1, <2>2 DEF AnchorInv, NoneEmpty
<1>8. EndIsSaved'
  <2> SUFFICES ASSUME proc.up, anchor.alone, Started
               PROVE  /\ \A h, k \in Saving' : h = k
                      /\ \A h \in Saving' :
                            /\ rec'[h].pc \in {"opened", "wrote"} => rec'[h].fd = anchor'.tmp
                            /\ rec'[h].pc = "opened" => rec'[h].read = proc'.last
                            /\ rec'[h].pc = "wrote" => anchor'.content[anchor'.tmp] = proc'.last
                      /\ Saving' = {} => anchor'.file # 0 /\ anchor'.content[anchor'.file] = proc'.last
    BY <1>1, <1>2 DEF EndIsSaved, Started
  <2>1. \A h, k \in Saving : h = k
    BY DEF AnchorInv, EndIsSaved
  <2> QED BY <1>1, <1>2, <1>4, <2>1, ZenonT(30)
<1> QED BY <1>6, <1>7, <1>8 DEF AnchorInv

\* Writing the signature.
LEMMA AnchorWrites ==
  ASSUME TypeOK, ChainInv, CallsInv, AnchorInv, NEW g \in Goroutines, AnchorWrite(g)
  PROVE  AnchorInv'
<1>1. rec[g].pc = "opened" /\ UNCHANGED <<minted, proc, faults>>
  BY DEF AnchorWrite
<1>2. /\ rec'[g].pc = "wrote" /\ rec'[g].read = rec[g].read /\ rec'[g].fd = rec[g].fd
      /\ \A h \in Goroutines : h # g => rec'[h] = rec[h]
      /\ anchor'.file = anchor.file /\ anchor'.tmp = anchor.tmp /\ anchor'.alone = anchor.alone
      /\ anchor'.content[rec[g].fd] = rec[g].read
      /\ \A j \in Inodes : j # rec[g].fd => anchor'.content[j] = anchor.content[j]
  BY AnchorWriteFields
<1>3. Saving' = Saving /\ g \in Saving
  BY <1>1, <1>2 DEF Saving
<1>4. rec[g].read \in Sigs /\ anchor.file \in Inodes /\ anchor.tmp \in Inodes
  BY <1>1, TypeNames DEF AnchorInv, TwoFiles, AnchorType
<1>5. TwoFiles'
  BY <1>1, <1>2 DEF AnchorInv, TwoFiles
<1>6. NoneEmpty'
  <2>1. \A j : Opened(j) => Opened(j)' \/ j = rec[g].fd
    BY <1>1, <1>2 DEF Opened
  <2>2. ASSUME faults = 0, NEW j \in {anchor.file, anchor.tmp} \ {0}
        PROVE  anchor'.content[j] \in Sigs \/ Opened(j)'
    <3>1. anchor.content[j] \in Sigs \/ Opened(j)
      BY <2>2 DEF AnchorInv, NoneEmpty
    <3>2. CASE j = rec[g].fd
      BY <1>2, <1>4, <3>2
    <3>3. CASE j # rec[g].fd
      BY <1>2, <1>4, <2>1, <2>2, <3>1, <3>3
    <3> QED BY <3>2, <3>3
  <2>3. faults = 0 /\ minted # <<>> => anchor.file # 0 \/ Saving # {}
    BY DEF AnchorInv, NoneEmpty
  <2> QED BY <1>1, <1>2, <1>3, <2>2, <2>3, ZenonT(30) DEF NoneEmpty
<1>7. EndIsSaved'
  <2> SUFFICES ASSUME proc.up, anchor.alone, Started
               PROVE  /\ \A h, k \in Saving' : h = k
                      /\ \A h \in Saving' :
                            /\ rec'[h].pc \in {"opened", "wrote"} => rec'[h].fd = anchor'.tmp
                            /\ rec'[h].pc = "opened" => rec'[h].read = proc'.last
                            /\ rec'[h].pc = "wrote" => anchor'.content[anchor'.tmp] = proc'.last
                      /\ Saving' = {} => anchor'.file # 0 /\ anchor'.content[anchor'.file] = proc'.last
    BY <1>1, <1>2, Zenon DEF EndIsSaved, Started
  <2>1. (\A h, k \in Saving : h = k) /\ rec[g].fd = anchor.tmp /\ rec[g].read = proc.last
    BY <1>1, <1>3, Zenon DEF AnchorInv, EndIsSaved
  <2> QED BY <1>1, <1>2, <1>3, <2>1, Zenon
<1> QED BY <1>5, <1>6, <1>7 DEF AnchorInv

\* Failing to write it.
LEMMA AnchorFails ==
  ASSUME TypeOK, ChainInv, CallsInv, AnchorInv, NEW g \in Goroutines, AnchorWriteFails(g)
  PROVE  AnchorInv'
<1>1. /\ rec' = [rec EXCEPT ![g] = [Idle EXCEPT !.pc = "saved", !.sig = rec[g].sig]]
      /\ anchor' = [anchor EXCEPT !.alone = FALSE] /\ faults' = faults + 1 /\ faults \in Nat
  BY TypeNames DEF AnchorWriteFails
<1>2. rec'[g].pc = "saved" /\ \A h \in Goroutines : h # g => rec'[h] = rec[h]
  BY <1>1, SavedFields, Zenon
<1>3. anchor'.file = anchor.file /\ anchor'.tmp = anchor.tmp /\ ~anchor'.alone
  BY <1>1, TypeNames DEF AnchorType
<1>4. TwoFiles'
  BY <1>2, <1>3 DEF AnchorInv, TwoFiles
<1>5. NoneEmpty' /\ EndIsSaved'
  BY <1>1, <1>3 DEF NoneEmpty, EndIsSaved
<1> QED BY <1>4, <1>5 DEF AnchorInv

\* Renaming.
LEMMA AnchorRenames ==
  ASSUME TypeOK, ChainInv, CallsInv, AnchorInv, NEW g \in Goroutines, AnchorRename(g)
  PROVE  AnchorInv'
<1>1. /\ rec[g].pc = "wrote" /\ UNCHANGED <<minted, proc, faults>>
      /\ rec' = [rec EXCEPT ![g] = [Idle EXCEPT !.pc = "saved", !.sig = rec[g].sig]]
  BY DEF AnchorRename
<1>2. rec'[g].pc = "saved" /\ \A h \in Goroutines : h # g => rec'[h] = rec[h]
  BY <1>1, SavedFields, Zenon
<1>3. /\ anchor'.alone = anchor.alone
      /\ anchor.tmp = 0 => anchor' = anchor
      /\ anchor.tmp # 0 =>
           /\ anchor'.file = anchor.tmp /\ anchor'.tmp = 0
           /\ \A j \in Inodes : j # anchor.file => anchor'.content[j] = anchor.content[j]
  BY AnchorRenameFields
<1>4. Saving' = Saving \ {g} /\ g \in Saving
  BY <1>1, <1>2 DEF Saving
<1>5. /\ anchor.tmp \in Inodes /\ (anchor.tmp # 0 => anchor.tmp # anchor.file)
      /\ rec[g].fd # 0 /\ (anchor.tmp # 0 \/ anchor.file # 0)
  BY <1>1, TypeNames DEF AnchorInv, TwoFiles, AnchorType
<1>6. anchor'.file # 0
  BY <1>3, <1>5
<1>7. TwoFiles'
  BY <1>2, <1>3, <1>5, <1>6 DEF AnchorInv, TwoFiles
<1>8. NoneEmpty'
  <2>1. \A j : Opened(j) => Opened(j)'
    BY <1>1, <1>2 DEF Opened
  <2>2. CASE anchor.tmp = 0
    BY <1>1, <1>3, <1>6, <2>1, <2>2 DEF AnchorInv, NoneEmpty
  <2>3. CASE anchor.tmp # 0
    <3>1. anchor'.content[anchor.tmp] = anchor.content[anchor.tmp]
      BY <1>3, <1>5, <2>3
    <3> QED BY <1>1, <1>3, <1>6, <2>1, <2>3, <3>1 DEF AnchorInv, NoneEmpty
  <2> QED BY <2>2, <2>3
<1>9. EndIsSaved'
  <2> SUFFICES ASSUME proc.up, anchor.alone, Started
               PROVE  /\ \A h, k \in Saving' : h = k
                      /\ \A h \in Saving' :
                            /\ rec'[h].pc \in {"opened", "wrote"} => rec'[h].fd = anchor'.tmp
                            /\ rec'[h].pc = "opened" => rec'[h].read = proc'.last
                            /\ rec'[h].pc = "wrote" => anchor'.content[anchor'.tmp] = proc'.last
                      /\ Saving' = {} => anchor'.file # 0 /\ anchor'.content[anchor'.file] = proc'.last
    BY <1>1, <1>3 DEF EndIsSaved, Started
  <2>1. (\A h, k \in Saving : h = k) /\ rec[g].fd = anchor.tmp /\ anchor.content[anchor.tmp] = proc.last
    BY <1>1, <1>4 DEF AnchorInv, EndIsSaved
  <2>2. Saving' = {} /\ anchor.tmp # 0
    BY <1>4, <1>5, <2>1
  <2>3. anchor'.file = anchor.tmp /\ anchor'.content[anchor.tmp] = anchor.content[anchor.tmp]
    BY <1>3, <1>5, <2>2
  <2> QED BY <1>1, <1>6, <2>1, <2>2, <2>3
<1> QED BY <1>7, <1>8, <1>9 DEF AnchorInv

\* Stopping, cleanly or not.
LEMMA AnchorStops ==
  ASSUME TypeOK, Finiteness, ChainInv, CallsInv, AnchorInv, Close \/ Crash \/ PowerLoss
  PROVE  AnchorInv'
<1>1. rec' = [g \in Goroutines |-> Idle] /\ proc' = [proc EXCEPT !.up = FALSE]
  BY Zenon DEF Close, Crash, PowerLoss, Stop
<1>2. \A h \in Goroutines : rec'[h].pc = "idle"
  BY <1>1, SmallTypes, Zenon
<1>3. ~proc'.up
  BY <1>1, TypeNames
<1>4. anchor'.file = anchor.file /\ anchor'.tmp = anchor.tmp
  <2>1. CASE Close
    BY <2>1 DEF Close
  <2>2. CASE Crash
    BY <2>2, TypeNames DEF Crash, AnchorType
  <2>3. CASE PowerLoss
    BY <2>3, PowerLossFields
  <2> QED BY <2>1, <2>2, <2>3
<1>5. TwoFiles'
  BY <1>2, <1>4 DEF AnchorInv, TwoFiles
<1>6. EndIsSaved'
  BY <1>3 DEF EndIsSaved
<1>7. NoneEmpty'
  <2>1. CASE Close
    <3>1. /\ UNCHANGED <<minted, anchor, faults>> /\ \A h \in Goroutines : rec[h].pc = "idle"
      BY <2>1 DEF Close
    <3>2. Saving = {} /\ \A j : ~Opened(j)
      BY <3>1 DEF Saving, Opened
    <3> QED BY <3>1, <3>2 DEF AnchorInv, NoneEmpty
  <2>2. CASE Crash \/ PowerLoss
    <3>1. faults' = faults + 1
      BY <2>2, Zenon DEF Crash, PowerLoss
    <3>2. faults \in Nat
      BY TypeNames, AuditConstants
    <3> QED BY <3>1, <3>2 DEF NoneEmpty
  <2> QED BY <2>1, <2>2
<1> QED BY <1>5, <1>6, <1>7 DEF AnchorInv

\* Starting again: no line of the new start is there.
LEMMA AnchorStarts ==
  ASSUME TypeOK, ChainInv, CallsInv, AnchorInv, Start
  PROVE  AnchorInv'
<1>1. UNCHANGED <<minted, rec, anchor, faults>> /\ proc'.boot = proc.boot + 1
  BY DEF Start
<1>2. proc.boot \in Nat /\ \A s \in DOMAIN minted : minted[s].boot \in Nat /\ minted[s].boot <= proc.boot
  <2>1. proc \in [up : BOOLEAN, boot : 1 .. MaxBoots, last : -MaxBoots .. MaxLines, seq : 0 .. MaxLines]
    BY TypeNames
  <2>2. proc.boot \in Nat
    BY <2>1, AuditConstants
  <2>3. \A s \in DOMAIN minted : minted[s] \in Line
    BY MintedSeq, Zenon
  <2>4. \A s \in DOMAIN minted : minted[s].boot \in Nat
    BY <2>3, AuditConstants DEF Line
  <2>5. \A s \in DOMAIN minted : minted[s].boot <= proc.boot
    BY DEF ChainInv
  <2> QED BY <2>2, <2>4, <2>5, Zenon
<1>3. ~Started'
  <2>1. \A s \in DOMAIN minted : minted[s].boot # proc.boot + 1
    BY <1>2
  <2> QED BY <1>1, <2>1, Zenon DEF Started
<1>4. EndIsSaved'
  BY <1>3 DEF EndIsSaved
<1>5. Saving' = Saving /\ \A j : Opened(j)' = Opened(j)
  BY <1>1 DEF Saving, Opened
<1>6. TwoFiles' /\ NoneEmpty'
  BY <1>1, <1>5 DEF AnchorInv, TwoFiles, NoneEmpty
<1> QED BY <1>4, <1>6 DEF AnchorInv

\* Concurrent calls of saveAnchor never lose the anchor (logger.go: saveAnchor).
LEMMA AnchorStep ==
  ASSUME TypeOK, Finiteness, ChainInv, CallsInv, AnchorInv, [Next]_vars
  PROVE  AnchorInv'
<1>1. UNCHANGED minted => Relabelled
  BY UnchangedRelabels
<1>2. /\ faults \in Nat
      /\ rec \in [Goroutines -> CallType] /\ Idle \in CallType /\ Idle.pc = "idle"
  <2>1. faults \in Nat
    BY TypeNames, AuditConstants
  <2> QED BY <2>1, TypeNames, SmallTypes, Zenon
<1>3. ASSUME NEW g \in Goroutines, FileWrite(g) \/ FileWriteFails(g) PROVE AnchorInv'
  <2>1. /\ rec[g].pc = "saved" /\ rec' = [rec EXCEPT ![g] = Idle] /\ UNCHANGED <<proc, anchor>>
        /\ faults' = faults \/ faults' = faults + 1
    BY <1>3, Zenon DEF FileWrite, FileWriteFails
  <2>2. Relabelled
    BY <1>3, WriteRelabels
  <2>3. rec'[g].pc = "idle" /\ \A h \in Goroutines : h # g => rec'[h] = rec[h]
    BY <1>2, <2>1
  <2>4. \A h \in Goroutines : rec[h].pc \in {"chained", "opened", "wrote"} \/ rec'[h].pc \in {"chained", "opened", "wrote"}
                                 => rec'[h] = rec[h]
    BY <2>1, <2>3
  <2>5. faults' = 0 => faults = 0
    BY <1>2, <2>1
  <2> QED BY <2>1, <2>2, <2>4, <2>5, AnchorLeft
<1>4. ASSUME Prune PROVE AnchorInv'
  <2>1. UNCHANGED <<minted, proc, anchor, faults>>
    BY <1>4 DEF Prune
  <2>2. rec[Pruner].pc = "idle" /\ rec'[Pruner].pc = "pruned" /\ \A h \in Goroutines : h # Pruner => rec'[h] = rec[h]
    BY <1>4, PruneFields
  <2>3. \A h \in Goroutines : rec[h].pc \in {"chained", "opened", "wrote"} \/ rec'[h].pc \in {"chained", "opened", "wrote"}
                                 => rec'[h] = rec[h]
    BY <2>2
  <2> QED BY <1>1, <2>1, <2>3, AnchorLeft
<1>5. ASSUME SyslogTake \/ SyslogDone \/ NextDay \/ UNCHANGED vars PROVE AnchorInv'
  <2>1. UNCHANGED <<minted, proc, rec, anchor, faults>>
    BY <1>5 DEF SyslogTake, SyslogDone, NextDay, vars
  <2> QED BY <1>1, <2>1, AnchorLeft
<1> QED BY <1>3, <1>4, <1>5, AnchorChain, AnchorOpens, AnchorWrites, AnchorFails, AnchorRenames, AnchorStops,
           AnchorStarts DEF Next

----------------------------------------------------------------------------
(* Finiteness *)

INSTANCE FiniteSetTheorems

\* There are more inodes than files and open descriptors, so the truncating open of
\* saveAnchor finds a fresh one (logger.go: saveAnchor).
LEMMA FreeInodeIsFree ==
  ASSUME TypeOK, anchor.tmp = 0
  PROVE  /\ FreeInode \in Inodes \ {0} /\ FreeInode # anchor.file
         /\ \A g \in Goroutines : rec[g].fd # FreeInode
<1> DEFINE N == Cardinality(Goroutines) + 2
           S == 1 .. N
           e == {g \in Goroutines : g \notin g}
           T == Goroutines \cup {e}
           Holds(h, i) == IF h = e THEN anchor.file = i ELSE rec[h].fd = i
           Free(i) == i \notin {anchor.file, anchor.tmp} \cup {rec[g].fd : g \in Goroutines}
<1>0. e \notin Goroutines
  OBVIOUS
<1> HIDE DEF e
<1>10. IsFiniteSet(Goroutines) /\ Cardinality(Goroutines) \in Nat
  <2>1. IsFiniteSet(Goroutines)
    BY AuditAssumption, FS_AddElement DEF Goroutines
  <2> QED BY <2>1, FS_CardinalityType
<1>1. N \in Nat /\ S = Inodes \ {0}
  BY <1>10 DEF Inodes
<1>2. IsFiniteSet(S) /\ Cardinality(S) = N
  BY <1>1, FS_Interval
<1>3. IsFiniteSet(T) /\ Cardinality(T) < Cardinality(S)
  <2>1. IsFiniteSet(T) /\ Cardinality(T) = Cardinality(Goroutines) + 1
    BY <1>0, <1>10, FS_AddElement
  <2>2. Cardinality(T) \in Nat
    BY <2>1, FS_CardinalityType
  <2> HIDE DEF T, S
  <2> QED BY <1>2, <1>10, <2>1, <2>2
<1>4. \E i \in S : Free(i)
  <2> SUFFICES ASSUME \A i \in S : ~Free(i)
               PROVE  FALSE
    OBVIOUS
  <2> DEFINE f == [i \in S |-> CHOOSE h \in T : Holds(h, i)]
  <2>1. ASSUME NEW i \in S PROVE \E h \in T : Holds(h, i)
    <3>1. i # 0
      BY <1>1
    <3>2. CASE anchor.file = i
      BY <3>2
    <3>3. CASE \E g \in Goroutines : rec[g].fd = i
      BY <1>0, <3>3
    <3> QED BY <3>1, <3>2, <3>3
  <2>2. \A i \in S : f[i] \in T /\ Holds(f[i], i)
    BY <2>1
  <2>3. f \in [S -> T]
    BY <2>2
  <2> HIDE DEF f, S, T
  <2>4. PICK x, y \in S : x # y /\ f[x] = f[y]
    BY <1>2, <1>3, <2>3, FS_PigeonHole
  <2>5. Holds(f[x], x) /\ Holds(f[x], y)
    BY <2>2, <2>4
  <2> QED BY <2>4, <2>5
<1>5. \E i \in Inodes \ {0} : Free(i)
  BY <1>1, <1>4
<1>6. FreeInode \in Inodes \ {0} /\ Free(FreeInode)
  BY <1>5 DEF FreeInode
<1> QED BY <1>6

\* A set of natural numbers has a least element.
LEMMA LeastNumber ==
  ASSUME NEW T, T \subseteq Nat, T # {}
  PROVE  \E x \in T : \A y \in T : x <= y
<1> DEFINE R == OpToRel(<, Nat)
<1>1. \E x \in T : \A y \in T : ~ (<<y, x>> \in R)
  <2>1. IsWellFoundedOn(R, Nat)
    BY NatLessThanWellFounded, Zenon
  <2> HIDE DEF R
  <2> QED BY <2>1, WFMin, Zenon
<1>2. \A x, y \in Nat : y < x => <<y, x>> \in R
  BY DEF OpToRel
<1> HIDE DEF R
<1>3. PICK x \in T : \A y \in T : ~ (<<y, x>> \in R)
  BY <1>1
<1>4. ASSUME NEW y \in T PROVE x <= y
  <2>1. x \in Nat /\ y \in Nat /\ ~(y < x)
    BY <1>2, <1>3, Zenon
  <2> QED BY <2>1
<1> QED BY <1>4

\* What a loss of power leaves of a file: a prefix with all its synced lines
\* (file_rotator.go: Write).
LEMMA SyncedIsPrefix ==
  ASSUME NEW f \in Seq(Sigs)
  PROVE  /\ Synced(f) \in Seq(Sigs) /\ Len(Synced(f)) <= Len(f)
         /\ \A i \in 1 .. Len(Synced(f)) : Synced(f)[i] = f[i]
         /\ \A i \in 1 .. Len(f) : f[i] \in logs.synced => i \in 1 .. Len(Synced(f))
<1> DEFINE upto == {0} \cup {i \in 1 .. Len(f) : f[i] \in logs.synced}
           n == CHOOSE i \in upto : \A j \in upto : j <= i
           Bounds == {k \in Nat : \A j \in upto : j <= k}
<1>1. Len(f) \in Nat /\ \A i \in 1 .. Len(f) : f[i] \in Sigs
  OBVIOUS
<1>2. 0 \in upto /\ upto \subseteq 0 .. Len(f)
  BY <1>1
<1>3. Len(f) \in Bounds /\ Bounds \subseteq Nat
  BY <1>1, <1>2
<1>4. PICK x \in Bounds : \A y \in Bounds : x <= y
  BY <1>3, LeastNumber, Zenon
<1>5. x \in upto
  <2> SUFFICES ASSUME x \notin upto PROVE FALSE
    OBVIOUS
  <2>1. x \in Nat /\ x # 0 /\ \A j \in upto : j \in Nat /\ j <= x /\ j # x
    BY <1>1, <1>2, <1>4
  <2>2. x - 1 \in Nat /\ \A j \in upto : j <= x - 1
    BY <2>1
  <2>3. x - 1 \in Bounds
    BY <2>2
  <2> QED BY <1>4, <2>1, <2>3
<1>6. \E i \in upto : \A j \in upto : j <= i
  BY <1>4, <1>5
<1>7. n \in upto /\ \A j \in upto : j <= n
  BY <1>6, Zenon
<1>8. Synced(f) = SubSeq(f, 1, n)
  BY DEF Synced
<1>9. n \in 0 .. Len(f)
  BY <1>2, <1>7
<1>10. \A i \in 1 .. Len(f) : f[i] \in logs.synced => i <= n
  BY <1>7
<1> HIDE DEF n, upto
<1>11. \A i \in 1 .. n : f[i] \in Sigs
  BY <1>1, <1>9
<1>12. /\ SubSeq(f, 1, n) \in Seq(Sigs) /\ Len(SubSeq(f, 1, n)) = n
       /\ \A i \in 1 .. n : SubSeq(f, 1, n)[i] = f[i]
  <2>1. 1 \in Int /\ n \in Int
    BY <1>1, <1>9
  <2>2. /\ SubSeq(f, 1, n) \in Seq(Sigs)
        /\ Len(SubSeq(f, 1, n)) = IF 1 <= n THEN n - 1 + 1 ELSE 0
        /\ \A i \in 1 .. n - 1 + 1 : SubSeq(f, 1, n)[i] = f[1 + i - 1]
    BY <1>11, <2>1
  <2> HIDE DEF Bounds
  <2> QED BY <1>1, <1>9, <2>2
<1> QED BY <1>1, <1>8, <1>9, <1>10, <1>12

\* The files hold no more lines than there are signatures (query.go: Query).
LEMMA CountOnDisk == Cardinality(OnDisk \cap Sigs) \in 0 .. MaxLines
<1> DEFINE found == OnDisk \cap Sigs
<1>1. IsFiniteSet(Sigs) /\ Cardinality(Sigs) = MaxLines
  BY AuditConstants, FS_Interval DEF Sigs
<1>2. found \subseteq Sigs
  OBVIOUS
<1> HIDE DEF found
<1>3. Cardinality(found) \in Nat /\ Cardinality(found) <= MaxLines
  BY <1>1, <1>2, FS_Subset, FS_CardinalityType
<1> QED BY <1>3, AuditConstants DEF found

\* Every typed state has a spare inode and an end of what is on the platter.
LEMMA FinitenessHolds ==
  ASSUME TypeOK
  PROVE  Finiteness
BY FreeInodeIsFree, SyncedIsPrefix, CountOnDisk DEF Finiteness

----------------------------------------------------------------------------
(* The theorems *)

\* The invariant of the audit log, for any number of concurrent calls of Record,
\* days, errors, crashes, losses of power and restarts.
THEOREM AuditInvariant == Spec => []AuditInv
<1>1. Init => AuditInv
  BY AuditInitially
<1>2. AuditInv /\ [Next]_vars => AuditInv'
  <2> SUFFICES ASSUME AuditInv, [Next]_vars PROVE AuditInv'
    OBVIOUS
  <2>1. TypeOK /\ ChainInv /\ CallsInv /\ AnchorInv /\ FilesInv
    BY DEF AuditInv
  <2>2. TypeOK'
    BY <2>1, FinitenessHolds, AuditTypeStep
  <2>3. ChainInv' /\ CallsInv' /\ AnchorInv' /\ FilesInv'
    BY <2>1, <2>2, FinitenessHolds, ChainStep, CallsStep, AnchorStep, FilesStep
  <2> QED BY <2>2, <2>3 DEF AuditInv
<1> QED BY <1>1, <1>2, PTL DEF Spec

\* The variables keep their types: the syslog queue never exceeds its channel and the
\* chain never outgrows its numbers (syslog_writer.go: Write, logger.go: Record).
THEOREM AuditTypeOK == Spec => []TypeOK
<1>1. AuditInv => TypeOK
  BY DEF AuditInv
<1> QED BY <1>1, AuditInvariant, PTL

\* Every answer of Query shows the lines of the running process in chain order,
\* although they were written in any order (query.go: Query).
THEOREM AuditQueryShowsChain == Spec => []QueryShowsChain
<1>1. AuditInv => QueryShowsChain
  BY QueryInOrder, FinitenessHolds DEF AuditInv
<1> QED BY <1>1, AuditInvariant, PTL

\* Once nobody is saving, the anchor is the end of the chain if the last call was alone,
\* and a signature of the chain in any case unless an error struck (logger.go:
\* saveAnchor).
THEOREM AuditAnchorFollowsChain == Spec => []AnchorFollowsChain
<1>1. AuditInv => AnchorFollowsChain
  BY AnchorAtRest
<1> QED BY <1>1, AuditInvariant, PTL

\* A line whose Record returned nil is in exactly one file, once, until its archive has
\* expired (file_rotator.go: Write, rotateLocked, pruneOldFiles).
THEOREM AuditReturnedIsKept == Spec => []ReturnedIsKept
<1>1. AuditInv => ReturnedIsKept
  BY KeptOnce
<1> QED BY <1>1, AuditInvariant, PTL

=============================================================================
