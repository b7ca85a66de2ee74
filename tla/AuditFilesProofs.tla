-------------------------- MODULE AuditFilesProofs --------------------------
(***************************************************************************)
(* Theorems about AuditFiles, for any traces, sizes, faults and stops: the *)
(* types, the checkpoint chain that is never broken and never loses a      *)
(* committed checkpoint, the log that is always readable, the records that *)
(* survive whatever fails, the traces never silently cut short, and the    *)
(* verifier that finds fault with none but those sealed more than once.    *)
(***************************************************************************)
EXTENDS AuditFiles, CheckpointFileProofs, FiniteSetTheorems, WellFoundedInduction

(* The entries a seal may write.                                           *)
ValidEntry == {e \in LogEntry : e.seqInTrace < Size[e.trace]}

SealTyped ==
  /\ logPoisoned \in BOOLEAN /\ unmarked \in BOOLEAN
  /\ buffered \subseteq Traces /\ cur \in Traces \cup {NoTrace}
  /\ at \in {"idle", "write", "sync", "tip", "checkpoint", "mark", "quarantine"}
  /\ at # "idle" => cur \in Traces /\ cpStep # "down"
  /\ written \in Nat
  /\ walOpen \subseteq Traces /\ walOwed \in Seq(Tips) /\ quarantined \subseteq Traces
  /\ attempts \in [Traces -> Nat] /\ earlier \subseteq Traces
  /\ faults \in 0 .. MaxFaults /\ stops \in 0 .. MaxStops

(* The log ends in a newline whenever something may be appended to it.     *)
LogInv ==
  /\ log \in Tidy(ValidEntry) /\ logDisk \in Tidy(ValidEntry) /\ logBefore \in Tidy(ValidEntry)
  /\ cpStep # "down" /\ ~logPoisoned => log.tail = <<>>
  /\ Sealing => ~logPoisoned /\ logBefore.tail = <<>>
  /\ at = "write" => written < Size[cur]
  /\ at = "sync" => written = Size[cur]

(* Every entry of t is in the part that the given files have in common.    *)
Held(t, files) ==
  \A n \in 0 .. Size[t] - 1 :
    \E i \in Nat \ {0} :
      \A f, g \in files : Same(i, f, g) /\ f.lines[i] = Entry(t, n)

KeptInv ==
  /\ \A t \in Traces : t \in walOpen \/ t \in quarantined \/ Held(t, LogFiles)
  /\ at \in {"tip", "checkpoint", "mark"} => Held(cur, LogFiles)
  /\ Sealing => \A n \in 0 .. written - 1 :
                  \E i \in 1 .. Len(log.lines) : log.lines[i] = Entry(cur, n)

AuditInv == CpInv /\ SealTyped /\ LogInv /\ KeptInv

(* A trace that is held in the log is held there ever after.               *)
HeldStays == \A t \in Traces : Held(t, LogFiles) => Held(t, LogFiles')

-----------------------------------------------------------------------------
LEMMA JunkIsNoEntry == Junk \notin ValidEntry
BY LogEntryAssumption DEF ValidEntry

LEMMA TipTyped ==
  ASSUME NEW t \in Traces
  PROVE  TipOf(t) \in Tips
BY AuditFilesAssumption DEF TipOf

LEMMA NextEntryValid ==
  ASSUME SealTyped, LogInv, at = "write"
  PROVE  NextEntry \in ValidEntry
BY DEF SealTyped, LogInv, NextEntry, Entry, ValidEntry, LogEntry

LEMMA TidyIsFile ==
  ASSUME NEW V, NEW W, V \subseteq W, NEW f \in Tidy(V)
  PROVE  f \in File(W)
<1>1. /\ f.lines \in Seq(V) /\ f.tail \in Seq(V \cup {Junk}) /\ Len(f.tail) <= 1
      /\ f = [lines |-> f.lines, tail |-> f.tail]
  BY TidyTail, TidyTypes
<1>2. f.lines \in Seq(W \cup {Junk}) /\ f.tail \in Seq(W \cup {Junk})
  <2>1. V \subseteq W \cup {Junk} /\ V \cup {Junk} \subseteq W \cup {Junk}
    OBVIOUS
  <2> QED BY <1>1, <2>1, SeqMonotonic
<1> QED BY <1>1, <1>2 DEF File

(* A file that has all the lines of another and perhaps more.              *)
Grown(f, g) ==
  /\ Len(f.lines) <= Len(g.lines)
  /\ \A i \in 1 .. Len(f.lines) : g.lines[i] = f.lines[i]

LEMMA GrownByAppend ==
  ASSUME NEW V, NEW f, NEW g, f.lines \in Seq(V), NEW v \in V,
         g.lines = f.lines \/ g.lines = Append(f.lines, v)
  PROVE  Grown(f, g)
<1>1. Len(f.lines) \in Nat
  BY LenProperties
<1>2. CASE g.lines = f.lines
  BY <1>1, <1>2 DEF Grown
<1>3. CASE g.lines = Append(f.lines, v)
  BY <1>1, <1>3, AppendProperties DEF Grown
<1> QED BY <1>2, <1>3

(* Files that grow keep what they hold.                                    *)
LEMMA HeldGrows ==
  ASSUME NEW t, NEW files, NEW grown, Held(t, files),
         \A f \in files \cup grown : Len(f.lines) \in Nat,
         \A g \in grown : \E f \in files : Grown(f, g)
  PROVE  Held(t, grown)
<1> SUFFICES ASSUME NEW n \in 0 .. Size[t] - 1
             PROVE  \E i \in Nat \ {0} :
                      \A f, g \in grown : Same(i, f, g) /\ f.lines[i] = Entry(t, n)
  BY DEF Held
<1>1. PICK i \in Nat \ {0} :
        \A f, g \in files : Same(i, f, g) /\ f.lines[i] = Entry(t, n)
  BY DEF Held
<1>2. ASSUME NEW f1 \in grown, NEW g1 \in grown
      PROVE  Same(i, f1, g1) /\ f1.lines[i] = Entry(t, n)
  <2>1. PICK f \in files : Grown(f, f1)
    OBVIOUS
  <2>2. PICK g \in files : Grown(g, g1)
    OBVIOUS
  <2>3. /\ Same(i, f, g) /\ f.lines[i] = Entry(t, n)
        /\ Len(f.lines) \in Nat /\ Len(g.lines) \in Nat
        /\ Len(f1.lines) \in Nat /\ Len(g1.lines) \in Nat
    BY <1>1
  <2>4. i <= Len(f1.lines) /\ i <= Len(g1.lines)
    BY <2>1, <2>2, <2>3 DEF Grown, Same
  <2>5. ASSUME NEW j \in 1 .. i
        PROVE  f1.lines[j] = f.lines[j] /\ g1.lines[j] = g.lines[j] /\ f.lines[j] = g.lines[j]
    <3>1. j \in 1 .. Len(f.lines) /\ j \in 1 .. Len(g.lines)
      BY <2>3 DEF Same
    <3> QED BY <2>1, <2>2, <2>3, <3>1 DEF Grown, Same
  <2>6. i \in 1 .. i
    OBVIOUS
  <2> QED BY <2>3, <2>4, <2>5, <2>6 DEF Same
<1> QED BY <1>2

(* So does what a power loss leaves of the disk and the cache.             *)
LEMMA HeldSurvives ==
  ASSUME NEW t, NEW V, NEW disk \in Tidy(V), NEW cache \in Tidy(V), Held(t, {disk, cache}),
         NEW g \in Survivors(disk, cache)
  PROVE  Held(t, {g})
<1>0. PICK f \in {disk, cache} :
        \E k \in 0 .. Len(f.lines) :
          Front(f, g, k) /\ \A n \in Agreeing(disk, cache) : n <= k
  BY SurvivorsTidy
<1>1. PICK k \in 0 .. Len(f.lines) : Front(f, g, k) /\ \A n \in Agreeing(disk, cache) : n <= k
  BY <1>0
<1>2. Len(g.lines) = k /\ \A i \in 1 .. k : g.lines[i] = f.lines[i]
  BY <1>1, FrontTidy
<1> SUFFICES ASSUME NEW n \in 0 .. Size[t] - 1
             PROVE  \E i \in Nat \ {0} :
                      \A f1, g1 \in {g} : Same(i, f1, g1) /\ f1.lines[i] = Entry(t, n)
  BY DEF Held
<1>3. PICK i \in Nat \ {0} :
        \A f1, g1 \in {disk, cache} : Same(i, f1, g1) /\ f1.lines[i] = Entry(t, n)
  BY DEF Held
<1>4. Same(i, disk, cache) /\ f.lines[i] = Entry(t, n)
  BY <1>3
<1>5. Len(disk.lines) \in Nat /\ Len(cache.lines) \in Nat
  BY TidyTail, LenProperties
<1>6. i \in Agreeing(disk, cache)
  BY <1>4, <1>5 DEF Same, Agreeing
<1>7. i \in 1 .. k
  BY <1>1, <1>6
<1>8. Same(i, g, g) /\ g.lines[i] = Entry(t, n)
  BY <1>2, <1>4, <1>7 DEF Same
<1> QED BY <1>8

-----------------------------------------------------------------------------
(* The log and the seal, for the steps that leave the log alone.           *)
LEMMA LogFacts ==
  ASSUME AuditInv
  PROVE  /\ log \in Tidy(ValidEntry) /\ logDisk \in Tidy(ValidEntry)
         /\ logBefore \in Tidy(ValidEntry)
         /\ log.lines \in Seq(ValidEntry)
         /\ \A f \in {log, logDisk, logBefore} : Len(f.lines) \in Nat
BY TidyTail, LenProperties DEF AuditInv, LogInv

LEMMA FewerFiles ==
  ASSUME NEW t, NEW files, NEW fewer \in SUBSET files, Held(t, files)
  PROVE  Held(t, fewer)
BY DEF Held

(* With the log files as they were the traces stay as safe as they were.   *)
LEMMA LogUntouched ==
  ASSUME AuditInv,
         UNCHANGED <<log, logDisk, logBefore, logPoisoned>>,
         at' \in {"write", "sync"} => at' = at,
         cpStep' # "down" => cpStep # "down",
         UNCHANGED <<walOpen, quarantined>>,
         at' \in {"write", "sync"} => cur' = cur /\ written' = written,
         at' \in {"tip", "checkpoint", "mark"} =>
           at \in {"tip", "checkpoint", "mark"} /\ cur' = cur
  PROVE  LogInv' /\ KeptInv' /\ HeldStays
<1>1. LogInv'
  BY DEF AuditInv, LogInv, Sealing
<1>2. LogFiles' \subseteq LogFiles
  BY DEF LogFiles, Sealing
<1>3. \A t \in Traces : Held(t, LogFiles) => Held(t, LogFiles')
  BY <1>2, FewerFiles
<1>4. at' \in {"tip", "checkpoint", "mark"} => Held(cur', LogFiles')
  BY <1>2, FewerFiles DEF AuditInv, KeptInv
<1>5. KeptInv'
  BY <1>3, <1>4 DEF AuditInv, KeptInv, Sealing
<1> QED BY <1>1, <1>3, <1>5 DEF HeldStays

LEMMA BeginSealInv ==
  ASSUME AuditInv, NEW t \in Traces, BeginSeal(t)
  PROVE  AuditInv' /\ HeldStays
<1>1. CpInv'
  BY CpUnchanged DEF AuditInv, BeginSeal, checkpointFileVars
<1>2. SealTyped'
  BY DEF AuditInv, SealTyped, BeginSeal, checkpointFileVars, cpVars, walVars
<1>3. CASE logPoisoned
  <2>1. LogInv' /\ KeptInv' /\ HeldStays
    BY <1>3, LogUntouched DEF BeginSeal, checkpointFileVars, cpVars, walVars
  <2> QED BY <1>1, <1>2, <2>1 DEF AuditInv
<1>4. CASE ~logPoisoned
  <2>1. /\ at' = "write" /\ logBefore' = log /\ written' = 0 /\ cur' = t
        /\ UNCHANGED <<log, logDisk, logPoisoned, walOpen, quarantined, cpStep>>
        /\ at = "idle" /\ cpStep # "down"
    BY <1>4 DEF BeginSeal, checkpointFileVars, cpVars, walVars
  <2>2. Size[t] \in Nat \ {0}
    BY AuditFilesAssumption
  <2>3. LogInv'
    BY <1>4, <2>1, <2>2 DEF AuditInv, LogInv, Sealing
  <2>4. LogFiles' \subseteq LogFiles
    BY <2>1 DEF LogFiles, Sealing
  <2>5. \A u \in Traces : Held(u, LogFiles) => Held(u, LogFiles')
    BY <2>4, FewerFiles
  <2>6. KeptInv'
    BY <2>1, <2>5 DEF AuditInv, KeptInv, Sealing
  <2> QED BY <1>1, <1>2, <2>3, <2>5, <2>6 DEF AuditInv, HeldStays
<1> QED BY <1>3, <1>4

LEMMA WriteEntryInv ==
  ASSUME AuditInv, WriteEntry
  PROVE  AuditInv' /\ HeldStays
<1>1. /\ at = "write" /\ log.tail = <<>> /\ written < Size[cur]
      /\ NextEntry \in ValidEntry
      /\ written \in Nat /\ cur \in Traces /\ Size[cur] \in Nat
  BY NextEntryValid, AuditFilesAssumption DEF AuditInv, LogInv, SealTyped, WriteEntry, Sealing
<1>2. /\ log' = [lines |-> Append(log.lines, NextEntry), tail |-> <<>>]
      /\ log' \in Tidy(ValidEntry)
  BY <1>1, LogFacts, WrittenTidy DEF WriteEntry
<1>3. log'.lines = Append(log.lines, NextEntry) /\ log'.tail = <<>>
  BY <1>2
<1>4. CpInv'
  BY CpUnchanged DEF AuditInv, WriteEntry, checkpointFileVars
<1>5. /\ written' = written + 1
      /\ \/ at' = "sync" /\ written' = Size[cur]
         \/ at' = "write" /\ written' # Size[cur]
      /\ UNCHANGED <<logDisk, logBefore, logPoisoned, cur, walOpen, quarantined, cpStep>>
  BY DEF WriteEntry, AfterLastEntry, checkpointFileVars, cpVars, walVars
<1>6. SealTyped'
  BY <1>1, <1>5 DEF AuditInv, SealTyped, WriteEntry, checkpointFileVars, cpVars, walVars,
                    historyVars
<1>7. LogInv'
  BY <1>1, <1>2, <1>3, <1>5 DEF AuditInv, LogInv, Sealing
<1>8. Grown(log, log') /\ \A f \in LogFiles : Grown(f, f)
  <2>1. Grown(log, log')
    BY <1>1, <1>3, LogFacts, GrownByAppend
  <2>2. \A f \in LogFiles : Grown(f, f)
    BY LogFacts DEF LogFiles, Grown
  <2> QED BY <2>1, <2>2
<1>9. LogFiles' = {log', logDisk, logBefore} /\ LogFiles = {log, logDisk, logBefore}
  BY <1>1, <1>5 DEF LogFiles, Sealing
<1>10. \A f \in LogFiles \cup LogFiles' : Len(f.lines) \in Nat
  BY <1>2, <1>9, LogFacts, TidyTail, LenProperties
<1>11. ASSUME NEW u \in Traces, Held(u, LogFiles)
       PROVE  Held(u, LogFiles')
  <2>1. \A g \in LogFiles' : \E f \in LogFiles : Grown(f, g)
    BY <1>8, <1>9
  <2> QED BY <1>10, <1>11, <2>1, HeldGrows
<1>12. \A n \in 0 .. written' - 1 :
         \E i \in 1 .. Len(log'.lines) : log'.lines[i] = Entry(cur', n)
  <2>1. /\ Len(log'.lines) = Len(log.lines) + 1
        /\ \A i \in 1 .. Len(log.lines) : log'.lines[i] = log.lines[i]
        /\ log'.lines[Len(log.lines) + 1] = NextEntry
        /\ Len(log.lines) \in Nat
    BY <1>1, <1>3, LogFacts, AppendProperties
  <2>2. SUFFICES ASSUME NEW n \in 0 .. written' - 1
                 PROVE  \E i \in 1 .. Len(log'.lines) : log'.lines[i] = Entry(cur', n)
    OBVIOUS
  <2>3. CASE n = written
    <3>1. NextEntry = Entry(cur', n)
      BY <1>5, <2>3 DEF NextEntry
    <3>2. Len(log.lines) + 1 \in 1 .. Len(log'.lines)
      BY <2>1
    <3> QED BY <2>1, <3>1, <3>2
  <2>4. CASE n # written
    <3>1. n \in 0 .. written - 1
      BY <1>1, <1>5, <2>4
    <3>2. PICK i \in 1 .. Len(log.lines) : log.lines[i] = Entry(cur, n)
      BY <1>1, <3>1 DEF AuditInv, KeptInv, Sealing
    <3>3. i \in 1 .. Len(log'.lines) /\ log'.lines[i] = Entry(cur', n)
      BY <1>5, <2>1, <3>2
    <3> QED BY <3>3
  <2> QED BY <2>3, <2>4
<1>13. KeptInv'
  BY <1>5, <1>11, <1>12 DEF AuditInv, KeptInv, Sealing
<1> QED BY <1>4, <1>6, <1>7, <1>11, <1>13 DEF AuditInv, HeldStays

(* What poisonLog and the repair leave of a file with all the lines of the *)
(* log: it has them still.                                                 *)
LEMMA MarkedKeeps ==
  ASSUME NEW file \in Tidy(ValidEntry)
  PROVE  Marked(file) \in Tidy(ValidEntry) /\ Marked(file).lines = file.lines
<1>1. file = [lines |-> file.lines, tail |-> file.tail] /\ file.lines \in Seq(ValidEntry)
  BY TidyTail
<1>2. Marked(file) = [lines |-> file.lines, tail |-> <<Junk>>]
  BY <1>1 DEF Marked
<1>3. <<Junk>> \in Seq(ValidEntry \cup {Junk}) /\ Len(<<Junk>>) <= 1
  OBVIOUS
<1>4. Marked(file) \in Tidy(ValidEntry)
  BY <1>1, <1>2, <1>3, TidyMade
<1>5. Marked(file).lines = file.lines
  BY <1>2
<1> QED BY <1>4, <1>5

LEMMA RepairedKeeps ==
  ASSUME NEW file \in Tidy(ValidEntry)
  PROVE  /\ Repaired(file) \in Tidy(ValidEntry) /\ Repaired(file).tail = <<>>
         /\ Grown(file, Repaired(file))
<1>1. file.lines \in Seq(ValidEntry) /\ Len(file.lines) \in Nat
  BY TidyTail, LenProperties
<1>2. CASE Repaired(file).lines = file.lines
  BY <1>1, <1>2, RepairedTidy DEF Grown
<1>3. CASE file.tail[1] \in ValidEntry /\ Repaired(file).lines = Append(file.lines, file.tail[1])
  <2>1. Grown(file, Repaired(file))
    BY <1>1, <1>3, GrownByAppend
  <2> QED BY <2>1, RepairedTidy
<1> QED BY <1>2, <1>3, RepairedTidy

LEMMA GrownTwice ==
  ASSUME NEW f, NEW g, NEW h, Grown(f, g), Grown(g, h),
         Len(f.lines) \in Nat, Len(g.lines) \in Nat, Len(h.lines) \in Nat
  PROVE  Grown(f, h)
<1>1. Len(f.lines) <= Len(h.lines)
  BY DEF Grown
<1>2. ASSUME NEW i \in 1 .. Len(f.lines)
      PROVE  h.lines[i] = f.lines[i]
  <2>1. i \in 1 .. Len(g.lines)
    BY DEF Grown
  <2> QED BY <2>1 DEF Grown
<1> QED BY <1>1, <1>2 DEF Grown

LEMMA GrownItself ==
  ASSUME NEW f, Len(f.lines) \in Nat
  PROVE  Grown(f, f)
BY DEF Grown

(* The trace is given up, and each log file has grown from one of before.  *)
LEMMA LogReplaced ==
  ASSUME AuditInv,
         log' \in Tidy(ValidEntry), logDisk' \in Tidy(ValidEntry),
         \E f \in LogFiles : Grown(f, log'),
         \E f \in LogFiles : Grown(f, logDisk'),
         at' = "idle", cpStep' # "down" /\ ~logPoisoned' => log'.tail = <<>>,
         UNCHANGED <<logBefore, walOpen, quarantined>>
  PROVE  LogInv' /\ KeptInv' /\ HeldStays
<1>1. LogFiles' = {log', logDisk'} /\ LogFiles \subseteq {log, logDisk, logBefore}
  BY DEF LogFiles, Sealing
<1>2. \A f \in LogFiles \cup LogFiles' : Len(f.lines) \in Nat
  BY <1>1, LogFacts, TidyTail, LenProperties
<1>3. ASSUME NEW u \in Traces, Held(u, LogFiles)
      PROVE  Held(u, LogFiles')
  <2>1. \A g \in LogFiles' : \E f \in LogFiles : Grown(f, g)
    BY <1>1
  <2> QED BY <1>2, <1>3, <2>1, HeldGrows
<1>4. LogInv'
  BY LogFacts DEF LogInv, Sealing
<1>5. KeptInv'
  BY <1>3 DEF AuditInv, KeptInv, Sealing
<1> QED BY <1>3, <1>4, <1>5 DEF HeldStays

LEMMA PoisonKeeps ==
  ASSUME NEW file \in Tidy(ValidEntry), NEW disk \in Tidy(ValidEntry), PoisonLog(file, disk)
  PROVE  /\ logPoisoned' = TRUE
         /\ log' \in Tidy(ValidEntry) /\ logDisk' \in Tidy(ValidEntry)
         /\ log'.lines = file.lines
         /\ logDisk' = disk \/ logDisk'.lines = file.lines
BY MarkedKeeps DEF PoisonLog

LEMMA RollBackLogInv ==
  ASSUME AuditInv, Sealing, NEW safe \in BOOLEAN,
         NEW file \in Tidy(ValidEntry), file.lines = log.lines,
         NEW disk \in {log, logDisk},
         RollBackLog(file, disk, safe),
         UNCHANGED <<logBefore, walOpen, quarantined, cpStep>>
  PROVE  LogInv' /\ KeptInv' /\ HeldStays
<1>1. /\ log \in LogFiles /\ logDisk \in LogFiles /\ logBefore \in LogFiles
      /\ disk \in LogFiles /\ disk \in Tidy(ValidEntry)
  BY LogFacts DEF LogFiles, Sealing
<1>2. /\ \A f \in {log, logDisk, logBefore} : Grown(f, f)
      /\ Len(log.lines) \in Nat /\ Len(file.lines) \in Nat
      /\ Grown(log, file) /\ Grown(disk, disk)
  BY LogFacts, GrownItself, TidyTail, LenProperties DEF Grown
<1>3. at' = "idle"
  BY DEF RollBackLog, SealReturns
<1>4. CASE log' = logBefore /\ logDisk' \in {disk, logBefore} /\ UNCHANGED logPoisoned
  <2>1. log'.tail = <<>>
    BY <1>4 DEF AuditInv, LogInv
  <2>2. /\ \E f \in LogFiles : Grown(f, log')
        /\ \E f \in LogFiles : Grown(f, logDisk')
    BY <1>1, <1>2, <1>4
  <2> QED BY <1>1, <1>3, <1>4, <2>1, <2>2, LogFacts, LogReplaced
<1>5. ASSUME NEW found \in Tidy(ValidEntry), Grown(log, found), PoisonLog(found, disk)
      PROVE  LogInv' /\ KeptInv' /\ HeldStays
  <2>1. /\ logPoisoned' = TRUE
        /\ log' \in Tidy(ValidEntry) /\ logDisk' \in Tidy(ValidEntry)
        /\ log'.lines = found.lines
        /\ logDisk' = disk \/ logDisk'.lines = found.lines
    BY <1>1, <1>5, PoisonKeeps
  <2>2. Grown(log, log') /\ (logDisk' = disk \/ Grown(log, logDisk'))
    BY <1>5, <2>1 DEF Grown
  <2>3. /\ \E f \in LogFiles : Grown(f, log')
        /\ \E f \in LogFiles : Grown(f, logDisk')
    BY <1>1, <1>2, <2>2
  <2> QED BY <1>3, <2>1, <2>3, LogReplaced
<1>6. /\ Repaired(file) \in Tidy(ValidEntry) /\ Repaired(file).tail = <<>>
      /\ Grown(log, Repaired(file))
  <2>1. Repaired(file) \in Tidy(ValidEntry) /\ Repaired(file).tail = <<>>
        /\ Grown(file, Repaired(file))
    BY RepairedKeeps
  <2>2. Len(Repaired(file).lines) \in Nat
    BY <2>1, TidyTail, LenProperties
  <2> QED BY <1>2, <2>1, <2>2, GrownTwice
<1>7. CASE /\ log' = Repaired(file)
           /\ logDisk' = IF file.tail = <<>> THEN disk ELSE Repaired(file)
  <2>1. logDisk' \in {disk, Repaired(file)}
    BY <1>7
  <2>2. /\ \E f \in LogFiles : Grown(f, log')
        /\ \E f \in LogFiles : Grown(f, logDisk')
        /\ log' \in Tidy(ValidEntry) /\ logDisk' \in Tidy(ValidEntry)
        /\ log'.tail = <<>>
    BY <1>1, <1>2, <1>6, <1>7, <2>1
  <2> QED BY <1>3, <2>2, LogReplaced
<1>8. CASE RepairOrPoisonLog(file, disk)
  BY <1>2, <1>5, <1>6, <1>7, <1>8 DEF RepairOrPoisonLog
<1>9. CASE PoisonLog(file, disk)
  BY <1>2, <1>5, <1>9
<1> QED BY <1>4, <1>8, <1>9 DEF RollBackLog

LEMMA SealTypedAfterFailure ==
  ASSUME AuditInv, SealReturns, logPoisoned' \in BOOLEAN, unmarked' \in BOOLEAN,
         FaultHappens, UNCHANGED <<stops, walVars, historyVars>>
  PROVE  SealTyped'
<1>1. faults' \in 0 .. MaxFaults
  BY CheckpointAssumption DEF AuditInv, SealTyped, FaultHappens
<1> QED BY <1>1 DEF AuditInv, SealTyped, SealReturns, walVars, historyVars

LEMMA RollBackLogTypes ==
  ASSUME AuditInv, NEW file, NEW disk, NEW safe, RollBackLog(file, disk, safe)
  PROVE  SealReturns /\ logPoisoned' \in BOOLEAN /\ unmarked' \in BOOLEAN
BY DEF AuditInv, SealTyped, RollBackLog, RepairOrPoisonLog, PoisonLog

LEMMA WriteEntryFailsInv ==
  ASSUME AuditInv, WriteEntryFails
  PROVE  AuditInv' /\ HeldStays
<1>1. at = "write" /\ log.tail = <<>> /\ NextEntry \in ValidEntry /\ SafeToRepairTail \in BOOLEAN
  BY NextEntryValid DEF AuditInv, LogInv, SealTyped, WriteEntryFails, SafeToRepairTail, Sealing
<1>2. PICK file \in {log} \cup CutShort(log, NextEntry) :
        RollBackLog(file, logDisk, SafeToRepairTail)
  BY DEF WriteEntryFails
<1>3. file \in Tidy(ValidEntry) /\ file.lines = log.lines
  BY <1>1, <1>2, LogFacts, CutShortTidy
<1>4. CpInv' /\ UNCHANGED cpStep
  BY CpUnchanged DEF AuditInv, WriteEntryFails, cpVars
<1>5. SealTyped'
  BY <1>2, RollBackLogTypes, SealTypedAfterFailure DEF WriteEntryFails
<1>6. LogInv' /\ KeptInv' /\ HeldStays
  BY <1>1, <1>2, <1>3, <1>4, RollBackLogInv DEF WriteEntryFails, Sealing, walVars
<1> QED BY <1>4, <1>5, <1>6 DEF AuditInv

LEMMA SyncLogFailsInv ==
  ASSUME AuditInv, SyncLogFails
  PROVE  AuditInv' /\ HeldStays
<1>1. PICK disk \in {logDisk, log} : RollBackLog(log, disk, TRUE)
  BY DEF SyncLogFails
<1>2. CpInv' /\ UNCHANGED cpStep
  BY CpUnchanged DEF AuditInv, SyncLogFails, cpVars
<1>3. SealTyped'
  BY <1>1, RollBackLogTypes, SealTypedAfterFailure DEF SyncLogFails
<1>4. LogInv' /\ KeptInv' /\ HeldStays
  BY <1>1, <1>2, LogFacts, RollBackLogInv DEF SyncLogFails, Sealing, walVars
<1> QED BY <1>2, <1>3, <1>4 DEF AuditInv

LEMMA SyncLogInv ==
  ASSUME AuditInv, SyncLog
  PROVE  AuditInv' /\ HeldStays
<1>1. /\ at = "sync" /\ at' = "tip" /\ logDisk' = log
      /\ UNCHANGED <<log, logBefore, logPoisoned, cur, written, walOpen, quarantined, cpStep>>
      /\ written = Size[cur] /\ cur \in Traces
  BY DEF AuditInv, SealTyped, LogInv, SyncLog, checkpointFileVars, cpVars, walVars
<1>2. CpInv'
  BY CpUnchanged DEF AuditInv, SyncLog, checkpointFileVars
<1>3. SealTyped'
  BY DEF AuditInv, SealTyped, SyncLog, checkpointFileVars, cpVars, walVars, historyVars
<1>4. LogInv'
  BY <1>1, LogFacts DEF AuditInv, LogInv, Sealing
<1>5. LogFiles' = {log} /\ {log} \subseteq LogFiles
  BY <1>1 DEF LogFiles, Sealing
<1>6. \A u \in Traces : Held(u, LogFiles) => Held(u, LogFiles')
  BY <1>5, FewerFiles
<1>7. Held(cur', LogFiles')
  <2>1. SUFFICES ASSUME NEW n \in 0 .. Size[cur] - 1
                 PROVE  \E i \in Nat \ {0} :
                          \A f, g \in {log} : Same(i, f, g) /\ f.lines[i] = Entry(cur, n)
    BY <1>1, <1>5 DEF Held
  <2>2. PICK i \in 1 .. Len(log.lines) : log.lines[i] = Entry(cur, n)
    BY <1>1 DEF AuditInv, KeptInv, Sealing
  <2>3. i \in Nat \ {0} /\ Same(i, log, log)
    BY LogFacts DEF Same
  <2> QED BY <2>2, <2>3
<1>8. KeptInv'
  BY <1>1, <1>6, <1>7 DEF AuditInv, KeptInv, Sealing
<1> QED BY <1>2, <1>3, <1>4, <1>6, <1>8 DEF AuditInv, HeldStays

LEMMA AddTraceTipInv ==
  ASSUME AuditInv, AddTraceTip
  PROVE  AuditInv' /\ HeldStays
<1>1. /\ at = "tip" /\ at' = "checkpoint" /\ cur \in Traces
      /\ cpStep = "ready" /\ cpStep' = "ready"
      /\ UNCHANGED <<faults, stops>>
      /\ UNCHANGED <<log, logDisk, logBefore, logPoisoned, walOpen, quarantined, cur, written>>
  BY DEF AuditInv, SealTyped, AddTraceTip, AddTip, logFileVars, walVars
<1>2. CpInv'
  BY <1>1, TipTyped, AddTipInv DEF AuditInv, AddTraceTip
<1>3. SealTyped'
  BY <1>1 DEF AuditInv, SealTyped, AddTraceTip, logFileVars, walVars, historyVars
<1>4. LogInv' /\ KeptInv' /\ HeldStays
  BY <1>1, LogUntouched
<1> QED BY <1>2, <1>3, <1>4 DEF AuditInv

LEMMA SkipCheckpointInv ==
  ASSUME AuditInv, SkipCheckpoint
  PROVE  AuditInv' /\ HeldStays
<1>1. /\ at = "checkpoint" /\ at' = "mark"
      /\ UNCHANGED <<cpVars, faults, stops, cpStep>>
      /\ UNCHANGED <<log, logDisk, logBefore, logPoisoned, walOpen, quarantined, cur, written>>
  BY DEF SkipCheckpoint, checkpointFileVars, cpVars, logFileVars, walVars
<1>2. CpInv'
  BY <1>1, CpUnchanged DEF AuditInv
<1>3. SealTyped'
  BY <1>1 DEF AuditInv, SealTyped, SkipCheckpoint, logFileVars, walVars, historyVars
<1>4. LogInv' /\ KeptInv' /\ HeldStays
  BY <1>1, LogUntouched
<1> QED BY <1>2, <1>3, <1>4 DEF AuditInv

LEMMA FaultsTyped ==
  ASSUME AuditInv, faults' = faults \/ FaultHappens
  PROVE  faults' \in 0 .. MaxFaults
BY CheckpointAssumption DEF AuditInv, SealTyped, FaultHappens

LEMMA WriteCheckpointInv ==
  ASSUME AuditInv, WriteCheckpoint
  PROVE  AuditInv' /\ HeldStays
<1>1. CpInv'
  BY StageInv, WriteLineInv, CommitInv, WriteFailsInv, SyncFailsInv DEF AuditInv, WriteCheckpoint
<1>2. /\ at = "checkpoint" /\ at' \in {"checkpoint", "mark"}
      /\ cpStep # "down" /\ cpStep' # "down"
      /\ UNCHANGED stops /\ (faults' = faults \/ FaultHappens)
      /\ UNCHANGED <<log, logDisk, logBefore, logPoisoned, walOpen, quarantined, cur, written>>
  BY DEF AuditInv, SealTyped, WriteCheckpoint, Stage, WriteLine, Commit, WriteFails, SyncFails,
         logFileVars, walVars
<1>3. SealTyped'
  BY <1>2, FaultsTyped
     DEF AuditInv, SealTyped, WriteCheckpoint, logFileVars, walVars, historyVars
<1>4. LogInv' /\ KeptInv' /\ HeldStays
  BY <1>2, LogUntouched
<1> QED BY <1>1, <1>3, <1>4 DEF AuditInv

(* The WAL lets go of a trace only when it is in the log or set aside.     *)
LEMMA LetGo ==
  ASSUME AuditInv, at' = "idle",
         UNCHANGED <<log, logDisk, logBefore, logPoisoned, cpStep>>,
         walOpen \ {cur} \subseteq walOpen', quarantined \subseteq quarantined',
         cur \in walOpen' \/ cur \in quarantined' \/ Held(cur, LogFiles)
  PROVE  LogInv' /\ KeptInv' /\ HeldStays
<1>1. LogInv'
  BY DEF AuditInv, LogInv, Sealing
<1>2. LogFiles' \subseteq LogFiles
  BY DEF LogFiles, Sealing
<1>3. \A t \in Traces \cup {cur} : Held(t, LogFiles) => Held(t, LogFiles')
  BY <1>2, FewerFiles
<1>4. ASSUME NEW t \in Traces
      PROVE  t \in walOpen' \/ t \in quarantined' \/ Held(t, LogFiles')
  BY <1>3 DEF AuditInv, KeptInv
<1>5. KeptInv'
  BY <1>4 DEF KeptInv, Sealing
<1> QED BY <1>1, <1>3, <1>5 DEF HeldStays

LEMMA TipsConcatenated ==
  ASSUME NEW owed \in Seq(Tips), NEW tips \in Seq(Tips)
  PROVE  owed \o tips \in Seq(Tips)
BY ConcatProperties

LEMMA MarkerTipTyped ==
  ASSUME AuditInv
  PROVE  SealedMarkerTip \in Seq(Tips)
<1>1. CASE \E i \in DOMAIN pending : pending[i] = TipOf(cur)
  <2>1. TipOf(cur) \in Tips
    BY <1>1, LenProperties, ElementOfSeq DEF AuditInv, CpInv, CpTyped
  <2> QED BY <1>1, <2>1 DEF SealedMarkerTip
<1>2. CASE ~\E i \in DOMAIN pending : pending[i] = TipOf(cur)
  BY <1>2 DEF SealedMarkerTip
<1> QED BY <1>1, <1>2

LEMMA MarkSealedInv ==
  ASSUME AuditInv, MarkSealed
  PROVE  AuditInv' /\ HeldStays
<1>1. /\ at = "mark" /\ at' = "idle" /\ cur' = NoTrace
      /\ UNCHANGED <<cpVars, cpStep, stops, quarantined, buffered, written>>
      /\ UNCHANGED <<log, logDisk, logBefore, logPoisoned, unmarked, attempts, earlier>>
      /\ faults' = faults \/ FaultHappens
      /\ \/ walOpen' = walOpen \ {cur} /\ walOwed' = walOwed \o SealedMarkerTip
         \/ UNCHANGED <<walOpen, walOwed>>
  BY DEF MarkSealed, MarkWal, SealReturns, cpVars, logFileVars, historyVars
<1>2. CpInv'
  BY <1>1, CpUnchanged DEF AuditInv
<1>3. walOwed' \in Seq(Tips)
  BY <1>1, MarkerTipTyped, TipsConcatenated DEF AuditInv, SealTyped
<1>4. SealTyped'
  BY <1>1, <1>3, FaultsTyped DEF AuditInv, SealTyped
<1>5. LogInv' /\ KeptInv' /\ HeldStays
  BY <1>1, LetGo DEF AuditInv, KeptInv
<1> QED BY <1>2, <1>4, <1>5 DEF AuditInv

LEMMA QuarantineTraceInv ==
  ASSUME AuditInv, QuarantineTrace
  PROVE  AuditInv' /\ HeldStays
<1>1. /\ at = "quarantine" /\ at' = "idle" /\ cur' = NoTrace /\ cur \in Traces
      /\ UNCHANGED <<cpVars, cpStep, stops, buffered, written>>
      /\ UNCHANGED <<log, logDisk, logBefore, logPoisoned, unmarked, attempts, earlier>>
      /\ faults' = faults \/ FaultHappens
      /\ quarantined' \in {quarantined, quarantined \cup {cur}}
      /\ \/ /\ quarantined' = quarantined \cup {cur} /\ walOpen' = walOpen \ {cur}
            /\ walOwed' = walOwed \o <<>>
         \/ UNCHANGED <<walOpen, walOwed>>
  BY DEF AuditInv, SealTyped, QuarantineTrace, PartlyQuarantined, MarkWal, SealReturns, cpVars,
         logFileVars, historyVars
<1>2. CpInv'
  BY <1>1, CpUnchanged DEF AuditInv
<1>3. walOwed' \in Seq(Tips)
  <2>1. <<>> \in Seq(Tips)
    OBVIOUS
  <2> QED BY <1>1, <2>1, TipsConcatenated DEF AuditInv, SealTyped
<1>4. SealTyped'
  BY <1>1, <1>3, FaultsTyped DEF AuditInv, SealTyped
<1>5. cur \in walOpen' \/ cur \in quarantined' \/ Held(cur, LogFiles)
  BY <1>1 DEF AuditInv, KeptInv
<1>6. LogInv' /\ KeptInv' /\ HeldStays
  BY <1>1, <1>5, LetGo
<1> QED BY <1>2, <1>4, <1>6 DEF AuditInv

LEMMA PendingTips ==
  ASSUME NEW T, pending \in Seq(T), NEW tips \in Seq({pending[i] : i \in DOMAIN pending})
  PROVE  tips \in Seq(T)
<1>1. {pending[i] : i \in DOMAIN pending} \subseteq T
  BY LenProperties, ElementOfSeq
<1> QED BY <1>1, SeqMonotonic

LEMMA CompactWalInv ==
  ASSUME AuditInv, CompactWal
  PROVE  AuditInv' /\ HeldStays
<1>1. /\ UNCHANGED <<cpVars, cpStep, at, cur, written>>
      /\ UNCHANGED <<log, logDisk, logBefore, logPoisoned, walOpen, quarantined>>
  BY DEF CompactWal, checkpointFileVars, cpVars, sealVars, logFileVars
<1>2. CpInv'
  BY <1>1, CpUnchanged DEF AuditInv
<1>3. SealTyped'
  <2>1. walOwed' \in Seq(Tips)
    BY PendingTips DEF AuditInv, CpInv, CpTyped, CompactWal
  <2> QED BY <1>1, <2>1 DEF AuditInv, SealTyped, CompactWal, checkpointFileVars,
                            sealVars, logFileVars, historyVars
<1>4. LogInv' /\ KeptInv' /\ HeldStays
  BY <1>1, LogUntouched
<1> QED BY <1>2, <1>3, <1>4 DEF AuditInv

-----------------------------------------------------------------------------
LEMMA SealTypedAfterStop ==
  ASSUME AuditInv, LoseMemory, cpStep' = "down", UNCHANGED faults,
         stops < MaxStops, stops' = stops + 1
  PROVE  SealTyped'
<1>1. stops' \in 0 .. MaxStops
  BY CheckpointAssumption DEF AuditInv, SealTyped
<1> QED BY <1>1 DEF AuditInv, SealTyped, LoseMemory, walVars, historyVars

LEMMA CrashInv ==
  ASSUME AuditInv, Crash
  PROVE  AuditInv' /\ HeldStays
<1>1. CpInv'
  BY CpCrashInv DEF AuditInv, Crash
<1>2. SealTyped'
  BY SealTypedAfterStop DEF Crash, CpCrash, CpStopped
<1>3. /\ log' \in {log} \cup (IF at = "write" THEN CutShort(log, NextEntry) ELSE {})
      /\ logDisk' = logDisk /\ logBefore' = EmptyFile /\ at' = "idle" /\ cpStep' = "down"
      /\ UNCHANGED <<walOpen, quarantined>>
  BY DEF Crash, LoseMemory, CpCrash, CpStopped, walVars
<1>4. log' \in Tidy(ValidEntry) /\ log'.lines = log.lines
  <2>1. CASE log' = log
    BY <2>1, LogFacts
  <2>2. CASE at = "write" /\ log' \in CutShort(log, NextEntry)
    <3>1. log.tail = <<>> /\ NextEntry \in ValidEntry
      BY <2>2, NextEntryValid DEF AuditInv, LogInv, SealTyped, Sealing
    <3> QED BY <2>2, <3>1, LogFacts, CutShortTidy
  <2> QED BY <1>3, <2>1, <2>2
<1>5. logBefore' \in Tidy(ValidEntry)
  <2>1. <<>> \in Seq(ValidEntry) /\ <<>> \in Seq(ValidEntry \cup {Junk}) /\ Len(<<>>) <= 1
    OBVIOUS
  <2> QED BY <1>3, <2>1, TidyMade DEF EmptyFile
<1>6. LogInv'
  BY <1>3, <1>4, <1>5, LogFacts DEF LogInv, Sealing
<1>7. LogFiles' = {log', logDisk} /\ {log, logDisk} \subseteq LogFiles
  BY <1>3 DEF LogFiles, Sealing
<1>8. ASSUME NEW u \in Traces, Held(u, LogFiles)
      PROVE  Held(u, LogFiles')
  <2>1. \A f \in LogFiles \cup LogFiles' : Len(f.lines) \in Nat
    BY <1>4, <1>7, LogFacts, TidyTail, LenProperties DEF LogFiles
  <2>2. Grown(log, log') /\ Grown(logDisk, logDisk)
    BY <1>4, LogFacts DEF Grown
  <2>3. \A g \in LogFiles' : \E f \in LogFiles : Grown(f, g)
    BY <1>7, <2>2
  <2> QED BY <1>8, <2>1, <2>3, HeldGrows
<1>9. KeptInv'
  BY <1>3, <1>8 DEF AuditInv, KeptInv, Sealing
<1> QED BY <1>1, <1>2, <1>6, <1>8, <1>9 DEF AuditInv, HeldStays

LEMMA PowerLossInv ==
  ASSUME AuditInv, PowerLoss
  PROVE  AuditInv' /\ HeldStays
<1>1. CpInv'
  BY CpPowerLossInv DEF AuditInv, PowerLoss
<1>2. SealTyped'
  BY SealTypedAfterStop DEF PowerLoss, CpPowerLoss, CpStopped
<1>3. /\ logDisk' = log' /\ logBefore' = EmptyFile /\ at' = "idle" /\ cpStep' = "down"
      /\ UNCHANGED <<walOpen, quarantined>>
  BY DEF PowerLoss, LoseMemory, CpPowerLoss, CpStopped, walVars
<1>4. PICK cache \in {log} \cup (IF at = "write" THEN {Written(log, NextEntry)} ELSE {}) :
        log' \in Survivors(logDisk, cache)
  BY DEF PowerLoss
<1>5. cache \in Tidy(ValidEntry) /\ Grown(log, cache)
  <2>1. CASE cache = log
    BY <2>1, LogFacts, GrownItself
  <2>2. CASE at = "write" /\ cache = Written(log, NextEntry)
    <3>1. log.tail = <<>> /\ NextEntry \in ValidEntry
      BY <2>2, NextEntryValid DEF AuditInv, LogInv, SealTyped, Sealing
    <3>2. /\ cache = [lines |-> Append(log.lines, NextEntry), tail |-> <<>>]
          /\ cache \in Tidy(ValidEntry)
      BY <2>2, <3>1, LogFacts, WrittenTidy
    <3>3. cache.lines = Append(log.lines, NextEntry)
      BY <3>2
    <3> QED BY <3>1, <3>2, <3>3, LogFacts, GrownByAppend
  <2> QED BY <1>4, <2>1, <2>2
<1>6. log' \in Tidy(ValidEntry)
  <2>1. PICK f \in {logDisk, cache} : \E k \in 0 .. Len(f.lines) : Front(f, log', k)
    BY <1>4, <1>5, LogFacts, SurvivorsTidy
  <2> QED BY <1>5, <2>1, LogFacts, FrontTidy
<1>7. logBefore' \in Tidy(ValidEntry)
  <2>1. <<>> \in Seq(ValidEntry) /\ <<>> \in Seq(ValidEntry \cup {Junk}) /\ Len(<<>>) <= 1
    OBVIOUS
  <2> QED BY <1>3, <2>1, TidyMade DEF EmptyFile
<1>8. LogInv'
  BY <1>3, <1>6, <1>7 DEF LogInv, Sealing
<1>9. LogFiles' = {log'} /\ {log, logDisk} \subseteq LogFiles
  BY <1>3 DEF LogFiles, Sealing
<1>10. ASSUME NEW u \in Traces, Held(u, LogFiles)
       PROVE  Held(u, LogFiles')
  <2>1. \A f \in LogFiles \cup {logDisk, cache} : Len(f.lines) \in Nat
    BY <1>5, LogFacts, TidyTail, LenProperties DEF LogFiles
  <2>2. Grown(logDisk, logDisk)
    BY LogFacts, GrownItself
  <2>3. \A g \in {logDisk, cache} : \E f \in LogFiles : Grown(f, g)
    BY <1>5, <1>9, <2>2
  <2>4. Held(u, {logDisk, cache})
    BY <1>10, <2>1, <2>3, HeldGrows
  <2> QED BY <1>4, <1>5, <1>9, <2>4, LogFacts, HeldSurvives
<1>11. KeptInv'
  BY <1>3, <1>10 DEF AuditInv, KeptInv, Sealing
<1> QED BY <1>1, <1>2, <1>8, <1>10, <1>11 DEF AuditInv, HeldStays

LEMMA StartInv ==
  ASSUME AuditInv, Start
  PROVE  AuditInv' /\ HeldStays
<1>1. /\ cpStep = "down" /\ cpStep' = "ready" /\ at = "idle" /\ at' = "idle"
      /\ log' = Repaired(log) /\ logDisk' \in {logDisk, Repaired(log)}
      /\ UNCHANGED <<logBefore, logPoisoned, walOpen, walOwed, quarantined, faults, stops>>
  BY DEF AuditInv, SealTyped, Start, CpStart, RepairLog, walVars
<1>2. CpInv'
  BY CpStartInv DEF AuditInv, SealTyped, Start
<1>3. SealTyped'
  BY <1>1 DEF AuditInv, SealTyped, Start
<1>4. /\ Repaired(log) \in Tidy(ValidEntry) /\ Repaired(log).tail = <<>>
      /\ Grown(log, Repaired(log)) /\ Grown(logDisk, logDisk)
  BY LogFacts, RepairedKeeps, GrownItself
<1>5. log \in LogFiles /\ logDisk \in LogFiles
  BY DEF LogFiles
<1>6. /\ \E f \in LogFiles : Grown(f, log')
      /\ \E f \in LogFiles : Grown(f, logDisk')
      /\ log' \in Tidy(ValidEntry) /\ logDisk' \in Tidy(ValidEntry) /\ log'.tail = <<>>
  BY <1>1, <1>4, <1>5, LogFacts
<1>7. LogInv' /\ KeptInv' /\ HeldStays
  BY <1>1, <1>6, LogReplaced
<1> QED BY <1>2, <1>3, <1>7 DEF AuditInv

LEMMA StutterInv ==
  ASSUME AuditInv, UNCHANGED auditVars
  PROVE  AuditInv' /\ HeldStays
<1>1. /\ UNCHANGED <<cpVars, cpStep, at, cur, written, faults, stops>>
      /\ UNCHANGED <<log, logDisk, logBefore, logPoisoned, unmarked>>
      /\ UNCHANGED <<walOpen, walOwed, quarantined, buffered, attempts, earlier>>
  BY DEF auditVars, checkpointFileVars, cpVars, sealVars, logFileVars, walVars, historyVars
<1>2. CpInv'
  BY <1>1, CpUnchanged DEF AuditInv
<1>3. SealTyped'
  BY <1>1 DEF AuditInv, SealTyped
<1>4. LogInv' /\ KeptInv' /\ HeldStays
  BY <1>1, LogUntouched
<1> QED BY <1>2, <1>3, <1>4 DEF AuditInv

LEMMA InitInv ==
  ASSUME Init
  PROVE  AuditInv
<1>1. CpInv
  BY CpInitInv DEF Init
<1>2. SealTyped
  <2>1. walOwed \in Seq(Tips)
    BY DEF Init
  <2>2. faults \in 0 .. MaxFaults /\ stops \in 0 .. MaxStops
    BY CheckpointAssumption DEF Init
  <2>3. attempts \in [Traces -> Nat] /\ written \in Nat
    BY DEF Init
  <2>4. /\ logPoisoned \in BOOLEAN /\ unmarked \in BOOLEAN
        /\ buffered \subseteq Traces /\ cur \in Traces \cup {NoTrace}
        /\ at = "idle"
        /\ walOpen \subseteq Traces /\ quarantined \subseteq Traces /\ earlier \subseteq Traces
    BY DEF Init
  <2> QED BY <2>1, <2>2, <2>3, <2>4 DEF SealTyped
<1>3. EmptyFile \in Tidy(ValidEntry) /\ EmptyFile.tail = <<>>
  <2>1. <<>> \in Seq(ValidEntry) /\ <<>> \in Seq(ValidEntry \cup {Junk}) /\ Len(<<>>) <= 1
    OBVIOUS
  <2> QED BY <2>1, TidyMade DEF EmptyFile
<1>4. LogInv
  BY <1>3 DEF Init, LogInv, Sealing
<1>5. KeptInv
  BY DEF Init, KeptInv, Sealing
<1> QED BY <1>1, <1>2, <1>4, <1>5 DEF AuditInv

LEMMA NextInv ==
  ASSUME AuditInv, [Next]_auditVars
  PROVE  AuditInv' /\ HeldStays
<1>1. CASE Idle
  BY <1>1, StutterInv DEF Idle
<1>2. CASE UNCHANGED auditVars
  BY <1>2, StutterInv
<1> QED BY <1>1, <1>2, BeginSealInv, WriteEntryInv, WriteEntryFailsInv, SyncLogInv,
           SyncLogFailsInv, AddTraceTipInv, SkipCheckpointInv, WriteCheckpointInv,
           MarkSealedInv, QuarantineTraceInv, CompactWalInv, CrashInv, PowerLossInv, StartInv
        DEF Next

LEMMA AuditInvariant == Spec => []AuditInv
<1>1. Init => AuditInv
  BY InitInv
<1>2. AuditInv /\ [Next]_auditVars => AuditInv'
  BY NextInv
<1> QED BY <1>1, <1>2, PTL DEF Spec

-----------------------------------------------------------------------------
(* Every variable keeps its type, for any traces, sizes, faults and stops. *)
THEOREM TypeCorrect == Spec => []TypeOK
<1>1. ASSUME AuditInv PROVE TypeOK
  <2>1. cp \in File(Checkpoint) /\ cpDisk \in File(Checkpoint) /\ before \in File(Checkpoint)
    BY <1>1, TidyIsFile DEF AuditInv, CpInv, CpFiles, Chained
  <2>2. CpTypeOK
    BY <1>1, <2>1 DEF AuditInv, CpInv, CpTyped, CpSteps, SealTyped, CpTypeOK
  <2>3. \A f \in {log, logDisk, logBefore} : f \in File(LogEntry)
    <3>1. ValidEntry \subseteq LogEntry
      BY DEF ValidEntry
    <3> QED BY <1>1, <3>1, LogFacts, TidyIsFile
  <2> QED BY <1>1, <2>2, <2>3 DEF AuditInv, SealTyped, TypeOK
<1> QED BY <1>1, AuditInvariant, PTL

(* Whatever writes, fsyncs and rollbacks fail, and wherever the process or *)
(* the machine stops, the checkpoint file reads as one unbroken chain.     *)
THEOREM ChainNeverBroken == Spec => []CheckpointChainUnbroken
<1>1. ASSUME AuditInv PROVE CheckpointChainUnbroken
  BY <1>1, ChainUnbrokenFromInv DEF AuditInv
<1> QED BY <1>1, AuditInvariant, PTL

(* A committed checkpoint is in the file, in its place, ever after.        *)
THEOREM CommittedStays == Spec => []CommittedOnDisk
<1>1. ASSUME AuditInv PROVE CommittedOnDisk
  BY <1>1, ChainUnbrokenFromInv DEF AuditInv
<1> QED BY <1>1, AuditInvariant, PTL

(* The audit log can be read at every moment.                              *)
THEOREM LogAlwaysReadable == Spec => []LogReadable
<1>1. ASSUME AuditInv PROVE LogReadable
  BY <1>1, LogFacts, JunkIsNoEntry, TidyIsReadable DEF LogReadable
<1> QED BY <1>1, AuditInvariant, PTL

-----------------------------------------------------------------------------
(* What a reader finds in the log: a trace's entries of one seal, and all  *)
(* of them once the seal is through.                                       *)

(* What the next log file, whichever it is, is the beginning of.           *)
LogSources ==
  {Parsed(log), Parsed(logDisk), Parsed(logBefore)}
    \cup (IF at = "write" THEN {Append(log.lines, NextEntry)} ELSE {})

LogCut(g) == \E s \in LogSources : Begins(Parsed(g), s)

LEMMA ParsedFacts ==
  ASSUME AuditInv
  PROVE  /\ Parsed(log) \in Seq(ValidEntry) /\ Parsed(logDisk) \in Seq(ValidEntry)
         /\ Parsed(logBefore) \in Seq(ValidEntry)
         /\ LogCut(log) /\ LogCut(logDisk) /\ LogCut(logBefore)
<1>1. \A f \in {log, logDisk, logBefore} :
        Parsed(f) \in Seq(ValidEntry) /\ Begins(Parsed(f), Parsed(f))
  BY LogFacts, JunkIsNoEntry, LinesParsed, BeginsItself
<1> QED BY <1>1 DEF LogCut, LogSources

LEMMA ParsedAtEnd ==
  ASSUME NEW f \in Tidy(ValidEntry), f.tail = <<>> \/ f.tail = <<Junk>>
  PROVE  Parsed(f) = f.lines
BY JunkIsNoEntry, ParsedTidy

LEMMA EmptyCut ==
  ASSUME AuditInv
  PROVE  LogCut(EmptyFile) /\ Parsed(EmptyFile) = <<>>
<1>1. EmptyFile \in Tidy(ValidEntry) /\ EmptyFile.tail = <<>> /\ EmptyFile.lines = <<>>
  <2>1. <<>> \in Seq(ValidEntry) /\ <<>> \in Seq(ValidEntry \cup {Junk}) /\ Len(<<>>) <= 1
    OBVIOUS
  <2> QED BY <2>1, TidyMade DEF EmptyFile
<1>2. Parsed(EmptyFile) = <<>>
  BY <1>1, ParsedAtEnd
<1>3. Begins(<<>>, Parsed(log))
  <2>1. Len(Parsed(log)) \in Nat
    BY ParsedFacts, LenProperties
  <2> QED BY <2>1 DEF Begins
<1> QED BY <1>2, <1>3 DEF LogCut, LogSources

(* What a seal is writing when it fails or stops.                          *)
LEMMA CutShortCut ==
  ASSUME AuditInv, at = "write", NEW file \in CutShort(log, NextEntry)
  PROVE  /\ file \in Tidy(ValidEntry) /\ file.lines = log.lines
         /\ \/ Parsed(file) = Parsed(log)
            \/ Parsed(file) = Append(log.lines, NextEntry)
         /\ Parsed(log) = log.lines
         /\ LogCut(file)
<1>1. log.tail = <<>> /\ NextEntry \in ValidEntry
  BY NextEntryValid DEF AuditInv, LogInv, SealTyped, Sealing
<1>2. /\ file \in Tidy(ValidEntry) /\ file.lines = log.lines
      /\ file.tail = <<Junk>> \/ file.tail = <<NextEntry>>
  BY <1>1, LogFacts, CutShortTidy
<1>3. Parsed(log) = log.lines /\ log.lines \in Seq(ValidEntry)
  BY <1>1, LogFacts, ParsedAtEnd
<1>4. CASE file.tail = <<Junk>>
  BY <1>2, <1>3, <1>4, ParsedAtEnd, ParsedFacts DEF LogCut
<1>5. CASE file.tail = <<NextEntry>>
  <2>1. file.tail \notin {<<>>, <<Junk>>} /\ file.tail[1] = NextEntry
    BY <1>1, <1>5, JunkIsNoEntry
  <2>2. Parsed(file) = Append(log.lines, NextEntry)
    BY <1>2, <2>1, JunkIsNoEntry, ParsedTidy
  <2>3. Begins(Append(log.lines, NextEntry), Append(log.lines, NextEntry))
    BY <1>1, <1>3, AppendProperties, BeginsItself
  <2> QED BY <1>2, <1>3, <2>2, <2>3 DEF LogCut, LogSources
<1> QED BY <1>2, <1>4, <1>5

(* What poisonLog and the repair make of a file.                           *)
LEMMA PoisonCut ==
  ASSUME AuditInv, NEW file \in Tidy(ValidEntry), LogCut(file), NEW disk, LogCut(disk),
         PoisonLog(file, disk)
  PROVE  LogCut(log') /\ LogCut(logDisk')
<1>1. LogCut(Marked(file))
  <2>1. /\ Marked(file) \in Tidy(ValidEntry) /\ Marked(file).lines = file.lines
        /\ Marked(file).tail = <<Junk>>
    BY MarkedKeeps, TidyTail DEF Marked
  <2>2. Parsed(Marked(file)) = file.lines
    BY <2>1, ParsedAtEnd
  <2>3. Begins(file.lines, Parsed(file)) /\ file.lines \in Seq(ValidEntry)
        /\ Parsed(file) \in Seq(ValidEntry)
    BY JunkIsNoEntry, LinesParsed
  <2>4. PICK s \in LogSources : Begins(Parsed(file), s)
    BY DEF LogCut
  <2>5. s \in Seq(ValidEntry)
    <3>1. at = "write" => Append(log.lines, NextEntry) \in Seq(ValidEntry)
      BY LogFacts, NextEntryValid, AppendProperties DEF AuditInv
    <3> QED BY <3>1, ParsedFacts DEF LogSources
  <2>6. Begins(file.lines, s)
    BY <2>3, <2>4, <2>5, BeginsTwice
  <2> QED BY <2>2, <2>6 DEF LogCut
<1> QED BY <1>1 DEF PoisonLog

LEMMA RollBackCut ==
  ASSUME AuditInv, NEW file \in Tidy(ValidEntry), LogCut(file), NEW disk, LogCut(disk),
         NEW safe, RollBackLog(file, disk, safe)
  PROVE  LogCut(log') /\ LogCut(logDisk')
<1>1. Repaired(file) \in Tidy(ValidEntry) /\ LogCut(Repaired(file))
  BY JunkIsNoEntry, RepairedTidy, RepairedParsed DEF LogCut
<1>2. CASE log' = logBefore /\ logDisk' \in {disk, logBefore}
  BY <1>2, ParsedFacts
<1>3. CASE PoisonLog(file, disk)
  BY <1>3, PoisonCut
<1>4. CASE \E found \in {file, Repaired(file)} : PoisonLog(found, disk)
  BY <1>1, <1>4, PoisonCut
<1>5. CASE log' = Repaired(file) /\ logDisk' \in {disk, Repaired(file)}
  BY <1>1, <1>5
<1> QED BY <1>2, <1>3, <1>4, <1>5 DEF RollBackLog, RepairOrPoisonLog

LEMMA CrashCut ==
  ASSUME AuditInv, Crash
  PROVE  LogCut(log') /\ LogCut(logDisk') /\ LogCut(logBefore')
<1>1. /\ log' \in {log} \cup (IF at = "write" THEN CutShort(log, NextEntry) ELSE {})
      /\ logDisk' = logDisk /\ logBefore' = EmptyFile
  BY DEF Crash, LoseMemory
<1> QED BY <1>1, ParsedFacts, CutShortCut, EmptyCut

LEMMA PowerLossCut ==
  ASSUME AuditInv, PowerLoss
  PROVE  LogCut(log') /\ LogCut(logDisk') /\ LogCut(logBefore')
<1>1. logDisk' = log' /\ logBefore' = EmptyFile
  BY DEF PowerLoss, LoseMemory
<1>2. PICK cache \in {log} \cup (IF at = "write" THEN {Written(log, NextEntry)} ELSE {}) :
        log' \in Survivors(logDisk, cache)
  BY DEF PowerLoss
<1>3. cache \in Tidy(ValidEntry) /\ Parsed(cache) \in LogSources
  <2>1. CASE cache = log
    BY <2>1, LogFacts DEF LogSources
  <2>2. CASE at = "write" /\ cache = Written(log, NextEntry)
    <3>1. log.tail = <<>> /\ NextEntry \in ValidEntry
      BY <2>2, NextEntryValid DEF AuditInv, LogInv, SealTyped, Sealing
    <3>2. /\ cache = [lines |-> Append(log.lines, NextEntry), tail |-> <<>>]
          /\ cache \in Tidy(ValidEntry)
      BY <2>2, <3>1, LogFacts, WrittenTidy
    <3>3. Parsed(cache) = Append(log.lines, NextEntry)
      BY <3>2, ParsedAtEnd
    <3> QED BY <2>2, <3>2, <3>3 DEF LogSources
  <2> QED BY <1>2, <2>1, <2>2
<1>4. PICK f \in {logDisk, cache} : \E k \in 0 .. Len(f.lines) : Front(f, log', k)
  BY <1>2, <1>3, LogFacts, SurvivorsTidy
<1>5. f \in Tidy(ValidEntry) /\ Parsed(f) \in LogSources
  BY <1>3, <1>4, LogFacts DEF LogSources
<1>6. Begins(Parsed(log'), Parsed(f))
  BY <1>4, <1>5, JunkIsNoEntry, FrontParsed
<1> QED BY <1>1, <1>5, <1>6, EmptyCut DEF LogCut

LEMMA LogSteps ==
  ASSUME AuditInv, [Next]_auditVars
  PROVE  LogCut(log') /\ LogCut(logDisk') /\ LogCut(logBefore')
<1>1. CASE UNCHANGED <<log, logDisk>> /\ logBefore' \in {log, logBefore}
  BY <1>1, ParsedFacts
<1>2. CASE WriteEntry
  <2>1. log.tail = <<>> /\ NextEntry \in ValidEntry /\ at = "write"
    BY <1>2, NextEntryValid DEF AuditInv, LogInv, SealTyped, Sealing, WriteEntry
  <2>2. /\ log' = [lines |-> Append(log.lines, NextEntry), tail |-> <<>>]
        /\ log' \in Tidy(ValidEntry)
    BY <1>2, <2>1, LogFacts, WrittenTidy DEF WriteEntry
  <2>3. Parsed(log') = Append(log.lines, NextEntry)
    BY <2>2, ParsedAtEnd
  <2>4. Begins(Append(log.lines, NextEntry), Append(log.lines, NextEntry))
    BY <2>1, LogFacts, AppendProperties, BeginsItself
  <2>5. LogCut(log')
    BY <2>1, <2>3, <2>4 DEF LogCut, LogSources
  <2> QED BY <1>2, <2>5, ParsedFacts DEF WriteEntry
<1>3. CASE WriteEntryFails
  <2>1. PICK file \in {log} \cup CutShort(log, NextEntry) :
          RollBackLog(file, logDisk, SafeToRepairTail)
    BY <1>3 DEF WriteEntryFails
  <2>2. file \in Tidy(ValidEntry) /\ LogCut(file)
    BY <1>3, <2>1, LogFacts, ParsedFacts, CutShortCut DEF WriteEntryFails
  <2> QED BY <1>3, <2>1, <2>2, ParsedFacts, RollBackCut DEF WriteEntryFails
<1>4. CASE SyncLogFails
  <2>1. PICK disk \in {logDisk, log} : RollBackLog(log, disk, TRUE)
    BY <1>4 DEF SyncLogFails
  <2> QED BY <1>4, <2>1, LogFacts, ParsedFacts, RollBackCut DEF SyncLogFails
<1>5. CASE SyncLog
  BY <1>5, ParsedFacts DEF SyncLog
<1>6. CASE Start
  <2>1. LogCut(Repaired(log))
    BY LogFacts, JunkIsNoEntry, RepairedParsed, ParsedFacts DEF LogCut
  <2>2. log' = Repaired(log) /\ logDisk' \in {logDisk, Repaired(log)} /\ logBefore' = logBefore
    BY <1>6 DEF Start, RepairLog
  <2> QED BY <2>1, <2>2, ParsedFacts
<1>7. CASE \E t \in Traces : BeginSeal(t)
  BY <1>1, <1>7 DEF BeginSeal
<1> QED BY <1>1, <1>2, <1>3, <1>4, <1>5, <1>6, <1>7, CrashCut, PowerLossCut
        DEF Next, AddTraceTip, SkipCheckpoint, WriteCheckpoint, MarkSealed, QuarantineTrace,
            CompactWal, Idle, auditVars, logFileVars

(* An entry a reader finds is one some seal wrote.                         *)
Begun == {e \in ValidEntry : attempts[e.trace] > 0}

BegunInv ==
  /\ Parsed(log) \in Seq(Begun) /\ Parsed(logDisk) \in Seq(Begun)
  /\ Parsed(logBefore) \in Seq(Begun)
  /\ Sealing => attempts[cur] > 0

LEMMA BeginsIn ==
  ASSUME NEW V, NEW W, NEW s \in Seq(V), NEW w \in Seq(W), Begins(s, w)
  PROVE  s \in Seq(W)
<1>1. Len(s) \in Nat /\ Len(w) \in Nat /\ Len(s) <= Len(w)
  BY LenProperties DEF Begins
<1>2. s \in [1 .. Len(s) -> V]
  BY LenProperties
<1>3. \A i \in 1 .. Len(s) : s[i] = w[i] /\ w[i] \in W
  BY <1>1, ElementOfSeq DEF Begins
<1>4. s \in [1 .. Len(s) -> W]
  BY <1>2, <1>3
<1> QED BY <1>1, <1>4, SeqDef

(* Every step leaves the attempts, but for the one BeginSeal counts.       *)
LEMMA AttemptsGrow ==
  ASSUME AuditInv, [Next]_auditVars
  PROVE  /\ attempts' \in [Traces -> Nat]
         /\ \A t \in Traces : attempts[t] <= attempts'[t]
         /\ \/ attempts' = attempts
            \/ \E t \in Traces : BeginSeal(t) /\ ~logPoisoned /\ attempts' = [attempts EXCEPT ![t] = @ + 1]
<1>1. attempts \in [Traces -> Nat]
  BY DEF AuditInv, SealTyped
<1>2. \/ attempts' = attempts
      \/ \E t \in Traces : BeginSeal(t) /\ ~logPoisoned /\ attempts' = [attempts EXCEPT ![t] = @ + 1]
  <2>1. CASE \E t \in Traces : BeginSeal(t)
    BY <2>1 DEF BeginSeal
  <2> QED BY <2>1 DEF Next, WriteEntry, WriteEntryFails, SyncLog, SyncLogFails, AddTraceTip,
                      SkipCheckpoint, WriteCheckpoint, MarkSealed, QuarantineTrace, CompactWal,
                      Crash, PowerLoss, LoseMemory, Start, Idle, auditVars, historyVars
<1>3. \A t \in Traces : attempts[t] <= attempts'[t] /\ attempts'[t] \in Nat
  BY <1>1, <1>2
<1>4. attempts' \in [Traces -> Nat]
  BY <1>1, <1>2
<1> QED BY <1>2, <1>3, <1>4

LEMMA BegunSteps ==
  ASSUME AuditInv, AuditInv', BegunInv, [Next]_auditVars
  PROVE  BegunInv'
<1>1. Begun \subseteq Begun'
  BY AttemptsGrow DEF Begun, ValidEntry, LogEntry, AuditInv, SealTyped
<1>2. \A s \in LogSources : s \in Seq(Begun)
  <2>1. ASSUME at = "write"
        PROVE  Append(log.lines, NextEntry) \in Seq(Begun)
    <3>1. log.tail = <<>> /\ NextEntry \in ValidEntry /\ NextEntry.trace = cur
      BY <2>1, NextEntryValid DEF AuditInv, LogInv, SealTyped, Sealing, NextEntry, Entry
    <3>2. NextEntry \in Begun
      BY <2>1, <3>1 DEF Begun, BegunInv, Sealing
    <3>3. Parsed(log) = log.lines
      BY <3>1, LogFacts, ParsedAtEnd
    <3>4. log.lines \in Seq(Begun)
      BY <3>3 DEF BegunInv
    <3> QED BY <3>2, <3>4, AppendProperties
  <2> QED BY <2>1 DEF LogSources, BegunInv
<1>3. ASSUME NEW f, LogCut(f), f \in Tidy(ValidEntry)
      PROVE  Parsed(f) \in Seq(Begun')
  <2>1. PICK s \in LogSources : Begins(Parsed(f), s)
    BY <1>3 DEF LogCut
  <2>2. Parsed(f) \in Seq(ValidEntry) /\ s \in Seq(Begun)
    BY <1>2, <1>3, JunkIsNoEntry, ParsedTidy
  <2>3. Parsed(f) \in Seq(Begun)
    BY <2>1, <2>2, BeginsIn
  <2> QED BY <1>1, <2>3, SeqMonotonic
<1>4. /\ log' \in Tidy(ValidEntry) /\ logDisk' \in Tidy(ValidEntry)
      /\ logBefore' \in Tidy(ValidEntry)
  BY DEF AuditInv, LogInv
<1>5. /\ Parsed(log') \in Seq(Begun') /\ Parsed(logDisk') \in Seq(Begun')
      /\ Parsed(logBefore') \in Seq(Begun')
  BY <1>3, <1>4, LogSteps
<1>6. Sealing' => attempts'[cur'] > 0
  <2>1. CASE \E t \in Traces : BeginSeal(t)
    <3>1. PICK t \in Traces : BeginSeal(t)
      BY <2>1
    <3>2. attempts \in [Traces -> Nat]
      BY DEF AuditInv, SealTyped
    <3> QED BY <3>1, <3>2 DEF BeginSeal, Sealing
  <2>2. CASE Sealing /\ cur' = cur /\ cur \in Traces
    <3>1. attempts[cur] > 0 /\ attempts[cur] <= attempts'[cur] /\ attempts'[cur] \in Nat
          /\ attempts[cur] \in Nat
      BY <2>2, AttemptsGrow DEF AuditInv, SealTyped, BegunInv
    <3> QED BY <2>2, <3>1
  <2>3. CASE ~Sealing'
    BY <2>3
  <2>4. CASE WriteEntry
    BY <2>2, <2>4 DEF WriteEntry, AuditInv, SealTyped, Sealing
  <2>5. CASE UNCHANGED <<at, cur>>
    BY <2>2, <2>3, <2>5 DEF AuditInv, SealTyped, Sealing
  <2>6. CASE SealReturns
    BY <2>3, <2>6 DEF SealReturns, Sealing
  <2>7. CASE LoseMemory
    BY <2>3, <2>7 DEF LoseMemory, Sealing
  <2>8. CASE WriteCheckpoint
    BY <2>3, <2>8 DEF WriteCheckpoint, Sealing
  <2>9. CASE SyncLog \/ AddTraceTip \/ SkipCheckpoint
    BY <2>3, <2>9 DEF SyncLog, AddTraceTip, SkipCheckpoint, Sealing
  <2> QED BY <2>1, <2>4, <2>5, <2>6, <2>7, <2>8, <2>9
          DEF Next, WriteEntryFails, SyncLogFails, RollBackLog, MarkSealed, QuarantineTrace,
              CompactWal, Crash, PowerLoss, Start, Idle, auditVars, sealVars
<1> QED BY <1>5, <1>6 DEF BegunInv

-----------------------------------------------------------------------------
(* All that a reader finds of t is all there is, or there is nothing.      *)
Finished(f, t) == LinesOf(f, t) = {} \/ SeqsOf(f, t) = 0 .. Size[t] - 1

SilentInv ==
  /\ at = "idle" => cur = NoTrace
  /\ at = "quarantine" => logPoisoned
  /\ cpStep = "down" => ~logPoisoned
  /\ logPoisoned => unmarked \/ log.tail = <<Junk>>
  /\ cpStep # "down" /\ ~logPoisoned => \A t \in Traces \ earlier : t # cur => Finished(log, t)
  /\ Sealing => /\ \A t \in Traces \ earlier : Finished(logBefore, t)
                /\ written = 0 => log = logBefore

LEMMA WholeIfAll ==
  ASSUME NEW f, NEW t \in Traces, Parsed(f) \in Seq(ValidEntry),
         \A n \in 0 .. Size[t] - 1 :
           \E i \in 1 .. Len(Parsed(f)) : Parsed(f)[i] = Entry(t, n)
  PROVE  SeqsOf(f, t) = 0 .. Size[t] - 1
<1>1. DOMAIN Parsed(f) = 1 .. Len(Parsed(f)) /\ Len(Parsed(f)) \in Nat
  BY LenProperties
<1>2. ASSUME NEW n \in 0 .. Size[t] - 1
      PROVE  n \in SeqsOf(f, t)
  <2>1. PICK i \in DOMAIN Parsed(f) : Parsed(f)[i] = Entry(t, n)
    BY <1>1
  <2> QED BY <2>1 DEF SeqsOf, LinesOf, Entry
<1>3. ASSUME NEW n \in SeqsOf(f, t)
      PROVE  n \in 0 .. Size[t] - 1
  <2>1. PICK i \in DOMAIN Parsed(f) : Parsed(f)[i].trace = t /\ n = Parsed(f)[i].seqInTrace
    BY DEF SeqsOf, LinesOf
  <2>2. Parsed(f)[i] \in ValidEntry
    BY <1>1, <2>1, ElementOfSeq
  <2> QED BY <2>1, <2>2, AuditFilesAssumption DEF ValidEntry, LogEntry
<1> QED BY <1>2, <1>3

LEMMA HeldIsWhole ==
  ASSUME NEW files, NEW f \in files, f \in Tidy(ValidEntry), NEW t \in Traces, Held(t, files)
  PROVE  SeqsOf(f, t) = 0 .. Size[t] - 1
<1>1. /\ Parsed(f) \in Seq(ValidEntry) /\ Begins(f.lines, Parsed(f))
      /\ Len(f.lines) \in Nat /\ Len(Parsed(f)) \in Nat
  BY JunkIsNoEntry, LinesParsed, LenProperties
<1>2. ASSUME NEW n \in 0 .. Size[t] - 1
      PROVE  \E i \in 1 .. Len(Parsed(f)) : Parsed(f)[i] = Entry(t, n)
  <2>1. PICK i \in Nat \ {0} : \A g, h \in files : Same(i, g, h) /\ g.lines[i] = Entry(t, n)
    BY DEF Held
  <2>2. i \in 1 .. Len(f.lines) /\ f.lines[i] = Entry(t, n)
    BY <1>1, <2>1 DEF Same
  <2>3. i \in 1 .. Len(Parsed(f)) /\ Parsed(f)[i] = Entry(t, n)
    BY <1>1, <2>2 DEF Begins
  <2> QED BY <2>3
<1> QED BY <1>1, <1>2, WholeIfAll

(* The records of every trace are in the WAL, in the log, whole, or in the *)
(* quarantine file, at every moment.                                       *)
THEOREM RecordsAlwaysSurvive == Spec => []RecordsSurvive
<1>1. ASSUME AuditInv PROVE RecordsSurvive
  <2>1. log \in LogFiles
    BY DEF LogFiles
  <2> QED BY <1>1, <2>1, LogFacts, HeldIsWhole DEF AuditInv, KeptInv, RecordsSurvive, Whole
<1> QED BY <1>1, AuditInvariant, PTL

(* A line of another trace changes nothing for t.                          *)
LEMMA OtherTrace ==
  ASSUME NEW f, NEW g, NEW t, NEW e \in ValidEntry, e.trace # t,
         Parsed(f) \in Seq(ValidEntry), Parsed(g) = Append(Parsed(f), e)
  PROVE  LinesOf(g, t) = LinesOf(f, t) /\ SeqsOf(g, t) = SeqsOf(f, t)
<1> DEFINE n == Len(Parsed(f))
<1>1. /\ DOMAIN Parsed(f) = 1 .. n /\ DOMAIN Parsed(g) = 1 .. n + 1 /\ n \in Nat
      /\ \A i \in 1 .. n : Parsed(g)[i] = Parsed(f)[i]
      /\ Parsed(g)[n + 1] = e
  BY AppendProperties, LenProperties
<1>2. LinesOf(g, t) = LinesOf(f, t)
  BY <1>1 DEF LinesOf
<1>3. \A i \in LinesOf(f, t) : Parsed(g)[i] = Parsed(f)[i]
  BY <1>1 DEF LinesOf
<1> QED BY <1>2, <1>3 DEF SeqsOf

(* The last line of a trace that is written to the end makes it whole.     *)
LEMMA AllWritten ==
  ASSUME AuditInv, Sealing, NEW f, Parsed(f) \in Seq(ValidEntry),
         \/ written = Size[cur] /\ Parsed(f) = log.lines
         \/ written + 1 = Size[cur] /\ Parsed(f) = Append(log.lines, NextEntry)
  PROVE  SeqsOf(f, cur) = 0 .. Size[cur] - 1
<1>1. /\ \A n \in 0 .. written - 1 : \E i \in 1 .. Len(log.lines) : log.lines[i] = Entry(cur, n)
      /\ cur \in Traces /\ written \in Nat /\ Size[cur] \in Nat
      /\ log.lines \in Seq(ValidEntry) /\ Len(log.lines) \in Nat
  BY AuditFilesAssumption, LogFacts, LenProperties DEF AuditInv, KeptInv, SealTyped, Sealing
<1>2. CASE written = Size[cur] /\ Parsed(f) = log.lines
  BY <1>1, <1>2, WholeIfAll
<1>3. CASE written + 1 = Size[cur] /\ Parsed(f) = Append(log.lines, NextEntry)
  <2> DEFINE m == Len(log.lines)
  <2>1. /\ Len(Append(log.lines, NextEntry)) = m + 1
        /\ \A i \in 1 .. m : Append(log.lines, NextEntry)[i] = log.lines[i]
        /\ Append(log.lines, NextEntry)[m + 1] = Entry(cur, written)
    BY <1>1, AppendProperties DEF NextEntry
  <2>2. ASSUME NEW n \in 0 .. Size[cur] - 1
        PROVE  \E i \in 1 .. m + 1 : Append(log.lines, NextEntry)[i] = Entry(cur, n)
    <3>1. CASE n = written
      BY <1>1, <2>1, <3>1
    <3>2. CASE n # written
      <4>1. PICK i \in 1 .. m : log.lines[i] = Entry(cur, n)
        BY <1>1, <1>3, <3>2
      <4>2. i \in 1 .. m + 1 /\ Append(log.lines, NextEntry)[i] = Entry(cur, n)
        BY <1>1, <2>1, <4>1
      <4> QED BY <4>2
    <3> QED BY <3>1, <3>2
  <2>3. \A n \in 0 .. Size[cur] - 1 : \E i \in 1 .. Len(Parsed(f)) : Parsed(f)[i] = Entry(cur, n)
    BY <1>3, <2>1, <2>2
  <2> QED BY <1>1, <2>3, WholeIfAll
<1> QED BY <1>2, <1>3

-----------------------------------------------------------------------------
(* After a failed seal the log is as it was before it, or whole, or        *)
(* poisoned.                                                               *)
LEMMA PoisonLeaves ==
  ASSUME NEW file \in Tidy(ValidEntry), NEW disk, PoisonLog(file, disk)
  PROVE  logPoisoned' = TRUE /\ (unmarked' \/ log'.tail = <<Junk>>)
<1>1. Marked(file).tail = <<Junk>>
  BY TidyTail DEF Marked
<1> QED BY <1>1 DEF PoisonLog

LEMMA SilentAfterFailure ==
  ASSUME SilentInv, Sealing, SealReturns, UNCHANGED <<cpStep, earlier>>, cpStep # "down",
         \/ logPoisoned' = TRUE /\ (unmarked' \/ log'.tail = <<Junk>>)
         \/ /\ ~logPoisoned'
            /\ \A t \in Traces \ earlier : Finished(log', t)
  PROVE  SilentInv'
BY DEF SilentInv, Sealing, SealReturns

LEMMA SilentRepaired ==
  ASSUME AuditInv, SilentInv, Sealing, NEW file \in Tidy(ValidEntry),
         \/ at = "sync" /\ file = log
         \/ at = "write" /\ SafeToRepairTail /\ file \in {log} \cup CutShort(log, NextEntry)
  PROVE  \A t \in Traces \ earlier : Finished(Repaired(file), t)
<1>1. /\ Parsed(Repaired(file)) = Parsed(file) /\ Parsed(file) \in Seq(ValidEntry)
      /\ ~logPoisoned /\ cpStep # "down" /\ cur \in Traces /\ Parsed(log) \in Seq(ValidEntry)
  BY JunkIsNoEntry, RepairedParsed, ParsedTidy, ParsedFacts
     DEF AuditInv, LogInv, SealTyped, Sealing
<1>2. Parsed(log) = log.lines
  BY LogFacts, ParsedAtEnd DEF AuditInv, LogInv, SealTyped, Sealing
<1>3. SUFFICES ASSUME NEW t \in Traces \ earlier
               PROVE  Finished(file, t)
  BY <1>1 DEF Finished, LinesOf, SeqsOf
<1>4. CASE at = "sync" /\ file = log
  <2>1. SeqsOf(log, cur) = 0 .. Size[cur] - 1
    BY <1>1, <1>2, <1>4, AllWritten DEF AuditInv, LogInv
  <2> QED BY <1>1, <1>4, <2>1 DEF SilentInv, Finished
<1>5. CASE at = "write" /\ SafeToRepairTail /\ file \in {log} \cup CutShort(log, NextEntry)
  <2>1. Finished(log, t)
    BY <1>5 DEF SilentInv, SafeToRepairTail
  <2>2. Parsed(file) = Parsed(log) \/ Parsed(file) = Append(log.lines, NextEntry)
    BY <1>5, CutShortCut
  <2>3. CASE Parsed(file) = Parsed(log)
    BY <2>1, <2>3 DEF Finished, LinesOf, SeqsOf
  <2>4. CASE Parsed(file) = Append(log.lines, NextEntry)
    <3>1. NextEntry \in ValidEntry /\ NextEntry.trace = cur
      BY <1>5, NextEntryValid DEF AuditInv, NextEntry, Entry
    <3>2. CASE t = cur
      <4>1. written + 1 = Size[cur]
        BY <1>5 DEF SafeToRepairTail
      <4>2. SeqsOf(file, cur) = 0 .. Size[cur] - 1
        BY <1>1, <2>4, <4>1, AllWritten
      <4> QED BY <3>2, <4>2 DEF Finished
    <3>3. CASE t # cur
      <4>1. LinesOf(file, t) = LinesOf(log, t) /\ SeqsOf(file, t) = SeqsOf(log, t)
        BY <1>1, <1>2, <2>4, <3>1, <3>3, OtherTrace
      <4> QED BY <2>1, <4>1 DEF Finished
    <3> QED BY <3>2, <3>3
  <2> QED BY <2>2, <2>3, <2>4
<1> QED BY <1>4, <1>5

LEMMA SilentRollBack ==
  ASSUME AuditInv, SilentInv, Sealing, NEW file \in Tidy(ValidEntry), NEW disk, NEW safe,
         safe => \/ at = "sync" /\ file = log
                 \/ at = "write" /\ SafeToRepairTail /\ file \in {log} \cup CutShort(log, NextEntry),
         RollBackLog(file, disk, safe), UNCHANGED <<cpStep, earlier>>
  PROVE  SilentInv'
<1>1. SealReturns /\ cpStep # "down" /\ ~logPoisoned /\ Repaired(file) \in Tidy(ValidEntry)
  BY RepairedTidy DEF RollBackLog, AuditInv, LogInv, SealTyped, Sealing
<1>2. CASE log' = logBefore /\ UNCHANGED logPoisoned
  <2>1. \A t \in Traces \ earlier : Finished(log', t)
    BY <1>2 DEF SilentInv
  <2> QED BY <1>1, <1>2, <2>1, SilentAfterFailure
<1>3. ASSUME NEW found \in Tidy(ValidEntry), PoisonLog(found, disk)
      PROVE  SilentInv'
  BY <1>1, <1>3, PoisonLeaves, SilentAfterFailure
<1>4. CASE safe /\ log' = Repaired(file) /\ UNCHANGED logPoisoned
  <2>1. \A t \in Traces \ earlier : Finished(log', t)
    BY <1>4, SilentRepaired
  <2> QED BY <1>1, <1>4, <2>1, SilentAfterFailure
<1> QED BY <1>1, <1>2, <1>3, <1>4 DEF RollBackLog, RepairOrPoisonLog

LEMMA SilentWriteEntry ==
  ASSUME AuditInv, AuditInv', SilentInv, WriteEntry
  PROVE  SilentInv'
<1>1. /\ at = "write" /\ at' \in {"write", "sync"} /\ written' = written + 1 /\ written \in Nat
      /\ log.tail = <<>> /\ NextEntry \in ValidEntry /\ NextEntry.trace = cur
      /\ UNCHANGED <<logBefore, logPoisoned, unmarked, cur, earlier, cpStep>>
      /\ ~logPoisoned /\ cpStep # "down"
  BY NextEntryValid
     DEF AuditInv, LogInv, SealTyped, Sealing, WriteEntry, AfterLastEntry, NextEntry, Entry,
         checkpointFileVars, cpVars, historyVars
<1>2. /\ log' = [lines |-> Append(log.lines, NextEntry), tail |-> <<>>]
      /\ log' \in Tidy(ValidEntry)
  BY <1>1, LogFacts, WrittenTidy DEF WriteEntry
<1>3. Parsed(log) = log.lines /\ Parsed(log') = Append(log.lines, NextEntry)
      /\ Parsed(log) \in Seq(ValidEntry)
  BY <1>1, <1>2, LogFacts, ParsedAtEnd, ParsedFacts
<1>4. ASSUME NEW t \in Traces \ earlier, t # cur
      PROVE  Finished(log', t)
  <2>1. Finished(log, t)
    BY <1>1, <1>4 DEF SilentInv
  <2>2. LinesOf(log', t) = LinesOf(log, t) /\ SeqsOf(log', t) = SeqsOf(log, t)
    BY <1>1, <1>3, <1>4, OtherTrace
  <2> QED BY <2>1, <2>2 DEF Finished
<1>5. written' # 0
  BY <1>1
<1> QED BY <1>1, <1>4, <1>5 DEF SilentInv, Sealing

LEMMA SilentSteps ==
  ASSUME AuditInv, AuditInv', BegunInv, BegunInv', SilentInv, [Next]_auditVars
  PROVE  SilentInv'
<1>1. ASSUME NEW t \in Traces, BeginSeal(t)
      PROVE  SilentInv'
  <2>1. /\ cur = NoTrace /\ at = "idle" /\ at' = (IF logPoisoned THEN "quarantine" ELSE "write")
        /\ UNCHANGED <<log, logPoisoned, unmarked, earlier, cpStep>> /\ cpStep # "down"
        /\ ~logPoisoned => logBefore' = log
    BY <1>1 DEF BeginSeal, SilentInv, checkpointFileVars, cpVars
  <2>2. ~logPoisoned => \A u \in Traces \ earlier : Finished(log, u)
    BY <2>1, AuditFilesAssumption DEF SilentInv
  <2> QED BY <2>1, <2>2 DEF SilentInv, Sealing
<1>2. CASE WriteEntryFails
  <2>1. PICK file \in {log} \cup CutShort(log, NextEntry) :
          RollBackLog(file, logDisk, SafeToRepairTail)
    BY <1>2 DEF WriteEntryFails
  <2>2. file \in Tidy(ValidEntry)
    BY <1>2, <2>1, LogFacts, CutShortCut DEF WriteEntryFails
  <2>3. at = "write" /\ UNCHANGED <<cpStep, earlier>>
    BY <1>2 DEF WriteEntryFails, cpVars, historyVars
  <2> QED BY <2>1, <2>2, <2>3, SilentRollBack DEF Sealing
<1>3. CASE SyncLogFails
  <2>1. PICK disk \in {logDisk, log} : RollBackLog(log, disk, TRUE)
    BY <1>3 DEF SyncLogFails
  <2>2. at = "sync" /\ UNCHANGED <<cpStep, earlier>>
    BY <1>3 DEF SyncLogFails, cpVars, historyVars
  <2> QED BY <2>1, <2>2, LogFacts, SilentRollBack DEF Sealing
<1>4. ASSUME UNCHANGED <<log, logPoisoned, unmarked, earlier, cur>>, cpStep' # "down",
             cpStep # "down", at # "idle", at' \in {"tip", "checkpoint", "mark"}
      PROVE  SilentInv'
  BY <1>4 DEF SilentInv, Sealing
<1>5. CASE SyncLog \/ AddTraceTip \/ SkipCheckpoint \/ WriteCheckpoint
  <2>1. /\ UNCHANGED <<log, logPoisoned, unmarked, earlier, cur>> /\ at # "idle"
        /\ at' \in {"tip", "checkpoint", "mark"}
    BY <1>5 DEF SyncLog, AddTraceTip, SkipCheckpoint, WriteCheckpoint, logFileVars, historyVars
  <2>2. cpStep' # "down" /\ cpStep # "down"
    BY <2>1 DEF AuditInv, SealTyped
  <2> QED BY <1>4, <2>1, <2>2
<1>6. CASE MarkSealed
  <2>1. /\ at = "mark" /\ at' = "idle" /\ cur' = NoTrace /\ cur \in Traces
        /\ UNCHANGED <<log, logPoisoned, unmarked, earlier, cpStep>> /\ cpStep # "down"
    BY <1>6 DEF AuditInv, SealTyped, MarkSealed, SealReturns, cpVars, logFileVars, historyVars
  <2>2. Finished(log, cur)
    <3>1. Held(cur, LogFiles) /\ log \in LogFiles
      BY <2>1 DEF AuditInv, KeptInv, LogFiles
    <3> QED BY <2>1, <3>1, LogFacts, HeldIsWhole DEF Finished
  <2> QED BY <2>1, <2>2 DEF SilentInv, Sealing
<1>7. CASE QuarantineTrace
  <2>1. /\ at = "quarantine" /\ at' = "idle" /\ cur' = NoTrace
        /\ UNCHANGED <<log, logPoisoned, unmarked, earlier, cpStep>>
    BY <1>7 DEF QuarantineTrace, SealReturns, cpVars, logFileVars, historyVars
  <2> QED BY <2>1 DEF SilentInv, Sealing
<1>8. CASE Crash \/ PowerLoss
  <2>1. /\ at' = "idle" /\ cur' = NoTrace /\ logPoisoned' = FALSE /\ cpStep' = "down"
    BY <1>8 DEF Crash, PowerLoss, CpCrash, CpPowerLoss, CpStopped, LoseMemory
  <2> QED BY <2>1 DEF SilentInv, Sealing
<1>9. CASE Start
  <2>1. /\ at = "idle" /\ cpStep = "down" /\ UNCHANGED <<at, cur, logPoisoned, attempts>>
        /\ earlier' = {t \in Traces : attempts[t] > 0}
    BY <1>9 DEF AuditInv, SealTyped, Start, CpStart
  <2>2. ASSUME NEW t \in Traces \ earlier'
        PROVE  Finished(log', t)
    <3>1. ~(attempts'[t] > 0)
      BY <2>1, <2>2
    <3>2. Parsed(log') \in Seq(Begun')
      BY DEF BegunInv
    <3>3. \A i \in DOMAIN Parsed(log') : Parsed(log')[i] \in Begun'
      BY <3>2, LenProperties, ElementOfSeq
    <3> QED BY <3>1, <3>3 DEF Finished, LinesOf, Begun
  <2> QED BY <2>1, <2>2 DEF SilentInv, Sealing
<1>10. CASE CompactWal \/ Idle \/ UNCHANGED auditVars
  <2>1. UNCHANGED <<log, logBefore, logPoisoned, unmarked, earlier, cpStep, at, cur, written>>
    BY <1>10 DEF CompactWal, Idle, auditVars, checkpointFileVars, cpVars, sealVars, logFileVars,
                 historyVars
  <2> QED BY <2>1 DEF SilentInv, Sealing, Finished, LinesOf, SeqsOf
<1> QED BY <1>1, <1>2, <1>3, <1>5, <1>6, <1>7, <1>8, <1>9, <1>10, SilentWriteEntry DEF Next

LEMMA SilentInvariant == Spec => [](AuditInv /\ BegunInv /\ SilentInv)
<1> DEFINE Inv == AuditInv /\ BegunInv /\ SilentInv
<1>1. ASSUME Init PROVE Inv
  <2>1. AuditInv
    BY <1>1, InitInv
  <2>2. Parsed(EmptyFile) = <<>> /\ <<>> \in Seq(Begun)
    BY <2>1, EmptyCut
  <2>3. BegunInv
    BY <1>1, <2>2 DEF Init, BegunInv, Sealing
  <2>4. Finished(EmptyFile, NoTrace) /\ \A t \in Traces : Finished(EmptyFile, t)
    BY <2>2 DEF Finished, LinesOf
  <2>5. SilentInv
    BY <1>1, <2>4 DEF Init, CpInit, SilentInv, Sealing
  <2> QED BY <2>1, <2>3, <2>5
<1>2. ASSUME Inv, [Next]_auditVars PROVE Inv'
  <2>1. AuditInv'
    BY <1>2, NextInv
  <2>2. BegunInv'
    BY <1>2, <2>1, BegunSteps
  <2> QED BY <1>2, <2>1, <2>2, SilentSteps
<1> QED BY <1>1, <1>2, PTL DEF Spec

(* No failed seal leaves part of its trace in a log that reads as if all   *)
(* were well: what this process left half-written is at the end of a log   *)
(* marked as torn, unless even the marker could not be written.            *)
THEOREM NoSilentPart == Spec => []NoSilentPartialTrace
<1>1. ASSUME AuditInv, SilentInv PROVE NoSilentPartialTrace
  <2>1. SUFFICES ASSUME cpStep # "down", NEW t \in Traces \ earlier,
                        t # cur, LinesOf(log, t) # {}, ~Whole(t)
                 PROVE  TornTrailingLine(log) \/ unmarked
    BY DEF NoSilentPartialTrace
  <2>2. CASE ~logPoisoned
    BY <1>1, <2>1, <2>2 DEF SilentInv, Finished, Whole
  <2>3. CASE log.tail = <<Junk>>
    <3>1. log.lines \in Seq(ValidEntry)
      BY <1>1, LogFacts
    <3>2. Content(log) = Append(log.lines, Junk)
      BY <2>3, <3>1 DEF Content
    <3>3. /\ Len(Append(log.lines, Junk)) = Len(log.lines) + 1
          /\ Append(log.lines, Junk)[Len(log.lines) + 1] = Junk
          /\ Append(log.lines, Junk) # <<>>
      BY <3>1
    <3> QED BY <3>2, <3>3 DEF TornTrailingLine, TornLine
  <2> QED BY <1>1, <2>2, <2>3 DEF SilentInv
<1> QED BY <1>1, SilentInvariant, PTL

-----------------------------------------------------------------------------
(* A tip is in the accumulator, a checkpoint or the WAL only when its      *)
(* trace is whole in the log, to stay.                                     *)
HeldTips == {tip \in Tips : Held(tip.trace, LogFiles)}
TipsInv == CpTipsIn(HeldTips) /\ walOwed \in Seq(HeldTips)

LEMMA TipsStep ==
  ASSUME AuditInv, AuditInv', NEW T, walOwed \in Seq(T), CpTipsIn(T),
         at \in {"tip", "checkpoint", "mark"} => TipOf(cur) \in T,
         [Next]_auditVars
  PROVE  CpTipsIn(T)' /\ walOwed' \in Seq(T)
<1>1. CASE UNCHANGED <<cpVars, walOwed>>
  BY <1>1, CpTipsUnchanged
<1>2. CASE AddTraceTip
  <2>1. AddTip(TipOf(cur)) /\ TipOf(cur) \in T /\ walOwed' = walOwed
    BY <1>2 DEF AddTraceTip, walVars
  <2> QED BY <2>1, CpTipsAdd
<1>3. CASE WriteCheckpoint
  <2>1. (Stage \/ WriteLine \/ Commit \/ WriteFails \/ SyncFails) /\ walOwed' = walOwed
    BY <1>3 DEF WriteCheckpoint, walVars
  <2> QED BY <2>1, CpTipsWrite DEF AuditInv
<1>4. CASE MarkSealed
  <2>1. SealedMarkerTip \in Seq(T)
    BY <1>4 DEF MarkSealed, SealedMarkerTip
  <2>2. UNCHANGED cpVars /\ walOwed' \in {walOwed, walOwed \o SealedMarkerTip}
    BY <1>4 DEF MarkSealed, MarkWal
  <2> QED BY <2>1, <2>2, ConcatProperties, CpTipsUnchanged
<1>5. CASE QuarantineTrace
  <2>1. UNCHANGED cpVars /\ walOwed' \in {walOwed, walOwed \o <<>>}
    BY <1>5 DEF QuarantineTrace, MarkWal, PartlyQuarantined
  <2>2. walOwed \o <<>> \in Seq(T)
    OBVIOUS
  <2> QED BY <2>1, <2>2, CpTipsUnchanged
<1>6. CASE CompactWal
  <2>1. UNCHANGED cpVars /\ walOwed' \in Seq(T)
    BY <1>6, PendingTips DEF CompactWal, checkpointFileVars, CpTipsIn
  <2> QED BY <2>1, CpTipsUnchanged
<1>7. CASE Crash \/ PowerLoss
  <2>1. (CpCrash \/ CpPowerLoss) /\ walOwed' = walOwed
    BY <1>7 DEF Crash, PowerLoss, LoseMemory, walVars
  <2> QED BY <2>1, CpTipsStop DEF AuditInv
<1>8. CASE Start
  <2>1. CpStart(walOwed) /\ walOwed' = walOwed
    BY <1>8 DEF Start, walVars
  <2> QED BY <2>1, CpTipsStart
<1>9. CASE (\E t \in Traces : BeginSeal(t)) \/ WriteEntry \/ WriteEntryFails \/ SyncLog
           \/ SyncLogFails \/ SkipCheckpoint \/ Idle \/ UNCHANGED auditVars
  <2>1. UNCHANGED <<cpVars, walOwed>>
    BY <1>9 DEF BeginSeal, WriteEntry, WriteEntryFails, SyncLog, SyncLogFails, SkipCheckpoint,
                Idle, auditVars, checkpointFileVars, walVars
  <2> QED BY <1>1, <2>1
<1> QED BY <1>2, <1>3, <1>4, <1>5, <1>6, <1>7, <1>8, <1>9 DEF Next

LEMMA TipsSteps ==
  ASSUME AuditInv, AuditInv', HeldStays, TipsInv, [Next]_auditVars
  PROVE  TipsInv'
<1>1. PICK T : T = HeldTips
  OBVIOUS
<1>2. walOwed \in Seq(T) /\ CpTipsIn(T)
  BY <1>1 DEF TipsInv
<1>3. at \in {"tip", "checkpoint", "mark"} => TipOf(cur) \in T
  <2>1. SUFFICES ASSUME at \in {"tip", "checkpoint", "mark"}
                 PROVE  TipOf(cur) \in T
    OBVIOUS
  <2>2. cur \in Traces /\ Held(cur, LogFiles)
    BY <2>1 DEF AuditInv, SealTyped, KeptInv
  <2> QED BY <1>1, <2>2, TipTyped DEF HeldTips, TipOf
<1>4. CpTipsIn(T)' /\ walOwed' \in Seq(T)
  BY <1>2, <1>3, TipsStep
<1>5. T \subseteq HeldTips'
  BY <1>1, AuditFilesAssumption DEF HeldTips, HeldStays
<1>6. PICK U : U = HeldTips'
  OBVIOUS
<1>7. CpTipsIn(U)' /\ walOwed' \in Seq(U)
  BY <1>4, <1>5, <1>6, CoveringGrows DEF CpTipsIn
<1> QED BY <1>6, <1>7 DEF TipsInv, CpTipsIn

-----------------------------------------------------------------------------
(* The entries of a trace that was sealed once are in the log once, each   *)
(* after all the smaller ones.                                             *)
Once == {t \in Traces : attempts[t] <= 1}

InOrder(s, traces) ==
  \A i \in 1 .. Len(s) : s[i].trace \in traces =>
    /\ \A n \in 0 .. s[i].seqInTrace - 1 : \E j \in 1 .. i - 1 : s[j] = Entry(s[i].trace, n)
    /\ \A j \in 1 .. i - 1 : s[j] # s[i]

OrderInv ==
  /\ InOrder(Parsed(log), Once) /\ InOrder(Parsed(logDisk), Once)
  /\ InOrder(Parsed(logBefore), Once)
  /\ Sealing /\ cur \in Once =>
       \A i \in 1 .. Len(log.lines) : log.lines[i].trace = cur => log.lines[i].seqInTrace < written

LEMMA InOrderBegins ==
  ASSUME NEW V, NEW r \in Seq(V), NEW s \in Seq(V), Begins(r, s),
         NEW traces, NEW fewer \in SUBSET traces, InOrder(s, traces)
  PROVE  InOrder(r, fewer)
<1>1. Len(r) \in Nat /\ Len(s) \in Nat /\ Len(r) <= Len(s)
      /\ \A i \in 1 .. Len(r) : r[i] = s[i]
  BY LenProperties DEF Begins
<1>2. ASSUME NEW i \in 1 .. Len(r), r[i].trace \in fewer
      PROVE  /\ \A n \in 0 .. r[i].seqInTrace - 1 :
                  \E j \in 1 .. i - 1 : r[j] = Entry(r[i].trace, n)
             /\ \A j \in 1 .. i - 1 : r[j] # r[i]
  <2>1. i \in 1 .. Len(s) /\ r[i] = s[i] /\ \A j \in 1 .. i - 1 : r[j] = s[j]
    BY <1>1
  <2>2. /\ \A n \in 0 .. s[i].seqInTrace - 1 :
             \E j \in 1 .. i - 1 : s[j] = Entry(s[i].trace, n)
        /\ \A j \in 1 .. i - 1 : s[j] # s[i]
    BY <1>2, <2>1 DEF InOrder
  <2> QED BY <2>1, <2>2
<1> QED BY <1>2 DEF InOrder

(* The next entry of a seal comes in its place.                            *)
LEMMA InOrderNext ==
  ASSUME AuditInv, OrderInv, at = "write"
  PROVE  /\ InOrder(Append(log.lines, NextEntry), Once)
         /\ Append(log.lines, NextEntry) \in Seq(ValidEntry)
<1> DEFINE m == Len(log.lines)
           longer == Append(log.lines, NextEntry)
<1>1. /\ NextEntry \in ValidEntry /\ log.lines \in Seq(ValidEntry) /\ m \in Nat
      /\ NextEntry.trace = cur /\ NextEntry.seqInTrace = written /\ log.tail = <<>>
  BY NextEntryValid, LogFacts, LenProperties
     DEF AuditInv, LogInv, SealTyped, Sealing, NextEntry, Entry
<1>2. /\ longer \in Seq(ValidEntry) /\ Len(longer) = m + 1
      /\ \A i \in 1 .. m : longer[i] = log.lines[i]
      /\ longer[m + 1] = NextEntry
  BY <1>1, AppendProperties
<1>3. InOrder(log.lines, Once)
  <2>1. Parsed(log) = log.lines
    BY <1>1, LogFacts, ParsedAtEnd
  <2> QED BY <2>1 DEF OrderInv
<1>4. ASSUME NEW i \in 1 .. m + 1, longer[i].trace \in Once
      PROVE  /\ \A n \in 0 .. longer[i].seqInTrace - 1 :
                  \E j \in 1 .. i - 1 : longer[j] = Entry(longer[i].trace, n)
             /\ \A j \in 1 .. i - 1 : longer[j] # longer[i]
  <2>1. CASE i \in 1 .. m
    <3>1. /\ \A n \in 0 .. log.lines[i].seqInTrace - 1 :
               \E j \in 1 .. i - 1 : log.lines[j] = Entry(log.lines[i].trace, n)
          /\ \A j \in 1 .. i - 1 : log.lines[j] # log.lines[i]
      BY <1>2, <1>3, <1>4, <2>1 DEF InOrder
    <3>2. longer[i] = log.lines[i] /\ \A j \in 1 .. i - 1 : longer[j] = log.lines[j]
      BY <1>1, <1>2, <2>1
    <3> QED BY <3>1, <3>2
  <2>2. CASE i = m + 1
    <3>1. longer[i] = NextEntry /\ cur \in Once
      BY <1>1, <1>2, <1>4, <2>2
    <3>2. /\ \A n \in 0 .. written - 1 : \E j \in 1 .. m : log.lines[j] = Entry(cur, n)
          /\ \A j \in 1 .. m : log.lines[j].trace = cur => log.lines[j].seqInTrace < written
          /\ written \in Nat
      BY <3>1 DEF AuditInv, KeptInv, SealTyped, OrderInv, Sealing
    <3>3. i - 1 = m
      BY <1>1, <2>2
    <3>4. \A n \in 0 .. longer[i].seqInTrace - 1 :
            \E j \in 1 .. i - 1 : longer[j] = Entry(longer[i].trace, n)
      <4>1. SUFFICES ASSUME NEW n \in 0 .. written - 1
                     PROVE  \E j \in 1 .. m : longer[j] = Entry(cur, n)
        BY <1>1, <3>1, <3>3
      <4>2. PICK j \in 1 .. m : log.lines[j] = Entry(cur, n)
        BY <3>2
      <4> QED BY <1>2, <4>2
    <3>5. ASSUME NEW j \in 1 .. m
          PROVE  longer[j] # NextEntry
      BY <1>1, <1>2, <3>2
    <3> QED BY <3>1, <3>3, <3>4, <3>5
  <2> QED BY <1>1, <2>1, <2>2
<1> QED BY <1>2, <1>4 DEF InOrder

LEMMA OrderSteps ==
  ASSUME AuditInv, AuditInv', BegunInv, OrderInv, [Next]_auditVars
  PROVE  OrderInv'
<1>1. Once' \subseteq Once
  BY AttemptsGrow DEF Once, AuditInv, SealTyped
<1>2. \A s \in LogSources : s \in Seq(ValidEntry) /\ InOrder(s, Once)
  BY ParsedFacts, InOrderNext DEF LogSources, OrderInv
<1>3. ASSUME NEW f, LogCut(f), f \in Tidy(ValidEntry)
      PROVE  InOrder(Parsed(f), Once')
  <2>1. PICK s \in LogSources : Begins(Parsed(f), s)
    BY <1>3 DEF LogCut
  <2>2. Parsed(f) \in Seq(ValidEntry)
    BY <1>3, JunkIsNoEntry, ParsedTidy
  <2> QED BY <1>1, <1>2, <2>1, <2>2, InOrderBegins
<1>4. /\ InOrder(Parsed(log'), Once') /\ InOrder(Parsed(logDisk'), Once')
      /\ InOrder(Parsed(logBefore'), Once')
  BY <1>3, LogSteps DEF AuditInv, LogInv
<1>5. SUFFICES ASSUME Sealing', cur' \in Once', NEW i \in 1 .. Len(log'.lines),
                      log'.lines[i].trace = cur'
               PROVE  log'.lines[i].seqInTrace < written'
  BY <1>4 DEF OrderInv
<1>6. CASE \E t \in Traces : BeginSeal(t)
  <2>1. PICK t \in Traces : BeginSeal(t)
    BY <1>6
  <2>2. /\ log' = log /\ cur' = t /\ ~logPoisoned /\ cpStep # "down"
        /\ attempts' = [attempts EXCEPT ![t] = @ + 1] /\ attempts \in [Traces -> Nat]
    BY <1>5, <2>1 DEF BeginSeal, Sealing, AuditInv, SealTyped
  <2>3. attempts'[t] <= 1
    BY <1>5, <2>2 DEF Once
  <2>4. ~(attempts[t] > 0)
    BY <2>2, <2>3
  <2>5. log.tail = <<>>
    BY <2>2 DEF AuditInv, LogInv
  <2>6. Parsed(log) = log.lines
    BY <2>5, LogFacts, ParsedAtEnd
  <2>7. log.lines[i] \in Begun
    BY <1>5, <2>2, <2>6, ElementOfSeq DEF BegunInv
  <2> QED BY <1>5, <2>2, <2>4, <2>7 DEF Begun
<1>7. CASE WriteEntry
  <2>1. /\ at = "write" /\ cur' = cur /\ written' = written + 1 /\ written \in Nat
        /\ log.tail = <<>> /\ NextEntry \in ValidEntry
        /\ NextEntry.seqInTrace = written
    BY <1>7, NextEntryValid
       DEF AuditInv, LogInv, SealTyped, Sealing, WriteEntry, NextEntry, Entry
  <2>2. log' = [lines |-> Append(log.lines, NextEntry), tail |-> <<>>]
    BY <1>7, <2>1, LogFacts, WrittenTidy DEF WriteEntry
  <2>3. log'.lines = Append(log.lines, NextEntry)
    BY <2>2
  <2>4. /\ Len(log'.lines) = Len(log.lines) + 1 /\ Len(log.lines) \in Nat
        /\ \A j \in 1 .. Len(log.lines) : log'.lines[j] = log.lines[j]
        /\ log'.lines[Len(log.lines) + 1] = NextEntry
    BY <2>1, <2>3, LogFacts, AppendProperties
  <2>5. CASE i = Len(log.lines) + 1
    BY <2>1, <2>4, <2>5
  <2>6. CASE i \in 1 .. Len(log.lines)
    <3>1. log.lines[i].trace = cur /\ cur \in Once
      BY <1>1, <1>5, <2>1, <2>4, <2>6
    <3>2. log.lines[i].seqInTrace < written
      BY <2>1, <2>6, <3>1 DEF OrderInv, Sealing
    <3>3. log.lines[i].seqInTrace \in Nat
      BY <2>6, LogFacts, ElementOfSeq DEF ValidEntry, LogEntry
    <3> QED BY <2>1, <2>4, <2>6, <3>2, <3>3
  <2> QED BY <1>5, <2>4, <2>5, <2>6
<1>8. CASE UNCHANGED <<log, at, cur, written>>
  BY <1>1, <1>5, <1>8 DEF OrderInv, Sealing
<1>9. at' \in {"write", "sync"}
  BY <1>5 DEF Sealing
<1>10. CASE Start
  BY <1>9, <1>10 DEF Start, CpStart, AuditInv, SealTyped
<1> QED BY <1>6, <1>7, <1>8, <1>9, <1>10
        DEF Next, WriteEntryFails, SyncLog, SyncLogFails, RollBackLog, SealReturns, AddTraceTip,
            SkipCheckpoint, WriteCheckpoint, MarkSealed, QuarantineTrace, CompactWal, Crash,
            PowerLoss, LoseMemory, Idle, auditVars, checkpointFileVars, sealVars, logFileVars

-----------------------------------------------------------------------------
LEMMA Smallest ==
  ASSUME NEW T \in SUBSET Nat, T # {}
  PROVE  \E x \in T : \A y \in T : x <= y
<1>1. PICK x \in T : \A y \in T : ~(<<y, x>> \in OpToRel(<, Nat))
  BY NatLessThanWellFounded, WFMin
<1>2. \A y \in T : ~(y < x)
  BY <1>1 DEF OpToRel
<1> QED BY <1>2

(* The entries in order are numbered 0, 1, 2... without a gap, as many as  *)
(* there are lines.                                                        *)
LEMMA OnceCounted ==
  ASSUME NEW f, NEW t \in Traces, NEW traces, t \in traces,
         Parsed(f) \in Seq(ValidEntry), InOrder(Parsed(f), traces)
  PROVE  \E m \in Nat : /\ SeqsOf(f, t) = 0 .. m - 1
                        /\ Cardinality(SeqsOf(f, t)) = m
                        /\ EntryCount(f, t) = m
<1> DEFINE s == Parsed(f)
           L == LinesOf(f, t)
           S == SeqsOf(f, t)
<1>1. DOMAIN s = 1 .. Len(s) /\ Len(s) \in Nat /\ Size[t] \in Nat
  BY LenProperties, AuditFilesAssumption
<1>2. \A i \in L : /\ i \in 1 .. Len(s) /\ s[i] \in ValidEntry /\ s[i].trace = t
                   /\ s[i].seqInTrace \in Nat /\ s[i].seqInTrace < Size[t]
  BY <1>1, ElementOfSeq DEF LinesOf, ValidEntry, LogEntry
<1>3. S \subseteq Nat /\ Size[t] \notin S
  BY <1>1, <1>2 DEF SeqsOf
<1>4. PICK m \in Nat \ S : \A y \in Nat \ S : m <= y
  BY <1>1, <1>3, Smallest
<1>5. \A n \in 0 .. m - 1 : n \in S
  <2>1. SUFFICES ASSUME NEW n \in 0 .. m - 1, n \notin S
                 PROVE  FALSE
    OBVIOUS
  <2>2. n \in Nat \ S /\ n < m
    BY <1>4, <2>1
  <2> QED BY <1>4, <2>2
<1>6. ASSUME NEW n \in S
      PROVE  n \in 0 .. m - 1
  <2>1. PICK i \in L : n = s[i].seqInTrace
    BY DEF SeqsOf
  <2>2. CASE m < n
    <3>1. m \in 0 .. s[i].seqInTrace - 1 /\ i \in 1 .. Len(s) /\ s[i].trace = t
      BY <1>2, <1>4, <2>1, <2>2
    <3>2. PICK j \in 1 .. i - 1 : s[j] = Entry(t, m)
      BY <3>1 DEF InOrder
    <3>3. j \in L /\ s[j].seqInTrace = m
      BY <1>1, <3>1, <3>2 DEF LinesOf, Entry
    <3> QED BY <1>4, <3>3 DEF SeqsOf
  <2>3. n # m /\ n \in Nat
    BY <1>3, <1>4
  <2> QED BY <1>4, <2>2, <2>3
<1>7. S = 0 .. m - 1
  BY <1>5, <1>6
<1>8. IsFiniteSet(S) /\ Cardinality(S) = m
  <2>1. IsFiniteSet(0 .. m - 1) /\ Cardinality(0 .. m - 1) = IF 0 > m - 1 THEN 0 ELSE m - 1 - 0 + 1
    BY <1>4, FS_Interval
  <2> QED BY <1>4, <1>7, <2>1
<1>9. Cardinality(L) = m
  <2> DEFINE g == [i \in L |-> s[i].seqInTrace]
  <2>1. g \in Surjection(L, S)
    BY DEF SeqsOf, Surjection
  <2>2. ASSUME NEW i \in L, NEW j \in L, g[i] = g[j]
        PROVE  i = j
    <3>1. s[i] = s[j]
      <4>1. s[i].seqInTrace = s[j].seqInTrace
        BY <2>2
      <4>2. s[i] \in LogEntry /\ s[j] \in LogEntry /\ s[i].trace = s[j].trace
        BY <1>2 DEF ValidEntry
      <4> HIDE DEF s, L, g
      <4> QED BY <4>1, <4>2 DEF LogEntry
    <3>2. \A k \in L : \A l \in 1 .. k - 1 : s[l] # s[k]
      BY <1>2 DEF InOrder
    <3>3. i \in 1 .. Len(s) /\ j \in 1 .. Len(s)
      BY <1>2
    <3>4. i \notin 1 .. j - 1 /\ j \notin 1 .. i - 1
      BY <3>1, <3>2
    <3> QED BY <1>1, <3>3, <3>4
  <2>3. g \in Injection(L, S)
    BY <2>1, <2>2 DEF Injection, Surjection, IsInjective
  <2>4. IsFiniteSet(L) /\ (Cardinality(L) = Cardinality(S) <=> g \in Surjection(L, S))
    BY <1>8, <2>3, FS_Injection
  <2> QED BY <1>8, <2>1, <2>4
<1> QED BY <1>4, <1>7, <1>8, <1>9 DEF EntryCount

LEMMA OrderInvariant == Spec => [](AuditInv /\ OrderInv /\ TipsInv)
<1> DEFINE Inv == AuditInv /\ BegunInv /\ OrderInv /\ TipsInv
<1>1. ASSUME Init PROVE Inv
  <2>1. AuditInv
    BY <1>1, InitInv
  <2>2. Parsed(EmptyFile) = <<>> /\ <<>> \in Seq(Begun) /\ <<>> \in Seq(HeldTips)
    BY <2>1, EmptyCut
  <2>3. BegunInv
    BY <1>1, <2>2 DEF Init, BegunInv, Sealing
  <2>4. InOrder(<<>>, Once)
    BY DEF InOrder
  <2>5. OrderInv
    BY <1>1, <2>2, <2>4 DEF Init, OrderInv, Sealing
  <2>6. TipsInv
    BY <1>1, <2>2, CpTipsInit DEF Init, TipsInv
  <2> QED BY <2>1, <2>3, <2>5, <2>6
<1>2. ASSUME Inv, [Next]_auditVars PROVE Inv'
  <2>1. AuditInv' /\ HeldStays
    BY <1>2, NextInv
  <2>2. BegunInv'
    BY <1>2, <2>1, BegunSteps
  <2>3. OrderInv'
    BY <1>2, <2>1, OrderSteps
  <2>4. TipsInv'
    BY <1>2, <2>1, TipsSteps
  <2> QED BY <2>1, <2>2, <2>3, <2>4
<1>3. Inv => AuditInv /\ OrderInv /\ TipsInv
  OBVIOUS
<1> QED BY <1>1, <1>2, <1>3, PTL DEF Spec

(* On the files as they are, whatever failed and wherever it stopped, the  *)
(* verifier calls no checkpoint bad, and a trace only when it was sealed   *)
(* more than once.                                                         *)
THEOREM FatalNeedsReseal == Spec => []FatalOnlyAfterReseal
<1>1. ASSUME AuditInv, OrderInv, TipsInv PROVE FatalOnlyAfterReseal
  <2>1. CheckpointFindings(cp) = {}
    <3>1. CheckpointChainUnbroken
      BY <1>1, ChainUnbrokenFromInv DEF AuditInv
    <3> QED BY <3>1 DEF CheckpointChainUnbroken, Contiguous, CheckpointFindings, LinkBroken
  <2>2. SUFFICES ASSUME NEW t \in Traces, attempts[t] <= 1
                 PROVE  FatalFindings(log, cp, t) = {}
    <3>1. \A u \in Traces : attempts[u] \in Nat
      BY <1>1 DEF AuditInv, SealTyped
    <3> QED BY <2>1, <3>1 DEF FatalOnlyAfterReseal
  <2>3. PICK m \in Nat : /\ SeqsOf(log, t) = 0 .. m - 1
                         /\ Cardinality(SeqsOf(log, t)) = m
                         /\ EntryCount(log, t) = m
    <3>1. t \in Once /\ InOrder(Parsed(log), Once) /\ Parsed(log) \in Seq(ValidEntry)
      BY <1>1, <2>2, ParsedFacts DEF Once, OrderInv
    <3> QED BY <3>1, OnceCounted
  <2>4. ChainFailure(log, t) = {}
    BY <2>3 DEF ChainFailure, DuplicateSegment, ChainVerifies
  <2>5. ASSUME NEW tip \in TipsIn(cp), tip.trace = t
        PROVE  TipFailure(log, tip) = {}
    <3>1. tip \in HeldTips
      <4>1. PICK i \in DOMAIN Parsed(cp) : \E j \in DOMAIN Parsed(cp)[i].tips :
              tip = Parsed(cp)[i].tips[j]
        BY DEF TipsIn
      <4> QED BY <1>1, <4>1, CpTipsRead DEF AuditInv, TipsInv
    <3>2. tip.count = Size[t] /\ Held(t, LogFiles) /\ Size[t] \in Nat /\ log \in LogFiles
      BY <2>5, <3>1, AuditFilesAssumption DEF HeldTips, LogFiles
    <3>3. SeqsOf(log, t) = 0 .. Size[t] - 1
      BY <1>1, <3>2, LogFacts, HeldIsWhole
    <3>4. m = Size[t]
      <4>1. \A n \in Nat : n \in SeqsOf(log, t) <=> n < m
        BY <2>3
      <4>2. \A n \in Nat : n \in SeqsOf(log, t) <=> n < Size[t]
        BY <3>2, <3>3
      <4>3. ~(m < Size[t]) /\ ~(Size[t] < m)
        BY <3>2, <4>1, <4>2
      <4> QED BY <3>2, <4>3
    <3>5. CountMatches(log, tip)
      BY <2>3, <2>5, <3>2, <3>4 DEF CountMatches
    <3> QED BY <2>4, <2>5, <3>5 DEF TipFailure
  <2> QED BY <2>4, <2>5 DEF FatalFindings
<1> QED BY <1>1, OrderInvariant, PTL

-----------------------------------------------------------------------------
(* The files keep the promises of AuditTrail.                              *)
RecordedHeld == \A t \in Traces : Recorded(t) <=> t \in quarantined \/ Held(t, LogFiles)

LEMMA RecordedIsHeld ==
  ASSUME AuditInv
  PROVE  RecordedHeld
<1> SUFFICES ASSUME NEW t \in Traces
             PROVE  Recorded(t) <=> t \in quarantined \/ Held(t, LogFiles)
  BY DEF RecordedHeld
<1>1. /\ log \in LogFiles
      /\ Len(log.lines) \in Nat /\ DOMAIN log.lines = 1 .. Len(log.lines)
  BY LogFacts DEF LogFiles
<1>2. ASSUME NEW n \in 0 .. Size[t] - 1, NEW i \in StayingLines, log.lines[i] = Entry(t, n),
             NEW f \in LogFiles, NEW g \in LogFiles
      PROVE  i \in Nat \ {0} /\ Same(i, f, g) /\ f.lines[i] = Entry(t, n)
  <2>1. i \in 1 .. Len(log.lines) /\ Same(i, log, f) /\ Same(i, log, g)
    BY <1>1, <1>2 DEF StayingLines
  <2>2. i \in 1 .. i
    BY <2>1
  <2> QED BY <1>2, <2>1, <2>2 DEF Same
<1>3. ASSUME NEW n \in 0 .. Size[t] - 1, NEW i \in Nat \ {0},
             \A f, g \in LogFiles : Same(i, f, g) /\ f.lines[i] = Entry(t, n)
      PROVE  i \in StayingLines /\ log.lines[i] = Entry(t, n)
  <2>1. /\ \A f \in LogFiles : Same(i, log, f)
        /\ Same(i, log, log) /\ log.lines[i] = Entry(t, n)
    BY <1>1, <1>3
  <2>2. i \in 1 .. Len(log.lines)
    BY <1>1, <2>1 DEF Same
  <2> QED BY <1>1, <2>1, <2>2 DEF StayingLines
<1>4. ASSUME Held(t, LogFiles), NEW n \in 0 .. Size[t] - 1
      PROVE  \E i \in StayingLines : log.lines[i] = Entry(t, n)
  BY <1>3, <1>4 DEF Held
<1>5. ASSUME NEW n \in 0 .. Size[t] - 1, \E i \in StayingLines : log.lines[i] = Entry(t, n)
      PROVE  \E i \in Nat \ {0} : \A f, g \in LogFiles : Same(i, f, g) /\ f.lines[i] = Entry(t, n)
  <2>1. PICK i \in StayingLines : log.lines[i] = Entry(t, n)
    BY <1>5
  <2>2. i \in Nat \ {0}
    BY <1>1, <1>2, <2>1
  <2> QED BY <1>2, <2>1, <2>2
<1> QED BY <1>4, <1>5 DEF Recorded, Held

(* A commit vouches for what the file then says.                           *)
LEMMA CommittedGrow ==
  ASSUME [Next]_auditVars
  PROVE  \/ committed' = committed
         \/ /\ at = "checkpoint" /\ at' = "mark" /\ committed' = Parsed(cp)
            /\ UNCHANGED <<logFileVars, walVars>>
<1>1. CASE WriteCheckpoint
  <2>1. CASE Commit
    BY <1>1, <2>1 DEF WriteCheckpoint, Commit, Stage, WriteLine
  <2>2. CASE Stage \/ WriteLine \/ WriteFails \/ SyncFails
    BY <2>2 DEF Stage, WriteLine, WriteFails, SyncFails
  <2> QED BY <1>1, <2>1, <2>2 DEF WriteCheckpoint
<1>2. CASE AddTraceTip \/ Crash \/ PowerLoss \/ Start
  BY <1>2 DEF AddTraceTip, AddTip, Crash, CpCrash, PowerLoss, CpPowerLoss, CpStopped,
              Start, CpStart
<1>3. CASE \/ \E t \in Traces : BeginSeal(t)
           \/ WriteEntry \/ WriteEntryFails \/ SyncLog \/ SyncLogFails \/ SkipCheckpoint
           \/ MarkSealed \/ QuarantineTrace \/ CompactWal \/ Idle \/ UNCHANGED auditVars
  BY <1>3 DEF BeginSeal, WriteEntry, WriteEntryFails, SyncLog, SyncLogFails, SkipCheckpoint,
              MarkSealed, QuarantineTrace, CompactWal, Idle, auditVars, checkpointFileVars, cpVars
<1> QED BY <1>1, <1>2, <1>3 DEF Next

LEMMA QuarantineKept ==
  ASSUME [Next]_auditVars
  PROVE  quarantined \subseteq quarantined'
BY DEF Next, BeginSeal, WriteEntry, WriteEntryFails, SyncLog, SyncLogFails, AddTraceTip,
       SkipCheckpoint, WriteCheckpoint, MarkSealed, QuarantineTrace, CompactWal, Crash, PowerLoss,
       LoseMemory, Start, Idle, walVars, auditVars

(* What the checkpoint file says is about traces that stay in the log.     *)
LEMMA VouchedRecorded ==
  ASSUME AuditInv, TipsInv, RecordedHeld, NEW i \in DOMAIN Parsed(cp)
  PROVE  VouchedFor(Parsed(cp)[i]) \subseteq {t \in Traces : Recorded(t)}
<1> SUFFICES ASSUME NEW j \in DOMAIN Parsed(cp)[i].tips
             PROVE  /\ Parsed(cp)[i].tips[j].trace \in Traces
                    /\ Recorded(Parsed(cp)[i].tips[j].trace)
  BY DEF VouchedFor
<1>1. Parsed(cp)[i].tips[j] \in HeldTips
  BY CpTipsRead DEF AuditInv, TipsInv
<1>2. /\ Parsed(cp)[i].tips[j].trace \in Traces
      /\ Held(Parsed(cp)[i].tips[j].trace, LogFiles)
  BY <1>1, AuditFilesAssumption DEF HeldTips
<1> QED BY <1>2 DEF RecordedHeld

(* Every step settles traces, or vouches for settled ones.                 *)
LEMMA TrailStep ==
  ASSUME AuditInv, AuditInv', HeldStays, TipsInv, RecordedHeld, RecordedHeld', [Next]_auditVars
  PROVE  [Trail!TrailNext]_(Trail!trailVars)
<1>1. CASE committed' = committed
  <2>1. \A t \in Traces : Recorded(t) => Recorded(t)'
    BY QuarantineKept DEF RecordedHeld, HeldStays
  <2>2. \A t \in walOpen : t \in walOpen' \/ (t \in Traces /\ Recorded(t)')
    BY DEF RecordedHeld, AuditInv, SealTyped, KeptInv
  <2> QED BY <1>1, <2>1, <2>2 DEF Trail!TrailNext, Trail!Settle
<1>2. CASE /\ at = "checkpoint" /\ at' = "mark" /\ committed' = Parsed(cp)
           /\ UNCHANGED <<logFileVars, walVars>>
  <2>1. LogFiles' = LogFiles /\ UNCHANGED <<walOpen, quarantined>>
    BY <1>2 DEF LogFiles, Sealing, logFileVars, walVars
  <2>2. \A t \in Traces : Recorded(t)' <=> Recorded(t)
    BY <2>1 DEF RecordedHeld
  <2>3. {t \in Traces : Recorded(t)}' = {t \in Traces : Recorded(t)}
    BY <2>2
  <2>4. ASSUME NEW i \in DOMAIN committed
        PROVE  i \in DOMAIN committed' /\ committed'[i] = committed[i]
    <3>1. CommittedOnDisk
      BY ChainUnbrokenFromInv DEF AuditInv
    <3>2. Parsed(cp) \in Seq(Checkpoint) /\ committed \in Seq(Checkpoint)
      BY CheckpointAssumption, ParsedTidy DEF AuditInv, CpInv, CpTyped, CpFiles, Chained
    <3>3. /\ DOMAIN Parsed(cp) = 1 .. Len(Parsed(cp)) /\ Len(Parsed(cp)) \in Nat
          /\ DOMAIN committed = 1 .. Len(committed) /\ Len(committed) \in Nat
      BY <3>2
    <3> QED BY <1>2, <3>1, <3>3 DEF CommittedOnDisk
  <2>5. \A i \in DOMAIN committed' :
          VouchedFor(committed'[i]) \subseteq {t \in Traces : Recorded(t)}
    BY <1>2, VouchedRecorded
  <2>6. Trail!Attest
    BY <2>1, <2>3, <2>4, <2>5 DEF Trail!Attest, VouchedFor
  <2> QED BY <2>6 DEF Trail!TrailNext
<1> QED BY <1>1, <1>2, CommittedGrow

(* The two files, line by line, keep what AuditTrail promises of an        *)
(* exporter, for any traces, sizes, faults and stops: the WAL lets a trace *)
(* go only once all its entries are where no rollback, repair or power     *)
(* loss reaches, they stay there, and committed checkpoints vouch for such *)
(* traces only (sealTrace, issues #20, #24 and #28).                       *)
THEOREM FilesKeepTrail == Spec => ImplementsAuditTrail
<1>1. Init => Trail!TrailInit
  <2>1. SUFFICES ASSUME Init
                 PROVE  Trail!TrailInit
    OBVIOUS
  <2>2. StayingLines = {} /\ quarantined = {} /\ DOMAIN committed = {}
    BY <2>1 DEF Init, CpInit, EmptyFile, StayingLines
  <2>3. \A t \in Traces : 0 \in 0 .. Size[t] - 1
    BY AuditFilesAssumption
  <2>4. \A t \in Traces : ~Recorded(t)
    BY <2>2, <2>3 DEF Recorded
  <2> QED BY <2>2, <2>4 DEF Trail!TrailInit
<1>2. AuditInv => RecordedHeld
  BY RecordedIsHeld
<1>3. /\ AuditInv /\ TipsInv /\ RecordedHeld /\ [Next]_auditVars
      /\ AuditInv' /\ RecordedHeld'
      => [Trail!TrailNext]_(Trail!trailVars)
  BY NextInv, TrailStep
<1> QED BY <1>1, <1>2, <1>3, OrderInvariant, PTL DEF Spec, ImplementsAuditTrail, Trail!TrailSpec
=============================================================================
