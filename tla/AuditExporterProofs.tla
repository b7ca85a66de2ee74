------------------------ MODULE AuditExporterProofs -------------------------
(***************************************************************************)
(* Theorems about AuditExporter that hold for every set of traces and      *)
(* spans, every interval and cap, and any number of compaction goroutines. *)
(* First types and the locks, then what is durable: the fsynced part of    *)
(* the log never changes, checkpoints vouch only for chains in it, and a   *)
(* span the WAL took is never lost.                                        *)
(***************************************************************************)
EXTENDS AuditExporter, FiniteSetTheorems, TLAPS

-----------------------------------------------------------------------------
(* Lemmas about the operators of the specification.                        *)

(* Compacting the WAL keeps a sequence of tips, each of them owed before.  *)
LEMMA CompactedTips ==
  ASSUME walOwed \in Seq(Tip), NEW pend, Wal!StoreCompact(pend)
  PROVE  /\ walOwed' \in Seq(Tip)
         /\ \A j \in DOMAIN walOwed' : \E i \in DOMAIN walOwed : walOwed'[j] = walOwed[i]
         /\ walOpen' = walOpen
<1>1. PICK n \in 0 .. Len(walOwed) :
        \E at \in [1 .. n -> {i \in DOMAIN walOwed : walOwed[i] \in pend}] :
          walOwed' = [j \in 1 .. n |-> walOwed[at[j]]]
  BY DEF Wal!StoreCompact, Wal!Ascending
<1>2. PICK at \in [1 .. n -> {i \in DOMAIN walOwed : walOwed[i] \in pend}] :
        walOwed' = [j \in 1 .. n |-> walOwed[at[j]]]
  BY <1>1
<1>3. n \in Nat /\ \A j \in 1 .. n : at[j] \in DOMAIN walOwed
  OBVIOUS
<1>4. walOwed' \in [1 .. n -> Tip]
  BY <1>2, <1>3
<1>5. walOwed' \in Seq(Tip) /\ DOMAIN walOwed' = 1 .. n
  BY <1>3, <1>4
<1>6. QED
  BY <1>2, <1>3, <1>5 DEF Wal!StoreCompact

LEMMA TailOfSeq ==
  ASSUME NEW S, NEW l \in Seq(S), NEW m \in 1 .. Len(l) + 1
  PROVE  /\ SubSeq(l, m, Len(l)) \in Seq(S) /\ Len(SubSeq(l, m, Len(l))) = Len(l) - m + 1
         /\ \A j \in 1 .. Len(l) - m + 1 : SubSeq(l, m, Len(l))[j] = l[m + j - 1]
OBVIOUS

(* Trimming keeps a sequence of tips, each of them pending before, and     *)
(* tips that are dropped were pending too.                                 *)
LEMMA TrimmedTips ==
  ASSUME NEW tips \in Seq(Tip)
  PROVE  /\ Trimmed(tips) \in Seq(Tip)
         /\ \A j \in DOMAIN Trimmed(tips) :
              \E i \in DOMAIN tips : Trimmed(tips)[j] = tips[i]
         /\ Len(tips) - Len(Trimmed(tips)) \in 0 .. Len(tips)
<1> USE ExporterAssumption
<1>1. CASE Len(tips) <= MaxPendingTips
  BY <1>1 DEF Trimmed
<1>2. CASE Len(tips) > MaxPendingTips
  <2> DEFINE m == Len(tips) - MaxPendingTips + 1
             cut == SubSeq(tips, m, Len(tips))
  <2>1. m \in 1 .. Len(tips) + 1 /\ Trimmed(tips) = cut
    BY <1>2 DEF Trimmed
  <2>2. /\ cut \in Seq(Tip) /\ Len(cut) = Len(tips) - m + 1
        /\ \A j \in 1 .. Len(tips) - m + 1 : cut[j] = tips[m + j - 1]
    BY <2>1, TailOfSeq
  <2> HIDE DEF cut
  <2>3. DOMAIN cut = 1 .. Len(cut) /\ Len(tips) - Len(cut) \in 0 .. Len(tips)
    BY <1>2, <2>2
  <2>4. ASSUME NEW j \in DOMAIN cut
        PROVE  \E i \in DOMAIN tips : cut[j] = tips[i]
    <3>1. j \in 1 .. Len(tips) - m + 1 /\ m \in 1 .. Len(tips)
      BY <1>2, <2>2, <2>3
    <3>2. cut[j] = tips[m + j - 1]
      BY <2>2, <3>1
    <3> HIDE DEF m
    <3>3. m + j - 1 \in 1 .. Len(tips)
      BY <3>1
    <3>4. QED
      BY <3>2, <3>3
  <2>5. QED
    BY <2>1, <2>2, <2>3, <2>4
<1>3. QED
  BY <1>1, <1>2

LEMMA HeadOfSeq ==
  ASSUME NEW S, NEW l \in Seq(S), NEW k \in 0 .. Len(l)
  PROVE  /\ SubSeq(l, 1, k) \in Seq(S) /\ Len(SubSeq(l, 1, k)) = k
         /\ \A i \in 1 .. k : SubSeq(l, 1, k)[i] = l[i]
OBVIOUS

(* The log a stop may leave behind: a sequence of chains that agrees with  *)
(* the old one on the chains that were safe.                               *)
LEMMA CutLogs ==
  ASSUME NEW l \in Seq(Tip), NEW n \in 0 .. Len(l), NEW c \in Cuts(l, n)
  PROVE  /\ c \in Seq(Tip)
         /\ Len(c) >= n
         /\ \A i \in 1 .. n : c[i] = l[i]
<1>1. PICK k \in n .. Len(l) :
        \/ c = SubSeq(l, 1, k)
        \/ /\ k # Len(l)
           /\ \E p \in Prefixes(l[k + 1].hash) :
                c = WithChain(SubSeq(l, 1, k), l[k + 1].trace, p)
  BY DEF Cuts
<1>2. /\ SubSeq(l, 1, k) \in Seq(Tip) /\ Len(SubSeq(l, 1, k)) = k
      /\ \A i \in 1 .. k : SubSeq(l, 1, k)[i] = l[i]
  OBVIOUS
<1>3. CASE c = SubSeq(l, 1, k)
  BY <1>2, <1>3
<1>4. ASSUME k # Len(l), NEW p \in Prefixes(l[k + 1].hash),
             c = WithChain(SubSeq(l, 1, k), l[k + 1].trace, p)
      PROVE  /\ c \in Seq(Tip)
             /\ Len(c) >= n
             /\ \A i \in 1 .. n : c[i] = l[i]
  <2>1. l[k + 1] \in Tip
    BY <1>4
  <2>2. Chain(l[k + 1].trace, p) \in Tip
    BY <2>1 DEF Tip, Chain, Prefixes
  <2>3. c = SubSeq(l, 1, k) \/ c = Append(SubSeq(l, 1, k), Chain(l[k + 1].trace, p))
    BY <1>4 DEF WithChain
  <2>4. QED
    BY <1>2, <2>2, <2>3
<1>5. QED
  BY <1>1, <1>3, <1>4

-----------------------------------------------------------------------------
(* Type correctness.                                                       *)

(* TypeOK in three parts: the flags and the other types, one per prover,   *)
(* and how guard, buffers and lock keep step.                              *)
FlagsOK ==
  backoff \in BOOLEAN /\ checkpointPoisoned \in BOOLEAN /\ logPoisoned \in BOOLEAN

DataOK ==
  /\ phase \in {"running", "closing", "stopped", "down"}
  /\ buffers \in [Traces -> SUBSET Spans]
  /\ sealedTraces \subseteq Traces
  /\ pending \in Seq(Tip)
  /\ holder \in {"none", "consume", "worker", "shutdown"}
  /\ todo \subseteq Traces
  /\ step \in Steps
  /\ cur \in Tip \cup {NoTip}
  /\ goroutines \in [Compactors -> Goroutine]
  /\ walOpen \in [Traces -> SUBSET Spans]
  /\ walOwed \in Seq(Tip)
  /\ walUnsynced \subseteq Traces \X Spans
  /\ walMissed \subseteq Traces \X Spans
  /\ log \in Seq(Tip)
  /\ logSynced \in 0 .. Len(log)
  /\ quarantine \subseteq Traces \X Spans
  /\ checkpoints \in Seq(Seq(Tip))
  /\ promised \subseteq Traces \X Spans
  /\ abandoned \subseteq Tip
  /\ faults \in 0 .. MaxFaults
  /\ stops \in 0 .. MaxStops

GuardOK ==
  /\ \A t \in sealedTraces : buffers[t] = {}
  /\ \A t \in todo : buffers[t] # {}
  /\ cur # NoTip => cur.trace \in sealedTraces

(* What the place inside sealTrace says of the lock, the chain at hand and *)
(* the log: the part of the invariant that types need.                     *)
LockOK ==
  /\ step \in {"write", "sync", "tip", "checkpoint", "mark", "quarantine"} => cur \in Tip
  /\ step = "idle" <=> holder = "none"
  /\ phase \in {"stopped", "down"} => step = "idle"
  /\ step = "sync" => logSynced < Len(log) /\ log[Len(log)] = cur

TypeInv == DataOK /\ LockOK

LEMMA TypesAgree == TypeOK <=> FlagsOK /\ DataOK /\ GuardOK
BY DEF TypeOK, FlagsOK, DataOK, GuardOK, Wal!StoreTypeOK, Wal!Tip, Tip

LEMMA TypeInit == Init => TypeInv
BY ExporterAssumption
   DEF Init, TypeInv, DataOK, LockOK, Steps, Goroutine, NoGoroutine, Wal!StoreInit, Tip

LEMMA TypeConsume ==
  ASSUME TypeInv, NEW t \in Traces, NEW s \in Spans, ConsumeSpan(t, s)
  PROVE  TypeInv'
<1> USE ExporterAssumption DEF TypeInv, DataOK, LockOK
<1>1. buffers' \in [Traces -> SUBSET Spans]
  BY DEF ConsumeSpan
<1>2. /\ holder' \in {"none", "consume"} /\ todo' \subseteq Traces
      /\ step' \in {"idle", "next"} /\ cur' \in Tip \cup {NoTip}
      /\ step' = "idle" <=> holder' = "none"
  BY DEF ConsumeSpan, LockFree, Acquire, lockVars
<1>3. /\ walOpen' \in [Traces -> SUBSET Spans] /\ walOwed' \in Seq(Tip)
      /\ walUnsynced' \subseteq Traces \X Spans
      /\ walMissed' \subseteq Traces \X Spans
      /\ promised' \subseteq Traces \X Spans
      /\ faults' \in 0 .. MaxFaults
  <2>1. CASE Wal!StoreAppend(t, s)
    <3>1. walOpen' \in [Traces -> SUBSET Spans] /\ walOwed' = walOwed
      BY <2>1 DEF Wal!StoreAppend
    <3>2. /\ walUnsynced' \in {walUnsynced, walUnsynced \cup {<<t, s>>}}
          /\ promised' \in {promised, promised \cup {<<t, s>>}}
          /\ walMissed' \in {walMissed, walMissed \cup {<<t, s>>}}
          /\ faults' = faults \/ (faults < MaxFaults /\ faults' = faults + 1)
      BY DEF ConsumeSpan, Fail, walVars
    <3>3. QED
      BY <3>1, <3>2
  <2>2. CASE /\ Fail("walAppend")
             /\ walMissed' \in {walMissed, walMissed \cup {<<t, s>>}}
             /\ UNCHANGED <<walOpen, walOwed, walUnsynced, promised>>
    BY <2>2 DEF Fail
  <2>3. QED
    BY <2>1, <2>2 DEF ConsumeSpan
<1>4. QED
  BY <1>1, <1>2, <1>3 DEF ConsumeSpan, LockFree, logVars, Steps

LEMMA TypeSweep ==
  ASSUME TypeInv, WorkerSweep
  PROVE  TypeInv'
<1> USE DEF TypeInv, DataOK, LockOK
<1>1. PICK idle \in (SUBSET Sweepable) \ {{}} : Acquire("worker", idle)
  BY DEF WorkerSweep
<1>2. idle \subseteq Traces
  BY DEF Sweepable, OpenTraces
<1>3. QED
  BY <1>1, <1>2 DEF WorkerSweep, Acquire, LockFree, Steps, memVars, walVars, logVars,
                    countVars

LEMMA TypeBeginSeal ==
  ASSUME TypeInv, NEW t \in Traces, BeginSeal(t)
  PROVE  TypeInv'
<1> USE DEF TypeInv, DataOK, LockOK
<1>1. buffers' \in [Traces -> SUBSET Spans] /\ cur' \in Tip
  BY DEF BeginSeal, BufferDropped, Chain, Tip
<1>2. step' \in {"write", "quarantine"}
  BY DEF BeginSeal, FirstStep
<1>3. holder # "none" /\ phase \notin {"stopped", "down"}
  BY DEF BeginSeal
<1>4. QED
  BY <1>1, <1>2, <1>3 DEF BeginSeal, Steps, walVars, logVars, countVars

LEMMA TypeWriteLog ==
  ASSUME TypeInv, WriteLog
  PROVE  TypeInv'
<1> USE DEF TypeInv, DataOK, LockOK
<1>1. /\ log' \in Seq(Tip) /\ Len(log') = Len(log) + 1 /\ log'[Len(log')] = cur
      /\ step' \in {"sync", "tip"}
  BY DEF WriteLog, AfterWrite
<1>2. holder # "none" /\ phase \notin {"stopped", "down"} /\ cur \in Tip
  BY DEF WriteLog
<1>3. QED
  BY <1>1, <1>2 DEF WriteLog, Steps, memVars, walVars, countVars

(* sealTrace's return leaves the lock and the place in a known relation.   *)
LEMMA TypeSealReturns ==
  ASSUME TypeInv, step # "idle", SealReturns
  PROVE  /\ holder' \in {"none", "consume", "worker", "shutdown"}
         /\ todo' \subseteq Traces /\ cur' = NoTip
         /\ step' \in {"next", "final", "idle"}
         /\ step' = "idle" <=> holder' = "none"
         /\ phase \notin {"stopped", "down"}
BY DEF TypeInv, DataOK, LockOK, SealReturns

LEMMA TypeWriteLogFails ==
  ASSUME TypeInv, WriteLogFails
  PROVE  TypeInv'
<1> USE DEF TypeInv, DataOK, LockOK
<1>1. cur \in Tip /\ step # "idle"
  BY DEF WriteLogFails
<1>2. PICK left \in Prefixes(cur.hash) :
        /\ log' = WithChain(log, cur.trace, left)
        /\ abandoned' = abandoned \cup
                          ({Chain(cur.trace, left)} \ {Chain(cur.trace, {})})
  BY DEF WriteLogFails
<1>3. Chain(cur.trace, left) \in Tip
  BY <1>1, <1>2 DEF Tip, Chain, Prefixes
<1>4. log' \in Seq(Tip) /\ Len(log') >= Len(log) /\ abandoned' \subseteq Tip
  BY <1>2, <1>3 DEF WithChain
<1>5. faults' \in 0 .. MaxFaults
  BY ExporterAssumption DEF WriteLogFails, Fail
<1>6. QED
  BY <1>1, <1>4, <1>5, TypeSealReturns DEF WriteLogFails, Steps, walVars

LEMMA TypeSyncLog ==
  ASSUME TypeInv, SyncLog
  PROVE  TypeInv'
<1> USE DEF TypeInv, DataOK, LockOK
<1>1. logSynced' \in 0 .. Len(log') /\ log' = log /\ step' = "tip" /\ cur \in Tip
  BY DEF SyncLog
<1>2. QED
  BY <1>1 DEF SyncLog, Steps, memVars, walVars, countVars

LEMMA TypeSyncLogFails ==
  ASSUME TypeInv, SyncLogFails
  PROVE  TypeInv'
<1> USE DEF TypeInv, DataOK, LockOK
<1>1. step = "sync" /\ cur \in Tip /\ logSynced < Len(log)
  BY DEF SyncLogFails
<1>2. log' \in Seq(Tip) /\ logSynced <= Len(log')
  <2>1. CASE log' = log
    BY <1>1, <2>1
  <2>2. CASE log' = SubSeq(log, 1, Len(log) - 1)
    <3>1. Len(log) - 1 \in 0 .. Len(log) /\ logSynced <= Len(log) - 1
      BY <1>1
    <3>2. log' \in Seq(Tip) /\ Len(log') = Len(log) - 1
      BY <2>2, <3>1, HeadOfSeq
    <3>3. QED
      BY <3>1, <3>2
  <2>3. QED
    BY <2>1, <2>2 DEF SyncLogFails
<1>3. abandoned' \subseteq Tip
  BY <1>1 DEF SyncLogFails
<1>4. faults' \in 0 .. MaxFaults
  BY ExporterAssumption DEF SyncLogFails, Fail
<1>5. QED
  <2>1. SealReturns /\ step # "idle"
    BY <1>1 DEF SyncLogFails
  <2>2. UNCHANGED <<phase, buffers, sealedTraces, pending, goroutines, walVars, logSynced,
                    quarantine, checkpoints, promised, stops>>
    BY DEF SyncLogFails
  <2>3. DataOK'
    BY <1>2, <1>3, <1>4, <2>1, <2>2, TypeSealReturns DEF Steps, walVars
  <2>4. LockOK'
    BY <2>1, <2>2, TypeSealReturns
  <2>5. QED
    BY <2>3, <2>4

LEMMA TypeAddTip ==
  ASSUME TypeInv, AddTip
  PROVE  TypeInv'
<1> USE DEF TypeInv, DataOK, LockOK
<1>1. cur \in Tip /\ step' = "checkpoint"
  BY DEF AddTip
<1>2. pending' \in Seq(Tip) /\ abandoned' \subseteq Tip
  <2> DEFINE all == Append(pending, cur)
  <2>1. all \in Seq(Tip)
    BY <1>1
  <2>2. CASE checkpointPoisoned
    BY <1>1, <2>2 DEF AddTip
  <2>3. CASE ~checkpointPoisoned
    <3>1. /\ pending' = Trimmed(all)
          /\ abandoned' = abandoned \cup {all[i] : i \in 1 .. Len(all) - Len(Trimmed(all))}
      BY <2>3 DEF AddTip
    <3> HIDE DEF all
    <3>2. \A i \in 1 .. Len(all) - Len(Trimmed(all)) : all[i] \in Tip
      BY <2>1, TrimmedTips
    <3>3. QED
      BY <2>1, <3>1, <3>2, TrimmedTips
  <2>4. QED
    BY <2>2, <2>3
<1>3. QED
  BY <1>1, <1>2 DEF AddTip, Steps, logVars, walVars, countVars

(* After a checkpoint attempt sealTrace goes on or Shutdown is done.       *)
LEMMA TypeAfterCheckpoint ==
  ASSUME TypeInv, step \in {"checkpoint", "commit", "final"}, AfterCheckpoint
  PROVE  /\ holder' \in {"none", "consume", "worker", "shutdown"}
         /\ todo' = todo /\ cur' = cur
         /\ step' \in {"mark", "idle"}
         /\ step' = "mark" => cur \in Tip
         /\ step' = "idle" <=> holder' = "none"
         /\ phase \notin {"stopped", "down"}
BY DEF TypeInv, DataOK, LockOK, AfterCheckpoint, LockReleased

LEMMA TypeCheckpointing ==
  ASSUME TypeInv, Checkpointing
  PROVE  TypeInv'
<1> USE DEF TypeInv, DataOK, LockOK
<1>1. CASE SkipCheckpoint
  BY <1>1, TypeAfterCheckpoint
     DEF SkipCheckpoint, Steps, memVars, walVars, logVars, countVars
<1>2. CASE WriteCheckpoint
  <2>1. checkpoints' \in Seq(Seq(Tip)) /\ step' = "commit" /\ step # "idle"
    BY <1>2 DEF WriteCheckpoint, CheckpointDue
  <2>2. QED
    BY <1>2, <2>1 DEF WriteCheckpoint, Steps, memVars, walVars, logVars, countVars
<1>3. CASE CommitCheckpoint
  <2>1. pending' \in Seq(Tip)
    BY <1>3 DEF CommitCheckpoint, LeftPending
  <2>2. QED
    BY <1>3, <2>1, TypeAfterCheckpoint
       DEF CommitCheckpoint, Steps, walVars, logVars, countVars
<1>4. CASE CheckpointFails
  <2>1. faults' \in 0 .. MaxFaults
    BY <1>4, ExporterAssumption DEF CheckpointFails, Fail
  <2>2. QED
    BY <1>4, <2>1, TypeAfterCheckpoint
       DEF CheckpointFails, CheckpointDue, Steps, walVars, logVars
<1>5. CASE CheckpointPoisons
  <2>1. faults' \in 0 .. MaxFaults
    BY <1>5, ExporterAssumption DEF CheckpointPoisons, Fail
  <2>2. pending' \in Seq(Tip) /\ checkpoints' \in Seq(Seq(Tip))
    <3>1. Append(checkpoints, pending) \in Seq(Seq(Tip))
      OBVIOUS
    <3>2. pending' = <<>>
      BY <1>5 DEF CheckpointPoisons
    <3>3. pending' \in Seq(Tip)
      BY <3>2
    <3>4. checkpoints' = checkpoints \/ checkpoints' = Append(checkpoints, pending)
      BY <1>5 DEF CheckpointPoisons
    <3>5. checkpoints' \in Seq(Seq(Tip))
      BY <3>1, <3>4
    <3>6. QED
      BY <3>3, <3>5
  <2>3. abandoned' \subseteq Tip
    BY <1>5 DEF CheckpointPoisons, ToSet
  <2>4. QED
    BY <1>5, <2>1, <2>2, <2>3, TypeAfterCheckpoint
       DEF CheckpointPoisons, CheckpointDue, Steps, walVars, logVars
<1>6. QED
  BY <1>1, <1>2, <1>3, <1>4, <1>5 DEF Checkpointing

LEMMA TypeMarkWal ==
  ASSUME TypeInv, NEW t \in Traces, NEW tips \in Seq(Tip), MarkWal(t, tips)
  PROVE  /\ walOpen' \in [Traces -> SUBSET Spans]
         /\ walOwed' \in Seq(Tip)
         /\ walUnsynced' = {} /\ walMissed' = walMissed
BY DEF TypeInv, DataOK, MarkWal, Wal!StoreSeal

LEMMA TypeSpawn ==
  ASSUME TypeInv, Spawn
  PROVE  goroutines' \in [Compactors -> Goroutine]
<1>1. [at |-> "snapshot", tips |-> {}] \in Goroutine
  BY DEF Goroutine
<1>2. QED
  BY <1>1 DEF TypeInv, DataOK, Spawn

LEMMA TypeMarkSealed ==
  ASSUME TypeInv, MarkSealed
  PROVE  TypeInv'
<1> USE DEF TypeInv, DataOK, LockOK
<1>1. cur \in Tip /\ cur.trace \in Traces /\ step # "idle"
  BY DEF MarkSealed, Tip
<1>2. SealedMarkerTip \in Seq(Tip)
  BY <1>1 DEF SealedMarkerTip
<1>3. /\ walOpen' \in [Traces -> SUBSET Spans] /\ walOwed' \in Seq(Tip)
      /\ walUnsynced' \subseteq Traces \X Spans
      /\ walMissed' \subseteq Traces \X Spans
      /\ faults' \in 0 .. MaxFaults
  <2>1. CASE MarkWal(cur.trace, SealedMarkerTip) /\ faults' = faults
    BY <1>1, <1>2, <2>1, TypeMarkWal
  <2>2. CASE Fail("walMark") /\ UNCHANGED walVars
    BY <2>2, ExporterAssumption DEF Fail, walVars
  <2>3. QED
    BY <2>1, <2>2 DEF MarkSealed
<1>4. SealReturns /\ Spawn
  BY DEF MarkSealed
<1>5. QED
  BY <1>1, <1>3, <1>4, TypeSpawn, TypeSealReturns DEF MarkSealed, Steps, memVars, logVars

LEMMA TypeQuarantine ==
  ASSUME TypeInv, QuarantineTrace
  PROVE  TypeInv'
<1> USE DEF TypeInv, DataOK, LockOK
<1>1. cur \in Tip /\ cur.trace \in Traces /\ cur.hash \subseteq Spans /\ step # "idle"
  BY DEF QuarantineTrace, Tip
<1>2. /\ SpansOf(cur) \subseteq Traces \X Spans
      /\ \A kept \in SUBSET cur.hash :
           SpansOf(Chain(cur.trace, kept)) \subseteq Traces \X Spans
  BY <1>1 DEF SpansOf, Chain
<1>3. quarantine' \subseteq Traces \X Spans
  BY <1>2 DEF QuarantineTrace
<1>4. /\ walOpen' \in [Traces -> SUBSET Spans] /\ walOwed' \in Seq(Tip)
      /\ walUnsynced' \subseteq Traces \X Spans
      /\ walMissed' \subseteq Traces \X Spans
      /\ faults' \in 0 .. MaxFaults
  <2>1. CASE MarkWal(cur.trace, <<>>) /\ faults' = faults
    <3>1. <<>> \in Seq(Tip)
      OBVIOUS
    <3>2. QED
      BY <1>1, <2>1, <3>1, TypeMarkWal
  <2>2. CASE (Fail("walMark") \/ Fail("quarantine")) /\ UNCHANGED walVars
    BY <2>2, ExporterAssumption DEF Fail, walVars
  <2>3. QED
    BY <2>1, <2>2 DEF QuarantineTrace
<1>5. SealReturns /\ Spawn
  BY DEF QuarantineTrace
<1>6. QED
  BY <1>1, <1>3, <1>4, <1>5, TypeSpawn, TypeSealReturns DEF QuarantineTrace, Steps, memVars

LEMMA TypeCompactStore ==
  ASSUME TypeInv, NEW tips, CompactStore(tips)
  PROVE  /\ walOpen' = walOpen
         /\ walOwed' \in Seq(Tip)
         /\ walUnsynced' = {} /\ walMissed' = walMissed
BY CompactedTips DEF TypeInv, DataOK, CompactStore

LEMMA TypeCompaction ==
  ASSUME TypeInv, NEW c \in Compactors, Compaction(c)
  PROVE  TypeInv'
<1> USE DEF TypeInv, DataOK, LockOK
<1>1. CASE TakeSnapshot(c)
  <2>1. [at |-> "compact", tips |-> ToSet(pending)] \in Goroutine
    BY DEF Goroutine, ToSet
  <2>2. goroutines' \in [Compactors -> Goroutine]
    BY <1>1, <2>1 DEF TakeSnapshot
  <2>3. QED
    BY <1>1, <2>2 DEF TakeSnapshot, memVars, lockVars, walVars, logVars, countVars
<1>2. CASE CompactWal(c)
  <2>1. [at |-> "clear", tips |-> {}] \in Goroutine /\ NoGoroutine \in Goroutine
    BY DEF Goroutine, NoGoroutine
  <2>2. goroutines' \in [Compactors -> Goroutine]
    BY <1>2, <2>1 DEF CompactWal
  <2>3. /\ walOpen' \in [Traces -> SUBSET Spans] /\ walOwed' \in Seq(Tip)
        /\ walUnsynced' \subseteq Traces \X Spans
        /\ walMissed' \subseteq Traces \X Spans
        /\ faults' \in 0 .. MaxFaults
    <3>1. CompactStore(goroutines[c].tips) \/ UNCHANGED walVars
      BY <1>2 DEF CompactWal
    <3>2. faults' \in 0 .. MaxFaults
      BY <1>2, ExporterAssumption DEF CompactWal, Fail
    <3>3. QED
      BY <3>1, <3>2, TypeCompactStore DEF walVars
  <2>4. QED
    BY <1>2, <2>2, <2>3 DEF CompactWal, memVars, lockVars, logVars
<1>3. CASE ClearGuard(c)
  <2>1. NoGoroutine \in Goroutine
    BY DEF Goroutine, NoGoroutine
  <2>2. goroutines' \in [Compactors -> Goroutine]
    BY <1>3, <2>1 DEF ClearGuard
  <2>3. QED
    BY <1>3, <2>2 DEF ClearGuard, lockVars, walVars, logVars, countVars
<1>4. QED
  BY <1>1, <1>2, <1>3 DEF Compaction

LEMMA TypeShutdown ==
  ASSUME TypeInv, ShutdownBegins \/ ShutdownEnds
  PROVE  TypeInv'
<1> USE DEF TypeInv, DataOK, LockOK
<1>1. CASE ShutdownBegins
  <2>1. stops' \in 0 .. MaxStops
    BY <1>1, ExporterAssumption DEF ShutdownBegins
  <2>2. todo' \subseteq Traces
    BY <1>1 DEF ShutdownBegins, ForceSealed, OpenTraces
  <2>3. QED
    BY <1>1, <2>1, <2>2 DEF ShutdownBegins, LockFree, Steps, walVars, logVars
<1>2. CASE ShutdownEnds
  <2>1. /\ walOpen' \in [Traces -> SUBSET Spans] /\ walOwed' \in Seq(Tip)
        /\ walUnsynced' \subseteq Traces \X Spans
        /\ walMissed' \subseteq Traces \X Spans
        /\ sealedTraces' \subseteq Traces
        /\ faults' \in 0 .. MaxFaults
    <3>1. CASE CompactStore(ToSet(pending)) /\ sealedTraces' = {} /\ faults' = faults
      BY <3>1, TypeCompactStore
    <3>2. CASE Fail("walCompact") /\ UNCHANGED <<walVars, sealedTraces>>
      BY <3>2, ExporterAssumption DEF Fail, walVars
    <3>3. QED
      BY <1>2, <3>1, <3>2 DEF ShutdownEnds
  <2>2. QED
    BY <1>2, <2>1 DEF ShutdownEnds, lockVars, logVars
<1>3. QED
  BY <1>1, <1>2

LEMMA TypeLoseMemory ==
  ASSUME LoseMemory
  PROVE  /\ phase' = "down"
         /\ buffers' \in [Traces -> SUBSET Spans]
         /\ sealedTraces' = {} /\ pending' = <<>> /\ pending' \in Seq(Tip)
         /\ holder' = "none" /\ todo' = {} /\ step' = "idle" /\ cur' = NoTip
         /\ goroutines' \in [Compactors -> Goroutine]
BY DEF LoseMemory, NoGoroutine, Goroutine

LEMMA InFlightLog ==
  ASSUME TypeInv
  PROVE  /\ LogInFlight \in Seq(Tip) /\ Len(LogInFlight) >= Len(log)
         /\ Len(log) \in Nat
         /\ \A i \in 1 .. Len(log) : LogInFlight[i] = log[i]
BY DEF TypeInv, DataOK, LockOK, LogInFlight

LEMMA TypeStops ==
  ASSUME TypeInv, Crash \/ PowerLoss \/ Exit
  PROVE  TypeInv'
<1> USE DEF TypeInv, DataOK, LockOK
<1>1. CASE Crash
  <2>1. log' \in Seq(Tip) /\ Len(log') >= Len(log)
    BY <1>1, InFlightLog, CutLogs DEF Crash
  <2>2. stops' \in 0 .. MaxStops
    BY <1>1, ExporterAssumption DEF Crash
  <2>3. logSynced' \in 0 .. Len(log')
    BY <1>1, <2>1 DEF Crash
  <2>4. /\ UNCHANGED <<walOpen, walOwed, walUnsynced, walMissed, quarantine, checkpoints>>
        /\ UNCHANGED <<promised, abandoned, faults>>
    BY <1>1 DEF Crash, walVars
  <2>5. LoseMemory
    BY <1>1 DEF Crash
  <2>6. QED
    BY <2>1, <2>2, <2>3, <2>4, <2>5, TypeLoseMemory DEF Steps
<1>2. CASE PowerLoss
  <2>1. log' \in Seq(Tip)
    <3>1. log' \in Cuts(LogInFlight, logSynced)
      BY <1>2 DEF PowerLoss
    <3>2. LogInFlight \in Seq(Tip) /\ logSynced \in 0 .. Len(LogInFlight)
      BY InFlightLog
    <3>3. QED
      BY <3>1, <3>2, CutLogs
  <2>2. stops' \in 0 .. MaxStops
    BY <1>2, ExporterAssumption DEF PowerLoss
  <2>3. logSynced' \in 0 .. Len(log')
    BY <1>2, <2>1 DEF PowerLoss
  <2>4. /\ walOpen' \in [Traces -> SUBSET Spans]
        /\ promised' \subseteq Traces \X Spans /\ walUnsynced' = {}
        /\ walMissed' \subseteq Traces \X Spans
    BY <1>2 DEF PowerLoss
  <2>5. UNCHANGED <<walOwed, quarantine, checkpoints, abandoned, faults>> /\ LoseMemory
    BY <1>2 DEF PowerLoss
  <2>6. QED
    BY <2>1, <2>2, <2>3, <2>4, <2>5, TypeLoseMemory DEF Steps
<1>3. CASE Exit
  BY <1>3, TypeLoseMemory DEF Exit, Steps, walVars, logVars, countVars
<1>4. QED
  BY <1>1, <1>2, <1>3

LEMMA TypeStart ==
  ASSUME TypeInv, Start
  PROVE  TypeInv'
<1> USE DEF TypeInv, DataOK, LockOK
<1>1. buffers' \in [Traces -> SUBSET Spans] /\ pending' \in Seq(Tip)
  BY DEF Start, Rehydrated, TipsRestored
<1>2. /\ walOpen' \in [Traces -> SUBSET Spans] /\ walOwed' \in Seq(Tip)
      /\ walUnsynced' \subseteq Traces \X Spans
      /\ walMissed' \subseteq Traces \X Spans
  <2>1. CASE CompactStore(ToSet(TipsRestored))
    BY <2>1, TypeCompactStore
  <2>2. CASE UNCHANGED walVars
    BY <2>2 DEF walVars
  <2>3. QED
    BY <2>1, <2>2 DEF Start
<1>3. QED
  BY <1>1, <1>2 DEF Start, lockVars, logVars, countVars

(* The flags only ever take Boolean values.                                *)
LEMMA FlagsStep ==
  ASSUME FlagsOK, [Next]_vars
  PROVE  FlagsOK'
<1> USE DEF FlagsOK
<1>1. ASSUME UNCHANGED <<backoff, checkpointPoisoned, logPoisoned>>
      PROVE  FlagsOK'
  BY <1>1
<1>2. CASE UNCHANGED vars \/ Idle
  BY <1>1, <1>2 DEF vars, memVars, Idle
<1>3. ASSUME NEW t \in Traces, NEW s \in Spans, ConsumeSpan(t, s)
      PROVE  FlagsOK'
  BY <1>1, <1>3 DEF ConsumeSpan
<1>4. CASE WorkerSweep
  BY <1>1, <1>4 DEF WorkerSweep, memVars
<1>5. CASE SealStep
  <2>1. ASSUME NEW t \in Traces, BeginSeal(t)
        PROVE  FlagsOK'
    BY <1>1, <2>1 DEF BeginSeal
  <2>2. CASE WriteLog \/ SyncLog \/ MarkSealed \/ QuarantineTrace
    BY <1>1, <2>2 DEF WriteLog, SyncLog, MarkSealed, QuarantineTrace, memVars
  <2>3. CASE WriteLogFails
    BY <2>3, Zenon DEF WriteLogFails, RepairOrPoisonLog, PoisonLog
  <2>4. CASE SyncLogFails
    BY <2>4, Zenon DEF SyncLogFails, RepairOrPoisonLog, PoisonLog
  <2>5. CASE AddTip
    BY <1>1, <2>5 DEF AddTip
  <2>6. CASE SkipCheckpoint \/ WriteCheckpoint
    BY <1>1, <2>6 DEF SkipCheckpoint, WriteCheckpoint, memVars
  <2>7. CASE CommitCheckpoint
    BY <2>7, Zenon DEF CommitCheckpoint
  <2>8. CASE CheckpointFails
    BY <2>8, Zenon DEF CheckpointFails
  <2>9. CASE CheckpointPoisons
    BY <2>9, Zenon DEF CheckpointPoisons
  <2>10. QED
    BY <1>5, <2>1, <2>2, <2>3, <2>4, <2>5, <2>6, <2>7, <2>8, <2>9
       DEF SealStep, Checkpointing
<1>6. ASSUME NEW c \in Compactors, Compaction(c)
      PROVE  FlagsOK'
  BY <1>1, <1>6 DEF Compaction, TakeSnapshot, CompactWal, ClearGuard, memVars
<1>7. CASE ShutdownBegins \/ ShutdownEnds
  BY <1>1, <1>7 DEF ShutdownBegins, ShutdownEnds
<1>8. CASE Crash \/ PowerLoss \/ Exit
  <2>1. LoseMemory
    BY <1>8 DEF Crash, PowerLoss, Exit
  <2>2. QED
    BY <2>1, Zenon DEF LoseMemory
<1>9. CASE Start
  BY <1>1, <1>9 DEF Start
<1>10. QED
  BY <1>2, <1>3, <1>4, <1>5, <1>6, <1>7, <1>8, <1>9 DEF Next

LEMMA TypeStep ==
  ASSUME TypeInv, [Next]_vars
  PROVE  TypeInv'
<1>1. CASE UNCHANGED vars \/ Idle
  BY <1>1 DEF vars, memVars, lockVars, walVars, logVars, countVars, Idle, TypeInv, DataOK,
              LockOK
<1>2. CASE SealStep
  BY <1>2, TypeBeginSeal, TypeWriteLog, TypeWriteLogFails, TypeSyncLog, TypeSyncLogFails,
     TypeAddTip, TypeCheckpointing, TypeMarkSealed, TypeQuarantine DEF SealStep
<1>3. QED
  BY <1>1, <1>2, TypeConsume, TypeSweep, TypeCompaction, TypeShutdown, TypeStops, TypeStart
     DEF Next

-----------------------------------------------------------------------------
(* The chain at hand.  There is one only inside sealTrace, the buffer of   *)
(* its trace is gone, and the traces still to be sealed have theirs.       *)
CurInv ==
  /\ step \in {"idle", "next", "final"} => cur = NoTip
  /\ step \in {"write", "sync", "tip", "checkpoint", "mark", "quarantine"} => cur # NoTip
  /\ cur # NoTip => buffers[cur.trace] = {}
  /\ cur = NoTip /\ step # "next" => todo = {}
  /\ \A t \in todo : buffers[t] # {}

LEMMA CurInit == Init => CurInv
BY DEF Init, CurInv

LEMMA CurFrame ==
  ASSUME CurInv, UNCHANGED <<step, cur, todo, buffers>>
  PROVE  CurInv'
BY DEF CurInv

LEMMA CurSealReturns ==
  ASSUME CurInv, SealReturns, buffers' = buffers
  PROVE  CurInv'
BY DEF CurInv, SealReturns

LEMMA CurOpens ==
  ASSUME TypeInv, CurInv, LockFree,
         (\E t \in Traces, s \in Spans : ConsumeSpan(t, s)) \/ WorkerSweep \/ ShutdownBegins
  PROVE  CurInv'
<1> USE DEF CurInv
<1>1. step = "idle" /\ cur = NoTip /\ todo = {}
  BY DEF LockFree, TypeInv, LockOK
<1>2. ASSUME NEW t \in Traces, NEW s \in Spans, ConsumeSpan(t, s)
      PROVE  CurInv'
  <2>1. buffers' = [buffers EXCEPT ![t] = @ \cup {s}]
    BY <1>2 DEF ConsumeSpan
  <2>2. CASE Root \in buffers'[t] /\ Acquire("consume", {t})
    BY <1>1, <2>2 DEF Acquire
  <2>3. CASE UNCHANGED lockVars
    BY <1>1, <2>3 DEF lockVars
  <2>4. QED
    BY <1>2, <2>2, <2>3 DEF ConsumeSpan
<1>3. CASE WorkerSweep
  BY <1>3 DEF WorkerSweep, Acquire, Sweepable, OpenTraces, memVars
<1>4. CASE ShutdownBegins
  BY <1>1, <1>4 DEF ShutdownBegins, ForceSealed, OpenTraces
<1>5. QED
  BY <1>2, <1>3, <1>4

LEMMA CurSealStep ==
  ASSUME TypeInv, CurInv, SealStep
  PROVE  CurInv'
<1>1. ASSUME NEW t \in Traces, BeginSeal(t)
      PROVE  CurInv'
  <2>1. /\ buffers' = [buffers EXCEPT ![t] = {}] /\ todo' = todo \ {t}
        /\ cur' = Chain(t, buffers[t]) /\ step' \in {"write", "quarantine"}
    BY <1>1 DEF BeginSeal, BufferDropped, FirstStep
  <2>2. cur' \in Tip /\ cur'.trace = t
    BY <2>1 DEF Chain, Tip, TypeInv, DataOK
  <2>3. QED
    BY <2>1, <2>2, NoTipAssumption DEF CurInv, TypeInv, DataOK
<1>2. CASE WriteLog \/ SyncLog
  BY <1>2 DEF CurInv, WriteLog, AfterWrite, SyncLog, memVars
<1>3. CASE AddTip
  BY <1>3 DEF CurInv, AddTip
<1>4. CASE WriteLogFails \/ SyncLogFails
  BY <1>4, CurSealReturns DEF WriteLogFails, SyncLogFails
<1>5. CASE MarkSealed \/ QuarantineTrace
  BY <1>5, CurSealReturns DEF MarkSealed, QuarantineTrace, memVars
<1>6. CASE WriteCheckpoint
  BY <1>6 DEF CurInv, WriteCheckpoint, CheckpointDue, memVars
<1>7. CASE SkipCheckpoint \/ CommitCheckpoint \/ CheckpointFails \/ CheckpointPoisons
  <2>1. buffers' = buffers /\ AfterCheckpoint /\ step \in {"checkpoint", "commit", "final"}
    BY <1>7 DEF SkipCheckpoint, CommitCheckpoint, CheckpointFails, CheckpointPoisons,
                CheckpointDue, memVars
  <2>2. QED
    BY <2>1 DEF CurInv, AfterCheckpoint, LockReleased
<1>8. QED
  BY <1>1, <1>2, <1>3, <1>4, <1>5, <1>6, <1>7 DEF SealStep, Checkpointing

LEMMA CurStep ==
  ASSUME TypeInv, CurInv, [Next]_vars
  PROVE  CurInv'
<1>1. CASE UNCHANGED vars \/ Idle
  BY <1>1, CurFrame DEF vars, memVars, lockVars, Idle
<1>2. CASE (\E t \in Traces, s \in Spans : ConsumeSpan(t, s)) \/ WorkerSweep \/ ShutdownBegins
  BY <1>2, CurOpens DEF ConsumeSpan, WorkerSweep, ShutdownBegins
<1>3. ASSUME NEW c \in Compactors, Compaction(c)
      PROVE  CurInv'
  BY <1>3, CurFrame DEF Compaction, TakeSnapshot, CompactWal, ClearGuard, memVars, lockVars
<1>4. CASE ShutdownEnds
  BY <1>4, CurFrame DEF ShutdownEnds, lockVars
<1>5. CASE Crash \/ PowerLoss \/ Exit
  BY <1>5, TypeLoseMemory DEF Crash, PowerLoss, Exit, CurInv
<1>6. CASE Start
  <2>1. step = "idle" /\ UNCHANGED lockVars
    BY <1>6 DEF Start, TypeInv, LockOK
  <2>2. QED
    BY <2>1 DEF CurInv, lockVars
<1>7. QED
  BY <1>1, <1>2, <1>3, <1>4, <1>5, <1>6, CurSealStep DEF Next

(* The guard, which only compactions lift, never beside a seal at hand.    *)
GuardInv ==
  /\ \A t \in sealedTraces : buffers[t] = {}
  /\ cur # NoTip => cur.trace \in sealedTraces
  /\ phase = "down" => sealedTraces = {}

LEMMA GuardSealStep ==
  ASSUME TypeInv, CurInv, GuardInv, SealStep
  PROVE  GuardInv'
<1> USE DEF GuardInv
<1>1. ASSUME NEW t \in Traces, BeginSeal(t)
      PROVE  GuardInv'
  <2>1. /\ buffers' = [buffers EXCEPT ![t] = {}] /\ sealedTraces' = sealedTraces \cup {t}
        /\ cur' = Chain(t, buffers[t]) /\ phase' = phase /\ step = "next"
    BY <1>1 DEF BeginSeal, BufferDropped
  <2>2. cur'.trace = t /\ phase # "down"
    BY <2>1 DEF Chain, TypeInv, LockOK
  <2>3. \A u \in sealedTraces' : buffers'[u] = {}
    BY <2>1 DEF TypeInv, DataOK
  <2>4. QED
    BY <2>1, <2>2, <2>3
<1>2. CASE UNCHANGED <<phase, buffers, sealedTraces>> /\ (cur' = cur \/ cur' = NoTip)
  BY <1>2
<1>3. CASE WriteLog \/ SyncLog \/ AddTip \/ Checkpointing
  BY <1>2, <1>3 DEF WriteLog, SyncLog, AddTip, Checkpointing, SkipCheckpoint, WriteCheckpoint,
       CommitCheckpoint, CheckpointFails, CheckpointPoisons, AfterCheckpoint, memVars
<1>4. CASE WriteLogFails \/ SyncLogFails \/ MarkSealed \/ QuarantineTrace
  BY <1>2, <1>4 DEF WriteLogFails, SyncLogFails, MarkSealed, QuarantineTrace, SealReturns, memVars
<1>5. QED
  BY <1>1, <1>3, <1>4 DEF SealStep

LEMMA GuardStep ==
  ASSUME TypeInv, CurInv, GuardInv, [Next]_vars
  PROVE  GuardInv'
<1> USE DEF GuardInv
<1>1. CASE UNCHANGED vars \/ Idle
  BY <1>1 DEF vars, memVars, lockVars, Idle
<1>2. CASE WorkerSweep \/ ShutdownBegins
  BY <1>2 DEF WorkerSweep, ShutdownBegins, Acquire, memVars
<1>3. ASSUME NEW t \in Traces, NEW s \in Spans, ConsumeSpan(t, s)
      PROVE  GuardInv'
  <2>1. /\ t \notin sealedTraces /\ buffers' = [buffers EXCEPT ![t] = @ \cup {s}]
        /\ UNCHANGED <<phase, sealedTraces>>
    BY <1>3 DEF ConsumeSpan
  <2>2. \A u \in sealedTraces : buffers'[u] = buffers[u]
    BY <2>1 DEF TypeInv, DataOK
  <2>3. cur' = cur \/ cur' = NoTip
    BY <1>3 DEF ConsumeSpan, Acquire, lockVars
  <2>4. QED
    BY <2>1, <2>2, <2>3
<1>4. ASSUME NEW c \in Compactors, Compaction(c)
      PROVE  GuardInv'
  <2>1. CASE TakeSnapshot(c) \/ CompactWal(c)
    BY <2>1 DEF TakeSnapshot, CompactWal, memVars, lockVars
  <2>2. CASE ClearGuard(c)
    BY <2>2 DEF ClearGuard, MayClear, lockVars, TypeInv, LockOK, CurInv
  <2>3. QED
    BY <1>4, <2>1, <2>2 DEF Compaction
<1>5. CASE ShutdownEnds
  BY <1>5 DEF ShutdownEnds, lockVars, TypeInv, LockOK, CurInv
<1>6. CASE Crash \/ PowerLoss \/ Exit
  BY <1>6, TypeLoseMemory DEF Crash, PowerLoss, Exit
<1>7. CASE Start
  BY <1>7 DEF Start, lockVars
<1>8. QED
  BY <1>1, <1>2, <1>3, <1>4, <1>5, <1>6, <1>7, GuardSealStep DEF Next

(* Every variable keeps its type, and guard, buffers and lock keep step,   *)
(* for every number of traces, spans and goroutines and under every set of *)
(* faults.                                                                 *)
THEOREM TypeCorrect == Spec => []TypeOK
<1>1. Init => FlagsOK /\ TypeInv /\ CurInv /\ GuardInv
  <2>1. Init => FlagsOK
    BY Zenon DEF Init, FlagsOK
  <2>2. Init => GuardInv
    BY DEF Init, GuardInv
  <2>3. QED
    BY <2>1, <2>2, TypeInit, CurInit
<1>2. FlagsOK /\ TypeInv /\ CurInv /\ GuardInv /\ [Next]_vars
        => (FlagsOK /\ TypeInv /\ CurInv /\ GuardInv)'
  BY FlagsStep, TypeStep, CurStep, GuardStep
<1>3. FlagsOK /\ TypeInv /\ CurInv /\ GuardInv => TypeOK
  BY TypesAgree DEF TypeInv, CurInv, GuardInv, GuardOK
<1>4. QED
  BY <1>1, <1>2, <1>3, PTL DEF Spec

-----------------------------------------------------------------------------
(* The durable part of the log.                                            *)

DurableTips == {log[i] : i \in 1 .. logSynced}
DurableSpans == Logged(logSynced) \cup quarantine

(* The chains an fsync covered, and how many they are.                     *)
PrefixKept ==
  /\ logSynced <= logSynced'
  /\ \A i \in 1 .. logSynced : log'[i] = log[i]

LEMMA AppendKeepsPrefix ==
  ASSUME TypeInv, NEW k \in Tip, log' = Append(log, k) \/ log' = log
  PROVE  \A i \in 1 .. logSynced : log'[i] = log[i]
<1>1. log \in Seq(Tip) /\ logSynced \in 0 .. Len(log) /\ Len(log) \in Nat
  BY DEF TypeInv, DataOK
<1>2. CASE log' = log
  BY <1>2
<1>3. CASE log' = Append(log, k)
  <2>1. \A i \in 1 .. Len(log) : Append(log, k)[i] = log[i]
    BY <1>1
  <2>2. QED
    BY <1>1, <1>3, <2>1
<1>4. QED
  BY <1>2, <1>3

(* No step, failed write, crash or power loss changes what is fsynced.     *)
LEMMA SafePrefix ==
  ASSUME TypeInv, [Next]_vars
  PROVE  PrefixKept
<1>1. logSynced \in 0 .. Len(log) /\ Len(log) \in Nat /\ log \in Seq(Tip)
  BY DEF TypeInv, DataOK
<1>2. ASSUME UNCHANGED <<log, logSynced>>
      PROVE  PrefixKept
  BY <1>1, <1>2 DEF PrefixKept
<1>3. CASE UNCHANGED vars \/ Idle \/ WorkerSweep \/ Exit
  BY <1>2, <1>3 DEF vars, logVars, Idle, WorkerSweep, Exit
<1>4. ASSUME NEW t \in Traces, NEW s \in Spans, ConsumeSpan(t, s)
      PROVE  PrefixKept
  BY <1>2, <1>4 DEF ConsumeSpan, logVars
<1>5. CASE SealStep
  <2>1. ASSUME NEW t \in Traces, BeginSeal(t)
        PROVE  PrefixKept
    BY <1>2, <2>1 DEF BeginSeal, logVars
  <2>2. CASE WriteLog
    <3>1. cur \in Tip /\ log' = Append(log, cur) /\ logSynced' = logSynced
      BY <2>2 DEF WriteLog, TypeInv, LockOK
    <3>2. QED
      BY <1>1, <3>1, AppendKeepsPrefix DEF PrefixKept
  <2>3. CASE WriteLogFails
    <3>1. cur \in Tip /\ logSynced' = logSynced
      BY <2>3 DEF WriteLogFails, TypeInv, LockOK
    <3>2. PICK left \in Prefixes(cur.hash) : log' = WithChain(log, cur.trace, left)
      BY <2>3 DEF WriteLogFails
    <3>3. Chain(cur.trace, left) \in Tip
      BY <3>1, <3>2 DEF Tip, Chain, Prefixes
    <3>4. QED
      BY <1>1, <3>1, <3>2, <3>3, AppendKeepsPrefix DEF PrefixKept, WithChain
  <2>4. CASE SyncLog
    BY <1>1, <2>4 DEF SyncLog, PrefixKept
  <2>5. CASE SyncLogFails
    <3>1. logSynced' = logSynced /\ logSynced < Len(log)
      BY <2>5 DEF SyncLogFails, TypeInv, LockOK
    <3>2. CASE log' = SubSeq(log, 1, Len(log) - 1)
      <4>1. Len(log) - 1 \in 0 .. Len(log) /\ logSynced <= Len(log) - 1
        BY <1>1, <3>1
      <4>2. \A i \in 1 .. Len(log) - 1 : log'[i] = log[i]
        BY <1>1, <3>2, <4>1, HeadOfSeq
      <4>3. QED
        BY <1>1, <3>1, <4>1, <4>2 DEF PrefixKept
    <3>3. CASE log' = log
      BY <1>1, <3>1, <3>3 DEF PrefixKept
    <3>4. QED
      BY <2>5, <3>2, <3>3 DEF SyncLogFails
  <2>6. CASE AddTip
    BY <1>2, <2>6 DEF AddTip, logVars
  <2>7. CASE Checkpointing
    BY <1>2, <2>7 DEF Checkpointing, SkipCheckpoint, WriteCheckpoint, CommitCheckpoint,
                      CheckpointFails, CheckpointPoisons, logVars
  <2>8. CASE MarkSealed \/ QuarantineTrace
    BY <1>2, <2>8 DEF MarkSealed, QuarantineTrace, logVars
  <2>9. QED
    BY <1>5, <2>1, <2>2, <2>3, <2>4, <2>5, <2>6, <2>7, <2>8 DEF SealStep
<1>6. ASSUME NEW c \in Compactors, Compaction(c)
      PROVE  PrefixKept
  BY <1>2, <1>6 DEF Compaction, TakeSnapshot, CompactWal, ClearGuard, logVars
<1>7. CASE ShutdownBegins \/ ShutdownEnds \/ Start
  BY <1>2, <1>7 DEF ShutdownBegins, ShutdownEnds, Start, logVars
<1>8. CASE Crash
  <2>1. log' \in Cuts(LogInFlight, Len(log)) /\ logSynced' = logSynced
    BY <1>8 DEF Crash
  <2>2. \A i \in 1 .. Len(log) : log'[i] = LogInFlight[i]
    BY <2>1, InFlightLog, CutLogs
  <2>3. QED
    BY <1>1, <2>1, <2>2, InFlightLog DEF PrefixKept
<1>9. CASE PowerLoss
  <2>1. log' \in Cuts(LogInFlight, logSynced) /\ logSynced' = Len(log')
    BY <1>9 DEF PowerLoss
  <2>2. logSynced \in 0 .. Len(LogInFlight)
    BY <1>1, InFlightLog
  <2>3. Len(log') >= logSynced /\ \A i \in 1 .. logSynced : log'[i] = LogInFlight[i]
    BY <2>1, <2>2, InFlightLog, CutLogs
  <2>4. QED
    BY <1>1, <2>1, <2>3, InFlightLog DEF PrefixKept
<1>10. QED
  BY <1>3, <1>4, <1>5, <1>6, <1>7, <1>8, <1>9 DEF Next

LEMMA DurableTipsGrow ==
  ASSUME TypeInv, [Next]_vars
  PROVE  DurableTips \subseteq DurableTips'
<1>1. PrefixKept /\ logSynced \in Nat
  BY SafePrefix DEF TypeInv, DataOK
<1>2. logSynced' \in Nat
  BY TypeStep DEF TypeInv, DataOK
<1> SUFFICES ASSUME NEW k \in DurableTips
               PROVE  k \in DurableTips'
  OBVIOUS
<1>3. PICK i \in 1 .. logSynced : k = log[i]
  BY DEF DurableTips
<1>4. i \in 1 .. logSynced' /\ k = log'[i]
  BY <1>1, <1>2, <1>3 DEF PrefixKept
<1>5. QED
  BY <1>4 DEF DurableTips

-----------------------------------------------------------------------------
(* Checkpoints vouch for durable chains only.                              *)

(* A tip is durable from the fsync of its chain on: in the hands of        *)
(* sealTrace, in the accumulator, in a WAL marker and in a checkpoint.     *)
CurDurable ==
  /\ step \in {"tip", "checkpoint", "mark"} => cur \in DurableTips
  /\ step = "commit" /\ cur # NoTip => cur \in DurableTips
  /\ step = "final" => cur = NoTip

TipsDurable ==
  /\ \A i \in DOMAIN checkpoints : ToSet(checkpoints[i]) \subseteq DurableTips
  /\ ToSet(pending) \subseteq DurableTips
  /\ ToSet(walOwed) \subseteq DurableTips

DurableInv == CurDurable /\ TipsDurable

LEMMA CurDurableStep ==
  ASSUME FsyncLog, TypeInv, CurDurable, [Next]_vars
  PROVE  CurDurable'
<1> USE DEF CurDurable
<1>1. DurableTips \subseteq DurableTips'
  BY DurableTipsGrow
<1>2. ASSUME UNCHANGED <<step, cur>>
      PROVE  CurDurable'
  BY <1>1, <1>2
<1>3. CASE UNCHANGED vars \/ Idle
  BY <1>2, <1>3 DEF vars, lockVars, Idle
<1>4. ASSUME NEW t \in Traces, NEW s \in Spans, ConsumeSpan(t, s)
      PROVE  CurDurable'
  BY <1>2, <1>4 DEF ConsumeSpan, Acquire, lockVars
<1>5. CASE WorkerSweep
  BY <1>5 DEF WorkerSweep, Acquire
<1>6. ASSUME step # "idle", SealReturns
      PROVE  CurDurable'
  BY <1>6 DEF SealReturns
<1>7. ASSUME step \in {"checkpoint", "commit", "final"}, AfterCheckpoint
      PROVE  CurDurable'
  BY <1>1, <1>7 DEF AfterCheckpoint, LockReleased
<1>8. CASE SealStep
  <2>1. ASSUME NEW t \in Traces, BeginSeal(t)
        PROVE  CurDurable'
    BY <2>1 DEF BeginSeal, FirstStep
  <2>2. CASE WriteLog
    BY <2>2 DEF WriteLog, AfterWrite
  <2>3. CASE WriteLogFails \/ SyncLogFails \/ MarkSealed \/ QuarantineTrace
    BY <1>6, <2>3 DEF WriteLogFails, SyncLogFails, MarkSealed, QuarantineTrace
  <2>4. CASE SyncLog
    <3>1. cur = log'[Len(log)] /\ Len(log) \in 1 .. logSynced' /\ cur' = cur
      BY <2>4 DEF SyncLog, TypeInv, LockOK, DataOK
    <3>2. cur' \in DurableTips'
      BY <3>1 DEF DurableTips
    <3>3. QED
      BY <2>4, <3>2 DEF SyncLog
  <2>5. CASE AddTip
    BY <1>1, <2>5 DEF AddTip
  <2>6. CASE SkipCheckpoint \/ CommitCheckpoint \/ CheckpointFails \/ CheckpointPoisons
    BY <1>7, <2>6 DEF SkipCheckpoint, CommitCheckpoint, CheckpointFails,
                      CheckpointPoisons, CheckpointDue
  <2>7. CASE WriteCheckpoint
    BY <1>1, <2>7 DEF WriteCheckpoint, CheckpointDue
  <2>8. QED
    BY <1>8, <2>1, <2>2, <2>3, <2>4, <2>5, <2>6, <2>7 DEF SealStep, Checkpointing
<1>9. ASSUME NEW c \in Compactors, Compaction(c)
      PROVE  CurDurable'
  BY <1>2, <1>9 DEF Compaction, TakeSnapshot, CompactWal, ClearGuard, lockVars
<1>10. CASE ShutdownBegins
  BY <1>10 DEF ShutdownBegins
<1>11. CASE ShutdownEnds \/ Start
  BY <1>2, <1>11 DEF ShutdownEnds, Start, lockVars
<1>12. CASE Crash \/ PowerLoss \/ Exit
  BY <1>12, TypeLoseMemory DEF Crash, PowerLoss, Exit
<1>13. QED
  BY <1>3, <1>4, <1>5, <1>8, <1>9, <1>10, <1>11, <1>12 DEF Next

(* The WAL's owed tips only shrink when it is compacted.                   *)
LEMMA CompactedTipsOwed ==
  ASSUME TypeInv, NEW tips, CompactStore(tips)
  PROVE  ToSet(walOwed') \subseteq ToSet(walOwed)
BY CompactedTips DEF TypeInv, DataOK, CompactStore, ToSet

LEMMA TipsDurableStep ==
  ASSUME TypeInv, CurDurable, TipsDurable, [Next]_vars
  PROVE  TipsDurable'
<1> USE DEF TipsDurable
<1>1. DurableTips \subseteq DurableTips'
  BY DurableTipsGrow
<1>2. ASSUME UNCHANGED <<pending, walOwed, checkpoints>>
      PROVE  TipsDurable'
  BY <1>1, <1>2 DEF ToSet
<1>3. CASE UNCHANGED vars \/ Idle
  BY <1>2, <1>3 DEF vars, memVars, walVars, Idle
<1>4. ASSUME NEW t \in Traces, NEW s \in Spans, ConsumeSpan(t, s)
      PROVE  TipsDurable'
  BY <1>2, <1>4 DEF ConsumeSpan, Wal!StoreAppend, walVars
<1>5. CASE WorkerSweep
  BY <1>2, <1>5 DEF WorkerSweep, memVars, walVars
<1>6. CASE SealStep
  <2>1. ASSUME NEW t \in Traces, BeginSeal(t)
        PROVE  TipsDurable'
    BY <1>2, <2>1 DEF BeginSeal, walVars
  <2>2. CASE WriteLog \/ WriteLogFails \/ SyncLog \/ SyncLogFails
    BY <1>2, <2>2 DEF WriteLog, WriteLogFails, SyncLog, SyncLogFails, memVars, walVars
  <2>3. CASE AddTip
    <3>1. UNCHANGED <<walOwed, checkpoints>>
      BY <2>3 DEF AddTip, walVars
    <3>2. ToSet(pending') \subseteq DurableTips
      <4> DEFINE all == Append(pending, cur)
      <4>1. cur \in Tip /\ cur \in DurableTips /\ pending \in Seq(Tip)
        BY <2>3 DEF AddTip, TypeInv, LockOK, DataOK, CurDurable
      <4>2. all \in Seq(Tip) /\ \A i \in DOMAIN all : all[i] \in DurableTips
        BY <4>1 DEF ToSet
      <4>3. pending' = pending \/ pending' = Trimmed(all)
        BY <2>3 DEF AddTip
      <4> HIDE DEF all
      <4>4. CASE pending' = pending
        BY <4>4
      <4>5. CASE pending' = Trimmed(all)
        BY <4>2, <4>5, TrimmedTips DEF ToSet
      <4>6. QED
        BY <4>3, <4>4, <4>5
    <3>3. QED
      BY <1>1, <3>1, <3>2 DEF ToSet
  <2>4. CASE SkipCheckpoint
    BY <1>2, <2>4 DEF SkipCheckpoint, memVars, walVars
  <2>5. ASSUME UNCHANGED walOwed, ToSet(pending') \subseteq ToSet(pending),
               checkpoints' = checkpoints \/ checkpoints' = Append(checkpoints, pending)
        PROVE  TipsDurable'
    <3>1. checkpoints \in Seq(Seq(Tip))
      BY DEF TypeInv, DataOK
    <3>2. \A i \in DOMAIN checkpoints' : ToSet(checkpoints'[i]) \subseteq DurableTips
      <4>1. CASE checkpoints' = checkpoints
        BY <4>1
      <4>2. CASE checkpoints' = Append(checkpoints, pending)
        <5>1. \A i \in DOMAIN checkpoints' :
                \/ checkpoints'[i] = pending
                \/ i \in DOMAIN checkpoints /\ checkpoints'[i] = checkpoints[i]
          BY <3>1, <4>2
        <5>2. QED
          BY <5>1
      <4>3. QED
        BY <2>5, <4>1, <4>2
    <3>3. QED
      BY <1>1, <2>5, <3>2 DEF ToSet
  <2>6. CASE WriteCheckpoint \/ CheckpointFails
    BY <2>5, <2>6 DEF WriteCheckpoint, CheckpointFails, memVars, walVars, ToSet
  <2>7. CASE CommitCheckpoint \/ CheckpointPoisons
    <3>1. pending' = <<>> /\ walOwed' = walOwed
      BY <2>7 DEF CommitCheckpoint, CheckpointPoisons, LeftPending, walVars
    <3>2. ToSet(pending') \subseteq ToSet(pending)
      BY <3>1 DEF ToSet
    <3>3. checkpoints' = checkpoints \/ checkpoints' = Append(checkpoints, pending)
      BY <2>7 DEF CommitCheckpoint, CheckpointPoisons
    <3>4. QED
      BY <2>5, <3>1, <3>2, <3>3
  <2>8. CASE MarkSealed
    <3>1. UNCHANGED <<pending, checkpoints>>
      BY <2>8 DEF MarkSealed, memVars
    <3>2. CASE MarkWal(cur.trace, SealedMarkerTip)
      <4>1. cur \in Tip /\ walOwed \in Seq(Tip)
        BY <2>8 DEF MarkSealed, TypeInv, LockOK, DataOK
      <4>2. walOwed' = walOwed \o <<>> \/ (walOwed' = walOwed \o <<cur>> /\ cur \in ToSet(pending))
        BY <3>2 DEF MarkWal, Wal!StoreSeal, SealedMarkerTip
      <4>3. ToSet(walOwed') \subseteq DurableTips
        BY <4>1, <4>2 DEF ToSet
      <4>4. QED
        BY <1>1, <3>1, <4>3 DEF ToSet
    <3>3. CASE UNCHANGED walVars
      BY <1>2, <3>1, <3>3 DEF walVars
    <3>4. QED
      BY <2>8, <3>2, <3>3 DEF MarkSealed
  <2>9. CASE QuarantineTrace
    <3>1. UNCHANGED <<pending, checkpoints>>
      BY <2>9 DEF QuarantineTrace, memVars
    <3>2. walOwed' = walOwed \o <<>> \/ walOwed' = walOwed
      BY <2>9 DEF QuarantineTrace, MarkWal, Wal!StoreSeal, walVars
    <3>3. walOwed' = walOwed
      BY <3>2 DEF TypeInv, DataOK
    <3>4. QED
      BY <1>2, <3>1, <3>3
  <2>10. QED
    BY <1>6, <2>1, <2>2, <2>3, <2>4, <2>6, <2>7, <2>8, <2>9 DEF SealStep, Checkpointing
<1>7. ASSUME NEW tips, CompactStore(tips), UNCHANGED checkpoints,
             pending' = pending \/ pending' = walOwed
      PROVE  TipsDurable'
  <2>1. ToSet(walOwed') \subseteq DurableTips /\ ToSet(pending') \subseteq DurableTips
    BY <1>7, CompactedTipsOwed
  <2>2. QED
    BY <1>1, <1>7, <2>1 DEF ToSet
<1>8. ASSUME NEW c \in Compactors, Compaction(c)
      PROVE  TipsDurable'
  <2>1. CASE TakeSnapshot(c) \/ ClearGuard(c)
    BY <1>2, <2>1 DEF TakeSnapshot, ClearGuard, memVars, walVars
  <2>2. CASE CompactWal(c)
    BY <1>2, <1>7, <2>2 DEF CompactWal, memVars, walVars
  <2>3. QED
    BY <1>8, <2>1, <2>2 DEF Compaction
<1>9. CASE ShutdownBegins
  BY <1>2, <1>9 DEF ShutdownBegins, walVars
<1>10. CASE ShutdownEnds
  BY <1>2, <1>7, <1>10 DEF ShutdownEnds, walVars
<1>11. CASE Crash \/ PowerLoss \/ Exit
  <2>1. pending' = <<>> /\ UNCHANGED <<walOwed, checkpoints>>
    BY <1>11, TypeLoseMemory DEF Crash, PowerLoss, Exit, walVars
  <2>2. QED
    BY <1>1, <2>1 DEF ToSet
<1>12. CASE Start
  <2>1. pending' = walOwed /\ checkpoints' = checkpoints
    BY <1>12 DEF Start, TipsRestored
  <2>2. CASE CompactStore(ToSet(TipsRestored))
    BY <1>7, <2>1, <2>2
  <2>3. CASE UNCHANGED walVars
    BY <1>1, <2>1, <2>3 DEF walVars, ToSet
  <2>4. QED
    BY <1>12, <2>2, <2>3 DEF Start
<1>13. QED
  BY <1>3, <1>4, <1>5, <1>6, <1>8, <1>9, <1>10, <1>11, <1>12 DEF Next

(* With fsync_log on, no checkpoint ever vouches for a chain a power loss  *)
(* could still take from the log, under every set of faults: the fsync of  *)
(* the log comes before the tip can reach a checkpoint (sealTrace step 4b).*)
THEOREM CheckpointsDurable == FsyncLog /\ Spec => []CheckpointedChainsDurable
<1> SUFFICES ASSUME FsyncLog
             PROVE  Spec => []CheckpointedChainsDurable
  OBVIOUS
<1>1. Init => DurableInv
  BY DEF Init, Wal!StoreInit, DurableInv, CurDurable, TipsDurable, ToSet
<1>2. TypeInv /\ DurableInv /\ [Next]_vars => DurableInv'
  BY CurDurableStep, TipsDurableStep DEF DurableInv
<1>3. DurableInv => CheckpointedChainsDurable
  BY DEF DurableInv, TipsDurable, CheckpointedChainsDurable, Covered, DurableTips
<1>4. Init => TypeInv
  BY TypeInit
<1>5. TypeInv /\ [Next]_vars => TypeInv'
  BY TypeStep
<1>6. QED
  BY <1>1, <1>2, <1>3, <1>4, <1>5, PTL DEF Spec

-----------------------------------------------------------------------------
(* What leaves the WAL.                                                    *)

(* No log write fails, or none of its traces gets late spans while it is   *)
(* still in the WAL: finding exporter_late_span shows what they would do.  *)
ResealedFromWal == "logWrite" \in Faults => ~LateSpans

(* The log is poisoned by failed log writes only.                          *)
PoisonFree == LateSpans => logPoisoned = FALSE /\ step # "quarantine"

BeingSealed(t) == cur # NoTip /\ cur.trace = t

(* Its seal failed: the trace waits in the WAL for the next start.         *)
Stranded(t) == ~LateSpans /\ buffers[t] = {} /\ ~BeingSealed(t)

(* Where a record that the WAL still holds is, while the process runs.     *)
Accounted(t, s) ==
  \/ s \in buffers[t]
  \/ <<t, s>> \in DurableSpans
  \/ BeingSealed(t) /\ s \in cur.hash
  \/ Stranded(t)

WalAccounted ==
  phase \in {"running", "closing"} =>
    \A t \in Traces : \A s \in walOpen[t] : Accounted(t, s)

(* NoSpanLost with durable for recorded: what a power loss leaves.         *)
PromisedKept ==
  \A t \in Traces, s \in Spans :
    <<t, s>> \in promised => s \in walOpen[t] \/ <<t, s>> \in DurableSpans

WalInv == PoisonFree /\ CurInv /\ WalAccounted

LEMMA DurableSpansOf ==
  DurableSpans = (UNION {SpansOf(k) : k \in DurableTips}) \cup quarantine
BY DEF DurableSpans, DurableTips, Logged

LEMMA QuarantineGrows ==
  ASSUME [Next]_vars
  PROVE  quarantine \subseteq quarantine'
<1>1. CASE UNCHANGED vars \/ Idle \/ WorkerSweep \/ Exit
  BY <1>1 DEF vars, logVars, Idle, WorkerSweep, Exit
<1>2. ASSUME NEW t \in Traces, NEW s \in Spans, ConsumeSpan(t, s)
      PROVE  quarantine \subseteq quarantine'
  BY <1>2 DEF ConsumeSpan, logVars
<1>3. CASE SealStep
  <2>1. ASSUME NEW t \in Traces, BeginSeal(t)
        PROVE  quarantine \subseteq quarantine'
    BY <2>1 DEF BeginSeal, logVars
  <2>2. CASE WriteLog \/ WriteLogFails \/ SyncLog \/ SyncLogFails \/ AddTip
    BY <2>2 DEF WriteLog, WriteLogFails, SyncLog, SyncLogFails, AddTip, logVars
  <2>3. CASE Checkpointing
    BY <2>3 DEF Checkpointing, SkipCheckpoint, WriteCheckpoint, CommitCheckpoint,
                CheckpointFails, CheckpointPoisons, logVars
  <2>4. CASE MarkSealed \/ QuarantineTrace
    BY <2>4 DEF MarkSealed, QuarantineTrace, logVars
  <2>5. QED
    BY <1>3, <2>1, <2>2, <2>3, <2>4 DEF SealStep
<1>4. ASSUME NEW c \in Compactors, Compaction(c)
      PROVE  quarantine \subseteq quarantine'
  BY <1>4 DEF Compaction, TakeSnapshot, CompactWal, ClearGuard, logVars
<1>5. CASE ShutdownBegins \/ ShutdownEnds \/ Start \/ Crash \/ PowerLoss
  BY <1>5 DEF ShutdownBegins, ShutdownEnds, Start, Crash, PowerLoss, logVars
<1>6. QED
  BY <1>1, <1>2, <1>3, <1>4, <1>5 DEF Next

LEMMA DurableSpansGrow ==
  ASSUME TypeInv, [Next]_vars
  PROVE  DurableSpans \subseteq DurableSpans'
<1>1. DurableTips \subseteq DurableTips' /\ quarantine \subseteq quarantine'
  BY DurableTipsGrow, QuarantineGrows
<1>2. /\ DurableSpans = (UNION {SpansOf(k) : k \in DurableTips}) \cup quarantine
      /\ DurableSpans' = (UNION {SpansOf(k) : k \in DurableTips'}) \cup quarantine'
  BY DEF DurableSpans, DurableTips, Logged, SpansOf
<1>3. QED
  BY <1>1, <1>2

LEMMA LogFaultsQuiet ==
  ASSUME ResealedFromWal, WriteLogFails \/ SyncLogFails
  PROVE  ~LateSpans
BY DEF ResealedFromWal, WriteLogFails, SyncLogFails, Fail

LEMMA PoisonFreeStep ==
  ASSUME ResealedFromWal, PoisonFree, [Next]_vars
  PROVE  PoisonFree'
<1> USE DEF PoisonFree
<1>1. CASE UNCHANGED vars \/ Idle
  BY <1>1 DEF vars, memVars, lockVars, Idle
<1>2. ASSUME NEW t \in Traces, NEW s \in Spans, ConsumeSpan(t, s)
      PROVE  PoisonFree'
  BY <1>2 DEF ConsumeSpan, Acquire, lockVars
<1>3. CASE WorkerSweep
  BY <1>3 DEF WorkerSweep, Acquire, memVars
<1>4. CASE SealStep
  <2>1. ASSUME NEW t \in Traces, BeginSeal(t)
        PROVE  PoisonFree'
    BY <2>1 DEF BeginSeal, FirstStep
  <2>2. CASE WriteLogFails \/ SyncLogFails
    BY <2>2, LogFaultsQuiet
  <2>3. CASE WriteLog \/ SyncLog \/ AddTip
    BY <2>3 DEF WriteLog, AfterWrite, SyncLog, AddTip, memVars
  <2>4. CASE Checkpointing
    BY <2>4 DEF Checkpointing, SkipCheckpoint, WriteCheckpoint, CommitCheckpoint,
                CheckpointFails, CheckpointPoisons, AfterCheckpoint, LockReleased, memVars
  <2>5. CASE MarkSealed \/ QuarantineTrace
    BY <2>5 DEF MarkSealed, QuarantineTrace, SealReturns, memVars
  <2>6. QED
    BY <1>4, <2>1, <2>2, <2>3, <2>4, <2>5 DEF SealStep
<1>5. ASSUME NEW c \in Compactors, Compaction(c)
      PROVE  PoisonFree'
  BY <1>5 DEF Compaction, TakeSnapshot, CompactWal, ClearGuard, memVars, lockVars
<1>6. CASE ShutdownBegins \/ ShutdownEnds \/ Start
  BY <1>6 DEF ShutdownBegins, ShutdownEnds, Start, lockVars
<1>7. CASE Crash \/ PowerLoss \/ Exit
  BY <1>7 DEF Crash, PowerLoss, Exit, LoseMemory
<1>8. QED
  BY <1>1, <1>2, <1>3, <1>4, <1>5, <1>6, <1>7 DEF Next

(* The chain at hand is whole in the durable log when the WAL is marked,   *)
(* and with it every record of its trace that the WAL holds.               *)
LEMMA MarkedIsDurable ==
  ASSUME TypeInv, CurInv, CurDurable, WalAccounted, step = "mark"
  PROVE  /\ cur \in Tip /\ cur.trace \in Traces
         /\ \A s \in walOpen[cur.trace] : <<cur.trace, s>> \in DurableSpans
<1>1. cur \in Tip /\ cur.trace \in Traces /\ cur # NoTip /\ cur \in DurableTips
  BY DEF TypeInv, LockOK, CurInv, CurDurable, Tip
<1>2. SpansOf(cur) \subseteq DurableSpans
  BY <1>1, DurableSpansOf
<1>3. phase \in {"running", "closing"}
  BY DEF TypeInv, LockOK, DataOK
<1>4. buffers[cur.trace] = {}
  BY <1>1 DEF CurInv
<1>5. ASSUME NEW s \in walOpen[cur.trace]
      PROVE  <<cur.trace, s>> \in DurableSpans
  <2>1. Accounted(cur.trace, s)
    BY <1>1, <1>3 DEF WalAccounted
  <2>2. s \in cur.hash => <<cur.trace, s>> \in SpansOf(cur)
    BY DEF SpansOf
  <2>3. QED
    BY <1>1, <1>2, <1>4, <2>1, <2>2 DEF Accounted, Stranded, BeingSealed
<1>6. QED
  BY <1>1, <1>5

(* A trace that goes to quarantine has all its records in the chain.       *)
LEMMA QuarantinedAtHand ==
  ASSUME TypeInv, CurInv, WalAccounted, step = "quarantine"
  PROVE  /\ cur \in Tip /\ cur.trace \in Traces
         /\ \A s \in walOpen[cur.trace] :
              <<cur.trace, s>> \in DurableSpans \cup SpansOf(cur)
<1>1. cur \in Tip /\ cur.trace \in Traces /\ cur # NoTip
  BY DEF TypeInv, LockOK, CurInv, Tip
<1>2. phase \in {"running", "closing"} /\ buffers[cur.trace] = {}
  BY <1>1 DEF TypeInv, LockOK, DataOK, CurInv
<1>3. QED
  BY <1>1, <1>2 DEF WalAccounted, Accounted, Stranded, BeingSealed, SpansOf

(* What keeps every record in the WAL accounted for.                       *)
LEMMA WalAccountedFrame ==
  ASSUME TypeInv, WalAccounted, [Next]_vars,
         phase' \in {"running", "closing"} => phase \in {"running", "closing"},
         \A t \in Traces : walOpen'[t] \subseteq walOpen[t],
         UNCHANGED <<buffers, cur>>
  PROVE  WalAccounted'
BY DurableSpansGrow DEF WalAccounted, Accounted, Stranded, BeingSealed

(* sealTrace gives up a chain: its trace is stranded, or all of it durable.*)
LEMMA WalAccountedReturns ==
  ASSUME TypeInv, CurInv, WalAccounted, [Next]_vars, cur # NoTip, cur' = NoTip,
         UNCHANGED <<phase, buffers>>,
         \A t \in Traces : walOpen'[t] \subseteq walOpen[t],
         \/ ~LateSpans
         \/ \A s \in walOpen'[cur.trace] : <<cur.trace, s>> \in DurableSpans'
  PROVE  WalAccounted'
<1>1. DurableSpans \subseteq DurableSpans'
  BY DurableSpansGrow
<1>2. ASSUME phase \in {"running", "closing"}, NEW t \in Traces, NEW s \in walOpen'[t]
      PROVE  Accounted(t, s)'
  <2>1. Accounted(t, s)
    BY <1>2 DEF WalAccounted
  <2>2. CASE t = cur.trace
    BY <2>2 DEF CurInv, Accounted, Stranded, BeingSealed
  <2>3. CASE t # cur.trace
    BY <1>1, <2>1, <2>3 DEF Accounted, Stranded, BeingSealed
  <2>4. QED
    BY <2>2, <2>3
<1>3. QED
  BY <1>2 DEF WalAccounted

LEMMA WalAccountedConsume ==
  ASSUME TypeInv, CurInv, WalAccounted, [Next]_vars,
         NEW t \in Traces, NEW s \in Spans, ConsumeSpan(t, s)
  PROVE  WalAccounted'
<1>0. DurableSpans \subseteq DurableSpans'
  BY DurableSpansGrow
<1>1. phase = "running" /\ step = "idle" /\ cur = NoTip /\ cur' = NoTip
  BY DEF ConsumeSpan, LockFree, TypeInv, LockOK, CurInv, Acquire, lockVars
<1>2. buffers' = [buffers EXCEPT ![t] = @ \cup {s}] /\ (LateSpans \/ walOpen[t] \subseteq buffers[t])
  BY DEF ConsumeSpan
<1>3. walOpen' = [walOpen EXCEPT ![t] = @ \cup {s}] \/ walOpen' = walOpen
  BY DEF ConsumeSpan, Wal!StoreAppend, walVars
<1>4. ASSUME NEW u \in Traces, NEW x \in walOpen'[u]
      PROVE  Accounted(u, x)'
  <2>1. x \in walOpen[u] \/ (u = t /\ x = s)
    BY <1>3, <1>4 DEF TypeInv, DataOK
  <2>2. CASE u = t /\ x = s
    BY <1>2, <2>2 DEF Accounted, TypeInv, DataOK
  <2>3. CASE u = t /\ x \in walOpen[u]
    <3>1. x \in buffers[u] \/ <<u, x>> \in DurableSpans
      BY <1>1, <1>2, <2>3 DEF WalAccounted, Accounted, Stranded, BeingSealed
    <3>2. QED
      BY <1>0, <1>2, <2>3, <3>1 DEF Accounted, TypeInv, DataOK
  <2>4. CASE u # t
    BY <1>0, <1>1, <1>2, <2>1, <2>4
       DEF WalAccounted, Accounted, Stranded, BeingSealed, TypeInv, DataOK
  <2>5. QED
    BY <2>1, <2>2, <2>3, <2>4
<1>5. QED
  BY <1>4 DEF WalAccounted

LEMMA WalAccountedSeal ==
  ASSUME ResealedFromWal, TypeInv, CurDurable, WalInv, [Next]_vars, SealStep
  PROVE  WalAccounted'
<1> USE DEF WalInv
<1>0. DurableSpans \subseteq DurableSpans'
  BY DurableSpansGrow
<1>1. ASSUME NEW t \in Traces, BeginSeal(t)
      PROVE  WalAccounted'
  <2>1. /\ buffers' = [buffers EXCEPT ![t] = {}]
        /\ cur' = Chain(t, buffers[t]) /\ cur = NoTip
        /\ t \in todo /\ UNCHANGED <<phase, walOpen>>
    BY <1>1 DEF BeginSeal, BufferDropped, walVars, CurInv
  <2>2. cur' \in Tip /\ cur' # NoTip /\ cur'.trace = t /\ cur'.hash = buffers[t]
    BY <2>1, NoTipAssumption DEF Chain, Tip, TypeInv, DataOK
  <2>3. buffers[t] # {}
    BY <2>1 DEF CurInv
  <2>4. QED
    BY <1>0, <2>1, <2>2, <2>3
       DEF WalAccounted, Accounted, Stranded, BeingSealed, TypeInv, DataOK
<1>2. CASE WriteLog \/ SyncLog \/ AddTip
  BY <1>2, WalAccountedFrame DEF WriteLog, SyncLog, AddTip, memVars, walVars
<1>3. CASE WriteLogFails \/ SyncLogFails
  <2>1. /\ cur # NoTip /\ cur' = NoTip /\ UNCHANGED <<phase, buffers, walOpen>> /\ ~LateSpans
    BY <1>3, LogFaultsQuiet DEF WriteLogFails, SyncLogFails, SealReturns, CurInv, walVars
  <2>2. QED
    BY <2>1, WalAccountedReturns
<1>4. CASE Checkpointing
  BY <1>4, WalAccountedFrame
     DEF Checkpointing, SkipCheckpoint, WriteCheckpoint, CommitCheckpoint, CheckpointFails,
         CheckpointPoisons, AfterCheckpoint, memVars, walVars
<1>5. ASSUME NEW tips, MarkWal(cur.trace, tips) \/ UNCHANGED walVars
      PROVE  \A t \in Traces : walOpen'[t] \subseteq walOpen[t]
  BY <1>5 DEF MarkWal, Wal!StoreSeal, walVars, TypeInv, DataOK
<1>6. CASE MarkSealed
  <2>1. step = "mark" /\ cur # NoTip /\ cur' = NoTip /\ UNCHANGED <<phase, buffers>>
    BY <1>6 DEF MarkSealed, SealReturns, CurInv, memVars
  <2>2. /\ cur.trace \in Traces
        /\ \A s \in walOpen[cur.trace] : <<cur.trace, s>> \in DurableSpans
    BY <2>1, MarkedIsDurable
  <2>3. \A t \in Traces : walOpen'[t] \subseteq walOpen[t]
    BY <1>5, <1>6 DEF MarkSealed
  <2>4. QED
    BY <1>0, <2>1, <2>2, <2>3, WalAccountedReturns
<1>7. CASE QuarantineTrace
  <2>1. step = "quarantine" /\ cur # NoTip /\ cur' = NoTip /\ UNCHANGED <<phase, buffers>>
    BY <1>7 DEF QuarantineTrace, SealReturns, CurInv, memVars
  <2>2. ~LateSpans
    BY <2>1 DEF PoisonFree
  <2>3. \A t \in Traces : walOpen'[t] \subseteq walOpen[t]
    BY <1>5, <1>7 DEF QuarantineTrace
  <2>4. QED
    BY <2>1, <2>2, <2>3, WalAccountedReturns
<1>8. QED
  BY <1>1, <1>2, <1>3, <1>4, <1>6, <1>7 DEF SealStep

LEMMA WalAccountedStep ==
  ASSUME ResealedFromWal, TypeInv, CurDurable, WalInv, [Next]_vars
  PROVE  WalAccounted'
<1> USE DEF WalInv
<1>1. CASE UNCHANGED vars \/ Idle
  BY <1>1, WalAccountedFrame DEF vars, memVars, lockVars, walVars, Idle
<1>2. CASE WorkerSweep \/ ShutdownBegins
  <2>1. step = "idle" /\ phase = "running" /\ cur' = NoTip /\ UNCHANGED <<buffers, walOpen>>
    BY <1>2 DEF WorkerSweep, ShutdownBegins, Acquire, LockFree, memVars, walVars, TypeInv, LockOK
  <2>2. QED
    BY <2>1, WalAccountedFrame DEF CurInv
<1>3. ASSUME NEW c \in Compactors, Compaction(c)
      PROVE  WalAccounted'
  <2>1. UNCHANGED <<phase, buffers, cur>>
    BY <1>3 DEF Compaction, TakeSnapshot, CompactWal, ClearGuard, memVars, lockVars
  <2>2. walOpen' = walOpen
    BY <1>3, TypeCompactStore
       DEF Compaction, TakeSnapshot, CompactWal, ClearGuard, walVars
  <2>3. QED
    BY <2>1, <2>2, WalAccountedFrame
<1>4. CASE ShutdownEnds
  BY <1>4 DEF ShutdownEnds, WalAccounted
<1>5. CASE Crash \/ PowerLoss \/ Exit
  BY <1>5, TypeLoseMemory DEF Crash, PowerLoss, Exit, WalAccounted
<1>6. CASE Start
  BY <1>6, TypeCompactStore DEF Start, Rehydrated, walVars, WalAccounted, Accounted
<1>7. QED
  BY <1>1, <1>2, <1>3, <1>4, <1>5, <1>6, WalAccountedConsume, WalAccountedSeal DEF Next

LEMMA WalInvStep ==
  ASSUME ResealedFromWal, TypeInv, CurDurable, WalInv, [Next]_vars
  PROVE  WalInv'
BY PoisonFreeStep, CurStep, WalAccountedStep DEF WalInv

(* Only a power loss takes a record from the WAL that is not durable.      *)
LEMMA WalLetsGo ==
  ASSUME TypeInv, CurDurable, WalInv, [Next]_vars, ~PowerLoss,
         NEW t \in Traces, NEW s \in walOpen[t]
  PROVE  s \in walOpen'[t] \/ <<t, s>> \in DurableSpans'
<1> USE DEF WalInv
<1> DEFINE Kept == s \in walOpen'[t] \/ <<t, s>> \in DurableSpans'
<1>0. DurableSpans \subseteq DurableSpans'
  BY DurableSpansGrow
<1>1. walOpen' = walOpen => Kept
  OBVIOUS
<1>2. CASE UNCHANGED vars \/ Idle \/ WorkerSweep \/ ShutdownBegins \/ Crash \/ Exit
  BY <1>1, <1>2 DEF vars, walVars, Idle, WorkerSweep, ShutdownBegins, Crash, Exit
<1>3. ASSUME NEW u \in Traces, NEW x \in Spans, ConsumeSpan(u, x)
      PROVE  Kept
  BY <1>3 DEF ConsumeSpan, Wal!StoreAppend, walVars, TypeInv, DataOK
<1>4. ASSUME NEW c \in Compactors, Compaction(c)
      PROVE  Kept
  BY <1>1, <1>4, TypeCompactStore DEF Compaction, TakeSnapshot, CompactWal, ClearGuard, walVars
<1>5. CASE ShutdownEnds \/ Start
  BY <1>1, <1>5, TypeCompactStore DEF ShutdownEnds, Start, walVars
<1>6. CASE SealStep
  <2>1. ASSUME NEW u \in Traces, BeginSeal(u)
        PROVE  Kept
    BY <1>1, <2>1 DEF BeginSeal, walVars
  <2>2. CASE WriteLog \/ WriteLogFails \/ SyncLog \/ SyncLogFails \/ AddTip \/ Checkpointing
    BY <1>1, <2>2
       DEF WriteLog, WriteLogFails, SyncLog, SyncLogFails, AddTip, Checkpointing, SkipCheckpoint,
           WriteCheckpoint, CommitCheckpoint, CheckpointFails, CheckpointPoisons, walVars
  <2>3. ASSUME NEW tips, MarkWal(cur.trace, tips)
        PROVE  t # cur.trace => s \in walOpen'[t]
    BY <2>3 DEF MarkWal, Wal!StoreSeal, TypeInv, DataOK
  <2>4. CASE MarkSealed
    <3>1. step = "mark" /\ (MarkWal(cur.trace, SealedMarkerTip) \/ UNCHANGED walVars)
      BY <2>4 DEF MarkSealed
    <3>2. QED
      BY <1>0, <1>1, <2>3, <3>1, MarkedIsDurable DEF walVars
  <2>5. CASE QuarantineTrace
    <3>1. step = "quarantine"
      BY <2>5 DEF QuarantineTrace
    <3>2. CASE quarantine' = quarantine \cup SpansOf(cur) /\ MarkWal(cur.trace, <<>>)
      <4>1. SpansOf(cur) \subseteq DurableSpans'
        BY <3>2 DEF DurableSpans
      <4>2. QED
        BY <1>0, <2>3, <3>1, <3>2, <4>1, QuarantinedAtHand
    <3>3. CASE UNCHANGED walVars
      BY <1>1, <3>3 DEF walVars
    <3>4. QED
      BY <2>5, <3>2, <3>3 DEF QuarantineTrace
  <2>6. QED
    BY <1>6, <2>1, <2>2, <2>4, <2>5 DEF SealStep
<1>7. QED
  BY <1>2, <1>3, <1>4, <1>5, <1>6 DEF Next

-----------------------------------------------------------------------------
(* No span is lost.                                                        *)

LEMMA PromisedGrows ==
  ASSUME [Next]_vars, ~PowerLoss
  PROVE  \/ promised' = promised
         \/ \E t \in Traces, s \in Spans :
              Wal!StoreAppend(t, s) /\ promised' = promised \cup {<<t, s>>}
<1> DEFINE Grows == \/ promised' = promised
                    \/ \E t \in Traces, s \in Spans :
                         Wal!StoreAppend(t, s) /\ promised' = promised \cup {<<t, s>>}
<1>1. CASE UNCHANGED vars \/ Idle \/ WorkerSweep \/ ShutdownBegins \/ ShutdownEnds
  BY <1>1 DEF vars, Idle, WorkerSweep, ShutdownBegins, ShutdownEnds
<1>2. ASSUME NEW t \in Traces, NEW s \in Spans, ConsumeSpan(t, s)
      PROVE  Grows
  BY <1>2 DEF ConsumeSpan
<1>3. CASE SealStep
  BY <1>3 DEF SealStep, BeginSeal, WriteLog, WriteLogFails, SyncLog, SyncLogFails, AddTip,
       Checkpointing, SkipCheckpoint, WriteCheckpoint, CommitCheckpoint, CheckpointFails,
       CheckpointPoisons, MarkSealed, QuarantineTrace
<1>4. ASSUME NEW c \in Compactors, Compaction(c)
      PROVE  Grows
  BY <1>4 DEF Compaction, TakeSnapshot, CompactWal, ClearGuard
<1>5. CASE Crash \/ Exit \/ Start
  BY <1>5 DEF Crash, Exit, Start
<1>6. QED
  BY <1>1, <1>2, <1>3, <1>4, <1>5 DEF Next

LEMMA PromisedKeptStep ==
  ASSUME TypeInv, CurDurable, WalInv, PromisedKept, [Next]_vars
  PROVE  PromisedKept'
<1>0. DurableSpans \subseteq DurableSpans'
  BY DurableSpansGrow
<1>1. CASE PowerLoss
  <2>1. PICK lost \in SUBSET walUnsynced :
          /\ walOpen' = [t \in Traces |-> {s \in walOpen[t] : <<t, s>> \notin lost}]
          /\ promised' = promised \ (lost \ Recorded')
    BY <1>1 DEF PowerLoss
  <2>2. Recorded' = DurableSpans'
    BY <1>1 DEF PowerLoss, Recorded, DurableSpans, Logged
  <2>3. QED
    BY <1>0, <2>1, <2>2 DEF PromisedKept
<1>2. CASE ~PowerLoss
  <2>1. ASSUME NEW t \in Traces, NEW s \in Spans, <<t, s>> \in promised
        PROVE  s \in walOpen'[t] \/ <<t, s>> \in DurableSpans'
    <3>1. s \in walOpen[t] \/ <<t, s>> \in DurableSpans
      BY <2>1 DEF PromisedKept
    <3>2. QED
      BY <1>0, <1>2, <2>1, <3>1, WalLetsGo
  <2>2. ASSUME NEW t \in Traces, NEW s \in Spans, Wal!StoreAppend(t, s)
        PROVE  s \in walOpen'[t]
    BY <2>2 DEF Wal!StoreAppend, TypeInv, DataOK
  <2>3. QED
    BY <1>2, <2>1, <2>2, PromisedGrows DEF PromisedKept
<1>3. QED
  BY <1>1, <1>2

LEMMA DurabilityInit ==
  Init => TypeInv /\ DurableInv /\ WalInv /\ PromisedKept
<1>1. Init => DurableInv
  BY DEF Init, Wal!StoreInit, DurableInv, CurDurable, TipsDurable, ToSet
<1>2. Init => PoisonFree /\ WalAccounted /\ PromisedKept
  BY DEF Init, Wal!StoreInit, PoisonFree, WalAccounted, PromisedKept
<1>3. QED
  BY <1>1, <1>2, TypeInit, CurInit DEF WalInv

LEMMA DurabilityStep ==
  ASSUME FsyncLog, ResealedFromWal, TypeInv, DurableInv, WalInv, PromisedKept, [Next]_vars
  PROVE  (TypeInv /\ DurableInv /\ WalInv /\ PromisedKept)'
<1>1. DurableInv'
  BY CurDurableStep, TipsDurableStep DEF DurableInv
<1>2. QED
  BY <1>1, TypeStep, WalInvStep, PromisedKeptStep DEF DurableInv

(* With fsync_log on no span the WAL took is lost, for any number of       *)
(* traces, spans, goroutines, crashes and power losses, and whatever fails:*)
(* WAL appends and marks, Compact, log and checkpoint writes, the          *)
(* quarantine file.  The exception is a failed log write followed by a     *)
(* late span, which run exporter_late_span exhibits: where log writes may  *)
(* fail, no late span comes for a trace whose seal failed.                 *)
THEOREM NothingLost == FsyncLog /\ ResealedFromWal /\ Spec => []NoSpanLost
<1> SUFFICES ASSUME FsyncLog, ResealedFromWal
             PROVE  Spec => []NoSpanLost
  OBVIOUS
<1>1. TypeInv /\ PromisedKept => NoSpanLost
  <2> SUFFICES ASSUME TypeInv, PromisedKept, NEW x \in promised
               PROVE  x[2] \in walOpen[x[1]] \/ x \in Recorded
    BY DEF NoSpanLost
  <2>1. x[1] \in Traces /\ x[2] \in Spans /\ x = <<x[1], x[2]>>
    BY DEF TypeInv, DataOK
  <2>2. x[2] \in walOpen[x[1]] \/ x \in DurableSpans
    BY <2>1 DEF PromisedKept
  <2>3. 1 .. logSynced \subseteq 1 .. Len(log)
    BY DEF TypeInv, DataOK
  <2>4. Logged(logSynced) \subseteq Logged(Len(log))
    BY <2>3 DEF Logged
  <2>5. QED
    BY <2>2, <2>4 DEF DurableSpans, Recorded
<1>2. TypeInv /\ DurableInv /\ WalInv /\ PromisedKept /\ [Next]_vars
        => (TypeInv /\ DurableInv /\ WalInv /\ PromisedKept)'
  BY DurabilityStep
<1>3. QED
  BY <1>1, <1>2, DurabilityInit, PTL DEF Spec

-----------------------------------------------------------------------------
(* The exporter implements AuditTrail.                                     *)

Held == {x \in Traces \X Spans : x[2] \in walOpen[x[1]] /\ x \notin walUnsynced}
Attested == {SpansOf(k) : k \in Covered}

LEMMA UnsyncedAreNew ==
  ASSUME TypeInv, [Next]_vars, NEW t \in Traces, NEW s \in walOpen[t], <<t, s>> \in walUnsynced'
  PROVE  <<t, s>> \in walUnsynced
<1> DEFINE Old == <<t, s>> \in walUnsynced
<1>1. CASE UNCHANGED vars \/ Idle \/ WorkerSweep \/ ShutdownBegins \/ Crash \/ Exit
  BY <1>1 DEF vars, walVars, Idle, WorkerSweep, ShutdownBegins, Crash, Exit
<1>2. ASSUME NEW u \in Traces, NEW x \in Spans, ConsumeSpan(u, x)
      PROVE  Old
  BY <1>2 DEF ConsumeSpan, walVars
<1>3. CASE SealStep
  BY <1>3 DEF SealStep, BeginSeal, WriteLog, WriteLogFails, SyncLog, SyncLogFails, AddTip,
       Checkpointing, SkipCheckpoint, WriteCheckpoint, CommitCheckpoint, CheckpointFails,
       CheckpointPoisons, MarkSealed, QuarantineTrace, MarkWal, walVars
<1>4. ASSUME NEW c \in Compactors, Compaction(c)
      PROVE  Old
  BY <1>4 DEF Compaction, TakeSnapshot, CompactWal, ClearGuard, CompactStore, walVars
<1>5. CASE ShutdownEnds \/ Start \/ PowerLoss
  BY <1>5 DEF ShutdownEnds, Start, PowerLoss, CompactStore, walVars
<1>6. QED
  BY <1>1, <1>2, <1>3, <1>4, <1>5 DEF Next

LEMMA HeldLetsGo ==
  ASSUME TypeInv, CurDurable, WalInv, [Next]_vars
  PROVE  Held \subseteq Held' \cup DurableSpans'
<1> SUFFICES ASSUME NEW t \in Traces, NEW s \in walOpen[t], <<t, s>> \notin walUnsynced
             PROVE  s \in walOpen'[t] \/ <<t, s>> \in DurableSpans'
  BY UnsyncedAreNew DEF Held, TypeInv, DataOK
<1>1. CASE PowerLoss
  BY <1>1 DEF PowerLoss
<1>2. CASE ~PowerLoss
  BY <1>2, WalLetsGo
<1>3. QED
  BY <1>1, <1>2

LEMMA CheckpointsGrow ==
  ASSUME [Next]_vars
  PROVE  \/ checkpoints' = checkpoints
         \/ /\ checkpoints' = Append(checkpoints, pending)
            /\ UNCHANGED <<walVars, logVars>>
<1>1. CASE UNCHANGED vars \/ Idle \/ WorkerSweep \/ ShutdownBegins \/ ShutdownEnds
  BY <1>1 DEF vars, Idle, WorkerSweep, ShutdownBegins, ShutdownEnds
<1>2. ASSUME NEW t \in Traces, NEW s \in Spans, ConsumeSpan(t, s)
      PROVE  checkpoints' = checkpoints
  BY <1>2 DEF ConsumeSpan
<1>3. CASE \/ \E t \in Traces : BeginSeal(t)
           \/ WriteLog \/ WriteLogFails \/ SyncLog \/ SyncLogFails \/ AddTip \/ SkipCheckpoint
           \/ CommitCheckpoint \/ CheckpointFails \/ MarkSealed \/ QuarantineTrace
  BY <1>3 DEF BeginSeal, WriteLog, WriteLogFails, SyncLog, SyncLogFails, AddTip, SkipCheckpoint,
       CommitCheckpoint, CheckpointFails, MarkSealed, QuarantineTrace
<1>4. CASE WriteCheckpoint \/ CheckpointPoisons
  BY <1>4 DEF WriteCheckpoint, CheckpointPoisons
<1>5. ASSUME NEW c \in Compactors, Compaction(c)
      PROVE  checkpoints' = checkpoints
  BY <1>5 DEF Compaction, TakeSnapshot, CompactWal, ClearGuard
<1>6. CASE Crash \/ PowerLoss \/ Exit \/ Start
  BY <1>6 DEF Crash, PowerLoss, Exit, Start
<1>7. QED
  BY <1>1, <1>2, <1>3, <1>4, <1>5, <1>6 DEF Next, SealStep, Checkpointing

(* Every step settles items, vouches for recorded ones, or is neither's.   *)
LEMMA TrailStep ==
  ASSUME TypeInv, DurableInv, WalInv, [Next]_vars
  PROVE  [Trail!TrailNext]_(Trail!trailVars)
<1>1. CASE checkpoints' = checkpoints
  <2>1. Covered' = Covered
    BY <1>1 DEF Covered, ToSet
  <2>2. Attested' = Attested
    BY <2>1 DEF Attested, SpansOf
  <2>3. DurableSpans \subseteq DurableSpans' /\ Held \subseteq Held' \cup DurableSpans'
    BY DurableSpansGrow, HeldLetsGo DEF DurableInv
  <2>4. QED
    BY <2>2, <2>3 DEF Trail!TrailNext, Trail!Settle, Held, DurableSpans, Attested
<1>2. CASE checkpoints' = Append(checkpoints, pending) /\ UNCHANGED <<walVars, logVars>>
  <2>1. Covered' = Covered \cup ToSet(pending)
    <3>1. checkpoints \in Seq(Seq(Tip)) /\ pending \in Seq(Tip)
      BY DEF TypeInv, DataOK
    <3>2. /\ DOMAIN checkpoints' = (DOMAIN checkpoints) \cup {Len(checkpoints) + 1}
          /\ \A i \in DOMAIN checkpoints : checkpoints'[i] = checkpoints[i]
          /\ checkpoints'[Len(checkpoints) + 1] = pending
      BY <1>2, <3>1
    <3>3. QED
      BY <3>2 DEF Covered, ToSet
  <2>2. Attested' = Attested \cup {SpansOf(k) : k \in ToSet(pending)}
    BY <2>1 DEF Attested, SpansOf
  <2>3. \A k \in ToSet(pending) : SpansOf(k) \subseteq DurableSpans
    BY DurableSpansOf DEF DurableInv, TipsDurable
  <2>4. Held' = Held /\ DurableSpans' = DurableSpans
    BY <1>2 DEF Held, DurableSpans, Logged, walVars, logVars
  <2>5. QED
    BY <2>2, <2>3, <2>4 DEF Trail!TrailNext, Trail!Attest, Held, DurableSpans, Attested
<1>3. QED
  BY <1>1, <1>2, CheckpointsGrow

(* The exporter keeps AuditTrail's promises, for any number of traces,     *)
(* spans, goroutines, crashes and power losses: durable spans leave the    *)
(* WAL only when the log or the quarantine file has them durably, and a    *)
(* checkpoint vouches for durable entries only (sealTrace steps 4 to 6).   *)
THEOREM AuditTrailImplemented ==
  FsyncLog /\ ResealedFromWal /\ Spec => ImplementsAuditTrail
<1> SUFFICES ASSUME FsyncLog, ResealedFromWal
             PROVE  Spec => ImplementsAuditTrail
  OBVIOUS
<1>1. Init => Trail!TrailInit
  BY DEF Init, Wal!StoreInit, Trail!TrailInit, Logged, Covered
<1>2. TypeInv /\ DurableInv /\ WalInv /\ [Next]_vars => [Trail!TrailNext]_(Trail!trailVars)
  BY TrailStep
<1>3. TypeInv /\ DurableInv /\ WalInv /\ PromisedKept /\ [Next]_vars
        => (TypeInv /\ DurableInv /\ WalInv /\ PromisedKept)'
  BY DurabilityStep
<1>4. QED
  BY <1>1, <1>2, <1>3, DurabilityInit, PTL DEF Spec, ImplementsAuditTrail, Trail!TrailSpec
=============================================================================
