----------------------- MODULE AuditExporterCoverage ------------------------
(***************************************************************************)
(* Theorems about what AuditExporter never forgets: a poisoned log is not  *)
(* written again, every tip the accumulator holds is in the WAL as well,   *)
(* and no chain of the log drops out of checkpoint coverage unnoticed.     *)
(* Then about one run of the process that nothing interrupts: no span is   *)
(* logged twice, no chain covered more often than logged, and a shutdown   *)
(* that meets no failure leaves nothing behind.                            *)
(***************************************************************************)
EXTENDS AuditExporterProofs

-----------------------------------------------------------------------------
(* The poisoned log.                                                       *)

(* sealTrace looks at logPoisoned before it writes, and returns as soon as *)
(* it has set it.                                                          *)
WritesUnpoisoned == step \in {"write", "sync"} => ~logPoisoned

LEMMA WritesUnpoisonedStep ==
  ASSUME TypeInv, WritesUnpoisoned, [Next]_vars
  PROVE  WritesUnpoisoned'
<1> USE DEF WritesUnpoisoned
<1>1. CASE UNCHANGED vars \/ Idle
  BY <1>1 DEF vars, memVars, lockVars, Idle
<1>2. ASSUME NEW t \in Traces, NEW s \in Spans, ConsumeSpan(t, s)
      PROVE  WritesUnpoisoned'
  BY <1>2 DEF ConsumeSpan, LockFree, Acquire, lockVars, TypeInv, LockOK
<1>3. CASE WorkerSweep
  BY <1>3 DEF WorkerSweep, Acquire, memVars
<1>4. CASE SealStep
  <2>1. ASSUME NEW t \in Traces, BeginSeal(t)
        PROVE  WritesUnpoisoned'
    BY <2>1 DEF BeginSeal, FirstStep
  <2>2. CASE WriteLog \/ SyncLog \/ AddTip
    BY <2>2 DEF WriteLog, AfterWrite, SyncLog, AddTip, memVars
  <2>3. CASE WriteLogFails \/ SyncLogFails \/ MarkSealed \/ QuarantineTrace
    BY <2>3 DEF WriteLogFails, SyncLogFails, MarkSealed, QuarantineTrace, SealReturns
  <2>4. CASE Checkpointing
    BY <2>4 DEF Checkpointing, SkipCheckpoint, WriteCheckpoint, CommitCheckpoint,
                CheckpointFails, CheckpointPoisons, AfterCheckpoint, LockReleased
  <2>5. QED
    BY <1>4, <2>1, <2>2, <2>3, <2>4 DEF SealStep
<1>5. ASSUME NEW c \in Compactors, Compaction(c)
      PROVE  WritesUnpoisoned'
  BY <1>5 DEF Compaction, TakeSnapshot, CompactWal, ClearGuard, memVars, lockVars
<1>6. CASE ShutdownBegins \/ ShutdownEnds \/ Start
  BY <1>6 DEF ShutdownBegins, ShutdownEnds, Start, lockVars, TypeInv, LockOK
<1>7. CASE Crash \/ PowerLoss \/ Exit
  BY <1>7 DEF Crash, PowerLoss, Exit, LoseMemory
<1>8. QED
  BY <1>1, <1>2, <1>3, <1>4, <1>5, <1>6, <1>7 DEF Next

LEMMA LogWriters ==
  ASSUME [Next]_vars, phase' # "down", log' # log
  PROVE  step \in {"write", "sync"}
<1>1. ~(UNCHANGED vars \/ Idle \/ WorkerSweep \/ ShutdownBegins \/ ShutdownEnds)
  BY DEF vars, logVars, Idle, WorkerSweep, ShutdownBegins, ShutdownEnds
<1>2. ~\E t \in Traces, s \in Spans : ConsumeSpan(t, s)
  BY DEF ConsumeSpan, logVars
<1>3. ~\E c \in Compactors : Compaction(c)
  BY DEF Compaction, TakeSnapshot, CompactWal, ClearGuard, logVars
<1>4. ~(Crash \/ PowerLoss \/ Exit \/ Start)
  BY DEF Crash, PowerLoss, Exit, Start, LoseMemory, logVars
<1>5. SealStep
  BY <1>1, <1>2, <1>3, <1>4 DEF Next
<1>6. QED
  BY <1>5 DEF SealStep, BeginSeal, WriteLog, WriteLogFails, SyncLog, SyncLogFails, AddTip,
       Checkpointing, SkipCheckpoint, WriteCheckpoint, CommitCheckpoint, CheckpointFails,
       CheckpointPoisons, MarkSealed, QuarantineTrace, logVars

(* Whatever fails and however often, the process never writes to a log it  *)
(* has poisoned (logPoisoned, issue #28).                                  *)
THEOREM PoisonedLogStays == Spec => PoisonedLogFrozen
<1>1. Init => WritesUnpoisoned
  BY DEF Init, WritesUnpoisoned
<1>2. TypeInv /\ WritesUnpoisoned /\ [Next]_vars => (TypeInv /\ WritesUnpoisoned)'
  BY TypeStep, WritesUnpoisonedStep
<1>3. WritesUnpoisoned /\ [Next]_vars
        => [logPoisoned /\ phase' # "down" => UNCHANGED log]_vars
  BY LogWriters DEF WritesUnpoisoned
<1>4. QED
  BY <1>1, <1>2, <1>3, TypeInit, PTL DEF Spec, PoisonedLogFrozen

-----------------------------------------------------------------------------
(* The compaction goroutines.                                              *)

(* While a trace is sealed no compaction has yet to read the pending tips  *)
(* or to use them (~Overlap): what one has read is still all there is.     *)
(* Finding exporter_stale_tips is the counterexample without it.           *)
Compacting == \E c \in Compactors : goroutines[c].at \in {"snapshot", "compact"}

SnapshotFresh ==
  /\ cur # NoTip => ~Compacting
  /\ \A c \in Compactors : goroutines[c].at = "compact" => ToSet(pending) \subseteq goroutines[c].tips
  /\ phase = "down" => ~Compacting

(* Only sealTrace and the checkpoint touch the pending tips of a process   *)
(* that runs, and no goroutine is under way then.                          *)
LEMMA SealStepRuns ==
  ASSUME TypeInv, SealStep
  PROVE  phase' = phase /\ phase # "down"
<1>1. step # "idle"
  BY DEF SealStep, BeginSeal, WriteLog, WriteLogFails, SyncLog, SyncLogFails, AddTip,
       Checkpointing, SkipCheckpoint, WriteCheckpoint, CommitCheckpoint, CheckpointFails,
       CheckpointPoisons, CheckpointDue, MarkSealed, QuarantineTrace
<1>2. phase' = phase
  BY DEF SealStep, BeginSeal, WriteLog, WriteLogFails, SyncLog, SyncLogFails, AddTip,
       Checkpointing, SkipCheckpoint, WriteCheckpoint, CommitCheckpoint, CheckpointFails,
       CheckpointPoisons, MarkSealed, QuarantineTrace, memVars
<1>3. QED
  BY <1>1, <1>2 DEF TypeInv, LockOK

LEMMA FreshSealStep ==
  ASSUME ~Overlap, TypeInv, CurInv, SnapshotFresh, SealStep
  PROVE  SnapshotFresh'
<1> USE DEF SnapshotFresh
<1>0. phase' = phase /\ phase # "down"
  BY SealStepRuns
<1>1. ASSUME NEW t \in Traces, BeginSeal(t)
      PROVE  SnapshotFresh'
  <2>1. UNCHANGED <<pending, goroutines>>
    BY <1>1 DEF BeginSeal
  <2>2. ~Compacting'
    BY <1>1, <2>1 DEF BeginSeal, QuietEnough, Compacting
  <2>3. QED
    BY <1>0, <2>1, <2>2 DEF ToSet
<1>2. CASE WriteLog \/ SyncLog \/ WriteLogFails \/ SyncLogFails
  <2>1. UNCHANGED <<pending, goroutines>> /\ cur # NoTip
    BY <1>2 DEF WriteLog, SyncLog, WriteLogFails, SyncLogFails, memVars, CurInv
  <2>2. QED
    BY <1>0, <2>1 DEF Compacting, ToSet
<1>3. CASE AddTip
  <2>1. goroutines' = goroutines /\ cur # NoTip
    BY <1>3 DEF AddTip, CurInv
  <2>2. QED
    BY <1>0, <2>1 DEF Compacting
<1>4. CASE Checkpointing
  <2>1. UNCHANGED <<goroutines, cur>> /\ (pending' = pending \/ pending' = <<>>)
    BY <1>4 DEF Checkpointing, SkipCheckpoint, WriteCheckpoint, CommitCheckpoint, LeftPending,
                CheckpointFails, CheckpointPoisons, AfterCheckpoint, memVars
  <2>2. ToSet(pending') \subseteq ToSet(pending)
    BY <2>1 DEF ToSet
  <2>3. QED
    BY <1>0, <2>1, <2>2 DEF Compacting, ToSet
<1>5. CASE MarkSealed \/ QuarantineTrace
  <2>1. Spawn /\ pending' = pending /\ cur' = NoTip
    BY <1>5 DEF MarkSealed, QuarantineTrace, SealReturns, memVars
  <2>2. \A c \in Compactors :
          goroutines'[c].at = "compact" => ToSet(pending') \subseteq goroutines'[c].tips
    BY <2>1 DEF Spawn, TypeInv, DataOK, ToSet
  <2>3. QED
    BY <1>0, <2>1, <2>2 DEF ToSet
<1>6. QED
  BY <1>1, <1>2, <1>3, <1>4, <1>5 DEF SealStep

LEMMA FreshCompaction ==
  ASSUME TypeInv, SnapshotFresh, NEW c \in Compactors, Compaction(c)
  PROVE  SnapshotFresh'
<1> USE DEF SnapshotFresh
<1>1. UNCHANGED <<phase, pending, cur>> /\ goroutines \in [Compactors -> Goroutine]
  BY DEF Compaction, TakeSnapshot, CompactWal, ClearGuard, memVars, lockVars, TypeInv, DataOK
<1>2. CASE TakeSnapshot(c)
  BY <1>1, <1>2 DEF TakeSnapshot, Compacting, ToSet
<1>3. CASE CompactWal(c) \/ ClearGuard(c)
  <2>1. \A d \in Compactors : goroutines'[d] = goroutines[d] \/ goroutines'[d].at \in {"none", "clear"}
    BY <1>1, <1>3 DEF CompactWal, ClearGuard, NoGoroutine
  <2>2. QED
    BY <1>1, <2>1 DEF Compacting, ToSet
<1>4. QED
  BY <1>2, <1>3 DEF Compaction

LEMMA FreshInit == Init => SnapshotFresh
BY DEF Init, SnapshotFresh, Compacting, NoGoroutine

LEMMA FreshStep ==
  ASSUME ~Overlap, TypeInv, CurInv, SnapshotFresh, [Next]_vars
  PROVE  SnapshotFresh'
<1> USE DEF SnapshotFresh
<1>1. CASE UNCHANGED vars \/ Idle
  BY <1>1 DEF vars, memVars, lockVars, Idle, Compacting, ToSet
<1>2. CASE (\E t \in Traces, s \in Spans : ConsumeSpan(t, s)) \/ WorkerSweep \/ ShutdownBegins
  <2>1. LockFree
    BY <1>2 DEF ConsumeSpan, WorkerSweep, ShutdownBegins
  <2>2. cur = NoTip
    BY <2>1 DEF LockFree, TypeInv, LockOK, CurInv
  <2>3. cur' = NoTip /\ phase' # "down" /\ UNCHANGED <<pending, goroutines>>
    BY <1>2, <2>1, <2>2 DEF ConsumeSpan, WorkerSweep, ShutdownBegins, Acquire, LockFree, memVars,
                            lockVars
  <2>4. QED
    BY <2>3 DEF ToSet
<1>3. CASE ShutdownEnds
  BY <1>3 DEF ShutdownEnds, lockVars, Compacting, ToSet
<1>4. CASE Crash \/ PowerLoss \/ Exit
  BY <1>4 DEF Crash, PowerLoss, Exit, LoseMemory, Compacting, NoGoroutine
<1>5. CASE Start
  <2>1. phase = "down" /\ phase' = "running" /\ goroutines' = goroutines
    BY <1>5 DEF Start
  <2>2. ~Compacting /\ ~Compacting'
    BY <2>1 DEF Compacting
  <2>3. QED
    BY <2>1, <2>2 DEF Compacting
<1>6. QED
  BY <1>1, <1>2, <1>3, <1>4, <1>5, FreshSealStep, FreshCompaction DEF Next

(* Compacting the WAL keeps every tip that the caller counts as pending.   *)
LEMMA CompactKeeps ==
  ASSUME TypeInv, NEW tips, CompactStore(tips)
  PROVE  ToSet(walOwed) \cap tips \subseteq ToSet(walOwed')
<1>1. PICK n \in 0 .. Len(walOwed) :
        \E at \in Wal!Ascending(n, {i \in DOMAIN walOwed : walOwed[i] \in tips}) :
          walOwed' = [j \in 1 .. n |-> walOwed[at[j]]]
  BY DEF CompactStore, Wal!StoreCompact
<1>2. PICK at \in Wal!Ascending(n, {i \in DOMAIN walOwed : walOwed[i] \in tips}) :
        walOwed' = [j \in 1 .. n |-> walOwed[at[j]]]
  BY <1>1
<1>3. ASSUME NEW i \in DOMAIN walOwed, walOwed[i] \in tips
      PROVE  \E j \in DOMAIN walOwed' : walOwed'[j] = walOwed[i]
  <2>1. PICK j \in 1 .. n : at[j] = i
    BY <1>2, <1>3 DEF Wal!Ascending
  <2>2. QED
    BY <1>2, <2>1
<1>4. QED
  BY <1>3 DEF ToSet

(* Whoever compacts the WAL knows every pending tip, or, at a start, every *)
(* tip the WAL holds; nothing else happens to the WAL in that step.        *)
LEMMA WalCompactions ==
  ASSUME TypeInv, CurInv, SnapshotFresh,
         \/ \E c \in Compactors : Compaction(c)
         \/ ShutdownEnds
         \/ Start
  PROVE  /\ UNCHANGED <<walOpen, walMissed, log, quarantine, checkpoints, abandoned, cur, step>>
         /\ ToSet(walOwed') \subseteq ToSet(walOwed)
         /\ ToSet(walOwed) \cap Waiting \subseteq ToSet(walOwed')
<1>1. PICK tips : /\ CompactStore(tips) \/ UNCHANGED walVars
                  /\ UNCHANGED walVars \/ Waiting \subseteq tips
  <2>1. CASE Start
    BY <2>1 DEF Start, TipsRestored, Waiting
  <2>2. CASE ShutdownEnds
    BY <2>2 DEF ShutdownEnds, Waiting
  <2>3. ASSUME NEW c \in Compactors, CompactWal(c)
        PROVE  \E tips : /\ CompactStore(tips) \/ UNCHANGED walVars
                         /\ UNCHANGED walVars \/ Waiting \subseteq tips
    <3>1. goroutines[c].at = "compact" /\ phase # "down"
      BY <2>3 DEF CompactWal, SnapshotFresh, Compacting
    <3>2. Waiting \subseteq goroutines[c].tips
      BY <3>1 DEF SnapshotFresh, Waiting
    <3>3. QED
      BY <2>3, <3>2 DEF CompactWal
  <2>4. QED
    BY <2>1, <2>2, <2>3 DEF Compaction, TakeSnapshot, ClearGuard
<1>2. UNCHANGED <<log, quarantine, checkpoints, abandoned, cur, step>>
  BY DEF Compaction, TakeSnapshot, CompactWal, ClearGuard, ShutdownEnds, Start, logVars, lockVars
<1>3. CASE UNCHANGED walVars
  BY <1>2, <1>3 DEF walVars, ToSet
<1>4. CASE CompactStore(tips) /\ Waiting \subseteq tips
  <2>1. walOpen' = walOpen /\ walMissed' = walMissed
    BY <1>4, TypeCompactStore
  <2>2. ToSet(walOwed') \subseteq ToSet(walOwed)
    BY <1>4, CompactedTipsOwed
  <2>3. QED
    BY <1>2, <1>4, <2>1, <2>2, CompactKeeps
<1>5. QED
  BY <1>1, <1>3, <1>4

-----------------------------------------------------------------------------
(* What the WAL has of a buffer.                                           *)

(* What is buffered, and the chain at hand, has all the records the WAL    *)
(* has in progress for the trace, and what it has besides the WAL missed.  *)
Backed(t, recs) ==
  walOpen[t] \subseteq recs /\ \A s \in recs : s \in walOpen[t] \/ <<t, s>> \in walMissed

BuffersInWal == \A t \in Traces : buffers[t] # {} => Backed(t, buffers[t])
CurInWal == cur # NoTip => Backed(cur.trace, cur.hash)
InWal == BuffersInWal /\ CurInWal

LEMMA InWalFrame ==
  ASSUME InWal, UNCHANGED <<buffers, walOpen, walMissed>>, cur' \in {cur, NoTip}
  PROVE  InWal'
BY DEF InWal, BuffersInWal, CurInWal, Backed

(* An append that fails leaves a record the WAL misses.                    *)
LEMMA Appended ==
  ASSUME TypeInv, NEW t \in Traces, NEW s \in Spans, ConsumeSpan(t, s)
  PROVE  /\ buffers' = [buffers EXCEPT ![t] = @ \cup {s}]
         /\ walMissed \subseteq walMissed' /\ walOwed' = walOwed
         /\ \A u \in Traces : walOpen[u] \subseteq walOpen'[u]
         /\ \A u \in Traces : u # t => walOpen'[u] = walOpen[u] /\ buffers'[u] = buffers[u]
         /\ walOpen'[t] \subseteq walOpen[t] \cup {s}
         /\ s \in walOpen'[t] \/ <<t, s>> \in walMissed'
<1>1. \/ Wal!StoreAppend(t, s) /\ walMissed' = walMissed
      \/ /\ UNCHANGED <<walOpen, walOwed>>
         /\ \/ s \in walOpen[t] /\ walMissed' = walMissed
            \/ walMissed' = walMissed \cup {<<t, s>>}
  BY DEF ConsumeSpan
<1>2. \/ walOpen' = [walOpen EXCEPT ![t] = @ \cup {s}] /\ walMissed' = walMissed /\ walOwed' = walOwed
      \/ /\ UNCHANGED <<walOpen, walOwed>>
         /\ \/ s \in walOpen[t] /\ walMissed' = walMissed
            \/ walMissed' = walMissed \cup {<<t, s>>}
  BY <1>1 DEF Wal!StoreAppend
<1>3. buffers' = [buffers EXCEPT ![t] = @ \cup {s}]
  BY DEF ConsumeSpan
<1>4. QED
  BY <1>2, <1>3 DEF TypeInv, DataOK

LEMMA InWalConsume ==
  ASSUME ~LateSpans, TypeInv, CurInv, InWal, NEW t \in Traces, NEW s \in Spans, ConsumeSpan(t, s)
  PROVE  InWal'
<1> USE DEF InWal
<1>0. /\ buffers' = [buffers EXCEPT ![t] = @ \cup {s}]
      /\ walMissed \subseteq walMissed' /\ walOwed' = walOwed
      /\ \A u \in Traces : walOpen[u] \subseteq walOpen'[u]
      /\ \A u \in Traces : u # t => walOpen'[u] = walOpen[u] /\ buffers'[u] = buffers[u]
      /\ walOpen'[t] \subseteq walOpen[t] \cup {s}
      /\ s \in walOpen'[t] \/ <<t, s>> \in walMissed'
  BY Appended
<1>1. walOpen[t] \subseteq buffers[t] /\ cur' = NoTip
  BY DEF ConsumeSpan, Acquire, LockFree, TypeInv, LockOK, CurInv, lockVars
<1>2. ASSUME NEW u \in Traces, buffers'[u] # {}
      PROVE  Backed(u, buffers[u])'
  <2>1. CASE u # t
    BY <1>0, <1>2, <2>1 DEF BuffersInWal, Backed
  <2>2. CASE u = t
    <3>1. \A x \in buffers[t] : x \in walOpen[t] \/ <<t, x>> \in walMissed
      BY DEF BuffersInWal, Backed
    <3>2. buffers'[t] = buffers[t] \cup {s}
      BY <1>0 DEF TypeInv, DataOK
    <3>3. QED
      BY <1>0, <1>1, <2>2, <3>1, <3>2 DEF Backed
  <2>3. QED
    BY <2>1, <2>2
<1>3. QED
  BY <1>1, <1>2 DEF BuffersInWal, CurInWal

LEMMA InWalBeginSeal ==
  ASSUME TypeInv, CurInv, InWal, NEW t \in Traces, BeginSeal(t)
  PROVE  InWal'
<1>1. /\ UNCHANGED <<walOpen, walMissed>> /\ buffers[t] # {}
      /\ buffers' = [buffers EXCEPT ![t] = {}] /\ cur' = Chain(t, buffers[t])
  BY DEF BeginSeal, BufferDropped, walVars, CurInv
<1>2. QED
  BY <1>1 DEF InWal, BuffersInWal, CurInWal, Backed, TypeInv, DataOK, Chain

(* A marker, or none: the WAL lets go of the chain at hand or of nothing.  *)
LEMMA Marked ==
  ASSUME TypeInv, CurInv, MarkSealed \/ QuarantineTrace
  PROVE  /\ UNCHANGED <<phase, buffers, walMissed, pending, log, checkpoints, abandoned>>
         /\ cur \in Tip /\ cur # NoTip /\ cur' = NoTip /\ buffers[cur.trace] = {}
         /\ step' \in {"next", "final", "idle"} /\ phase # "down"
         /\ \/ UNCHANGED <<walOpen, walOwed>>
            \/ walOpen' = [walOpen EXCEPT ![cur.trace] = {}]
<1>1. /\ cur \in Tip /\ cur # NoTip /\ phase # "down"
      /\ UNCHANGED walVars \/ \E tips : MarkWal(cur.trace, tips)
  BY DEF MarkSealed, QuarantineTrace, TypeInv, LockOK, CurInv
<1>2. /\ UNCHANGED <<walMissed>>
      /\ UNCHANGED <<walOpen, walOwed>> \/ walOpen' = [walOpen EXCEPT ![cur.trace] = {}]
  BY <1>1 DEF MarkWal, Wal!StoreSeal, walVars
<1>3. /\ UNCHANGED <<phase, buffers, pending, log, checkpoints, abandoned>>
      /\ cur' = NoTip /\ step' \in {"next", "final", "idle"}
  BY DEF MarkSealed, QuarantineTrace, SealReturns, memVars, logVars
<1>4. QED
  BY <1>1, <1>2, <1>3 DEF CurInv

LEMMA InWalMarks ==
  ASSUME TypeInv, CurInv, InWal, MarkSealed \/ QuarantineTrace
  PROVE  InWal'
<1>1. \A t \in Traces : t # cur.trace => walOpen'[t] = walOpen[t]
  BY Marked DEF TypeInv, DataOK, Tip
<1>2. ASSUME NEW t \in Traces, buffers'[t] # {}
      PROVE  Backed(t, buffers[t])'
  BY Marked, <1>1, <1>2 DEF InWal, BuffersInWal, Backed
<1>3. QED
  BY Marked, <1>2 DEF InWal, BuffersInWal, CurInWal

LEMMA InWalInit == Init => InWal
BY DEF Init, InWal, BuffersInWal, CurInWal

LEMMA InWalStep ==
  ASSUME ~LateSpans, TypeInv, CurInv, SnapshotFresh, InWal, [Next]_vars
  PROVE  InWal'
<1>1. CASE UNCHANGED vars \/ Idle \/ WorkerSweep \/ ShutdownBegins
  BY <1>1, InWalFrame DEF vars, memVars, lockVars, walVars, Idle, WorkerSweep, Acquire,
                          ShutdownBegins
<1>2. CASE SealStep
  <2>1. CASE WriteLog \/ WriteLogFails \/ SyncLog \/ SyncLogFails \/ AddTip
    BY <2>1, InWalFrame DEF WriteLog, WriteLogFails, SyncLog, SyncLogFails, AddTip, SealReturns,
                            memVars, walVars
  <2>2. CASE Checkpointing
    BY <2>2, InWalFrame DEF Checkpointing, SkipCheckpoint, WriteCheckpoint, CommitCheckpoint,
         CheckpointFails, CheckpointPoisons, AfterCheckpoint, memVars, walVars
  <2>3. QED
    BY <1>2, <2>1, <2>2, InWalBeginSeal, InWalMarks DEF SealStep
<1>3. CASE (\E c \in Compactors : Compaction(c)) \/ ShutdownEnds
  <2>1. buffers' = buffers
    BY <1>3 DEF Compaction, TakeSnapshot, CompactWal, ClearGuard, ShutdownEnds, memVars
  <2>2. QED
    BY <1>3, <2>1, WalCompactions, InWalFrame
<1>4. CASE Crash \/ PowerLoss \/ Exit
  BY <1>4 DEF Crash, PowerLoss, Exit, LoseMemory, InWal, BuffersInWal, CurInWal
<1>5. CASE Start
  <2>1. UNCHANGED <<walOpen, walMissed, cur>> /\ buffers' = walOpen /\ cur = NoTip
    BY <1>5, WalCompactions DEF Start, Rehydrated, CurInv, TypeInv, LockOK
  <2>2. QED
    BY <2>1 DEF InWal, BuffersInWal, CurInWal, Backed
<1>6. QED
  BY <1>1, <1>2, <1>3, <1>4, <1>5, InWalConsume DEF Next

-----------------------------------------------------------------------------
(* Pending tips and the WAL.                                               *)

LEMMA AppendedTip ==
  ASSUME NEW S, NEW s \in Seq(S), NEW x \in S
  PROVE  ToSet(Append(s, x)) = ToSet(s) \cup {x}
<1>1. /\ DOMAIN Append(s, x) = (DOMAIN s) \cup {Len(s) + 1}
      /\ \A i \in DOMAIN s : Append(s, x)[i] = s[i]
      /\ Append(s, x)[Len(s) + 1] = x
  OBVIOUS
<1>2. QED
  BY <1>1 DEF ToSet

LEMMA NothingAppended ==
  ASSUME NEW S, NEW s \in Seq(S)
  PROVE  s \o <<>> = s
OBVIOUS

LEMMA TrimmedKeeps ==
  ASSUME NEW tips \in Seq(Tip)
  PROVE  /\ ToSet(Trimmed(tips)) \subseteq ToSet(tips)
         /\ ToSet(tips) \subseteq
              ToSet(Trimmed(tips)) \cup {tips[i] : i \in 1 .. Len(tips) - Len(Trimmed(tips))}
<1> USE ExporterAssumption
<1>1. ToSet(Trimmed(tips)) \subseteq ToSet(tips)
  BY TrimmedTips DEF ToSet
<1>2. CASE Len(tips) <= MaxPendingTips
  BY <1>1, <1>2 DEF Trimmed, ToSet
<1>3. CASE Len(tips) > MaxPendingTips
  <2> DEFINE gone == Len(tips) - MaxPendingTips
             cut == SubSeq(tips, gone + 1, Len(tips))
  <2>1. Trimmed(tips) = cut /\ gone \in 1 .. Len(tips)
    BY <1>3 DEF Trimmed
  <2>2. cut \in Seq(Tip) /\ Len(cut) = MaxPendingTips /\ gone = Len(tips) - Len(cut)
    BY <1>3, <2>1
  <2>3. \A j \in 1 .. Len(cut) : cut[j] = tips[gone + j]
    BY <1>3, <2>1, <2>2
  <2>4. ASSUME NEW i \in DOMAIN tips, i > gone
        PROVE  tips[i] \in ToSet(cut)
    <3>1. i - gone \in 1 .. Len(cut)
      BY <2>1, <2>2, <2>4
    <3>2. cut[i - gone] = tips[i] /\ i - gone \in DOMAIN cut
      BY <2>1, <2>2, <2>3, <2>4, <3>1
    <3>3. QED
      BY <3>2 DEF ToSet
  <2>5. \A i \in DOMAIN tips : i > gone \/ i \in 1 .. gone
    BY <2>1
  <2> HIDE DEF cut, gone
  <2>6. QED
    BY <1>1, <2>1, <2>2, <2>4, <2>5 DEF ToSet
<1>4. QED
  BY <1>2, <1>3

(* The tip that is pending before the marker that carries it is written.   *)
TipAtHand ==
  IF cur # NoTip /\ step \in {"checkpoint", "commit", "mark"} THEN {cur} ELSE {}

(* A tip whose marker could not be written: its records are in the WAL for *)
(* the next start, and its trace stays closed until then.                  *)
Unmarked(k) ==
  /\ WalSafe(k) \subseteq walOpen[k.trace]
  /\ \/ WalSafe(k) = {}
     \/ buffers[k.trace] = {} /\ (cur # NoTip => cur.trace # k.trace)

PendingOwed ==
  phase # "down" =>
    \A k \in ToSet(pending) : k \in ToSet(walOwed) \cup TipAtHand \/ Unmarked(k)

LEMMA PendingTips ==
  ASSUME TypeInv
  PROVE  \A k \in ToSet(pending) : k \in Tip /\ k.trace \in Traces
<1>1. pending \in Seq(Tip)
  BY DEF TypeInv, DataOK
<1>2. \A i \in DOMAIN pending : pending[i] \in Tip
  BY <1>1
<1>3. QED
  BY <1>2 DEF ToSet, Tip

LEMMA PendingFrame ==
  ASSUME PendingOwed, UNCHANGED <<phase, buffers, pending, walOpen, walMissed, walOwed>>,
         cur' \in {cur, NoTip}, TipAtHand \subseteq TipAtHand'
  PROVE  PendingOwed'
BY DEF PendingOwed, Unmarked, WalSafe, ToSet

LEMMA PendingConsume ==
  ASSUME ~LateSpans, TypeInv, CurInv, PendingOwed,
         NEW t \in Traces, NEW s \in Spans, ConsumeSpan(t, s)
  PROVE  PendingOwed'
<1>0. /\ buffers' = [buffers EXCEPT ![t] = @ \cup {s}]
      /\ walMissed \subseteq walMissed' /\ walOwed' = walOwed
      /\ \A u \in Traces : walOpen[u] \subseteq walOpen'[u]
      /\ \A u \in Traces : u # t => walOpen'[u] = walOpen[u] /\ buffers'[u] = buffers[u]
      /\ walOpen'[t] \subseteq walOpen[t] \cup {s}
      /\ s \in walOpen'[t] \/ <<t, s>> \in walMissed'
  BY Appended
<1>1. /\ UNCHANGED <<phase, pending>> /\ phase = "running" /\ cur = NoTip /\ cur' = NoTip
      /\ walOpen[t] \subseteq buffers[t]
  BY DEF ConsumeSpan, Acquire, LockFree, TypeInv, LockOK, CurInv, lockVars
<1>2. ToSet(pending') = ToSet(pending) /\ ToSet(walOwed') = ToSet(walOwed) /\ TipAtHand = {}
  BY <1>0, <1>1 DEF ToSet, TipAtHand
<1>3. ASSUME NEW k \in ToSet(pending), Unmarked(k)
      PROVE  Unmarked(k)'
  <2>1. k.trace \in Traces
    BY PendingTips
  <2>2. WalSafe(k)' \subseteq WalSafe(k) /\ WalSafe(k) \subseteq walOpen[k.trace]
    BY <1>0, <1>3 DEF WalSafe, Unmarked
  <2>3. WalSafe(k) = {} \/ k.trace # t
    BY <1>1, <1>3 DEF Unmarked
  <2>4. QED
    BY <1>0, <1>1, <1>3, <2>1, <2>2, <2>3 DEF Unmarked
<1>4. QED
  BY <1>1, <1>2, <1>3 DEF PendingOwed

LEMMA PendingSealStep ==
  ASSUME TypeInv, CurInv, InWal, PendingOwed, SealStep
  PROVE  PendingOwed'
<1> USE DEF PendingOwed
<1>0. phase' = phase /\ phase # "down"
  BY SealStepRuns
<1>1. ASSUME NEW t \in Traces, BeginSeal(t)
      PROVE  PendingOwed'
  <2>1. /\ UNCHANGED <<pending, walOpen, walMissed, walOwed>> /\ cur = NoTip
        /\ buffers' = [buffers EXCEPT ![t] = {}] /\ buffers[t] # {} /\ cur'.trace = t
    BY <1>1 DEF BeginSeal, BufferDropped, Chain, walVars, CurInv
  <2>2. ASSUME NEW k \in ToSet(pending), Unmarked(k)
        PROVE  Unmarked(k)'
    <3>1. WalSafe(k)' = WalSafe(k) /\ k.trace \in Traces
      BY <2>1, PendingTips DEF WalSafe
    <3>2. QED
      BY <2>1, <2>2, <3>1 DEF Unmarked, TypeInv, DataOK
  <2>3. ToSet(pending') = ToSet(pending) /\ ToSet(walOwed') = ToSet(walOwed) /\ TipAtHand = {}
    BY <2>1 DEF ToSet, TipAtHand
  <2>4. QED
    BY <1>0, <2>2, <2>3
<1>2. CASE WriteLog \/ SyncLog \/ WriteLogFails \/ SyncLogFails
  <2>1. /\ UNCHANGED <<phase, buffers, pending, walOpen, walMissed, walOwed>>
        /\ cur' \in {cur, NoTip} /\ step \in {"write", "sync"}
    BY <1>2 DEF WriteLog, SyncLog, WriteLogFails, SyncLogFails, SealReturns, memVars, walVars
  <2>2. TipAtHand = {}
    BY <2>1 DEF TipAtHand
  <2>3. QED
    BY <2>1, <2>2, PendingFrame
<1>3. CASE AddTip
  <2> DEFINE all == Append(pending, cur)
  <2>1. /\ cur \in Tip /\ cur # NoTip /\ step = "tip" /\ step' = "checkpoint" /\ cur' = cur
        /\ UNCHANGED <<buffers, walOpen, walMissed, walOwed>> /\ pending \in Seq(Tip)
        /\ pending' = pending \/ pending' = Trimmed(all)
    BY <1>3 DEF AddTip, CurInv, TypeInv, LockOK, DataOK, walVars
  <2>2. all \in Seq(Tip) /\ ToSet(all) = ToSet(pending) \cup {cur}
    BY <2>1, AppendedTip
  <2> HIDE DEF all
  <2>3. ToSet(pending') \subseteq ToSet(pending) \cup {cur}
    BY <2>1, <2>2, TrimmedKeeps DEF ToSet
  <2>4. TipAtHand = {} /\ TipAtHand' = {cur} /\ ToSet(walOwed') = ToSet(walOwed)
    BY <2>1 DEF TipAtHand, ToSet
  <2>5. ASSUME NEW k \in Tip, Unmarked(k)
        PROVE  Unmarked(k)'
    BY <2>1, <2>5 DEF Unmarked, WalSafe
  <2>6. QED
    BY <1>0, <2>3, <2>4, <2>5, PendingTips
<1>4. CASE SkipCheckpoint \/ CheckpointFails \/ WriteCheckpoint
  <2>1. UNCHANGED <<phase, buffers, pending, walOpen, walMissed, walOwed, cur>>
    BY <1>4 DEF SkipCheckpoint, CheckpointFails, WriteCheckpoint, AfterCheckpoint, memVars, walVars
  <2>2. cur # NoTip => step' \in {"commit", "mark"}
    BY <1>4 DEF SkipCheckpoint, CheckpointFails, WriteCheckpoint, AfterCheckpoint
  <2>3. QED
    BY <2>1, <2>2, PendingFrame DEF TipAtHand
<1>5. CASE CommitCheckpoint \/ CheckpointPoisons
  <2>1. pending' = <<>>
    BY <1>5 DEF CommitCheckpoint, LeftPending, CheckpointPoisons
  <2>2. QED
    BY <2>1 DEF ToSet
<1>6. CASE MarkSealed \/ QuarantineTrace
  <2>1. ToSet(pending') = ToSet(pending)
    BY <1>6, Marked DEF ToSet
  <2>2. cur.trace \in Traces /\ ToSet(walOwed) \subseteq ToSet(walOwed')
    <3>1. /\ walOwed \in Seq(Tip) /\ cur \in Tip
          /\ \/ walOwed' = walOwed
             \/ walOwed' = walOwed \o <<>>
             \/ walOwed' = walOwed \o <<cur>>
      BY <1>6, Marked DEF MarkSealed, SealedMarkerTip, QuarantineTrace, MarkWal, Wal!StoreSeal,
                          walVars, TypeInv, DataOK
    <3>2. walOwed' = walOwed \/ walOwed' = Append(walOwed, cur)
      BY <3>1, NothingAppended
    <3>3. QED
      BY <3>1, <3>2, AppendedTip DEF ToSet, Tip
  <2>3. ASSUME NEW k \in ToSet(pending), Unmarked(k)
        PROVE  Unmarked(k)'
    <3>1. k.trace \in Traces /\ WalSafe(k)' = WalSafe(k)
      BY <1>6, PendingTips, Marked DEF WalSafe
    <3>2. k.trace # cur.trace => walOpen'[k.trace] = walOpen[k.trace]
      BY <1>6, <2>2, <3>1, Marked DEF TypeInv, DataOK
    <3>3. QED
      BY <1>6, <2>3, <3>1, <3>2, Marked DEF Unmarked
  <2>4. ASSUME NEW k \in ToSet(pending), k \in TipAtHand
        PROVE  k \in ToSet(walOwed') \/ Unmarked(k)'
    <3>1. k = cur /\ MarkSealed
      BY <1>6, <2>4 DEF TipAtHand, QuarantineTrace
    <3>2. CASE MarkWal(cur.trace, SealedMarkerTip)
      <4>1. walOwed \in Seq(Tip) /\ cur \in Tip /\ walOwed' = Append(walOwed, cur)
        BY <1>6, <2>4, <3>1, <3>2, Marked DEF MarkWal, Wal!StoreSeal, SealedMarkerTip, TypeInv, DataOK
      <4>2. QED
        BY <3>1, <4>1, AppendedTip
    <3>3. CASE UNCHANGED walVars
      <4>1. UNCHANGED <<walOpen, walMissed, buffers>> /\ cur' = NoTip /\ buffers[cur.trace] = {}
            /\ cur # NoTip
        BY <1>6, <3>3, Marked DEF walVars
      <4>2. \A s \in k.hash : s \in walOpen[k.trace] \/ <<k.trace, s>> \in walMissed
        BY <3>1, <4>1 DEF InWal, CurInWal, Backed
      <4>3. QED
        BY <3>1, <4>1, <4>2 DEF Unmarked, WalSafe
    <3>4. QED
      BY <3>1, <3>2, <3>3 DEF MarkSealed
  <2>5. QED
    BY <1>0, <2>1, <2>2, <2>3, <2>4 DEF TipAtHand
<1>7. QED
  BY <1>1, <1>2, <1>3, <1>4, <1>5, <1>6 DEF SealStep, Checkpointing

LEMMA PendingCompaction ==
  ASSUME TypeInv, CurInv, SnapshotFresh, PendingOwed,
         (\E c \in Compactors : Compaction(c)) \/ ShutdownEnds
  PROVE  PendingOwed'
<1>1. /\ UNCHANGED <<buffers, pending>> /\ (phase' = "down" <=> phase = "down")
      /\ UNCHANGED <<walOpen, walMissed, cur, step>>
      /\ ToSet(walOwed) \cap Waiting \subseteq ToSet(walOwed')
  BY WalCompactions DEF Compaction, TakeSnapshot, CompactWal, ClearGuard, ShutdownEnds, memVars
<1>2. TipAtHand' = TipAtHand /\ ToSet(pending') = ToSet(pending)
  BY <1>1 DEF TipAtHand, ToSet
<1>3. \A k : Unmarked(k) => Unmarked(k)'
  BY <1>1 DEF Unmarked, WalSafe
<1>4. QED
  BY <1>1, <1>2, <1>3 DEF PendingOwed, Waiting

LEMMA PendingStep ==
  ASSUME ~LateSpans, TypeInv, CurInv, SnapshotFresh, InWal, PendingOwed, [Next]_vars
  PROVE  PendingOwed'
<1>1. CASE UNCHANGED vars \/ Idle \/ WorkerSweep \/ ShutdownBegins
  <2>1. /\ UNCHANGED <<buffers, pending, walOpen, walMissed, walOwed>>
        /\ phase' # "down" => phase # "down"
    BY <1>1 DEF vars, memVars, walVars, Idle, WorkerSweep, ShutdownBegins, LockFree
  <2>2. UNCHANGED <<cur, step>> \/ (cur = NoTip /\ cur' = NoTip)
    BY <1>1 DEF vars, lockVars, Idle, WorkerSweep, Acquire, ShutdownBegins, LockFree, TypeInv,
                LockOK, CurInv
  <2>3. TipAtHand' = TipAtHand /\ cur' = cur
    BY <2>2 DEF TipAtHand
  <2>4. \A k : Unmarked(k) => Unmarked(k)'
    BY <2>1, <2>3 DEF Unmarked, WalSafe
  <2>5. ToSet(pending') = ToSet(pending) /\ ToSet(walOwed') = ToSet(walOwed)
    BY <2>1 DEF ToSet
  <2>6. QED
    BY <2>1, <2>3, <2>4, <2>5 DEF PendingOwed
<1>2. CASE Crash \/ PowerLoss \/ Exit
  BY <1>2 DEF Crash, PowerLoss, Exit, LoseMemory, PendingOwed
<1>3. CASE Start
  <2>1. pending' = walOwed /\ phase = "down"
    BY <1>3 DEF Start, TipsRestored
  <2>2. ToSet(pending') = ToSet(walOwed) /\ Waiting = ToSet(walOwed)
    BY <2>1 DEF ToSet, Waiting
  <2>3. QED
    BY <1>3, <2>2, WalCompactions DEF PendingOwed
<1>4. QED
  BY <1>1, <1>2, <1>3, PendingConsume, PendingSealStep, PendingCompaction DEF Next

LEMMA PendingInit == Init => PendingOwed
BY DEF Init, PendingOwed, ToSet

(* What holds of the WAL, the accumulator and the goroutines together.     *)
StoreInv == TypeInv /\ CurInv /\ SnapshotFresh /\ InWal /\ PendingOwed

LEMMA StoreInvInit == Init => StoreInv
BY TypeInit, CurInit, FreshInit, InWalInit, PendingInit DEF StoreInv

LEMMA StoreInvStep ==
  ASSUME ~Overlap, ~LateSpans, StoreInv, [Next]_vars
  PROVE  StoreInv'
BY TypeStep, CurStep, FreshStep, InWalStep, PendingStep DEF StoreInv

LEMMA OwedPendingInWal == StoreInv => PendingTipsInWal
<1> SUFFICES ASSUME StoreInv, phase # "down", NEW k \in ToSet(pending)
             PROVE  k \in ToSet(walOwed) \/ WalSafe(k) \subseteq walOpen[k.trace]
  BY DEF PendingTipsInWal
<1>1. CASE k \in TipAtHand
  <2>1. k = cur /\ cur # NoTip
    BY <1>1 DEF TipAtHand
  <2>2. QED
    BY <2>1 DEF StoreInv, InWal, CurInWal, Backed, WalSafe
<1>2. QED
  BY <1>1 DEF StoreInv, PendingOwed, Unmarked

(* A crash finds every pending tip, or its records, in the WAL again, for  *)
(* any number of traces, crashes and power losses and whatever fails, as   *)
(* long as no trace is sealed while a compaction goroutine is between      *)
(* PendingTips and Compact, and none whose seal failed gets a late span.   *)
THEOREM PendingTipsSurvive == ~Overlap /\ ~LateSpans /\ Spec => []PendingTipsInWal
<1> SUFFICES ASSUME ~Overlap, ~LateSpans
             PROVE  Spec => []PendingTipsInWal
  OBVIOUS
<1>1. StoreInv /\ [Next]_vars => StoreInv'
  BY StoreInvStep
<1>2. QED
  BY <1>1, StoreInvInit, OwedPendingInWal, PTL DEF Spec

-----------------------------------------------------------------------------
(* Coverage.                                                               *)

TipsKept ==
  /\ cur # NoTip /\ step \in {"checkpoint", "commit", "mark"} => cur \in Settled
  /\ step = "commit" => ToSet(pending) \subseteq Covered

(* The tips that are settled even if the process stops now.  The markers   *)
(* the WAL has not dropped yet are among those settled anyway.             *)
Lasting == Covered \cup abandoned \cup ToSet(walOwed)
OwedSettled == ToSet(walOwed) \subseteq Settled

Kept(k) ==
  \/ WalSafe(k) \subseteq walOpen[k.trace]
  \/ SpansOf(Chain(k.trace, WalSafe(k))) \subseteq quarantine
  \/ \E j \in Lasting : j.trace = k.trace /\ WalSafe(k) \subseteq j.hash

CoverageInv ==
  TipsKept /\ OwedSettled /\ \A i \in DOMAIN log : Kept(log[i])

(* A part of a kept chain is kept.                                         *)
LEMMA PartKept ==
  ASSUME NEW k \in Tip, NEW whole \in Tip, Kept(whole), k.trace = whole.trace,
         k.hash \subseteq whole.hash
  PROVE  Kept(k)
<1>1. WalSafe(k) \subseteq WalSafe(whole)
  BY DEF WalSafe
<1>2. SpansOf(Chain(k.trace, WalSafe(k))) \subseteq SpansOf(Chain(whole.trace, WalSafe(whole)))
  BY <1>1 DEF SpansOf, Chain
<1>3. QED
  BY <1>1, <1>2 DEF Kept

(* As long as nothing leaves the WAL unnoticed, nor the quarantine file or *)
(* the settled tips, the chains of the log stay kept.                      *)
LEMMA ChainStays ==
  ASSUME NEW k \in Tip, Kept(k), walMissed \subseteq walMissed',
         \A s \in walOpen[k.trace] : s \in walOpen'[k.trace] \/ <<k.trace, s>> \in walMissed',
         quarantine \subseteq quarantine', Lasting \subseteq Lasting'
  PROVE  Kept(k)'
<1>1. WalSafe(k)' \subseteq WalSafe(k)
  BY DEF WalSafe
<1>2. WalSafe(k) \subseteq walOpen[k.trace] => WalSafe(k)' \subseteq walOpen'[k.trace]
  BY DEF WalSafe
<1>3. SpansOf(Chain(k.trace, WalSafe(k)')) \subseteq SpansOf(Chain(k.trace, WalSafe(k)))
  BY <1>1 DEF SpansOf, Chain
<1>4. SpansOf(Chain(k.trace, WalSafe(k)))' = SpansOf(Chain(k.trace, WalSafe(k)'))
  BY DEF SpansOf, Chain
<1>5. QED
  BY <1>1, <1>2, <1>3, <1>4 DEF Kept

LEMMA ChainsStay ==
  ASSUME TypeInv, TypeInv', \A i \in DOMAIN log : Kept(log[i]),
         \A k \in Tip : Kept(k) => Kept(k)',
         \A i \in DOMAIN log' :
           (\E j \in DOMAIN log : log'[i] = log[j]) \/ \E k \in Tip : log'[i] = k /\ Kept(k)'
  PROVE  (\A i \in DOMAIN log : Kept(log[i]))'
<1> SUFFICES ASSUME NEW i \in DOMAIN log'
             PROVE  \E k \in Tip : log'[i] = k /\ Kept(k)'
  BY DEF Kept
<1>1. CASE \E j \in DOMAIN log : log'[i] = log[j]
  <2>1. PICK j \in DOMAIN log : log'[i] = log[j]
    BY <1>1
  <2>2. PICK k \in Tip : k = log[j]
    BY DEF TypeInv, DataOK
  <2>3. Kept(k)
    BY <2>2
  <2>4. QED
    BY <2>1, <2>2, <2>3
<1>2. QED
  BY <1>1

LEMMA LastingGrows ==
  ASSUME Covered \subseteq Covered', abandoned \subseteq abandoned', walOwed' = walOwed
  PROVE  Lasting \subseteq Lasting' /\ ToSet(walOwed') = ToSet(walOwed)
<1>1. ToSet(walOwed') = ToSet(walOwed)
  BY DEF ToSet
<1>2. QED
  BY <1>1 DEF Lasting

(* A chain written to the log holds records the WAL still has.             *)
LEMMA CoverageFrame ==
  ASSUME TypeInv, TypeInv', InWal, CoverageInv, UNCHANGED <<walOpen, walMissed, walOwed>>,
         quarantine \subseteq quarantine', Covered \subseteq Covered',
         abandoned \subseteq abandoned', Settled \subseteq Settled', TipsKept',
         \A i \in DOMAIN log' :
           \/ \E j \in DOMAIN log : log'[i] = log[j]
           \/ cur \in Tip /\ log'[i].trace = cur.trace /\ log'[i].hash \subseteq cur.hash
  PROVE  CoverageInv'
<1> USE DEF CoverageInv
<1>1. OwedSettled' /\ Lasting \subseteq Lasting'
  BY LastingGrows DEF OwedSettled
<1>2. \A k \in Tip : Kept(k) => Kept(k)'
  BY <1>1, ChainStays
<1>3. ASSUME NEW i \in DOMAIN log', cur \in Tip, log'[i].trace = cur.trace,
             log'[i].hash \subseteq cur.hash
      PROVE  \E k \in Tip : log'[i] = k /\ Kept(k)'
  <2>1. PICK k \in Tip : k = log'[i]
    BY DEF TypeInv, DataOK
  <2>2. WalSafe(k)' \subseteq walOpen'[k.trace]
    BY <1>3, <2>1, NoTipAssumption DEF InWal, CurInWal, Backed, WalSafe
  <2>3. QED
    BY <2>1, <2>2 DEF Kept
<1>4. (\A i \in DOMAIN log : Kept(log[i]))'
  BY <1>2, <1>3, ChainsStay
<1>5. QED
  BY <1>1, <1>4

LEMMA CoverageWrites ==
  ASSUME TypeInv, TypeInv', CurInv, InWal, CoverageInv,
         WriteLog \/ WriteLogFails \/ SyncLog \/ SyncLogFails
  PROVE  CoverageInv'
<1>1. /\ UNCHANGED <<phase, buffers, walOpen, walMissed, walOwed>>
      /\ UNCHANGED <<quarantine, checkpoints, pending>>
      /\ cur' \in {cur, NoTip} /\ abandoned \subseteq abandoned'
      /\ cur \in Tip /\ log \in Seq(Tip)
  BY NoTipAssumption DEF WriteLog, WriteLogFails, SyncLog, SyncLogFails, SealReturns, memVars,
       walVars, CurInv, TypeInv, DataOK
<1>2. Settled \subseteq Settled' /\ Covered' = Covered
  BY <1>1 DEF Settled, Covered, Waiting, ToSet
<1>3. TipsKept'
  BY DEF WriteLog, WriteLogFails, SyncLog, SyncLogFails, SealReturns, AfterWrite, TipsKept
<1>4. ASSUME NEW i \in DOMAIN log'
      PROVE  \/ \E j \in DOMAIN log : log'[i] = log[j]
             \/ cur \in Tip /\ log'[i].trace = cur.trace /\ log'[i].hash \subseteq cur.hash
  <2>1. ASSUME NEW k \in Tip, log' = Append(log, k), k.trace = cur.trace, k.hash \subseteq cur.hash
        PROVE  \/ \E j \in DOMAIN log : log'[i] = log[j]
               \/ cur \in Tip /\ log'[i].trace = cur.trace /\ log'[i].hash \subseteq cur.hash
    BY <1>1, <2>1
  <2>2. CASE WriteLog
    BY <1>1, <2>1, <2>2 DEF WriteLog
  <2>3. CASE WriteLogFails
    <3>1. PICK left \in Prefixes(cur.hash) : log' = WithChain(log, cur.trace, left)
      BY <2>3 DEF WriteLogFails
    <3>2. Chain(cur.trace, left) \in Tip /\ left \subseteq cur.hash
      BY <1>1, <3>1 DEF Chain, Tip, Prefixes
    <3>3. CASE log' = log
      BY <3>3
    <3>4. CASE log' = Append(log, Chain(cur.trace, left))
      BY <2>1, <3>2, <3>4 DEF Chain
    <3>5. QED
      BY <3>1, <3>3, <3>4 DEF WithChain
  <2>4. CASE log' = log \/ (step = "sync" /\ log' = SubSeq(log, 1, Len(log) - 1))
    <3>1. CASE log' = log
      BY <3>1
    <3>2. CASE step = "sync" /\ log' = SubSeq(log, 1, Len(log) - 1)
      <4>1. Len(log) - 1 \in 0 .. Len(log)
        BY <1>1, <3>2 DEF TypeInv, DataOK, LockOK
      <4>2. DOMAIN log' = 1 .. Len(log) - 1 /\ log'[i] = log[i]
        BY <1>1, <3>2, <4>1, HeadOfSeq
      <4>3. i \in DOMAIN log
        BY <1>1, <4>1, <4>2
      <4>4. QED
        BY <4>2, <4>3
    <3>3. QED
      BY <2>4, <3>1, <3>2
  <2>5. QED
    BY <2>2, <2>3, <2>4 DEF SyncLog, SyncLogFails
<1>5. QED
  BY <1>1, <1>2, <1>3, <1>4, CoverageFrame

LEMMA CoverageAddTip ==
  ASSUME TypeInv, TypeInv', CurInv, InWal, CoverageInv, AddTip
  PROVE  CoverageInv'
<1> DEFINE all == Append(pending, cur)
<1>1. /\ UNCHANGED <<phase, walOpen, walMissed, walOwed, log, quarantine, checkpoints, cur>>
      /\ cur \in Tip /\ cur # NoTip /\ pending \in Seq(Tip) /\ phase # "down" /\ step' = "checkpoint"
  BY DEF AddTip, CurInv, walVars, logVars, TypeInv, DataOK, LockOK
<1>2. all \in Seq(Tip) /\ ToSet(all) = ToSet(pending) \cup {cur}
  BY <1>1, AppendedTip
<1>3. abandoned \subseteq abandoned' /\ ToSet(pending) \cup {cur} \subseteq ToSet(pending') \cup abandoned'
  <2>1. CASE pending' = pending /\ abandoned' = abandoned \cup {cur}
    BY <2>1 DEF ToSet
  <2>2. CASE /\ pending' = Trimmed(all)
             /\ abandoned' = abandoned \cup {all[i] : i \in 1 .. Len(all) - Len(Trimmed(all))}
    <3> HIDE DEF all
    <3>1. QED
      BY <1>2, <2>2, TrimmedKeeps DEF ToSet
  <2>3. QED
    BY <2>1, <2>2 DEF AddTip
<1>4. Settled \subseteq Settled' /\ cur' \in Settled' /\ Covered' = Covered
  BY <1>1, <1>3 DEF Settled, Covered, Waiting, ToSet
<1>5. TipsKept'
  BY <1>1, <1>4 DEF TipsKept
<1>6. QED
  BY <1>1, <1>3, <1>4, <1>5, CoverageFrame DEF TypeInv, DataOK

LEMMA AppendedCheckpoint ==
  ASSUME NEW tips \in Seq(Tip), checkpoints \in Seq(Seq(Tip)),
         checkpoints' = Append(checkpoints, tips)
  PROVE  Covered' = Covered \cup ToSet(tips)
<1>1. /\ DOMAIN checkpoints' = (DOMAIN checkpoints) \cup {Len(checkpoints) + 1}
      /\ \A i \in DOMAIN checkpoints : checkpoints'[i] = checkpoints[i]
      /\ checkpoints'[Len(checkpoints) + 1] = tips
  OBVIOUS
<1>2. Covered' = UNION {ToSet(checkpoints'[i]) : i \in DOMAIN checkpoints'}
  BY DEF Covered, ToSet
<1> HIDE DEF ToSet
<1>3. QED
  BY <1>1, <1>2 DEF Covered

LEMMA CoverageCheckpointing ==
  ASSUME TypeInv, TypeInv', CurInv, InWal, CoverageInv, Checkpointing
  PROVE  CoverageInv'
<1>1. /\ UNCHANGED <<phase, walOpen, walMissed, walOwed, log, quarantine, cur>>
      /\ phase # "down"
      /\ log \in Seq(Tip) /\ pending \in Seq(Tip) /\ checkpoints \in Seq(Seq(Tip))
      /\ step \in {"checkpoint", "final", "commit"}
  BY DEF Checkpointing, SkipCheckpoint, WriteCheckpoint, CommitCheckpoint, CheckpointFails,
       CheckpointPoisons, CheckpointDue, AfterCheckpoint, memVars, walVars, logVars, TypeInv,
       DataOK, LockOK
<1>2. TipsKept
  BY DEF CoverageInv
<1>3. ToSet(<<>>) = {}
  BY DEF ToSet
<1>4. /\ Covered \subseteq Covered' /\ abandoned \subseteq abandoned'
      /\ ToSet(pending) \subseteq ToSet(pending') \cup Covered' \cup abandoned'
      /\ step' = "commit" => ToSet(pending') \subseteq Covered' /\ step \in {"checkpoint", "final"}
      /\ step' # "checkpoint"
  <2>1. CASE SkipCheckpoint \/ CheckpointFails
    BY <2>1 DEF SkipCheckpoint, CheckpointFails, AfterCheckpoint, LockReleased, memVars, Covered,
                ToSet
  <2>2. CASE WriteCheckpoint
    <3>1. Covered' = Covered \cup ToSet(pending)
      BY <1>1, <2>2, AppendedCheckpoint DEF WriteCheckpoint
    <3>2. pending' = pending /\ abandoned' = abandoned /\ step' = "commit" /\ step \in {"checkpoint", "final"}
      BY <2>2 DEF WriteCheckpoint, CheckpointDue, memVars
    <3>3. QED
      BY <3>1, <3>2 DEF ToSet
  <2>3. CASE CommitCheckpoint
    <3>1. /\ pending' = <<>> /\ UNCHANGED <<checkpoints, abandoned>> /\ step = "commit"
          /\ step' \notin {"checkpoint", "commit"}
      BY <2>3 DEF CommitCheckpoint, LeftPending, AfterCheckpoint, LockReleased
    <3>2. ToSet(pending) \subseteq Covered /\ Covered' = Covered
      BY <1>2, <3>1 DEF TipsKept, Covered, ToSet
    <3>3. QED
      BY <3>1, <3>2
  <2>4. CASE CheckpointPoisons
    <3>1. /\ abandoned' = abandoned \cup ToSet(pending) /\ step' \notin {"checkpoint", "commit"}
          /\ checkpoints' = checkpoints \/ checkpoints' = Append(checkpoints, pending)
      BY <2>4 DEF CheckpointPoisons, AfterCheckpoint, LockReleased
    <3>2. Covered' = Covered \/ Covered' = Covered \cup ToSet(pending)
      <4>1. checkpoints' = checkpoints => Covered' = Covered
        BY DEF Covered, ToSet
      <4>2. checkpoints' = Append(checkpoints, pending) => Covered' = Covered \cup ToSet(pending)
        BY <1>1, AppendedCheckpoint
      <4>3. QED
        BY <3>1, <4>1, <4>2
    <3>3. QED
      BY <3>1, <3>2
  <2>5. QED
    BY <2>1, <2>2, <2>3, <2>4 DEF Checkpointing
<1>5. Settled \subseteq Settled'
  <2>1. Waiting = ToSet(pending) /\ Waiting' = ToSet(pending')
    BY <1>1 DEF Waiting, ToSet
  <2>2. QED
    BY <1>4, <2>1 DEF Settled
<1>6. TipsKept'
  <2>1. cur' # NoTip => cur' \in Settled'
    BY <1>1, <1>2, <1>5 DEF TipsKept, CurInv
  <2>2. QED
    BY <1>4, <2>1 DEF TipsKept, ToSet
<1>7. QED
  BY <1>1, <1>4, <1>5, <1>6, CoverageFrame

(* The WAL lets go of the chain at hand once it is settled or quarantined. *)
LEMMA CoverageMarks ==
  ASSUME TypeInv, TypeInv', CurInv, InWal, CoverageInv, MarkSealed \/ QuarantineTrace
  PROVE  CoverageInv'
<1> USE DEF CoverageInv
<1>1. quarantine \subseteq quarantine'
  BY DEF MarkSealed, QuarantineTrace, logVars
<1>2. Settled' = Settled /\ TipsKept'
  <2>1. ToSet(pending') = ToSet(pending)
    BY Marked DEF ToSet
  <2>2. Covered' = Covered
    BY Marked DEF Covered, ToSet
  <2>3. QED
    BY <2>1, <2>2, Marked DEF Settled, Waiting, TipsKept
<1>3. /\ walOwed \in Seq(Tip) /\ cur \in Tip
      /\ walOwed' = walOwed \/ (walOwed' = Append(walOwed, cur) /\ cur \in ToSet(pending))
  <2>1. /\ walOwed \in Seq(Tip) /\ cur \in Tip
        /\ \/ walOwed' = walOwed
           \/ walOwed' = walOwed \o <<>>
           \/ walOwed' = walOwed \o <<cur>> /\ cur \in ToSet(pending)
    BY Marked DEF MarkSealed, SealedMarkerTip, QuarantineTrace, MarkWal, Wal!StoreSeal, walVars,
                  TypeInv, DataOK
  <2>2. QED
    BY <2>1, NothingAppended
<1>4. /\ ToSet(walOwed) \subseteq ToSet(walOwed')
      /\ ToSet(walOwed') = ToSet(walOwed) \/ (ToSet(walOwed') = ToSet(walOwed) \cup {cur}
                                              /\ cur \in ToSet(pending))
  BY <1>3, AppendedTip DEF ToSet
<1>5. OwedSettled'
  BY <1>2, <1>4, Marked DEF OwedSettled, Settled, Waiting
<1>6. Lasting \subseteq Lasting'
  <2>1. Covered' = Covered
    BY Marked DEF Covered, ToSet
  <2>2. QED
    BY <1>4, <2>1, Marked DEF Lasting
<1>7. CASE UNCHANGED walOpen
  <2>1. \A k \in Tip : Kept(k) => Kept(k)'
    BY <1>1, <1>6, <1>7, Marked, ChainStays
  <2>2. \A i \in DOMAIN log' : \E j \in DOMAIN log : log'[i] = log[j]
    BY Marked
  <2>3. QED
    BY <1>2, <1>5, <2>1, <2>2, ChainsStay
<1>8. CASE walOpen' = [walOpen EXCEPT ![cur.trace] = {}] /\ ~UNCHANGED walOpen
  <2>0. cur.trace \in Traces /\ walOpen[cur.trace] \subseteq cur.hash
    BY Marked DEF InWal, CurInWal, Backed, Tip
  <2>1. \/ cur \in Lasting'
        \/ SpansOf(cur) \subseteq quarantine'
    <3>1. CASE MarkSealed
      <4>1. cur \in Settled /\ step = "mark"
        BY <3>1, Marked DEF MarkSealed, TipsKept
      <4>2. cur \in ToSet(pending) => cur \in ToSet(walOwed')
        <5>1. cur \in ToSet(pending) => walOwed' = walOwed \o <<cur>>
          BY <1>8, <3>1 DEF MarkSealed, SealedMarkerTip, MarkWal, Wal!StoreSeal, walVars
        <5>2. walOwed \o <<cur>> = Append(walOwed, cur)
          BY <1>3
        <5>3. ToSet(Append(walOwed, cur)) = ToSet(walOwed) \cup {cur}
          BY <1>3, AppendedTip
        <5>4. ASSUME walOwed' = Append(walOwed, cur)
              PROVE  ToSet(walOwed') = ToSet(walOwed) \cup {cur}
          BY <5>3, <5>4
        <5>5. QED
          BY <5>1, <5>2, <5>4
      <4>3. QED
        BY <1>6, <4>1, <4>2, Marked DEF Settled, Waiting, Lasting
    <3>2. CASE QuarantineTrace
      BY <1>8, <3>2 DEF QuarantineTrace, walVars
    <3>3. QED
      BY <3>1, <3>2
  <2>2. ASSUME NEW k \in Tip, Kept(k)
        PROVE  Kept(k)'
    <3> DEFINE safe == WalSafe(k)
    <3>1. WalSafe(k)' = safe
      BY Marked DEF WalSafe
    <3>2. SpansOf(Chain(k.trace, WalSafe(k)))' = SpansOf(Chain(k.trace, safe))
      BY <3>1 DEF SpansOf, Chain
    <3>3. CASE k.trace # cur.trace \/ ~(safe \subseteq walOpen[k.trace])
      <4>1. safe \subseteq walOpen[k.trace] => safe \subseteq walOpen'[k.trace]
        BY <1>8, <2>0, <3>3 DEF TypeInv, DataOK, Tip
      <4>2. QED
        BY <1>1, <1>6, <2>2, <3>1, <3>2, <4>1 DEF Kept
    <3>4. CASE k.trace = cur.trace /\ safe \subseteq cur.hash
      <4>1. CASE cur \in Lasting'
        <5>1. \E j \in Lasting' : j.trace = k.trace /\ safe \subseteq j.hash
          BY <3>4, <4>1
        <5>2. QED
          BY <3>1, <5>1 DEF Kept
      <4>2. CASE SpansOf(cur) \subseteq quarantine'
        <5>1. SpansOf(Chain(k.trace, safe)) \subseteq SpansOf(cur)
          BY <3>4 DEF SpansOf, Chain
        <5>2. QED
          BY <3>2, <4>2, <5>1 DEF Kept
      <4>3. QED
        BY <2>1, <4>1, <4>2
    <3>5. QED
      BY <2>0, <3>3, <3>4
  <2>3. (\A i \in DOMAIN log : Kept(log[i]))'
    <3>1. \A i \in DOMAIN log' : \E j \in DOMAIN log : log'[i] = log[j]
      BY Marked
    <3>2. QED
      BY <2>2, <3>1, ChainsStay
  <2>4. QED
    BY <1>2, <1>5, <2>3
<1>9. QED
  BY <1>7, <1>8, Marked

LEMMA CoverageBeginSeal ==
  ASSUME TypeInv, TypeInv', CurInv, InWal, CoverageInv, NEW t \in Traces, BeginSeal(t)
  PROVE  CoverageInv'
<1>1. /\ UNCHANGED <<phase, walOpen, walMissed, walOwed, log, quarantine>>
      /\ UNCHANGED <<checkpoints, pending, abandoned>> /\ step' \in {"write", "quarantine"}
  BY DEF BeginSeal, FirstStep, walVars, logVars
<1>2. Covered' = Covered /\ Settled' = Settled
  BY <1>1 DEF Covered, Settled, Waiting, ToSet
<1>3. TipsKept' /\ OwedSettled'
  BY <1>1, <1>2 DEF TipsKept, OwedSettled, CoverageInv, ToSet
<1>4. \A k \in Tip : Kept(k) => Kept(k)'
  BY <1>1, <1>2, LastingGrows, ChainStays
<1>5. \A i \in DOMAIN log' : \E j \in DOMAIN log : log'[i] = log[j]
  BY <1>1
<1>6. QED
  BY <1>3, <1>4, <1>5, ChainsStay DEF CoverageInv

LEMMA CoverageConsume ==
  ASSUME TypeInv, TypeInv', CurInv, CoverageInv, NEW t \in Traces, NEW s \in Spans,
         ConsumeSpan(t, s)
  PROVE  CoverageInv'
<1>0. /\ walMissed \subseteq walMissed' /\ walOwed' = walOwed
      /\ \A u \in Traces : walOpen[u] \subseteq walOpen'[u]
  BY Appended
<1>1. /\ UNCHANGED <<phase, log, quarantine, checkpoints, pending, abandoned>>
      /\ cur' = NoTip /\ step' \in {"idle", "next"}
  BY DEF ConsumeSpan, Acquire, LockFree, TypeInv, LockOK, CurInv, lockVars, logVars
<1>2. Covered' = Covered /\ ToSet(pending') = ToSet(pending) /\ ToSet(walOwed') = ToSet(walOwed)
  BY <1>0, <1>1 DEF Covered, ToSet
<1>3. TipsKept' /\ OwedSettled'
  BY <1>1, <1>2 DEF TipsKept, OwedSettled, CoverageInv, Settled, Waiting
<1>4. ASSUME NEW k \in Tip, Kept(k)
      PROVE  Kept(k)'
  <2>1. k.trace \in Traces /\ walOpen[k.trace] \subseteq walOpen'[k.trace]
        /\ walMissed \subseteq walMissed'
    BY <1>0 DEF Tip
  <2>2. Lasting \subseteq Lasting'
    BY <1>1, <1>2 DEF Lasting
  <2>3. QED
    BY <1>1, <1>4, <2>1, <2>2, ChainStays
<1>5. \A i \in DOMAIN log' : \E j \in DOMAIN log : log'[i] = log[j]
  BY <1>1
<1>6. QED
  BY <1>3, <1>4, <1>5, ChainsStay DEF CoverageInv

(* A stop cuts the log, to whole chains and the first entries of another.  *)
LEMMA CutChains ==
  ASSUME NEW l \in Seq(Tip), NEW n \in 0 .. Len(l), NEW c \in Cuts(l, n), NEW i \in DOMAIN c
  PROVE  \E j \in DOMAIN l : c[i].trace = l[j].trace /\ c[i].hash \subseteq l[j].hash
<1>1. PICK k \in n .. Len(l) :
        \/ c = SubSeq(l, 1, k)
        \/ /\ k # Len(l)
           /\ \E p \in Prefixes(l[k + 1].hash) :
                c = WithChain(SubSeq(l, 1, k), l[k + 1].trace, p)
  BY DEF Cuts
<1> DEFINE whole == SubSeq(l, 1, k)
<1>2. /\ k \in 0 .. Len(l) /\ whole \in Seq(Tip) /\ Len(whole) = k
      /\ \A j \in 1 .. k : whole[j] = l[j] /\ j \in DOMAIN l
  OBVIOUS
<1> HIDE DEF whole
<1>3. CASE c = whole
  BY <1>2, <1>3
<1>4. ASSUME k # Len(l), NEW p \in Prefixes(l[k + 1].hash),
             c = Append(whole, Chain(l[k + 1].trace, p))
      PROVE  \E j \in DOMAIN l : c[i].trace = l[j].trace /\ c[i].hash \subseteq l[j].hash
  <2>1. p \subseteq l[k + 1].hash /\ k + 1 \in DOMAIN l
    BY <1>2, <1>4 DEF Prefixes
  <2>2. CASE i \in 1 .. k
    BY <1>2, <1>4, <2>2
  <2>3. CASE i = k + 1
    <3>1. c[i] = Chain(l[k + 1].trace, p)
      BY <1>2, <1>4, <2>3
    <3>2. QED
      BY <2>1, <3>1 DEF Chain
  <2>4. QED
    BY <1>2, <1>4, <2>2, <2>3
<1>5. QED
  BY <1>1, <1>3, <1>4 DEF WithChain, whole

(* What a stop takes is in memory, or lost with power; what is kept in the *)
(* files is kept.                                                          *)
LEMMA CoverageStops ==
  ASSUME TypeInv, TypeInv', CurInv, InWal, CoverageInv, Crash \/ PowerLoss \/ Exit
  PROVE  CoverageInv'
<1> USE DEF CoverageInv
<1>1. /\ UNCHANGED <<walOwed, quarantine, checkpoints, abandoned>>
      /\ LoseMemory /\ phase # "down" /\ log \in Seq(Tip)
  BY DEF Crash, PowerLoss, Exit, walVars, logVars, TypeInv, DataOK
<1>2. /\ walMissed \subseteq walMissed'
      /\ \A t \in Traces : \A s \in walOpen[t] : s \in walOpen'[t] \/ <<t, s>> \in walMissed'
  BY DEF Crash, PowerLoss, Exit, walVars, TypeInv, DataOK
<1>3. phase' = "down" /\ cur' = NoTip /\ step' = "idle"
  BY <1>1 DEF LoseMemory
<1>4. TipsKept' /\ OwedSettled'
  BY <1>3 DEF TipsKept, OwedSettled, Settled, Waiting
<1>5. Lasting \subseteq Lasting'
  BY <1>1 DEF Lasting, Covered, ToSet
<1>6. ASSUME NEW k \in Tip, Kept(k)
      PROVE  Kept(k)'
  BY <1>1, <1>2, <1>5, <1>6, ChainStays DEF Tip
<1>7. ASSUME NEW i \in DOMAIN log'
      PROVE  \E k \in Tip : log'[i] = k /\ Kept(k)'
  <2>1. PICK k \in Tip : k = log'[i]
    BY DEF TypeInv, DataOK
  <2>2. PICK j \in DOMAIN LogInFlight :
          k.trace = LogInFlight[j].trace /\ k.hash \subseteq LogInFlight[j].hash
    <3>1. CASE Crash
      BY <2>1, <3>1, CutChains, InFlightLog DEF Crash
    <3>2. CASE PowerLoss
      <4>1. log' \in Cuts(LogInFlight, logSynced) /\ i \in DOMAIN log'
        BY <3>2 DEF PowerLoss
      <4>2. logSynced \in 0 .. Len(log)
        BY DEF TypeInv, DataOK
      <4>3. LogInFlight \in Seq(Tip) /\ logSynced \in 0 .. Len(LogInFlight)
        BY <4>2, InFlightLog
      <4>4. QED
        BY <2>1, <4>1, <4>3, CutChains
    <3>3. CASE Exit
      <4>1. log' = log /\ i \in 1 .. Len(log)
        BY <1>1, <3>3 DEF Exit, logVars
      <4>2. LogInFlight[i] = log[i] /\ i \in DOMAIN LogInFlight
        BY <4>1, InFlightLog
      <4>3. QED
        BY <2>1, <4>1, <4>2
    <3>4. QED
      BY <3>1, <3>2, <3>3
  <2>3. CASE j \in DOMAIN log
    <3>1. PICK old \in Tip : old = log[j]
      BY <2>3 DEF TypeInv, DataOK
    <3>2. LogInFlight[j] = log[j]
      BY <1>1, <2>3, InFlightLog
    <3>3. Kept(old)
      BY <2>3, <3>1
    <3>4. k.trace = old.trace /\ k.hash \subseteq old.hash
      BY <2>2, <3>1, <3>2
    <3>5. Kept(k)'
      BY <1>6, <3>3, <3>4, PartKept
    <3>6. QED
      BY <2>1, <3>5
  <2>4. CASE j \notin DOMAIN log
    <3>1. LogInFlight[j] = cur /\ step = "write"
      BY <1>1, <2>4 DEF LogInFlight, TypeInv, DataOK, LockOK
    <3>2. \A s \in k.hash : s \in walOpen[k.trace] \/ <<k.trace, s>> \in walMissed
      BY <2>2, <3>1 DEF InWal, CurInWal, Backed, CurInv
    <3>3. WalSafe(k) \subseteq walOpen[k.trace]
      BY <3>2 DEF WalSafe
    <3>4. QED
      BY <1>6, <2>1, <3>3 DEF Kept
  <2>5. QED
    BY <2>3, <2>4
<1>8. (\A i \in DOMAIN log : Kept(log[i]))'
  BY <1>6, <1>7, ChainsStay
<1>9. QED
  BY <1>4, <1>8

(* A marker that a compaction drops is of a tip that is covered or given   *)
(* up; a start takes up what the markers say.                              *)
LEMMA CoverageCompactions ==
  ASSUME TypeInv, TypeInv', CurInv, SnapshotFresh, CoverageInv,
         (\E c \in Compactors : Compaction(c)) \/ ShutdownEnds \/ Start
  PROVE  CoverageInv'
<1> USE DEF CoverageInv
<1>1. /\ UNCHANGED <<walOpen, walMissed, log, quarantine, checkpoints, abandoned, cur, step>>
      /\ ToSet(walOwed') \subseteq ToSet(walOwed)
      /\ ToSet(walOwed) \cap Waiting \subseteq ToSet(walOwed')
  BY WalCompactions
<1>2. Covered' = Covered
  BY <1>1 DEF Covered, ToSet
<1>3. Lasting \subseteq Lasting'
  BY <1>1, <1>2 DEF Lasting, OwedSettled, Settled
<1>4. /\ step = "commit" => pending' = pending
      /\ Waiting' = Waiting
  <2>1. CASE Start
    <3>1. pending' = walOwed /\ phase = "down" /\ phase' = "running" /\ step = "idle"
      BY <2>1 DEF Start, TipsRestored, TypeInv, LockOK
    <3>2. QED
      BY <3>1 DEF Waiting, ToSet
  <2>2. CASE ShutdownEnds
    BY <2>2 DEF ShutdownEnds, Waiting, ToSet
  <2>3. ASSUME NEW c \in Compactors, Compaction(c)
        PROVE  UNCHANGED <<pending, phase>> /\ (phase = "down" => walOwed' = walOwed)
    BY <2>3 DEF Compaction, TakeSnapshot, CompactWal, ClearGuard, SnapshotFresh, Compacting,
                memVars, walVars
  <2>4. QED
    BY <2>1, <2>2, <2>3 DEF Waiting, ToSet
<1>5. Settled' = Settled
  BY <1>1, <1>2, <1>4 DEF Settled
<1>6. TipsKept' /\ OwedSettled'
  BY <1>1, <1>2, <1>4, <1>5 DEF TipsKept, OwedSettled, ToSet
<1>7. \A k \in Tip : Kept(k) => Kept(k)'
  BY <1>1, <1>3, ChainStays
<1>8. \A i \in DOMAIN log' : \E j \in DOMAIN log : log'[i] = log[j]
  BY <1>1
<1>9. QED
  BY <1>6, <1>7, <1>8, ChainsStay

LEMMA CoverageStep ==
  ASSUME TypeInv, TypeInv', CurInv, SnapshotFresh, InWal, CoverageInv, [Next]_vars
  PROVE  CoverageInv'
<1>1. CASE UNCHANGED vars \/ Idle \/ WorkerSweep \/ ShutdownBegins
  <2>1. /\ UNCHANGED <<walOpen, walMissed, walOwed, pending, log, quarantine>>
        /\ UNCHANGED <<checkpoints, abandoned>>
        /\ UNCHANGED <<phase, cur, step>>
             \/ (phase = "running" /\ phase' # "down" /\ cur' = NoTip /\ step' \in {"next", "final"})
    BY <1>1 DEF vars, memVars, lockVars, walVars, logVars, Idle, WorkerSweep, Acquire,
                ShutdownBegins, LockFree
  <2>2. Covered' = Covered /\ ToSet(pending') = ToSet(pending) /\ ToSet(walOwed') = ToSet(walOwed)
    BY <2>1 DEF Covered, ToSet
  <2>3. Settled' = Settled
    BY <2>1, <2>2 DEF Settled, Waiting
  <2>4. TipsKept' /\ OwedSettled'
    BY <2>1, <2>2, <2>3 DEF TipsKept, OwedSettled, CoverageInv
  <2>5. \A k \in Tip : Kept(k) => Kept(k)'
    BY <2>1, <2>2, LastingGrows, ChainStays
  <2>6. \A i \in DOMAIN log' : \E j \in DOMAIN log : log'[i] = log[j]
    BY <2>1
  <2>7. QED
    BY <2>4, <2>5, <2>6, ChainsStay DEF CoverageInv
<1>2. CASE SealStep
  BY <1>2, CoverageBeginSeal, CoverageWrites, CoverageAddTip, CoverageCheckpointing, CoverageMarks
     DEF SealStep
<1>3. QED
  BY <1>1, <1>2, CoverageConsume, CoverageStops, CoverageCompactions DEF Next

LEMMA CoverageInit == Init => CoverageInv
BY DEF Init, CoverageInv, TipsKept, OwedSettled, Wal!StoreInit, ToSet

(* Every chain in the log is covered by a checkpoint, or will be, or was   *)
(* given up on purpose, but for the records the WAL missed: for any number *)
(* of crashes, power losses and restarts, and whatever write fails, as     *)
(* long as no seal overlaps a compaction under way and no trace whose seal *)
(* failed gets a late span (issue #22).                                    *)
THEOREM CoverageKept == ~Overlap /\ ~LateSpans /\ Spec => []NoCoverageLost
<1> SUFFICES ASSUME ~Overlap, ~LateSpans
             PROVE  Spec => []NoCoverageLost
  OBVIOUS
<1>1. StoreInv /\ CoverageInv /\ [Next]_vars => (StoreInv /\ CoverageInv)'
  BY StoreInvStep, CoverageStep DEF StoreInv
<1>2. CoverageInv => NoCoverageLost
  BY DEF CoverageInv, Kept, NoCoverageLost, Lasting, OwedSettled, Settled
<1>3. QED
  BY <1>1, <1>2, StoreInvInit, CoverageInit, PTL DEF Spec

-----------------------------------------------------------------------------
(* One run of the process, from its first start to the end of its first    *)
(* shutdown.                                                               *)

StopsCounted == phase # "running" => stops >= 1

(* The spans that have come: those the WAL took, and those it missed.      *)
Delivered == promised \cup walMissed
OpenDelivered == \A t \in Traces : \A s \in walOpen[t] : <<t, s>> \in Delivered

(* No span that is buffered or about to be written is in the log already.  *)
LoggedOnce ==
  /\ \A i, j \in DOMAIN log : i # j => SpansOf(log[i]) \cap SpansOf(log[j]) = {}
  /\ \A i \in DOMAIN log : SpansOf(log[i]) \subseteq Delivered
  /\ \A t \in Traces : \A s \in buffers[t] :
       <<t, s>> \in Delivered /\ \A i \in DOMAIN log : <<t, s>> \notin SpansOf(log[i])
  /\ cur # NoTip => SpansOf(cur) \subseteq Delivered
  /\ step = "write" => \A i \in DOMAIN log : SpansOf(cur) \cap SpansOf(log[i]) = {}

(* A tip is covered once for every time its chain is in the log, less the  *)
(* times it still waits for its checkpoint.                                *)
Times(tips, k) == Cardinality({i \in DOMAIN tips : tips[i] = k})
StillPending == IF step = "commit" THEN <<>> ELSE pending
Unadded == IF step \in {"sync", "tip"} THEN <<cur>> ELSE <<>>

PlacesCovering(cs, k) ==
  {p \in UNION {{i} \X (DOMAIN cs[i]) : i \in DOMAIN cs} : cs[p[1]][p[2]] = k}

CoveredAsLogged ==
  \A k \in Tip :
    /\ IsFiniteSet(PlacesCovering(checkpoints, k))
    /\ Cardinality(PlacesCovering(checkpoints, k)) + Times(StillPending, k) + Times(Unadded, k)
         <= Times(log, k)

(* Nothing failed: where every span and every chain is.                    *)
NothingFailed ==
  /\ ~logPoisoned /\ ~checkpointPoisoned /\ ~backoff /\ step # "quarantine"
SpansInPlace ==
  \A x \in promised : \/ x[2] \in buffers[x[1]]
                      \/ step = "write" /\ x \in SpansOf(cur)
                      \/ \E i \in DOMAIN log : x \in SpansOf(log[i])
OpenInPlace ==
  \A t \in Traces : \A s \in walOpen[t] :
    s \in buffers[t] \/ (cur # NoTip /\ cur.trace = t /\ s \in cur.hash)
ChainsInPlace ==
  /\ ToSet(log) \subseteq Covered \cup abandoned \cup ToSet(pending) \cup ToSet(Unadded)
  /\ step = "commit" => ToSet(pending) \subseteq Covered

(* How far a shutdown has come.                                            *)
ShutdownLeaves ==
  /\ phase = "closing" => holder \in {"none", "shutdown"}
  /\ phase \in {"closing", "stopped"} =>
       /\ \A t \in Traces : buffers[t] # {} => t \in todo
       /\ step = "idle" => pending = <<>>
  /\ phase = "stopped" => walOwed = <<>>

Clean == NothingFailed /\ SpansInPlace /\ OpenInPlace /\ ChainsInPlace /\ ShutdownLeaves
LEMMA FirstRunInit == Init => StopsCounted
BY DEF Init, StopsCounted

(* The run stays uninterrupted only while the process does not stop.       *)
LEMMA FirstRun ==
  ASSUME TypeInv, StopsCounted, [Next]_vars
  PROVE  /\ StopsCounted'
         /\ Uninterrupted' =>
              Uninterrupted /\ phase # "down" /\ ~(Crash \/ PowerLoss \/ Exit \/ Start)
<1> USE DEF StopsCounted, Uninterrupted
<1>1. stops \in Nat
  BY ExporterAssumption DEF TypeInv, DataOK
<1>2. CASE phase' = phase /\ stops' = stops /\ ~(Crash \/ PowerLoss \/ Exit \/ Start)
  BY <1>1, <1>2
<1>3. CASE Crash \/ PowerLoss \/ Exit
  BY <1>1, <1>3 DEF Crash, PowerLoss, Exit, LoseMemory, countVars
<1>4. CASE Start
  BY <1>1, <1>4 DEF Start, countVars
<1>5. CASE (ShutdownBegins \/ ShutdownEnds) /\ ~(Crash \/ PowerLoss \/ Exit \/ Start)
  BY <1>1, <1>5 DEF ShutdownBegins, ShutdownEnds, LockFree
<1>6. CASE UNCHANGED vars \/ Idle \/ WorkerSweep
  BY <1>2, <1>3, <1>4, <1>6 DEF vars, memVars, countVars, Idle, WorkerSweep
<1>7. ASSUME NEW t \in Traces, NEW s \in Spans, ConsumeSpan(t, s)
      PROVE  phase' = phase /\ stops' = stops
  BY <1>7 DEF ConsumeSpan
<1>8. CASE SealStep
  BY <1>2, <1>3, <1>4, <1>8 DEF SealStep, BeginSeal, WriteLog, WriteLogFails, SyncLog, SyncLogFails,
     AddTip, Checkpointing, SkipCheckpoint, WriteCheckpoint, CommitCheckpoint, CheckpointFails,
     CheckpointPoisons, MarkSealed, QuarantineTrace, memVars, countVars
<1>9. ASSUME NEW c \in Compactors, Compaction(c)
      PROVE  phase' = phase /\ stops' = stops
  BY <1>9 DEF Compaction, TakeSnapshot, CompactWal, ClearGuard, memVars, countVars
<1>10. QED
  BY <1>2, <1>3, <1>4, <1>5, <1>6, <1>7, <1>8, <1>9 DEF Next

(* Every record in the WAL was delivered, and only a delivery or a power   *)
(* loss changes what was.                                                  *)
LEMMA DeliveredBy ==
  ASSUME TypeInv, CurInv, OpenDelivered, [Next]_vars
  PROVE  /\ OpenDelivered'
         /\ \/ Delivered' = Delivered
            \/ \E t \in Traces, s \in Spans : ConsumeSpan(t, s)
            \/ PowerLoss
<1> USE DEF OpenDelivered, Delivered
<1>1. ASSUME NEW t \in Traces, NEW s \in Spans, ConsumeSpan(t, s)
      PROVE  OpenDelivered'
  <2>1. \/ /\ walOpen' = [walOpen EXCEPT ![t] = @ \cup {s}] /\ walMissed' = walMissed
           /\ promised' = promised \cup {<<t, s>>}
        \/ walOpen' = walOpen /\ promised' = promised /\ walMissed \subseteq walMissed'
    BY <1>1 DEF ConsumeSpan, Wal!StoreAppend
  <2>2. \A u \in Traces : \A r \in walOpen'[u] :
          r \in walOpen[u] \/ <<u, r>> \in promised'
    <3>1. walOpen \in [Traces -> SUBSET Spans]
      BY DEF TypeInv, DataOK
    <3>2. QED
      BY <2>1, <3>1
  <2>3. QED
    BY <2>1, <2>2
<1>2. CASE MarkSealed \/ QuarantineTrace
  <2>1. promised' = promised /\ walMissed' = walMissed
    BY <1>2, Marked DEF MarkSealed, QuarantineTrace
  <2>2. \A t \in Traces : walOpen'[t] \subseteq walOpen[t]
    BY <1>2, Marked DEF TypeInv, DataOK
  <2>3. QED
    BY <2>1, <2>2
<1>3. CASE (\E c \in Compactors : Compaction(c)) \/ ShutdownEnds \/ Start
  <2>1. \/ UNCHANGED walVars
        \/ \E tips : CompactStore(tips)
    BY <1>3 DEF Compaction, TakeSnapshot, CompactWal, ClearGuard, ShutdownEnds, Start
  <2>2. walOpen' = walOpen /\ walMissed' = walMissed
    BY <2>1, TypeCompactStore DEF walVars
  <2>3. promised' = promised
    BY <1>3 DEF Compaction, TakeSnapshot, CompactWal, ClearGuard, ShutdownEnds, Start
  <2>4. QED
    BY <2>2, <2>3
<1>4. CASE PowerLoss
  BY <1>4 DEF PowerLoss
<1>5. CASE UNCHANGED <<walOpen, walMissed, promised>>
  BY <1>5
<1>6. CASE UNCHANGED vars \/ Idle \/ WorkerSweep \/ ShutdownBegins \/ Crash \/ Exit
  BY <1>5, <1>6 DEF vars, walVars, Idle, WorkerSweep, ShutdownBegins, Crash, Exit
<1>7. CASE SealStep /\ ~MarkSealed /\ ~QuarantineTrace
  BY <1>5, <1>7 DEF SealStep, BeginSeal, WriteLog, WriteLogFails, SyncLog, SyncLogFails, AddTip,
     Checkpointing, SkipCheckpoint, WriteCheckpoint, CommitCheckpoint, CheckpointFails,
     CheckpointPoisons, walVars
<1>8. QED
  BY <1>1, <1>2, <1>3, <1>4, <1>6, <1>7 DEF Next

(* Steps that leave the buffers and the log alone.                         *)
LEMMA LoggedOnceFrame ==
  ASSUME LoggedOnce, UNCHANGED <<buffers, log, Delivered>>, cur' \in {cur, NoTip},
         step' = "write" => step = "write" /\ cur' = cur
  PROVE  LoggedOnce'
BY DEF LoggedOnce, SpansOf

LEMMA LoggedOnceConsume ==
  ASSUME ~Redelivery, TypeInv, CurInv, OpenDelivered, LoggedOnce,
         NEW t \in Traces, NEW s \in Spans, ConsumeSpan(t, s)
  PROVE  LoggedOnce'
<1>0. <<t, s>> \notin Delivered /\ Delivered' = Delivered \cup {<<t, s>>}
  <2>1. <<t, s>> \notin Delivered /\ s \notin walOpen[t]
    BY DEF ConsumeSpan, OpenDelivered, Delivered
  <2>2. QED
    BY <2>1 DEF ConsumeSpan, Delivered
<1>1. /\ log' = log /\ buffers' = [buffers EXCEPT ![t] = @ \cup {s}]
      /\ step' \in {"idle", "next"} /\ cur' = NoTip
  BY DEF ConsumeSpan, LockFree, Acquire, lockVars, logVars, TypeInv, LockOK, CurInv
<1>2. ASSUME NEW u \in Traces, NEW r \in buffers'[u]
      PROVE  <<u, r>> \in Delivered' /\ \A i \in DOMAIN log : <<u, r>> \notin SpansOf(log[i])
  <2>1. CASE r \in buffers[u]
    BY <1>0, <1>1, <2>1 DEF LoggedOnce
  <2>2. CASE r \notin buffers[u]
    <3>1. u = t /\ r = s
      BY <1>1, <2>2 DEF TypeInv, DataOK
    <3>2. QED
      BY <1>0, <1>1, <3>1 DEF LoggedOnce
  <2>3. QED
    BY <2>1, <2>2
<1>3. QED
  BY <1>0, <1>1, <1>2 DEF LoggedOnce, SpansOf

LEMMA LoggedOnceBegins ==
  ASSUME TypeInv, CurInv, LoggedOnce, Delivered' = Delivered, NEW t \in Traces, BeginSeal(t)
  PROVE  LoggedOnce'
<1>1. /\ UNCHANGED <<log, Delivered>> /\ cur' = Chain(t, buffers[t])
      /\ buffers' = [buffers EXCEPT ![t] = {}]
  BY DEF BeginSeal, BufferDropped, logVars
<1>2. \A x \in SpansOf(cur') : x \in Delivered /\ \A i \in DOMAIN log : x \notin SpansOf(log[i])
  <2>1. SpansOf(cur') = {<<t, s>> : s \in buffers[t]}
    BY <1>1 DEF SpansOf, Chain
  <2>2. QED
    BY <2>1 DEF LoggedOnce
<1>3. \A u \in Traces : buffers'[u] \subseteq buffers[u]
  BY <1>1 DEF TypeInv, DataOK
<1>4. \A i \in DOMAIN log' : SpansOf(log[i])' = SpansOf(log[i])
  BY <1>1 DEF SpansOf
<1>5. SpansOf(cur)' = SpansOf(cur')
  BY DEF SpansOf
<1> HIDE DEF SpansOf
<1>6. QED
  BY <1>1, <1>2, <1>3, <1>4, <1>5 DEF LoggedOnce

(* A chain written, or the first entries of one.                           *)
LEMMA LoggedOnceWrites ==
  ASSUME TypeInv, CurInv, LoggedOnce, step = "write", NEW k \in Tip,
         k.trace = cur.trace, k.hash \subseteq cur.hash, log' = Append(log, k),
         UNCHANGED <<buffers, Delivered>>, cur' \in {cur, NoTip}, step' # "write"
  PROVE  LoggedOnce'
<1>1. cur \in Tip /\ cur # NoTip /\ buffers[cur.trace] = {} /\ log \in Seq(Tip)
  BY DEF TypeInv, DataOK, LockOK, CurInv
<1>2. SpansOf(k) \subseteq SpansOf(cur)
  BY DEF SpansOf
<1>3. /\ DOMAIN log' = (DOMAIN log) \cup {Len(log) + 1} /\ log'[Len(log) + 1] = k
      /\ \A i \in DOMAIN log : log'[i] = log[i] /\ i # Len(log) + 1
  BY <1>1
<1>4. \A t \in Traces : \A s \in buffers[t] : <<t, s>> \notin SpansOf(k)
  BY <1>1 DEF SpansOf
<1>5. \A l : SpansOf(l)' = SpansOf(l)
  BY DEF SpansOf
<1>6. \A i, j \in DOMAIN log' : i # j => SpansOf(log'[i]) \cap SpansOf(log'[j]) = {}
  <2>1. \A i \in DOMAIN log : SpansOf(k) \cap SpansOf(log[i]) = {}
    BY <1>2 DEF LoggedOnce
  <2>2. \A i, j \in DOMAIN log : i # j => SpansOf(log[i]) \cap SpansOf(log[j]) = {}
    BY DEF LoggedOnce
  <2>3. QED
    BY <1>3, <2>1, <2>2
<1>7. /\ \A i \in DOMAIN log' : SpansOf(log'[i]) \subseteq Delivered
      /\ cur' # NoTip => SpansOf(cur') \subseteq Delivered
  BY <1>1, <1>2, <1>3 DEF LoggedOnce
<1>8. \A t \in Traces : \A s \in buffers[t] :
        <<t, s>> \in Delivered /\ \A i \in DOMAIN log' : <<t, s>> \notin SpansOf(log'[i])
  BY <1>3, <1>4 DEF LoggedOnce
<1> HIDE DEF SpansOf
<1>9. QED
  BY <1>6, <1>7, <1>8 DEF LoggedOnce, SpansOf

LEMMA LoggedOnceStep ==
  ASSUME ~Redelivery, TypeInv, CurInv, OpenDelivered, LoggedOnce,
         [Next]_vars, ~(Crash \/ PowerLoss \/ Exit \/ Start)
  PROVE  LoggedOnce'
<1> SUFFICES ASSUME ~\E t \in Traces, s \in Spans : ConsumeSpan(t, s)
             PROVE  LoggedOnce'
  BY LoggedOnceConsume
<1>0. Delivered' = Delivered
  BY DeliveredBy
<1>1. CASE UNCHANGED vars \/ Idle
  BY <1>0, <1>1, LoggedOnceFrame DEF vars, memVars, lockVars, logVars, Idle
<1>2. CASE WorkerSweep \/ ShutdownBegins \/ ShutdownEnds
  BY <1>0, <1>2, LoggedOnceFrame
     DEF WorkerSweep, Acquire, ShutdownBegins, ShutdownEnds, memVars, lockVars, logVars
<1>3. ASSUME NEW c \in Compactors, Compaction(c)
      PROVE  LoggedOnce'
  BY <1>0, <1>3, LoggedOnceFrame
     DEF Compaction, TakeSnapshot, CompactWal, ClearGuard, memVars, lockVars, logVars
<1>4. CASE SyncLog \/ AddTip \/ Checkpointing
  BY <1>0, <1>4, LoggedOnceFrame DEF SyncLog, AddTip, Checkpointing, SkipCheckpoint, WriteCheckpoint,
     CommitCheckpoint, CheckpointFails, CheckpointPoisons, AfterCheckpoint, LockReleased,
     memVars, logVars
<1>5. CASE MarkSealed \/ QuarantineTrace
  BY <1>0, <1>5, LoggedOnceFrame DEF MarkSealed, QuarantineTrace, SealReturns, memVars, logVars
<1>6. CASE WriteLog
  <2>1. cur \in Tip /\ cur' = cur /\ step = "write" /\ step' # "write" /\ log' = Append(log, cur)
        /\ UNCHANGED <<buffers, Delivered>>
    BY <1>0, <1>6 DEF WriteLog, AfterWrite, memVars, TypeInv, LockOK
  <2>2. QED
    BY <2>1, LoggedOnceWrites
<1>7. CASE WriteLogFails
  <2>1. cur \in Tip /\ cur' = NoTip /\ step = "write" /\ step' # "write"
        /\ UNCHANGED <<buffers, Delivered>>
    BY <1>0, <1>7 DEF WriteLogFails, SealReturns, TypeInv, LockOK
  <2>2. PICK left \in Prefixes(cur.hash) : log' = WithChain(log, cur.trace, left)
    BY <1>7 DEF WriteLogFails
  <2>3. Chain(cur.trace, left) \in Tip /\ left \subseteq cur.hash
    BY <2>1, <2>2 DEF Chain, Tip, Prefixes
  <2>4. CASE log' = log
    BY <2>1, <2>4, LoggedOnceFrame
  <2>5. CASE log' = Append(log, Chain(cur.trace, left))
    BY <2>1, <2>3, <2>5, LoggedOnceWrites DEF Chain
  <2>6. QED
    BY <2>2, <2>4, <2>5 DEF WithChain
<1>8. CASE SyncLogFails
  <2>1. cur' = NoTip /\ step = "sync" /\ step' # "write" /\ UNCHANGED <<buffers, Delivered>>
    BY <1>0, <1>8 DEF SyncLogFails, SealReturns
  <2>2. \A i \in DOMAIN log' : i \in DOMAIN log /\ log'[i] = log[i]
    <3>1. CASE log' = log
      BY <3>1
    <3>2. CASE log' = SubSeq(log, 1, Len(log) - 1)
      <4>1. Len(log) - 1 \in 0 .. Len(log) /\ log \in Seq(Tip)
        BY <2>1 DEF TypeInv, DataOK, LockOK
      <4>2. DOMAIN log' = 1 .. Len(log) - 1 /\ \A i \in 1 .. Len(log) - 1 : log'[i] = log[i]
        BY <3>2, <4>1, HeadOfSeq
      <4>3. QED
        BY <4>1, <4>2
    <3>3. QED
      BY <1>8, <3>1, <3>2 DEF SyncLogFails
  <2>3. QED
    BY <2>1, <2>2 DEF LoggedOnce, SpansOf
<1>9. QED
  BY <1>0, <1>1, <1>2, <1>3, <1>4, <1>5, <1>6, <1>7, <1>8, LoggedOnceBegins
     DEF Next, SealStep

(* Spans that are delivered once are logged once: the worker, the calls of *)
(* ConsumeTraces and Shutdown never seal a buffer between them, and no     *)
(* failed write leaves entries that are written again (sealTrace).         *)
THEOREM LoggedAtMostOnce ==
  ~Redelivery /\ Spec => []NoDuplicateEntries
<1> SUFFICES ASSUME ~Redelivery
             PROVE  Spec => []NoDuplicateEntries
  OBVIOUS
<1> DEFINE Inv == /\ TypeInv /\ CurInv /\ StopsCounted /\ OpenDelivered
                  /\ Uninterrupted => LoggedOnce
<1>1. Init => LoggedOnce /\ OpenDelivered
  BY DEF Init, LoggedOnce, OpenDelivered, Delivered, Wal!StoreInit
<1>2. Inv /\ [Next]_vars => Inv'
  <2>1. ASSUME Inv, [Next]_vars, Uninterrupted' PROVE LoggedOnce'
    BY <2>1, FirstRun, LoggedOnceStep
  <2>2. QED
    BY <2>1, TypeStep, CurStep, FirstRun, DeliveredBy
<1>3. Inv => NoDuplicateEntries
  BY DEF LoggedOnce, NoDuplicateEntries
<1>4. QED
  BY <1>1, <1>2, <1>3, TypeInit, CurInit, FirstRunInit, PTL DEF Spec

-----------------------------------------------------------------------------
(* How often a tip is covered.                                             *)

LEMMA TimesType ==
  ASSUME NEW S, NEW tips \in Seq(S), NEW k
  PROVE  IsFiniteSet({i \in DOMAIN tips : tips[i] = k}) /\ Times(tips, k) \in Nat
<1>1. IsFiniteSet(1 .. Len(tips))
  BY FS_Interval
<1>2. {i \in DOMAIN tips : tips[i] = k} \in SUBSET (1 .. Len(tips))
  OBVIOUS
<1>3. IsFiniteSet({i \in DOMAIN tips : tips[i] = k})
  BY <1>1, <1>2, FS_Subset
<1>4. QED
  BY <1>3, FS_CardinalityType DEF Times

LEMMA NoTimes == \A k : Times(<<>>, k) = 0
<1>1. \A k : {i \in DOMAIN <<>> : <<>>[i] = k} = {}
  OBVIOUS
<1>2. QED
  BY <1>1, FS_EmptySet DEF Times

(* One more tip at the end.                                                *)
LEMMA TimesLonger ==
  ASSUME NEW S, NEW s \in Seq(S), NEW t \in Seq(S), NEW x, Len(t) = Len(s) + 1,
         t[Len(t)] = x, \A i \in 1 .. Len(s) : t[i] = s[i], NEW k
  PROVE  Times(t, k) = Times(s, k) + (IF x = k THEN 1 ELSE 0)
<1> DEFINE I == {i \in DOMAIN s : s[i] = k}
           J == {i \in DOMAIN t : t[i] = k}
<1>1. /\ DOMAIN s = 1 .. Len(s) /\ DOMAIN t = (1 .. Len(s)) \cup {Len(t)}
      /\ Len(t) \notin I
  OBVIOUS
<1>2. J = IF x = k THEN I \cup {Len(t)} ELSE I
  BY <1>1
<1>3. IsFiniteSet(I) /\ Cardinality(I) \in Nat
  BY TimesType DEF Times
<1> HIDE DEF I, J
<1>4. Cardinality(I \cup {Len(t)}) = Cardinality(I) + 1
  BY <1>1, <1>3, FS_AddElement
<1>5. Cardinality(J) = Cardinality(I) + (IF x = k THEN 1 ELSE 0)
  BY <1>2, <1>3, <1>4
<1>6. QED
  BY <1>5 DEF Times, I, J

LEMMA TimesAppend ==
  ASSUME NEW S, NEW s \in Seq(S), NEW x \in S, NEW k
  PROVE  Times(Append(s, x), k) = Times(s, k) + (IF x = k THEN 1 ELSE 0)
<1>0. Append(s, x) \in Seq(S)
  OBVIOUS
<1>1. PICK t \in Seq(S) : t = Append(s, x)
  BY <1>0
<1>2. Len(t) = Len(s) + 1 /\ t[Len(t)] = x /\ \A i \in 1 .. Len(s) : t[i] = s[i]
  BY <1>1
<1>3. Times(t, k) = Times(s, k) + (IF x = k THEN 1 ELSE 0)
  BY <1>2, TimesLonger
<1>4. QED
  BY <1>1, <1>3

LEMMA TimesOne ==
  ASSUME NEW x, NEW k
  PROVE  Times(<<x>>, k) = IF x = k THEN 1 ELSE 0
<1>1. {i \in DOMAIN <<x>> : <<x>>[i] = k} = IF x = k THEN {1} ELSE {}
  OBVIOUS
<1>2. QED
  BY <1>1, FS_Singleton, FS_EmptySet DEF Times

LEMMA TimesTrimmed ==
  ASSUME NEW tips \in Seq(Tip), NEW k
  PROVE  Times(Trimmed(tips), k) <= Times(tips, k)
<1> USE ExporterAssumption
<1>1. CASE Len(tips) <= MaxPendingTips
  <2>1. Trimmed(tips) = tips
    BY <1>1 DEF Trimmed
  <2>2. Times(tips, k) \in Nat
    BY TimesType
  <2>3. QED
    BY <2>1, <2>2
<1>2. CASE Len(tips) > MaxPendingTips
  <2> DEFINE gone == Len(tips) - MaxPendingTips
             cut == SubSeq(tips, gone + 1, Len(tips))
             I == {i \in DOMAIN cut : cut[i] = k}
             J == {i \in DOMAIN tips : tips[i] = k}
             f == [i \in I |-> gone + i]
  <2>1. Trimmed(tips) = cut /\ gone \in 1 .. Len(tips)
    BY <1>2 DEF Trimmed
  <2>2. cut \in Seq(Tip) /\ Len(cut) = Len(tips) - gone
    BY <1>2, <2>1
  <2>3. /\ \A i \in 1 .. Len(cut) : cut[i] = tips[gone + i]
        /\ \A i \in 1 .. Len(cut) : gone + i \in 1 .. Len(tips) /\ i \in Nat
        /\ DOMAIN cut = 1 .. Len(cut) /\ DOMAIN tips = 1 .. Len(tips)
    <3>1. \A i \in 1 .. Len(cut) : cut[i] = tips[gone + i]
      BY <1>2, <2>1, <2>2
    <3> HIDE DEF cut
    <3>2. \A i \in 1 .. Len(cut) : gone + i \in 1 .. Len(tips) /\ i \in Nat
      BY <2>1, <2>2
    <3>3. QED
      BY <2>2, <3>1, <3>2
  <2>4. f \in [I -> J]
    BY <2>3
  <2>5. \A a, b \in I : f[a] = f[b] => a = b
    <3> HIDE DEF cut
    <3>1. \A i \in I : i \in Nat /\ f[i] = gone + i
      BY <2>3
    <3>2. QED
      BY <2>1, <3>1
  <2>6. f \in Injection(I, J)
    BY <2>4, <2>5 DEF Injection, IsInjective
  <2>7. IsFiniteSet(J)
    BY TimesType
  <2> HIDE DEF I, J, f, cut
  <2>8. Cardinality(I) <= Cardinality(J)
    BY <2>6, <2>7, FS_Injection
  <2>9. QED
    BY <2>1, <2>8 DEF Times, I, J
<1>3. QED
  BY <1>1, <1>2

LEMMA CoveringPlace ==
  ASSUME NEW cs, NEW k, NEW p
  PROVE  p \in PlacesCovering(cs, k) <=>
           \E i \in DOMAIN cs : \E j \in DOMAIN cs[i] : p = <<i, j>> /\ cs[i][j] = k
BY DEF PlacesCovering

(* A checkpoint covers each of its tips once more.                         *)
LEMMA CoveringAppend ==
  ASSUME NEW cs \in Seq(Seq(Tip)), NEW tips \in Seq(Tip), NEW k,
         IsFiniteSet(PlacesCovering(cs, k))
  PROVE  /\ IsFiniteSet(PlacesCovering(Append(cs, tips), k))
         /\ Cardinality(PlacesCovering(Append(cs, tips), k)) =
              Cardinality(PlacesCovering(cs, k)) + Times(tips, k)
<1> DEFINE n == Len(cs) + 1
           J == {j \in DOMAIN tips : tips[j] = k}
           New == {<<n, j>> : j \in J}
           f == [j \in J |-> <<n, j>>]
<1>0. Append(cs, tips) \in Seq(Seq(Tip))
  OBVIOUS
<1>1. PICK all \in Seq(Seq(Tip)) : all = Append(cs, tips)
  BY <1>0
<1>2. /\ DOMAIN all = (DOMAIN cs) \cup {n} /\ n \notin DOMAIN cs
      /\ \A i \in DOMAIN cs : all[i] = cs[i]
      /\ all[n] = tips
  BY <1>1
<1>3. PlacesCovering(all, k) = PlacesCovering(cs, k) \cup New
  <2>1. ASSUME NEW p, p \in PlacesCovering(all, k)
        PROVE  p \in PlacesCovering(cs, k) \cup New
    <3>0. PICK i \in DOMAIN all : \E j \in DOMAIN all[i] : p = <<i, j>> /\ all[i][j] = k
      BY <2>1, CoveringPlace
    <3>1. PICK j \in DOMAIN all[i] : p = <<i, j>> /\ all[i][j] = k
      BY <3>0
    <3>2. CASE i = n
      BY <1>2, <3>1, <3>2
    <3>3. CASE i \in DOMAIN cs
      <4>1. \E h \in DOMAIN cs : \E g \in DOMAIN cs[h] : p = <<h, g>> /\ cs[h][g] = k
        BY <1>2, <3>1, <3>3
      <4>2. QED
        BY <4>1, CoveringPlace
    <3>4. QED
      BY <1>2, <3>2, <3>3
  <2>2. ASSUME NEW p, p \in PlacesCovering(cs, k)
        PROVE  p \in PlacesCovering(all, k)
    <3>0. PICK i \in DOMAIN cs : \E j \in DOMAIN cs[i] : p = <<i, j>> /\ cs[i][j] = k
      BY <2>2, CoveringPlace
    <3>1. PICK j \in DOMAIN cs[i] : p = <<i, j>> /\ cs[i][j] = k
      BY <3>0
    <3>2. \E h \in DOMAIN all : \E g \in DOMAIN all[h] : p = <<h, g>> /\ all[h][g] = k
      BY <1>2, <3>1
    <3>3. QED
      BY <3>2, CoveringPlace
  <2>3. ASSUME NEW p \in New
        PROVE  p \in PlacesCovering(all, k)
    <3>1. PICK j \in J : p = <<n, j>>
      OBVIOUS
    <3>2. \E h \in DOMAIN all : \E g \in DOMAIN all[h] : p = <<h, g>> /\ all[h][g] = k
      BY <1>2, <3>1
    <3>3. QED
      BY <3>2, CoveringPlace
  <2> HIDE DEF New
  <2>4. QED
    BY <2>1, <2>2, <2>3
<1>4. PlacesCovering(cs, k) \cap New = {}
  <2>1. ASSUME NEW p \in New, p \in PlacesCovering(cs, k) PROVE FALSE
    <3>1. PICK i \in DOMAIN cs : \E j \in DOMAIN cs[i] : p = <<i, j>>
      BY <2>1, CoveringPlace
    <3>2. p[1] \in DOMAIN cs /\ p[1] = n
      BY <3>1, <2>1
    <3>3. QED
      BY <1>2, <3>2
  <2>2. QED
    BY <2>1
<1>5. IsFiniteSet(J) /\ Cardinality(J) = Times(tips, k) /\ Times(tips, k) \in Nat
  BY TimesType DEF Times
<1>6. f \in Bijection(J, New)
  <2>1. f \in [J -> New] /\ DOMAIN f = J /\ \A a, b \in J : f[a] = f[b] => a = b
    OBVIOUS
  <2>2. \A p \in New : \E j \in J : f[j] = p
    OBVIOUS
  <2> HIDE DEF f, J, New
  <2>3. f \in Injection(J, New) /\ f \in Surjection(J, New)
    BY <2>1, <2>2 DEF Injection, IsInjective, Surjection
  <2>4. QED
    BY <2>3 DEF Bijection
<1> HIDE DEF J, New, f
<1>7. IsFiniteSet(New) /\ Cardinality(New) = Cardinality(J)
  BY <1>5, <1>6, FS_Bijection DEF ExistsBijection
<1>8. Cardinality(PlacesCovering(cs, k)) \in Nat
  BY FS_CardinalityType
<1>9. /\ IsFiniteSet(PlacesCovering(cs, k) \cup New)
      /\ Cardinality(PlacesCovering(cs, k) \cup New) =
           Cardinality(PlacesCovering(cs, k)) + Cardinality(New)
             - Cardinality(PlacesCovering(cs, k) \cap New)
  BY <1>7, FS_Union
<1>10. Cardinality(PlacesCovering(cs, k) \cap New) = 0
  BY <1>4, FS_EmptySet
<1>11. QED
  BY <1>1, <1>3, <1>5, <1>7, <1>8, <1>9, <1>10

LEMMA CountTypes ==
  ASSUME TypeInv, NEW k
  PROVE  /\ Times(StillPending, k) \in Nat /\ Times(pending, k) \in Nat /\ Times(log, k) \in Nat
         /\ Times(Unadded, k) = IF step \in {"sync", "tip"} /\ cur = k THEN 1 ELSE 0
<1>1. StillPending \in Seq(Tip)
  BY DEF StillPending, TypeInv, DataOK
<1>2. Times(Unadded, k) = IF step \in {"sync", "tip"} /\ cur = k THEN 1 ELSE 0
  BY TimesOne, NoTimes DEF Unadded
<1>3. QED
  BY <1>1, <1>2, TimesType DEF TypeInv, DataOK

(* Steps that neither cover nor log anything.                              *)
LEMMA CountFrame ==
  ASSUME TypeInv, CoveredAsLogged, UNCHANGED <<checkpoints, log, pending, cur>>,
         (step' = "commit") = (step = "commit"),
         (step' \in {"sync", "tip"}) = (step \in {"sync", "tip"})
  PROVE  CoveredAsLogged'
<1>1. StillPending' = StillPending /\ Unadded' = Unadded
  BY DEF StillPending, Unadded
<1>2. QED
  BY <1>1 DEF CoveredAsLogged, Times, PlacesCovering

(* The new balance, tip by tip, in numbers.                                *)
LEMMA CountBalance ==
  ASSUME TypeInv, TypeInv', CoveredAsLogged,
         \A k \in Tip :
           /\ IsFiniteSet(PlacesCovering(checkpoints', k))
           /\ Cardinality(PlacesCovering(checkpoints', k)) + Times(StillPending', k)
                + Times(Unadded', k) + Times(log, k)
              <= Cardinality(PlacesCovering(checkpoints, k)) + Times(StillPending, k)
                   + Times(Unadded, k) + Times(log', k)
  PROVE  CoveredAsLogged'
<1>1. ASSUME NEW k \in Tip
      PROVE  Cardinality(PlacesCovering(checkpoints', k)) + Times(StillPending', k) + Times(Unadded', k)
               <= Times(log', k)
  <2>1. /\ Times(StillPending, k) \in Nat /\ Times(Unadded, k) \in Nat /\ Times(log, k) \in Nat
        /\ Times(log', k) \in Nat
    <3>1. Times(StillPending, k) \in Nat /\ Times(Unadded, k) \in Nat /\ Times(log, k) \in Nat
      BY CountTypes
    <3>2. log' \in Seq(Tip)
      BY DEF TypeInv, DataOK
    <3>3. Times(log', k) \in Nat
      BY <3>2, TimesType
    <3>4. QED
      BY <3>1, <3>3
  <2>2. /\ Cardinality(PlacesCovering(checkpoints, k)) \in Nat
        /\ Cardinality(PlacesCovering(checkpoints', k)) \in Nat
    BY FS_CardinalityType DEF CoveredAsLogged
  <2>3. Times(StillPending', k) \in Nat
    <3>1. <<>> \in Seq(Tip) /\ pending' \in Seq(Tip)
      BY DEF TypeInv, DataOK
    <3>2. StillPending' = <<>> \/ StillPending' = pending'
      BY DEF StillPending
    <3>3. Times(<<>>, k) \in Nat /\ Times(pending', k) \in Nat
      BY <3>1, TimesType
    <3>4. QED
      BY <3>2, <3>3
  <2>4. Times(Unadded', k) \in Nat
    <3>1. Unadded' = <<>> \/ Unadded' = <<cur'>>
      BY DEF Unadded
    <3>2. Times(<<>>, k) \in Nat /\ Times(<<cur'>>, k) \in Nat
      BY NoTimes, TimesOne
    <3>3. QED
      BY <3>1, <3>2
  <2>5. Cardinality(PlacesCovering(checkpoints, k)) + Times(StillPending, k) + Times(Unadded, k)
          <= Times(log, k)
    BY DEF CoveredAsLogged
  <2>6. QED
    BY <2>1, <2>2, <2>3, <2>4, <2>5
<1>2. QED
  BY <1>1 DEF CoveredAsLogged, Times, PlacesCovering

LEMMA CountWrites ==
  ASSUME TypeInv, TypeInv', CoveredAsLogged, WriteLog \/ WriteLogFails \/ SyncLogFails
  PROVE  CoveredAsLogged'
<1>1. UNCHANGED <<checkpoints, pending>> /\ log \in Seq(Tip) /\ cur \in Tip
  BY DEF WriteLog, WriteLogFails, SyncLogFails, memVars, TypeInv, DataOK, LockOK
<1>2. StillPending' = pending /\ StillPending = pending
  BY <1>1 DEF StillPending, WriteLog, WriteLogFails, SyncLogFails, AfterWrite, SealReturns
<1>3. ASSUME NEW k \in Tip
      PROVE  /\ Times(Unadded', k) + Times(log, k) <= Times(Unadded, k) + Times(log', k)
             /\ Times(Unadded, k) \in Nat /\ Times(Unadded', k) \in Nat
             /\ Times(log, k) \in Nat /\ Times(log', k) \in Nat
  <2>1. Times(log, k) \in Nat /\ Times(log', k) \in Nat
    BY TimesType DEF TypeInv, DataOK
  <2>2. CASE WriteLog
    <3>1. Unadded = <<>> /\ Unadded' = <<cur>> /\ log' = Append(log, cur)
      BY <2>2 DEF WriteLog, AfterWrite, Unadded
    <3>2. Times(log', k) = Times(log, k) + (IF cur = k THEN 1 ELSE 0)
      BY <1>1, <3>1, TimesAppend
    <3>3. Times(Unadded, k) = 0 /\ Times(Unadded', k) = IF cur = k THEN 1 ELSE 0
      BY <3>1, NoTimes, TimesOne
    <3>4. QED
      BY <2>1, <3>2, <3>3
  <2>3. CASE WriteLogFails
    <3>1. Unadded = <<>> /\ Unadded' = <<>>
      BY <2>3 DEF WriteLogFails, SealReturns, Unadded
    <3>2. PICK left \in Prefixes(cur.hash) : log' = WithChain(log, cur.trace, left)
      BY <2>3 DEF WriteLogFails
    <3>3. Chain(cur.trace, left) \in Tip
      BY <1>1, <3>2 DEF Chain, Tip, Prefixes
    <3>4. Times(log, k) <= Times(log', k)
      <4>1. CASE log' = log
        BY <2>1, <4>1
      <4>2. CASE log' = Append(log, Chain(cur.trace, left))
        <5>1. Times(log', k) = Times(log, k) + (IF Chain(cur.trace, left) = k THEN 1 ELSE 0)
          BY <1>1, <3>3, <4>2, TimesAppend
        <5>2. QED
          BY <2>1, <5>1
      <4>3. QED
        BY <3>2, <4>1, <4>2 DEF WithChain
    <3>5. QED
      BY <2>1, <3>1, <3>4, NoTimes
  <2>4. CASE SyncLogFails
    <3>1. /\ step = "sync" /\ Unadded = <<cur>> /\ Unadded' = <<>> /\ Len(log) > 0
          /\ log[Len(log)] = cur
      BY <2>4 DEF SyncLogFails, SealReturns, Unadded, TypeInv, DataOK, LockOK
    <3>2. Times(Unadded, k) = (IF cur = k THEN 1 ELSE 0) /\ Times(Unadded', k) = 0
      BY <3>1, NoTimes, TimesOne
    <3>3. CASE log' = log
      BY <2>1, <3>2, <3>3
    <3>4. CASE log' = SubSeq(log, 1, Len(log) - 1)
      <4>1. Len(log) - 1 \in 0 .. Len(log)
        BY <1>1, <3>1
      <4>2. PICK head \in Seq(Tip) :
              head = log' /\ Len(head) = Len(log) - 1 /\ \A i \in 1 .. Len(log) - 1 : head[i] = log[i]
        BY <1>1, <3>4, <4>1, HeadOfSeq
      <4>3. Len(log) = Len(head) + 1 /\ \A i \in 1 .. Len(head) : log[i] = head[i]
        BY <1>1, <4>1, <4>2
      <4>4. Times(log, k) = Times(head, k) + (IF cur = k THEN 1 ELSE 0)
        BY <1>1, <3>1, <4>3, TimesLonger
      <4>5. QED
        BY <2>1, <3>2, <4>2, <4>4
    <3>5. QED
      BY <2>4, <3>3, <3>4 DEF SyncLogFails
  <2>5. QED
    BY <2>2, <2>3, <2>4
<1>4. ASSUME NEW k \in Tip
      PROVE  /\ IsFiniteSet(PlacesCovering(checkpoints', k))
             /\ Cardinality(PlacesCovering(checkpoints', k)) + Times(StillPending', k)
                  + Times(Unadded', k) + Times(log, k)
                <= Cardinality(PlacesCovering(checkpoints, k)) + Times(StillPending, k)
                     + Times(Unadded, k) + Times(log', k)
  <2>1. /\ IsFiniteSet(PlacesCovering(checkpoints, k))
        /\ Cardinality(PlacesCovering(checkpoints, k)) \in Nat
    BY FS_CardinalityType DEF CoveredAsLogged
  <2>2. Times(StillPending, k) \in Nat
    BY CountTypes
  <2>3. /\ PlacesCovering(checkpoints', k) = PlacesCovering(checkpoints, k)
        /\ Times(StillPending', k) = Times(StillPending, k)
    BY <1>1, <1>2
  <2>4. QED
    BY <1>3, <2>1, <2>2, <2>3
<1>5. QED
  BY <1>4, CountBalance

LEMMA CountAddTip ==
  ASSUME TypeInv, TypeInv', CoveredAsLogged, AddTip
  PROVE  CoveredAsLogged'
<1> DEFINE all == Append(pending, cur)
<1>1. /\ UNCHANGED <<checkpoints, log>> /\ pending \in Seq(Tip) /\ cur \in Tip
      /\ StillPending = pending /\ StillPending' = pending'
      /\ Unadded = <<cur>> /\ Unadded' = <<>>
      /\ pending' = pending \/ pending' = Trimmed(all)
  BY DEF AddTip, StillPending, Unadded, logVars, TypeInv, DataOK, LockOK
<1>2. all \in Seq(Tip)
  BY <1>1
<1>3. ASSUME NEW k \in Tip
      PROVE  /\ IsFiniteSet(PlacesCovering(checkpoints', k))
             /\ Cardinality(PlacesCovering(checkpoints', k)) + Times(StillPending', k)
                  + Times(Unadded', k) + Times(log, k)
                <= Cardinality(PlacesCovering(checkpoints, k)) + Times(StillPending, k)
                     + Times(Unadded, k) + Times(log', k)
  <2>1. /\ IsFiniteSet(PlacesCovering(checkpoints, k))
        /\ Cardinality(PlacesCovering(checkpoints, k)) \in Nat
    BY FS_CardinalityType DEF CoveredAsLogged
  <2>2. Times(Unadded, k) = (IF cur = k THEN 1 ELSE 0) /\ Times(Unadded', k) = 0
    BY <1>1, NoTimes, TimesOne
  <2>3. Times(all, k) = Times(pending, k) + (IF cur = k THEN 1 ELSE 0)
    BY <1>1, TimesAppend
  <2>4. Times(pending, k) \in Nat /\ Times(pending', k) \in Nat /\ Times(log, k) \in Nat
    BY TimesType DEF TypeInv, DataOK
  <2>5. Times(pending', k) <= Times(pending, k) + (IF cur = k THEN 1 ELSE 0)
    <3>1. CASE pending' = pending
      BY <2>4, <3>1
    <3>2. CASE pending' = Trimmed(all)
      <4> HIDE DEF all
      <4>1. Times(pending', k) <= Times(all, k)
        BY <1>2, <3>2, TimesTrimmed
      <4>2. QED
        BY <2>3, <4>1
    <3>3. QED
      BY <1>1, <3>1, <3>2
  <2> HIDE DEF all
  <2>6. QED
    BY <1>1, <2>1, <2>2, <2>4, <2>5
<1>4. QED
  BY <1>3, CountBalance

(* A checkpoint in the file, committed or not: its tips do not wait any    *)
(* more.                                                                   *)
LEMMA CountCheckpointing ==
  ASSUME TypeInv, TypeInv', CoveredAsLogged, Checkpointing
  PROVE  CoveredAsLogged'
<1>1. /\ log' = log /\ cur' = cur /\ pending \in Seq(Tip) /\ checkpoints \in Seq(Seq(Tip))
      /\ step \in {"checkpoint", "final", "commit"} /\ step' \in {"mark", "idle", "commit"}
  BY DEF Checkpointing, SkipCheckpoint, WriteCheckpoint, CommitCheckpoint, CheckpointFails,
     CheckpointPoisons, CheckpointDue, AfterCheckpoint, LockReleased, logVars, TypeInv, DataOK
<1>2. CASE SkipCheckpoint \/ CheckpointFails
  <2>1. UNCHANGED <<checkpoints, pending>> /\ step # "commit" /\ step' # "commit"
    BY <1>2 DEF SkipCheckpoint, CheckpointFails, CheckpointDue, AfterCheckpoint, LockReleased, memVars
  <2>2. QED
    BY <1>1, <2>1, CountFrame
<1>3. CASE WriteCheckpoint \/ CommitCheckpoint \/ CheckpointPoisons
  <2>1. /\ StillPending' = <<>> /\ Unadded = <<>> /\ Unadded' = <<>>
        /\ \/ checkpoints' = checkpoints
           \/ StillPending = pending /\ checkpoints' = Append(checkpoints, pending)
    <3>1. Unadded = <<>> /\ Unadded' = <<>>
      BY <1>1 DEF Unadded
    <3>2. CASE WriteCheckpoint
      BY <3>1, <3>2 DEF WriteCheckpoint, CheckpointDue, StillPending
    <3>3. CASE CommitCheckpoint
      BY <3>1, <3>3 DEF CommitCheckpoint, LeftPending, StillPending
    <3>4. CASE CheckpointPoisons
      BY <3>1, <3>4 DEF CheckpointPoisons, CheckpointDue, StillPending
    <3>5. QED
      BY <1>3, <3>2, <3>3, <3>4
  <2>2. ASSUME NEW k \in Tip
        PROVE  /\ IsFiniteSet(PlacesCovering(checkpoints', k))
               /\ Cardinality(PlacesCovering(checkpoints', k)) + Times(StillPending', k)
                    + Times(Unadded', k) + Times(log, k)
                  <= Cardinality(PlacesCovering(checkpoints, k)) + Times(StillPending, k)
                       + Times(Unadded, k) + Times(log', k)
    <3>1. /\ IsFiniteSet(PlacesCovering(checkpoints, k))
          /\ Cardinality(PlacesCovering(checkpoints, k)) \in Nat
      BY FS_CardinalityType DEF CoveredAsLogged
    <3>2. Times(StillPending, k) \in Nat /\ Times(log, k) \in Nat
      BY CountTypes
    <3>3. Times(StillPending', k) = 0 /\ Times(Unadded, k) = 0 /\ Times(Unadded', k) = 0
      BY <2>1, NoTimes
    <3>4. CASE checkpoints' = checkpoints
      BY <1>1, <3>1, <3>2, <3>3, <3>4
    <3>5. CASE StillPending = pending /\ checkpoints' = Append(checkpoints, pending)
      <4>1. /\ IsFiniteSet(PlacesCovering(checkpoints', k))
            /\ Cardinality(PlacesCovering(checkpoints', k)) =
                 Cardinality(PlacesCovering(checkpoints, k)) + Times(pending, k)
        BY <1>1, <3>1, <3>5, CoveringAppend
      <4>2. QED
        BY <1>1, <3>1, <3>2, <3>3, <3>5, <4>1
    <3>6. QED
      BY <2>1, <3>4, <3>5
  <2>3. QED
    BY <2>2, CountBalance
<1>4. QED
  BY <1>2, <1>3 DEF Checkpointing

LEMMA CountStep ==
  ASSUME TypeInv, TypeInv', CurInv, CoveredAsLogged,
         [Next]_vars, ~(Crash \/ PowerLoss \/ Exit \/ Start)
  PROVE  CoveredAsLogged'
<1> DEFINE Outside == {"idle", "next", "write", "checkpoint", "mark", "quarantine", "final"}
<1>1. ASSUME step \in Outside, step' \in Outside, UNCHANGED <<checkpoints, log, pending>>
      PROVE  CoveredAsLogged'
  <2>1. StillPending' = StillPending /\ Unadded' = Unadded
    BY <1>1 DEF StillPending, Unadded
  <2>2. QED
    BY <1>1, <2>1 DEF CoveredAsLogged, Times, PlacesCovering
<1>2. CASE UNCHANGED vars \/ Idle
  BY <1>2, CountFrame DEF vars, memVars, lockVars, logVars, Idle
<1>3. CASE (\E t \in Traces, s \in Spans : ConsumeSpan(t, s)) \/ WorkerSweep \/ ShutdownBegins
  <2>1. step = "idle"
    BY <1>3 DEF ConsumeSpan, WorkerSweep, ShutdownBegins, LockFree, TypeInv, LockOK
  <2>2. step' \in Outside /\ UNCHANGED <<checkpoints, log, pending>>
    BY <1>3, <2>1 DEF ConsumeSpan, WorkerSweep, ShutdownBegins, Acquire, memVars, lockVars, logVars
  <2>3. QED
    BY <1>1, <2>1, <2>2
<1>4. CASE ShutdownEnds
  BY <1>4, CountFrame DEF ShutdownEnds, lockVars, logVars
<1>5. ASSUME NEW c \in Compactors, Compaction(c)
      PROVE  CoveredAsLogged'
  BY <1>5, CountFrame DEF Compaction, TakeSnapshot, CompactWal, ClearGuard, memVars, lockVars, logVars
<1>6. ASSUME NEW t \in Traces, BeginSeal(t)
      PROVE  CoveredAsLogged'
  BY <1>1, <1>6 DEF BeginSeal, FirstStep, logVars
<1>7. CASE SyncLog
  BY <1>7, CountFrame DEF SyncLog, memVars
<1>8. CASE MarkSealed \/ QuarantineTrace
  BY <1>1, <1>8 DEF MarkSealed, QuarantineTrace, SealReturns, memVars, logVars
<1>9. QED
  BY <1>2, <1>3, <1>4, <1>5, <1>6, <1>7, <1>8, CountWrites, CountAddTip, CountCheckpointing
     DEF Next, SealStep

(* However checkpoints fail, are retried or poison the file, a chain is    *)
(* covered no more often than it is in the log (PendingTips, Commit).      *)
THEOREM CoveredAtMostOnce == Spec => []NoChainCoveredTwice
<1> DEFINE Inv == TypeInv /\ CurInv /\ StopsCounted /\ (Uninterrupted => CoveredAsLogged)
<1>1. Init => CoveredAsLogged
  <2> SUFFICES ASSUME Init, NEW k \in Tip
               PROVE  /\ IsFiniteSet(PlacesCovering(checkpoints, k))
                      /\ Cardinality(PlacesCovering(checkpoints, k)) + Times(StillPending, k)
                           + Times(Unadded, k) <= Times(log, k)
    BY DEF CoveredAsLogged
  <2>1. checkpoints = <<>> /\ log = <<>> /\ StillPending = <<>> /\ Unadded = <<>>
    BY DEF Init, StillPending, Unadded
  <2>2. PlacesCovering(checkpoints, k) = {}
    BY <2>1 DEF PlacesCovering
  <2>3. Times(StillPending, k) = 0 /\ Times(Unadded, k) = 0 /\ Times(log, k) = 0
    BY <2>1, NoTimes
  <2>4. IsFiniteSet({}) /\ Cardinality({}) = 0
    BY FS_EmptySet
  <2>5. QED
    BY <2>2, <2>3, <2>4
<1>2. Inv /\ [Next]_vars => Inv'
  <2>1. ASSUME Inv, [Next]_vars, Uninterrupted' PROVE CoveredAsLogged'
    BY <2>1, FirstRun, CountStep, TypeStep
  <2>2. QED
    BY <2>1, TypeStep, CurStep, FirstRun
<1>3. Inv => NoChainCoveredTwice
  <2>1. ASSUME Inv, Uninterrupted, NEW k \in Covered
        PROVE  TimesCovered(k) <= TimesLogged(k)
    <3>1. k \in Tip
      BY <2>1 DEF Covered, ToSet, TypeInv, DataOK
    <3>2. /\ TimesCovered(k) = Cardinality(PlacesCovering(checkpoints, k))
          /\ TimesLogged(k) = Times(log, k)
      BY DEF TimesCovered, PlacesCovering, TimesLogged, Times
    <3>3. /\ Cardinality(PlacesCovering(checkpoints, k)) \in Nat
          /\ Times(StillPending, k) \in Nat /\ Times(Unadded, k) \in Nat /\ Times(log, k) \in Nat
          /\ Cardinality(PlacesCovering(checkpoints, k)) + Times(StillPending, k) + Times(Unadded, k)
               <= Times(log, k)
      BY <2>1, <3>1, CountTypes, FS_CardinalityType DEF CoveredAsLogged
    <3>4. QED
      BY <3>2, <3>3
  <2>2. QED
    BY <2>1 DEF NoChainCoveredTwice
<1>4. QED
  BY <1>1, <1>2, <1>3, TypeInit, CurInit, FirstRunInit, PTL DEF Spec


-----------------------------------------------------------------------------
(* A shutdown without a failure.                                           *)

LEMMA NoFault ==
  ASSUME TypeInv, faults' = 0, NEW kind
  PROVE  ~Fail(kind)
BY ExporterAssumption DEF Fail, TypeInv, DataOK

(* Until the process stops, faults are only added up.                      *)
LEMMA FaultFree ==
  ASSUME TypeInv, [Next]_vars, ~(Crash \/ PowerLoss \/ Exit \/ Start), faults' = 0
  PROVE  faults = 0
<1> USE DEF TypeInv, DataOK
<1>0. \A kind : ~Fail(kind)
  BY NoFault
<1>1. CASE UNCHANGED vars \/ Idle \/ WorkerSweep \/ ShutdownBegins \/ ShutdownEnds
  BY <1>0, <1>1 DEF vars, countVars, Idle, WorkerSweep, ShutdownBegins, ShutdownEnds
<1>2. ASSUME NEW t \in Traces, NEW s \in Spans, ConsumeSpan(t, s)
      PROVE  faults' = faults
  BY <1>0, <1>2 DEF ConsumeSpan
<1>3. CASE SealStep
  BY <1>0, <1>3 DEF SealStep, BeginSeal, WriteLog, WriteLogFails, SyncLog, SyncLogFails,
     AddTip, Checkpointing, SkipCheckpoint, WriteCheckpoint, CommitCheckpoint, CheckpointFails,
     CheckpointPoisons, MarkSealed, QuarantineTrace, countVars
<1>4. ASSUME NEW c \in Compactors, Compaction(c)
      PROVE  faults' = faults
  BY <1>0, <1>4 DEF Compaction, TakeSnapshot, CompactWal, ClearGuard, countVars
<1>5. QED
  BY <1>1, <1>2, <1>3, <1>4 DEF Next

LEMMA CleanInit == Init => Clean
BY NoTipAssumption
   DEF Init, Clean, NothingFailed, SpansInPlace, OpenInPlace, ChainsInPlace, ShutdownLeaves,
       ToSet, Wal!StoreInit

(* Spans, logged chains and covered chains that stay where they are.       *)
LEMMA SpansFrame ==
  ASSUME SpansInPlace, OpenInPlace, UNCHANGED <<promised, buffers, log, walOpen, cur>>,
         (step' = "write") = (step = "write")
  PROVE  SpansInPlace' /\ OpenInPlace'
<1>1. \A k : SpansOf(k)' = SpansOf(k)
  BY DEF SpansOf
<1>2. SpansOf(cur)' = SpansOf(cur)
  BY DEF SpansOf
<1>3. OpenInPlace'
  BY DEF OpenInPlace
<1> HIDE DEF SpansOf
<1>4. SpansInPlace'
  BY <1>1, <1>2 DEF SpansInPlace, SpansOf
<1>5. QED
  BY <1>3, <1>4

LEMMA ChainsFrame ==
  ASSUME ChainsInPlace, UNCHANGED <<log, checkpoints, abandoned, pending, cur>>,
         (step' = "commit") = (step = "commit"),
         (step' \in {"sync", "tip"}) = (step \in {"sync", "tip"})
  PROVE  ChainsInPlace'
BY DEF ChainsInPlace, ToSet, Covered, Unadded

LEMMA NothingOwed ==
  ASSUME TypeInv, NEW tips, CompactStore(tips), tips = {} \/ walOwed = <<>>
  PROVE  walOwed' = <<>>
<1>1. PICK n \in 0 .. Len(walOwed) :
        \E at \in Wal!Ascending(n, {i \in DOMAIN walOwed : walOwed[i] \in tips}) :
          walOwed' = [j \in 1 .. n |-> walOwed[at[j]]]
  BY DEF CompactStore, Wal!StoreCompact
<1>2. PICK at \in Wal!Ascending(n, {i \in DOMAIN walOwed : walOwed[i] \in tips}) :
        walOwed' = [j \in 1 .. n |-> walOwed[at[j]]]
  BY <1>1
<1>3. {i \in DOMAIN walOwed : walOwed[i] \in tips} = {}
  OBVIOUS
<1>4. at \in [1 .. n -> {}] /\ n \in Nat
  BY <1>2, <1>3 DEF Wal!Ascending, TypeInv, DataOK
<1>5. n = 0
  BY <1>4
<1>6. QED
  BY <1>2, <1>5

LEMMA CleanConsume ==
  ASSUME TypeInv, CurInv, Clean, faults' = 0,
         NEW t \in Traces, NEW s \in Spans, ConsumeSpan(t, s)
  PROVE  Clean'
<1>1. /\ step = "idle" /\ cur = NoTip /\ step' \in {"idle", "next"} /\ cur' = NoTip
      /\ phase' = "running"
      /\ UNCHANGED <<log, checkpoints, abandoned, pending, logPoisoned, checkpointPoisoned, backoff>>
      /\ promised' = promised \cup {<<t, s>>}
      /\ buffers' = [buffers EXCEPT ![t] = @ \cup {s}]
      /\ walOpen' = [walOpen EXCEPT ![t] = @ \cup {s}]
  BY NoFault
     DEF ConsumeSpan, LockFree, Acquire, lockVars, logVars, Wal!StoreAppend, TypeInv, LockOK, CurInv
<1>2. /\ \A u \in Traces : buffers[u] \subseteq buffers'[u]
      /\ s \in buffers'[t]
      /\ \A u \in Traces : walOpen'[u] \subseteq (walOpen[u] \cup {r \in Spans : u = t /\ r = s})
  BY <1>1 DEF TypeInv, DataOK
<1>3. NothingFailed'
  BY <1>1 DEF Clean, NothingFailed
<1>4. SpansInPlace'
  <2>1. \A k : SpansOf(k)' = SpansOf(k)
    BY DEF SpansOf
  <2>2. \A x \in promised : x[1] \in Traces
    BY DEF TypeInv, DataOK
  <2> HIDE DEF SpansOf
  <2>3. QED
    BY <1>1, <1>2, <2>1, <2>2 DEF Clean, SpansInPlace, SpansOf
<1>5. OpenInPlace'
  BY <1>1, <1>2 DEF Clean, OpenInPlace
<1>6. ChainsInPlace'
  BY <1>1, ChainsFrame DEF Clean
<1>7. ShutdownLeaves'
  BY <1>1 DEF ShutdownLeaves
<1>8. QED
  BY <1>3, <1>4, <1>5, <1>6, <1>7 DEF Clean

LEMMA CleanLocks ==
  ASSUME TypeInv, CurInv, Clean, faults' = 0, WorkerSweep \/ ShutdownBegins \/ ShutdownEnds
  PROVE  Clean'
<1>1. /\ step = "idle" /\ cur = NoTip /\ step' \in {"idle", "next", "final"} /\ cur' = cur
      /\ UNCHANGED <<promised, buffers, log, checkpoints, abandoned, pending, logPoisoned,
                     checkpointPoisoned, backoff>>
  BY DEF WorkerSweep, ShutdownBegins, ShutdownEnds, LockFree, Acquire, memVars, logVars, lockVars,
         TypeInv, LockOK, CurInv
<1>2. walOpen' = walOpen
  BY NoFault, CompactedTips DEF WorkerSweep, ShutdownBegins, ShutdownEnds, walVars, CompactStore,
     Wal!StoreCompact
<1>3. NothingFailed'
  BY <1>1 DEF Clean, NothingFailed
<1>4. SpansInPlace' /\ OpenInPlace'
  BY <1>1, <1>2, SpansFrame DEF Clean
<1>5. ChainsInPlace'
  BY <1>1, ChainsFrame DEF Clean
<1>6. ASSUME WorkerSweep PROVE ShutdownLeaves'
  BY <1>6 DEF WorkerSweep, LockFree, memVars, ShutdownLeaves
<1>7. ASSUME ShutdownBegins PROVE ShutdownLeaves'
  <2>1. /\ phase' = "closing" /\ holder' = "shutdown" /\ todo' = ForceSealed
        /\ step' # "idle" /\ UNCHANGED buffers
    BY <1>7 DEF ShutdownBegins
  <2>2. \A t \in Traces : buffers'[t] # {} => t \in todo'
    BY <2>1 DEF ForceSealed, OpenTraces
  <2>3. QED
    BY <2>1, <2>2 DEF ShutdownLeaves
<1>8. ASSUME ShutdownEnds PROVE ShutdownLeaves'
  <2>1. /\ phase = "closing" /\ phase' = "stopped" /\ holder = "none" /\ UNCHANGED <<todo, step>>
        /\ CompactStore(ToSet(pending))
    BY <1>8, NoFault DEF ShutdownEnds, lockVars
  <2>2. pending = <<>>
    BY <1>1, <2>1 DEF Clean, ShutdownLeaves
  <2>3. walOwed' = <<>>
    BY <2>1, <2>2, NothingOwed DEF ToSet
  <2>4. QED
    BY <1>1, <2>1, <2>2, <2>3 DEF Clean, ShutdownLeaves
<1>9. QED
  BY <1>3, <1>4, <1>5, <1>6, <1>7, <1>8 DEF Clean

LEMMA CleanCompaction ==
  ASSUME TypeInv, CurInv, Clean, faults' = 0, NEW c \in Compactors, Compaction(c)
  PROVE  Clean'
<1>1. UNCHANGED <<promised, buffers, log, checkpoints, abandoned, pending, logPoisoned,
                  checkpointPoisoned, backoff, phase, holder, todo, step, cur>>
  BY DEF Compaction, TakeSnapshot, CompactWal, ClearGuard, memVars, logVars, lockVars
<1>2. walOpen' = walOpen /\ (walOwed = <<>> => walOwed' = <<>>)
  <2>1. UNCHANGED walVars \/ CompactStore(goroutines[c].tips)
    BY DEF Compaction, TakeSnapshot, CompactWal, ClearGuard, walVars
  <2>2. CASE UNCHANGED walVars
    BY <2>2 DEF walVars
  <2>3. CASE CompactStore(goroutines[c].tips)
    <3>1. walOpen' = walOpen
      BY <2>3 DEF CompactStore, Wal!StoreCompact
    <3>2. walOwed = <<>> => walOwed' = <<>>
      BY <2>3, NothingOwed
    <3>3. QED
      BY <3>1, <3>2
  <2>4. QED
    BY <2>1, <2>2, <2>3
<1>3. NothingFailed' /\ ShutdownLeaves'
  BY <1>1, <1>2 DEF Clean, NothingFailed, ShutdownLeaves
<1>4. QED
  BY <1>1, <1>2, <1>3, SpansFrame, ChainsFrame DEF Clean

LEMMA CleanBegins ==
  ASSUME TypeInv, CurInv, Clean, NEW t \in Traces, BeginSeal(t)
  PROVE  Clean'
<1>1. /\ step = "next" /\ cur = NoTip /\ cur' = Chain(t, buffers[t])
      /\ buffers' = [buffers EXCEPT ![t] = {}] /\ todo' = todo \ {t}
      /\ UNCHANGED <<phase, holder, pending, promised, log, checkpoints, abandoned, walOpen, walOwed,
                     backoff, checkpointPoisoned, logPoisoned>>
  BY DEF BeginSeal, BufferDropped, logVars, walVars, CurInv
<1>2. step' = "write" /\ ~logPoisoned
  BY DEF BeginSeal, FirstStep, Clean, NothingFailed
<1>3. cur' \in Tip /\ cur'.trace = t /\ cur'.hash = buffers[t]
  BY <1>1 DEF Chain, Tip, TypeInv, DataOK
<1>4. /\ buffers'[t] = {}
      /\ \A u \in Traces : u # t => buffers'[u] = buffers[u]
  BY <1>1 DEF TypeInv, DataOK
<1>5. NothingFailed'
  BY <1>1, <1>2 DEF Clean, NothingFailed
<1>6. SpansInPlace'
  <2> SUFFICES ASSUME NEW x \in promised
               PROVE  \/ x[2] \in buffers'[x[1]]
                      \/ x \in SpansOf(cur)'
                      \/ \E i \in DOMAIN log : x \in SpansOf(log[i])
    BY <1>1, <1>2 DEF SpansInPlace, SpansOf
  <2>1. x = <<x[1], x[2]>> /\ x[1] \in Traces
    BY DEF TypeInv, DataOK
  <2>2. x[2] \in buffers[x[1]] \/ \E i \in DOMAIN log : x \in SpansOf(log[i])
    BY <1>1 DEF Clean, SpansInPlace
  <2>3. CASE x[1] = t /\ x[2] \in buffers[t]
    BY <1>3, <2>1, <2>3 DEF SpansOf
  <2>4. QED
    BY <1>4, <2>1, <2>2, <2>3
<1>7. OpenInPlace'
  <2>1. cur' # NoTip
    BY <1>3, NoTipAssumption
  <2>2. QED
    BY <1>1, <1>3, <1>4, <2>1 DEF Clean, OpenInPlace
<1>8. ChainsInPlace'
  BY <1>1, <1>2, ChainsFrame DEF Clean, ChainsInPlace, ToSet, Covered, Unadded
<1>9. ShutdownLeaves'
  <2>1. phase \in {"closing", "stopped"} => \A u \in Traces : buffers'[u] # {} => u \in todo'
    BY <1>1, <1>4 DEF Clean, ShutdownLeaves
  <2>2. QED
    BY <1>1, <1>2, <2>1 DEF Clean, ShutdownLeaves
<1>10. QED
  BY <1>5, <1>6, <1>7, <1>8, <1>9 DEF Clean

LEMMA CleanWrites ==
  ASSUME TypeInv, CurInv, Clean, WriteLog \/ SyncLog
  PROVE  Clean'
<1>1. /\ UNCHANGED <<phase, holder, todo, cur, pending, promised, buffers, checkpoints, abandoned,
                     walOpen, walOwed, backoff, checkpointPoisoned, logPoisoned>>
      /\ step' \in {"sync", "tip"} /\ cur \in Tip /\ log \in Seq(Tip)
  BY DEF WriteLog, SyncLog, AfterWrite, memVars, walVars, TypeInv, DataOK, LockOK
<1>2. NothingFailed' /\ OpenInPlace' /\ ShutdownLeaves'
  <2>1. phase = "closing" => step # "idle"
    BY DEF WriteLog, SyncLog
  <2>2. QED
    BY <1>1 DEF Clean, NothingFailed, OpenInPlace, ShutdownLeaves
<1>3. CASE SyncLog
  <2>1. log' = log /\ step = "sync" /\ step' = "tip"
    BY <1>3 DEF SyncLog
  <2>2. QED
    BY <1>1, <1>2, <2>1, SpansFrame, ChainsFrame DEF Clean
<1>4. CASE WriteLog
  <2>1. log' = Append(log, cur) /\ step = "write"
    BY <1>4 DEF WriteLog
  <2>2. /\ \A i \in DOMAIN log : i \in DOMAIN log' /\ log'[i] = log[i]
        /\ Len(log) + 1 \in DOMAIN log' /\ log'[Len(log) + 1] = cur
    BY <1>1, <2>1
  <2>3. SpansInPlace'
    <3>1. \A k : SpansOf(k)' = SpansOf(k)
      BY DEF SpansOf
    <3> SUFFICES ASSUME NEW x \in promised
                 PROVE  \/ x[2] \in buffers[x[1]]
                        \/ \E i \in DOMAIN log' : x \in SpansOf(log'[i])
      BY <1>1 DEF SpansInPlace, SpansOf
    <3>2. \/ x[2] \in buffers[x[1]] \/ x \in SpansOf(cur)
          \/ \E i \in DOMAIN log : x \in SpansOf(log[i])
      BY DEF Clean, SpansInPlace
    <3> HIDE DEF SpansOf
    <3>3. QED
      BY <2>2, <3>2
  <2>4. ChainsInPlace'
    <3>1. ToSet(log') = ToSet(log) \cup {cur} /\ Unadded' = <<cur>>
      BY <1>1, <2>1, AppendedTip DEF Unadded
    <3>2. ToSet(log) \subseteq Covered \cup abandoned \cup ToSet(pending)
      BY <2>1 DEF Clean, ChainsInPlace, Unadded, ToSet
    <3>3. cur \in ToSet(<<cur>>)
      BY DEF ToSet
    <3>4. Covered' = Covered /\ ToSet(pending)' = ToSet(pending) /\ ToSet(log)' = ToSet(log')
          /\ ToSet(Unadded)' = ToSet(Unadded')
      BY <1>1 DEF Covered, ToSet
    <3>5. QED
      BY <1>1, <3>1, <3>2, <3>3, <3>4 DEF ChainsInPlace
  <2>5. QED
    BY <1>2, <2>3, <2>4 DEF Clean
<1>5. QED
  BY <1>3, <1>4

LEMMA CleanAddTip ==
  ASSUME TypeInv, CurInv, Clean, AddTip
  PROVE  Clean'
<1> DEFINE all == Append(pending, cur)
<1>1. /\ UNCHANGED <<phase, holder, todo, cur, promised, buffers, log, checkpoints, walOpen, walOwed,
                     backoff, checkpointPoisoned, logPoisoned>>
      /\ step = "tip" /\ step' = "checkpoint" /\ cur \in Tip /\ pending \in Seq(Tip)
  BY DEF AddTip, walVars, logVars, TypeInv, DataOK, LockOK
<1>2. /\ pending' = Trimmed(all)
      /\ abandoned' = abandoned \cup {all[i] : i \in 1 .. Len(all) - Len(Trimmed(all))}
  BY DEF AddTip, Clean, NothingFailed
<1>3. all \in Seq(Tip) /\ ToSet(all) = ToSet(pending) \cup {cur}
  BY <1>1, AppendedTip
<1>4. NothingFailed' /\ ShutdownLeaves'
  BY <1>1 DEF Clean, NothingFailed, ShutdownLeaves, TypeInv, LockOK
<1>5. ToSet(pending) \cup {cur} \subseteq ToSet(pending') \cup abandoned' /\ abandoned \subseteq abandoned'
  <2> HIDE DEF all
  <2>1. QED
    BY <1>2, <1>3, TrimmedKeeps
<1>6. ChainsInPlace'
  <2>1. ToSet(log) \subseteq Covered \cup abandoned \cup ToSet(pending) \cup {cur}
    BY <1>1 DEF Clean, ChainsInPlace, Unadded, ToSet
  <2>2. Covered' = Covered /\ ToSet(log)' = ToSet(log) /\ ToSet(pending)' = ToSet(pending')
    BY <1>1 DEF Covered, ToSet
  <2>3. QED
    BY <1>1, <1>5, <2>1, <2>2 DEF ChainsInPlace
<1>7. QED
  BY <1>1, <1>4, <1>6, SpansFrame DEF Clean

LEMMA CleanCheckpointing ==
  ASSUME TypeInv, CurInv, Clean, faults' = 0, Checkpointing
  PROVE  Clean'
<1>1. SkipCheckpoint \/ WriteCheckpoint \/ CommitCheckpoint
  BY NoFault DEF Checkpointing, CheckpointFails, CheckpointPoisons
<1>2. /\ UNCHANGED <<phase, todo, cur, promised, buffers, log, walOpen, walOwed, abandoned,
                     checkpointPoisoned, logPoisoned>>
      /\ step \in {"checkpoint", "final", "commit"} /\ step' \in {"idle", "mark", "commit"}
      /\ pending \in Seq(Tip) /\ checkpoints \in Seq(Seq(Tip))
  BY <1>1 DEF SkipCheckpoint, WriteCheckpoint, CommitCheckpoint, CheckpointDue, AfterCheckpoint,
     LockReleased, memVars, walVars, logVars, TypeInv, DataOK
<1>3. NothingFailed'
  BY <1>1, <1>2 DEF SkipCheckpoint, WriteCheckpoint, CommitCheckpoint, memVars, Clean, NothingFailed
<1>4. SpansInPlace' /\ OpenInPlace'
  BY <1>2, SpansFrame DEF Clean
<1>5. ChainsInPlace'
  <2>1. ToSet(log) \subseteq Covered \cup abandoned \cup ToSet(pending)
    BY <1>2 DEF Clean, ChainsInPlace, Unadded, ToSet
  <2>2. ToSet(log)' = ToSet(log)
    BY <1>2 DEF ToSet
  <2>3. CASE SkipCheckpoint
    <3>1. /\ step' # "commit" /\ checkpoints' = checkpoints /\ pending' = pending
      BY <2>3 DEF SkipCheckpoint, memVars, AfterCheckpoint, LockReleased
    <3>2. Covered' = Covered /\ ToSet(pending)' = ToSet(pending)
      BY <3>1 DEF Covered, ToSet
    <3>3. QED
      BY <1>2, <2>1, <2>2, <3>1, <3>2 DEF ChainsInPlace
  <2>4. CASE WriteCheckpoint
    <3>1. checkpoints' = Append(checkpoints, pending) /\ pending' = pending
      BY <2>4 DEF WriteCheckpoint, memVars
    <3>2. Covered' = Covered \cup ToSet(pending) /\ ToSet(pending)' = ToSet(pending)
      BY <1>2, <3>1, AppendedCheckpoint DEF ToSet
    <3>3. QED
      BY <1>2, <2>1, <2>2, <3>2 DEF ChainsInPlace
  <2>5. CASE CommitCheckpoint
    <3>1. step' # "commit" /\ step = "commit" /\ checkpoints' = checkpoints
      BY <2>5 DEF CommitCheckpoint, AfterCheckpoint, LockReleased
    <3>2. ToSet(pending) \subseteq Covered
      BY <3>1 DEF Clean, ChainsInPlace
    <3>3. Covered' = Covered
      BY <3>1 DEF Covered, ToSet
    <3>4. QED
      BY <1>2, <2>1, <2>2, <3>1, <3>2, <3>3 DEF ChainsInPlace
  <2>6. QED
    BY <1>1, <2>3, <2>4, <2>5
<1>6. ShutdownLeaves'
  <2>1. phase' = "closing" => holder' \in {"none", "shutdown"}
    BY <1>1, <1>2 DEF SkipCheckpoint, WriteCheckpoint, CommitCheckpoint, AfterCheckpoint,
       LockReleased, Clean, ShutdownLeaves
  <2>2. phase # "stopped"
    BY <1>2 DEF TypeInv, LockOK
  <2>3. phase = "closing" /\ step' = "idle" => pending' = <<>>
    <3>1. CASE SkipCheckpoint
      BY <1>2, <3>1 DEF SkipCheckpoint, AfterCheckpoint, CheckpointDue, CurInv, memVars
    <3>2. CASE CommitCheckpoint
      BY <3>2 DEF CommitCheckpoint, LeftPending
    <3>3. QED
      BY <1>1, <3>1, <3>2 DEF WriteCheckpoint
  <2>4. QED
    BY <1>2, <2>1, <2>2, <2>3 DEF Clean, ShutdownLeaves
<1>7. QED
  BY <1>3, <1>4, <1>5, <1>6 DEF Clean

LEMMA CleanMarks ==
  ASSUME TypeInv, CurInv, Clean, faults' = 0, MarkSealed
  PROVE  Clean'
<1>1. /\ step = "mark" /\ step' \in {"next", "final", "idle"} /\ cur' = NoTip /\ cur \in Tip
      /\ UNCHANGED <<phase, todo, pending, promised, buffers, log, checkpoints, abandoned,
                     backoff, checkpointPoisoned, logPoisoned>>
      /\ walOpen' = [walOpen EXCEPT ![cur.trace] = {}]
  BY NoFault DEF MarkSealed, MarkWal, Wal!StoreSeal, SealReturns, memVars, logVars, TypeInv, LockOK
<1>2. NothingFailed'
  BY <1>1 DEF Clean, NothingFailed
<1>3. SpansInPlace'
  <2>1. \A k : SpansOf(k)' = SpansOf(k)
    BY DEF SpansOf
  <2> HIDE DEF SpansOf
  <2>2. QED
    BY <1>1, <2>1 DEF Clean, SpansInPlace, SpansOf
<1>4. OpenInPlace'
  <2>1. \A t \in Traces : walOpen'[t] = IF t = cur.trace THEN {} ELSE walOpen[t]
    BY <1>1 DEF TypeInv, DataOK
  <2>2. QED
    BY <1>1, <2>1 DEF Clean, OpenInPlace
<1>5. ChainsInPlace'
  BY <1>1 DEF Clean, ChainsInPlace, Unadded, ToSet, Covered
<1>6. ShutdownLeaves'
  <2>1. phase # "stopped" /\ holder # "none"
    BY <1>1 DEF TypeInv, LockOK
  <2>2. phase = "closing" => holder' = "shutdown" /\ step' # "idle"
    BY <2>1 DEF MarkSealed, SealReturns, Clean, ShutdownLeaves
  <2>3. QED
    BY <1>1, <2>1, <2>2 DEF Clean, ShutdownLeaves
<1>7. QED
  BY <1>2, <1>3, <1>4, <1>5, <1>6 DEF Clean

LEMMA CleanStep ==
  ASSUME TypeInv, CurInv, Clean, faults' = 0, [Next]_vars, ~(Crash \/ PowerLoss \/ Exit \/ Start)
  PROVE  Clean'
<1>1. CASE UNCHANGED vars \/ Idle
  <2>1. UNCHANGED <<promised, buffers, log, checkpoints, abandoned, pending, logPoisoned, backoff,
                    checkpointPoisoned, phase, holder, todo, step, cur, walOpen, walOwed>>
    BY <1>1 DEF Idle, vars, memVars, lockVars, walVars, logVars
  <2>2. NothingFailed' /\ ShutdownLeaves'
    BY <2>1 DEF Clean, NothingFailed, ShutdownLeaves
  <2>3. QED
    BY <2>1, <2>2, SpansFrame, ChainsFrame DEF Clean
<1>2. ~(WriteLogFails \/ SyncLogFails \/ QuarantineTrace)
  BY NoFault DEF WriteLogFails, SyncLogFails, QuarantineTrace, Clean, NothingFailed
<1>3. QED
  BY <1>1, <1>2, CleanConsume, CleanLocks, CleanCompaction, CleanBegins, CleanWrites, CleanAddTip,
     CleanCheckpointing, CleanMarks DEF Next, SealStep

(* When nothing fails, Shutdown leaves no span unlogged, no chain without  *)
(* a checkpoint and an empty WAL (Shutdown).                               *)
THEOREM CleanShutdownLeavesNothing == Spec => []CleanShutdown
<1> DEFINE Inv == TypeInv /\ CurInv /\ StopsCounted /\ (Uninterrupted /\ faults = 0 => Clean)
<1>1. Inv /\ [Next]_vars => Inv'
  <2>1. ASSUME Inv, [Next]_vars, Uninterrupted', faults' = 0 PROVE Clean'
    BY <2>1, FirstRun, FaultFree, CleanStep
  <2>2. QED
    BY <2>1, TypeStep, CurStep, FirstRun
<1>2. Inv => CleanShutdown
  <2> SUFFICES ASSUME TypeInv, CurInv, Clean, phase = "stopped"
               PROVE  /\ promised \subseteq Recorded
                      /\ ToSet(log) \subseteq Covered \cup abandoned
                      /\ walOwed = <<>> /\ \A t \in Traces : walOpen[t] = {}
    BY DEF CleanShutdown
  <2>1. step = "idle" /\ cur = NoTip /\ todo = {}
    BY DEF TypeInv, LockOK, CurInv
  <2>2. pending = <<>> /\ walOwed = <<>> /\ \A t \in Traces : buffers[t] = {}
    BY <2>1 DEF Clean, ShutdownLeaves
  <2>3. promised \subseteq Recorded
    <3>1. \A x \in promised : x[1] \in Traces
      BY DEF TypeInv, DataOK
    <3>2. \A x \in promised : \E i \in DOMAIN log : x \in SpansOf(log[i])
      BY <2>1, <2>2, <3>1 DEF Clean, SpansInPlace
    <3>3. DOMAIN log = 1 .. Len(log)
      BY DEF TypeInv, DataOK
    <3> HIDE DEF SpansOf
    <3>4. QED
      BY <3>2, <3>3 DEF Recorded, Logged
  <2>4. ToSet(log) \subseteq Covered \cup abandoned
    BY <2>1, <2>2 DEF Clean, ChainsInPlace, Unadded, ToSet
  <2>5. QED
    BY <2>1, <2>2, <2>3, <2>4 DEF Clean, OpenInPlace
<1>3. QED
  BY <1>1, <1>2, TypeInit, CurInit, FirstRunInit, CleanInit, PTL DEF Spec
=============================================================================
