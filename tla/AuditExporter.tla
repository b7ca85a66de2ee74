--------------------------- MODULE AuditExporter ----------------------------
(***************************************************************************)
(* exporter.go: how the exporter turns delivered spans into a durable,     *)
(* checkpointed audit log while compaction goroutines run beside it, and   *)
(* what a crash, a power loss, a restart or a shutdown leaves behind.      *)
(*                                                                         *)
(* e.mu is held for the whole of bufferSpan, of the worker's sweep and of  *)
(* Shutdown's sealing.  The steps of sealTrace inside it are actions of    *)
(* their own, because the process can die between any two of them and      *)
(* because the compaction goroutines take their snapshot of the pending    *)
(* tips, and rewrite the WAL, without e.mu.                                *)
(*                                                                         *)
(* Data are abstracted: a record is its span id; a chain tip hash stands   *)
(* for the exact set of records chained, which is what a digest tells      *)
(* apart; the audit log is the sequence of the chains written to it.  The  *)
(* WAL is WalStore, which WriteAheadLog implements.  Every record carries  *)
(* the current schema version, so startupSealed stays empty.               *)
(*                                                                         *)
(* Faults (a subset of AllFaults) are the failures a run may meet:         *)
(*   "walAppend"  AppendSpan fails             "walMark"  MarkSealed fails *)
(*   "walCompact" Compact fails                "logWrite" a log write or   *)
(*   "checkpoint" a checkpoint write fails         its fsync fails         *)
(*   "quarantine" a quarantine write fails     "powerLoss" see PowerLoss   *)
(*   "expire"     Shutdown's context expires   "crash"    the process dies *)
(***************************************************************************)
EXTENDS Integers, FiniteSets, Sequences

CONSTANTS
  Traces,
  Spans,               (* span ids, numbered in SortRecords order          *)
  Root,                (* the span id of a trace's root span               *)
  CheckpointInterval,
  MaxPendingTips,
  FsyncLog,            (* fsync_log, TRUE unless configured off            *)
  NoTip,
  Faults,
  Compactors,          (* bound: compaction goroutines alive at a time     *)
  Overlap,             (* FALSE: no trace is sealed while a goroutine has  *)
                       (* yet to compact                                   *)
  LateSpans,           (* FALSE: no late span comes for a trace whose seal *)
                       (* failed, or whose marker could not be written     *)
  Redelivery,          (* FALSE: the pipeline delivers every span once     *)
  MaxSegments,         (* bound: chains in the log when a trace is opened  *)
  MaxFaults,           (* bound: failures in a behaviour                   *)
  MaxStops             (* bound: crashes, power losses and shutdowns       *)

AllFaults == {"walAppend", "walMark", "walCompact", "logWrite", "checkpoint",
              "quarantine", "expire", "crash", "powerLoss"}

ASSUME ExporterAssumption ==
  /\ Spans \subseteq Nat
  /\ Root \in Spans
  /\ CheckpointInterval \in Nat \ {0}
  /\ MaxPendingTips \in Nat
  /\ MaxPendingTips >= CheckpointInterval
  /\ FsyncLog \in BOOLEAN
  /\ Overlap \in BOOLEAN /\ LateSpans \in BOOLEAN /\ Redelivery \in BOOLEAN
  /\ Faults \subseteq AllFaults
  /\ MaxSegments \in Nat
  /\ MaxFaults \in Nat
  /\ MaxStops \in Nat

VARIABLES
  (* in memory, gone when the process stops *)
  phase,         (* "running", "closing", "stopped" or "down"              *)
  buffers,       (* buffers[t]: records buffered for t, none if no buffer  *)
  sealedTraces,  (* the re-seal guard                                      *)
  pending,       (* the accumulator's pending tips, oldest first           *)
  backoff,       (* the last checkpoint attempt failed                     *)
  checkpointPoisoned,
  logPoisoned,
  holder,        (* who holds e.mu                                         *)
  todo,          (* traces the holder still has to seal                    *)
  step,          (* where the holder is inside sealTrace                   *)
  cur,           (* the chain being sealed                                 *)
  goroutines,    (* the compaction goroutines                              *)
  (* on disk *)
  walOpen,       (* the WAL's records in progress                          *)
  walOwed,       (* the WAL's tips owed a checkpoint                       *)
  walUnsynced,   (* spans whose WAL line no fsync has covered              *)
  log,           (* the chains in the audit log                            *)
  logSynced,     (* how many of them an fsync has covered                  *)
  checkpoints,   (* the checkpoint file: the tips of each checkpoint       *)
  quarantine,    (* spans in the quarantine file                           *)
  (* history and bounds *)
  promised,      (* spans accepted into the WAL and not lost with power    *)
  walMissed,     (* spans buffered without a WAL copy, or whose copy was   *)
                 (* lost with power                                        *)
  abandoned,     (* tips given up on purpose: pending cap or poisoning     *)
  faults, stops

memVars == <<phase, buffers, sealedTraces, pending, backoff,
             checkpointPoisoned, logPoisoned>>
lockVars == <<holder, todo, step, cur>>
walVars == <<walOpen, walOwed, walUnsynced, walMissed>>
logVars == <<log, logSynced, quarantine>>
countVars == <<faults, stops>>
vars == <<memVars, lockVars, goroutines, walVars, logVars, checkpoints,
          promised, abandoned, countVars>>

Wal == INSTANCE WalStore WITH
  Records <- Spans, Hashes <- SUBSET Spans, open <- walOpen, owed <- walOwed

Tip == [trace : Traces, hash : SUBSET Spans]

ASSUME NoTipAssumption == NoTip \notin Tip

Chain(t, recs) == [trace |-> t, hash |-> recs]
ToSet(s) == {s[i] : i \in DOMAIN s}
SpansOf(k) == {<<k.trace, s>> : s \in k.hash}

(* The spans of the first n chains of the log.                             *)
Logged(n) == UNION {SpansOf(log[i]) : i \in 1 .. n}
Recorded == Logged(Len(log)) \cup quarantine
Covered == UNION {ToSet(checkpoints[i]) : i \in DOMAIN checkpoints}
OpenTraces == {t \in Traces : buffers[t] # {}}

Steps == {"idle", "next", "write", "sync", "tip", "checkpoint", "commit",
          "mark", "quarantine", "final"}
Goroutine == [at : {"none", "snapshot", "compact", "clear"}, tips : SUBSET Tip]
NoGoroutine == [at |-> "none", tips |-> {}]

Fail(kind) ==
  /\ kind \in Faults
  /\ faults < MaxFaults
  /\ faults' = faults + 1

-----------------------------------------------------------------------------
Init ==
  /\ phase = "running"
  /\ buffers = [t \in Traces |-> {}]
  /\ sealedTraces = {}
  /\ pending = <<>>
  /\ backoff = FALSE
  /\ checkpointPoisoned = FALSE
  /\ logPoisoned = FALSE
  /\ holder = "none" /\ todo = {} /\ step = "idle" /\ cur = NoTip
  /\ goroutines = [c \in Compactors |-> NoGoroutine]
  /\ Wal!StoreInit
  /\ walUnsynced = {}
  /\ log = <<>> /\ logSynced = 0 /\ quarantine = {}
  /\ checkpoints = <<>>
  /\ promised = {} /\ walMissed = {} /\ abandoned = {}
  /\ faults = 0 /\ stops = 0

-----------------------------------------------------------------------------
(* Taking and releasing e.mu.                                              *)

LockFree == holder = "none" /\ phase = "running"

QuietEnough ==
  Overlap \/ \A c \in Compactors : goroutines[c].at \in {"none", "clear"}

Acquire(who, set) ==
  /\ holder' = who
  /\ todo' = set
  /\ step' = "next"
  /\ cur' = NoTip

(* sealTrace returns: to the next trace, to Shutdown's checkpoint, or the  *)
(* lock is released.                                                       *)
SealReturns ==
  /\ cur' = NoTip
  /\ todo' = todo
  /\ IF todo # {} THEN step' = "next" /\ holder' = holder
     ELSE IF holder = "shutdown" THEN step' = "final" /\ holder' = holder
     ELSE step' = "idle" /\ holder' = "none"

(* Bounds, not code: a trace is opened while the log has room for it and   *)
(* a goroutine slot is left for its seal.                                  *)
Unspawned == {c \in Compactors : goroutines[c].at = "none"}
RoomToOpen ==
  /\ Len(log) + Cardinality(OpenTraces) < MaxSegments
  /\ Cardinality(OpenTraces) < Cardinality(Unspawned)

(* bufferSpan.  A span of a guarded trace is dropped, which changes        *)
(* nothing.  A failed WAL append is only logged.  The root span seals.     *)
ConsumeSpan(t, s) ==
  /\ LockFree
  /\ t \notin sealedTraces
  /\ Redelivery \/ <<t, s>> \notin promised \cup walMissed
  /\ LateSpans \/ walOpen[t] \subseteq buffers[t]
  /\ buffers[t] # {} \/ RoomToOpen
  /\ buffers' = [buffers EXCEPT ![t] = @ \cup {s}]
  /\ \/ /\ Wal!StoreAppend(t, s)
        /\ walUnsynced' = IF s \in walOpen[t] THEN walUnsynced
                          ELSE walUnsynced \cup {<<t, s>>}
        /\ promised' = promised \cup {<<t, s>>}
        /\ UNCHANGED <<walMissed, faults>>
     \/ /\ Fail("walAppend")
        /\ walMissed' = IF s \in walOpen[t] THEN walMissed
                        ELSE walMissed \cup {<<t, s>>}
        /\ UNCHANGED <<walOpen, walOwed, walUnsynced, promised>>
  /\ IF Root \in buffers'[t]
     THEN Acquire("consume", {t})
     ELSE UNCHANGED lockVars
  /\ UNCHANGED <<phase, sealedTraces, pending, backoff, checkpointPoisoned,
                 logPoisoned, goroutines, logVars, checkpoints, abandoned, stops>>

(* The worker's tick seals the buffers idle for trace_timeout: any of      *)
(* those open, whether their root has come or not.                         *)
SweepRooted == {t \in OpenTraces : Root \in buffers[t]}
Sweepable == OpenTraces

WorkerSweep ==
  /\ LockFree
  /\ \E idle \in (SUBSET Sweepable) \ {{}} : Acquire("worker", idle)
  /\ UNCHANGED <<memVars, goroutines, walVars, logVars, checkpoints, promised,
                 abandoned, countVars>>

-----------------------------------------------------------------------------
(* sealTrace.                                                              *)

BufferKept(t) == buffers
BufferDropped(t) == [buffers EXCEPT ![t] = {}]

FirstStep == IF logPoisoned THEN "quarantine" ELSE "write"

(* The buffer is deleted and the trace guarded before anything is written. *)
BeginSeal(t) ==
  /\ step = "next"
  /\ t \in todo
  /\ QuietEnough
  /\ buffers' = BufferDropped(t)
  /\ sealedTraces' = sealedTraces \cup {t}
  /\ cur' = Chain(t, buffers[t])
  /\ todo' = todo \ {t}
  /\ step' = FirstStep
  /\ UNCHANGED <<phase, pending, backoff, checkpointPoisoned, logPoisoned, holder,
                 goroutines, walVars, logVars, checkpoints, promised, abandoned,
                 countVars>>

FsyncSkipped == "tip"
AfterWrite == IF FsyncLog THEN "sync" ELSE "tip"

WriteLog ==
  /\ step = "write"
  /\ log' = Append(log, cur)
  /\ step' = AfterWrite
  /\ UNCHANGED <<memVars, holder, todo, cur, goroutines, walVars, logSynced,
                 quarantine, checkpoints, promised, abandoned, countVars>>

(* The first entries of a chain, in SortRecords order.                     *)
Prefixes(recs) ==
  {p \in SUBSET recs : \A x \in p, y \in recs : y < x => y \in p}

WithChain(l, t, recs) == IF recs = {} THEN l ELSE Append(l, Chain(t, recs))

(* No entry is appended to a poisoned log any more.  A torn tail is        *)
(* repaired, or else the log is poisoned.                                  *)
PoisonLog == logPoisoned' = TRUE
RepairOrPoisonLog == logPoisoned' = logPoisoned \/ PoisonLog

(* An entry is not written.  Truncating back leaves nothing of the trace.  *)
(* When that fails too, the tail of a one-entry trace is repaired, which   *)
(* keeps or drops the entry, or else the log is poisoned; a longer trace   *)
(* poisons it at once.  A poisoned log keeps what was written, the last    *)
(* entry only when no marker line fuses with it.  Either way sealTrace     *)
(* returns without marking the WAL or compacting it, and no checkpoint     *)
(* will cover what it left behind.                                         *)
WriteLogFails ==
  /\ step = "write"
  /\ Fail("logWrite")
  /\ \E left \in Prefixes(cur.hash) :
       /\ log' = WithChain(log, cur.trace, left)
       /\ \/ left = {} /\ logPoisoned' = logPoisoned
          \/ left = cur.hash /\ Cardinality(cur.hash) = 1 /\ RepairOrPoisonLog
          \/ PoisonLog
       /\ abandoned' = abandoned \cup ({Chain(cur.trace, left)} \ {Chain(cur.trace, {})})
  /\ SealReturns
  /\ UNCHANGED <<phase, buffers, sealedTraces, pending, backoff,
                 checkpointPoisoned, goroutines, walVars, logSynced, quarantine,
                 checkpoints, promised, stops>>

SyncLog ==
  /\ step = "sync"
  /\ logSynced' = Len(log)
  /\ step' = "tip"
  /\ UNCHANGED <<memVars, holder, todo, cur, goroutines, walVars, log, quarantine,
                 checkpoints, promised, abandoned, countVars>>

(* The fsync fails: the chain is truncated away, or, when that fails too,  *)
(* stays, the tail repair finding it complete or poisoning the log.        *)
SyncLogFails ==
  /\ step = "sync"
  /\ Fail("logWrite")
  /\ \/ /\ log' = SubSeq(log, 1, Len(log) - 1)
        /\ UNCHANGED <<logPoisoned, abandoned>>
     \/ /\ log' = log
        /\ RepairOrPoisonLog
        /\ abandoned' = abandoned \cup {cur}
  /\ SealReturns
  /\ UNCHANGED <<phase, buffers, sealedTraces, pending, backoff,
                 checkpointPoisoned, goroutines, walVars, logSynced, quarantine,
                 checkpoints, promised, stops>>

(* TrimPending keeps the newest tips.                                      *)
Trimmed(tips) ==
  IF Len(tips) <= MaxPendingTips THEN tips
  ELSE SubSeq(tips, Len(tips) - MaxPendingTips + 1, Len(tips))

AddTip ==
  /\ step = "tip"
  /\ LET all == Append(pending, cur)
     IN  IF checkpointPoisoned
         THEN pending' = pending /\ abandoned' = abandoned \cup {cur}
         ELSE /\ pending' = Trimmed(all)
              /\ abandoned' = abandoned \cup
                   {all[i] : i \in 1 .. Len(all) - Len(Trimmed(all))}
  /\ step' = "checkpoint"
  /\ UNCHANGED <<phase, buffers, sealedTraces, backoff, checkpointPoisoned,
                 logPoisoned, holder, todo, cur, goroutines, walVars, logVars,
                 checkpoints, promised, countVars>>

-----------------------------------------------------------------------------
(* writeCheckpoint, from sealTrace and once more from Shutdown.            *)

CheckpointDue ==
  \/ step = "checkpoint" /\ Len(pending) >= CheckpointInterval
  \/ step = "final" /\ pending # <<>>

(* After the attempt sealTrace goes on to mark the WAL; Shutdown releases  *)
(* the lock.                                                               *)
LockKept == step' = "idle" /\ holder' = holder
LockReleased == step' = "idle" /\ holder' = "none"

AfterCheckpoint ==
  /\ UNCHANGED <<todo, cur>>
  /\ IF cur = NoTip THEN LockReleased ELSE step' = "mark" /\ holder' = holder

(* Not due, or held off after a failed attempt: how long the backoff holds *)
(* it off is CheckpointRetry's subject, here it may hold any number of     *)
(* times.  Shutdown does not ask shouldCheckpoint.                         *)
SkipCheckpoint ==
  /\ step \in {"checkpoint", "final"}
  /\ CheckpointDue => step = "checkpoint" /\ backoff
  /\ AfterCheckpoint
  /\ UNCHANGED <<memVars, goroutines, walVars, logVars, checkpoints, promised,
                 abandoned, countVars>>

(* The staged checkpoint is in the file and fsynced.                       *)
WriteCheckpoint ==
  /\ CheckpointDue
  /\ checkpoints' = Append(checkpoints, pending)
  /\ step' = "commit"
  /\ UNCHANGED <<memVars, holder, todo, cur, goroutines, walVars, logVars,
                 promised, abandoned, countVars>>

(* Commit drops the tips it covers; e.mu kept AddTip out in between.       *)
NothingDropped == pending
LeftPending == <<>>

CommitCheckpoint ==
  /\ step = "commit"
  /\ pending' = LeftPending
  /\ backoff' = FALSE
  /\ AfterCheckpoint
  /\ UNCHANGED <<phase, buffers, sealedTraces, checkpointPoisoned, logPoisoned,
                 goroutines, walVars, logVars, checkpoints, promised, abandoned,
                 countVars>>

(* The write or its fsync fails and is rolled back: every tip is retried.  *)
CheckpointFails ==
  /\ CheckpointDue
  /\ Fail("checkpoint")
  /\ backoff' = TRUE
  /\ AfterCheckpoint
  /\ UNCHANGED <<phase, buffers, sealedTraces, pending, checkpointPoisoned,
                 logPoisoned, goroutines, walVars, logVars, checkpoints, promised,
                 abandoned, stops>>

(* The rollback fails as well: the uncommitted line may stay in the file,  *)
(* no checkpoint is written again and the pending tips are given up.       *)
CheckpointPoisons ==
  /\ CheckpointDue
  /\ Fail("checkpoint")
  /\ checkpointPoisoned' = TRUE
  /\ backoff' = TRUE
  /\ pending' = <<>>
  /\ abandoned' = abandoned \cup ToSet(pending)
  /\ checkpoints' \in {checkpoints, Append(checkpoints, pending)}
  /\ AfterCheckpoint
  /\ UNCHANGED <<phase, buffers, sealedTraces, logPoisoned, goroutines, walVars,
                 logVars, promised, stops>>

-----------------------------------------------------------------------------
(* Marking the WAL and starting a compaction goroutine.                    *)

Spawn ==
  \E c \in Compactors :
    /\ goroutines[c].at = "none"
    /\ goroutines' = [goroutines EXCEPT ![c] = [at |-> "snapshot", tips |-> {}]]

(* MarkSealed fsyncs the file, so it makes every earlier line durable.     *)
MarkWal(t, tips) ==
  /\ Wal!StoreSeal(t, tips)
  /\ walUnsynced' = {}
  /\ UNCHANGED walMissed

(* The marker carries the tip only if it still waits for a checkpoint.  A  *)
(* failure is only logged; a marker that was written but not fsynced is    *)
(* there or not in the end, like one that succeeded or was never written.  *)
MarkerWithoutTip == <<>>
SealedMarkerTip == IF cur \in ToSet(pending) THEN <<cur>> ELSE <<>>

MarkSealed ==
  /\ step = "mark"
  /\ \/ /\ MarkWal(cur.trace, SealedMarkerTip)
        /\ faults' = faults
     \/ Fail("walMark") /\ UNCHANGED walVars
  /\ Spawn
  /\ SealReturns
  /\ UNCHANGED <<memVars, logVars, checkpoints, promised, abandoned, stops>>

(* A poisoned log: the records go to the quarantine file, and the WAL is   *)
(* marked only when all of them got there.  When that marker fails they    *)
(* are in the WAL as well, and the next start chains them.                 *)
QuarantineTrace ==
  /\ step = "quarantine"
  /\ \/ /\ quarantine' = quarantine \cup SpansOf(cur)
        /\ \/ MarkWal(cur.trace, <<>>) /\ faults' = faults
           \/ Fail("walMark") /\ UNCHANGED walVars
     \/ /\ Fail("quarantine")
        /\ \E kept \in (SUBSET cur.hash) \ {cur.hash} :
             quarantine' = quarantine \cup SpansOf(Chain(cur.trace, kept))
        /\ UNCHANGED walVars
  /\ Spawn
  /\ SealReturns
  /\ UNCHANGED <<memVars, log, logSynced, checkpoints, promised, abandoned, stops>>

-----------------------------------------------------------------------------
(* scheduleWALCompact's goroutine: PendingTips, then Compact, then e.mu.   *)

TakeSnapshot(c) ==
  /\ goroutines[c].at = "snapshot"
  /\ goroutines' = [goroutines EXCEPT ![c] =
                      [at |-> "compact", tips |-> ToSet(pending)]]
  /\ UNCHANGED <<memVars, lockVars, walVars, logVars, checkpoints, promised,
                 abandoned, countVars>>

CompactStore(tips) ==
  /\ Wal!StoreCompact(tips)
  /\ walUnsynced' = {}
  /\ UNCHANGED walMissed

(* A Compact that fails has not replaced the file, or could not reopen it. *)
CompactWal(c) ==
  /\ goroutines[c].at = "compact"
  /\ \/ /\ CompactStore(goroutines[c].tips)
        /\ goroutines' = [goroutines EXCEPT ![c] = [at |-> "clear", tips |-> {}]]
        /\ faults' = faults
     \/ /\ Fail("walCompact")
        /\ goroutines' = [goroutines EXCEPT ![c] = NoGoroutine]
        /\ UNCHANGED walVars \/ CompactStore(goroutines[c].tips)
  /\ UNCHANGED <<memVars, lockVars, logVars, checkpoints, promised, abandoned,
                 stops>>

(* The goroutine takes e.mu to clear the guard.                            *)
MayClearAnytime == TRUE
MayClear == holder = "none"

ClearGuard(c) ==
  /\ goroutines[c].at = "clear"
  /\ MayClear
  /\ sealedTraces' = {}
  /\ goroutines' = [goroutines EXCEPT ![c] = NoGoroutine]
  /\ UNCHANGED <<phase, buffers, pending, backoff, checkpointPoisoned, logPoisoned,
                 lockVars, walVars, logVars, checkpoints, promised, abandoned,
                 countVars>>

-----------------------------------------------------------------------------
(* Shutdown, the ways the process stops, and Start.                        *)

BuffersForgotten == {}
ForceSealed == OpenTraces

(* The worker has exited; the lock is taken and every buffer is sealed.    *)
ShutdownBegins ==
  /\ LockFree
  /\ stops < MaxStops
  /\ stops' = stops + 1
  /\ phase' = "closing"
  /\ holder' = "shutdown"
  /\ todo' = ForceSealed
  /\ step' = IF ForceSealed = {} THEN "final" ELSE "next"
  /\ cur' = NoTip
  /\ UNCHANGED <<buffers, sealedTraces, pending, backoff, checkpointPoisoned,
                 logPoisoned, goroutines, walVars, logVars, checkpoints, promised,
                 abandoned, faults>>

(* The lock is released and the goroutines are done, or the context has    *)
(* expired; one last Compact, whose failure is only logged.                *)
ShutdownEnds ==
  /\ phase = "closing"
  /\ holder = "none"
  /\ \/ \A c \in Compactors : goroutines[c].at = "none"
     \/ "expire" \in Faults
  /\ phase' = "stopped"
  /\ \/ /\ CompactStore(ToSet(pending))
        /\ sealedTraces' = {}
        /\ faults' = faults
     \/ Fail("walCompact") /\ UNCHANGED <<walVars, sealedTraces>>
  /\ UNCHANGED <<buffers, pending, backoff, checkpointPoisoned, logPoisoned,
                 lockVars, goroutines, logVars, checkpoints, promised, abandoned,
                 stops>>

(* The log as a stop leaves it: the first n chains for certain, any later  *)
(* one whole, in part or not at all, in file order.                        *)
Cuts(l, n) ==
  UNION {{SubSeq(l, 1, k)} \cup
         (IF k = Len(l) THEN {}
          ELSE {WithChain(SubSeq(l, 1, k), l[k + 1].trace, p) :
                  p \in Prefixes(l[k + 1].hash)})
         : k \in n .. Len(l)}

LogInFlight == IF step = "write" THEN Append(log, cur) ELSE log

LoseMemory ==
  /\ phase' = "down"
  /\ buffers' = [t \in Traces |-> {}]
  /\ sealedTraces' = {}
  /\ pending' = <<>>
  /\ backoff' = FALSE
  /\ checkpointPoisoned' = FALSE
  /\ logPoisoned' = FALSE
  /\ holder' = "none" /\ todo' = {} /\ step' = "idle" /\ cur' = NoTip
  /\ goroutines' = [c \in Compactors |-> NoGoroutine]

(* The process dies; what it wrote stays.  A crash inside the write loop   *)
(* leaves the first entries of the chain.                                  *)
Crash ==
  /\ "crash" \in Faults
  /\ phase \in {"running", "closing"}
  /\ stops < MaxStops
  /\ stops' = stops + 1
  /\ LoseMemory
  /\ log' \in Cuts(LogInFlight, Len(log))
  /\ UNCHANGED <<walVars, logSynced, quarantine, checkpoints, promised, abandoned,
                 faults>>

(* What no fsync covered is lost, wholly or in part, and what is left is   *)
(* durable.  The WAL makes no promise about a span it has not fsynced.     *)
PowerLoss ==
  /\ "powerLoss" \in Faults
  /\ phase # "down"
  /\ stops < MaxStops
  /\ stops' = stops + 1
  /\ LoseMemory
  /\ log' \in Cuts(LogInFlight, logSynced)
  /\ logSynced' = Len(log')
  /\ UNCHANGED <<walOwed, quarantine, checkpoints, abandoned, faults>>
  /\ \E lost \in SUBSET walUnsynced :
       /\ walOpen' = [t \in Traces |-> {s \in walOpen[t] : <<t, s>> \notin lost}]
       /\ promised' = promised \ (lost \ Recorded')
       /\ walMissed' = walMissed \cup lost
  /\ walUnsynced' = {}

(* A process that shut down exits, ending any goroutine left.              *)
Exit ==
  /\ phase = "stopped"
  /\ LoseMemory
  /\ UNCHANGED <<walVars, logVars, checkpoints, promised, abandoned, countVars>>

NoRehydration == [t \in Traces |-> {}]
Rehydrated == walOpen

TipsNotRestored == <<>>
TipsRestored == walOwed

(* Start replays the WAL into buffers and accumulator.  A replayed buffer  *)
(* that holds the root waits for the next span or the timeout.  Compacting *)
(* with the tips just replayed keeps them all; its failure is only logged. *)
Start ==
  /\ phase = "down"
  /\ phase' = "running"
  /\ buffers' = Rehydrated
  /\ pending' = TipsRestored
  /\ \/ CompactStore(ToSet(TipsRestored))
     \/ "walCompact" \in Faults /\ UNCHANGED walVars
  /\ UNCHANGED <<sealedTraces, backoff, checkpointPoisoned, logPoisoned, lockVars,
                 goroutines, logVars, checkpoints, promised, abandoned, countVars>>

-----------------------------------------------------------------------------
Checkpointing ==
  \/ SkipCheckpoint \/ WriteCheckpoint \/ CommitCheckpoint
  \/ CheckpointFails \/ CheckpointPoisons

SealStep ==
  \/ \E t \in Traces : BeginSeal(t)
  \/ WriteLog \/ WriteLogFails \/ SyncLog \/ SyncLogFails
  \/ AddTip \/ Checkpointing \/ MarkSealed \/ QuarantineTrace

Compaction(c) == TakeSnapshot(c) \/ CompactWal(c) \/ ClearGuard(c)

(* Nothing is buffered and nothing runs: the exporter waits for delivery.  *)
Idle ==
  /\ LockFree
  /\ OpenTraces = {}
  /\ \A c \in Compactors : goroutines[c].at = "none"
  /\ UNCHANGED vars

Next ==
  \/ Idle
  \/ \E t \in Traces, s \in Spans : ConsumeSpan(t, s)
  \/ WorkerSweep
  \/ SealStep
  \/ \E c \in Compactors : Compaction(c)
  \/ ShutdownBegins \/ ShutdownEnds
  \/ Crash \/ PowerLoss \/ Exit \/ Start

Spec == Init /\ [][Next]_vars

-----------------------------------------------------------------------------
(* Properties.                                                             *)

(* What every variable holds, and how guard, buffers and lock keep step:   *)
(* a guarded trace has no buffer, a trace yet to be sealed has one, and    *)
(* the trace being sealed is guarded until sealTrace has returned, though  *)
(* compaction goroutines clear the guard beside it.                        *)
TypeOK ==
  /\ phase \in {"running", "closing", "stopped", "down"}
  /\ buffers \in [Traces -> SUBSET Spans]
  /\ sealedTraces \subseteq Traces
  /\ pending \in Seq(Tip)
  /\ backoff \in BOOLEAN /\ checkpointPoisoned \in BOOLEAN /\ logPoisoned \in BOOLEAN
  /\ holder \in {"none", "consume", "worker", "shutdown"}
  /\ todo \subseteq Traces
  /\ step \in Steps
  /\ cur \in Tip \cup {NoTip}
  /\ goroutines \in [Compactors -> Goroutine]
  /\ Wal!StoreTypeOK
  /\ walUnsynced \subseteq Traces \X Spans /\ walMissed \subseteq Traces \X Spans
  /\ log \in Seq(Tip) /\ logSynced \in 0 .. Len(log)
  /\ quarantine \subseteq Traces \X Spans
  /\ checkpoints \in Seq(Seq(Tip))
  /\ promised \subseteq Traces \X Spans
  /\ abandoned \subseteq Tip
  /\ faults \in 0 .. MaxFaults /\ stops \in 0 .. MaxStops
  /\ \A t \in sealedTraces : buffers[t] = {}
  /\ \A t \in todo : buffers[t] # {}
  /\ cur # NoTip => cur.trace \in sealedTraces

(* A span the WAL took is never lost: at every moment it is in the WAL for *)
(* the next start, in the audit log, or in the quarantine file.  Sealing,  *)
(* compaction, late spans, crashes and restarts interleave freely.  Only a *)
(* power loss may excuse a span no fsync covered (wal.go, package comment).*)
NoSpanLost ==
  \A x \in promised : x[2] \in walOpen[x[1]] \/ x \in Recorded

(* A checkpoint never vouches for a chain that is not whole in the durable *)
(* part of the log, whatever power loss follows: otherwise the verifier    *)
(* reports entry_count_mismatch on an honest log (sealTrace step 4b).      *)
CheckpointedChainsDurable ==
  \A k \in Covered : \E i \in 1 .. logSynced : log[i] = k

(* The records of a chain that the WAL was never without.                  *)
WalSafe(k) == {s \in k.hash : <<k.trace, s>> \notin walMissed}

(* The tips a checkpoint will still cover: after a stop, those in the WAL. *)
Waiting == IF phase = "down" THEN ToSet(walOwed) ELSE ToSet(pending)
Settled == Covered \cup abandoned \cup Waiting

(* Every chain in the log is covered, waits for its checkpoint, was given  *)
(* up on purpose (its records quarantined included), or will be sealed     *)
(* again from the WAL into a chain with at least its records: no chain     *)
(* drops out of checkpoint coverage unnoticed, across crashes and restarts *)
(* (issue #22).  Only a record the WAL could not take or lost with power   *)
(* is excused, and only that record: the start cannot know of it (wal.go,  *)
(* package comment).                                                       *)
NoCoverageLost ==
  \A i \in DOMAIN log :
    LET safe == WalSafe(log[i])
    IN  \/ safe \subseteq walOpen[log[i].trace]
        \/ SpansOf(Chain(log[i].trace, safe)) \subseteq quarantine
        \/ \E k \in Settled : k.trace = log[i].trace /\ safe \subseteq k.hash

(* "The WAL retains a lightweight marker [...] for as long as the          *)
(* accumulator reports the tip as pending" (docs/threat-model.md 3d): a    *)
(* crash at any moment finds every pending tip in the WAL again.  Before   *)
(* the marker is written, and when that failed, it finds the tip's records *)
(* instead and chains them again.                                          *)
PendingTipsInWal ==
  phase # "down" =>
    \A k \in ToSet(pending) :
      k \in ToSet(walOwed) \/ WalSafe(k) \subseteq walOpen[k.trace]

(* Once the audit log is poisoned the process never writes to it again:    *)
(* appending would fuse with the torn tail (logPoisoned, issue #28).       *)
PoisonedLogFrozen ==
  [][logPoisoned /\ phase' # "down" => UNCHANGED log]_vars

(* No crash so far: the process started once and is running or shutting    *)
(* down.  After a crash, entries and coverage may repeat by design.        *)
Uninterrupted ==
  stops = 0 \/ (stops = 1 /\ phase \in {"closing", "stopped"})

(* How often tip k is covered, and how often its chain is in the log.      *)
TimesCovered(k) ==
  Cardinality({p \in UNION {{i} \X (DOMAIN checkpoints[i]) : i \in DOMAIN checkpoints} :
                 checkpoints[p[1]][p[2]] = k})
TimesLogged(k) == Cardinality({i \in DOMAIN log : log[i] = k})

(* A chain is covered by one checkpoint only: a tip leaves the pending set *)
(* "for good" (checkpoint.go PendingTips).                                 *)
NoChainCoveredTwice ==
  Uninterrupted => \A k \in Covered : TimesCovered(k) <= TimesLogged(k)

(* When every span is delivered once, none is logged twice: the worker,    *)
(* ConsumeTraces and Shutdown never seal the same buffer between them.     *)
NoDuplicateEntries ==
  Uninterrupted =>
    \A i, j \in DOMAIN log : i # j => SpansOf(log[i]) \cap SpansOf(log[j]) = {}

(* A shutdown that meets no failure leaves nothing behind: every span is   *)
(* in the log, every chain is covered, the next start finds an empty WAL.  *)
CleanShutdown ==
  phase = "stopped" /\ faults = 0 /\ Uninterrupted =>
    /\ promised \subseteq Recorded
    /\ ToSet(log) \subseteq Covered \cup abandoned
    /\ walOwed = <<>> /\ \A t \in Traces : walOpen[t] = {}

(* What the exporter promises, without locks, buffers or files: durable    *)
(* spans leave the WAL only when the log or the quarantine file has them   *)
(* durably, and checkpoints vouch for durable log entries only.            *)
Trail == INSTANCE AuditTrail WITH
  held <- {x \in Traces \X Spans : x[2] \in walOpen[x[1]] /\ x \notin walUnsynced},
  recorded <- Logged(logSynced) \cup quarantine,
  attested <- {SpansOf(k) : k \in Covered}

ImplementsAuditTrail == Trail!TrailSpec

-----------------------------------------------------------------------------
(* Liveness.  Every goroutine the scheduler can run eventually runs, and   *)
(* sync.Mutex lets no waiter starve, so the ticker's sweep, which needs a  *)
(* lock that ConsumeTraces keeps taking, is strongly fair.  A supervisor   *)
(* restarts a stopped process.                                             *)
Fairness ==
  /\ WF_vars(SealStep)
  /\ \A t \in Traces : SF_vars(WorkerSweep /\ t \in todo')
  /\ \A c \in Compactors : WF_vars(TakeSnapshot(c) \/ CompactWal(c))
                           /\ SF_vars(ClearGuard(c))
  /\ WF_vars(ShutdownEnds) /\ WF_vars(Exit) /\ WF_vars(Start)

FairSpec == Spec /\ Fairness

(* Every span the WAL took gets into the log in the end, also when no root *)
(* span ever arrives and across restarts (backgroundWorker, Start).        *)
EverySpanRecorded ==
  \A x \in Traces \X Spans : x \in promised ~> x \in Recorded

(* Shutdown is never left waiting, for the lock or for a goroutine.        *)
ShutdownTerminates ==
  phase = "closing" ~> phase \in {"stopped", "down"}
=============================================================================
