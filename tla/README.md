# A TLA+ verification of otel-agent-audit

otel-agent-audit turns the OpenTelemetry spans of agents into a tamper-evident
audit log: each trace becomes a signed hash chain in the audit log, and signed
checkpoints vouch for the tips of the chains. This project models how the
exporter keeps that log honest while spans arrive late, goroutines overlap,
writes fail, the process dies and the power goes. It states what must hold,
checks it with TLC on small instances, and proves the safety properties and the
refinements with TLAPS for every instance. Line numbers refer to
`src/exporter/agentauditexporter/exporter.go` unless a file is named.

## 1. The system

| part | state it keeps | operations |
|---|---|---|
| exporter (`exporter.go`) | buffers per trace, `sealedTraces`, `startupSealed`, poison flags, retry bookkeeping, one mutex `e.mu` | `Start`, `ConsumeTraces`/`bufferSpan`, `backgroundWorker`, `sealTrace`, `writeCheckpoint`, `scheduleWALCompact`, `Shutdown` |
| write-ahead log (`internal/wal`) | a file of span entries and sealed markers, its handle, its own mutex | `AppendSpan`, `MarkSealed`, `Replay`, `Compact`, `Close` |
| checkpoint accumulator (`internal/chain/checkpoint.go`) | pending tips, `seq`, `prevHash`, its own mutex | `AddTip`, `PendingTips`, `TrimPending`, `DropPending`, `Stage`, `Commit` |
| chain (`internal/chain/chain.go`) | none | `SortRecords`, `BuildChain`, `TipHash` |
| audit log, checkpoint file, quarantine file | lines on disk | append, fsync, roll back, repair, poison |
| verifier (`internal/verify`) | none | `VerifyLog`, `VerifyChain`, `VerifyCheckpoint` |
| `agentauditselect` processor | buffers per trace, the `emitted` map, a mutex | `ConsumeTraces`, `sweepTimedOut`, `Shutdown` |
| signing, canonical bytes, record mapping, configuration, CLI, demo | none that changes at run time | pure functions |

How they interact. The collector calls `ConsumeTraces`, which under `e.mu` puts
a span into its trace's buffer and appends it to the WAL. The root span, the
worker's timeout or `Shutdown` seals the buffer: `sealTrace` writes the chain
to the log, fsyncs it, adds the tip to the accumulator, writes a checkpoint when
enough tips are pending, puts a sealed marker into the WAL, and starts a
goroutine. The goroutine reads the pending tips, rewrites the WAL without
the sealed traces, and then takes `e.mu` to clear the re-seal guard. It reads
the tips and rewrites the WAL *without* `e.mu`. `Start` replays the WAL into
buffers and accumulator.

What is hard: the goroutines overlap with sealing and with each other; a crash
can fall between any two steps of `sealTrace`, and a power loss takes away
what no fsync covered; three files are written in a fixed order and a restart
must make sense of every cut through it; each write can fail, and so can the
undo of it; a failing checkpoint file must be retried neither too often nor
never. `PROJECT.json` lists these as hazards, each at its line, with the
properties that watch it.

What makes each part correct:

- exporter: no span the WAL took is lost; no chain drops out of checkpoint
  coverage; checkpoints vouch for durable chains only; nothing is sealed twice
  without a crash; every span is recorded in the end; shutdown ends and leaves
  nothing behind.
- WAL: replay returns what is in progress and the tips still owed, whatever
  sequence of appends, seals, compactions and crashes made the file.
- accumulator and retry: tips leave the pending set by a commit or by a decision
  that is counted; the backoff never outgrows the cap.
- checkpoint file: readable and contiguous at every moment, and committed
  checkpoints stay in it.
- audit log: readable at every moment; no trace is lost between the WAL, the log
  and the quarantine file; a half-written trace never passes for a whole one.
- replay of old WALs: one schema version per chain, no record relabelled or lost.
- processor: every span is in one place and leaves it; each trace is forwarded
  as a whole, once per window.
- verifier: an honest run, crashes included, gets the documented verdict.

## 2. Modules

| module | models | built from |
|---|---|---|
| `WalStore` | the WAL's promise: records in progress (`open`) and tips owed (`owed`) | |
| `WriteAheadLog` | `wal.go` as a file of lines | implements `WalStore` |
| `AuditTrail` | the exporter's promise, with no lock, buffer or file | |
| `AuditExporter` | `exporter.go` with its goroutines and files | uses `WalStore`, implements `AuditTrail` |
| `CheckpointRetry` | when a failed checkpoint is tried again | |
| `JsonlFile` | append-only JSONL files: torn tails, repair, power loss, reading | |
| `CheckpointFile` | the accumulator and the checkpoint file, line by line | extends `JsonlFile` |
| `VerifyLog` | `verify.go`'s findings, as operators on two files | extends `JsonlFile` |
| `AuditFiles` | `sealTrace`'s file writes, line by line | composes `CheckpointFile` and `VerifyLog`, implements `AuditTrail` |
| `SchemaReplay` | `Start`'s decisions about schema versions and what follows from them | |
| `SelectProcessor` | `processor.go` of `agentauditselect`, with its clock | |
| `MC...` | the values of constants, and symmetry, of the TLC instances | |
| `AuditExporterProofs`, `WriteAheadLogProofs`, `CheckpointRetryProofs`, `CheckpointFileProofs`, `AuditFilesProofs`, `SchemaReplayProofs`, `SelectProcessorProofs` | lemmas, theorems and proofs | the module they are named after |
| `AuditExporterCoverage` | what is proved of the exporter about coverage, duplicates and shutdown | extends `AuditExporterProofs` |

### WriteAheadLog and WalStore

The WAL's methods hold `w.mu` from beginning to end, so each is one action. The
file is a sequence of lines: a span, a sealed marker with or without a tip, or
something `json.Unmarshal` rejects. `torn` says that the last line has no
newline yet, `synced` how many lines an fsync has made durable, `fdOpen` that
the handle can be written to (it cannot after a `Compact` that renamed but
failed to reopen). `Replay` and `Compacted` are the two scans of the code as
folds over the file. The `sealed` map of the code is left out: it is set and
deleted and never read for anything else.

`WalStore` keeps the two answers `Replay` gives and nothing else; its actions
are the effects of `AppendSpan`, `MarkSealed` and `Compact` on those answers.
`WriteAheadLog` implements it (`ImplementsStore`, with `open` and `owed` computed
by `Replay`), which is what entitles `AuditExporter` to use the store. The two
faults that break the refinement are kept out of that run: a short write, which
is the finding of run `wal_torn`, and power loss, whose effect on the store
`AuditExporter` states itself (`PowerLoss`).

### AuditExporter and AuditTrail

| in the model | in the code |
|---|---|
| `buffers`, `sealedTraces`, `checkpointPoisoned`, `logPoisoned` | the fields of that name |
| `pending` | `accumulator.pending` |
| `backoff` | `checkpointRetryAt` # 0: how long it holds a retry off is `CheckpointRetry`'s subject, here it may hold any number of times |
| `holder`, `todo`, `step`, `cur` | who holds `e.mu`, the traces it still has to seal, where it is in `sealTrace`, and the chain it is sealing |
| `goroutines` | the goroutines of `scheduleWALCompact`, each before its snapshot, before `Compact`, or before it clears the guard |
| `walOpen`, `walOwed` | `WalStore` |
| `walUnsynced` | spans whose WAL line no fsync has covered |
| `log`, `logSynced`, `checkpoints`, `quarantine` | the files, a chain or a checkpoint per element |
| `promised`, `walMissed`, `abandoned` | history, read by properties only: spans the WAL took (a power loss excuses those it loses); spans the WAL was without while they were buffered or logged, after a failed append or a power loss (for good: a span that is delivered again and taken this time does not repair a chain sealed without it); and tips given up by the cap, by poisoning or by a failed log write |

`ConsumeSpan` is `bufferSpan`; the steps of `sealTrace` are `BeginSeal`,
`WriteLog`, `SyncLog`, `AddTip`, `WriteCheckpoint`, `CommitCheckpoint`,
`MarkSealed`, with a failing sibling for each step that can fail
(`WriteLogFails`, `SyncLogFails`, `CheckpointFails`, `CheckpointPoisons`, and the
failing disjuncts of `MarkSealed`, `CompactWal` and `QuarantineTrace`: there the
quarantine takes part of the trace, or all of it and the WAL marker fails). They are
separate actions though `e.mu` is held throughout: the process can die between
them, and the goroutines run between them. `TakeSnapshot`, `CompactWal` and
`ClearGuard` are the three steps of a goroutine. `WorkerSweep` takes the lock
for any set of open buffers, since which of them are idle is a matter of time.

Data. A record is its span id. A tip hash stands for the exact set of records
chained, which is what a digest over them tells apart. Spans are numbers, in
the order `SortRecords` puts them in, so a partly written chain is a prefix.

Abstractions a reader should know of:

- A WAL marker that was written but not fsynced is there or not in the end, like
  one that succeeded or was never written; `walMark` covers both.
- A `Compact` that cannot reopen its file leaves a handle on which later calls
  fail; here those are the faults `walAppend` and `walMark`, in `WriteAheadLog`
  it is `fdOpen`.
- The uncommitted line a poisoned checkpoint file may keep is kept or not when
  the file is poisoned; a later power loss does not decide again.
- The sync of the poison marker (1555) is not credited with making the log
  durable.
- Deliveries stop before `Shutdown` begins, as the collector stops receivers
  first; the worker has exited (639).
- Every record has the current schema version (`SchemaReplay` has the others), and
  every chain can be built: the quarantine branches at 876-904 need a record
  with an empty version or an undecodable trace id. `Start` quarantines the
  first, and `SpanToRecord` writes hex.
- A rename is durable when `Compact` returns (its directory fsync is best effort).

`AuditTrail` has three variables: what a restart would certainly find (`held`),
what is durably recorded, what is attested. Items are let go only once they are
recorded, and attestations speak of recorded items only. `ImplementsAuditTrail`
maps `held` to the fsynced spans of the WAL, `recorded` to the fsynced chains
and the quarantine, `attested` to the checkpointed chains. `AuditFiles` implements
`AuditTrail` too, with traces as the items: there `held` is what the WAL replays,
`attested` what the committed lines of the checkpoint file vouch for, and a trace
is `recorded` when it is quarantined or when all its entries are among the
`StayingLines`: lines that the log, its durable copy and, while a trace is being
sealed, the log a rollback returns to have in common from the first line on. A
trace that is merely whole in each of these files need not stay recorded, as a
power loss can cut a file back to where the two copies part.

### CheckpointRetry

Counts only. `pending`, `retryAt`, `failures`, `capWarned` are the fields of the
exporter; `cooled` says that `min_checkpoint_retry_interval` has passed since
the last attempt. `staged` is history: the tips signed by failed attempts since
the last success.

### JsonlFile, CheckpointFile, VerifyLog and AuditFiles

`AuditExporter` treats the log and the checkpoint file as lists of chains and
of sets of tips; what a failed write, a rollback, a crash and a repair do to the
*lines* is the subject of these four. A file is its newline-terminated lines
and at most one fragment after them; a line that does not parse is `Junk`.
`Written` joins a new line to a fragment that is in its way, which is the fusion
the code fears (issues #24 and #28); `CutShort` is a write that stops;
`Repaired` is `repairTrailingPartialLine`; `Parsed` and `Readable` are the two
readers of the verifier. `Survivors` is a power loss: up to where the disk and
the cache agree all stays, after that either of them is found, cut anywhere.

| in the model | in the code |
|---|---|
| `cp`, `log` | the checkpoint file and the audit log as the process sees them |
| `cpDisk`, `logDisk` | what an fsync last made durable of them |
| `before`, `logBefore` | the files up to `preWritePos` |
| `seq`, `prevHash`, `pending` | the fields of `Accumulator` |
| `cpStep`, `at`, `cur`, `written` | where `writeCheckpoint` and `sealTrace` are |
| `cpPoisoned`, `logPoisoned` | `checkpointPoisoned`, `logPoisoned` |
| `walOpen`, `walOwed`, `quarantined` | what the WAL replays and hands back, and the traces the quarantine file holds |
| `committed`, `attempts`, `earlier`, `unmarked` | history, read by properties only |

`Stage`, `WriteLine`, `Commit`, `WriteFails`, `SyncFails` are `writeCheckpoint`;
`BeginSeal`, `WriteEntry`, `SyncLog`, `AddTraceTip`, `WriteCheckpoint`,
`MarkSealed` and their failing siblings are `sealTrace`; `RollBackLog`,
`RepairOrPoisonLog` and `PoisonLog` are `rollbackLog` and its two fallbacks.
`Start` repairs both files, resumes `seq` and `prev_checkpoint_hash` from the last
line that parses and rehydrates the WAL. `VerifyLog` has no state: it says
what the verifier reports of two files, and `FatalOnlyAfterReseal` applies
it to every pair the exporter can leave.

Data. A log entry is its trace and its number in it, and stands for its record
and the chain up to it; a checkpoint's digest is the list of the checkpoints up
to it. Signatures, key ids and timestamps are left out. Every trace is
delivered before the first step, the WAL does not fail and each compaction is
one step, since the races of spans, guard and WAL are `AuditExporter`'s.
`fsync_log` is on. Reading a file, and inspecting it for a torn tail, succeed at
`Start`.

### SchemaReplay

A record has the version it was made by and the one it is labelled with.
`Init` is any WAL up to `MaxOld` records that binaries of any version can leave,
with repeated spans. `DecideTrace` is one round of the loop over replayed
traces: `RehydrateTrace` re-stamps, `KeepOwnVersion` puts it down for
`SealAtOwnVersion`, `SetAside` quarantines. `Deliver` is `bufferSpan` with both
guards; `CompactDone` clears `sealedTraces`, never `startupSealed`. `v4` stands
for every version of a newer binary. A seal is one step here, with its outcomes:
chained, failed, or quarantined under a poisoned log.

### SelectProcessor

`p.mu` covers what happens to the maps, so `Buffer`, `SweepTimedOut` and
`TakeForFlush` are single steps; the forwarding is not covered and its steps
(`Forward`, `WorkerForwards`, `Flush`) interleave. Time runs in ticks of half the
timeout. What is delicate is which clock each of them uses: a call reads `now`
before it takes the lock, and the sweep uses the time its tick was sent,
which waits in the channel's one slot while the worker is busy. Both are kept as
ages. `Shutdown` may give up waiting for the worker, so `TakeForFlush` does not
depend on it. A span the next consumer refused is `dropped`, with all that the
call had not forwarded yet, which is what the early `return err` does.

## 3. The runs

All properties, with the code they are about, are commented where they are
defined. Each property of a passing run has a mutant in `PROJECT.json`: a
plausible bug in one mapped definition that TLC then finds.

| run | question | result |
|---|---|---|
| `wal_store` | does the file implement the store? | holds |
| `wal_durable` | do replay, compaction and the fsync of `MarkSealed` keep their promises across crashes and power loss? | holds |
| `wal_torn` | and with a short write? | violated: finding 1 |
| `exporter_crash` | is anything lost, or vouched for too early, with overlapping goroutines, crashes, power loss, failed WAL calls and an expired shutdown? | holds |
| `exporter_quiet` | does coverage survive crashes and failures when no seal overlaps a pending compaction and no late span meets a failed seal? | holds |
| `exporter_stale_tips` | and when it overlaps? | violated: finding 2 |
| `exporter_late_span` | is a trace whose log write failed safe until the next start? | violated: finding 3 |
| `exporter_live` | is everything recorded, does shutdown end, is nothing done twice? | holds |
| `checkpoint_retry` | is a failing checkpoint retried neither too often nor never? | holds |
| `audit_files` | are both files readable, unbroken and complete after any failed write, rollback, repair, crash and power loss, do they keep the exporter's promise, and what does the verifier say of them? | holds |
| `schema_replay` | what becomes of a WAL that other versions left? | holds |
| `select_processor` | does the processor forward each span, and each trace as a whole once? | holds |

### Findings

1. *A torn WAL line hides the next marker* (`wal.go:145`). A write that stops
   inside a line leaves no newline; the next `MarkSealed` joins it, returns nil
   and does not parse. The sealed trace comes back as in progress, and its tip
   is lost. `Start` repairs the tails of the other files, not the WAL's.
2. *Stale pending tips* (1113). `PendingTips()` is evaluated before `Compact`
   waits for the WAL's lock. A trace sealed and marked in between is judged by
   the old set and loses its marker. A crash before the next checkpoint then
   leaves it without coverage, against `docs/threat-model.md` §3d.
3. *A late span after a failed log write* (1004). The trace is kept in the WAL
   for the next start, but another trace's compaction clears its guard; a late
   span starts a new segment whose seal closes both. The first segment's spans
   are then in no file.
Two things the models show that are documented behaviour and no findings: a power
loss between the log's fsync and the WAL marker makes the restart seal the trace
again, and the verifier then reports a duplicate segment and a count that
does not match (`FatalOnlyAfterReseal` says that this is the *only* way an
honest run is blamed; spans whose unsynced WAL lines went with the power are not
sealed again, which `NoCoverageLost` allows for them alone); and a compaction clears the re-seal guard wholesale,
also for a trace that was sealed after it.

### Bounds, and why they are enough

- Two traces, two spans each (root and one other), two compaction goroutines:
  the races are between one trace's goroutine and another trace's seal, and
  between the segments of one trace; both need two of a kind. A third trace
  only adds another bystander.
- `MaxSegments` (2, in `exporter_late_span` 3) bounds the chains in the log when a trace is opened:
  two segments of one trace, or one of each. A restart can seal what the WAL
  kept on top of them, so in `exporter_quiet` a third tip does meet a full
  pending set after a failed checkpoint and is trimmed. `CheckpointInterval` is 2 where a checkpoint should
  cover several tips, 3 where tips should stay pending, 1 where each seal is
  checkpointed. `MaxPendingTips` at the interval makes the cap bite.
- `MaxFaults` (0 to 2) and `MaxStops` (0 to 2): two failures reach every double
  fault of the code (a failed write whose undo fails is one fault here, the
  outcome of the undo being a choice); two stops reach a crash during the
  recovery from a crash.
- `MaxLines = 4` in the WAL: an old segment with its marker and a newer segment
  of the same trace, or two traces side by side.
- `checkpoint_retry` uses interval 2, cap 20, gap 4, so that prompt retry,
  doubling, the gap and the cap each happen, and a restart with more tips than
  the cap.
- `Overlap = FALSE`, `LateSpans = FALSE` and `Redelivery = FALSE` restrict the
  environment, not the code: a system in which seals are further apart than
  compactions, one in which no span arrives late for a trace whose seal or marker
  failed, a pipeline that delivers each span once. `NoCoverageLost` and
  `PendingTipsInWal` need the first (finding 2) and the second;
  `NoDuplicateEntries` says nothing without the third. Each of the two runs with
  a finding excludes the other's cause: `exporter_stale_tips` has no late
  spans and `exporter_late_span` no overlapping compactions.
- `audit_files` has a trace of two records and one of one record, since
  `safeToRepairTail` treats exactly these two kinds differently; two faults reach
  every "the undo fails as well" (a write that fails and a truncation that fails
  are one fault, with the outcome as a choice), and two stops a crash
  after a recovery. The log then has up to six lines.
- `schema_replay`: two old records reach every pair of versions in a trace, and
  the third a re-delivery on top of them; one fault, and one crash after the
  first start, since `wal.Compact` keeps stored versions and a second start
  meets re-stamped records again.
- `select_processor`: two concurrent calls; a trace of two spans and one of
  one; a stall of one tick, so that a tick or a call is late by half a timeout,
  and one error of the next consumer. `seenAge` and the like are capped
  at `MaxStall + 4`, beyond the largest age any comparison looks at.
- Symmetry is used over traces, goroutines, records and hashes in the runs
  without liveness. Spans are ordered and the root is special, so they are not
  symmetric.

### Fairness

`exporter_live` assumes: the holder of `e.mu` keeps going (`WF(SealStep)`), as
nothing in `sealTrace` waits; each goroutine gets its snapshot and its `Compact`
(WF), and eventually the lock (`SF(ClearGuard)`); the worker's sweep eventually
gets the lock for each open trace (SF). Strong fairness for the two that need
`e.mu` is what Go's mutex gives: a waiter that has been passed over for a
millisecond is handed the lock. A stopped process is started again. Delivery is
not fair, and neither are faults, crashes and the call of `Shutdown`.
`checkpoint_retry` assumes that traces keep being sealed and that time passes.
`select_processor` assumes that time passes, that goroutines which can run do
(WF on each step of a call, of the worker and of a shutdown that has begun), and
that the next consumer returns, with an error or without. Nothing makes anyone
call `Shutdown` or send more spans: a rootless trace must leave by the sweep.

## 4. What is proved

Every invariant and action property of a passing run, and the three refinements, are
theorems; `PROJECT.json` lists them with the property each one states. The proofs
are for every value of the constants: any number of traces, spans and
goroutines, any faults, any interval and cap, any number of stops. They use only
the named assumptions on constants, which follow from `Config.Validate` and the
types, or say that a model value is not one of the data (`NoTip`, `NoHash`,
`Junk`).

Some theorems have a hypothesis about the constants. Each is a definition with
a name, the runs that check the property satisfy it, and a run or a
counterexample shows what happens without it:

| hypothesis | says | needed by | because |
|---|---|---|---|
| `FsyncLog` | `fsync_log` is on | `CheckpointsDurable`, `NothingLost`, `AuditTrailImplemented` | without it a power loss takes log lines the WAL has let go |
| `ResealedFromWal` | no log write fails, or `~LateSpans` | `NothingLost`, `AuditTrailImplemented` | finding 3; compactions may overlap seals |
| `~Overlap` | no seal overlaps a pending compaction | `PendingTipsSurvive`, `CoverageKept` | finding 2: `exporter_stale_tips` is the counterexample |
| `~LateSpans` | no late span comes for a trace whose seal or marker failed | `PendingTipsSurvive`, `CoverageKept` | the marker of the new segment evicts the WAL entries that stood in for the missing marker, as in finding 3 |
| `~Redelivery` | each span is delivered once | `LoggedAtMostOnce` | a late span delivered again is a new segment by design |
| `WholeLines` | no write is cut short, and not both a power loss and a failed `Compact` | `SealedStaysSealed`, `PromiseKept` | finding 1: a torn last line takes the next line with it; `Start`'s `Compact` removes the tear a power loss leaves, unless it fails |
| `NothingTorn` | no write is cut short and no power loss | `StoreImplemented` | the same, and `AuditExporter` states the effect of a power loss itself |

### The write-ahead log

`WriteAheadLogProofs`: `TypeCorrect`, `CompactionFaithful`, `ReplayFaithful`,
`SealedStaysSealed`, `PromiseKept` and `StoreImplemented`.

`Replay` and `Compacted` are folds over the file. A fold is a recursion over
sequences, and the library's induction theorems cannot be instantiated here, so
induction is done with sets: `Smallest` (a non-empty set of numbers has a least
element, from the well-foundedness of `<`), from it `AllNumbers` and
`AllSequences` (a set that holds the empty sequence, and with a sequence each of
its extensions by one element, holds all sequences). The community modules
define `FoldLeft` by a recursive function `iter` on sets of places.
`TableExists` shows that such a function exists, so that the choice in its
definition finds one; `Runs` is what is known of it then; `RunsStay` says that a
fold keeps its type, and `RunsLonger` that one element more is one step more.

On that rest the facts about the code. `CompactedReplay`: a replay of the
rewritten file, markers first and then the spans, gives the buffers of the old
file and its pending tips less those not retained. The point is that the
markers come first and so close nothing. `HeadLemma` and `InProgressIs`: what
`Replay` has buffered for a trace is what comes after its last marker.

`SealedTracesExcluded` and `PromisedTipsReplayed` are about what a power loss
leaves, so the inductive invariant `DurableInv` speaks of the fsynced prefix of
the file: a closed trace has no span there and none after it (`ClosedDurably`), a
promised tip is replayed from the prefix already (`PromisedDurably`), and a line
is torn only while the process is down (`TornOnlyDown`).

`StoreImplemented` maps `open` and `owed` to the two results of `Replay`, and
shows for each method that the file changes them as `WalStore`'s action says.

### The exporter

`AuditExporterProofs`:

- `TypeCorrect`. `TypeOK` says besides the types that a guarded trace has no
  buffer, and that the trace being sealed is guarded. It is not inductive by
  itself. That the holder of `e.mu` still finds its trace guarded and its buffer
  gone is so because nobody else seals or clears the guard while it holds the lock
  (`ClearGuard` waits for it; a goroutine that cleared the map without the lock
  breaks `TypeOK`): `GuardOK` says it with `CurInv`. And that `cur` is a chain when
  a step writes it follows from where the lock holder is: `TypeInv` adds
  `LockOK`, the lock discipline (`cur`, `step`, `holder` and `phase` agree, and the
  chain being sealed is the last one of the log while it has not been fsynced).
- `CheckpointsDurable`: no checkpoint vouches for a chain that is not whole in
  the fsynced part of the log. The inductive invariant `DurableInv` says it of
  everything that may yet be checkpointed: the chain being sealed once it is past
  its fsync, the pending tips, the tips in WAL markers (they become pending at
  the next start), and the checkpointed ones. The fsynced prefix of the log
  never changes (`SafePrefix`), neither by rollbacks nor by crashes, so durable
  tips only grow (`DurableTipsGrow`), and a tip enters the set only after `SyncLog`.
- `NothingLost`: every span the WAL took is in the WAL, the log or the
  quarantine. `PromisedKept` strengthens it, as a record outside the WAL has to be
  *durably* recorded, or a power loss would undo it. `WalInv` adds that every record
  the WAL has in progress is accounted for while the process runs
  (`WalAccounted`): in a buffer, durably recorded, in the chain being written, or,
  with `~LateSpans`, waiting in the WAL for the next start. That is
  what makes a marker safe: when a trace is marked its buffer is gone (`CurInv`)
  and its chain is durable, so there is nothing left to lose.
- `AuditTrailImplemented`: every step of the exporter is a step of `AuditTrail`
  or leaves its variables alone. The same two invariants say why: items leave
  `held` only when they are recorded, and what is attested has been durable since
  before its tip was pending.

`AuditExporterCoverage`:

- `PoisonedLogStays` (nothing is written to a poisoned log before the next start)
  needs nothing but the actions; what it is good for, a log that stays readable, is
  checked line by line in `audit_files`.
- `PendingTipsSurvive`, with `PendingOwed`: every pending tip has its marker in the
  WAL, or is at hand and its marker is about to be written, or is `Unmarked`: its
  marker could not be written, its records are in the WAL instead, and its trace
  stays closed to late spans until the next start chains them again.
  `SnapshotFresh` says that a goroutine about to compact has read every tip that
  is pending now; it is what `~Overlap` buys. `~LateSpans` keeps the `Unmarked`
  traces closed.
- `CoverageKept`, with `CoverageInv`: a buffer has every record the WAL has in
  progress for its trace, and whatever it has besides the WAL missed (`Backed`); so
  has the chain at hand; and each chain of the log, less the records the WAL missed,
  is still in progress in the WAL, quarantined, or part of a chain whose tip is
  covered, given up or in a WAL marker (`Lasting`). That (`Kept`) is the claim
  strengthened to survive a stop at this moment, which takes the accumulator with
  it: `NoCoverageLost` itself counts as waiting what is in the accumulator while the
  process runs. Conversely the tips in the markers are all settled (`OwedSettled`),
  so a compaction that drops a marker drops one that is covered or given up. No
  hypothesis about appends, markers or power is needed: a lost WAL line takes its
  own record out of the promise (`WalSafe`) and no other record of the chain.
- `LoggedAtMostOnce`, `CoveredAtMostOnce` and `CleanShutdownLeavesNothing` are
  about one run of the process. `LoggedOnce` keeps buffered and logged spans
  apart; `CoveredAsLogged` counts, for each tip, coverings plus pending places
  plus the chain not yet added against segments; `Clean` says where every
  span, every open WAL record and every chain is as long as nothing has failed.

### The retry and the processor

- `CheckpointRetryProofs`: `TypeCorrect`, `TargetStaysWithinReach` and
  `BackoffThinsRetries`. The retry target is a minimum with the cap, and once the cap
  has dropped a tip the pending set sits at the cap until a success or a restart,
  so the target is always reached. The bound on wasted work needs
  `AttemptsThinned`, which remembers the size `a` of the last failed attempt: what
  was signed in vain before is bounded by a function of `a`, and the next attempt
  is `a` later, or the gap later, or at the cap.
- `SelectProcessorProofs`: `TypeCorrect`, `EmittedHasNoBuffer`, `UnitsStayApart`
  and `NoneStrandedNorTwice`. `UnitsApart` needs `Window`, which relates two clocks:
  a mark in `emitted` is older than the taking it records by at most a stall, and
  a trace without a mark was taken at least `EmittedTtl` less a stall ago, until
  `Shutdown` has flushed. `SpansConserved` needs `AllPlaced`, in which a span that
  has not arrived is nowhere, and `Tidy`: a call that has not reached a stage
  holds nothing of it, and no trace is in two units of one set.

### Files

`AuditFilesProofs`: `TypeCorrect`, `ChainNeverBroken`, `CommittedStays`,
`LogAlwaysReadable`, `RecordsAlwaysSurvive`, `NoSilentPart`, `FatalNeedsReseal` and
`FilesKeepTrail`, for any traces of any size and any number of faults and stops.

`CheckpointFileProofs` begins with facts about files alone: a write, a cut, a
repair and a power loss keep a file `Tidy`, all its lines parseable and at most
one fragment behind them, and only ever shorten or lengthen it at the end. `CpInv`
then says that both the file and its durable copy are chained, that the durable
one holds all that was committed, that the accumulator stands at the last line
*unless* the file is poisoned or a write is under way, that nothing is pending
once it is poisoned (`sealTrace` adds no tip then), and that `before` is a prefix of
both. A rollback and a power loss land on files `CpInv` already
speaks of.

`AuditFilesProofs` adds, layer by layer:

- `LogInv`: nothing is appended to a log with a fragment at its end unless it is
  poisoned.
- `KeptInv`: a trace the WAL no longer replays is quarantined or whole in every
  file the log can become: as it is, as the disk holds it, and, while a trace is
  being sealed, as a rollback would leave it. The trace being sealed is whole as
  soon as `SyncLog` is past, which is what lets `MarkSealed` keep `KeptInv`.
- `SilentInv`: of a trace no earlier process touched, a reader finds all or nothing
  as long as the log is not poisoned; a poisoned log ends in a torn line, or its
  marker could not be written.
- `OrderInv` and `TipsInv`, for the verifier's verdict: the lines of a trace sealed at
  most once are in order and distinct in every file the log can become, and a tip
  is in the accumulator, in a checkpoint or in the WAL only when its trace is whole
  in all of them. `HeldStays` carries that from step to step.
- `FilesKeepTrail`, the refinement of `AuditTrail`, needs no further invariant:
  `RecordedIsHeld` says that `Recorded` is what `KeptInv` keeps of a trace, so
  `HeldStays` makes it permanent and `KeptInv` justifies what the WAL lets go.
  A commit is the only step that attests (`CommittedGrow`), its lines have the
  old ones as a prefix, and `TipsInv` says that what they name is recorded.

`SchemaReplayProofs`: `TypeCorrect`, `OneVersionPerChain`, `VersionsHonest`,
`StartupSealIsFinal`, `RecordsSafe` and `QuarantineForced`. `ChainsOneVersion` is not
inductive: what is needed is that every *open* buffer holds honest records of the
current version, except the ones put down in `sealAtOwnVersion`, which hold one
version of their own and get no deliveries before they are sealed
(`BuffersSealable`), that a line of the WAL says the version it was made under
(`WalHonest`), and that `Start` decides about a trace once (`DecidedOnce`).
`RecordsSafe` adds `Lossless`: after `Start` has decided about a trace, its buffer
holds every span of its WAL lines, so that what a seal lets go was in the chain
or in the quarantine.

### Remarks on form, and what is not proved

TLC checked each of these invariants on a run before it was proved.

`WriteAheadLog` filters with `Select`, a fold, where `SelectSeq` would do: no
prover sees into `SelectSeq`, whose definition is a local recursion. A
checkpoint's digest is a list, not a hash, so that "collision free" is true by
construction rather than an assumption. For the same reason as above the conjunct
`walOwed' \in Seq({...})` of `AuditFiles.CompactWal` repeats what the line before it
implies.

Model-checked only: the four liveness properties, `EverySpanRecorded`,
`ShutdownTerminates`, `RecoveryDetected` and `EverySpanForwarded`, since fairness and
`ENABLED` are beyond the prover. Nor do the proofs say anything of the three
runs that expect a violation: those are counterexamples.

## 5. What is not modelled, and the plan

Not modelled, and not planned: Ed25519 and PEM handling, canonical JSON bytes,
the mapping of span attributes to records, field-by-field configuration checks,
the CLI's output, the demo, the profile comparison, the CI script. They keep no
state that a step could leave wrong.

Left out of the parts that are modelled:

- `fsync_log: false` in `AuditFiles` (`AuditExporter` has it as a constant): it
  gives up what a power loss takes.
- Errors while files are opened, read or inspected at `Start`: each ends
  `Start`, or is logged (`errRepairUnavailable`, a checkpoint file that cannot be
  read). The latter restarts `seq` at 1, listed as a hazard.
- The lines of the quarantine file and its fsync, and a WAL rename that is not
  durable, listed as hazards: the code treats them as best effort and has no
  recovery to check.
- What a sender does with an error of the processor.
- Late spans of a trace whose seal failed, in `SchemaReplay` and `AuditFiles`:
  finding 3 shows what they do.
- Signatures and key ids in `VerifyLog`, and with them `key_id_field_mismatch`.

Planned, most important first:

1. A pipeline that composes `SelectProcessor` with the exporter's guard: which
   of the processor's late spans open a second segment in the exporter.
2. Proofs: that `AuditFiles`, seen as chains and tips, implements the part of
   `AuditExporter` it details (both are now shown to implement `AuditTrail`); and
   `NothingLost` without `fsync_log` in a system that never loses power.
