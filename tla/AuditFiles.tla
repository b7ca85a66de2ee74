----------------------------- MODULE AuditFiles -----------------------------
(***************************************************************************)
(* sealTrace's writes to the audit log, line by line, beside the           *)
(* checkpoint file it feeds: the rollback of a half-written trace, the     *)
(* repair or the poisoning when that fails too (issue #28), the quarantine *)
(* of later traces, and what the verifier says of the two files after any  *)
(* crash, power loss and restart.                                          *)
(*                                                                         *)
(* Every trace t has been delivered, with Size[t] records, and is in the   *)
(* WAL; no span arrives later, the WAL keeps what it accepted and each     *)
(* compaction is one step: spans, guard and WAL races are AuditExporter's. *)
(* fsync_log is on.  All runs under e.mu, so the steps of one seal are a   *)
(* sequence that only a stop interrupts.                                   *)
(***************************************************************************)
EXTENDS CheckpointFile, VerifyLog

CONSTANTS Traces, Size, NoTrace

ASSUME AuditFilesAssumption ==
  /\ Size \in [Traces -> Nat \ {0}]
  /\ NoTrace \notin Traces
  /\ Tips = {[trace |-> t, count |-> Size[t]] : t \in Traces}

VARIABLES
  log, logDisk,   (* the audit log, and what fsync made durable of it      *)
  logBefore,      (* the log up to preWritePos                             *)
  logPoisoned,    (* logPoisoned                                           *)
  buffered,       (* the traces in e.buffers                               *)
  cur, at,        (* the trace being sealed, where sealTrace is            *)
  written,        (* entries of it written so far                          *)
  walOpen,        (* traces whose records the WAL replays                  *)
  walOwed,        (* tips the WAL hands back                               *)
  quarantined,    (* traces all of whose records the quarantine file has   *)
  attempts,       (* history: attempts[t] seals of t began to write        *)
  earlier,        (* history: traces attempted before the last start       *)
  unmarked        (* history: the log's poison marker could not be written *)

sealVars == <<buffered, cur, at, written>>
logFileVars == <<log, logDisk, logBefore, logPoisoned, unmarked>>
walVars == <<walOpen, walOwed, quarantined>>
historyVars == <<attempts, earlier>>
auditVars == <<checkpointFileVars, sealVars, logFileVars, walVars, historyVars>>

LogEntry == [trace : Traces, seqInTrace : Nat]

ASSUME LogEntryAssumption == Junk \notin LogEntry

TipOf(t) == [trace |-> t, count |-> Size[t]]
NextEntry == Entry(cur, written)

Init ==
  /\ CpInit /\ faults = 0 /\ stops = 0
  /\ log = EmptyFile /\ logDisk = EmptyFile /\ logBefore = EmptyFile
  /\ logPoisoned = FALSE /\ unmarked = FALSE
  /\ buffered = Traces /\ cur = NoTrace /\ at = "idle" /\ written = 0
  /\ walOpen = Traces /\ walOwed = <<>>
  /\ quarantined = {}
  /\ attempts = [t \in Traces |-> 0] /\ earlier = {}

-----------------------------------------------------------------------------
SealReturns == at' = "idle" /\ cur' = NoTrace /\ UNCHANGED <<buffered, written>>

BeginSeal(t) ==
  /\ at = "idle" /\ cpStep = "ready"
  /\ t \in buffered
  /\ buffered' = buffered \ {t}
  /\ cur' = t /\ written' = 0
  /\ IF logPoisoned
     THEN at' = "quarantine" /\ UNCHANGED <<logBefore, attempts>>
     ELSE /\ at' = "write"
          /\ logBefore' = log
          /\ attempts' = [attempts EXCEPT ![t] = @ + 1]
  /\ UNCHANGED <<checkpointFileVars, log, logDisk, logPoisoned, unmarked, walVars, earlier>>

FsyncSkipped == "tip"
AfterLastEntry == "sync"

WriteEntry ==
  /\ at = "write"
  /\ log' = Written(log, NextEntry)
  /\ written' = written + 1
  /\ at' = IF written' = Size[cur] THEN AfterLastEntry ELSE "write"
  /\ UNCHANGED <<checkpointFileVars, buffered, cur, logDisk, logBefore, logPoisoned,
                 unmarked, walVars, historyVars>>

(* poisonLog: the marker makes the tail unparseable; it may not be synced, *)
(* and it may not get there at all.                                        *)
Marked(file) == [file EXCEPT !.tail = <<Junk>>]

PoisonLog(file, disk) ==
  /\ logPoisoned' = TRUE
  /\ \/ log' = Marked(file) /\ logDisk' \in {disk, Marked(file)} /\ unmarked' = FALSE
     \/ log' = file /\ logDisk' = disk /\ unmarked' = TRUE

(* repairOrPoisonLog: the repair may fail before or after it changed the   *)
(* file.                                                                   *)
RepairOrPoisonLog(file, disk) ==
  \/ /\ log' = Repaired(file)
     /\ logDisk' = IF file.tail = <<>> THEN disk ELSE Repaired(file)
     /\ UNCHANGED <<logPoisoned, unmarked>>
  \/ \E found \in {file, Repaired(file)} : PoisonLog(found, disk)

(* rollbackLog.  A truncation that cannot be fsynced is only logged.  When *)
(* the truncation fails, the tail is repaired only where that decides the  *)
(* fate of the whole trace.                                                *)
RollBackLog(file, disk, safeToRepairTail) ==
  /\ \/ log' = logBefore /\ logDisk' \in {disk, logBefore} /\ UNCHANGED <<logPoisoned, unmarked>>
     \/ ~safeToRepairTail /\ PoisonLog(file, disk)
     \/ safeToRepairTail /\ RepairOrPoisonLog(file, disk)
  /\ SealReturns

AlwaysSafe == TRUE
SafeToRepairTail == written = 0 /\ Size[cur] = 1

(* The trace stays in the WAL: the next start seals it again.              *)
WriteEntryFails ==
  /\ at = "write"
  /\ FaultHappens
  /\ \E file \in {log} \cup CutShort(log, NextEntry) :
       RollBackLog(file, logDisk, SafeToRepairTail)
  /\ UNCHANGED <<cpVars, stops, logBefore, walVars, historyVars>>

SyncLogFails ==
  /\ at = "sync"
  /\ FaultHappens
  /\ \E disk \in {logDisk, log} : RollBackLog(log, disk, TRUE)
  /\ UNCHANGED <<cpVars, stops, logBefore, walVars, historyVars>>

SyncLog ==
  /\ at = "sync"
  /\ logDisk' = log
  /\ at' = "tip"
  /\ UNCHANGED <<checkpointFileVars, buffered, cur, written, log, logBefore, logPoisoned,
                 unmarked, walVars, historyVars>>

AddTraceTip ==
  /\ at = "tip"
  /\ AddTip(TipOf(cur))
  /\ at' = "checkpoint"
  /\ UNCHANGED <<buffered, cur, written, logFileVars, walVars, historyVars>>

(* The interval is not reached or a retry is held off: any number of times *)
(* here, CheckpointRetry says how long.                                    *)
SkipCheckpoint ==
  /\ at = "checkpoint" /\ cpStep = "ready"
  /\ at' = "mark"
  /\ UNCHANGED <<checkpointFileVars, buffered, cur, written, logFileVars, walVars, historyVars>>

WriteCheckpoint ==
  /\ at = "checkpoint"
  /\ \/ (Stage \/ WriteLine) /\ at' = at
     \/ (Commit \/ WriteFails \/ SyncFails) /\ at' = "mark"
  /\ UNCHANGED <<buffered, cur, written, logFileVars, walVars, historyVars>>

MarkWal(tips) == walOpen' = walOpen \ {cur} /\ walOwed' = walOwed \o tips

(* The marker carries the tip only if it still waits for a checkpoint.     *)
SealedMarkerTip ==
  IF \E i \in DOMAIN pending : pending[i] = TipOf(cur) THEN <<TipOf(cur)>> ELSE <<>>

MarkSealed ==
  /\ at = "mark"
  /\ \/ MarkWal(SealedMarkerTip) /\ faults' = faults
     \/ FaultHappens /\ UNCHANGED <<walOpen, walOwed>>
  /\ SealReturns
  /\ UNCHANGED <<cpVars, stops, logFileVars, quarantined, historyVars>>

(* When only some of the records get into the quarantine file the WAL      *)
(* keeps them all, and when the marker fails it keeps those that got there *)
(* as well.                                                                *)
MarkedAnyway == MarkWal(<<>>)
PartlyQuarantined == UNCHANGED <<walOpen, walOwed>>

QuarantineTrace ==
  /\ at = "quarantine"
  /\ \/ quarantined' = quarantined \cup {cur} /\ MarkWal(<<>>) /\ faults' = faults
     \/ /\ FaultHappens /\ quarantined' = quarantined \cup {cur}
        /\ UNCHANGED <<walOpen, walOwed>>
     \/ FaultHappens /\ quarantined' = quarantined /\ PartlyQuarantined
  /\ SealReturns
  /\ UNCHANGED <<cpVars, stops, logFileVars, historyVars>>

(* A compaction forgets the tips that are not pending any more.  (That the *)
(* tips left are pending is so by SelectSeq, which no prover sees through.)*)
CompactWal ==
  /\ cpStep # "down"
  /\ walOwed' = SelectSeq(walOwed, LAMBDA tip : \E i \in DOMAIN pending : pending[i] = tip)
  /\ walOwed' \in Seq({pending[i] : i \in DOMAIN pending})
  /\ UNCHANGED <<checkpointFileVars, sealVars, logFileVars, walOpen, quarantined, historyVars>>

-----------------------------------------------------------------------------
LoseMemory ==
  /\ buffered' = {} /\ cur' = NoTrace /\ at' = "idle" /\ written' = 0
  /\ logPoisoned' = FALSE /\ unmarked' = FALSE /\ logBefore' = EmptyFile
  /\ UNCHANGED <<walVars, historyVars>>

Crash ==
  /\ CpCrash
  /\ log' \in {log} \cup (IF at = "write" THEN CutShort(log, NextEntry) ELSE {})
  /\ logDisk' = logDisk
  /\ LoseMemory

PowerLoss ==
  /\ CpPowerLoss
  /\ \E cache \in {log} \cup (IF at = "write" THEN {Written(log, NextEntry)} ELSE {}) :
       log' \in Survivors(logDisk, cache)
  /\ logDisk' = log'
  /\ LoseMemory

(* Start repairs both files and rehydrates what the WAL replays; its       *)
(* compaction keeps the tips it just made pending.                         *)
LogNotRepaired(f) == f
RepairLog(f) == Repaired(f)

Start ==
  /\ CpStart(walOwed)
  /\ log' = RepairLog(log)
  /\ logDisk' = IF log.tail = <<>> THEN logDisk ELSE log'
  /\ buffered' = walOpen
  /\ earlier' = {t \in Traces : attempts[t] > 0}
  /\ UNCHANGED <<cur, at, written, logBefore, logPoisoned, unmarked, walVars, attempts>>

(* Everything delivered has been sealed: the exporter waits for spans.     *)
Idle == at = "idle" /\ cpStep = "ready" /\ buffered = {} /\ UNCHANGED auditVars

Next ==
  \/ \E t \in Traces : BeginSeal(t)
  \/ WriteEntry \/ WriteEntryFails \/ SyncLog \/ SyncLogFails
  \/ AddTraceTip \/ SkipCheckpoint \/ WriteCheckpoint
  \/ MarkSealed \/ QuarantineTrace \/ CompactWal
  \/ Crash \/ PowerLoss \/ Start \/ Idle

Spec == Init /\ [][Next]_auditVars

-----------------------------------------------------------------------------
TypeOK ==
  /\ CpTypeOK
  /\ \A f \in {log, logDisk, logBefore} :
       f \in File(LogEntry)
  /\ logPoisoned \in BOOLEAN /\ unmarked \in BOOLEAN
  /\ buffered \subseteq Traces /\ cur \in Traces \cup {NoTrace}
  /\ at \in {"idle", "write", "sync", "tip", "checkpoint", "mark", "quarantine"}
  /\ written \in Nat
  /\ walOpen \subseteq Traces /\ walOwed \in Seq(Tips) /\ quarantined \subseteq Traces
  /\ attempts \in [Traces -> Nat] /\ earlier \subseteq Traces

(* The verifier can always read the audit log: a torn line is the last one *)
(* and nothing was ever written after it (issues #24 and #28).             *)
LogReadable == Readable(log)

(* The entries of t that a reader of the log finds are all there are.      *)
Whole(t) == SeqsOf(log, t) = 0 .. Size[t] - 1

(* What was accepted is never lost: at every moment a trace's records are  *)
(* in the WAL for the next start, all in the log, or all in the quarantine *)
(* file, whichever writes, fsyncs and rollbacks failed.                    *)
RecordsSurvive ==
  \A t \in Traces : t \in walOpen \/ t \in quarantined \/ Whole(t)

(* A seal that failed half-way never leaves part of its trace in a log the *)
(* verifier finds nothing wrong with (threat-model.md 3f).  The gap named  *)
(* there, a marker that cannot be written either, is left out, and so are  *)
(* traces an earlier process left half-written: those are sealed again.    *)
NoSilentPartialTrace ==
  cpStep # "down" =>
    \A t \in Traces \ earlier :
      t # cur /\ LinesOf(log, t) # {} /\ ~Whole(t) => TornTrailingLine(log) \/ unmarked

(* On files nobody touched the verifier calls a trace bad only when it was *)
(* sealed again after a failed seal or a stop, whatever else went wrong    *)
(* (verification.md: duplicate_trace_segment is no evidence of tampering); *)
(* never a checkpoint.                                                     *)
FatalOnlyAfterReseal ==
  /\ CheckpointFindings(cp) = {}
  /\ \A t \in Traces : FatalFindings(log, cp, t) # {} => attempts[t] > 1

(* Line i of f is there in g as well, with all the lines before it.        *)
Same(i, f, g) ==
  /\ i <= Len(f.lines) /\ i <= Len(g.lines)
  /\ \A j \in 1 .. i : f.lines[j] = g.lines[j]

(* What the log can become: as it is, as it is on the disk, or as it was.  *)
Sealing == at \in {"write", "sync"}
LogFiles == {log, logDisk} \cup (IF Sealing THEN {logBefore} ELSE {})
StayingLines == {i \in DOMAIN log.lines : \A f \in LogFiles : Same(i, log, f)}

Recorded(t) ==
  \/ t \in quarantined
  \/ \A n \in 0 .. Size[t] - 1 : \E i \in StayingLines : log.lines[i] = Entry(t, n)

VouchedFor(line) == {line.tips[j].trace : j \in DOMAIN line.tips}

(* What AuditTrail promises of the spans holds of the files: the WAL lets  *)
(* a trace go only once every line of it is recorded where no rollback,    *)
(* repair or power loss reaches, it stays recorded, and a checkpoint that  *)
(* was committed vouches for recorded traces only (sealTrace).             *)
Trail == INSTANCE AuditTrail WITH
  held <- walOpen,
  recorded <- {t \in Traces : Recorded(t)},
  attested <- {VouchedFor(committed[i]) : i \in DOMAIN committed}

ImplementsAuditTrail == Trail!TrailSpec
=============================================================================
