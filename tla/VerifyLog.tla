----------------------------- MODULE VerifyLog ------------------------------
(***************************************************************************)
(* verify.go: what the offline verifier reports of an audit log and a      *)
(* checkpoint file, both of which it could read.  The entries of a trace   *)
(* verify as a chain when they are numbered 0, 1, 2... without a gap, and  *)
(* the tip hash then tells how many they are.                              *)
(***************************************************************************)
EXTENDS JsonlFile, FiniteSets

(* readLogEntries groups the lines that parse by trace.                    *)
LinesOf(log, t) == {i \in DOMAIN Parsed(log) : Parsed(log)[i].trace = t}
SeqsOf(log, t) == {Parsed(log)[i].seqInTrace : i \in LinesOf(log, t)}
EntryCount(log, t) == Cardinality(LinesOf(log, t))
TracesIn(log) == {Parsed(log)[i].trace : i \in DOMAIN Parsed(log)}

DuplicateSegment(log, t) == Cardinality(SeqsOf(log, t)) < EntryCount(log, t)
ChainVerifies(log, t) == SeqsOf(log, t) = 0 .. EntryCount(log, t) - 1

(* A duplicated trace's chain is not looked at, and counts as failed.      *)
ChainFailure(log, t) ==
  IF DuplicateSegment(log, t) THEN {"duplicate_trace_segment"}
  ELSE IF ChainVerifies(log, t) THEN {} ELSE {"chain"}

(* A checkpoint is compared with the digest of the line before it, good or *)
(* not; its number is not looked at.                                       *)
LinkBroken(lines, i) ==
  lines[i].prev # IF i = 1 THEN ZeroPrev ELSE Digest(lines[i - 1])

(* Every tip of every checkpoint is compared with the log as it is now.    *)
CountMatches(log, tip) == EntryCount(log, tip.trace) = tip.count

TipFailure(log, tip) ==
  (IF CountMatches(log, tip) THEN {} ELSE {"entry_count_mismatch"})
  \cup (IF ChainFailure(log, tip.trace) # {} THEN {"tip_hash_unverifiable"}
        ELSE IF tip.trace \notin TracesIn(log) \/ CountMatches(log, tip) THEN {}
        ELSE {"tip_hash_mismatch"})

TipsIn(check) ==
  UNION {{Parsed(check)[i].tips[j] : j \in DOMAIN Parsed(check)[i].tips}
         : i \in DOMAIN Parsed(check)}

(* The findings that count as fatal, by the trace they name ...            *)
FatalFindings(log, check, t) ==
  ChainFailure(log, t)
  \cup UNION {TipFailure(log, tip) : tip \in {k \in TipsIn(check) : k.trace = t}}

(* ... the ones that name a checkpoint, and the advisory that the log ends *)
(* in a line that does not parse.                                          *)
CheckpointFindings(check) == {i \in DOMAIN Parsed(check) : LinkBroken(Parsed(check), i)}
TornTrailingLine(log) == TornLine(log)
=============================================================================
