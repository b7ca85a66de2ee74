---------------------------- MODULE SchemaReplay -----------------------------
(***************************************************************************)
(* What becomes of the records that a WAL brings from other versions of    *)
(* the exporter: Start re-stamps a trace, seals it at the version it has,  *)
(* or quarantines it, and keeps its later spans out.  A chain must hold    *)
(* one schema_version, and a record may not claim one that changes what it *)
(* says (record.go, restampableToCurrent).                                 *)
(*                                                                         *)
(* A record has the version it was made by and the one it is labelled      *)
(* with.  wal[t] is what Replay returns for t: appends succeed, the marker *)
(* empties it.  A seal is one step; how its writes fail is AuditFiles'.    *)
(* No span comes late for a trace whose seal failed: AuditExporter shows   *)
(* what that does.                                                         *)
(***************************************************************************)
EXTENDS Integers, Sequences, FiniteSets

CONSTANTS
  Traces, Spans, Root,
  MaxOld,      (* bound: records other versions left in the WAL            *)
  MaxRecords,  (* bound: records of a trace in the WAL                     *)
  MaxFaults,   (* bound: writes that fail                                  *)
  MaxStops     (* bound: crashes                                           *)

ASSUME SchemaAssumption == Root \in Spans /\ MaxOld \in Nat /\ MaxFaults \in Nat /\ MaxStops \in Nat

VARIABLES
  phase,          (* "down", "replaying", "sealing" (at own version), "up" *)
  wal,            (* wal[t]: the records of t that Replay returns          *)
  todo,           (* replayed traces Start has not decided about           *)
  buffers,        (* buffers[t]: the records of e.buffers[t]               *)
  sealAtOwnVersion, startupSealed, sealedTraces, logPoisoned,
  log,            (* the chains in the audit log, as sets of records       *)
  quarantined,    (* what the quarantine file has, as <<trace, record>>    *)
  accepted,       (* history: what was in a WAL once, as <<trace, span>>   *)
  faults, stops

memory == <<todo, buffers, sealAtOwnVersion, startupSealed, sealedTraces, logPoisoned>>
disk == <<wal, log, quarantined>>
vars == <<phase, memory, disk, accepted, faults, stops>>

Current == "v3"
RestampableToCurrent == {"v2", "v3"}
Implemented == {"v1", "v2", "v3"}
SchemaVersion == Implemented \cup {"v4"}

Record == [span : Spans, made : SchemaVersion, label : SchemaVersion]
MadeBy(v, s) == [span |-> s, made |-> v, label |-> v]
Unsealed == {r \in Record : r.label = r.made}
Chain == [trace : Traces, records : SUBSET Record]

Versions(records) == {r.label : r \in records}
SpansOf(records) == {r.span : r \in records}

Init ==
  /\ phase = "down"
  /\ \E n \in [Traces -> 0 .. MaxOld] :
       /\ \A t, u \in Traces : t # u => n[t] + n[u] <= MaxOld
       /\ wal \in {w \in [Traces -> UNION {[1 .. k -> Unsealed] : k \in 0 .. MaxOld}] :
                     \A t \in Traces : Len(w[t]) = n[t]}
  /\ todo = {} /\ buffers = [t \in Traces |-> {}]
  /\ sealAtOwnVersion = {} /\ startupSealed = {} /\ sealedTraces = {} /\ logPoisoned = FALSE
  /\ log = {} /\ quarantined = {}
  /\ accepted = {x \in Traces \X Spans : \E i \in DOMAIN wal[x[1]] : wal[x[1]][i].span = x[2]}
  /\ faults = 0 /\ stops = 0

FaultHappens == faults < MaxFaults /\ faults' = faults + 1

-----------------------------------------------------------------------------
(* What a replayed trace is decided over: of a span delivered again, the   *)
(* last copy.                                                              *)
AllCopies(copies) == {copies[i] : i \in DOMAIN copies}
Deduped(copies) ==
  {copies[i] : i \in {j \in DOMAIN copies :
                        \A k \in DOMAIN copies : copies[k].span = copies[j].span => k <= j}}

OneRestampable(records) == \E v \in RestampableToCurrent : Versions(records) = {v}
AllRestampable(records) == Versions(records) \subseteq RestampableToCurrent

AnyOneVersion(records) == Cardinality(Versions(records)) = 1
AnyImplemented(records) == Versions(records) \subseteq Implemented
SealableAtOwnVersion(records) == \E v \in Implemented : Versions(records) = {v}

Restamped(records) == {[r EXCEPT !.label = Current] : r \in records}

(* Records that cannot be sealed are set aside; the WAL lets go of them    *)
(* only when all of them are.  The marker may fail to be written as well.  *)
AnyKept(records, kept) == kept # {}
AllKept(records, kept) == kept = records

Quarantine(t, records, replayable) ==
  \E kept \in SUBSET records :
    /\ quarantined' = quarantined \cup ({t} \X kept)
    /\ \/ /\ AllKept(records, kept)
          /\ wal' = [wal EXCEPT ![t] = <<>>]
          /\ IF kept = records THEN faults' = faults ELSE FaultHappens
       \/ /\ wal' = [wal EXCEPT ![t] = replayable]
          /\ FaultHappens

(* sealTrace: to quarantine once the log is poisoned, else one chain, or   *)
(* none when a write fails, which may poison the log.                      *)
SealTrace(t, records, replayable) ==
  /\ buffers' = [buffers EXCEPT ![t] = {}]
  /\ sealedTraces' = sealedTraces \cup {t}
  /\ \/ /\ logPoisoned
        /\ Quarantine(t, records, replayable)
        /\ UNCHANGED <<log, logPoisoned>>
     \/ /\ ~logPoisoned
        /\ log' = log \cup {[trace |-> t, records |-> records]}
        /\ \/ wal' = [wal EXCEPT ![t] = <<>>] /\ faults' = faults
           \/ wal' = [wal EXCEPT ![t] = replayable] /\ FaultHappens
        /\ UNCHANGED <<quarantined, logPoisoned>>
     \/ /\ ~logPoisoned
        /\ logPoisoned' \in BOOLEAN
        /\ wal' = [wal EXCEPT ![t] = replayable]
        /\ FaultHappens
        /\ UNCHANGED <<log, quarantined>>

-----------------------------------------------------------------------------
Start ==
  /\ phase = "down"
  /\ phase' = "replaying"
  /\ todo' = {t \in Traces : wal[t] # <<>>}
  /\ UNCHANGED <<buffers, sealAtOwnVersion, startupSealed, sealedTraces, logPoisoned,
                 disk, accepted, faults, stops>>

(* One replayed trace, in any order.                                       *)
RehydrateTrace(t, records) ==
  /\ AllRestampable(records)
  /\ buffers' = [buffers EXCEPT ![t] = Restamped(records)]
  /\ UNCHANGED <<sealAtOwnVersion, startupSealed, disk, faults>>

KeepOwnVersion(t, records) ==
  /\ ~AllRestampable(records)
  /\ SealableAtOwnVersion(records)
  /\ buffers' = [buffers EXCEPT ![t] = records]
  /\ sealAtOwnVersion' = sealAtOwnVersion \cup {t}
  /\ UNCHANGED <<startupSealed, disk, faults>>

SetAside(t, records) ==
  /\ ~AllRestampable(records)
  /\ ~SealableAtOwnVersion(records)
  /\ Quarantine(t, records, wal[t])
  /\ startupSealed' = startupSealed \cup {t}
  /\ UNCHANGED <<buffers, sealAtOwnVersion, log>>

DecideTrace(t) ==
  /\ phase = "replaying"
  /\ t \in todo
  /\ LET records == Deduped(wal[t])
     IN  RehydrateTrace(t, records) \/ KeepOwnVersion(t, records) \/ SetAside(t, records)
  /\ todo' = todo \ {t}
  /\ UNCHANGED <<phase, sealedTraces, logPoisoned, accepted, stops>>

EndReplay ==
  /\ phase = "replaying" /\ todo = {}
  /\ phase' = "sealing"
  /\ UNCHANGED <<memory, disk, accepted, faults, stops>>

SealAtOwnVersion(t) ==
  /\ phase = "sealing"
  /\ t \in sealAtOwnVersion
  /\ sealAtOwnVersion' = sealAtOwnVersion \ {t}
  /\ startupSealed' = startupSealed \cup {t}
  /\ SealTrace(t, buffers[t], wal[t])
  /\ UNCHANGED <<phase, todo, accepted, stops>>

StartReturns ==
  /\ phase = "sealing" /\ sealAtOwnVersion = {}
  /\ phase' = "up"
  /\ UNCHANGED <<memory, disk, accepted, faults, stops>>

-----------------------------------------------------------------------------
(* bufferSpan: spans of closed traces are dropped; a span delivered again  *)
(* replaces its older copy; a root, rehydrated or not, seals.              *)
SealedOnly == sealedTraces
Closed == startupSealed \cup sealedTraces

Deliver(t, s) ==
  LET rec     == MadeBy(Current, s)
      records == {r \in buffers[t] : r.span # s} \cup {rec}
      copies  == Append(wal[t], rec)
  IN  /\ phase = "up"
      /\ t \notin Closed
      /\ wal[t] # <<>> => buffers[t] # {}
      /\ Len(wal[t]) < MaxRecords
      /\ accepted' = accepted \cup {<<t, s>>}
      /\ IF Root \in SpansOf(records)
         THEN SealTrace(t, records, copies)
         ELSE /\ buffers' = [buffers EXCEPT ![t] = records]
              /\ wal' = [wal EXCEPT ![t] = copies]
              /\ UNCHANGED <<sealedTraces, logPoisoned, log, quarantined, faults>>
      /\ UNCHANGED <<phase, todo, sealAtOwnVersion, startupSealed, stops>>

(* The trace fell silent, or the exporter shuts down.                      *)
SealOpenTrace(t) ==
  /\ phase = "up"
  /\ buffers[t] # {}
  /\ SealTrace(t, buffers[t], wal[t])
  /\ UNCHANGED <<phase, todo, sealAtOwnVersion, startupSealed, accepted, stops>>

(* A background compaction that succeeds forgets the sealed traces.        *)
CompactDone ==
  /\ phase = "up"
  /\ sealedTraces' = {}
  /\ UNCHANGED <<phase, todo, buffers, sealAtOwnVersion, startupSealed, logPoisoned,
                 disk, accepted, faults, stops>>

Crash ==
  /\ phase # "down"
  /\ stops < MaxStops /\ stops' = stops + 1
  /\ phase' = "down"
  /\ todo' = {} /\ buffers' = [t \in Traces |-> {}]
  /\ sealAtOwnVersion' = {} /\ startupSealed' = {} /\ sealedTraces' = {} /\ logPoisoned' = FALSE
  /\ UNCHANGED <<disk, accepted, faults>>

Next ==
  \/ Start \/ EndReplay \/ StartReturns \/ CompactDone \/ Crash
  \/ \E t \in Traces :
       \/ DecideTrace(t) \/ SealAtOwnVersion(t) \/ SealOpenTrace(t)
       \/ \E s \in Spans : Deliver(t, s)

Spec == Init /\ [][Next]_vars

-----------------------------------------------------------------------------
TypeOK ==
  /\ phase \in {"down", "replaying", "sealing", "up"}
  /\ wal \in [Traces -> Seq(Record)]
  /\ \A set \in {todo, sealAtOwnVersion, startupSealed, sealedTraces} : set \subseteq Traces
  /\ buffers \in [Traces -> SUBSET Record]
  /\ \A t \in Traces : \A r1, r2 \in buffers[t] : r1.span = r2.span => r1 = r2
  /\ logPoisoned \in BOOLEAN
  /\ log \subseteq Chain
  /\ quarantined \subseteq Traces \X Record
  /\ accepted \subseteq Traces \X Spans
  /\ faults \in 0 .. MaxFaults /\ stops \in 0 .. MaxStops

(* "A chain carries exactly one schema_version" (Start), whatever the WAL  *)
(* brought and whichever spans came after: the verifier rejects any other. *)
ChainsOneVersion ==
  \A chain \in log : Cardinality(Versions(chain.records)) = 1

(* No record is signed under a version that changes what it says, or that  *)
(* this binary cannot write (record.go: "misrepresented evidence").        *)
HonestVersions ==
  \A chain \in log : \A r \in chain.records :
    /\ r.label \in Implemented
    /\ r.label = r.made \/ {r.label, r.made} \subseteq RestampableToCurrent

(* No record is lost on the way, whatever fails and whenever it crashes:   *)
(* it is still in the WAL, in a chain, or in the quarantine file.          *)
NoRecordLost ==
  \A t \in Traces, s \in Spans :
    <<t, s>> \in accepted =>
      \/ \E i \in DOMAIN wal[t] : wal[t][i].span = s
      \/ \E chain \in log : chain.trace = t /\ s \in SpansOf(chain.records)
      \/ \E r \in Record : r.span = s /\ <<t, r>> \in quarantined

(* "An ordinary upgrade path ... must not lose data" (Start): a trace is   *)
(* quarantined only if the last copies of its records really cannot be     *)
(* one chain, or the log is poisoned.                                      *)
Irreconcilable(t) ==
  LET records == Deduped(wal[t])
  IN  /\ ~Versions(records) \subseteq RestampableToCurrent
      /\ Cardinality(Versions(records)) > 1 \/ ~Versions(records) \subseteq Implemented

QuarantineOnlyWhenForced ==
  [][\A t \in Traces, r \in Record :
       <<t, r>> \in quarantined' \ quarantined => logPoisoned \/ Irreconcilable(t)]_vars

(* A trace closed at startup stays closed until the process ends, although *)
(* compactions forget it was sealed: a second chain of it, at the current  *)
(* version, would be taken for a duplicated one.                           *)
NoChainAfterStartupSeal ==
  [][\A t \in startupSealed :
       {chain \in log' : chain.trace = t} = {chain \in log : chain.trace = t}]_vars
=============================================================================
