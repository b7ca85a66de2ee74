--------------------------- MODULE WriteAheadLog ----------------------------
(***************************************************************************)
(* internal/wal/wal.go: the exporter's write-ahead log, as a file of       *)
(* lines.  Every method takes w.mu for its whole body, so each is one      *)
(* action.  Lines carry no bytes: a line is a span entry, a sealed marker, *)
(* or something json.Unmarshal rejects.  An operation that fails without   *)
(* leaving a byte behind changes nothing and needs no action.              *)
(*                                                                         *)
(* Faults (a subset of AllFaults) are the failures the run may meet:       *)
(*   "shortWrite"   a write(2) stops inside a line and returns an error    *)
(*   "syncFail"     fsync returns an error after a complete write          *)
(*   "compactFail"  Compact fails before its rename, or after it when the  *)
(*                  new file cannot be reopened                            *)
(*   "powerLoss"    lines since the last fsync, or a part of them, vanish  *)
(***************************************************************************)
EXTENDS Integers, SequencesExt

CONSTANTS
  Traces, Records, Hashes,
  NoHash,     (* the empty TipHash of a marker that is owed no checkpoint  *)
  Faults,
  MaxLines    (* bound: length of the file                                 *)

AllFaults == {"shortWrite", "syncFail", "compactFail", "powerLoss"}

ASSUME WalAssumption ==
  /\ NoHash \notin Hashes
  /\ Faults \subseteq AllFaults
  /\ MaxLines \in Nat \ {0}

VARIABLES
  file,        (* the lines of the WAL, oldest first                       *)
  torn,        (* the last line has no newline yet                         *)
  synced,      (* how many lines an fsync has made durable                 *)
  fdOpen,      (* w.f can be written to                                    *)
  up,          (* the process runs                                         *)
  closed,      (* history: traces whose last call was a MarkSealed that    *)
               (* returned nil                                             *)
  promised     (* history: tips given to a MarkSealed that returned nil    *)
               (* and still pending at every Compact since                 *)

vars == <<file, torn, synced, fdOpen, up, closed, promised>>

Tip == [trace : Traces, hash : Hashes]
SpanLine == [type : {"span"}, trace : Traces, rec : Records]
SealedLine == [type : {"sealed"}, trace : Traces, hash : Hashes \cup {NoHash}]
Unparseable == [type |-> "unparseable"]
Line == SpanLine \cup SealedLine \cup {Unparseable}

Span(t, r) == [type |-> "span", trace |-> t, rec |-> r]
Sealed(t, h) == [type |-> "sealed", trace |-> t, hash |-> h]
TipOf(line) == [trace |-> line.trace, hash |-> line.hash]

-----------------------------------------------------------------------------
(* Replay and Compact both scan the file once, keeping a running result.   *)
(* The `sealed` map of the code is written and deleted but never decides   *)
(* anything else, so the scan's result does not depend on it.              *)

SealedBufferKept(buffers, t) == buffers
SealedBufferDropped(buffers, t) == [buffers EXCEPT ![t] = <<>>]

ReplayLine(acc, line) ==
  CASE line.type = "span" ->
         [acc EXCEPT !.buffers[line.trace] = Append(@, line.rec)]
    [] line.type = "sealed" ->
         [acc EXCEPT !.buffers = SealedBufferDropped(@, line.trace),
                     !.pending = IF line.hash = NoHash THEN @
                                 ELSE Append(@, TipOf(line))]
    [] OTHER -> acc

Replay(f) ==
  FoldLeft(ReplayLine, [buffers |-> [t \in Traces |-> <<>>], pending |-> <<>>], f)

(* The elements of s that are in S, in their order.                        *)
Select(s, S) ==
  FoldLeft(LAMBDA kept, x : IF x \in S THEN Append(kept, x) ELSE kept, <<>>, s)

SpansOf(traces) == [type : {"span"}, trace : traces, rec : Records]

(* Compact keeps a marker whose tip is pending; the empty hash is the hash *)
(* of no pending tip.                                                      *)
RetainedByTrace(line, pending) == \E k \in pending : k.trace = line.trace
RetainedNever(line, pending) == FALSE
Retained(line, pending) == TipOf(line) \in pending

CompactLine(acc, line, pending) ==
  CASE line.type = "span" -> [acc EXCEPT !.spans = Append(@, line)]
    [] line.type = "sealed" ->
         [spans |-> Select(acc.spans, SpansOf(Traces \ {line.trace})),
          keep  |-> IF Retained(line, pending) THEN Append(acc.keep, line)
                    ELSE acc.keep]
    [] OTHER -> acc

(* Retained markers are written before the spans.                          *)
SpansFirst(scan) == scan.spans \o scan.keep
MarkersFirst(scan) == scan.keep \o scan.spans

Compacted(f, pending) ==
  LET scan == FoldLeft(LAMBDA acc, line : CompactLine(acc, line, pending),
                       [spans |-> <<>>, keep |-> <<>>], f)
  IN  MarkersFirst(scan)

-----------------------------------------------------------------------------
Init ==
  /\ file = <<>>
  /\ torn = FALSE
  /\ synced = 0
  /\ fdOpen = TRUE
  /\ up = TRUE
  /\ closed = {}
  /\ promised = {}

(* A line written after a tail without a newline joins that tail into one  *)
(* line that no longer parses.                                             *)
Appended(line) ==
  IF torn THEN [file EXCEPT ![Len(file)] = Unparseable] ELSE Append(file, line)

HasRoom == Len(file) < MaxLines

(* write(2) took the whole line.                                           *)
WriteAll(line) ==
  /\ fdOpen
  /\ HasRoom
  /\ file' = Appended(line)
  /\ torn' = FALSE

(* write(2) stopped inside the line: before its JSON was complete, or with *)
(* only the newline missing, in which case the tail still parses.          *)
WriteShort(line) ==
  /\ "shortWrite" \in Faults
  /\ fdOpen
  /\ HasRoom
  /\ \E part \in {Unparseable, line} : file' = Appended(part)
  /\ torn' = TRUE

AppendSpan(t, r) ==
  /\ up
  /\ WriteAll(Span(t, r)) \/ WriteShort(Span(t, r))
  /\ closed' = closed \ {t}
  /\ UNCHANGED <<synced, fdOpen, up, promised>>

(* fsync returned: the whole file is durable.                              *)
NothingSynced == synced
AllSynced == Len(file')

(* MarkSealed returns nil only when the write and the fsync both succeed.  *)
SealAcked(t, h) ==
  /\ WriteAll(Sealed(t, h))
  /\ synced' = AllSynced
  /\ closed' = closed \cup {t}
  /\ promised' = IF h = NoHash THEN promised
                 ELSE promised \cup {[trace |-> t, hash |-> h]}

SealFailed(t, h) ==
  /\ \/ "syncFail" \in Faults /\ WriteAll(Sealed(t, h))
     \/ WriteShort(Sealed(t, h))
  /\ UNCHANGED <<synced, closed, promised>>

MarkSealed(t, h) ==
  /\ up
  /\ SealAcked(t, h) \/ SealFailed(t, h)
  /\ UNCHANGED <<fdOpen, up>>

(* The new content replaces the file by one rename, already fsynced.       *)
SyncedBefore == synced
SyncedRewritten == Len(file')

ReplaceFile(pending) ==
  /\ file' = Compacted(file, pending)
  /\ torn' = FALSE
  /\ synced' = SyncedRewritten

(* The handle is opened again for appending; when that fails every write   *)
(* is rejected until a later Compact opens it.                             *)
Compact(pending) ==
  /\ up
  /\ ReplaceFile(pending)
  /\ fdOpen' \in IF "compactFail" \in Faults THEN BOOLEAN ELSE {TRUE}
  /\ promised' = promised \cap pending
  /\ UNCHANGED <<up, closed>>

(* The process dies: what write(2) accepted stays in the file.             *)
Crash ==
  /\ up
  /\ up' = FALSE
  /\ fdOpen' = FALSE
  /\ UNCHANGED <<file, torn, synced, closed, promised>>

(* What fsync did not cover is cut anywhere, also inside a line.           *)
PowerLoss ==
  /\ "powerLoss" \in Faults
  /\ up
  /\ up' = FALSE
  /\ fdOpen' = FALSE
  /\ \E n \in synced .. Len(file) - 1 :
       \/ file' = SubSeq(file, 1, n) /\ torn' = FALSE
       \/ \E part \in {Unparseable, file[n + 1]} :
            file' = Append(SubSeq(file, 1, n), part) /\ torn' = TRUE
  /\ UNCHANGED <<synced, closed, promised>>

(* Start opens the file for appending, replays it, gives the tips it found *)
(* back to the accumulator and compacts with them; a Compact that fails is *)
(* only logged.                                                            *)
Start ==
  /\ ~up
  /\ up' = TRUE
  /\ \/ /\ ReplaceFile(ToSet(Replay(file).pending))
        /\ fdOpen' \in IF "compactFail" \in Faults THEN BOOLEAN ELSE {TRUE}
     \/ /\ "compactFail" \in Faults
        /\ fdOpen' = TRUE
        /\ UNCHANGED <<file, torn, synced>>
  /\ UNCHANGED <<closed, promised>>

Next ==
  \/ \E t \in Traces, r \in Records : AppendSpan(t, r)
  \/ \E t \in Traces, h \in Hashes \cup {NoHash} : MarkSealed(t, h)
  \/ \E pending \in SUBSET Tip : Compact(pending)
  \/ Crash
  \/ PowerLoss
  \/ Start

Spec == Init /\ [][Next]_vars

-----------------------------------------------------------------------------
(* Types, and what synced and torn may say of each other.                  *)
TypeOK ==
  /\ file \in Seq(Line) /\ Len(file) <= MaxLines
  /\ torn \in BOOLEAN /\ fdOpen \in BOOLEAN /\ up \in BOOLEAN
  /\ synced \in 0 .. Len(file)
  /\ torn => synced < Len(file)
  /\ closed \subseteq Traces
  /\ promised \subseteq Tip

(* The place of the last sealed marker of t in f, 0 when there is none.    *)
LastSeal(f, t) ==
  Max({0} \cup {i \in DOMAIN f : f[i].type = "sealed" /\ f[i].trace = t})

InProgress(f, t) == Select(SubSeq(f, LastSeal(f, t) + 1, Len(f)), SpansOf({t}))

(* Replay hands back, for every trace, the spans after its last sealed     *)
(* marker, in append order: a later copy of a span id comes later, which   *)
(* the last-write-wins of Start relies on (wal.go Replay).                 *)
ReplayMeansLastSeal ==
  \A t \in Traces :
    LET spans == InProgress(file, t)
    IN  Replay(file).buffers[t] = [i \in DOMAIN spans |-> spans[i].rec]

(* Rewriting the file never changes what is in progress, whatever set of   *)
(* tips the caller lists as pending and however often it was rewritten     *)
(* before, and forgets a tip exactly when the caller does not list it      *)
(* (wal.go Compact: markers before spans, retention by trace and hash).    *)
CompactKeepsReplay ==
  \A pending \in SUBSET Tip :
    LET before == Replay(file)
        after == Replay(Compacted(file, pending))
    IN  /\ after.buffers = before.buffers
        /\ after.pending = Select(before.pending, pending)

(* A trace whose MarkSealed returned nil does not come back as in progress *)
(* unless a span is appended for it, whatever crash or power loss follows: *)
(* "Sealed traces are excluded from the buffers result" (wal.go Replay).   *)
SealedTracesExcluded ==
  \A t \in closed : Replay(file).buffers[t] = <<>>

(* A tip MarkSealed accepted is handed back by every Replay until the      *)
(* caller compacts without listing it (wal.go Compact, issue #22).         *)
PromisedTipsReplayed ==
  promised \subseteq ToSet(Replay(file).pending)

(* The file implements the two answers of WalStore.                        *)
Store == INSTANCE WalStore WITH
  open <- [t \in Traces |-> ToSet(Replay(file).buffers[t])],
  owed <- Replay(file).pending

ImplementsStore == Store!StoreSpec
=============================================================================
