------------------------- MODULE SchemaReplayProofs -------------------------
(***************************************************************************)
(* For any traces, spans, WAL contents, faults and crashes: every chain    *)
(* has one schema version, no record in it claims one it must not, and a   *)
(* trace closed at startup gets no chain in that process any more.         *)
(***************************************************************************)
EXTENDS SchemaReplay, FiniteSetTheorems, WellFoundedInduction, TLAPS

(* The WAL's copies keep the version they were made by.                    *)
WalHonest == \A t \in Traces : \A i \in DOMAIN wal[t] : wal[t][i].label = wal[t][i].made

(* What may be sealed together: records that all say v and may.            *)
SealableAs(records, v) ==
  \A r \in records : r.label = v /\ (r.made = v \/ {v, r.made} \subseteq RestampableToCurrent)

(* Open buffers are current; those to be sealed at their own version hold  *)
(* one implemented version and are not open to spans yet.                  *)
BuffersSealable ==
  /\ \A t \in Traces \ sealAtOwnVersion : SealableAs(buffers[t], Current)
  /\ \A t \in sealAtOwnVersion :
       buffers[t] # {} /\ \E v \in Implemented : SealableAs(buffers[t], v)
  /\ phase \in {"up", "down"} => sealAtOwnVersion = {}

ChainsSealable ==
  \A chain \in log :
    chain.records # {} /\ \E v \in Implemented : SealableAs(chain.records, v)

(* Start decides about each trace once.                                    *)
DecidedOnce ==
  /\ startupSealed \cap (sealAtOwnVersion \cup todo) = {}
  /\ sealAtOwnVersion \cap todo = {}
  /\ \A t \in startupSealed \cup todo : buffers[t] = {}
  /\ phase = "down" => \A t \in Traces : buffers[t] = {}
  /\ phase = "down" => startupSealed = {}
  /\ phase \in {"down", "sealing", "up"} => todo = {}

Inv == TypeOK /\ WalHonest /\ BuffersSealable /\ ChainsSealable /\ DecidedOnce

-----------------------------------------------------------------------------
LEMMA FaultTypes ==
  ASSUME TypeOK, faults' = faults \/ FaultHappens
  PROVE  faults' \in 0 .. MaxFaults
BY SchemaAssumption DEF TypeOK, FaultHappens

LEMMA InitInv == Init => Inv
<1> SUFFICES ASSUME Init PROVE Inv
  OBVIOUS
<1>1. PICK n \in [Traces -> 0 .. MaxOld] :
        wal \in {w \in [Traces -> UNION {[1 .. k -> Unsealed] : k \in 0 .. MaxOld}] :
                   \A t \in Traces : Len(w[t]) = n[t]}
  BY DEF Init
<1>2. ASSUME NEW t \in Traces
      PROVE  wal[t] \in Seq(Record) /\ \A i \in DOMAIN wal[t] : wal[t][i].label = wal[t][i].made
  <2>1. PICK k \in 0 .. MaxOld : wal[t] \in [1 .. k -> Unsealed]
    BY <1>1
  <2>2. k \in Nat
    BY <2>1, SchemaAssumption
  <2>3. \A r \in Unsealed : r \in Record /\ r.label = r.made
    BY DEF Unsealed
  <2>4. QED
    BY <2>1, <2>2, <2>3
<1>3. wal \in [Traces -> Seq(Record)]
  BY <1>1, <1>2
<1>4. TypeOK
  <2>1. /\ accepted \subseteq Traces \X Spans /\ log = {} /\ quarantined = {}
        /\ faults \in 0 .. MaxFaults /\ stops \in 0 .. MaxStops
    BY SchemaAssumption DEF Init
  <2>2. buffers \in [Traces -> SUBSET Record] /\ \A t \in Traces : buffers[t] = {}
    BY DEF Init
  <2>3. QED
    BY <1>3, <2>1, <2>2 DEF Init, TypeOK
<1>5. WalHonest /\ BuffersSealable /\ ChainsSealable /\ DecidedOnce
  BY <1>2 DEF Init, WalHonest, BuffersSealable, SealableAs, ChainsSealable, DecidedOnce
<1>6. QED
  BY <1>4, <1>5 DEF Inv

(* What Quarantine and SealTrace change.                                   *)
LEMMA WalFacts ==
  ASSUME TypeOK, WalHonest, NEW t \in Traces, NEW replayable \in Seq(Record),
         \A i \in DOMAIN replayable : replayable[i].label = replayable[i].made,
         wal' = [wal EXCEPT ![t] = <<>>] \/ wal' = [wal EXCEPT ![t] = replayable]
  PROVE  wal' \in [Traces -> Seq(Record)] /\ WalHonest'
<1>1. wal \in [Traces -> Seq(Record)]
  BY DEF TypeOK
<1>2. wal'[t] \in {<<>>, replayable} /\ \A u \in Traces : u # t => wal'[u] = wal[u]
  BY <1>1
<1>3. wal' \in [Traces -> Seq(Record)]
  <2>1. <<>> \in Seq(Record)
    OBVIOUS
  <2>2. CASE wal' = [wal EXCEPT ![t] = <<>>]
    BY <1>1, <2>1, <2>2
  <2>3. CASE wal' = [wal EXCEPT ![t] = replayable]
    BY <1>1, <2>3
  <2>4. QED
    BY <2>2, <2>3
<1>4. ASSUME NEW u \in Traces, NEW i \in DOMAIN wal'[u]
      PROVE  wal'[u][i].label = wal'[u][i].made
  <2>1. CASE u # t
    BY <1>2, <1>4, <2>1 DEF WalHonest
  <2>2. CASE u = t /\ wal'[t] = replayable
    BY <1>4, <2>2
  <2>3. CASE u = t /\ wal'[t] = <<>>
    BY <1>4, <2>3
  <2>4. QED
    BY <1>2, <2>1, <2>2, <2>3
<1>5. QED
  BY <1>3, <1>4 DEF WalHonest

LEMMA QuarantineFacts ==
  ASSUME TypeOK, WalHonest, NEW t \in Traces, NEW records \in SUBSET Record,
         NEW replayable \in Seq(Record),
         \A i \in DOMAIN replayable : replayable[i].label = replayable[i].made,
         Quarantine(t, records, replayable)
  PROVE  /\ quarantined' \subseteq Traces \X Record
         /\ wal' \in [Traces -> Seq(Record)] /\ WalHonest'
         /\ faults' \in 0 .. MaxFaults
<1>1. PICK kept \in SUBSET records :
        /\ quarantined' = quarantined \cup ({t} \X kept)
        /\ faults' = faults \/ FaultHappens
        /\ wal' = [wal EXCEPT ![t] = <<>>] \/ wal' = [wal EXCEPT ![t] = replayable]
  BY DEF Quarantine
<1>2. quarantined' \subseteq Traces \X Record
  BY <1>1 DEF TypeOK
<1>3. wal' \in [Traces -> Seq(Record)] /\ WalHonest'
  BY <1>1, WalFacts
<1>4. QED
  BY <1>1, <1>2, <1>3, FaultTypes

LEMMA SealFacts ==
  ASSUME TypeOK, WalHonest, ChainsSealable, NEW t \in Traces, NEW records \in SUBSET Record,
         NEW replayable \in Seq(Record),
         \A i \in DOMAIN replayable : replayable[i].label = replayable[i].made,
         records # {}, NEW v \in Implemented, SealableAs(records, v),
         SealTrace(t, records, replayable)
  PROVE  /\ quarantined' \subseteq Traces \X Record
         /\ wal' \in [Traces -> Seq(Record)] /\ WalHonest'
         /\ faults' \in 0 .. MaxFaults
         /\ log' \subseteq Chain /\ ChainsSealable'
         /\ buffers' = [buffers EXCEPT ![t] = {}]
         /\ sealedTraces' \subseteq Traces /\ logPoisoned' \in BOOLEAN
         /\ log' = log \/ log' = log \cup {[trace |-> t, records |-> records]}
<1> DEFINE chain == [trace |-> t, records |-> records]
<1>1. buffers' = [buffers EXCEPT ![t] = {}] /\ sealedTraces' \subseteq Traces
  BY DEF SealTrace, TypeOK
<1>2. log' = log \/ log' = log \cup {chain}
  BY DEF SealTrace
<1>3. logPoisoned' \in BOOLEAN
  BY Zenon DEF SealTrace, TypeOK
<1>4. log' \subseteq Chain /\ ChainsSealable'
  <2>1. chain \in Chain /\ chain.records = records
    BY DEF Chain
  <2> HIDE DEF chain
  <2>2. \A other \in log' : other \in log \/ other = chain
    BY <1>2
  <2>3. log' \subseteq Chain
    BY <2>1, <2>2 DEF TypeOK
  <2>4. ChainsSealable'
    BY <2>1, <2>2 DEF ChainsSealable
  <2>5. QED
    BY <2>3, <2>4
<1>5. CASE Quarantine(t, records, replayable)
  BY <1>1, <1>2, <1>3, <1>4, <1>5, QuarantineFacts
<1>6. CASE ~Quarantine(t, records, replayable)
  <2>1. /\ quarantined' = quarantined
        /\ faults' = faults \/ FaultHappens
        /\ wal' = [wal EXCEPT ![t] = <<>>] \/ wal' = [wal EXCEPT ![t] = replayable]
    BY <1>6 DEF SealTrace
  <2>2. wal' \in [Traces -> Seq(Record)] /\ WalHonest'
    BY <2>1, WalFacts
  <2>3. QED
    BY <1>1, <1>2, <1>3, <1>4, <2>1, <2>2, FaultTypes DEF TypeOK
<1>7. QED
  BY <1>5, <1>6

LEMMA DedupedFacts ==
  ASSUME NEW copies \in Seq(Record), \A i \in DOMAIN copies : copies[i].label = copies[i].made
  PROVE  /\ Deduped(copies) \in SUBSET Record
         /\ \A r \in Deduped(copies) : r.label = r.made
         /\ \A r1, r2 \in Deduped(copies) : r1.span = r2.span => r1 = r2
<1>1. \A i \in DOMAIN copies : copies[i] \in Record /\ i \in Nat
  OBVIOUS
<1>2. QED
  BY <1>1 DEF Deduped

(* What Start decides about a trace leaves only what may be sealed.        *)
LEMMA RestampedFacts ==
  ASSUME NEW records \in SUBSET Record, \A r \in records : r.label = r.made,
         \A r1, r2 \in records : r1.span = r2.span => r1 = r2,
         AllRestampable(records)
  PROVE  /\ Restamped(records) \in SUBSET Record
         /\ SealableAs(Restamped(records), Current)
         /\ \A r1, r2 \in Restamped(records) : r1.span = r2.span => r1 = r2
<1>1. Current \in SchemaVersion /\ Current \in RestampableToCurrent
  BY DEF Current, SchemaVersion, Implemented, RestampableToCurrent
<1>2. \A r \in records : r \in Record /\ r.made \in RestampableToCurrent
  BY DEF AllRestampable, Versions
<1>3. ASSUME NEW q \in Restamped(records)
      PROVE  \E r \in records : q = [span |-> r.span, made |-> r.made, label |-> Current]
  BY <1>2 DEF Restamped, Record
<1>4. Restamped(records) \in SUBSET Record
  BY <1>1, <1>2, <1>3 DEF Record
<1>5. SealableAs(Restamped(records), Current)
  BY <1>1, <1>2, <1>3 DEF SealableAs
<1>6. ASSUME NEW q1 \in Restamped(records), NEW q2 \in Restamped(records), q1.span = q2.span
      PROVE  q1 = q2
  <2>1. PICK r1 \in records : q1 = [span |-> r1.span, made |-> r1.made, label |-> Current]
    BY <1>3
  <2>2. PICK r2 \in records : q2 = [span |-> r2.span, made |-> r2.made, label |-> Current]
    BY <1>3
  <2>3. QED
    BY <1>6, <2>1, <2>2
<1>7. QED
  BY <1>4, <1>5, <1>6

LEMMA DecideInv == ASSUME Inv, NEW t \in Traces, DecideTrace(t) PROVE Inv'
<1> USE DEF Inv
<1> DEFINE records == Deduped(wal[t])
<1>1. /\ phase = "replaying" /\ phase' = "replaying" /\ t \in todo /\ todo' = todo \ {t}
      /\ UNCHANGED <<sealedTraces, logPoisoned, accepted, stops>>
      /\ t \notin startupSealed /\ t \notin sealAtOwnVersion
  BY DEF DecideTrace, DecidedOnce
<1>2. wal[t] \in Seq(Record) /\ \A i \in DOMAIN wal[t] : wal[t][i].label = wal[t][i].made
  BY DEF TypeOK, WalHonest
<1>3. /\ records \in SUBSET Record /\ \A r \in records : r.label = r.made
      /\ \A r1, r2 \in records : r1.span = r2.span => r1 = r2
  BY <1>2, DedupedFacts
<1> HIDE DEF records
<1>4. CASE RehydrateTrace(t, records)
  <2>1. /\ buffers' = [buffers EXCEPT ![t] = Restamped(records)]
        /\ UNCHANGED <<sealAtOwnVersion, startupSealed, disk, faults>>
        /\ AllRestampable(records)
    BY <1>4 DEF RehydrateTrace
  <2>2. /\ Restamped(records) \in SUBSET Record /\ SealableAs(Restamped(records), Current)
        /\ \A r1, r2 \in Restamped(records) : r1.span = r2.span => r1 = r2
    BY <1>3, <2>1, RestampedFacts
  <2>3. TypeOK'
    BY <1>1, <2>1, <2>2 DEF TypeOK, disk
  <2>4. WalHonest' /\ ChainsSealable'
    BY <2>1 DEF WalHonest, ChainsSealable, disk
  <2>5. BuffersSealable'
    BY <1>1, <2>1, <2>2 DEF BuffersSealable, TypeOK
  <2>6. DecidedOnce'
    BY <1>1, <2>1 DEF DecidedOnce, TypeOK
  <2>7. QED
    BY <2>3, <2>4, <2>5, <2>6
<1>5. CASE KeepOwnVersion(t, records)
  <2>1. /\ buffers' = [buffers EXCEPT ![t] = records]
        /\ sealAtOwnVersion' = sealAtOwnVersion \cup {t}
        /\ UNCHANGED <<startupSealed, disk, faults>>
    BY <1>5 DEF KeepOwnVersion
  <2>2. records # {} /\ \E v \in Implemented : SealableAs(records, v)
    BY <1>3, <1>5 DEF KeepOwnVersion, SealableAtOwnVersion, Versions, SealableAs
  <2>3. TypeOK'
    BY <1>1, <1>3, <2>1 DEF TypeOK, disk
  <2>4. WalHonest' /\ ChainsSealable'
    BY <2>1 DEF WalHonest, ChainsSealable, disk
  <2>5. BuffersSealable'
    BY <1>1, <2>1, <2>2 DEF BuffersSealable, TypeOK
  <2>6. DecidedOnce'
    BY <1>1, <2>1 DEF DecidedOnce, TypeOK
  <2>7. QED
    BY <2>3, <2>4, <2>5, <2>6
<1>6. CASE SetAside(t, records)
  <2>1. /\ startupSealed' = startupSealed \cup {t}
        /\ UNCHANGED <<buffers, sealAtOwnVersion, log>>
    BY <1>6 DEF SetAside
  <2>2. /\ quarantined' \subseteq Traces \X Record
        /\ wal' \in [Traces -> Seq(Record)] /\ WalHonest' /\ faults' \in 0 .. MaxFaults
    BY <1>2, <1>3, <1>6, QuarantineFacts DEF SetAside
  <2>3. TypeOK'
    BY <1>1, <2>1, <2>2 DEF TypeOK
  <2>4. ChainsSealable' /\ BuffersSealable' /\ DecidedOnce'
    BY <1>1, <2>1 DEF ChainsSealable, BuffersSealable, DecidedOnce
  <2>5. QED
    BY <2>2, <2>3, <2>4
<1>7. QED
  BY <1>4, <1>5, <1>6 DEF DecideTrace, records

LEMMA SealOwnInv ==
  ASSUME Inv, NEW t \in Traces, SealAtOwnVersion(t)
  PROVE  Inv' /\ t \notin startupSealed
         /\ (log' = log \/ log' = log \cup {[trace |-> t, records |-> buffers[t]]})
<1> USE DEF Inv
<1>1. /\ phase = "sealing" /\ phase' = phase /\ t \in sealAtOwnVersion
      /\ sealAtOwnVersion' = sealAtOwnVersion \ {t}
      /\ startupSealed' = startupSealed \cup {t}
      /\ SealTrace(t, buffers[t], wal[t])
      /\ UNCHANGED <<todo, accepted, stops>>
  BY DEF SealAtOwnVersion
<1>2. /\ buffers[t] \in SUBSET Record /\ buffers[t] # {} /\ wal[t] \in Seq(Record)
      /\ \A i \in DOMAIN wal[t] : wal[t][i].label = wal[t][i].made
      /\ \E v \in Implemented : SealableAs(buffers[t], v)
  BY <1>1 DEF TypeOK, WalHonest, BuffersSealable
<1>3. /\ quarantined' \subseteq Traces \X Record
      /\ wal' \in [Traces -> Seq(Record)] /\ WalHonest'
      /\ faults' \in 0 .. MaxFaults
      /\ log' \subseteq Chain /\ ChainsSealable'
      /\ buffers' = [buffers EXCEPT ![t] = {}]
      /\ sealedTraces' \subseteq Traces /\ logPoisoned' \in BOOLEAN
      /\ log' = log \/ log' = log \cup {[trace |-> t, records |-> buffers[t]]}
  BY <1>1, <1>2, SealFacts
<1>4. TypeOK'
  BY <1>1, <1>3 DEF TypeOK
<1>5. BuffersSealable'
  BY <1>1, <1>3 DEF BuffersSealable, TypeOK, SealableAs
<1>6. DecidedOnce' /\ t \notin startupSealed
  BY <1>1, <1>3 DEF DecidedOnce, TypeOK
<1>7. QED
  BY <1>3, <1>4, <1>5, <1>6

LEMMA DeliverInv ==
  ASSUME Inv, NEW t \in Traces, NEW s \in Spans, Deliver(t, s)
  PROVE  Inv' /\ t \notin startupSealed
         /\ \E records : log' = log \/ log' = log \cup {[trace |-> t, records |-> records]}
<1> USE DEF Inv
<1> DEFINE rec     == MadeBy(Current, s)
           records == {r \in buffers[t] : r.span # s} \cup {rec}
           copies  == Append(wal[t], rec)
<1>1. /\ phase = "up" /\ phase' = phase /\ t \notin startupSealed
      /\ accepted' = accepted \cup {<<t, s>>}
      /\ UNCHANGED <<todo, sealAtOwnVersion, startupSealed, stops>>
      /\ sealAtOwnVersion = {} /\ todo = {}
  BY DEF Deliver, Closed, BuffersSealable, DecidedOnce
<1>2. rec \in Record /\ rec.label = Current /\ rec.made = Current /\ rec.span = s /\ Current \in Implemented
  BY DEF MadeBy, Record, SchemaVersion, Implemented, Current
<1> HIDE DEF rec
<1>3. wal[t] \in Seq(Record) /\ \A i \in DOMAIN wal[t] : wal[t][i].label = wal[t][i].made
  BY DEF TypeOK, WalHonest
<1>4. copies \in Seq(Record) /\ \A i \in DOMAIN copies : copies[i].label = copies[i].made
  <2>1. copies \in Seq(Record)
    BY <1>2, <1>3
  <2>2. \A i \in DOMAIN copies : copies[i] = rec \/ (i \in DOMAIN wal[t] /\ copies[i] = wal[t][i])
    BY <1>3
  <2>3. QED
    BY <1>2, <1>3, <2>1, <2>2
<1>5. /\ records \in SUBSET Record /\ records # {}
      /\ SealableAs(records, Current)
      /\ \A r1, r2 \in records : r1.span = r2.span => r1 = r2
  <2>1. SealableAs(buffers[t], Current) /\ buffers[t] \in SUBSET Record
    BY <1>1 DEF BuffersSealable, TypeOK
  <2>2. \A r1, r2 \in buffers[t] : r1.span = r2.span => r1 = r2
    BY DEF TypeOK
  <2>3. QED
    BY <1>2, <2>1, <2>2 DEF SealableAs
<1> HIDE DEF records, copies
<1>6. CASE SealTrace(t, records, copies)
  <2>1. /\ quarantined' \subseteq Traces \X Record
        /\ wal' \in [Traces -> Seq(Record)] /\ WalHonest'
        /\ faults' \in 0 .. MaxFaults
        /\ log' \subseteq Chain /\ ChainsSealable'
        /\ buffers' = [buffers EXCEPT ![t] = {}]
        /\ sealedTraces' \subseteq Traces /\ logPoisoned' \in BOOLEAN
        /\ log' = log \/ log' = log \cup {[trace |-> t, records |-> records]}
    BY <1>2, <1>4, <1>5, <1>6, SealFacts
  <2>2. TypeOK'
    BY <1>1, <2>1 DEF TypeOK
  <2>3. BuffersSealable' /\ DecidedOnce'
    BY <1>1, <2>1 DEF BuffersSealable, DecidedOnce, TypeOK, SealableAs
  <2>4. QED
    BY <1>1, <2>1, <2>2, <2>3
<1>7. CASE /\ buffers' = [buffers EXCEPT ![t] = records]
           /\ wal' = [wal EXCEPT ![t] = copies]
           /\ UNCHANGED <<sealedTraces, logPoisoned, log, quarantined, faults>>
  <2>1. wal' \in [Traces -> Seq(Record)] /\ WalHonest'
    BY <1>4, <1>7, WalFacts
  <2>2. TypeOK'
    BY <1>1, <1>5, <1>7, <2>1 DEF TypeOK
  <2>3. BuffersSealable' /\ ChainsSealable'
    BY <1>1, <1>5, <1>7 DEF BuffersSealable, ChainsSealable, TypeOK
  <2>4. DecidedOnce'
    BY <1>1, <1>7 DEF DecidedOnce, TypeOK
  <2>5. QED
    BY <1>1, <1>7, <2>1, <2>2, <2>3, <2>4
<1>8. QED
  BY <1>6, <1>7 DEF Deliver, records, copies, rec

LEMMA SealOpenInv ==
  ASSUME Inv, NEW t \in Traces, SealOpenTrace(t)
  PROVE  Inv' /\ t \notin startupSealed
         /\ (log' = log \/ log' = log \cup {[trace |-> t, records |-> buffers[t]]})
<1> USE DEF Inv
<1>1. /\ phase = "up" /\ phase' = phase /\ buffers[t] # {}
      /\ SealTrace(t, buffers[t], wal[t])
      /\ UNCHANGED <<todo, sealAtOwnVersion, startupSealed, accepted, stops>>
      /\ sealAtOwnVersion = {} /\ t \notin startupSealed
  BY DEF SealOpenTrace, BuffersSealable, DecidedOnce
<1>2. /\ buffers[t] \in SUBSET Record /\ wal[t] \in Seq(Record)
      /\ \A i \in DOMAIN wal[t] : wal[t][i].label = wal[t][i].made
      /\ SealableAs(buffers[t], Current) /\ Current \in Implemented
  BY <1>1 DEF TypeOK, WalHonest, BuffersSealable, Current, Implemented
<1>3. /\ quarantined' \subseteq Traces \X Record
      /\ wal' \in [Traces -> Seq(Record)] /\ WalHonest'
      /\ faults' \in 0 .. MaxFaults
      /\ log' \subseteq Chain /\ ChainsSealable'
      /\ buffers' = [buffers EXCEPT ![t] = {}]
      /\ sealedTraces' \subseteq Traces /\ logPoisoned' \in BOOLEAN
      /\ log' = log \/ log' = log \cup {[trace |-> t, records |-> buffers[t]]}
  BY <1>1, <1>2, SealFacts
<1>4. TypeOK'
  BY <1>1, <1>3 DEF TypeOK
<1>5. BuffersSealable' /\ DecidedOnce'
  BY <1>1, <1>3 DEF BuffersSealable, DecidedOnce, TypeOK, SealableAs
<1>6. QED
  BY <1>1, <1>3, <1>4, <1>5

LEMMA OtherInv ==
  ASSUME Inv, Start \/ EndReplay \/ StartReturns \/ CompactDone \/ Crash \/ UNCHANGED vars
  PROVE  Inv' /\ log' = log
<1> USE DEF Inv
<1>1. /\ UNCHANGED <<disk, accepted, faults>> /\ stops' \in 0 .. MaxStops
      /\ \A set \in {todo', sealAtOwnVersion', startupSealed', sealedTraces'} : set \subseteq Traces
      /\ buffers' = buffers \/ buffers' = [t \in Traces |-> {}]
      /\ logPoisoned' \in BOOLEAN /\ phase' \in {"down", "replaying", "sealing", "up"}
  <2>1. CASE Start
    BY <2>1 DEF Start, TypeOK, disk
  <2>2. CASE EndReplay \/ StartReturns \/ UNCHANGED vars
    BY <2>2 DEF EndReplay, StartReturns, vars, memory, TypeOK
  <2>3. CASE CompactDone
    BY <2>3 DEF CompactDone, TypeOK
  <2>4. CASE Crash
    <3>1. stops' \in 0 .. MaxStops /\ UNCHANGED <<disk, accepted, faults>>
      BY <2>4, SchemaAssumption DEF Crash, TypeOK
    <3>2. /\ buffers' = [t \in Traces |-> {}] /\ logPoisoned' = FALSE /\ phase' = "down"
          /\ todo' = {} /\ sealAtOwnVersion' = {} /\ startupSealed' = {} /\ sealedTraces' = {}
      BY <2>4 DEF Crash
    <3>3. QED
      BY <3>1, <3>2
  <2>5. QED
    BY <2>1, <2>2, <2>3, <2>4
<1>2. TypeOK' /\ WalHonest' /\ ChainsSealable' /\ log' = log
  <2>1. TypeOK'
    BY <1>1 DEF TypeOK, disk
  <2>2. QED
    BY <1>1, <2>1 DEF WalHonest, ChainsSealable, disk
<1>3. BuffersSealable' /\ DecidedOnce'
  <2>1. CASE Start
    BY <2>1 DEF Start, BuffersSealable, DecidedOnce, TypeOK
  <2>2. CASE EndReplay \/ StartReturns \/ UNCHANGED vars
    BY <2>2 DEF EndReplay, StartReturns, vars, memory, BuffersSealable, DecidedOnce
  <2>3. CASE CompactDone
    BY <2>3 DEF CompactDone, BuffersSealable, DecidedOnce
  <2>4. CASE Crash
    BY <2>4 DEF Crash, BuffersSealable, DecidedOnce, SealableAs
  <2>5. QED
    BY <2>1, <2>2, <2>3, <2>4
<1>4. QED
  BY <1>2, <1>3

LEMMA NextInv == ASSUME Inv, [Next]_vars PROVE Inv'
<1>1. ASSUME NEW t \in Traces, DecideTrace(t) \/ SealAtOwnVersion(t) \/ SealOpenTrace(t)
      PROVE  Inv'
  BY <1>1, DecideInv, SealOwnInv, SealOpenInv
<1>2. ASSUME NEW t \in Traces, NEW s \in Spans, Deliver(t, s)
      PROVE  Inv'
  BY <1>2, DeliverInv
<1>3. QED
  BY <1>1, <1>2, OtherInv DEF Next

-----------------------------------------------------------------------------
(* Types, for any traces, spans and bounds; a buffer never holds two       *)
(* copies of a span.                                                       *)
THEOREM TypeCorrect == Spec => []TypeOK
<1>1. Inv => TypeOK
  BY DEF Inv
<1>2. QED
  BY <1>1, InitInv, NextInv, PTL DEF Spec

(* Start's promise, for any WAL: "a chain carries exactly one              *)
(* schema_version".                                                        *)
THEOREM OneVersionPerChain == Spec => []ChainsOneVersion
<1>1. Inv => ChainsOneVersion
  <2> SUFFICES ASSUME Inv, NEW chain \in log
               PROVE  Cardinality(Versions(chain.records)) = 1
    BY DEF ChainsOneVersion
  <2>1. PICK v \in Implemented : chain.records # {} /\ SealableAs(chain.records, v)
    BY DEF Inv, ChainsSealable
  <2>2. Versions(chain.records) = {v}
    BY <2>1 DEF Versions, SealableAs
  <2>3. QED
    BY <2>2, FS_Singleton
<1>2. QED
  BY <1>1, InitInv, NextInv, PTL DEF Spec

(* No record is ever sealed under a version that changes what it says or   *)
(* that this binary cannot write (record.go, restampableToCurrent).        *)
THEOREM VersionsHonest == Spec => []HonestVersions
<1>1. Inv => HonestVersions
  BY DEF Inv, ChainsSealable, SealableAs, HonestVersions
<1>2. QED
  BY <1>1, InitInv, NextInv, PTL DEF Spec

(* A trace sealed or set aside at startup gets no chain in that process,   *)
(* whatever compactions forget (bufferSpan, startupSealed).                *)
THEOREM StartupSealIsFinal == Spec => NoChainAfterStartupSeal
<1>1. ASSUME Inv, [Next]_vars, NEW t \in startupSealed
      PROVE  {chain \in log' : chain.trace = t} = {chain \in log : chain.trace = t}
  <2>1. ASSUME NEW u \in Traces, NEW records, u # t,
               log' = log \cup {[trace |-> u, records |-> records]}
        PROVE  {chain \in log' : chain.trace = t} = {chain \in log : chain.trace = t}
    BY <2>1
  <2>2. ASSUME NEW u \in Traces, SealAtOwnVersion(u) \/ SealOpenTrace(u)
        PROVE  {chain \in log' : chain.trace = t} = {chain \in log : chain.trace = t}
    BY <1>1, <2>1, <2>2, SealOwnInv, SealOpenInv
  <2>3. ASSUME NEW u \in Traces, NEW s \in Spans, Deliver(u, s)
        PROVE  {chain \in log' : chain.trace = t} = {chain \in log : chain.trace = t}
    BY <1>1, <2>1, <2>3, DeliverInv
  <2>4. ASSUME NEW u \in Traces, DecideTrace(u)
        PROVE  log' = log
    BY <2>4 DEF DecideTrace, RehydrateTrace, KeepOwnVersion, SetAside, disk
  <2>5. QED
    BY <1>1, <2>2, <2>3, <2>4, OtherInv DEF Next
<1>2. Inv /\ [Next]_vars =>
        [\A t \in startupSealed :
           {chain \in log' : chain.trace = t} = {chain \in log : chain.trace = t}]_vars
  BY <1>1
<1>3. QED
  BY <1>2, InitInv, NextInv, PTL DEF Spec, NoChainAfterStartupSeal

-----------------------------------------------------------------------------
(* No record is lost.                                                      *)

LEMMA Smallest ==
  ASSUME NEW T \in SUBSET Nat, T # {}
  PROVE  \E x \in T : \A y \in T : x <= y
<1>1. PICK x \in T : \A y \in T : ~(<<y, x>> \in OpToRel(<, Nat))
  BY NatLessThanWellFounded, WFMin
<1>2. \A y \in T : ~(y < x)
  BY <1>1 DEF OpToRel
<1>3. QED
  BY <1>2

LEMMA Largest ==
  ASSUME NEW n \in Nat, NEW T \in SUBSET (1 .. n), T # {}
  PROVE  \E x \in T : \A y \in T : y <= x
<1> DEFINE D == {n - x : x \in T}
<1>1. D \in SUBSET Nat /\ D # {}
  <2>1. PICK x \in T : TRUE
    OBVIOUS
  <2>2. \A y \in T : n - y \in Nat
    OBVIOUS
  <2>3. QED
    BY <2>1, <2>2
<1>2. PICK d \in D : \A e \in D : d <= e
  BY <1>1, Smallest
<1>3. PICK x \in T : d = n - x
  BY <1>2
<1>4. ASSUME NEW y \in T
      PROVE  y <= x
  <2>1. n - y \in D
    OBVIOUS
  <2>2. QED
    BY <1>2, <1>3, <2>1
<1>5. QED
  BY <1>4

CopySpans(copies) == {copies[i].span : i \in DOMAIN copies}

(* Every span has a last copy, so none is dropped with its older copies.   *)
LEMMA DedupedKeepsSpans ==
  ASSUME NEW copies \in Seq(Record)
  PROVE  CopySpans(copies) \subseteq SpansOf(Deduped(copies))
<1> SUFFICES ASSUME NEW i \in DOMAIN copies
             PROVE  \E r \in Deduped(copies) : r.span = copies[i].span
  BY DEF CopySpans, SpansOf
<1> DEFINE same == {j \in DOMAIN copies : copies[j].span = copies[i].span}
<1>1. Len(copies) \in Nat /\ same \in SUBSET (1 .. Len(copies)) /\ same # {}
  OBVIOUS
<1>2. PICK last \in same : \A j \in same : j <= last
  BY <1>1, Largest
<1>3. /\ last \in DOMAIN copies /\ copies[last].span = copies[i].span
      /\ \A k \in DOMAIN copies : copies[k].span = copies[last].span => k <= last
  BY <1>2
<1>4. copies[last] \in Deduped(copies)
  BY <1>3 DEF Deduped
<1>5. QED
  BY <1>3, <1>4

(* What is buffered for a trace has every span the WAL has for it, so the  *)
(* marker of a chain lets go of nothing the chain has not.                 *)
WalBuffered ==
  \A t \in Traces : buffers[t] # {} => CopySpans(wal[t]) \subseteq SpansOf(buffers[t])

Safe(t, s) ==
  \/ s \in CopySpans(wal[t])
  \/ \E chain \in log : chain.trace = t /\ s \in SpansOf(chain.records)
  \/ \E r \in Record : r.span = s /\ <<t, r>> \in quarantined

AllSafe == \A t \in Traces, s \in Spans : <<t, s>> \in accepted => Safe(t, s)

LEMMA SafeAgrees == AllSafe <=> NoRecordLost
<1>1. ASSUME NEW t \in Traces, NEW s \in Spans
      PROVE  s \in CopySpans(wal[t]) <=> \E i \in DOMAIN wal[t] : wal[t][i].span = s
  BY DEF CopySpans
<1>2. QED
  BY <1>1 DEF AllSafe, Safe, NoRecordLost

(* Whether the marker gets written or not, and fails or not, the records   *)
(* of a trace that is sealed or set aside stay safe, the span just         *)
(* delivered included.                                                     *)
LEMMA LetGo ==
  ASSUME TypeOK, AllSafe, NEW t \in Traces, NEW records \in SUBSET Record,
         NEW replayable \in Seq(Record),
         CopySpans(wal[t]) \subseteq CopySpans(replayable),
         CopySpans(replayable) \subseteq SpansOf(records),
         accepted' \subseteq accepted \cup {<<t, s>> : s \in CopySpans(replayable)},
         SealTrace(t, records, replayable) \/ (Quarantine(t, records, replayable) /\ log' = log)
  PROVE  /\ AllSafe'
         /\ \A u \in Traces : u # t => wal'[u] = wal[u]
<1>1. wal \in [Traces -> Seq(Record)]
  BY DEF TypeOK
<1>2. /\ log \subseteq log' /\ quarantined \subseteq quarantined'
      /\ wal' = [wal EXCEPT ![t] = <<>>] \/ wal' = [wal EXCEPT ![t] = replayable]
  BY DEF SealTrace, Quarantine
<1>3. wal'[t] = <<>> \/ wal'[t] = replayable
  BY <1>1, <1>2
<1>4. \A u \in Traces : u # t => wal'[u] = wal[u]
  BY <1>1, <1>2
<1>5. ASSUME NEW u \in Traces, NEW s \in Spans, u # t, Safe(u, s)
      PROVE  Safe(u, s)'
  BY <1>2, <1>4, <1>5 DEF Safe, CopySpans
<1>6. ASSUME NEW s \in Spans, s \in CopySpans(replayable)
      PROVE  Safe(t, s)'
  <2>1. PICK r \in records : r.span = s /\ r \in Record
    BY <1>6 DEF SpansOf
  <2>2. CASE wal'[t] = replayable
    BY <1>6, <2>2 DEF Safe, CopySpans
  <2>3. CASE wal'[t] # replayable
    <3>1. wal' # [wal EXCEPT ![t] = replayable]
      BY <1>1, <2>3
    <3>2. CASE [trace |-> t, records |-> records] \in log'
      BY <2>1, <3>2 DEF Safe, SpansOf
    <3>3. CASE {t} \X records \subseteq quarantined'
      BY <2>1, <3>3 DEF Safe
    <3>4. QED
      BY <3>1, <3>2, <3>3 DEF SealTrace, Quarantine, AllKept
  <2>4. QED
    BY <2>2, <2>3
<1>7. ASSUME NEW s \in Spans, Safe(t, s)
      PROVE  Safe(t, s)'
  <2>1. CASE s \in CopySpans(wal[t])
    BY <1>6, <2>1
  <2>2. CASE s \notin CopySpans(wal[t])
    BY <1>2, <1>7, <2>2 DEF Safe
  <2>3. QED
    BY <2>1, <2>2
<1>8. AllSafe'
  BY <1>5, <1>6, <1>7 DEF AllSafe
<1>9. QED
  BY <1>4, <1>8

Lossless == WalBuffered /\ AllSafe

LEMMA LosslessSeal ==
  ASSUME TypeOK, Lossless, NEW t \in Traces, NEW records \in SUBSET Record,
         NEW replayable \in Seq(Record),
         CopySpans(wal[t]) \subseteq CopySpans(replayable),
         CopySpans(replayable) \subseteq SpansOf(records),
         accepted' \subseteq accepted \cup {<<t, s>> : s \in CopySpans(replayable)},
         SealTrace(t, records, replayable)
  PROVE  Lossless'
<1>1. AllSafe' /\ \A u \in Traces : u # t => wal'[u] = wal[u]
  BY LetGo DEF Lossless
<1>2. \A u \in Traces : buffers'[u] = IF u = t THEN {} ELSE buffers[u]
  BY DEF SealTrace, TypeOK
<1>3. WalBuffered'
  BY <1>1, <1>2 DEF WalBuffered, Lossless, CopySpans
<1>4. QED
  BY <1>1, <1>3 DEF Lossless

LEMMA DecideLossless ==
  ASSUME Inv, Lossless, NEW t \in Traces, DecideTrace(t)
  PROVE  Lossless'
<1> DEFINE records == Deduped(wal[t])
<1>1. /\ wal[t] \in Seq(Record) /\ \A i \in DOMAIN wal[t] : wal[t][i].label = wal[t][i].made
      /\ accepted' = accepted /\ t \in todo
  BY DEF Inv, TypeOK, WalHonest, DecideTrace
<1>2. records \in SUBSET Record /\ CopySpans(wal[t]) \subseteq SpansOf(records)
  BY <1>1, DedupedFacts, DedupedKeepsSpans
<1> HIDE DEF records
<1>3. CASE RehydrateTrace(t, records) \/ KeepOwnVersion(t, records)
  <2>1. UNCHANGED disk /\ \E r \in {records, Restamped(records)} : buffers' = [buffers EXCEPT ![t] = r]
    BY <1>3 DEF RehydrateTrace, KeepOwnVersion
  <2>2. SpansOf(records) \subseteq SpansOf(Restamped(records))
    <3>1. ASSUME NEW r \in records
          PROVE  \E q \in Restamped(records) : q.span = r.span
      <4>1. [r EXCEPT !.label = Current] \in Restamped(records) /\ r \in Record
        BY <1>2 DEF Restamped
      <4>2. [r EXCEPT !.label = Current].span = r.span
        BY <4>1 DEF Record
      <4>3. QED
        BY <4>1, <4>2
    <3>2. QED
      BY <3>1 DEF SpansOf
  <2>3. WalBuffered'
    BY <1>2, <2>1, <2>2 DEF WalBuffered, Lossless, Inv, TypeOK, disk
  <2>4. AllSafe'
    BY <1>1, <2>1 DEF AllSafe, Safe, Lossless, disk
  <2>5. QED
    BY <2>3, <2>4 DEF Lossless
<1>4. CASE SetAside(t, records)
  <2>1. AllSafe' /\ \A u \in Traces : u # t => wal'[u] = wal[u]
    BY <1>1, <1>2, <1>4, LetGo DEF SetAside, Lossless, Inv
  <2>2. buffers' = buffers /\ buffers[t] = {}
    BY <1>1, <1>4 DEF SetAside, Inv, DecidedOnce
  <2>3. WalBuffered'
    BY <2>1, <2>2 DEF WalBuffered, Lossless, CopySpans
  <2>4. QED
    BY <2>1, <2>3 DEF Lossless
<1>5. QED
  BY <1>3, <1>4 DEF DecideTrace, records

LEMMA DeliverLossless ==
  ASSUME Inv, Lossless, NEW t \in Traces, NEW s \in Spans, Deliver(t, s)
  PROVE  Lossless'
<1> DEFINE rec     == MadeBy(Current, s)
           records == {r \in buffers[t] : r.span # s} \cup {rec}
           copies  == Append(wal[t], rec)
<1>1. /\ accepted' = accepted \cup {<<t, s>>}
      /\ wal[t] # <<>> => buffers[t] # {}
      /\ wal[t] \in Seq(Record) /\ buffers[t] \in SUBSET Record
  BY DEF Deliver, Inv, TypeOK
<1>2. rec \in Record /\ rec.span = s
  BY DEF MadeBy, Record, SchemaVersion, Implemented, Current
<1> HIDE DEF rec
<1>3. copies \in Seq(Record) /\ CopySpans(copies) = CopySpans(wal[t]) \cup {s}
  <2>1. /\ DOMAIN copies = DOMAIN wal[t] \cup {Len(wal[t]) + 1} /\ copies \in Seq(Record)
        /\ \A i \in DOMAIN wal[t] : copies[i] = wal[t][i]
        /\ copies[Len(wal[t]) + 1] = rec
    BY <1>1, <1>2
  <2>2. QED
    BY <1>2, <2>1 DEF CopySpans
<1>4. records \in SUBSET Record /\ CopySpans(copies) \subseteq SpansOf(records)
  <2>1. CopySpans(wal[t]) \subseteq SpansOf(buffers[t])
    <3>1. CASE buffers[t] # {}
      BY <3>1 DEF Lossless, WalBuffered
    <3>2. CASE wal[t] = <<>>
      BY <3>2 DEF CopySpans
    <3>3. QED
      BY <1>1, <3>1, <3>2
  <2>2. SpansOf(buffers[t]) \cup {s} \subseteq SpansOf(records)
    BY <1>1, <1>2 DEF SpansOf
  <2>3. QED
    BY <1>1, <1>2, <1>3, <2>1, <2>2
<1> HIDE DEF records, copies
<1>5. CASE SealTrace(t, records, copies)
  BY <1>1, <1>3, <1>4, <1>5, LosslessSeal DEF Inv
<1>6. CASE /\ buffers' = [buffers EXCEPT ![t] = records]
           /\ wal' = [wal EXCEPT ![t] = copies]
           /\ UNCHANGED <<sealedTraces, logPoisoned, log, quarantined, faults>>
  <2>1. /\ wal'[t] = copies /\ buffers'[t] = records
        /\ \A u \in Traces : u # t => wal'[u] = wal[u] /\ buffers'[u] = buffers[u]
    BY <1>6 DEF Inv, TypeOK
  <2>2. WalBuffered'
    BY <1>4, <2>1 DEF WalBuffered, Lossless, CopySpans
  <2>3. \A u \in Traces : CopySpans(wal[u]) \subseteq CopySpans(wal'[u])
    BY <1>3, <2>1
  <2>4. AllSafe'
    <3> SUFFICES ASSUME NEW u \in Traces, NEW x \in Spans, <<u, x>> \in accepted'
                 PROVE  Safe(u, x)'
      BY DEF AllSafe
    <3>1. CASE <<u, x>> \in accepted
      BY <1>6, <2>3, <3>1 DEF AllSafe, Safe, Lossless, CopySpans
    <3>2. CASE u = t /\ x = s
      <4>1. x \in CopySpans(wal'[u])
        BY <1>3, <2>1, <3>2
      <4>2. QED
        BY <4>1 DEF Safe, CopySpans
    <3>3. QED
      BY <1>1, <3>1, <3>2
  <2>5. QED
    BY <2>2, <2>4 DEF Lossless
<1>7. QED
  BY <1>5, <1>6 DEF Deliver, records, copies, rec

LEMMA SealsLossless ==
  ASSUME Inv, Lossless, NEW t \in Traces, SealAtOwnVersion(t) \/ SealOpenTrace(t)
  PROVE  Lossless'
<1>1. SealTrace(t, buffers[t], wal[t]) /\ accepted' = accepted /\ buffers[t] # {}
  BY DEF SealAtOwnVersion, SealOpenTrace, Inv, BuffersSealable
<1>2. buffers[t] \in SUBSET Record /\ wal[t] \in Seq(Record)
  BY DEF Inv, TypeOK
<1>3. CopySpans(wal[t]) \subseteq SpansOf(buffers[t])
  BY <1>1 DEF Lossless, WalBuffered
<1>4. QED
  BY <1>1, <1>2, <1>3, LosslessSeal DEF Inv

LEMMA LosslessStep ==
  ASSUME Inv, Lossless, [Next]_vars
  PROVE  Lossless'
<1>1. CASE Start \/ EndReplay \/ StartReturns \/ CompactDone \/ Crash \/ UNCHANGED vars
  <2>1. UNCHANGED disk /\ accepted' = accepted
    BY <1>1 DEF Start, EndReplay, StartReturns, CompactDone, Crash, vars
  <2>2. AllSafe'
    BY <2>1 DEF AllSafe, Safe, Lossless, disk
  <2>3. buffers' = buffers \/ \A t \in Traces : buffers'[t] = {}
    BY <1>1 DEF Start, EndReplay, StartReturns, CompactDone, Crash, vars, memory
  <2>4. WalBuffered'
    BY <2>1, <2>3 DEF WalBuffered, Lossless, disk
  <2>5. QED
    BY <2>2, <2>4 DEF Lossless
<1>2. QED
  BY <1>1, DecideLossless, DeliverLossless, SealsLossless DEF Next

LEMMA LosslessInit == Init => Lossless
BY DEF Init, Lossless, WalBuffered, AllSafe, Safe, CopySpans

(* No record that was in the WAL is lost by what Start decides about it, by*)
(* a seal whose log, quarantine or marker write fails, or by a crash.      *)
THEOREM RecordsSafe == Spec => []NoRecordLost
<1>1. Init => Inv /\ Lossless
  BY InitInv, LosslessInit
<1>2. Inv /\ Lossless /\ [Next]_vars => (Inv /\ Lossless)'
  BY NextInv, LosslessStep
<1>3. Lossless => NoRecordLost
  BY SafeAgrees DEF Lossless
<1>4. QED
  BY <1>1, <1>2, <1>3, PTL DEF Spec

(* What cannot be sealed under the current version or its own.             *)
LEMMA NeitherWay ==
  ASSUME NEW t \in Traces, Deduped(wal[t]) \in SUBSET Record,
         ~AllRestampable(Deduped(wal[t])), ~SealableAtOwnVersion(Deduped(wal[t]))
  PROVE  Irreconcilable(t)
<1> DEFINE versions == Versions(Deduped(wal[t]))
<1>1. /\ ~(versions \subseteq RestampableToCurrent)
      /\ \A v \in Implemented : versions # {v}
  BY DEF AllRestampable, SealableAtOwnVersion
<1>2. ASSUME versions \subseteq Implemented
      PROVE  Cardinality(versions) > 1
  <2>1. IsFiniteSet(versions)
    <3>1. IsFiniteSet(Implemented)
      <4>1. Implemented = (({} \cup {"v1"}) \cup {"v2"}) \cup {"v3"}
        BY DEF Implemented
      <4>2. QED
        BY <4>1, FS_EmptySet, FS_AddElement
    <3>2. QED
      BY <1>2, <3>1, FS_Subset
  <2>2. Cardinality(versions) \in Nat /\ Cardinality(versions) # 0
    BY <1>1, <2>1, FS_CardinalityType, FS_EmptySet
  <2>3. Cardinality(versions) # 1
    BY <1>1, <1>2, <2>1, FS_Singleton
  <2>4. QED
    BY <2>2, <2>3
<1>3. QED
  BY <1>1, <1>2 DEF Irreconcilable

(* An upgrade loses nothing to the quarantine file: a record gets there    *)
(* only if the log is poisoned or its trace really cannot be one chain     *)
(* (Start: "an ordinary upgrade path ... must not lose data").             *)
THEOREM QuarantineForced == Spec => QuarantineOnlyWhenForced
<1>1. ASSUME Inv, [Next]_vars, NEW t \in Traces, NEW r \in Record,
             <<t, r>> \in quarantined' \ quarantined
      PROVE  logPoisoned \/ Irreconcilable(t)
  <2>1. ASSUME NEW u \in Traces, NEW records, NEW replayable, SealTrace(u, records, replayable)
        PROVE  logPoisoned
    BY <1>1, <2>1 DEF SealTrace
  <2>2. ASSUME NEW u \in Traces, DecideTrace(u)
        PROVE  Irreconcilable(t)
    <3>1. SetAside(u, Deduped(wal[u]))
      BY <1>1, <2>2 DEF DecideTrace, RehydrateTrace, KeepOwnVersion, disk
    <3>2. t = u
      BY <1>1, <3>1 DEF SetAside, Quarantine
    <3>3. Deduped(wal[u]) \in SUBSET Record
      <4>1. wal[u] \in Seq(Record) /\ \A i \in DOMAIN wal[u] : wal[u][i].label = wal[u][i].made
        BY <1>1 DEF Inv, TypeOK, WalHonest
      <4>2. QED
        BY <4>1, DedupedFacts
    <3>4. QED
      BY <3>1, <3>2, <3>3, NeitherWay DEF SetAside
  <2>3. ASSUME NEW u \in Traces, SealAtOwnVersion(u) \/ SealOpenTrace(u)
        PROVE  logPoisoned
    BY <2>1, <2>3 DEF SealAtOwnVersion, SealOpenTrace
  <2>4. ASSUME NEW u \in Traces, NEW s \in Spans, Deliver(u, s)
        PROVE  logPoisoned
    BY <1>1, <2>1, <2>4 DEF Deliver
  <2>5. QED
    BY <1>1, <2>2, <2>3, <2>4 DEF Next, Start, EndReplay, StartReturns, CompactDone, Crash, vars, disk
<1>2. Inv /\ [Next]_vars =>
        [\A t \in Traces, r \in Record :
           <<t, r>> \in quarantined' \ quarantined => logPoisoned \/ Irreconcilable(t)]_vars
  BY <1>1
<1>3. QED
  BY <1>2, InitInv, NextInv, PTL DEF Spec, QuarantineOnlyWhenForced
=============================================================================
