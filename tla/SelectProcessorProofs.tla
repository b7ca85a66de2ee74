----------------------- MODULE SelectProcessorProofs ------------------------
(***************************************************************************)
(* For any traces, spans, calls and stalls: types, that a trace marked     *)
(* emitted has no buffer, and from it that two units of one trace are      *)
(* taken at least 2*trace_timeout less the stall apart; and that every     *)
(* span the processor took is in exactly one place.                        *)
(***************************************************************************)
EXTENDS SelectProcessor, FiniteSetTheorems, TLAPS

(* A call that waits for the lock has taken nothing yet.                   *)
NothingTakenYet == \A c \in Calls : calls[c].at # "forwarding" => calls[c].whole = {}

(* Shutdown began with no call under way, and flushed every buffer.        *)
Drained ==
  /\ phase # "running" => \A c \in Calls : calls[c].at = "none"
  /\ phase \in {"flushing", "stopped"} => \A t \in Traces : buffers[t] = {}

(* An emitted mark is at most a stall older than the taking it records;    *)
(* a trace without one was taken long ago, or Shutdown has flushed.        *)
Window ==
  /\ \A t \in emitted : emittedAge[t] <= sinceTaken[t] + MaxStall
  /\ phase \in {"running", "stopping"} =>
       \A t \in Traces \ emitted : sinceTaken[t] + MaxStall >= EmittedTtl

Inv == TypeOK /\ BufferedNotEmitted /\ NothingTakenYet /\ Drained /\ Window

-----------------------------------------------------------------------------
LEMMA Constants ==
  /\ MaxStall \in Nat /\ Oldest \in Nat /\ MaxErrors \in Nat
  /\ NoTick \in Nat /\ NoTick <= Oldest /\ Root \in Spans
BY SelectAssumption DEF Oldest, NoTick, EmittedTtl

LEMMA OlderFacts ==
  ASSUME NEW a \in Age
  PROVE  Older(a) \in Age /\ Older(a) >= a /\ Older(a) <= a + 1 /\ (Older(a) = a + 1 \/ a = Oldest)
BY Constants DEF Older, Age

LEMMA InitInv == Init => Inv
<1> SUFFICES ASSUME Init PROVE Inv
  OBVIOUS
<1>1. TypeOK
  <2>1. NoCall \in Call
    BY Constants DEF NoCall, Call
  <2>2. QED
    BY <2>1, Constants DEF Init, TypeOK, Age
<1>2. BufferedNotEmitted /\ NothingTakenYet /\ Drained
  BY DEF Init, BufferedNotEmitted, NothingTakenYet, Drained, NoCall
<1>3. Window
  BY Constants DEF Init, Window, Oldest, EmittedTtl
<1>4. QED
  BY <1>1, <1>2, <1>3 DEF Inv

LEMMA ElapseInv == ASSUME Inv, Elapse PROVE Inv'
<1> USE Constants DEF Inv
<1>1. /\ \A t \in Traces : seenAge'[t] \in Age /\ emittedAge'[t] \in Age /\ sinceTaken'[t] \in Age
      /\ \A t \in Traces : sinceTaken'[t] = Older(sinceTaken[t])
      /\ \A t \in emitted : emittedAge'[t] = Older(emittedAge[t])
  BY OlderFacts DEF Elapse, TypeOK, Age
<1>2. calls' \in [Calls -> Call]
  BY DEF Elapse, TypeOK, Call
<1>3. TypeOK'
  <2>1. tick' \in 0 .. NoTick
    BY DEF Elapse, TypeOK, NoTick
  <2>2. \A f \in {seenAge', emittedAge', sinceTaken'} : f \in [Traces -> Age]
    BY <1>1 DEF Elapse
  <2>3. QED
    BY <1>2, <2>1, <2>2 DEF Elapse, TypeOK, shutdownVars, spanVars
<1>4. \A c \in Calls : calls'[c].at = calls[c].at /\ calls'[c].whole = calls[c].whole
  BY DEF Elapse, TypeOK, Call
<1>5. BufferedNotEmitted' /\ NothingTakenYet' /\ Drained'
  BY <1>4 DEF Elapse, BufferedNotEmitted, NothingTakenYet, Drained, shutdownVars
<1>6. Window'
  <2>1. ASSUME NEW t \in emitted
        PROVE  emittedAge'[t] <= sinceTaken'[t] + MaxStall
    <3>1. t \in Traces /\ emittedAge[t] \in Age /\ sinceTaken[t] \in Age
      BY DEF TypeOK
    <3>2. emittedAge[t] <= sinceTaken[t] + MaxStall
      BY DEF Window
    <3>3. QED
      BY <1>1, <3>1, <3>2, OlderFacts DEF Age
  <2>2. ASSUME NEW t \in Traces
        PROVE  sinceTaken'[t] >= sinceTaken[t] /\ sinceTaken[t] \in Nat /\ sinceTaken'[t] \in Nat
    BY <1>1, OlderFacts DEF TypeOK, Age
  <2>3. QED
    BY <2>1, <2>2 DEF Window, Elapse, shutdownVars, EmittedTtl
<1>7. QED
  BY <1>3, <1>5, <1>6

LEMMA CallRecord ==
  ASSUME NEW at \in {"none", "locking", "forwarding"}, NEW batch \in SUBSET Span,
         NEW late \in SUBSET Span, NEW whole \in SUBSET Unit
  PROVE  [at |-> at, age |-> 0, batch |-> batch, late |-> late, whole |-> whole] \in Call
BY Constants DEF Call

LEMMA ArriveInv ==
  ASSUME Inv, NEW c \in Calls, NEW batch \in SUBSET (Incoming \ accepted), Arrive(c, batch)
  PROVE  Inv'
<1> USE Constants DEF Inv
<1>1. batch \subseteq Span
  BY SelectAssumption DEF Span
<1>2. [at |-> "locking", age |-> 0, batch |-> batch, late |-> {}, whole |-> {}] \in Call
  BY <1>1, CallRecord
<1>3. TypeOK'
  BY <1>1, <1>2 DEF Arrive, TypeOK, bufferVars, workerVars, shutdownVars
<1>4. NothingTakenYet'
  BY DEF Arrive, NothingTakenYet, NoCall, TypeOK
<1>5. phase' = phase /\ phase = "running" /\ UNCHANGED bufferVars
  BY DEF Arrive, shutdownVars
<1>7. BufferedNotEmitted' /\ Drained'
  BY <1>5 DEF BufferedNotEmitted, Drained, bufferVars
<1>8. Window'
  BY <1>5 DEF Window, bufferVars
<1>6. QED
  BY <1>3, <1>4, <1>7, <1>8

(* The calls' part, which no step touches that leaves calls alone.         *)
LEMMA WindowUnchanged ==
  ASSUME Inv, UNCHANGED <<emitted, emittedAge, sinceTaken>>,
         phase' \in {"running", "stopping"} => phase \in {"running", "stopping"}
  PROVE  Window'
BY DEF Inv, Window

LEMMA BufferInv ==
  ASSUME Inv, NEW c \in Calls, Buffer(c)
  PROVE  Inv' /\ \A t \in Traces : Taking(t) => t \notin emitted /\ phase = "running"
<1> USE Constants DEF Inv
<1> DEFINE call   == calls[c]
           late   == Late(call.batch)
           new(t) == {s \in Spans : <<t, s>> \in call.batch \ late}
           all(t) == buffers[t] \cup new(t)
           rooted == {t \in Traces : Root \in new(t)}
<1>1. /\ call \in Call /\ call.at = "locking"
      /\ \A t \in Traces : new(t) \subseteq Spans /\ all(t) \subseteq Spans
      /\ phase = "running" /\ phase' = phase
  BY DEF Buffer, TypeOK, Drained, shutdownVars
<1>2. \A t \in emitted : t \in Traces /\ new(t) = {} /\ buffers[t] = {} /\ t \notin rooted
  BY <1>1 DEF Late, TypeOK, Call, Span, BufferedNotEmitted
<1>3. /\ buffers' = [t \in Traces |-> IF t \in rooted THEN {} ELSE all(t)]
      /\ emitted' = emitted \cup rooted
      /\ emittedAge' = [t \in Traces |-> IF t \in rooted THEN call.age ELSE emittedAge[t]]
      /\ sinceTaken' = [t \in Traces |-> IF t \in rooted THEN 0 ELSE sinceTaken[t]]
      /\ seenAge' = [t \in Traces |-> IF t \in rooted THEN 0
                                      ELSE IF new(t) # {} THEN call.age ELSE seenAge[t]]
      /\ calls' = [calls EXCEPT ![c] =
                      [NoCall EXCEPT !.at = "forwarding", !.late = late,
                         !.whole = {[trace |-> t, spans |-> all(t)] : t \in rooted}]]
      /\ UNCHANGED <<workerVars, shutdownVars, spanVars>>
  BY DEF Buffer
<1>4. call.age \in Age /\ call.age <= MaxStall
  BY <1>1 DEF Call, Age, Oldest, EmittedTtl
<1>5. {[trace |-> t, spans |-> all(t)] : t \in rooted} \subseteq Unit
  <2>1. ASSUME NEW t \in rooted
        PROVE  t \in Traces /\ all(t) \in (SUBSET Spans) \ {{}}
    BY <1>1
  <2> HIDE DEF all, rooted
  <2>2. QED
    BY <2>1 DEF Unit
<1>6. late \subseteq Span
  BY <1>1 DEF Call, Late
<1>7. calls'[c] \in Call
  <2> DEFINE whole == {[trace |-> t, spans |-> all(t)] : t \in rooted}
  <2>1. calls'[c] = [at |-> "forwarding", age |-> 0, batch |-> {}, late |-> late, whole |-> whole]
    BY <1>3 DEF NoCall, TypeOK
  <2> HIDE DEF rooted, all, late, whole
  <2>2. QED
    BY <1>5, <1>6, <2>1, CallRecord DEF whole
<1>8. TypeOK'
  <2> HIDE DEF rooted, all, late, new, call
  <2>1. calls' \in [Calls -> Call]
    BY <1>3, <1>7 DEF TypeOK
  <2>2. \A f \in {seenAge', emittedAge', sinceTaken'} : f \in [Traces -> Age]
    BY <1>3, <1>4 DEF TypeOK, Age
  <2>3. buffers' \in [Traces -> SUBSET Spans] /\ emitted' \subseteq Traces
    BY <1>1, <1>3 DEF TypeOK, rooted
  <2>4. QED
    BY <1>3, <2>1, <2>2, <2>3 DEF TypeOK, workerVars, shutdownVars, spanVars
<1>9. BufferedNotEmitted'
  BY <1>2, <1>3 DEF BufferedNotEmitted, TypeOK
<1>10. NothingTakenYet'
  <2> HIDE DEF rooted, all, late
  <2>1. QED
    BY <1>3 DEF NothingTakenYet, NoCall, TypeOK
<1>11. Drained'
  BY <1>1 DEF Drained
<1>12. Window'
  <2> HIDE DEF rooted, all, late, call
  <2>1. ASSUME NEW t \in emitted' PROVE emittedAge'[t] <= sinceTaken'[t] + MaxStall
    BY <1>2, <1>3, <1>4 DEF Window, rooted
  <2>2. ASSUME NEW t \in Traces \ emitted' PROVE sinceTaken'[t] + MaxStall >= EmittedTtl
    BY <1>1, <1>3 DEF Window
  <2>3. QED
    BY <2>1, <2>2 DEF Window
<1>13. ASSUME NEW t \in Traces, Taking(t)
       PROVE  t \notin emitted
  <2> HIDE DEF rooted, all, late, call
  <2>1. t \in rooted
    <3>1. CASE buffers[t] # {} /\ buffers'[t] = {}
      BY <1>3, <3>1 DEF all
    <3>2. ASSUME NEW d \in Calls, calls[d].at = "locking", NEW u \in calls'[d].whole, u.trace = t
          PROVE  t \in rooted
      <4>1. d = c
        BY <3>2, <1>3 DEF NothingTakenYet, TypeOK
      <4>2. calls'[c].whole = {[trace |-> v, spans |-> all(v)] : v \in rooted}
        BY <1>3 DEF TypeOK, NoCall
      <4>3. QED
        BY <3>2, <4>1, <4>2
    <3>3. QED
      BY <1>13, <3>1, <3>2 DEF Taking
  <2>2. QED
    BY <1>2, <2>1
<1>14. QED
  BY <1>1, <1>8, <1>9, <1>10, <1>11, <1>12, <1>13

(* The steps that forward: they only move spans on.                        *)
LEMMA NextTypes ==
  ASSUME TypeOK, NEW spans \in SUBSET Span, NextTakes(spans) \/ NextErrs(spans)
  PROVE  delivered' \subseteq Span /\ dropped' \subseteq Span /\ errors' \in 0 .. MaxErrors
BY Constants DEF NextTakes, NextErrs, TypeOK

LEMMA UnitsInSpan ==
  ASSUME NEW units \in SUBSET Unit
  PROVE  SpansIn(units) \in SUBSET Span
BY DEF SpansIn, Unit, Span

LEMMA ForwardInv ==
  ASSUME Inv, NEW c \in Calls, Forward(c) \/ Return(c)
  PROVE  Inv' /\ \A t \in Traces : ~Taking(t)
<1> USE DEF Inv
<1>1. /\ calls[c] \in Call /\ calls[c].at = "forwarding"
      /\ phase' = phase /\ UNCHANGED <<bufferVars, workerVars, shutdownVars, accepted>>
  BY DEF Forward, Return, TypeOK, shutdownVars, spanVars
<1> DEFINE Settled == \E k \in Call : /\ calls' = [calls EXCEPT ![c] = k]
                                      /\ k.at # "locking"
                                      /\ k.at # "forwarding" => k.whole = {}
           Moved == delivered' \subseteq Span /\ dropped' \subseteq Span /\ errors' \in 0 .. MaxErrors
<1>2. Settled
  <2>1. NoCall \in Call /\ NoCall.at = "none" /\ NoCall.whole = {}
    BY CallRecord DEF NoCall
  <2>2. ASSUME NEW x \in calls[c].late, calls' = [calls EXCEPT ![c].late = @ \ {x}]
        PROVE  Settled
    <3> DEFINE k == [calls[c] EXCEPT !.late = @ \ {x}]
    <3>1. calls' = [calls EXCEPT ![c] = k] /\ k \in Call /\ k.at = "forwarding"
      BY <1>1, <2>2 DEF Call, TypeOK
    <3>2. QED
      BY <3>1
  <2>3. ASSUME NEW u \in calls[c].whole, calls' = [calls EXCEPT ![c].whole = @ \ {u}]
        PROVE  Settled
    <3> DEFINE k == [calls[c] EXCEPT !.whole = @ \ {u}]
    <3>1. calls' = [calls EXCEPT ![c] = k] /\ k \in Call /\ k.at = "forwarding"
      BY <1>1, <2>3 DEF Call, TypeOK
    <3>2. QED
      BY <3>1
  <2>4. CASE calls' = [calls EXCEPT ![c] = NoCall]
    BY <2>1, <2>4
  <2>5. QED
    BY <2>2, <2>3, <2>4 DEF Forward, Return
<1>3. calls' \in [Calls -> Call]
  BY <1>2 DEF TypeOK
<1>4. Moved
  <2>1. calls[c].late \in SUBSET Span /\ calls[c].whole \in SUBSET Unit
    BY <1>1 DEF Call
  <2>2. \A units \in SUBSET calls[c].whole : SpansIn(units) \in SUBSET Span
    BY <2>1, UnitsInSpan
  <2>3. CASE Return(c)
    BY <2>3 DEF Return, spanVars, TypeOK
  <2>4. ASSUME NEW x \in calls[c].late, NextTakes({x}) PROVE Moved
    BY <2>1, <2>4, NextTypes
  <2>5. ASSUME NEW u \in calls[c].whole, NextTakes(SpansIn({u})) PROVE Moved
    BY <2>2, <2>5, NextTypes
  <2>6. CASE NextErrs(calls[c].late \cup SpansIn(calls[c].whole))
    BY <2>1, <2>2, <2>6, NextTypes
  <2>7. QED
    BY <2>3, <2>4, <2>5, <2>6 DEF Forward
<1>5. TypeOK'
  BY <1>1, <1>3, <1>4 DEF TypeOK, bufferVars, workerVars, shutdownVars
<1>6. BufferedNotEmitted' /\ Window'
  BY <1>1, WindowUnchanged DEF BufferedNotEmitted, bufferVars
<1>7. NothingTakenYet' /\ Drained'
  <2>1. phase = "running"
    BY <1>1 DEF Drained
  <2>2. QED
    BY <1>1, <1>2, <2>1 DEF NothingTakenYet, Drained, TypeOK
<1>8. ASSUME NEW t \in Traces, Taking(t) PROVE FALSE
  <2>1. \A d \in Calls : d # c => calls'[d] = calls[d]
    BY <1>2 DEF TypeOK
  <2>2. QED
    BY <1>1, <1>8, <2>1 DEF Taking, bufferVars, NothingTakenYet
<1>9. QED
  BY <1>5, <1>6, <1>7, <1>8

(* The worker's sweep is the only step that forgets emitted traces.        *)
LEMMA SweepInv ==
  ASSUME Inv, SweepTimedOut
  PROVE  Inv'
<1> USE Constants DEF Inv
<1>1. /\ tick \in 0 .. MaxStall /\ UNCHANGED <<calls, shutdownVars, spanVars>>
      /\ phase' = phase /\ TimedOut \subseteq Traces
  BY DEF SweepTimedOut, TypeOK, NoTick, TimedOut, shutdownVars
<1>2. \A t \in TimedOut : buffers[t] # {} /\ t \notin emitted
  BY DEF TimedOut, BufferedNotEmitted
<1>3. TypeOK'
  <2>1. {UnitOf(t) : t \in TimedOut} \subseteq Unit
    BY <1>1, <1>2 DEF UnitOf, Unit, TypeOK
  <2>2. tick \in Age /\ 0 \in Age
    BY <1>1 DEF Age, Oldest, EmittedTtl
  <2>3. \A f \in {seenAge', emittedAge', sinceTaken'} : f \in [Traces -> Age]
    BY <2>2 DEF SweepTimedOut, TypeOK
  <2>4. /\ buffers' \in [Traces -> SUBSET Spans] /\ emitted' \subseteq Traces
        /\ sweep' \subseteq Unit /\ tick' \in 0 .. NoTick /\ worker' = "forwarding"
    BY <1>1, <2>1 DEF SweepTimedOut, TypeOK
  <2>5. QED
    BY <1>1, <2>3, <2>4 DEF TypeOK, shutdownVars, spanVars
<1>4. BufferedNotEmitted'
  <2>1. ASSUME NEW t \in emitted' PROVE buffers'[t] = {}
    <3>1. t \in Traces /\ (t \in TimedOut \/ t \in emitted)
      BY <1>1 DEF SweepTimedOut, TypeOK
    <3>2. buffers'[t] = IF t \in TimedOut THEN {} ELSE buffers[t]
      BY <3>1 DEF SweepTimedOut
    <3>3. QED
      BY <3>1, <3>2 DEF BufferedNotEmitted
  <2>2. QED
    BY <2>1 DEF BufferedNotEmitted
<1>5. NothingTakenYet' /\ Drained'
  <2>1. \A t \in Traces : buffers[t] = {} => buffers'[t] = {}
    BY DEF SweepTimedOut
  <2>2. QED
    BY <1>1, <2>1 DEF NothingTakenYet, Drained
<1>6. Window'
  <2>1. ASSUME NEW t \in emitted'
        PROVE  emittedAge'[t] <= sinceTaken'[t] + MaxStall
    <3>1. CASE t \in TimedOut
      BY <1>1, <3>1 DEF SweepTimedOut
    <3>2. CASE t \notin TimedOut
      <4>1. t \in emitted \ Evicted
        BY <2>1, <3>2 DEF SweepTimedOut
      <4>2. t \in Traces /\ emittedAge'[t] = emittedAge[t] /\ sinceTaken'[t] = sinceTaken[t]
        BY <3>2, <4>1 DEF SweepTimedOut, TypeOK
      <4>3. QED
        BY <4>1, <4>2 DEF Window
    <3>3. QED
      BY <3>1, <3>2
  <2>2. ASSUME NEW t \in Traces \ emitted', phase \in {"running", "stopping"}
        PROVE  sinceTaken'[t] + MaxStall >= EmittedTtl
    <3>1. t \notin TimedOut /\ (t \in Evicted \/ t \notin emitted) /\ sinceTaken'[t] = sinceTaken[t]
      BY DEF SweepTimedOut
    <3>2. CASE t \in Evicted
      <4>1. /\ emittedAge[t] - tick >= EmittedTtl /\ t \in emitted
            /\ emittedAge[t] \in Nat /\ sinceTaken[t] \in Nat
        BY <3>2 DEF Evicted, TypeOK, Age
      <4>2. QED
        BY <1>1, <3>1, <4>1 DEF Window, EmittedTtl
    <3>3. QED
      BY <2>2, <3>1, <3>2 DEF Window
  <2>3. QED
    BY <1>1, <2>1, <2>2 DEF Window
<1>7. QED
  BY <1>3, <1>4, <1>5, <1>6

LEMMA WorkerInv ==
  ASSUME Inv, WorkerForwards \/ WorkerExits
  PROVE  Inv'
<1> USE DEF Inv
<1>1. /\ phase' = phase /\ UNCHANGED <<bufferVars, calls, shutdownVars, accepted>>
      /\ tick' = tick
  BY DEF WorkerForwards, WorkerExits, shutdownVars, spanVars
<1>2. /\ sweep' \subseteq Unit /\ worker' \in {"idle", "forwarding", "exited"}
      /\ delivered' \subseteq Span /\ dropped' \subseteq Span /\ errors' \in 0 .. MaxErrors
  <2>1. ASSUME NEW u \in sweep, NextTakes(SpansIn({u})) \/ NextErrs(SpansIn({u}))
        PROVE  delivered' \subseteq Span /\ dropped' \subseteq Span /\ errors' \in 0 .. MaxErrors
    <3>1. SpansIn({u}) \in SUBSET Span
      BY UnitsInSpan DEF TypeOK
    <3>2. QED
      BY <2>1, <3>1, NextTypes
  <2>2. QED
    BY <2>1 DEF WorkerForwards, WorkerExits, TypeOK, spanVars
<1>3. TypeOK'
  BY <1>1, <1>2 DEF TypeOK, bufferVars, shutdownVars
<1>4. BufferedNotEmitted' /\ NothingTakenYet' /\ Drained' /\ Window'
  BY <1>1, WindowUnchanged DEF BufferedNotEmitted, NothingTakenYet, Drained, bufferVars
<1>5. QED
  BY <1>3, <1>4

LEMMA ShutdownInv ==
  ASSUME Inv, Shutdown \/ TakeForFlush \/ Flush
  PROVE  Inv'
<1> USE Constants DEF Inv
<1>1. CASE Shutdown
  <2>1. TypeOK'
    BY <1>1 DEF Shutdown, TypeOK, bufferVars, workerVars, spanVars
  <2>2. phase = "running" /\ phase' = "stopping" /\ UNCHANGED <<bufferVars, calls>>
        /\ \A c \in Calls : calls[c].at = "none"
    BY <1>1 DEF Shutdown
  <2>3. QED
    BY <2>1, <2>2, WindowUnchanged DEF BufferedNotEmitted, NothingTakenYet, Drained, bufferVars
<1>2. CASE TakeForFlush
  <2>1. flush' \subseteq Unit
    BY <1>2 DEF TakeForFlush, ToFlush, UnitOf, Unit, TypeOK
  <2>2. \A f \in {seenAge', emittedAge', sinceTaken'} : f \in [Traces -> Age]
    BY <1>2 DEF TakeForFlush, TypeOK, Age
  <2>3. TypeOK'
    BY <1>2, <2>1, <2>2 DEF TakeForFlush, TypeOK, workerVars, spanVars
  <2>4. BufferedNotEmitted' /\ NothingTakenYet' /\ Drained'
    BY <1>2 DEF TakeForFlush, BufferedNotEmitted, NothingTakenYet, Drained, TypeOK
  <2>5. \A t \in emitted : sinceTaken'[t] = sinceTaken[t]
    BY <1>2 DEF TakeForFlush, BufferedNotEmitted, TypeOK
  <2>6. Window'
    BY <1>2, <2>5 DEF TakeForFlush, Window
  <2>7. QED
    BY <2>3, <2>4, <2>6
<1>3. CASE Flush
  <2>1. /\ phase = "flushing" /\ phase' \in {"flushing", "stopped"}
        /\ UNCHANGED <<bufferVars, workerVars, calls, accepted>>
    BY <1>3 DEF Flush
  <2>2. /\ flush' \subseteq Unit
        /\ delivered' \subseteq Span /\ dropped' \subseteq Span /\ errors' \in 0 .. MaxErrors
    <3>1. ASSUME NEW u \in flush, NextTakes(SpansIn({u})) \/ NextErrs(SpansIn({u}))
          PROVE  delivered' \subseteq Span /\ dropped' \subseteq Span /\ errors' \in 0 .. MaxErrors
      <4>1. SpansIn({u}) \in SUBSET Span
        BY UnitsInSpan DEF TypeOK
      <4>2. QED
        BY <3>1, <4>1, NextTypes
    <3>2. QED
      BY <1>3, <3>1 DEF Flush, TypeOK
  <2>3. TypeOK'
    BY <2>1, <2>2 DEF TypeOK, bufferVars, workerVars
  <2>4. BufferedNotEmitted' /\ NothingTakenYet' /\ Drained' /\ Window'
    BY <2>1, WindowUnchanged DEF BufferedNotEmitted, NothingTakenYet, Drained, bufferVars
  <2>5. QED
    BY <2>3, <2>4
<1>4. QED
  BY <1>1, <1>2, <1>3

LEMMA StutterInv == ASSUME Inv, UNCHANGED vars PROVE Inv'
BY WindowUnchanged DEF Inv, vars, bufferVars, workerVars, shutdownVars, spanVars, TypeOK,
   BufferedNotEmitted, NothingTakenYet, Drained

LEMMA NextInv == ASSUME Inv, [Next]_vars PROVE Inv'
<1>1. CASE Elapse
  BY <1>1, ElapseInv
<1>2. ASSUME NEW c \in Calls, NEW batch \in SUBSET (Incoming \ accepted), Arrive(c, batch) PROVE Inv'
  BY <1>2, ArriveInv
<1>3. ASSUME NEW c \in Calls, Buffer(c) PROVE Inv'
  BY <1>3, BufferInv
<1>4. ASSUME NEW c \in Calls, Forward(c) \/ Return(c) PROVE Inv'
  BY <1>4, ForwardInv
<1>5. CASE SweepTimedOut
  BY <1>5, SweepInv
<1>6. CASE WorkerForwards \/ WorkerExits
  BY <1>6, WorkerInv
<1>7. CASE Shutdown \/ TakeForFlush \/ Flush
  BY <1>7, ShutdownInv
<1>8. CASE Stopped \/ UNCHANGED vars
  BY <1>8, StutterInv DEF Stopped
<1>9. QED
  BY <1>1, <1>2, <1>3, <1>4, <1>5, <1>6, <1>7, <1>8 DEF Next

LEMMA TakenLongAgo ==
  ASSUME Inv, [Next]_vars, NEW t \in Traces, Taking(t)
  PROVE  sinceTaken[t] + MaxStall >= EmittedTtl
<1> USE DEF Inv
<1>1. CASE buffers[t] # {}
  BY <1>1 DEF BufferedNotEmitted, Drained, Window, TypeOK
<1>2. ASSUME NEW c \in Calls, calls[c].at = "locking", NEW u \in calls'[c].whole, u.trace = t
      PROVE  t \notin emitted /\ phase = "running"
  <2>1. calls[c].whole = {}
    BY <1>2 DEF NothingTakenYet
  <2>2. calls'[c].whole # calls[c].whole
    BY <1>2, <2>1
  <2>3. ~UNCHANGED calls
    BY <2>2
  <2>4. ~Elapse
    BY <2>2 DEF Elapse, TypeOK, Call
  <2>5. \A d \in Calls : ~(Forward(d) \/ Return(d))
    BY <1>2, <2>2, ForwardInv DEF Taking
  <2>6. ASSUME NEW d \in Calls, NEW batch \in SUBSET (Incoming \ accepted), Arrive(d, batch)
        PROVE  FALSE
    BY <1>2, <2>2, <2>6 DEF Arrive, TypeOK
  <2>7. \E d \in Calls : Buffer(d)
    BY <2>3, <2>4, <2>5, <2>6 DEF Next, vars, Stopped, SweepTimedOut, WorkerForwards, WorkerExits,
       Shutdown, TakeForFlush, Flush
  <2>8. QED
    BY <2>7, BufferInv
<1>3. CASE t \notin emitted /\ phase = "running"
  BY <1>3 DEF Window
<1>4. QED
  BY <1>1, <1>2, <1>3 DEF Taking

-----------------------------------------------------------------------------
(* Types hold for any traces, spans, calls, stalls and errors.             *)
THEOREM TypeCorrect == Spec => []TypeOK
<1>1. Inv => TypeOK
  BY DEF Inv
<1>2. QED
  BY <1>1, InitInv, NextInv, PTL DEF Spec

(* No trace that was marked emitted ever has a buffer, however calls,      *)
(* sweeps, evictions and Shutdown interleave (ConsumeTraces, p.emitted).   *)
THEOREM EmittedHasNoBuffer == Spec => []BufferedNotEmitted
<1>1. Inv => BufferedNotEmitted
  BY DEF Inv
<1>2. QED
  BY <1>1, InitInv, NextInv, PTL DEF Spec

(* A trace is taken again only 2*trace_timeout, less the stall, after it   *)
(* was taken, however long goroutines are held up (sweepTimedOut).         *)
THEOREM UnitsStayApart == Spec => UnitsApart
<1>1. Inv /\ [Next]_vars =>
        [\A t \in Traces : Taking(t) => sinceTaken[t] + MaxStall >= EmittedTtl]_vars
  BY TakenLongAgo
<1>2. QED
  BY <1>1, InitInv, NextInv, PTL DEF Spec, UnitsApart

-----------------------------------------------------------------------------
(* SpansConserved, span by span.                                           *)

(* A span the processor took is in one place, any other in none.           *)
Placed(x) ==
  /\ \A c, d \in Calls : x \in InCall(c) /\ x \in InCall(d) => c = d
  /\ \A c \in Calls : x \in InCall(c) =>
       /\ x \notin Buffered /\ x \notin SpansIn(sweep) /\ x \notin SpansIn(flush)
       /\ x \notin delivered /\ x \notin dropped
  /\ x \in Buffered =>
       /\ x \notin SpansIn(sweep) /\ x \notin SpansIn(flush)
       /\ x \notin delivered /\ x \notin dropped
  /\ x \in SpansIn(sweep) => x \notin SpansIn(flush) /\ x \notin delivered /\ x \notin dropped
  /\ x \in SpansIn(flush) => x \notin delivered /\ x \notin dropped
  /\ x \in delivered => x \notin dropped
  /\ x \in accepted <=> \/ \E c \in Calls : x \in InCall(c)
                        \/ x \in Buffered \/ x \in SpansIn(sweep) \/ x \in SpansIn(flush)
                        \/ x \in delivered \/ x \in dropped

(* One unit of a trace: forwarding it takes all its spans along.           *)
Apart(units) == \A u, v \in units : u.trace = v.trace => u = v

(* What a call holds fits how far it came.                                 *)
CallTidy(call) ==
  /\ call.at # "locking" => call.batch = {}
  /\ call.at # "forwarding" => call.late = {} /\ call.whole = {}
  /\ call.late \cap SpansIn(call.whole) = {} /\ Apart(call.whole)

Tidy ==
  /\ \A c \in Calls : CallTidy(calls[c])
  /\ Apart(sweep) /\ Apart(flush)
  /\ worker # "forwarding" => sweep = {}
  /\ phase \in {"running", "stopping"} => flush = {}

AllPlaced == \A x \in Span : Placed(x)
LEMMA InUnits ==
  ASSUME NEW units \in SUBSET Unit, NEW x \in Span
  PROVE  x \in SpansIn(units) <=> \E u \in units : x[1] = u.trace /\ x[2] \in u.spans
<1>1. x = <<x[1], x[2]>>
  BY DEF Span
<1>2. \A u \in units : x \in {u.trace} \X u.spans <=> x[1] = u.trace /\ x[2] \in u.spans
  BY <1>1
<1>3. x \in SpansIn(units) <=> \E u \in units : x \in {u.trace} \X u.spans
  BY DEF SpansIn
<1>4. QED
  BY <1>2, <1>3

LEMMA UnitForwarded ==
  ASSUME NEW units \in SUBSET Unit, Apart(units), NEW u \in units
  PROVE  /\ Apart(units \ {u})
         /\ \A x \in Span : /\ x \in SpansIn({u}) => x \in SpansIn(units)
                            /\ x \in SpansIn(units \ {u}) <=>
                                 x \in SpansIn(units) /\ x \notin SpansIn({u})
<1>1. Apart(units \ {u})
  BY DEF Apart
<1>2. ASSUME NEW x \in Span
      PROVE  /\ x \in SpansIn({u}) => x \in SpansIn(units)
             /\ x \in SpansIn(units \ {u}) <=> x \in SpansIn(units) /\ x \notin SpansIn({u})
  <2>1. x \in SpansIn({u}) <=> x[1] = u.trace /\ x[2] \in u.spans
    BY InUnits
  <2>2. x \in SpansIn(units) <=> \E v \in units : x[1] = v.trace /\ x[2] \in v.spans
    BY InUnits
  <2>3. x \in SpansIn(units \ {u}) <=> \E v \in units \ {u} : x[1] = v.trace /\ x[2] \in v.spans
    BY InUnits
  <2>4. QED
    BY <2>1, <2>2, <2>3 DEF Apart
<1>3. QED
  BY <1>1, <1>2

LEMMA NoUnits == SpansIn({}) = {} /\ Apart({})
BY DEF SpansIn, Apart

(* Units made of traces' spans, one of each trace.                         *)
UnitsFrom(T, f) == {[trace |-> t, spans |-> f[t]] : t \in T}

LEMMA UnitsOf ==
  ASSUME NEW T \in SUBSET Traces, NEW f, \A t \in T : f[t] \in (SUBSET Spans) \ {{}}
  PROVE  /\ UnitsFrom(T, f) \subseteq Unit
         /\ Apart(UnitsFrom(T, f))
         /\ \A x \in Span : x \in SpansIn(UnitsFrom(T, f)) <=>
                              x[1] \in T /\ x[2] \in f[x[1]]
<1> DEFINE units == UnitsFrom(T, f)
<1>1. units \subseteq Unit
  BY DEF UnitsFrom, Unit
<1>2. Apart(units)
  BY DEF UnitsFrom, Apart
<1>3. ASSUME NEW x \in Span
      PROVE  x \in SpansIn(units) <=> x[1] \in T /\ x[2] \in f[x[1]]
  <2>1. x \in SpansIn(units) <=> \E u \in units : x[1] = u.trace /\ x[2] \in u.spans
    BY <1>1, InUnits
  <2>2. ASSUME NEW u \in units, x[1] = u.trace, x[2] \in u.spans
        PROVE  x[1] \in T /\ x[2] \in f[x[1]]
    <3>1. PICK t \in T : u = [trace |-> t, spans |-> f[t]]
      BY DEF UnitsFrom
    <3>2. QED
      BY <2>2, <3>1
  <2>3. ASSUME x[1] \in T, x[2] \in f[x[1]]
        PROVE  \E u \in units : x[1] = u.trace /\ x[2] \in u.spans
    <3> DEFINE u == [trace |-> x[1], spans |-> f[x[1]]]
    <3>1. u \in units /\ u.trace = x[1] /\ u.spans = f[x[1]]
      BY <2>3 DEF UnitsFrom
    <3>2. QED
      BY <2>3, <3>1
  <2>4. QED
    BY <2>1, <2>2, <2>3
<1>4. QED
  BY <1>1, <1>2, <1>3

LEMMA InitPlaced == Init => Tidy /\ AllPlaced
<1> SUFFICES ASSUME Init PROVE Tidy /\ AllPlaced
  OBVIOUS
<1>1. \A c \in Calls : InCall(c) = {} /\ CallTidy(calls[c])
  BY NoUnits DEF Init, NoCall, InCall, CallTidy
<1>2. Buffered = {}
  BY DEF Init, Buffered, Span
<1>3. QED
  BY <1>1, <1>2, NoUnits DEF Init, Tidy, AllPlaced, Placed

LEMMA ElapsePlaced ==
  ASSUME Inv, Tidy, AllPlaced, Elapse
  PROVE  Tidy' /\ AllPlaced'
<1>1. ASSUME NEW c \in Calls
      PROVE  /\ calls'[c].at = calls[c].at /\ calls'[c].batch = calls[c].batch
             /\ calls'[c].late = calls[c].late /\ calls'[c].whole = calls[c].whole
  BY DEF Elapse, Inv, TypeOK, Call
<1>2. \A c \in Calls : InCall(c)' = InCall(c) /\ CallTidy(calls'[c])
  BY <1>1 DEF InCall, Tidy, CallTidy
<1>3. UNCHANGED <<Buffered, sweep, flush, worker, phase, accepted, delivered, dropped>>
  BY DEF Elapse, Buffered, shutdownVars, spanVars
<1>4. Tidy'
  BY <1>2, <1>3 DEF Tidy
<1>5. AllPlaced'
  BY <1>2, <1>3 DEF AllPlaced, Placed
<1>6. QED
  BY <1>4, <1>5

LEMMA ArrivePlaced ==
  ASSUME Inv, Tidy, AllPlaced,
         NEW c \in Calls, NEW batch \in SUBSET (Incoming \ accepted), Arrive(c, batch)
  PROVE  Tidy' /\ AllPlaced'
<1>1. /\ \A d \in Calls \ {c} : calls'[d] = calls[d]
      /\ calls'[c] = [at |-> "locking", age |-> 0, batch |-> batch, late |-> {}, whole |-> {}]
      /\ calls[c].at = "none" /\ accepted' = accepted \cup batch
      /\ UNCHANGED <<bufferVars, workerVars, shutdownVars, delivered, dropped>>
  BY DEF Arrive, Inv, TypeOK
<1>2. /\ \A d \in Calls \ {c} : InCall(d)' = InCall(d)
      /\ InCall(c)' = batch /\ InCall(c) = {}
  <2>1. \A d \in Calls \ {c} : InCall(d)' = InCall(d)
    BY <1>1 DEF InCall
  <2>2. InCall(c)' = batch \cup {} \cup SpansIn({})
    BY <1>1 DEF InCall
  <2>3. CallTidy(calls[c])
    BY DEF Tidy
  <2>4. InCall(c) = {}
    BY <1>1, <2>3, NoUnits DEF InCall, CallTidy
  <2>5. QED
    BY <2>1, <2>2, <2>4, NoUnits
<1>3. UNCHANGED <<Buffered, sweep, flush, worker, phase>>
  BY <1>1 DEF Buffered, bufferVars, workerVars, shutdownVars
<1>4. Tidy'
  BY <1>1, <1>3, NoUnits DEF Tidy, CallTidy
<1>5. ASSUME NEW x \in Span PROVE Placed(x)'
  <2>1. /\ Placed(x)
        /\ x \in batch => x \notin accepted
    BY DEF AllPlaced
  <2>2. QED
    BY <1>1, <1>2, <1>3, <2>1 DEF Placed
<1>6. QED
  BY <1>4, <1>5 DEF AllPlaced

LEMMA BufferPlaced ==
  ASSUME Inv, Tidy, AllPlaced, NEW c \in Calls, Buffer(c)
  PROVE  Tidy' /\ AllPlaced'
<1> DEFINE call   == calls[c]
           late   == Late(call.batch)
           new    == [t \in Traces |-> {s \in Spans : <<t, s>> \in call.batch \ late}]
           all    == [t \in Traces |-> buffers[t] \cup new[t]]
           rooted == {t \in Traces : Root \in new[t]}
           whole  == UnitsFrom(rooted, all)
<1>1. /\ call \in Call /\ call.at = "locking"
      /\ \A t \in Traces : all[t] \in SUBSET Spans /\ (t \in rooted => all[t] # {})
  BY DEF Buffer, Inv, TypeOK
<1>2. /\ whole \subseteq Unit /\ Apart(whole)
      /\ \A x \in Span : x \in SpansIn(whole) <=> x[1] \in rooted /\ x[2] \in all[x[1]]
  <2> HIDE DEF all, rooted
  <2>1. rooted \subseteq Traces
    BY DEF rooted
  <2>2. QED
    BY <1>1, <2>1, UnitsOf
<1>3. /\ \A d \in Calls \ {c} : calls'[d] = calls[d]
      /\ calls'[c] = [at |-> "forwarding", age |-> 0, batch |-> {}, late |-> late, whole |-> whole]
      /\ buffers' = [t \in Traces |-> IF t \in rooted THEN {} ELSE all[t]]
      /\ UNCHANGED <<workerVars, shutdownVars, spanVars>>
  <2>1. calls' = [calls EXCEPT ![c] = [NoCall EXCEPT !.at = "forwarding", !.late = late, !.whole = whole]]
    BY DEF Buffer, UnitsFrom
  <2>2. /\ buffers' = [t \in Traces |-> IF t \in rooted THEN {} ELSE all[t]]
        /\ UNCHANGED <<workerVars, shutdownVars, spanVars>>
    BY DEF Buffer
  <2> HIDE DEF late, whole, rooted, all
  <2>3. QED
    BY <2>1, <2>2 DEF NoCall, Inv, TypeOK
<1>4. ASSUME NEW x \in Span
      PROVE  /\ x[1] \in Traces /\ x[2] \in Spans
             /\ x \in late <=> x \in call.batch /\ x[1] \in emitted
             /\ x[2] \in new[x[1]] <=> x \in call.batch /\ x[1] \notin emitted
             /\ x[1] \in rooted => x[1] \notin emitted
  BY DEF Late, Span
<1>5. late \cap SpansIn(whole) = {} /\ late \subseteq Span
  <2> HIDE DEF whole, rooted, all, new
  <2>1. late \subseteq Span
    BY <1>1 DEF Late, Call
  <2>2. QED
    BY <1>2, <1>4, <2>1
<1> HIDE DEF whole, rooted, all, new, late, call
<1>6. ASSUME NEW x \in Span
      PROVE  /\ x \in InCall(c) <=> x \in call.batch
             /\ x \in Buffered <=> x[2] \in buffers[x[1]]
             /\ x \in InCall(c)' <=> x \in late \/ x \in SpansIn(whole)
             /\ x \in Buffered' <=> x[1] \notin rooted /\ x[2] \in all[x[1]]
             /\ x[2] \in all[x[1]] <=> x[2] \in buffers[x[1]] \/ x[2] \in new[x[1]]
  <2>1. x \in InCall(c) <=> x \in call.batch
    BY <1>1, NoUnits DEF InCall, call, Tidy, CallTidy
  <2>2. x \in InCall(c)' <=> x \in late \/ x \in SpansIn(whole)
    BY <1>3 DEF InCall
  <2>3. x \in Buffered' <=> x[1] \notin rooted /\ x[2] \in all[x[1]]
    BY <1>3, <1>4 DEF Buffered
  <2>4. QED
    BY <1>4, <2>1, <2>2, <2>3 DEF Buffered, all
<1>7. \A d \in Calls \ {c} : InCall(d)' = InCall(d)
  BY <1>3 DEF InCall
<1>8. UNCHANGED <<sweep, flush, worker, phase, accepted, delivered, dropped>>
  BY <1>3 DEF workerVars, shutdownVars, spanVars
<1>9. Tidy'
  BY <1>2, <1>3, <1>5, <1>8 DEF Tidy, CallTidy
<1>10. ASSUME NEW x \in Span PROVE Placed(x)'
  <2>1. Placed(x)
    BY DEF AllPlaced
  <2>2. \/ /\ x \in InCall(c) /\ x \notin Buffered
           /\ x \in InCall(c)' <=> x \notin Buffered'
        \/ /\ x \in Buffered /\ x \notin InCall(c)
           /\ x \in InCall(c)' <=> x \notin Buffered'
        \/ /\ x \notin Buffered /\ x \notin InCall(c)
           /\ x \notin Buffered' /\ x \notin InCall(c)'
    <3>1. ~(x \in InCall(c) /\ x \in Buffered)
      BY <2>1 DEF Placed
    <3>2. CASE x \in late
      BY <1>2, <1>4, <1>6, <3>1, <3>2
    <3>3. CASE x \notin late
      BY <1>2, <1>4, <1>6, <3>1, <3>3
    <3>4. QED
      BY <3>2, <3>3
  <2>3. QED
    BY <1>7, <1>8, <2>1, <2>2 DEF Placed
<1>11. QED
  BY <1>9, <1>10 DEF AllPlaced

(* A call forwards: what it hands on is no longer in it.                   *)
LEMMA ForwardPlaced ==
  ASSUME Inv, Tidy, AllPlaced, NEW c \in Calls, Forward(c) \/ Return(c)
  PROVE  Tidy' /\ AllPlaced'
<1>1. /\ calls[c] \in Call /\ calls[c].at = "forwarding" /\ calls[c].batch = {}
      /\ calls[c].late \subseteq Span /\ calls[c].whole \in SUBSET Unit
      /\ calls[c].late \cap SpansIn(calls[c].whole) = {} /\ Apart(calls[c].whole)
      /\ InCall(c) = calls[c].late \cup SpansIn(calls[c].whole)
  <2>1. calls[c] \in Call /\ calls[c].at = "forwarding"
    BY DEF Forward, Return, Inv, TypeOK
  <2>2. CallTidy(calls[c])
    BY DEF Tidy
  <2>3. QED
    BY <2>1, <2>2 DEF CallTidy, Call, InCall
<1>2. UNCHANGED <<Buffered, sweep, flush, worker, phase, accepted>>
  BY DEF Forward, Return, Buffered, bufferVars, workerVars, shutdownVars, spanVars
<1> DEFINE Gone(moved) == \A x \in Span : /\ x \in moved => x \in InCall(c)
                                          /\ x \in InCall(c)' <=> x \in InCall(c) /\ x \notin moved
           Left == \E k \in Call : CallTidy(k) /\ calls' = [calls EXCEPT ![c] = k]
<1>3. \E moved \in SUBSET Span :
        /\ Gone(moved) /\ Left
        /\ \/ delivered' = delivered \cup moved /\ dropped' = dropped
           \/ delivered' = delivered /\ dropped' = dropped \cup moved
  <2>1. ASSUME calls' = [calls EXCEPT ![c] = NoCall]
        PROVE  InCall(c)' = {} /\ Left
    <3>1. NoCall \in Call /\ CallTidy(NoCall)
      BY CallRecord, NoUnits DEF NoCall, CallTidy
    <3>2. calls'[c] = NoCall
      BY <2>1 DEF Inv, TypeOK
    <3>3. Left
      BY <2>1, <3>1
    <3>4. InCall(c)' = {} \cup {} \cup SpansIn({})
      BY <3>2 DEF InCall, NoCall
    <3>5. QED
      BY <3>3, <3>4, NoUnits
  <2>2. CASE Return(c)
    <3>1. InCall(c) = {} /\ InCall(c)' = {} /\ Left
      BY <1>1, <2>1, <2>2, NoUnits DEF Return
    <3>2. Gone({})
      BY <3>1
    <3>3. delivered' = delivered \cup {} /\ dropped' = dropped
      BY <2>2 DEF Return, spanVars
    <3>4. {} \in SUBSET Span
      OBVIOUS
    <3> HIDE DEF Gone, Left
    <3>5. QED
      BY <3>1, <3>2, <3>3, <3>4
  <2>3. ASSUME NEW x \in calls[c].late, NextTakes({x}), calls' = [calls EXCEPT ![c].late = @ \ {x}]
        PROVE  Gone({x}) /\ Left
    <3> DEFINE k == [calls[c] EXCEPT !.late = @ \ {x}]
    <3>1. /\ calls' = [calls EXCEPT ![c] = k] /\ k \in Call /\ k.at = "forwarding"
          /\ k.batch = {} /\ k.late = calls[c].late \ {x} /\ k.whole = calls[c].whole
      BY <1>1, <2>3 DEF Call, Inv, TypeOK
    <3>2. calls'[c] = k
      BY <3>1 DEF Inv, TypeOK
    <3> HIDE DEF k
    <3>3. CallTidy(k)
      BY <1>1, <3>1 DEF CallTidy
    <3>4. InCall(c)' = (calls[c].late \ {x}) \cup SpansIn(calls[c].whole)
      BY <3>1, <3>2 DEF InCall
    <3>5. QED
      BY <1>1, <3>1, <3>3, <3>4
  <2>4. ASSUME NEW u \in calls[c].whole, NextTakes(SpansIn({u})), calls[c].late = {},
               calls' = [calls EXCEPT ![c].whole = @ \ {u}]
        PROVE  Gone(SpansIn({u})) /\ Left
    <3> DEFINE k == [calls[c] EXCEPT !.whole = @ \ {u}]
    <3>1. /\ calls' = [calls EXCEPT ![c] = k] /\ k \in Call /\ k.at = "forwarding"
          /\ k.batch = {} /\ k.late = {} /\ k.whole = calls[c].whole \ {u}
      BY <1>1, <2>4 DEF Call, Inv, TypeOK
    <3>2. calls'[c] = k
      BY <3>1 DEF Inv, TypeOK
    <3> HIDE DEF k
    <3>3. /\ Apart(calls[c].whole \ {u})
          /\ \A x \in Span : /\ x \in SpansIn({u}) => x \in SpansIn(calls[c].whole)
                             /\ x \in SpansIn(calls[c].whole \ {u}) <=>
                                  x \in SpansIn(calls[c].whole) /\ x \notin SpansIn({u})
      BY <1>1, UnitForwarded
    <3>4. CallTidy(k)
      BY <3>1, <3>3 DEF CallTidy
    <3>5. InCall(c)' = SpansIn(calls[c].whole \ {u})
      BY <3>1, <3>2 DEF InCall
    <3>6. QED
      BY <1>1, <2>4, <3>1, <3>3, <3>4, <3>5
  <2>5. CASE /\ NextErrs(calls[c].late \cup SpansIn(calls[c].whole))
             /\ calls' = [calls EXCEPT ![c] = NoCall]
    <3>1. InCall(c)' = {} /\ Left
      BY <2>1, <2>5
    <3>2. Gone(InCall(c))
      BY <3>1
    <3>3. InCall(c) \in SUBSET Span
      BY <1>1, UnitsInSpan
    <3>4. delivered' = delivered /\ dropped' = dropped \cup InCall(c)
      BY <1>1, <2>5 DEF NextErrs
    <3> HIDE DEF Gone, Left
    <3>5. QED
      BY <3>1, <3>2, <3>3, <3>4
  <2>6. \A x \in calls[c].late : {x} \in SUBSET Span
    BY <1>1
  <2>7. \A u \in calls[c].whole : SpansIn({u}) \in SUBSET Span
    BY <1>1, UnitsInSpan
  <2> HIDE DEF Gone, Left
  <2>8. QED
    BY <2>2, <2>3, <2>4, <2>5, <2>6, <2>7 DEF Forward, NextTakes
<1>4. PICK moved \in SUBSET Span :
        /\ Gone(moved) /\ Left
        /\ \/ delivered' = delivered \cup moved /\ dropped' = dropped
           \/ delivered' = delivered /\ dropped' = dropped \cup moved
  BY <1>3
<1>5. PICK k \in Call : CallTidy(k) /\ calls' = [calls EXCEPT ![c] = k]
  BY <1>4
<1>6. /\ \A d \in Calls \ {c} : InCall(d)' = InCall(d) /\ calls'[d] = calls[d]
      /\ calls'[c] = k
  BY <1>5 DEF InCall, Inv, TypeOK
<1>7. Tidy'
  BY <1>2, <1>5, <1>6 DEF Tidy
<1>8. ASSUME NEW x \in Span PROVE Placed(x)'
  <2>1. Placed(x)
    BY DEF AllPlaced
  <2>2. \/ /\ x \in InCall(c) /\ x \notin InCall(c)'
           /\ \/ x \in delivered' /\ (x \in dropped' <=> x \in dropped)
              \/ x \in dropped' /\ (x \in delivered' <=> x \in delivered)
        \/ /\ x \in InCall(c)' <=> x \in InCall(c)
           /\ x \in dropped' <=> x \in dropped
           /\ x \in delivered' <=> x \in delivered
    BY <1>4
  <2>3. QED
    BY <1>2, <1>6, <2>1, <2>2 DEF Placed
<1>9. QED
  BY <1>7, <1>8 DEF AllPlaced

(* Buffers that are taken become units with the very spans in them.        *)
LEMMA TakenUnits ==
  ASSUME TypeOK, NEW T \in SUBSET Traces, \A t \in T : buffers[t] # {}
  PROVE  /\ Apart({UnitOf(t) : t \in T})
         /\ \A x \in Span : x \in SpansIn({UnitOf(t) : t \in T}) <=> x[1] \in T /\ x \in Buffered
<1>1. \A t \in T : buffers[t] \in (SUBSET Spans) \ {{}}
  BY DEF TypeOK
<1>2. UnitsFrom(T, buffers) = {UnitOf(t) : t \in T}
  BY DEF UnitsFrom, UnitOf
<1>3. /\ Apart(UnitsFrom(T, buffers))
      /\ \A x \in Span : x \in SpansIn(UnitsFrom(T, buffers)) <=>
                           x[1] \in T /\ x[2] \in buffers[x[1]]
  BY <1>1, UnitsOf
<1>4. QED
  BY <1>2, <1>3 DEF Buffered

LEMMA SweepPlaced ==
  ASSUME Inv, Tidy, AllPlaced, SweepTimedOut
  PROVE  Tidy' /\ AllPlaced'
<1>1. /\ sweep = {} /\ sweep' = {UnitOf(t) : t \in TimedOut} /\ worker' = "forwarding"
      /\ buffers' = [t \in Traces |-> IF t \in TimedOut THEN {} ELSE buffers[t]]
      /\ UNCHANGED <<calls, shutdownVars, spanVars>>
  BY DEF SweepTimedOut, Tidy
<1>2. /\ Apart(sweep')
      /\ \A x \in Span : x \in SpansIn(sweep') <=> x[1] \in TimedOut /\ x \in Buffered
  <2>1. TimedOut \in SUBSET Traces /\ \A t \in TimedOut : buffers[t] # {}
    BY DEF TimedOut
  <2>2. QED
    BY <1>1, <2>1, TakenUnits DEF Inv
<1>3. \A x \in Span : x \in Buffered' <=> x[1] \notin TimedOut /\ x \in Buffered
  BY <1>1 DEF Buffered, Span
<1>4. UNCHANGED <<calls, flush, phase, accepted, delivered, dropped>>
  BY <1>1 DEF shutdownVars, spanVars
<1>5. \A c \in Calls : InCall(c)' = InCall(c)
  BY <1>4 DEF InCall
<1>6. Tidy'
  BY <1>1, <1>2, <1>4 DEF Tidy
<1>7. ASSUME NEW x \in Span PROVE Placed(x)'
  <2>1. Placed(x) /\ x \notin SpansIn(sweep)
    BY <1>1, NoUnits DEF AllPlaced
  <2>2. QED
    BY <1>2, <1>3, <1>4, <1>5, <2>1 DEF Placed
<1>8. QED
  BY <1>6, <1>7 DEF AllPlaced

(* The worker and Shutdown hand on one unit, or give it up.                *)
LEMMA UnitSettled ==
  ASSUME NEW u, NextTakes(SpansIn({u})) \/ NextErrs(SpansIn({u})), NEW x
  PROVE  IF x \in SpansIn({u})
         THEN \/ x \in delivered' /\ (x \in dropped' <=> x \in dropped)
              \/ x \in dropped' /\ (x \in delivered' <=> x \in delivered)
         ELSE /\ x \in delivered' <=> x \in delivered
              /\ x \in dropped' <=> x \in dropped
BY DEF NextTakes, NextErrs

LEMMA WorkerPlaced ==
  ASSUME Inv, Tidy, AllPlaced, WorkerForwards \/ WorkerExits
  PROVE  Tidy' /\ AllPlaced'
<1>1. UNCHANGED <<Buffered, calls, flush, phase, accepted>>
  BY DEF WorkerForwards, WorkerExits, Buffered, bufferVars, shutdownVars, spanVars
<1>2. \A c \in Calls : InCall(c)' = InCall(c)
  BY <1>1 DEF InCall
<1>3. CASE UNCHANGED <<sweep, delivered, dropped>> /\ (worker' # "forwarding" => sweep = {})
  BY <1>1, <1>2, <1>3 DEF Tidy, AllPlaced, Placed
<1>4. ASSUME NEW u \in sweep, sweep' = sweep \ {u}, worker' = "forwarding",
             NextTakes(SpansIn({u})) \/ NextErrs(SpansIn({u}))
      PROVE  Tidy' /\ AllPlaced'
  <2>1. /\ Apart(sweep')
        /\ \A x \in Span : /\ x \in SpansIn({u}) => x \in SpansIn(sweep)
                           /\ x \in SpansIn(sweep') <=> x \in SpansIn(sweep) /\ x \notin SpansIn({u})
    BY <1>4, UnitForwarded DEF Tidy, Inv, TypeOK
  <2>2. Tidy'
    BY <1>1, <1>4, <2>1 DEF Tidy
  <2>3. ASSUME NEW x \in Span PROVE Placed(x)'
    <3>1. Placed(x)
      BY DEF AllPlaced
    <3>2. CASE x \in SpansIn({u})
      BY <1>1, <1>2, <1>4, <2>1, <3>1, <3>2, UnitSettled DEF Placed
    <3>3. CASE x \notin SpansIn({u})
      BY <1>1, <1>2, <1>4, <2>1, <3>1, <3>3, UnitSettled DEF Placed
    <3>4. QED
      BY <3>2, <3>3
  <2>4. QED
    BY <2>2, <2>3 DEF AllPlaced
<1>5. QED
  BY <1>3, <1>4 DEF WorkerForwards, WorkerExits, spanVars, Tidy

LEMMA ShutdownPlaced ==
  ASSUME Inv, Tidy, AllPlaced, Shutdown \/ TakeForFlush \/ Flush
  PROVE  Tidy' /\ AllPlaced'
<1>1. UNCHANGED <<calls, sweep, worker, accepted>>
  BY DEF Shutdown, TakeForFlush, Flush, workerVars, spanVars
<1>2. \A c \in Calls : InCall(c)' = InCall(c)
  BY <1>1 DEF InCall
<1>3. CASE UNCHANGED <<Buffered, flush, delivered, dropped>>
           /\ (phase' \in {"running", "stopping"} => flush = {})
  BY <1>1, <1>2, <1>3 DEF Tidy, AllPlaced, Placed
<1>4. CASE TakeForFlush
  <2> DEFINE T == {t \in Traces : buffers[t] # {}}
  <2>1. /\ flush = {} /\ flush' = {UnitOf(t) : t \in T} /\ phase' = "flushing"
        /\ buffers' = [t \in Traces |-> {}] /\ UNCHANGED <<delivered, dropped>>
    BY <1>4 DEF TakeForFlush, ToFlush, Tidy, spanVars
  <2>2. \A x \in Span : x \in Buffered => x[1] \in T
    BY DEF Buffered, Span
  <2>3. /\ Apart(flush')
        /\ \A x \in Span : x \in SpansIn(flush') <=> x \in Buffered
    BY <2>1, <2>2, TakenUnits DEF Inv
  <2>4. Buffered' = {}
    BY <2>1 DEF Buffered, Span
  <2>5. Tidy'
    BY <1>1, <2>1, <2>3 DEF Tidy
  <2>6. ASSUME NEW x \in Span PROVE Placed(x)'
    <3>1. Placed(x) /\ x \notin SpansIn(flush)
      BY <2>1, NoUnits DEF AllPlaced
    <3>2. QED
      BY <1>1, <1>2, <2>1, <2>3, <2>4, <3>1 DEF Placed
  <2>7. QED
    BY <2>5, <2>6 DEF AllPlaced
<1>5. ASSUME NEW u \in flush, flush' = flush \ {u}, phase' = "flushing", UNCHANGED Buffered,
             NextTakes(SpansIn({u})) \/ NextErrs(SpansIn({u}))
      PROVE  Tidy' /\ AllPlaced'
  <2>1. /\ Apart(flush')
        /\ \A x \in Span : /\ x \in SpansIn({u}) => x \in SpansIn(flush)
                           /\ x \in SpansIn(flush') <=> x \in SpansIn(flush) /\ x \notin SpansIn({u})
    BY <1>5, UnitForwarded DEF Tidy, Inv, TypeOK
  <2>2. Tidy'
    BY <1>1, <1>5, <2>1 DEF Tidy
  <2>3. ASSUME NEW x \in Span PROVE Placed(x)'
    <3>1. Placed(x)
      BY DEF AllPlaced
    <3>2. CASE x \in SpansIn({u})
      BY <1>1, <1>2, <1>5, <2>1, <3>1, <3>2, UnitSettled DEF Placed
    <3>3. CASE x \notin SpansIn({u})
      BY <1>1, <1>2, <1>5, <2>1, <3>1, <3>3, UnitSettled DEF Placed
    <3>4. QED
      BY <3>2, <3>3
  <2>4. QED
    BY <2>2, <2>3 DEF AllPlaced
<1>6. CASE Shutdown
  BY <1>3, <1>6 DEF Shutdown, Buffered, bufferVars, spanVars, Tidy
<1>7. CASE Flush
  <2>1. UNCHANGED Buffered
    BY <1>7 DEF Flush, Buffered, bufferVars
  <2>2. QED
    BY <1>3, <1>5, <1>7, <2>1 DEF Flush
<1>8. QED
  BY <1>4, <1>6, <1>7

LEMMA StutterPlaced == ASSUME Tidy, AllPlaced, UNCHANGED vars PROVE Tidy' /\ AllPlaced'
<1>1. /\ UNCHANGED <<Buffered, calls, sweep, flush, worker, phase, accepted, delivered, dropped>>
      /\ \A c \in Calls : InCall(c)' = InCall(c)
  BY DEF vars, bufferVars, workerVars, shutdownVars, spanVars, Buffered, InCall
<1>2. QED
  BY <1>1 DEF Tidy, AllPlaced, Placed

LEMMA NextPlaced == ASSUME Inv, Tidy, AllPlaced, [Next]_vars PROVE Tidy' /\ AllPlaced'
<1>1. CASE Elapse
  BY <1>1, ElapsePlaced
<1>2. ASSUME NEW c \in Calls, NEW batch \in SUBSET (Incoming \ accepted), Arrive(c, batch)
      PROVE  Tidy' /\ AllPlaced'
  BY <1>2, ArrivePlaced
<1>3. ASSUME NEW c \in Calls, Buffer(c) PROVE Tidy' /\ AllPlaced'
  BY <1>3, BufferPlaced
<1>4. ASSUME NEW c \in Calls, Forward(c) \/ Return(c) PROVE Tidy' /\ AllPlaced'
  BY <1>4, ForwardPlaced
<1>5. CASE SweepTimedOut
  BY <1>5, SweepPlaced
<1>6. CASE WorkerForwards \/ WorkerExits
  BY <1>6, WorkerPlaced
<1>7. CASE Shutdown \/ TakeForFlush \/ Flush
  BY <1>7, ShutdownPlaced
<1>8. CASE Stopped \/ UNCHANGED vars
  BY <1>8, StutterPlaced DEF Stopped
<1>9. QED
  BY <1>1, <1>2, <1>3, <1>4, <1>5, <1>6, <1>7, <1>8 DEF Next

(* In one place: what SpansConserved counts.                               *)
LEMMA OnlyOne ==
  ASSUME NEW S, NEW a, a \in S, \A b \in S : b = a
  PROVE  Cardinality(S) = 1
<1>1. S = {a}
  OBVIOUS
<1>2. QED
  BY <1>1, FS_Singleton

LEMMA PlacedOnce ==
  ASSUME Inv, NEW x \in accepted, Placed(x)
  PROVE  Cardinality({c \in Calls : x \in InCall(c)})
           + Cardinality({p \in {1, 2, 3, 4, 5} :
               x \in <<Buffered, SpansIn(sweep), SpansIn(flush), delivered, dropped>>[p]}) = 1
<1> DEFINE C == {c \in Calls : x \in InCall(c)}
           at(p) == <<Buffered, SpansIn(sweep), SpansIn(flush), delivered, dropped>>[p]
           P == {p \in {1, 2, 3, 4, 5} : x \in at(p)}
<1>1. /\ 1 \in P <=> x \in Buffered
      /\ 2 \in P <=> x \in SpansIn(sweep)
      /\ 3 \in P <=> x \in SpansIn(flush)
      /\ 4 \in P <=> x \in delivered
      /\ 5 \in P <=> x \in dropped
      /\ \A p \in P : p \in {1, 2, 3, 4, 5}
  OBVIOUS
<1>2. CASE \E c \in Calls : x \in InCall(c)
  <2>1. PICK c \in Calls : x \in InCall(c)
    BY <1>2
  <2>2. c \in C /\ \A d \in C : d = c
    BY <2>1 DEF Placed
  <2>3. \A p \in P : FALSE
    BY <1>1, <2>1 DEF Placed
  <2> HIDE DEF C, P
  <2>4. P = {}
    BY <2>3
  <2>5. Cardinality(C) = 1 /\ Cardinality(P) = 0
    BY <2>2, <2>4, OnlyOne, FS_EmptySet
  <2>6. Cardinality(C) + Cardinality(P) = 1
    BY <2>5
  <2>7. QED
    BY <2>6 DEF C, P
<1>3. CASE \A c \in Calls : x \notin InCall(c)
  <2>1. C = {}
    BY <1>3
  <2>2. \E p \in P : \A q \in P : q = p
    <3>1. CASE x \in Buffered
      BY <1>1, <3>1 DEF Placed
    <3>2. CASE x \in SpansIn(sweep)
      BY <1>1, <3>2 DEF Placed
    <3>3. CASE x \in SpansIn(flush)
      BY <1>1, <3>3 DEF Placed
    <3>4. CASE x \in delivered
      BY <1>1, <3>4 DEF Placed
    <3>5. CASE x \in dropped
      BY <1>1, <3>5 DEF Placed
    <3>6. QED
      BY <1>3, <3>1, <3>2, <3>3, <3>4, <3>5 DEF Placed
  <2> HIDE DEF C, P
  <2>3. PICK p \in P : \A q \in P : q = p
    BY <2>2
  <2>4. Cardinality(C) = 0 /\ Cardinality(P) = 1
    BY <2>1, <2>3, OnlyOne, FS_EmptySet
  <2>5. Cardinality(C) + Cardinality(P) = 1
    BY <2>4
  <2>6. QED
    BY <2>5 DEF C, P
<1>4. QED
  BY <1>2, <1>3

(* Every span the processor took is in one call or one of the five other   *)
(* places, whatever calls, sweeps and Shutdown do (ConsumeTraces,          *)
(* sweepTimedOut, Shutdown): none is stranded and none forwarded twice.    *)
THEOREM NoneStrandedNorTwice == Spec => []SpansConserved
<1>1. Inv /\ AllPlaced => SpansConserved
  <2>1. ASSUME Inv, AllPlaced, NEW x \in accepted
        PROVE  Cardinality({c \in Calls : x \in InCall(c)})
                 + Cardinality({p \in {1, 2, 3, 4, 5} :
                     x \in <<Buffered, SpansIn(sweep), SpansIn(flush), delivered, dropped>>[p]}) = 1
    BY <2>1, PlacedOnce DEF AllPlaced, Inv, TypeOK
  <2>2. QED
    BY <2>1 DEF SpansConserved
<1>2. Init => Inv /\ Tidy /\ AllPlaced
  BY InitInv, InitPlaced
<1>3. Inv /\ Tidy /\ AllPlaced /\ [Next]_vars => (Inv /\ Tidy /\ AllPlaced)'
  BY NextInv, NextPlaced
<1>4. QED
  BY <1>1, <1>2, <1>3, PTL DEF Spec
=============================================================================
