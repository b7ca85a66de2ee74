-------------------------- MODULE SelectProcessor ---------------------------
(***************************************************************************)
(* agentauditselect: concurrent ConsumeTraces calls buffer spans by trace  *)
(* and forward a trace when its root span comes, a worker forwards those   *)
(* that fell silent, and Shutdown flushes the rest.  p.mu covers what      *)
(* happens to the maps; the forwarding itself runs outside it, and every   *)
(* `now` is read before the lock is taken.                                 *)
(*                                                                         *)
(* Time runs in units of trace_timeout/2, the worker's tick.  A time is    *)
(* kept as its age, capped where no comparison tells older ones apart.     *)
(* Attributes, scopes and resources are left out.                          *)
(***************************************************************************)
EXTENDS Integers, FiniteSets

CONSTANTS
  Traces, Spans, Root,   (* the span ids of a trace, the root's among them *)
  Incoming,              (* the spans that are sent, as <<trace, span>>    *)
  Calls,                 (* bound: calls of ConsumeTraces at a time        *)
  MaxStall,              (* bound: how long a goroutine is held up between *)
                         (* reading the clock, or being sent a tick, and   *)
                         (* holding p.mu                                   *)
  MaxErrors              (* bound: errors of the next consumer             *)

ASSUME SelectAssumption ==
  /\ Root \in Spans /\ Incoming \subseteq Traces \X Spans
  /\ MaxStall \in Nat /\ MaxErrors \in Nat

VARIABLES
  buffers,       (* buffers[t]: the spans buffered for t                   *)
  seenAge,       (* seenAge[t]: age of the buffer's lastSeen, 0 without one*)
  emitted,       (* the traces in p.emitted                                *)
  emittedAge,    (* emittedAge[t]: age of p.emitted[t], 0 without one      *)
  tick,          (* age of the tick in ticker.C, NoTick when there is none *)
  worker,        (* "idle", "forwarding" or "exited"                       *)
  sweep,         (* the units the worker still has to forward              *)
  calls,         (* the calls of ConsumeTraces                             *)
  phase,         (* "running", "stopping", "flushing" or "stopped"         *)
  flush,         (* the units Shutdown still has to forward                *)
  (* history and bounds *)
  accepted, delivered, dropped,   (* spans, as <<trace, span>>             *)
  sinceTaken,    (* sinceTaken[t]: time since a unit of t was taken        *)
  errors

bufferVars == <<buffers, seenAge, emitted, emittedAge, sinceTaken>>
workerVars == <<tick, worker, sweep>>
shutdownVars == <<phase, flush>>
spanVars == <<accepted, delivered, dropped, errors>>
vars == <<bufferVars, workerVars, calls, shutdownVars, spanVars>>

Timeout == 2           (* trace_timeout, in ticks                          *)
EmittedTtl == 4        (* 2 * trace_timeout                                *)
Oldest == MaxStall + EmittedTtl
Age == 0 .. Oldest
NoTick == MaxStall + 1

Span == Traces \X Spans
Unit == [trace : Traces, spans : (SUBSET Spans) \ {{}}]
SpansIn(units) == UNION {{u.trace} \X u.spans : u \in units}
UnitOf(t) == [trace |-> t, spans |-> buffers[t]]
NoCall == [at |-> "none", age |-> 0, batch |-> {}, late |-> {}, whole |-> {}]
Call == [at : {"none", "locking", "forwarding"}, age : 0 .. MaxStall, batch : SUBSET Span,
         late : SUBSET Span, whole : SUBSET Unit]

Init ==
  /\ buffers = [t \in Traces |-> {}]
  /\ seenAge = [t \in Traces |-> 0]
  /\ emitted = {} /\ emittedAge = [t \in Traces |-> 0]
  /\ tick = NoTick /\ worker = "idle" /\ sweep = {}
  /\ calls = [c \in Calls |-> NoCall]
  /\ phase = "running" /\ flush = {}
  /\ accepted = {} /\ delivered = {} /\ dropped = {} /\ errors = 0
  /\ sinceTaken = [t \in Traces |-> Oldest]

-----------------------------------------------------------------------------
(* Time passes.  A tick is dropped when the last one still waits.          *)
Older(age) == IF age < Oldest THEN age + 1 ELSE age

Elapse ==
  /\ worker # "exited"
  /\ tick # MaxStall
  /\ \A c \in Calls : calls[c].at = "locking" => calls[c].age < MaxStall
  /\ tick' = IF tick = NoTick THEN 0 ELSE tick + 1
  /\ seenAge' = [t \in Traces |-> IF buffers[t] = {} THEN 0 ELSE Older(seenAge[t])]
  /\ emittedAge' = [t \in Traces |-> IF t \in emitted THEN Older(emittedAge[t]) ELSE 0]
  /\ sinceTaken' = [t \in Traces |-> Older(sinceTaken[t])]
  /\ calls' = [c \in Calls |-> IF calls[c].at = "locking"
                               THEN [calls[c] EXCEPT !.age = @ + 1] ELSE calls[c]]
  /\ UNCHANGED <<buffers, emitted, worker, sweep, shutdownVars, spanVars>>

-----------------------------------------------------------------------------
(* ConsumeTraces.                                                          *)

(* The call reads the clock, then waits for p.mu.                          *)
Arrive(c, batch) ==
  /\ phase = "running"
  /\ calls[c].at = "none"
  /\ batch # {} /\ batch \cap accepted = {}
  /\ calls' = [calls EXCEPT ![c] = [at |-> "locking", age |-> 0, batch |-> batch,
                                    late |-> {}, whole |-> {}]]
  /\ accepted' = accepted \cup batch
  /\ UNCHANGED <<bufferVars, workerVars, shutdownVars, delivered, dropped, errors>>

NoneLate(batch) == {}
Late(batch) == {x \in batch : x[1] \in emitted}

(* Spans of emitted traces pass through; the others are buffered, and a    *)
(* trace whose root is among them is taken.                                *)
Buffer(c) ==
  LET call   == calls[c]
      late   == Late(call.batch)
      new    == [t \in Traces |-> {s \in Spans : <<t, s>> \in call.batch \ late}]
      all    == [t \in Traces |-> buffers[t] \cup new[t]]
      rooted == {t \in Traces : Root \in new[t]}
  IN  /\ call.at = "locking"
      /\ buffers' = [t \in Traces |-> IF t \in rooted THEN {} ELSE all[t]]
      /\ seenAge' = [t \in Traces |-> IF t \in rooted THEN 0
                                     ELSE IF new[t] # {} THEN call.age ELSE seenAge[t]]
      /\ emitted' = emitted \cup rooted
      /\ emittedAge' = [t \in Traces |-> IF t \in rooted THEN call.age ELSE emittedAge[t]]
      /\ sinceTaken' = [t \in Traces |-> IF t \in rooted THEN 0 ELSE sinceTaken[t]]
      /\ calls' = [calls EXCEPT ![c] =
                     [NoCall EXCEPT !.at = "forwarding", !.late = late,
                        !.whole = {[trace |-> t, spans |-> all[t]] : t \in rooted}]]
      /\ UNCHANGED <<workerVars, shutdownVars, spanVars>>

NextErrs(lost) ==
  /\ errors < MaxErrors
  /\ errors' = errors + 1
  /\ dropped' = dropped \cup lost
  /\ delivered' = delivered

NextTakes(spans) ==
  delivered' = delivered \cup spans /\ UNCHANGED <<dropped, errors>>

(* Late spans one by one, then the units; an error ends the call and with  *)
(* it whatever it had not forwarded yet.                                   *)
Forward(c) ==
  LET call == calls[c]
  IN  /\ call.at = "forwarding"
      /\ \/ \E x \in call.late :
              /\ NextTakes({x})
              /\ calls' = [calls EXCEPT ![c].late = @ \ {x}]
         \/ \E u \in call.whole :
              /\ call.late = {}
              /\ NextTakes(SpansIn({u}))
              /\ calls' = [calls EXCEPT ![c].whole = @ \ {u}]
         \/ /\ call.late # {} \/ call.whole # {}
            /\ NextErrs(call.late \cup SpansIn(call.whole))
            /\ calls' = [calls EXCEPT ![c] = NoCall]
      /\ UNCHANGED <<bufferVars, workerVars, shutdownVars, accepted>>

Return(c) ==
  /\ calls[c].at = "forwarding"
  /\ calls[c].late = {} /\ calls[c].whole = {}
  /\ calls' = [calls EXCEPT ![c] = NoCall]
  /\ UNCHANGED <<bufferVars, workerVars, shutdownVars, spanVars>>

-----------------------------------------------------------------------------
(* The worker.  Its `now` is the tick's, which waited in the channel while *)
(* the worker was forwarding; it marks and evicts by that time.            *)
NoneTimedOut == {}
TimedOut == {t \in Traces : buffers[t] # {} /\ seenAge[t] - tick >= Timeout}
EvictedEarly == {t \in emitted : emittedAge[t] - tick >= Timeout}
Evicted == {t \in emitted : emittedAge[t] - tick >= EmittedTtl}

SweepTimedOut ==
  /\ worker = "idle"
  /\ tick # NoTick
  /\ buffers' = [t \in Traces |-> IF t \in TimedOut THEN {} ELSE buffers[t]]
  /\ seenAge' = [t \in Traces |-> IF t \in TimedOut THEN 0 ELSE seenAge[t]]
  /\ sweep' = {UnitOf(t) : t \in TimedOut}
  /\ emitted' = (emitted \ Evicted) \cup TimedOut
  /\ emittedAge' = [t \in Traces |-> IF t \in TimedOut THEN tick
                                    ELSE IF t \in Evicted THEN 0 ELSE emittedAge[t]]
  /\ sinceTaken' = [t \in Traces |-> IF t \in TimedOut THEN 0 ELSE sinceTaken[t]]
  /\ worker' = "forwarding"
  /\ tick' = NoTick
  /\ UNCHANGED <<calls, shutdownVars, spanVars>>

(* An error of the next consumer is only logged.                           *)
WorkerForwards ==
  /\ worker = "forwarding"
  /\ \/ \E u \in sweep :
          /\ sweep' = sweep \ {u}
          /\ NextTakes(SpansIn({u})) \/ NextErrs(SpansIn({u}))
          /\ worker' = worker
     \/ sweep = {} /\ worker' = "idle" /\ UNCHANGED <<sweep, delivered, dropped, errors>>
  /\ UNCHANGED <<bufferVars, tick, calls, shutdownVars, accepted>>

WorkerExits ==
  /\ phase # "running"
  /\ worker = "idle"
  /\ worker' = "exited"
  /\ UNCHANGED <<bufferVars, tick, sweep, calls, shutdownVars, spanVars>>

-----------------------------------------------------------------------------
(* Shutdown.  The collector stops what feeds the processor first.          *)
Shutdown ==
  /\ phase = "running"
  /\ \A c \in Calls : calls[c].at = "none"
  /\ phase' = "stopping"
  /\ UNCHANGED <<bufferVars, workerVars, calls, flush, spanVars>>

(* The worker has exited or the context has expired.                       *)
EveryTrace == {UnitOf(t) : t \in Traces}
NothingToFlush == {}
ToFlush == {UnitOf(t) : t \in {u \in Traces : buffers[u] # {}}}

TakeForFlush ==
  /\ phase = "stopping"
  /\ flush' = ToFlush
  /\ buffers' = [t \in Traces |-> {}] /\ seenAge' = [t \in Traces |-> 0]
  /\ sinceTaken' = [t \in Traces |-> IF buffers[t] # {} THEN 0 ELSE sinceTaken[t]]
  /\ phase' = "flushing"
  /\ UNCHANGED <<emitted, emittedAge, workerVars, calls, spanVars>>

Flush ==
  /\ phase = "flushing"
  /\ \/ \E u \in flush :
          /\ flush' = flush \ {u}
          /\ NextTakes(SpansIn({u})) \/ NextErrs(SpansIn({u}))
          /\ phase' = phase
     \/ flush = {} /\ phase' = "stopped" /\ UNCHANGED <<flush, delivered, dropped, errors>>
  /\ UNCHANGED <<bufferVars, workerVars, calls, accepted>>

(* Shut down: nothing runs any more.                                       *)
Stopped == phase = "stopped" /\ worker = "exited" /\ UNCHANGED vars

Next ==
  \/ Elapse
  \/ \E c \in Calls :
       \/ \E batch \in SUBSET (Incoming \ accepted) : Arrive(c, batch)
       \/ Buffer(c) \/ Forward(c) \/ Return(c)
  \/ SweepTimedOut \/ WorkerForwards \/ WorkerExits
  \/ Shutdown \/ TakeForFlush \/ Flush \/ Stopped

Spec == Init /\ [][Next]_vars

(* Goroutines that can run do, the next consumer returns, and the clock    *)
(* goes on.  Nothing makes anyone shut down or send more.                  *)
FairSpec ==
  /\ Spec
  /\ WF_vars(Elapse)
  /\ \A c \in Calls : WF_vars(Buffer(c)) /\ WF_vars(Forward(c))
  /\ WF_vars(SweepTimedOut) /\ WF_vars(WorkerForwards)
  /\ WF_vars(TakeForFlush) /\ WF_vars(Flush)

-----------------------------------------------------------------------------
TypeOK ==
  /\ buffers \in [Traces -> SUBSET Spans]
  /\ emitted \subseteq Traces
  /\ \A f \in {seenAge, emittedAge, sinceTaken} : f \in [Traces -> Age]
  /\ tick \in 0 .. NoTick /\ worker \in {"idle", "forwarding", "exited"}
  /\ sweep \subseteq Unit /\ flush \subseteq Unit
  /\ calls \in [Calls -> Call]
  /\ phase \in {"running", "stopping", "flushing", "stopped"}
  /\ accepted \subseteq Span /\ delivered \subseteq Span /\ dropped \subseteq Span
  /\ errors \in 0 .. MaxErrors

(* Where a span can be, besides settled.                                   *)
InCall(c) == calls[c].batch \cup calls[c].late \cup SpansIn(calls[c].whole)
Buffered == {x \in Span : x[2] \in buffers[x[1]]}

(* Everything the processor took is in exactly one place, in a call, in a  *)
(* buffer, with the worker or Shutdown, forwarded or given up after an     *)
(* error, however calls, sweeps and Shutdown interleave: no span is        *)
(* stranded, and none is forwarded twice.                                  *)
SpansConserved ==
  \A x \in accepted :
    Cardinality({c \in Calls : x \in InCall(c)})
      + Cardinality({p \in {1, 2, 3, 4, 5} :
                       x \in <<Buffered, SpansIn(sweep), SpansIn(flush), delivered, dropped>>[p]}) = 1

(* A trace in p.emitted has no buffer: what the root's arrival or a sweep  *)
(* took cannot be joined by spans that only a later sweep would forward.   *)
BufferedNotEmitted == \A t \in emitted : buffers[t] = {}

(* A step takes spans of t out of the buffers to forward them.             *)
Taking(t) ==
  \/ buffers[t] # {} /\ buffers'[t] = {}
  \/ \E c \in Calls : calls[c].at = "locking" /\ \E u \in calls'[c].whole : u.trace = t

(* A trace forwarded once is not forwarded again as a trace, but by late   *)
(* spans, for 2*trace_timeout (sweepTimedOut: "any legitimate late span    *)
(* arrives well within this window"); a clock read before the lock and a   *)
(* tick that waited take at most the stall away from that.                 *)
UnitsApart == [][\A t \in Traces : Taking(t) => sinceTaken[t] + MaxStall >= EmittedTtl]_vars

(* Every span is forwarded or given up after an error, although its root   *)
(* may never come, and whether or not a Shutdown intervenes: it leaves     *)
(* nothing behind.                                                         *)
EverySpanForwarded == \A x \in Span : x \in accepted ~> x \in delivered \cup dropped
=============================================================================
