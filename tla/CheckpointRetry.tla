-------------------------- MODULE CheckpointRetry ---------------------------
(***************************************************************************)
(* exporter.go shouldCheckpoint, nextCheckpointRetryAt and the bookkeeping *)
(* of writeCheckpoint: when a checkpoint that failed is tried again.       *)
(*                                                                         *)
(* A failed write keeps its tips pending, so the pending set grows during  *)
(* an outage and every retry signs all of it again.  A backoff on the      *)
(* pending count thins the retries; the pending cap stops that count from  *)
(* growing, and a floor on the time between attempts takes over.  Only     *)
(* counts matter here; which tips they are is AuditExporter's subject.     *)
(***************************************************************************)
EXTENDS Integers

CONSTANTS
  CheckpointInterval,  (* effectiveCheckpointInterval                      *)
  MaxPendingTips,      (* effectiveMaxPendingTips                          *)
  MaxRetryGap,         (* maxCheckpointRetryGap, 1024 in the code          *)
  MaxReplayed,         (* bound: tips a restart replays from the WAL       *)
  MaxStarts            (* bound: restarts                                  *)

(* Config.Validate refuses a cap below the interval.                       *)
ASSUME RetryAssumption ==
  /\ CheckpointInterval \in Nat \ {0}
  /\ MaxPendingTips \in Nat
  /\ MaxPendingTips >= CheckpointInterval
  /\ MaxRetryGap \in Nat \ {0}
  /\ MaxReplayed \in Nat
  /\ MaxStarts \in Nat

VARIABLES
  pending,     (* accumulator.PendingCount                                 *)
  retryAt,     (* checkpointRetryAt                                        *)
  failures,    (* checkpointFailures, 2 standing for two or more           *)
  capWarned,   (* pendingCapWarned: the cap has dropped a tip              *)
  cooled,      (* MinCheckpointRetryInterval has passed since the last     *)
               (* attempt                                                  *)
  poisoned,    (* checkpointPoisoned                                       *)
  diskOK,      (* the checkpoint file can be written                       *)
  staged,      (* history: tips signed by failed attempts since the last   *)
               (* success, up to the first trim                            *)
  starts       (* restarts so far                                          *)

vars == <<pending, retryAt, failures, capWarned, cooled, poisoned, diskOK,
          staged, starts>>

Least(a, b) == IF a <= b THEN a ELSE b

-----------------------------------------------------------------------------
(* The count at which a failed attempt is repeated: the next seal for the  *)
(* first failure, twice as many tips after that, at most MaxRetryGap more, *)
(* and never more than the pending set can hold.                           *)
Unclamped(count, failed) ==
  IF failed <= 1 THEN count + 1
  ELSE count + Least(count, MaxRetryGap)

NextRetryAt(count, failed) == Least(Unclamped(count, failed), MaxPendingTips)

(* n, w: the pending count and the warned flag at the time of asking.      *)
IntervalOnly(n, w) == n >= CheckpointInterval
ShouldCheckpoint(n, w) ==
  /\ n >= CheckpointInterval
  /\ n >= retryAt
  /\ w => cooled

-----------------------------------------------------------------------------
Init ==
  /\ pending = 0
  /\ retryAt = 0 /\ failures = 0
  /\ capWarned = FALSE /\ cooled = TRUE
  /\ poisoned = FALSE
  /\ diskOK = TRUE
  /\ staged = 0 /\ starts = 0

Attempted(failed, w) ==
  /\ failures' = failed
  /\ capWarned' = w
  /\ cooled' = FALSE

Succeed ==
  /\ diskOK
  /\ Attempted(0, FALSE)
  /\ pending' = 0
  /\ retryAt' = 0
  /\ staged' = 0
  /\ UNCHANGED poisoned

(* Rolled back, every tip stays.                                           *)
FailAndKeep(n, w) ==
  /\ ~diskOK
  /\ Attempted(Least(failures + 1, 2), w)
  /\ pending' = n
  /\ retryAt' = NextRetryAt(n, failures')
  /\ staged' = IF w THEN staged ELSE staged + n
  /\ UNCHANGED poisoned

(* The rollback fails too: no checkpoint can be written any more, and the  *)
(* tips are dropped before the deferred bookkeeping counts them.           *)
FailAndPoison(n, w) ==
  /\ ~diskOK
  /\ Attempted(Least(failures + 1, 2), w)
  /\ poisoned' = TRUE
  /\ pending' = 0
  /\ retryAt' = NextRetryAt(0, failures')
  /\ staged' = 0

(* What sealTrace does with its tip: add it, trim the oldest when the cap  *)
(* is exceeded, and attempt a checkpoint when one is due.  After poisoning *)
(* it only counts its trace as uncovered.                                  *)
Untrimmed(n) == n
Trimmed(n) == Least(n, MaxPendingTips)

Seal ==
  /\ ~poisoned
  /\ LET n == Trimmed(pending + 1)
         w == capWarned \/ pending + 1 > MaxPendingTips
     IN  IF ShouldCheckpoint(n, w)
         THEN Succeed \/ FailAndKeep(n, w) \/ FailAndPoison(n, w)
         ELSE /\ pending' = n
              /\ capWarned' = w
              /\ UNCHANGED <<retryAt, failures, cooled, poisoned, staged>>
  /\ UNCHANGED <<diskOK, starts>>

TimePasses ==
  /\ ~cooled
  /\ cooled' = TRUE
  /\ UNCHANGED <<pending, retryAt, failures, capWarned, poisoned, diskOK, staged,
                 starts>>

DiskChanges ==
  /\ diskOK' = ~diskOK
  /\ UNCHANGED <<pending, retryAt, failures, capWarned, cooled, poisoned, staged,
                 starts>>

(* The bookkeeping lives in memory only.  Start re-adds the tips the WAL   *)
(* replays, without trimming them.                                         *)
Restart ==
  /\ starts < MaxStarts
  /\ starts' = starts + 1
  /\ pending' \in 0 .. MaxReplayed
  /\ retryAt' = 0 /\ failures' = 0
  /\ capWarned' = FALSE /\ cooled' = TRUE
  /\ poisoned' = FALSE
  /\ staged' = 0
  /\ UNCHANGED diskOK

Next == Seal \/ TimePasses \/ DiskChanges \/ Restart

Spec == Init /\ [][Next]_vars

(* Recovery is promised only while traces keep being sealed; time passes.  *)
FairSpec == Spec /\ WF_vars(Seal) /\ WF_vars(TimePasses)

-----------------------------------------------------------------------------
(* Types; the pending set stays within its cap unless a restart brought    *)
(* more.                                                                   *)
TypeOK ==
  /\ pending \in Nat /\ (pending <= MaxPendingTips \/ pending <= MaxReplayed)
  /\ retryAt \in Nat
  /\ failures \in 0 .. 2
  /\ capWarned \in BOOLEAN /\ cooled \in BOOLEAN /\ poisoned \in BOOLEAN
  /\ diskOK \in BOOLEAN
  /\ staged \in Nat
  /\ starts \in 0 .. MaxStarts

(* "pending sitting at the cap always qualifies for a retry"               *)
(* (nextCheckpointRetryAt): the target never moves out of reach, and once  *)
(* the cap drops tips only the time floor stands between a seal and the    *)
(* next attempt, however the failures, seals and restarts interleaved.     *)
RetryWithinReach ==
  /\ retryAt <= MaxPendingTips
  /\ capWarned /\ ~poisoned => pending = MaxPendingTips

(* The backoff keeps the work wasted on a failing file proportionate: up   *)
(* to the cap, the tips signed in vain since the last success are at most  *)
(* three times those pending, plus the quadratic term the retry gap lets   *)
(* in ("near O(n log n)", shouldCheckpoint).                               *)
WastedWorkBounded ==
  ~capWarned => staged <= 3 * pending + (pending * pending) \div MaxRetryGap

(* Once the file can be written for good, the pending set is drained again *)
(* and again, also when the outage lasted past the cap, unless the process *)
(* has given checkpoints up ("recovery is still detected").                *)
RecoveryDetected ==
  <>[]diskOK => []<>(poisoned \/ pending = 0)
=============================================================================
