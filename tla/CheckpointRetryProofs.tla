----------------------- MODULE CheckpointRetryProofs ------------------------
(***************************************************************************)
(* For every interval, cap and retry gap that Config.Validate accepts: the *)
(* retry bookkeeping is well typed, the retry target stays within the      *)
(* reach of the pending set, and the backoff bounds the work that a        *)
(* failing file wastes.                                                    *)
(***************************************************************************)
EXTENDS CheckpointRetry, TLAPS

(* The target of a retry is a count the pending set can reach.             *)
LEMMA RetryTarget ==
  ASSUME NEW count \in Nat, NEW failed \in 0 .. 2
  PROVE  NextRetryAt(count, failed) \in 0 .. MaxPendingTips
BY RetryAssumption DEF NextRetryAt, Unclamped, Least

(* TypeOK in two parts, one per prover: the flags and the counters.        *)
FlagsOK ==
  /\ capWarned \in BOOLEAN /\ cooled \in BOOLEAN /\ poisoned \in BOOLEAN
  /\ diskOK \in BOOLEAN

CountersOK ==
  /\ pending \in Nat /\ (pending <= MaxPendingTips \/ pending <= MaxReplayed)
  /\ retryAt \in Nat
  /\ failures \in 0 .. 2
  /\ staged \in Nat
  /\ starts \in 0 .. MaxStarts

LEMMA FlagsStep ==
  ASSUME FlagsOK, [Next]_vars
  PROVE  FlagsOK'
<1>1. CASE Seal
  <2>1. (capWarned \/ pending + 1 > MaxPendingTips) \in BOOLEAN
    OBVIOUS
  <2>2. QED
    BY <1>1, <2>1, Zenon
       DEF FlagsOK, Seal, Succeed, FailAndKeep, FailAndPoison, Attempted
<1>2. CASE TimePasses \/ DiskChanges \/ Restart \/ UNCHANGED vars
  BY <1>2, Zenon DEF FlagsOK, TimePasses, DiskChanges, Restart, vars
<1>3. QED
  BY <1>1, <1>2 DEF Next

LEMMA CountersStep ==
  ASSUME FlagsOK, CountersOK, [Next]_vars
  PROVE  CountersOK'
<1> USE RetryAssumption DEF CountersOK
<1>1. CASE Seal
  <2> DEFINE n == Trimmed(pending + 1)
             w == capWarned \/ pending + 1 > MaxPendingTips
  <2>1. n \in Nat /\ n <= MaxPendingTips
    BY DEF Trimmed, Least
  <2>2. Least(failures + 1, 2) \in 0 .. 2
    BY DEF Least
  <2> HIDE DEF n, w
  <2>3. CASE ~ShouldCheckpoint(n, w)
    BY <1>1, <2>1, <2>3 DEF Seal, n, w
  <2>4. CASE Succeed
    BY <1>1, <2>4 DEF Seal, Succeed, Attempted
  <2>5. CASE FailAndKeep(n, w)
    <3>1. retryAt' \in Nat /\ failures' \in 0 .. 2
      BY <2>1, <2>2, <2>5, RetryTarget DEF FailAndKeep, Attempted
    <3>2. QED
      BY <1>1, <2>1, <2>5, <3>1 DEF Seal, FailAndKeep, Attempted
  <2>6. CASE FailAndPoison(n, w)
    <3>1. retryAt' \in Nat /\ failures' \in 0 .. 2
      BY <2>2, <2>6, RetryTarget DEF FailAndPoison, Attempted
    <3>2. QED
      BY <1>1, <2>1, <2>6, <3>1 DEF Seal, FailAndPoison, Attempted
  <2>7. QED
    BY <1>1, <2>3, <2>4, <2>5, <2>6 DEF Seal, n, w
<1>2. CASE TimePasses \/ DiskChanges \/ UNCHANGED vars
  BY <1>2 DEF TimePasses, DiskChanges, vars
<1>3. CASE Restart
  BY <1>3 DEF Restart
<1>4. QED
  BY <1>1, <1>2, <1>3 DEF Next

LEMMA TypesInit == Init => FlagsOK /\ CountersOK
<1>1. Init => FlagsOK
  BY Zenon DEF Init, FlagsOK
<1>2. Init => CountersOK
  BY RetryAssumption DEF Init, CountersOK
<1>3. QED
  BY <1>1, <1>2

(* Types hold in every reachable state (the counters of exporter.go).      *)
THEOREM TypeCorrect == Spec => []TypeOK
<1>1. FlagsOK /\ CountersOK /\ [Next]_vars => (FlagsOK /\ CountersOK)'
  BY FlagsStep, CountersStep
<1>2. FlagsOK /\ CountersOK => TypeOK
  BY DEF FlagsOK, CountersOK, TypeOK
<1>3. QED
  BY TypesInit, <1>1, <1>2, PTL DEF Spec

(* sealTrace sets the target only after a failed attempt, and there clamps *)
(* it; AddTip trims the set to the cap exactly when it drops a tip.        *)
LEMMA SealWithinReach ==
  ASSUME FlagsOK, CountersOK, RetryWithinReach, Seal
  PROVE  RetryWithinReach'
<1> USE RetryAssumption DEF CountersOK, RetryWithinReach
<1> DEFINE n == Trimmed(pending + 1)
           w == capWarned \/ pending + 1 > MaxPendingTips
<1>1. n \in Nat /\ (w => n = MaxPendingTips)
  BY DEF Seal, Trimmed, Least
<1>2. Least(failures + 1, 2) \in 0 .. 2
  BY DEF Least
<1> HIDE DEF n, w
<1>3. CASE ~ShouldCheckpoint(n, w)
  BY <1>1, <1>3 DEF Seal, n, w
<1>4. CASE Succeed
  BY <1>4 DEF Succeed, Attempted
<1>5. CASE FailAndKeep(n, w) \/ FailAndPoison(n, w)
  <2>1. retryAt' \in 0 .. MaxPendingTips
    BY <1>1, <1>2, <1>5, RetryTarget DEF FailAndKeep, FailAndPoison, Attempted
  <2>2. capWarned' /\ ~poisoned' => pending' = MaxPendingTips
    BY <1>1, <1>5 DEF FailAndKeep, FailAndPoison, Attempted
  <2>3. QED
    BY <2>1, <2>2
<1>6. QED
  BY <1>3, <1>4, <1>5 DEF Seal, n, w

(* The retry target never moves out of reach, and a pending set whose cap  *)
(* has dropped tips is exactly full: a seal can always become an attempt   *)
(* (nextCheckpointRetryAt's clamp).                                        *)
THEOREM TargetStaysWithinReach == Spec => []RetryWithinReach
<1> DEFINE Reach == FlagsOK /\ CountersOK /\ RetryWithinReach
<1>1. Init => Reach
  BY TypesInit, RetryAssumption DEF Init, RetryWithinReach
<1>2. Reach /\ [Next]_vars => Reach'
  <2> SUFFICES ASSUME Reach, [Next]_vars
               PROVE  Reach'
    OBVIOUS
  <2>1. FlagsOK' /\ CountersOK'
    BY FlagsStep, CountersStep
  <2>2. CASE Restart
    BY <2>1, <2>2, RetryAssumption DEF Restart, RetryWithinReach
  <2>3. CASE UNCHANGED <<pending, retryAt, capWarned, poisoned>>
    BY <2>1, <2>3 DEF RetryWithinReach
  <2>4. QED
    BY <2>1, <2>2, <2>3, SealWithinReach
       DEF Next, TimePasses, DiskChanges, vars
<1>3. QED
  BY <1>1, <1>2, PTL DEF Spec

-----------------------------------------------------------------------------
(* How much a failing file makes the exporter sign in vain.                *)

(* The quadratic term of the bound, for an attempt at n tips.              *)
Quadratic(n) == (n * n) \div MaxRetryGap

LEMMA Quotient ==
  ASSUME NEW x \in Nat, NEW d \in Nat \ {0}
  PROVE  x \div d \in Nat /\ d * (x \div d) <= x /\ x < d * (x \div d) + d
OBVIOUS

LEMMA QuotientIs ==
  ASSUME NEW x \in Nat, NEW d \in Nat \ {0}, NEW q \in Nat, d * q <= x
  PROVE  q <= x \div d
<1>1. x \div d \in Nat /\ x < d * ((x \div d) + 1)
  BY Quotient
<1>2. d * q < d * ((x \div d) + 1)
  BY <1>1
<1> DEFINE r == x \div d
<1> HIDE DEF r
<1>3. r \in Nat /\ d * q < d * (r + 1)
  BY <1>1, <1>2 DEF r
<1>4. q < r + 1
  <2>1. SUFFICES ASSUME q >= r + 1 PROVE FALSE
    BY <1>3
  <2>2. d * q >= d * (r + 1)
    BY <1>3, <2>1
  <2>3. QED
    BY <1>3, <2>2
<1>5. QED
  BY <1>3, <1>4 DEF r

LEMMA QuadraticGrows ==
  ASSUME NEW a \in Nat, NEW n \in Nat, a <= n
  PROVE  /\ Quadratic(a) \in Nat /\ Quadratic(n) \in Nat
         /\ Quadratic(a) <= Quadratic(n)
         /\ n >= a + MaxRetryGap => Quadratic(a) + 2 * a + MaxRetryGap <= Quadratic(n)
<1> DEFINE R == MaxRetryGap
           q == (a * a) \div R
<1>0. R \in Nat \ {0}
  BY RetryAssumption
<1>1. a * a \in Nat /\ n * n \in Nat /\ a * a <= n * n
  OBVIOUS
<1> HIDE DEF R
<1>2. q \in Nat /\ R * q <= a * a /\ (n * n) \div R \in Nat
  BY <1>0, <1>1, Quotient
<1> HIDE DEF q
<1>3. q <= (n * n) \div R
  BY <1>0, <1>1, <1>2, QuotientIs
<1>4. ASSUME n >= a + R
      PROVE  q + 2 * a + R <= (n * n) \div R
  <2>1. n * n >= (a + R) * (a + R)
    BY <1>0, <1>4
  <2>2. (a + R) * (a + R) = a * a + R * (2 * a + R)
    BY <1>0
  <2>3. R * (q + (2 * a + R)) = R * q + R * (2 * a + R)
    BY <1>0, <1>2
  <2>4. q + (2 * a + R) \in Nat /\ R * (2 * a + R) \in Nat /\ R * q \in Nat
    BY <1>0, <1>2
  <2>5. R * (q + (2 * a + R)) <= n * n
    BY <1>1, <1>2, <2>1, <2>2, <2>3, <2>4
  <2>6. q + (2 * a + R) <= (n * n) \div R
    BY <1>0, <1>1, <2>4, <2>5, QuotientIs
  <2>7. QED
    BY <1>0, <1>2, <2>6
<1>5. QED
  BY <1>2, <1>3, <1>4 DEF Quadratic, q, R

(* What the last failed attempt, at a pending tips, has left: the first    *)
(* failure, later ones, or an attempt that the cap allowed early, which    *)
(* the next seal follows by trimming.                                      *)
AttemptedAt(a) ==
  \/ failures = 0 /\ staged = 0
  \/ failures = 1 /\ staged <= a /\ retryAt = Least(a + 1, MaxPendingTips)
  \/ /\ failures = 2 /\ staged <= 2 * a + Quadratic(a)
     /\ retryAt = Least(a + Least(a, MaxRetryGap), MaxPendingTips)
  \/ a = MaxPendingTips /\ staged <= 3 * a + Quadratic(a)

AttemptsThinned ==
  ~capWarned => \E a \in Nat : a <= pending /\ AttemptedAt(a)

(* One more failed attempt, at n tips, the retry target having been met.   *)
LEMMA AttemptsAdd ==
  ASSUME CountersOK, NEW a \in Nat, NEW n \in Nat, a < n, n <= MaxPendingTips, n >= retryAt,
         AttemptedAt(a), failures' = Least(failures + 1, 2), staged' = staged + n,
         retryAt' = NextRetryAt(n, failures')
  PROVE  AttemptedAt(n)'
<1> USE RetryAssumption DEF CountersOK
<1> DEFINE A == Quadratic(a)
           N == Quadratic(n)
<1>1. /\ A \in Nat /\ N \in Nat /\ A <= N
      /\ n >= a + MaxRetryGap => A + 2 * a + MaxRetryGap <= N
  BY QuadraticGrows
<1>2. CASE failures = 0 /\ staged = 0
  BY <1>2 DEF AttemptedAt, NextRetryAt, Unclamped, Least
<1>3. failures # 0 => failures' = 2 /\ retryAt' = Least(n + Least(n, MaxRetryGap), MaxPendingTips)
  BY DEF NextRetryAt, Unclamped, Least
<1> HIDE DEF A, N
<1>4. CASE failures = 1 /\ staged <= a
  <2>1. staged' <= 2 * n + N
    BY <1>1, <1>4
  <2>2. QED
    BY <1>3, <1>4, <2>1 DEF AttemptedAt, N, Quadratic
<1>5. CASE /\ failures = 2 /\ staged <= 2 * a + A
           /\ retryAt = Least(a + Least(a, MaxRetryGap), MaxPendingTips)
  <2>1. CASE n >= a + a
    <3>1. staged' <= 2 * n + N
      BY <1>1, <1>5, <2>1
    <3>2. QED
      BY <1>3, <1>5, <3>1 DEF AttemptedAt, N, Quadratic
  <2>2. CASE n >= a + MaxRetryGap
    <3>1. staged' <= 2 * n + N
      BY <1>1, <1>5, <2>2
    <3>2. QED
      BY <1>3, <1>5, <3>1 DEF AttemptedAt, N, Quadratic
  <2>3. CASE n = MaxPendingTips
    <3>1. staged' <= 3 * n + N
      BY <1>1, <1>5
    <3>2. QED
      BY <2>3, <3>1 DEF AttemptedAt, N, Quadratic
  <2>4. QED
    BY <1>5, <2>1, <2>2, <2>3 DEF Least
<1>6. QED
  BY <1>2, <1>4, <1>5 DEF AttemptedAt, A

LEMMA AttemptsSeal ==
  ASSUME FlagsOK, CountersOK, AttemptsThinned, Seal
  PROVE  AttemptsThinned'
<1> USE RetryAssumption DEF CountersOK
<1> DEFINE n == Trimmed(pending + 1)
           w == capWarned \/ pending + 1 > MaxPendingTips
<1>1. CASE capWarned'
  BY <1>1 DEF AttemptsThinned
<1>2. CASE ~ShouldCheckpoint(n, w) /\ ~capWarned'
  <2>1. ~w /\ n = pending + 1 /\ pending' = n /\ UNCHANGED <<retryAt, failures, staged>>
    <3> HIDE DEF n, w
    <3>1. capWarned' = w /\ pending' = n /\ UNCHANGED <<retryAt, failures, staged>>
      BY <1>2 DEF Seal, n, w
    <3>2. ~w
      BY <1>2, <3>1
    <3>3. n = pending + 1
      BY <3>2 DEF n, w, Trimmed, Least
    <3>4. QED
      BY <3>1, <3>2, <3>3
  <2>2. PICK a \in Nat : a <= pending /\ AttemptedAt(a)
    BY <2>1 DEF AttemptsThinned
  <2>3. AttemptedAt(a)' /\ a <= pending'
    BY <2>1, <2>2 DEF AttemptedAt
  <2>4. QED
    BY <2>3 DEF AttemptsThinned
<1>3. CASE Succeed
  <2>1. failures' = 0 /\ staged' = 0 /\ pending' = 0
    BY <1>3 DEF Succeed, Attempted
  <2>2. AttemptedAt(0)' /\ 0 <= pending'
    BY <2>1 DEF AttemptedAt
  <2>3. QED
    BY <2>2 DEF AttemptsThinned
<1>4. CASE ShouldCheckpoint(n, w) /\ FailAndKeep(n, w) /\ ~capWarned'
  <2>1. ~w
    BY <1>4 DEF FailAndKeep, Attempted
  <2>2. PICK m \in Nat : m = pending + 1
    OBVIOUS
  <2>3. n = m /\ m <= MaxPendingTips
    BY <2>1, <2>2 DEF Trimmed, Least
  <2>4. PICK a \in Nat : a <= pending /\ AttemptedAt(a)
    BY <2>1 DEF AttemptsThinned
  <2> HIDE DEF n, w
  <2>5. /\ failures' = Least(failures + 1, 2) /\ staged' = staged + m /\ pending' = m
        /\ retryAt' = NextRetryAt(m, failures') /\ m >= retryAt
    BY <1>4, <2>1, <2>3 DEF FailAndKeep, Attempted, ShouldCheckpoint
  <2>6. a < m
    BY <2>2, <2>4
  <2>7. AttemptedAt(m)'
    BY <2>3, <2>4, <2>5, <2>6, AttemptsAdd
  <2>8. m <= pending'
    BY <2>5
  <2>9. QED
    BY <2>7, <2>8 DEF AttemptsThinned
<1>5. CASE FailAndPoison(n, w)
  <2>1. /\ failures' = Least(failures + 1, 2) /\ staged' = 0 /\ pending' = 0
        /\ retryAt' = NextRetryAt(0, failures')
    BY <1>5 DEF FailAndPoison, Attempted
  <2>2. Quadratic(0) \in Nat
    BY QuadraticGrows
  <2>3. AttemptedAt(0)' /\ 0 <= pending'
    BY <2>1, <2>2 DEF AttemptedAt, NextRetryAt, Unclamped, Least, Quadratic
  <2>4. QED
    BY <2>3 DEF AttemptsThinned
<1>6. QED
  BY <1>1, <1>2, <1>3, <1>4, <1>5 DEF Seal

(* The backoff keeps the work a failing file wastes near linear in the     *)
(* pending tips (shouldCheckpoint's "near O(n log n)"), whatever interval, *)
(* cap and gap are configured.                                             *)
THEOREM BackoffThinsRetries == Spec => []WastedWorkBounded
<1>1. Init => AttemptsThinned
  <2>1. Init => AttemptedAt(0) /\ 0 <= pending
    BY DEF Init, AttemptedAt
  <2>2. QED
    BY <2>1 DEF AttemptsThinned
<1>2. FlagsOK /\ CountersOK /\ AttemptsThinned /\ [Next]_vars => AttemptsThinned'
  <2> SUFFICES ASSUME FlagsOK, CountersOK, AttemptsThinned, [Next]_vars
               PROVE  AttemptsThinned'
    OBVIOUS
  <2>1. CASE TimePasses \/ DiskChanges \/ UNCHANGED vars
    <3>1. UNCHANGED <<pending, failures, staged, retryAt, capWarned>>
      BY <2>1 DEF TimePasses, DiskChanges, vars
    <3>2. QED
      BY <3>1 DEF AttemptsThinned, AttemptedAt, Quadratic
  <2>2. CASE Restart
    <3>1. failures' = 0 /\ staged' = 0 /\ pending' \in Nat
      BY <2>2, RetryAssumption DEF Restart
    <3>2. AttemptedAt(0)' /\ 0 <= pending'
      BY <3>1 DEF AttemptedAt
    <3>3. QED
      BY <3>2 DEF AttemptsThinned
  <2>3. QED
    BY <2>1, <2>2, AttemptsSeal DEF Next
<1>3. CountersOK /\ AttemptsThinned => WastedWorkBounded
  <2> SUFFICES ASSUME CountersOK, NEW a \in Nat, a <= pending, AttemptedAt(a)
               PROVE  staged <= 3 * pending + Quadratic(pending)
    BY DEF AttemptsThinned, WastedWorkBounded, Quadratic
  <2>1. Quadratic(a) \in Nat /\ Quadratic(pending) \in Nat /\ Quadratic(a) <= Quadratic(pending)
    BY QuadraticGrows DEF CountersOK
  <2>2. staged <= 3 * a + Quadratic(a)
    BY <2>1 DEF AttemptedAt, CountersOK
  <2>3. QED
    BY <2>1, <2>2 DEF CountersOK
<1>4. FlagsOK /\ CountersOK /\ [Next]_vars => FlagsOK' /\ CountersOK'
  BY FlagsStep, CountersStep
<1>5. QED
  BY TypesInit, <1>1, <1>2, <1>3, <1>4, PTL DEF Spec
=============================================================================
