------------------------ MODULE WriteAheadLogProofs -------------------------
(***************************************************************************)
(* Theorems about WriteAheadLog for any traces, records and hashes and any *)
(* length of the file: what Replay and Compact compute from a file, what   *)
(* stays durable across crashes and power loss, and that the file          *)
(* implements WalStore.                                                    *)
(*                                                                         *)
(* Replay, Compact and Select are folds.  A fold of a sequence is the last *)
(* row of a table with a row for every set of places (Runs); the table     *)
(* exists (TableExists), and one element more is one step more             *)
(* (RunsLonger).  Induction over a file is stated with a set: a set that   *)
(* has the empty file and, with a file, every file one line longer, has    *)
(* all files (AllSequences).                                               *)
(***************************************************************************)
EXTENDS WriteAheadLog, WellFoundedInduction, TLAPS

-----------------------------------------------------------------------------
(* Induction, with sets for predicates.                                    *)

LEMMA Smallest ==
  ASSUME NEW T \in SUBSET Nat, T # {}
  PROVE  \E x \in T : \A y \in T : x <= y
<1>1. PICK x \in T : \A y \in T : ~(<<y, x>> \in OpToRel(<, Nat))
  BY NatLessThanWellFounded, WFMin
<1>2. \A y \in T : ~(y < x)
  BY <1>1 DEF OpToRel
<1>3. QED
  BY <1>2

LEMMA AllNumbers ==
  ASSUME NEW N, 0 \in N, \A n \in Nat : n \in N => n + 1 \in N
  PROVE  \A n \in Nat : n \in N
<1>1. SUFFICES ASSUME Nat \ N # {} PROVE FALSE
  OBVIOUS
<1>2. PICK x \in Nat \ N : \A y \in Nat \ N : x <= y
  BY <1>1, Smallest
<1>3. x # 0 /\ x - 1 \in Nat /\ x - 1 \in N
  BY <1>2
<1>4. QED
  BY <1>2, <1>3

LEMMA AllSequences ==
  ASSUME NEW S, NEW G, <<>> \in G,
         \A s \in Seq(S), x \in S : s \in G => Append(s, x) \in G
  PROVE  \A s \in Seq(S) : s \in G
<1> DEFINE N == {n \in Nat : \A s \in Seq(S) : Len(s) = n => s \in G}
<1>1. 0 \in N
  <2>1. \A s \in Seq(S) : Len(s) = 0 => s = <<>>
    OBVIOUS
  <2>2. QED
    BY <2>1
<1>2. ASSUME NEW n \in Nat, n \in N
      PROVE  n + 1 \in N
  <2>1. ASSUME NEW s \in Seq(S), Len(s) = n + 1
        PROVE  s \in G
    <3>1. /\ SubSeq(s, 1, n) \in Seq(S) /\ Len(SubSeq(s, 1, n)) = n
          /\ s[n + 1] \in S
      BY <2>1
    <3>2. s = Append(SubSeq(s, 1, n), s[n + 1])
      BY <2>1
    <3>3. PICK front \in Seq(S), x \in S : front = SubSeq(s, 1, n) /\ x = s[n + 1]
      BY <3>1
    <3>4. front \in G
      BY <1>2, <3>1, <3>3
    <3>5. QED
      BY <3>2, <3>3, <3>4
  <2>2. QED
    BY <2>1
<1> HIDE DEF N
<1>3. \A n \in Nat : n \in N
  BY <1>1, <1>2, AllNumbers
<1>4. QED
  BY <1>3 DEF N

LEMMA Greatest ==
  ASSUME NEW n \in Nat, NEW s \in SUBSET (0 .. n), s # {}
  PROVE  Max(s) \in s /\ \A y \in s : y <= Max(s)
<1> DEFINE B == {m \in Nat : \A y \in s : y <= m}
<1>1. n \in B
  OBVIOUS
<1>2. PICK m \in B : \A y \in B : m <= y
  BY <1>1, Smallest
<1>3. m \in s
  <2>1. SUFFICES ASSUME m \notin s PROVE FALSE
    OBVIOUS
  <2>2. \A y \in s : y < m
    BY <1>2, <2>1
  <2>3. \A y \in s : y \in Nat
    OBVIOUS
  <2>4. m \in Nat /\ m - 1 \in Nat
    <3>1. PICK y \in s : y \in Nat /\ y < m
      BY <2>2, <2>3
    <3>2. QED
      BY <1>2, <3>1
  <2>5. m - 1 \in B
    <3>1. \A y \in s : y <= m - 1
      BY <2>2, <2>3, <2>4
    <3>2. QED
      BY <2>4, <3>1
  <2>6. QED
    BY <1>2, <2>4, <2>5
<1>4. \E x \in s : \A y \in s : x >= y
  BY <1>2, <1>3
<1>5. Max(s) \in s /\ \A y \in s : Max(s) >= y
  BY <1>4 DEF Max
<1>6. QED
  BY <1>5

(* The table a fold makes of a sequence exists: MapThenFoldSet's iter.     *)
RowOf(base, o, f, g, s) == IF s = {} THEN base ELSE o[<<g[s \ {Max(s)}], f[Max(s)]>>]
IsTable(base, o, f, n, g) == \A s \in SUBSET (1 .. n) : g[s] = RowOf(base, o, f, g, s)

HasTable(A, base, o, f, n) ==
  n <= Len(f) => \E g \in [SUBSET (1 .. n) -> A] : IsTable(base, o, f, n, g)

LEMMA TableExists ==
  ASSUME NEW A, NEW base \in A, NEW X, NEW o \in [A \X X -> A], NEW f \in Seq(X)
  PROVE  \E g \in [SUBSET (1 .. Len(f)) -> A] : IsTable(base, o, f, Len(f), g)
<1> DEFINE N == {n \in Nat : HasTable(A, base, o, f, n)}
<1>1. 0 \in N
  <2> DEFINE g == [s \in SUBSET (1 .. 0) |-> base]
  <2>1. g \in [SUBSET (1 .. 0) -> A] /\ \A s \in SUBSET (1 .. 0) : s = {} /\ g[s] = base
    OBVIOUS
  <2> HIDE DEF g
  <2>2. IsTable(base, o, f, 0, g)
    BY <2>1 DEF IsTable, RowOf
  <2>3. \E x \in [SUBSET (1 .. 0) -> A] : IsTable(base, o, f, 0, x)
    BY <2>1, <2>2
  <2>4. QED
    BY <2>3 DEF HasTable
<1>2. ASSUME NEW n \in Nat, n \in N, n + 1 <= Len(f)
      PROVE  \E g \in [SUBSET (1 .. n + 1) -> A] : IsTable(base, o, f, n + 1, g)
  <2>1. PICK h \in [SUBSET (1 .. n) -> A] : IsTable(base, o, f, n, h)
    <3>1. HasTable(A, base, o, f, n) /\ n <= Len(f)
      BY <1>2
    <3> HIDE DEF N
    <3>2. QED
      BY <3>1 DEF HasTable
  <2> DEFINE last == n + 1
             g == [s \in SUBSET (1 .. last) |->
                     IF last \in s THEN o[<<h[s \ {last}], f[last]>>] ELSE h[s]]
  <2>2. \A s \in SUBSET (1 .. last) :
          /\ s \ {last} \in SUBSET (1 .. n) /\ s \ {last} \in SUBSET (1 .. last)
          /\ last \notin s => s \in SUBSET (1 .. n)
    OBVIOUS
  <2>3. f[last] \in X
    BY <1>2
  <2>4. g \in [SUBSET (1 .. last) -> A]
    BY <2>2, <2>3
  <2>5. \A s \in SUBSET (1 .. last) :
          g[s] = IF last \in s THEN o[<<h[s \ {last}], f[last]>>] ELSE h[s]
    OBVIOUS
  <2>6. last \in Nat /\ \A s \in SUBSET (1 .. n) : s \in SUBSET (1 .. last) /\ last \notin s
    OBVIOUS
  <2> HIDE DEF g, last
  <2>7. ASSUME NEW s \in SUBSET (1 .. last)
        PROVE  g[s] = RowOf(base, o, f, g, s)
    <3>1. CASE last \in s
      <4>1. s \in SUBSET (0 .. last) /\ s # {}
        BY <3>1
      <4>2. Max(s) \in s /\ last <= Max(s)
        BY <2>6, <3>1, <4>1, Greatest
      <4>3. Max(s) = last
        <5>1. Max(s) \in 1 .. last
          BY <4>2
        <5>2. QED
          BY <2>6, <4>2, <5>1
      <4>4. g[s \ {last}] = h[s \ {last}]
        BY <2>2, <2>5
      <4>5. g[s] = o[<<h[s \ {last}], f[last]>>]
        BY <2>5, <3>1
      <4>6. QED
        BY <4>1, <4>3, <4>4, <4>5 DEF RowOf
    <3>2. CASE last \notin s
      <4>1. s \in SUBSET (1 .. n) /\ s \ {Max(s)} \in SUBSET (1 .. n)
        BY <2>2, <3>2
      <4>2. g[s] = h[s] /\ g[s \ {Max(s)}] = h[s \ {Max(s)}]
        BY <2>5, <2>6, <4>1
      <4>3. QED
        BY <2>1, <4>1, <4>2 DEF IsTable, RowOf
    <3>3. QED
      BY <3>1, <3>2
  <2>8. IsTable(base, o, f, last, g)
    BY <2>7 DEF IsTable
  <2>9. QED
    BY <2>4, <2>8 DEF last
<1>3. \A n \in Nat : n \in N
  <2>1. ASSUME NEW n \in Nat, n \in N
        PROVE  n + 1 \in N
    <3>1. n + 1 <= Len(f) => \E g \in [SUBSET (1 .. n + 1) -> A] : IsTable(base, o, f, n + 1, g)
      BY <1>2, <2>1
    <3>2. HasTable(A, base, o, f, n + 1)
      BY <3>1 DEF HasTable
    <3>3. QED
      BY <3>2
  <2> HIDE DEF N
  <2>2. QED
    BY <1>1, <2>1, AllNumbers
<1>4. Len(f) \in N
  <2> HIDE DEF N
  <2>1. QED
    BY <1>3
<1>5. HasTable(A, base, o, f, Len(f)) /\ Len(f) \in Nat
  BY <1>4
<1> HIDE DEF N
<1>6. Len(f) <= Len(f)
  BY <1>5
<1>7. QED
  BY <1>5, <1>6, Zenon DEF HasTable

(* The rows of a table that a fold passes through.                         *)
LEMMA Passed ==
  ASSUME NEW n \in Nat, NEW k \in 1 .. n
  PROVE  /\ 1 .. k \in SUBSET (1 .. n) /\ 1 .. k # {}
         /\ Max(1 .. k) = k /\ (1 .. k) \ {Max(1 .. k)} = 1 .. k - 1
<1>1. 1 .. k \in SUBSET (0 .. k) /\ 1 .. k # {} /\ k \in Nat /\ k \in 1 .. k
  OBVIOUS
<1>2. Max(1 .. k) \in 1 .. k /\ k <= Max(1 .. k)
  BY <1>1, Greatest
<1>3. Max(1 .. k) = k
  <2>1. \A m \in 1 .. k : k <= m => m = k
    OBVIOUS
  <2>2. QED
    BY <1>2, <2>1
<1>4. (1 .. k) \ {k} = 1 .. k - 1 /\ 1 .. k \in SUBSET (1 .. n)
  OBVIOUS
<1>5. QED
  BY <1>1, <1>3, <1>4

LEMMA RowElement ==
  ASSUME NEW X, NEW f \in Seq(X), NEW s \in SUBSET (1 .. Len(f)), s # {}
  PROVE  /\ f[Max(s)] \in X /\ s \ {Max(s)} \in SUBSET (1 .. Len(f))
<1>1. Len(f) \in Nat /\ s \in SUBSET (0 .. Len(f))
  OBVIOUS
<1>2. Max(s) \in 1 .. Len(f)
  BY <1>1, Greatest
<1>3. \A m \in 1 .. Len(f) : f[m] \in X
  OBVIOUS
<1>4. QED
  BY <1>2, <1>3

LEMMA Longer ==
  ASSUME NEW X, NEW f \in Seq(X), NEW x \in X
  PROVE  /\ Append(f, x) \in Seq(X) /\ Len(Append(f, x)) = Len(f) + 1
         /\ DOMAIN f = 1 .. Len(f) /\ Len(f) \in Nat
         /\ DOMAIN Append(f, x) = 1 .. Len(f) + 1
         /\ Append(f, x)[Len(f) + 1] = x
         /\ \A i \in 1 .. Len(f) : Append(f, x)[i] = f[i]
OBVIOUS

(* g gives, for a set s of places of f, the fold of f's elements there.    *)
Runs(A, base, o, f, g) ==
  /\ g[{}] = base
  /\ \A s \in SUBSET (DOMAIN f) :
       s # {} /\ g[s \ {Max(s)}] \in A => g[s] = o[<<g[s \ {Max(s)}], f[Max(s)]>>]

OneStep(o, f, g, k) == g[1 .. k + 1] = o[<<g[1 .. k], f[k + 1]>>]

LEMMA Step ==
  ASSUME NEW A, NEW base \in A, NEW X, NEW o \in [A \X X -> A], NEW f \in Seq(X), NEW g,
         Runs(A, base, o, f, g), NEW k \in Nat, k + 1 <= Len(f), g[1 .. k] \in A
  PROVE  OneStep(o, f, g, k) /\ g[1 .. k + 1] \in A
<1>1. DOMAIN f = 1 .. Len(f) /\ Len(f) \in Nat /\ k + 1 \in 1 .. Len(f) /\ (k + 1) - 1 = k
  OBVIOUS
<1>2. /\ 1 .. k + 1 \in SUBSET (1 .. Len(f)) /\ 1 .. k + 1 # {}
      /\ Max(1 .. k + 1) = k + 1 /\ (1 .. k + 1) \ {Max(1 .. k + 1)} = 1 .. k
  BY <1>1, Passed
<1>3. g[1 .. k + 1] = o[<<g[1 .. k], f[k + 1]>>]
  BY <1>1, <1>2 DEF Runs
<1>4. f[k + 1] \in X
  BY <1>1
<1>5. QED
  BY <1>3, <1>4 DEF OneStep

(* The fold of a sequence of X is in A.                                    *)
LEMMA RunsStay ==
  ASSUME NEW A, NEW base \in A, NEW X, NEW o \in [A \X X -> A], NEW f \in Seq(X), NEW g,
         Runs(A, base, o, f, g)
  PROVE  \A k \in 0 .. Len(f) : g[1 .. k] \in A
<1> DEFINE n == Len(f)
           K == {k \in Nat : k <= n => g[1 .. k] \in A}
<1>1. 0 \in K
  <2>1. 1 .. 0 = {}
    OBVIOUS
  <2>2. QED
    BY <2>1 DEF Runs
<1>2. ASSUME NEW k \in Nat, k \in K
      PROVE  k + 1 \in K
  <2>1. n \in Nat
    OBVIOUS
  <2>2. ASSUME k + 1 <= n
        PROVE  g[1 .. k + 1] \in A
    <3>1. g[1 .. k] \in A
      BY <1>2, <2>1, <2>2
    <3> HIDE DEF K
    <3>2. QED
      BY <2>2, <3>1, Step
  <2>3. QED
    BY <2>2
<1> HIDE DEF K
<1>3. \A k \in Nat : k \in K
  BY <1>1, <1>2, AllNumbers
<1>4. QED
  BY <1>3 DEF K

(* One element more is one step more.                                      *)
OneMore(o, f, x, g, h) == h[DOMAIN Append(f, x)] = o[<<g[DOMAIN f], x>>]

LEMMA RunsLonger ==
  ASSUME NEW A, NEW base \in A, NEW X, NEW o \in [A \X X -> A],
         NEW f \in Seq(X), NEW x \in X, NEW g, NEW h,
         Runs(A, base, o, f, g), Runs(A, base, o, Append(f, x), h)
  PROVE  OneMore(o, f, x, g, h)
<1> DEFINE n == Len(f)
           e == Append(f, x)
           K == {k \in Nat : k <= n => h[1 .. k] = g[1 .. k]}
<1>1. /\ e \in Seq(X) /\ DOMAIN f = 1 .. n /\ DOMAIN e = 1 .. n + 1 /\ n \in Nat
      /\ Len(e) = n + 1 /\ e[n + 1] = x /\ \A i \in 1 .. n : e[i] = f[i]
  BY Longer
<1>2. /\ \A k \in 0 .. n : g[1 .. k] \in A
      /\ \A k \in 0 .. n + 1 : h[1 .. k] \in A
  <2>1. \A k \in 0 .. n : g[1 .. k] \in A
    BY RunsStay
  <2> HIDE DEF n
  <2>2. \A k \in 0 .. Len(e) : h[1 .. k] \in A
    BY <1>1, RunsStay, Zenon
  <2>3. QED
    BY <1>1, <2>1, <2>2
<1>3. 0 \in K
  <2>1. 1 .. 0 = {}
    OBVIOUS
  <2>2. QED
    BY <2>1 DEF Runs
<1>4. ASSUME NEW k \in Nat, k \in K
      PROVE  k + 1 \in K
  <2>1. ASSUME k + 1 <= n
        PROVE  h[1 .. k + 1] = g[1 .. k + 1]
    <3>1. /\ k + 1 \in 1 .. n /\ k + 1 <= Len(f) /\ k + 1 <= Len(e)
          /\ h[1 .. k] = g[1 .. k] /\ k \in 0 .. n /\ k \in 0 .. n + 1
      BY <1>1, <1>4, <2>1
    <3>2. g[1 .. k] \in A /\ h[1 .. k] \in A /\ e[k + 1] = f[k + 1]
      BY <1>1, <1>2, <3>1
    <3> HIDE DEF K, n
    <3>3. OneStep(o, f, g, k)
      BY <3>1, <3>2, Step, Zenon
    <3>4. OneStep(o, e, h, k)
      BY <1>1, <3>1, <3>2, Step, Zenon
    <3>5. QED
      BY <3>1, <3>2, <3>3, <3>4 DEF OneStep
  <2>2. QED
    BY <2>1
<1> HIDE DEF K, n
<1>5. n \in K /\ n \in 0 .. n /\ n + 1 <= Len(e)
  BY <1>1, <1>3, <1>4, AllNumbers
<1>6. h[1 .. n] = g[1 .. n] /\ g[1 .. n] \in A
  BY <1>1, <1>2, <1>5 DEF K
<1>7. OneStep(o, e, h, n)
  BY <1>1, <1>5, <1>6, Step, Zenon
<1>8. QED
  BY <1>1, <1>6, <1>7 DEF OneStep, OneMore

-----------------------------------------------------------------------------
(* Replay, line by line.                                                   *)

Scan == [buffers : [Traces -> Seq(Records)], pending : Seq(Tip)]
NothingYet == [buffers |-> [t \in Traces |-> <<>>], pending |-> <<>>]

WithSpan(b, t, r) == [b EXCEPT ![t] = Append(@, r)]
Without(b, t) == [b EXCEPT ![t] = <<>>]
WithTip(p, t, h) == IF h = NoHash THEN p ELSE Append(p, [trace |-> t, hash |-> h])

LEMMA ReplayLineSpan ==
  ASSUME NEW acc \in Scan, NEW t \in Traces, NEW r \in Records
  PROVE  ReplayLine(acc, Span(t, r)) =
           [buffers |-> WithSpan(acc.buffers, t, r), pending |-> acc.pending]
<1>1. ReplayLine(acc, Span(t, r)) = [acc EXCEPT !.buffers[t] = Append(@, r)]
  BY DEF ReplayLine, Span
<1>2. QED
  BY <1>1 DEF Scan, WithSpan

LEMMA ReplayLineSealed ==
  ASSUME NEW acc \in Scan, NEW t \in Traces, NEW h \in Hashes \cup {NoHash}
  PROVE  ReplayLine(acc, Sealed(t, h)) =
           [buffers |-> Without(acc.buffers, t), pending |-> WithTip(acc.pending, t, h)]
<1>1. ReplayLine(acc, Sealed(t, h)) =
        [acc EXCEPT !.buffers = [@ EXCEPT ![t] = <<>>],
                    !.pending = IF h = NoHash THEN @
                                ELSE Append(@, [trace |-> t, hash |-> h])]
  BY DEF ReplayLine, Sealed, SealedBufferDropped, TipOf
<1>2. QED
  BY <1>1 DEF Scan, Without, WithTip

LEMMA ReplayLineUnparseable ==
  ASSUME NEW acc
  PROVE  ReplayLine(acc, Unparseable) = acc
BY DEF ReplayLine, Unparseable

LEMMA Lines ==
  ASSUME NEW l \in Line
  PROVE  \/ \E t \in Traces, r \in Records : l = Span(t, r)
         \/ \E t \in Traces, h \in Hashes \cup {NoHash} : l = Sealed(t, h)
         \/ l = Unparseable
BY DEF Line, SpanLine, SealedLine, Span, Sealed

LEMMA ReplayLineType ==
  ASSUME NEW acc \in Scan, NEW l \in Line
  PROVE  ReplayLine(acc, l) \in Scan
<1>1. /\ acc.buffers \in [Traces -> Seq(Records)] /\ acc.pending \in Seq(Tip)
  BY DEF Scan
<1>2. ASSUME NEW b \in [Traces -> Seq(Records)], NEW p \in Seq(Tip)
      PROVE  [buffers |-> b, pending |-> p] \in Scan
  BY DEF Scan
<1>3. ASSUME NEW t \in Traces, NEW r \in Records, l = Span(t, r)
      PROVE  ReplayLine(acc, l) \in Scan
  <2>1. Append(acc.buffers[t], r) \in Seq(Records)
    BY <1>1
  <2>2. WithSpan(acc.buffers, t, r) \in [Traces -> Seq(Records)]
    BY <1>1, <2>1 DEF WithSpan
  <2>3. QED
    BY <1>1, <1>2, <1>3, <2>2, ReplayLineSpan
<1>4. ASSUME NEW t \in Traces, NEW h \in Hashes \cup {NoHash}, l = Sealed(t, h)
      PROVE  ReplayLine(acc, l) \in Scan
  <2>1. h # NoHash => Append(acc.pending, [trace |-> t, hash |-> h]) \in Seq(Tip)
    <3>1. h # NoHash => [trace |-> t, hash |-> h] \in Tip
      BY DEF Tip
    <3>2. QED
      BY <1>1, <3>1
  <2>2. <<>> \in Seq(Records)
    OBVIOUS
  <2>3. Without(acc.buffers, t) \in [Traces -> Seq(Records)]
    BY <1>1, <2>2 DEF Without
  <2>4. WithTip(acc.pending, t, h) \in Seq(Tip)
    BY <1>1, <2>1 DEF WithTip
  <2>5. QED
    BY <1>2, <1>4, <2>3, <2>4, ReplayLineSealed
<1>5. QED
  BY <1>3, <1>4, Lines, ReplayLineUnparseable

ReplayStep == [p \in Scan \X Line |-> ReplayLine(p[1], p[2])]

ReplayRows(f, g) ==
  [s \in SUBSET (DOMAIN f) |->
     IF s = {} THEN NothingYet ELSE ReplayLine(g[s \ {Max(s)}], f[Max(s)])]

LEMMA ReplayStepType ==
  /\ NothingYet \in Scan
  /\ ReplayStep \in [Scan \X Line -> Scan]
  /\ \A a \in Scan, l \in Line : ReplayStep[<<a, l>>] = ReplayLine(a, l)
<1>1. NothingYet \in Scan
  BY DEF NothingYet, Scan
<1>2. QED
  BY <1>1, ReplayLineType DEF ReplayStep

LEMMA ReplayRuns ==
  ASSUME NEW f \in Seq(Line)
  PROVE  \E g : Runs(Scan, NothingYet, ReplayStep, f, g) /\ Replay(f) = g[DOMAIN f]
<1> DEFINE g == CHOOSE x : x = ReplayRows(f, x)
<1>1. PICK h \in [SUBSET (1 .. Len(f)) -> Scan] :
        IsTable(NothingYet, ReplayStep, f, Len(f), h)
  BY ReplayStepType, TableExists
<1>2. ASSUME NEW s \in SUBSET (1 .. Len(f))
      PROVE  h[s] = IF s = {} THEN NothingYet ELSE ReplayLine(h[s \ {Max(s)}], f[Max(s)])
  <2>1. s # {} => f[Max(s)] \in Line /\ h[s \ {Max(s)}] \in Scan
    BY RowElement
  <2>2. QED
    BY ReplayStepType, <1>1, <2>1 DEF IsTable, RowOf
<1>3. DOMAIN f = 1 .. Len(f)
  OBVIOUS
<1>4. h = ReplayRows(f, h)
  BY <1>2, <1>3 DEF ReplayRows
<1>5. g = ReplayRows(f, g)
  BY <1>4
<1>6. Replay(f) = g[DOMAIN f]
  BY DEF Replay, FoldLeft, MapThenFoldSet, ReplayRows, NothingYet
<1> HIDE DEF g
<1>7. g[{}] = NothingYet
  BY <1>5 DEF ReplayRows
<1>8. ASSUME NEW s \in SUBSET (DOMAIN f), s # {}, g[s \ {Max(s)}] \in Scan
      PROVE  g[s] = ReplayStep[<<g[s \ {Max(s)}], f[Max(s)]>>]
  <2>1. g[s] = ReplayLine(g[s \ {Max(s)}], f[Max(s)])
    BY <1>5, <1>8 DEF ReplayRows
  <2>2. f[Max(s)] \in Line
    BY <1>3, <1>8, RowElement
  <2>3. QED
    BY <1>8, <2>1, <2>2, ReplayStepType
<1>9. Runs(Scan, NothingYet, ReplayStep, f, g)
  BY <1>7, <1>8 DEF Runs
<1>10. QED
  BY <1>6, <1>9

LEMMA ReplayEmpty == Replay(<<>>) = NothingYet
<1>1. <<>> \in Seq(Line) /\ DOMAIN <<>> = {}
  OBVIOUS
<1>2. PICK g : Runs(Scan, NothingYet, ReplayStep, <<>>, g) /\ Replay(<<>>) = g[DOMAIN <<>>]
  BY <1>1, ReplayRuns
<1>3. QED
  BY <1>1, <1>2 DEF Runs

LEMMA ReplayType ==
  ASSUME NEW f \in Seq(Line)
  PROVE  Replay(f) \in Scan
<1>1. PICK g : Runs(Scan, NothingYet, ReplayStep, f, g) /\ Replay(f) = g[DOMAIN f]
  BY ReplayRuns
<1>2. DOMAIN f = 1 .. Len(f) /\ Len(f) \in 0 .. Len(f)
  OBVIOUS
<1>3. \A k \in 0 .. Len(f) : g[1 .. k] \in Scan
  BY <1>1, ReplayStepType, RunsStay, Zenon
<1>4. QED
  BY <1>1, <1>2, <1>3

LEMMA ReplayLonger ==
  ASSUME NEW f \in Seq(Line), NEW l \in Line
  PROVE  Replay(Append(f, l)) = ReplayLine(Replay(f), l)
<1>1. PICK g : Runs(Scan, NothingYet, ReplayStep, f, g) /\ Replay(f) = g[DOMAIN f]
  BY ReplayRuns
<1>2. Append(f, l) \in Seq(Line)
  OBVIOUS
<1>3. PICK h : /\ Runs(Scan, NothingYet, ReplayStep, Append(f, l), h)
               /\ Replay(Append(f, l)) = h[DOMAIN Append(f, l)]
  BY <1>2, ReplayRuns
<1>4. OneMore(ReplayStep, f, l, g, h)
  BY <1>1, <1>3, ReplayStepType, RunsLonger, Zenon
<1>5. QED
  BY <1>1, <1>3, <1>4, ReplayStepType, ReplayType DEF OneMore

-----------------------------------------------------------------------------
(* Select.                                                                 *)

SelectStep(X, S) ==
  [p \in Seq(X) \X X |-> IF p[2] \in S THEN Append(p[1], p[2]) ELSE p[1]]

SelectRows(s, S, g) ==
  [d \in SUBSET (DOMAIN s) |->
     IF d = {} THEN <<>>
     ELSE IF s[Max(d)] \in S THEN Append(g[d \ {Max(d)}], s[Max(d)]) ELSE g[d \ {Max(d)}]]

LEMMA SelectStepIs ==
  ASSUME NEW X, NEW S, NEW k \in Seq(X), NEW x \in X
  PROVE  SelectStep(X, S)[<<k, x>>] = IF x \in S THEN Append(k, x) ELSE k
BY DEF SelectStep

LEMMA SelectStepType ==
  ASSUME NEW X, NEW S
  PROVE  <<>> \in Seq(X) /\ SelectStep(X, S) \in [Seq(X) \X X -> Seq(X)]
<1>1. \A k \in Seq(X), x \in X : Append(k, x) \in Seq(X)
  OBVIOUS
<1>2. QED
  BY <1>1 DEF SelectStep

LEMMA SelectRuns ==
  ASSUME NEW X, NEW S, NEW s \in Seq(X)
  PROVE  \E g : Runs(Seq(X), <<>>, SelectStep(X, S), s, g) /\ Select(s, S) = g[DOMAIN s]
<1> DEFINE g == CHOOSE r : r = SelectRows(s, S, r)
           o == SelectStep(X, S)
<1>1. /\ <<>> \in Seq(X) /\ o \in [Seq(X) \X X -> Seq(X)]
      /\ \A k \in Seq(X), x \in X : o[<<k, x>>] = IF x \in S THEN Append(k, x) ELSE k
  <2> HIDE DEF g
  <2>1. <<>> \in Seq(X) /\ o \in [Seq(X) \X X -> Seq(X)]
    BY SelectStepType
  <2>2. ASSUME NEW k \in Seq(X), NEW x \in X
        PROVE  o[<<k, x>>] = IF x \in S THEN Append(k, x) ELSE k
    BY SelectStepIs
  <2> HIDE DEF o
  <2>3. QED
    BY <2>1, <2>2
<1> HIDE DEF o
<1>2. PICK h \in [SUBSET (1 .. Len(s)) -> Seq(X)] : IsTable(<<>>, o, s, Len(s), h)
  BY <1>1, TableExists
<1>3. ASSUME NEW d \in SUBSET (1 .. Len(s))
      PROVE  h[d] = IF d = {} THEN <<>>
                    ELSE IF s[Max(d)] \in S THEN Append(h[d \ {Max(d)}], s[Max(d)])
                         ELSE h[d \ {Max(d)}]
  <2>1. d # {} => s[Max(d)] \in X /\ h[d \ {Max(d)}] \in Seq(X)
    BY RowElement
  <2>2. QED
    BY <1>1, <1>2, <2>1 DEF IsTable, RowOf
<1>4. DOMAIN s = 1 .. Len(s)
  OBVIOUS
<1>5. h = SelectRows(s, S, h)
  BY <1>3, <1>4 DEF SelectRows
<1>6. g = SelectRows(s, S, g)
  BY <1>5
<1>7. Select(s, S) = g[DOMAIN s]
  BY DEF Select, FoldLeft, MapThenFoldSet, SelectRows
<1> HIDE DEF g
<1>8. g[{}] = <<>>
  BY <1>6 DEF SelectRows
<1>9. ASSUME NEW d \in SUBSET (DOMAIN s), d # {}, g[d \ {Max(d)}] \in Seq(X)
      PROVE  g[d] = o[<<g[d \ {Max(d)}], s[Max(d)]>>]
  <2>1. g[d] = IF s[Max(d)] \in S THEN Append(g[d \ {Max(d)}], s[Max(d)])
               ELSE g[d \ {Max(d)}]
    BY <1>6, <1>9 DEF SelectRows
  <2>2. s[Max(d)] \in X
    BY <1>4, <1>9, RowElement
  <2>3. QED
    BY <1>1, <1>9, <2>1, <2>2
<1>10. Runs(Seq(X), <<>>, o, s, g)
  BY <1>8, <1>9 DEF Runs
<1>11. QED
  BY <1>7, <1>10 DEF o

LEMMA SelectEmpty ==
  ASSUME NEW S
  PROVE  Select(<<>>, S) = <<>>
<1>1. <<>> \in Seq({}) /\ DOMAIN <<>> = {}
  OBVIOUS
<1>2. PICK g : /\ Runs(Seq({}), <<>>, SelectStep({}, S), <<>>, g)
               /\ Select(<<>>, S) = g[DOMAIN <<>>]
  BY <1>1, SelectRuns
<1>3. QED
  BY <1>1, <1>2 DEF Runs

(* Select(s, S) is a sequence of the same elements.                        *)
LEMMA SelectType ==
  ASSUME NEW X, NEW S, NEW s \in Seq(X)
  PROVE  Select(s, S) \in Seq(X)
<1>1. PICK g : Runs(Seq(X), <<>>, SelectStep(X, S), s, g) /\ Select(s, S) = g[DOMAIN s]
  BY SelectRuns
<1>2. DOMAIN s = 1 .. Len(s) /\ Len(s) \in 0 .. Len(s)
  OBVIOUS
<1>3. \A k \in 0 .. Len(s) : g[1 .. k] \in Seq(X)
  BY <1>1, SelectStepType, RunsStay, Zenon
<1>4. QED
  BY <1>1, <1>2, <1>3

(* Select looks at one element after the other.                            *)
LEMMA SelectLonger ==
  ASSUME NEW X, NEW S, NEW s \in Seq(X), NEW x \in X
  PROVE  /\ x \in S => Select(Append(s, x), S) = Append(Select(s, S), x)
         /\ x \notin S => Select(Append(s, x), S) = Select(s, S)
<1>1. PICK g : Runs(Seq(X), <<>>, SelectStep(X, S), s, g) /\ Select(s, S) = g[DOMAIN s]
  BY SelectRuns
<1>2. Append(s, x) \in Seq(X)
  OBVIOUS
<1>3. PICK h : /\ Runs(Seq(X), <<>>, SelectStep(X, S), Append(s, x), h)
               /\ Select(Append(s, x), S) = h[DOMAIN Append(s, x)]
  BY <1>2, SelectRuns
<1>4. OneMore(SelectStep(X, S), s, x, g, h)
  BY <1>1, <1>3, SelectStepType, RunsLonger, Zenon
<1>5. SelectStep(X, S)[<<Select(s, S), x>>] =
        IF x \in S THEN Append(Select(s, S), x) ELSE Select(s, S)
  <2>1. Select(s, S) \in Seq(X)
    BY SelectType
  <2>2. QED
    BY <2>1, SelectStepIs
<1>6. Select(Append(s, x), S) = SelectStep(X, S)[<<Select(s, S), x>>]
  BY <1>1, <1>3, <1>4 DEF OneMore
<1>7. QED
  BY <1>5, <1>6

LEMMA ToSetAppend ==
  ASSUME NEW X, NEW s \in Seq(X), NEW x \in X
  PROVE  /\ Append(s, x) \in Seq(X) /\ Len(Append(s, x)) = Len(s) + 1
         /\ ToSet(Append(s, x)) = ToSet(s) \cup {x}
<1>1. /\ Append(s, x) \in Seq(X) /\ Len(Append(s, x)) = Len(s) + 1 /\ Len(s) \in Nat
      /\ DOMAIN s = 1 .. Len(s) /\ DOMAIN Append(s, x) = 1 .. Len(s) + 1
      /\ Append(s, x)[Len(s) + 1] = x /\ \A i \in 1 .. Len(s) : Append(s, x)[i] = s[i]
  BY Longer
<1>2. 1 .. Len(s) + 1 = (1 .. Len(s)) \cup {Len(s) + 1}
  BY <1>1
<1>3. ToSet(Append(s, x)) = ToSet(s) \cup {x}
  BY <1>1, <1>2 DEF ToSet
<1>4. QED
  BY <1>1, <1>3

(* What Select keeps: no more than there was, and what is in S.            *)
LEMMA Selected ==
  ASSUME NEW X, NEW S, NEW s \in Seq(X)
  PROVE  Len(Select(s, S)) <= Len(s) /\ ToSet(Select(s, S)) = ToSet(s) \cap S
<1> DEFINE G == {q \in Seq(X) : /\ Len(Select(q, S)) <= Len(q)
                                /\ ToSet(Select(q, S)) = ToSet(q) \cap S}
<1>1. <<>> \in G
  <2>1. <<>> \in Seq(X) /\ Len(<<>>) <= Len(<<>>) /\ ToSet(<<>>) = {}
    BY DEF ToSet
  <2>2. QED
    BY <2>1, SelectEmpty
<1>2. ASSUME NEW q \in Seq(X), NEW x \in X, q \in G
      PROVE  Append(q, x) \in G
  <2>1. /\ Append(q, x) \in Seq(X) /\ Len(Append(q, x)) = Len(q) + 1
        /\ ToSet(Append(q, x)) = ToSet(q) \cup {x}
    BY ToSetAppend
  <2>2. Select(q, S) \in Seq(X)
    BY SelectType
  <2>3. /\ Len(Append(Select(q, S), x)) = Len(Select(q, S)) + 1
        /\ ToSet(Append(Select(q, S), x)) = ToSet(Select(q, S)) \cup {x}
    BY <2>2, ToSetAppend
  <2>4. Len(Select(q, S)) <= Len(q) /\ ToSet(Select(q, S)) = ToSet(q) \cap S
    BY <1>2
  <2>5. /\ x \in S => Select(Append(q, x), S) = Append(Select(q, S), x)
        /\ x \notin S => Select(Append(q, x), S) = Select(q, S)
    BY SelectLonger
  <2>6. Len(Select(Append(q, x), S)) <= Len(Append(q, x))
    BY <2>1, <2>2, <2>3, <2>4, <2>5
  <2>7. ToSet(Select(Append(q, x), S)) = ToSet(Append(q, x)) \cap S
    <3>1. CASE x \in S
      BY <2>1, <2>3, <2>4, <2>5, <3>1
    <3>2. CASE x \notin S
      BY <2>1, <2>4, <2>5, <3>2
    <3>3. QED
      BY <3>1, <3>2
  <2>8. QED
    BY <2>1, <2>6, <2>7
<1> HIDE DEF G
<1>3. s \in G
  BY <1>1, <1>2, AllSequences
<1>4. QED
  BY <1>3 DEF G

-----------------------------------------------------------------------------
(* Compact's scan, line by line.                                           *)

Kept == [spans : Seq(SpanLine), keep : Seq(SealedLine)]
NothingKept == [spans |-> <<>>, keep |-> <<>>]

Scanned(f, pending) ==
  FoldLeft(LAMBDA acc, line : CompactLine(acc, line, pending), NothingKept, f)

LEMMA CompactedIs ==
  ASSUME NEW f, NEW pending
  PROVE  Compacted(f, pending) = Scanned(f, pending).keep \o Scanned(f, pending).spans
BY DEF Compacted, Scanned, MarkersFirst, NothingKept

LEMMA CompactSpan ==
  ASSUME NEW acc \in Kept, NEW pending, NEW t \in Traces, NEW r \in Records
  PROVE  CompactLine(acc, Span(t, r), pending) =
           [spans |-> Append(acc.spans, Span(t, r)), keep |-> acc.keep]
<1>1. CompactLine(acc, Span(t, r), pending) = [acc EXCEPT !.spans = Append(@, Span(t, r))]
  BY DEF CompactLine, Span
<1>2. QED
  BY <1>1 DEF Kept

(* What the scan has after a marker.                                       *)
AfterSealed(acc, t, h, pending) ==
  [spans |-> Select(acc.spans, SpansOf(Traces \ {t})),
   keep  |-> IF [trace |-> t, hash |-> h] \in pending
             THEN Append(acc.keep, Sealed(t, h)) ELSE acc.keep]

LEMMA CompactSealed ==
  ASSUME NEW acc, NEW pending, NEW t, NEW h
  PROVE  CompactLine(acc, Sealed(t, h), pending) = AfterSealed(acc, t, h, pending)
BY DEF CompactLine, Sealed, Retained, TipOf, AfterSealed

LEMMA CompactUnparseable ==
  ASSUME NEW acc, NEW pending
  PROVE  CompactLine(acc, Unparseable, pending) = acc
BY DEF CompactLine, Unparseable

LEMMA SpanAndSealedLines ==
  /\ \A t \in Traces, r \in Records : Span(t, r) \in SpanLine
  /\ \A t \in Traces, h \in Hashes \cup {NoHash} : Sealed(t, h) \in SealedLine
  /\ \A l \in SpanLine : \E t \in Traces, r \in Records : l = Span(t, r)
  /\ SpanLine \subseteq Line /\ SealedLine \subseteq Line /\ Unparseable \in Line
BY DEF Span, Sealed, SpanLine, SealedLine, Line

LEMMA CompactLineType ==
  ASSUME NEW acc \in Kept, NEW l \in Line, NEW pending
  PROVE  CompactLine(acc, l, pending) \in Kept
<1>1. acc.spans \in Seq(SpanLine) /\ acc.keep \in Seq(SealedLine)
  BY DEF Kept
<1>2. ASSUME NEW a \in Seq(SpanLine), NEW b \in Seq(SealedLine)
      PROVE  [spans |-> a, keep |-> b] \in Kept
  BY DEF Kept
<1>3. ASSUME NEW t \in Traces, NEW r \in Records, l = Span(t, r)
      PROVE  CompactLine(acc, l, pending) \in Kept
  <2>1. Append(acc.spans, Span(t, r)) \in Seq(SpanLine)
    BY <1>1, SpanAndSealedLines
  <2>2. CompactLine(acc, l, pending) =
          [spans |-> Append(acc.spans, Span(t, r)), keep |-> acc.keep]
    BY <1>3, CompactSpan
  <2>3. QED
    BY <1>1, <1>2, <2>1, <2>2
<1>4. ASSUME NEW t \in Traces, NEW h \in Hashes \cup {NoHash}, l = Sealed(t, h)
      PROVE  CompactLine(acc, l, pending) \in Kept
  <2>1. Select(acc.spans, SpansOf(Traces \ {t})) \in Seq(SpanLine)
    BY <1>1, SelectType
  <2>2. (IF [trace |-> t, hash |-> h] \in pending
         THEN Append(acc.keep, Sealed(t, h)) ELSE acc.keep) \in Seq(SealedLine)
    BY <1>1, SpanAndSealedLines
  <2>3. CompactLine(acc, l, pending) =
          [spans |-> Select(acc.spans, SpansOf(Traces \ {t})),
           keep  |-> IF [trace |-> t, hash |-> h] \in pending
                     THEN Append(acc.keep, Sealed(t, h)) ELSE acc.keep]
    BY <1>4, CompactSealed DEF AfterSealed
  <2>4. QED
    BY <1>2, <2>1, <2>2, <2>3
<1>5. QED
  BY <1>3, <1>4, Lines, CompactUnparseable

CompactStep(pending) == [p \in Kept \X Line |-> CompactLine(p[1], p[2], pending)]

CompactRows(f, pending, g) ==
  [s \in SUBSET (DOMAIN f) |->
     IF s = {} THEN NothingKept
     ELSE CompactLine(g[s \ {Max(s)}], f[Max(s)], pending)]

LEMMA CompactStepType ==
  ASSUME NEW pending
  PROVE  /\ NothingKept \in Kept
         /\ CompactStep(pending) \in [Kept \X Line -> Kept]
         /\ \A a \in Kept, l \in Line :
              CompactStep(pending)[<<a, l>>] = CompactLine(a, l, pending)
<1>1. NothingKept \in Kept
  BY DEF NothingKept, Kept
<1>2. QED
  BY <1>1, CompactLineType DEF CompactStep

LEMMA CompactRuns ==
  ASSUME NEW f \in Seq(Line), NEW pending
  PROVE  \E g : /\ Runs(Kept, NothingKept, CompactStep(pending), f, g)
                /\ Scanned(f, pending) = g[DOMAIN f]
<1> DEFINE g == CHOOSE x : x = CompactRows(f, pending, x)
           o == CompactStep(pending)
<1>1. /\ NothingKept \in Kept /\ o \in [Kept \X Line -> Kept]
      /\ \A a \in Kept, l \in Line : o[<<a, l>>] = CompactLine(a, l, pending)
  <2> HIDE DEF g
  <2>1. QED
    BY CompactStepType
<1> HIDE DEF o
<1>2. PICK h \in [SUBSET (1 .. Len(f)) -> Kept] : IsTable(NothingKept, o, f, Len(f), h)
  BY <1>1, TableExists
<1>3. ASSUME NEW s \in SUBSET (1 .. Len(f))
      PROVE  h[s] = IF s = {} THEN NothingKept
                    ELSE CompactLine(h[s \ {Max(s)}], f[Max(s)], pending)
  <2>1. s # {} => f[Max(s)] \in Line /\ h[s \ {Max(s)}] \in Kept
    BY RowElement
  <2>2. QED
    BY <1>1, <1>2, <2>1 DEF IsTable, RowOf
<1>4. DOMAIN f = 1 .. Len(f)
  OBVIOUS
<1>5. h = CompactRows(f, pending, h)
  BY <1>3, <1>4 DEF CompactRows
<1>6. g = CompactRows(f, pending, g)
  BY <1>5
<1>7. Scanned(f, pending) = g[DOMAIN f]
  BY DEF Scanned, FoldLeft, MapThenFoldSet, CompactRows
<1> HIDE DEF g
<1>8. g[{}] = NothingKept
  BY <1>6 DEF CompactRows
<1>9. ASSUME NEW s \in SUBSET (DOMAIN f), s # {}, g[s \ {Max(s)}] \in Kept
      PROVE  g[s] = o[<<g[s \ {Max(s)}], f[Max(s)]>>]
  <2>1. g[s] = CompactLine(g[s \ {Max(s)}], f[Max(s)], pending)
    BY <1>6, <1>9 DEF CompactRows
  <2>2. f[Max(s)] \in Line
    BY <1>4, <1>9, RowElement
  <2>3. QED
    BY <1>1, <1>9, <2>1, <2>2
<1>10. Runs(Kept, NothingKept, o, f, g)
  BY <1>8, <1>9 DEF Runs
<1>11. QED
  BY <1>7, <1>10 DEF o

LEMMA ScannedEmpty ==
  ASSUME NEW pending
  PROVE  Scanned(<<>>, pending) = NothingKept
<1>1. <<>> \in Seq(Line) /\ DOMAIN <<>> = {}
  OBVIOUS
<1>2. PICK g : /\ Runs(Kept, NothingKept, CompactStep(pending), <<>>, g)
               /\ Scanned(<<>>, pending) = g[DOMAIN <<>>]
  BY <1>1, CompactRuns
<1>3. QED
  BY <1>1, <1>2 DEF Runs

LEMMA ScannedType ==
  ASSUME NEW f \in Seq(Line), NEW pending
  PROVE  Scanned(f, pending) \in Kept
<1>1. PICK g : /\ Runs(Kept, NothingKept, CompactStep(pending), f, g)
               /\ Scanned(f, pending) = g[DOMAIN f]
  BY CompactRuns
<1>2. DOMAIN f = 1 .. Len(f) /\ Len(f) \in 0 .. Len(f)
  OBVIOUS
<1>3. \A k \in 0 .. Len(f) : g[1 .. k] \in Kept
  BY <1>1, CompactStepType, RunsStay, Zenon
<1>4. QED
  BY <1>1, <1>2, <1>3

LEMMA ScannedLonger ==
  ASSUME NEW f \in Seq(Line), NEW l \in Line, NEW pending
  PROVE  Scanned(Append(f, l), pending) = CompactLine(Scanned(f, pending), l, pending)
<1>1. PICK g : /\ Runs(Kept, NothingKept, CompactStep(pending), f, g)
               /\ Scanned(f, pending) = g[DOMAIN f]
  BY CompactRuns
<1>2. Append(f, l) \in Seq(Line)
  OBVIOUS
<1>3. PICK h : /\ Runs(Kept, NothingKept, CompactStep(pending), Append(f, l), h)
               /\ Scanned(Append(f, l), pending) = h[DOMAIN Append(f, l)]
  BY <1>2, CompactRuns
<1>4. OneMore(CompactStep(pending), f, l, g, h)
  BY <1>1, <1>3, CompactStepType, RunsLonger, Zenon
<1>5. CompactStep(pending)[<<Scanned(f, pending), l>>] =
        CompactLine(Scanned(f, pending), l, pending)
  BY CompactStepType, ScannedType
<1>6. Scanned(Append(f, l), pending) = CompactStep(pending)[<<Scanned(f, pending), l>>]
  BY <1>1, <1>3, <1>4 DEF OneMore
<1>7. QED
  BY <1>5, <1>6

(* The new file is no longer than the old one.                             *)
Size(k) == Len(k.spans) + Len(k.keep)

LEMMA SizeGrows ==
  ASSUME NEW acc \in Kept, NEW l \in Line, NEW pending
  PROVE  Size(acc) \in Nat /\ Size(CompactLine(acc, l, pending)) <= Size(acc) + 1
<1>1. acc.spans \in Seq(SpanLine) /\ acc.keep \in Seq(SealedLine)
  BY DEF Kept
<1>2. PICK m \in Nat, n \in Nat : m = Len(acc.spans) /\ n = Len(acc.keep)
  BY <1>1
<1>3. Size(acc) = m + n
  BY <1>2 DEF Size
<1>4. ASSUME NEW a, NEW b, NEW i \in Nat, NEW j \in Nat, i = Len(a), j = Len(b),
             \/ i <= m + 1 /\ j <= n
             \/ i <= m /\ j <= n + 1,
             CompactLine(acc, l, pending) = [spans |-> a, keep |-> b]
      PROVE  Size(CompactLine(acc, l, pending)) <= Size(acc) + 1
  <2>1. Size(CompactLine(acc, l, pending)) = i + j
    BY <1>4 DEF Size
  <2>2. i + j <= m + n + 1
    BY <1>4
  <2>3. QED
    BY <1>3, <2>1, <2>2
<1>5. ASSUME NEW t \in Traces, NEW r \in Records, l = Span(t, r)
      PROVE  Size(CompactLine(acc, l, pending)) <= Size(acc) + 1
  <2>1. CompactLine(acc, l, pending) =
          [spans |-> Append(acc.spans, Span(t, r)), keep |-> acc.keep]
    BY <1>5, CompactSpan
  <2>2. Len(Append(acc.spans, Span(t, r))) = m + 1
    BY <1>1, <1>2, ToSetAppend, SpanAndSealedLines
  <2>3. m + 1 \in Nat /\ m + 1 <= m + 1 /\ n <= n
    OBVIOUS
  <2>4. QED
    BY <1>2, <1>4, <2>1, <2>2, <2>3
<1>6. ASSUME NEW t \in Traces, NEW h \in Hashes \cup {NoHash}, l = Sealed(t, h)
      PROVE  Size(CompactLine(acc, l, pending)) <= Size(acc) + 1
  <2> DEFINE kept == IF [trace |-> t, hash |-> h] \in pending
                     THEN Append(acc.keep, Sealed(t, h)) ELSE acc.keep
             left == Select(acc.spans, SpansOf(Traces \ {t}))
  <2>1. CompactLine(acc, l, pending) = [spans |-> left, keep |-> kept]
    BY <1>6, CompactSealed DEF AfterSealed
  <2>2. Len(left) <= m /\ Len(left) \in Nat
    <3>1. left \in Seq(SpanLine)
      BY <1>1, SelectType
    <3>2. Len(left) \in Nat
      BY <3>1
    <3>3. QED
      BY <1>1, <1>2, <3>2, Selected
  <2>3. Len(kept) <= n + 1 /\ Len(kept) \in Nat
    <3>1. Len(Append(acc.keep, Sealed(t, h))) = n + 1
      BY <1>1, <1>2, ToSetAppend, SpanAndSealedLines
    <3>2. n <= n + 1 /\ n + 1 <= n + 1 /\ n + 1 \in Nat
      OBVIOUS
    <3>3. QED
      BY <1>2, <3>1, <3>2
  <2> HIDE DEF kept, left
  <2>4. QED
    BY <1>4, <2>1, <2>2, <2>3
<1>7. ASSUME l = Unparseable
      PROVE  Size(CompactLine(acc, l, pending)) <= Size(acc) + 1
  <2>1. CompactLine(acc, l, pending) = acc
    BY <1>7, CompactUnparseable
  <2>2. m + n <= m + n + 1
    OBVIOUS
  <2>3. QED
    BY <1>3, <2>1, <2>2
<1>8. m + n \in Nat
  OBVIOUS
<1>9. QED
  BY <1>3, <1>5, <1>6, <1>7, <1>8, Lines

LEMMA CompactedType ==
  ASSUME NEW f \in Seq(Line), NEW pending
  PROVE  Compacted(f, pending) \in Seq(Line) /\ Len(Compacted(f, pending)) <= Len(f)
<1> DEFINE G == {q \in Seq(Line) : Size(Scanned(q, pending)) <= Len(q)}
<1>1. <<>> \in G
  <2>1. Scanned(<<>>, pending) = NothingKept /\ <<>> \in Seq(Line)
    BY ScannedEmpty
  <2>2. Size(NothingKept) <= Len(<<>>)
    BY DEF NothingKept, Size
  <2>3. QED
    BY <2>1, <2>2
<1>2. ASSUME NEW q \in Seq(Line), NEW l \in Line, q \in G
      PROVE  Append(q, l) \in G
  <2> DEFINE c == Scanned(q, pending)
             d == Scanned(Append(q, l), pending)
  <2>1. c \in Kept /\ d = CompactLine(c, l, pending)
    BY ScannedType, ScannedLonger
  <2>2. Append(q, l) \in Seq(Line) /\ Len(Append(q, l)) = Len(q) + 1 /\ Len(q) \in Nat
    OBVIOUS
  <2>3. d \in Kept
    BY <2>1, CompactLineType
  <2>4. Size(c) <= Len(q)
    BY <1>2
  <2> HIDE DEF c, d
  <2>5. Size(c) \in Nat /\ Size(d) \in Nat /\ Size(d) <= Size(c) + 1
    BY <2>1, <2>3, SizeGrows
  <2>6. Size(d) <= Len(q) + 1
    BY <2>2, <2>4, <2>5
  <2>7. QED
    BY <2>2, <2>6 DEF d
<1> HIDE DEF G
<1>3. f \in G
  BY <1>1, <1>2, AllSequences
<1>4. PICK c : c = Scanned(f, pending)
  OBVIOUS
<1>5. c \in Kept /\ Size(c) <= Len(f)
  BY <1>3, <1>4, ScannedType DEF G
<1>6. /\ c.spans \in Seq(SpanLine) /\ c.keep \in Seq(SealedLine)
      /\ Len(c.spans) + Len(c.keep) <= Len(f)
  BY <1>5 DEF Kept, Size
<1>7. c.spans \in Seq(Line) /\ c.keep \in Seq(Line)
  BY <1>6, SpanAndSealedLines
<1>8. Compacted(f, pending) = c.keep \o c.spans
  BY <1>4, CompactedIs
<1>9. /\ c.keep \o c.spans \in Seq(Line)
      /\ Len(c.keep \o c.spans) = Len(c.keep) + Len(c.spans)
      /\ Len(c.keep) \in Nat /\ Len(c.spans) \in Nat /\ Len(f) \in Nat
  BY <1>7
<1>10. \A m, n, k \in Nat : m + n <= k => n + m <= k
  OBVIOUS
<1>11. Len(c.keep) + Len(c.spans) <= Len(f)
  BY <1>6, <1>9, <1>10, Zenon
<1>12. QED
  BY <1>8, <1>9, <1>11

-----------------------------------------------------------------------------
(* Replaying what Compact wrote.                                           *)

LEMMA ReplaySpan ==
  ASSUME NEW f \in Seq(Line), NEW t \in Traces, NEW r \in Records
  PROVE  /\ Replay(Append(f, Span(t, r))).buffers = WithSpan(Replay(f).buffers, t, r)
         /\ Replay(Append(f, Span(t, r))).pending = Replay(f).pending
<1>1. Span(t, r) \in Line
  BY SpanAndSealedLines
<1>2. Replay(Append(f, Span(t, r))) = ReplayLine(Replay(f), Span(t, r))
  BY <1>1, ReplayLonger
<1>3. QED
  BY <1>2, ReplayType, ReplayLineSpan

LEMMA ReplaySealed ==
  ASSUME NEW f \in Seq(Line), NEW t \in Traces, NEW h \in Hashes \cup {NoHash}
  PROVE  /\ Replay(Append(f, Sealed(t, h))).buffers = Without(Replay(f).buffers, t)
         /\ Replay(Append(f, Sealed(t, h))).pending = WithTip(Replay(f).pending, t, h)
<1>1. Sealed(t, h) \in Line
  BY SpanAndSealedLines
<1>2. Replay(Append(f, Sealed(t, h))) = ReplayLine(Replay(f), Sealed(t, h))
  BY <1>1, ReplayLonger
<1>3. QED
  BY <1>2, ReplayType, ReplayLineSealed

LEMMA ReplayUnparseable ==
  ASSUME NEW f \in Seq(Line)
  PROVE  Replay(Append(f, Unparseable)) = Replay(f)
<1>1. Replay(Append(f, Unparseable)) = ReplayLine(Replay(f), Unparseable)
  BY SpanAndSealedLines, ReplayLonger
<1>2. QED
  BY <1>1, ReplayLineUnparseable

LEMMA ReplayTyped ==
  ASSUME NEW f \in Seq(Line)
  PROVE  Replay(f).buffers \in [Traces -> Seq(Records)] /\ Replay(f).pending \in Seq(Tip)
BY ReplayType DEF Scan

LEMMA AppendAfter ==
  ASSUME NEW X, NEW f \in Seq(X), NEW s \in Seq(X), NEW x \in X
  PROVE  /\ f \o Append(s, x) = Append(f \o s, x)
         /\ f \o s \in Seq(X) /\ f \o <<>> = f
OBVIOUS

(* Spans after lines that left nothing in progress.                        *)
LEMMA ReplayApart ==
  ASSUME NEW f \in Seq(Line), Replay(f).buffers = NothingYet.buffers,
         NEW s \in Seq(SpanLine)
  PROVE  /\ Replay(f \o s).buffers = Replay(s).buffers
         /\ Replay(f \o s).pending = Replay(f).pending
<1> DEFINE G == {q \in Seq(SpanLine) :
                   /\ Replay(f \o q).buffers = Replay(q).buffers
                   /\ Replay(f \o q).pending = Replay(f).pending}
<1>1. <<>> \in G
  <2>1. f \o <<>> = f /\ <<>> \in Seq(SpanLine)
    BY AppendAfter
  <2>2. Replay(<<>>).buffers = Replay(f).buffers
    BY ReplayEmpty
  <2>3. QED
    BY <2>1, <2>2
<1>2. ASSUME NEW q \in Seq(SpanLine), NEW l \in SpanLine, q \in G
      PROVE  Append(q, l) \in G
  <2>1. PICK t \in Traces, r \in Records : l = Span(t, r)
    BY SpanAndSealedLines
  <2>2. q \in Seq(Line) /\ l \in Line
    BY SpanAndSealedLines
  <2>3. f \o Append(q, l) = Append(f \o q, l) /\ f \o q \in Seq(Line)
    BY <2>2, AppendAfter
  <2>4. /\ Replay(f \o q).buffers = Replay(q).buffers
        /\ Replay(f \o q).pending = Replay(f).pending
    BY <1>2
  <2> HIDE DEF G
  <2>5. /\ Replay(Append(f \o q, l)).buffers = WithSpan(Replay(f \o q).buffers, t, r)
        /\ Replay(Append(f \o q, l)).pending = Replay(f \o q).pending
    BY <2>1, <2>3, ReplaySpan
  <2>6. Replay(Append(q, l)).buffers = WithSpan(Replay(q).buffers, t, r)
    BY <2>1, <2>2, ReplaySpan
  <2>7. /\ Replay(f \o Append(q, l)).buffers = Replay(Append(q, l)).buffers
        /\ Replay(f \o Append(q, l)).pending = Replay(f).pending
    BY <2>3, <2>4, <2>5, <2>6
  <2>8. Append(q, l) \in Seq(SpanLine)
    OBVIOUS
  <2>9. QED
    BY <2>7, <2>8 DEF G
<1> HIDE DEF G
<1>3. s \in G
  BY <1>1, <1>2, AllSequences
<1>4. QED
  BY <1>3 DEF G

(* Without the spans of t, nothing of t is in progress.                    *)
LEMMA DropSpans ==
  ASSUME NEW t \in Traces, NEW s \in Seq(SpanLine)
  PROVE  Replay(Select(s, SpansOf(Traces \ {t}))).buffers =
           Without(Replay(s).buffers, t)
<1> DEFINE S == SpansOf(Traces \ {t})
           G == {q \in Seq(SpanLine) :
                   Replay(Select(q, S)).buffers = Without(Replay(q).buffers, t)}
<1>1. <<>> \in G
  <2>1. Replay(Select(<<>>, S)).buffers = Without(Replay(<<>>).buffers, t)
    BY SelectEmpty, ReplayEmpty DEF NothingYet, Without
  <2>2. QED
    BY <2>1
<1>2. ASSUME NEW q \in Seq(SpanLine), NEW l \in SpanLine, q \in G
      PROVE  Append(q, l) \in G
  <2>1. PICK u \in Traces, r \in Records : l = Span(u, r)
    BY SpanAndSealedLines
  <2>2. q \in Seq(Line) /\ Append(q, l) \in Seq(SpanLine)
    BY SpanAndSealedLines
  <2>3. Replay(Select(q, S)).buffers = Without(Replay(q).buffers, t)
    BY <1>2
  <2>4. (l \in S) <=> (u # t)
    BY <2>1 DEF SpansOf, Span
  <2> HIDE DEF G, S
  <2>5. Select(q, S) \in Seq(SpanLine)
    BY SelectType
  <2>6. Select(q, S) \in Seq(Line)
    BY <2>5, SpanAndSealedLines
  <2>7. /\ l \in S => Select(Append(q, l), S) = Append(Select(q, S), l)
        /\ l \notin S => Select(Append(q, l), S) = Select(q, S)
    BY SelectLonger
  <2>8. /\ Replay(q).buffers \in [Traces -> Seq(Records)]
        /\ Replay(Append(q, l)).buffers = WithSpan(Replay(q).buffers, u, r)
    BY <2>1, <2>2, ReplayTyped, ReplaySpan
  <2>9. CASE u = t
    <3>1. Replay(Select(Append(q, l), S)).buffers = Without(Replay(q).buffers, t)
      BY <2>3, <2>4, <2>7, <2>9
    <3>2. Replay(Select(Append(q, l), S)).buffers =
            Without(Replay(Append(q, l)).buffers, t)
      BY <2>8, <2>9, <3>1 DEF Without, WithSpan
    <3>3. QED
      BY <2>2, <3>2 DEF G
  <2>10. CASE u # t
    <3>1. Replay(Select(Append(q, l), S)).buffers =
            WithSpan(Replay(Select(q, S)).buffers, u, r)
      BY <2>1, <2>4, <2>6, <2>7, <2>10, ReplaySpan
    <3>2. Replay(Select(Append(q, l), S)).buffers =
            Without(Replay(Append(q, l)).buffers, t)
      BY <2>3, <2>8, <2>10, <3>1 DEF Without, WithSpan
    <3>3. QED
      BY <2>2, <3>2 DEF G
  <2>11. QED
    BY <2>9, <2>10
<1> HIDE DEF G
<1>3. s \in G
  BY <1>1, <1>2, AllSequences
<1>4. QED
  BY <1>3 DEF G

(* What the scan keeps of f, replayed.                                     *)
KeepsReplay(f, c, pending) ==
  /\ Replay(c.spans).buffers = Replay(f).buffers
  /\ Replay(c.keep).buffers = NothingYet.buffers
  /\ Replay(c.keep).pending = Select(Replay(f).pending, pending)

LEMMA ScanKeepsReplay ==
  ASSUME NEW f \in Seq(Line), NEW pending \in SUBSET Tip
  PROVE  KeepsReplay(f, Scanned(f, pending), pending)
<1> DEFINE G == {q \in Seq(Line) : KeepsReplay(q, Scanned(q, pending), pending)}
<1>1. <<>> \in G
  <2>1. Scanned(<<>>, pending) = NothingKept /\ <<>> \in Seq(Line)
    BY ScannedEmpty
  <2>2. KeepsReplay(<<>>, NothingKept, pending)
    BY ReplayEmpty, SelectEmpty DEF KeepsReplay, NothingKept, NothingYet
  <2>3. QED
    BY <2>1, <2>2
<1>2. ASSUME NEW q \in Seq(Line), NEW l \in Line, q \in G
      PROVE  Append(q, l) \in G
  <2>1. PICK c \in Kept : c = Scanned(q, pending)
    BY ScannedType
  <2> DEFINE d == CompactLine(c, l, pending)
  <2>0. d = Scanned(Append(q, l), pending)
    BY <2>1, ScannedLonger
  <2>2. KeepsReplay(q, c, pending)
    BY <1>2, <2>1
  <2>3. /\ c.spans \in Seq(Line) /\ c.keep \in Seq(Line)
        /\ c.spans \in Seq(SpanLine) /\ c.keep \in Seq(SealedLine)
    BY SpanAndSealedLines DEF Kept
  <2>4. /\ Replay(q).buffers \in [Traces -> Seq(Records)] /\ Replay(q).pending \in Seq(Tip)
        /\ Replay(c.keep).buffers \in [Traces -> Seq(Records)]
    BY <2>3, ReplayTyped
  <2> HIDE DEF G
  <2>5. ASSUME NEW t \in Traces, NEW r \in Records, l = Span(t, r)
        PROVE  KeepsReplay(Append(q, l), d, pending)
    <3>1. d.spans = Append(c.spans, l) /\ d.keep = c.keep
      BY <2>5, CompactSpan
    <3>2. /\ Replay(d.spans).buffers = WithSpan(Replay(c.spans).buffers, t, r)
          /\ Replay(Append(q, l)).buffers = WithSpan(Replay(q).buffers, t, r)
          /\ Replay(Append(q, l)).pending = Replay(q).pending
      BY <2>3, <2>5, <3>1, ReplaySpan
    <3>3. QED
      BY <2>2, <3>1, <3>2 DEF KeepsReplay
  <2>6. ASSUME NEW t \in Traces, NEW h \in Hashes \cup {NoHash}, l = Sealed(t, h)
        PROVE  KeepsReplay(Append(q, l), d, pending)
    <3> DEFINE k == [trace |-> t, hash |-> h]
    <3>0. d = AfterSealed(c, t, h, pending)
      BY <2>6, CompactSealed
    <3>1. /\ d.spans = Select(c.spans, SpansOf(Traces \ {t}))
          /\ k \in pending => d.keep = Append(c.keep, l)
          /\ k \notin pending => d.keep = c.keep
      <4> HIDE DEF d
      <4>1. QED
        BY <2>6, <3>0 DEF AfterSealed
    <3>2. /\ Replay(Append(q, l)).buffers = Without(Replay(q).buffers, t)
          /\ Replay(Append(q, l)).pending = WithTip(Replay(q).pending, t, h)
      BY <2>6, ReplaySealed
    <3>3. Replay(d.spans).buffers = Replay(Append(q, l)).buffers
      BY <2>2, <2>3, <3>1, <3>2, DropSpans DEF KeepsReplay
    <3> HIDE DEF d
    <3>4. /\ k \in pending => h # NoHash
          /\ h # NoHash => k \in Tip
      BY WalAssumption DEF Tip
    <3>5. /\ h # NoHash => WithTip(Replay(q).pending, t, h) = Append(Replay(q).pending, k)
          /\ h = NoHash => WithTip(Replay(q).pending, t, h) = Replay(q).pending
          /\ h # NoHash => WithTip(Replay(c.keep).pending, t, h) = Append(Replay(c.keep).pending, k)
      BY DEF WithTip
    <3> HIDE DEF k
    <3>6. h # NoHash =>
            /\ k \in pending => Select(Append(Replay(q).pending, k), pending) =
                                 Append(Select(Replay(q).pending, pending), k)
            /\ k \notin pending => Select(Append(Replay(q).pending, k), pending) =
                                    Select(Replay(q).pending, pending)
      BY <2>4, <3>4, SelectLonger
    <3>7. CASE k \in pending
      <4>1. d.keep = Append(c.keep, l) /\ h # NoHash
        BY <3>1, <3>4, <3>7
      <4>2. /\ Replay(d.keep).buffers = Without(Replay(c.keep).buffers, t)
            /\ Replay(d.keep).pending = WithTip(Replay(c.keep).pending, t, h)
        BY <2>3, <2>6, <4>1, ReplaySealed
      <4>3. Replay(d.keep).buffers = NothingYet.buffers
        BY <2>2, <4>2 DEF KeepsReplay, NothingYet, Without
      <4>4. Replay(d.keep).pending = Select(Replay(Append(q, l)).pending, pending)
        BY <2>2, <3>2, <3>5, <3>6, <3>7, <4>1, <4>2 DEF KeepsReplay
      <4>5. QED
        BY <3>3, <4>3, <4>4 DEF KeepsReplay
    <3>8. CASE k \notin pending
      <4>1. d.keep = c.keep
        BY <3>1, <3>8
      <4>2. Select(Replay(Append(q, l)).pending, pending) = Select(Replay(q).pending, pending)
        <5>1. CASE h = NoHash
          BY <3>2, <3>5, <5>1
        <5>2. CASE h # NoHash
          <6>1. Replay(Append(q, l)).pending = Append(Replay(q).pending, k)
            BY <3>2, <3>5, <5>2
          <6>2. QED
            BY <3>6, <3>8, <5>2, <6>1
        <5>3. QED
          BY <5>1, <5>2
      <4>3. QED
        BY <2>2, <3>3, <4>1, <4>2 DEF KeepsReplay
    <3>9. QED
      BY <3>7, <3>8
  <2>7. ASSUME l = Unparseable
        PROVE  KeepsReplay(Append(q, l), d, pending)
    <3>1. d = c
      BY <2>7, CompactUnparseable
    <3>2. Replay(Append(q, l)) = Replay(q)
      BY <2>7, ReplayUnparseable
    <3>3. QED
      BY <2>2, <3>1, <3>2 DEF KeepsReplay
  <2>8. KeepsReplay(Append(q, l), d, pending)
    BY <2>5, <2>6, <2>7, Lines
  <2>9. Append(q, l) \in Seq(Line)
    OBVIOUS
  <2>10. QED
    BY <2>0, <2>8, <2>9 DEF G
<1> HIDE DEF G
<1>3. f \in G
  BY <1>1, <1>2, AllSequences
<1>4. QED
  BY <1>3 DEF G

LEMMA CompactedReplay ==
  ASSUME NEW f \in Seq(Line), NEW pending \in SUBSET Tip
  PROVE  /\ Replay(Compacted(f, pending)).buffers = Replay(f).buffers
         /\ Replay(Compacted(f, pending)).pending = Select(Replay(f).pending, pending)
<1>1. PICK c : c = Scanned(f, pending)
  OBVIOUS
<1>2. KeepsReplay(f, c, pending) /\ Compacted(f, pending) = c.keep \o c.spans
  BY <1>1, ScanKeepsReplay, CompactedIs
<1>3. c.spans \in Seq(SpanLine) /\ c.keep \in Seq(SealedLine)
  BY <1>1, ScannedType DEF Kept
<1>4. c.keep \in Seq(Line)
  BY <1>3, SpanAndSealedLines
<1>5. /\ Replay(c.keep \o c.spans).buffers = Replay(c.spans).buffers
      /\ Replay(c.keep \o c.spans).pending = Replay(c.keep).pending
  BY <1>2, <1>3, <1>4, ReplayApart DEF KeepsReplay
<1>6. QED
  BY <1>2, <1>5 DEF KeepsReplay

-----------------------------------------------------------------------------
(* Types.                                                                  *)

LEMMA AppendedType ==
  ASSUME TypeOK, HasRoom, NEW l \in Line
  PROVE  /\ Appended(l) \in Seq(Line) /\ Len(Appended(l)) <= MaxLines
         /\ synced < Len(Appended(l)) /\ synced \in 0 .. Len(Appended(l))
         /\ Len(Appended(l)) \in Nat
<1>1. /\ file \in Seq(Line) /\ Len(file) \in Nat /\ synced \in 0 .. Len(file)
      /\ torn => synced < Len(file)
      /\ Len(file) < MaxLines /\ MaxLines \in Nat /\ Unparseable \in Line
  BY WalAssumption, SpanAndSealedLines DEF TypeOK, HasRoom
<1>2. CASE torn
  <2>1. Appended(l) = [file EXCEPT ![Len(file)] = Unparseable] /\ Len(file) \in 1 .. Len(file)
    BY <1>1, <1>2 DEF Appended
  <2>2. Appended(l) \in Seq(Line) /\ Len(Appended(l)) = Len(file)
    BY <1>1, <2>1
  <2>3. QED
    BY <1>1, <1>2, <2>2
<1>3. CASE ~torn
  <2>1. Appended(l) = Append(file, l)
    BY <1>3 DEF Appended
  <2>2. Appended(l) \in Seq(Line) /\ Len(Appended(l)) = Len(file) + 1
    BY <1>1, <2>1
  <2>3. QED
    BY <1>1, <2>2
<1>4. QED
  BY <1>2, <1>3

LEMMA ReplacedType ==
  ASSUME TypeOK, NEW pending, ReplaceFile(pending)
  PROVE  /\ file' \in Seq(Line) /\ Len(file') <= MaxLines /\ Len(file') \in Nat
         /\ torn' = FALSE /\ synced' = Len(file')
<1>1. file \in Seq(Line) /\ Len(file) <= MaxLines /\ MaxLines \in Nat
  BY WalAssumption DEF TypeOK
<1>2. file' \in Seq(Line) /\ Len(file') <= Len(file)
  BY <1>1, CompactedType DEF ReplaceFile
<1>3. Len(file') \in Nat /\ Len(file) \in Nat
  BY <1>1, <1>2
<1>4. QED
  BY <1>1, <1>2, <1>3 DEF ReplaceFile, SyncedRewritten

LEMMA ReplacedSynced ==
  ASSUME TypeOK, NEW pending, ReplaceFile(pending)
  PROVE  synced' \in 0 .. Len(file') /\ (torn' => synced' < Len(file')) /\ torn' \in BOOLEAN
<1>1. Len(file') \in Nat /\ synced' = Len(file') /\ torn' = FALSE
  BY ReplacedType
<1>2. \A n \in Nat : n \in 0 .. n
  OBVIOUS
<1>3. QED
  BY <1>1, <1>2

LEMMA TypeInit == Init => TypeOK
<1>1. <<>> \in Seq(Line) /\ Len(<<>>) = 0 /\ 0 <= MaxLines /\ 0 \in 0 .. 0
  BY WalAssumption
<1>2. QED
  BY <1>1 DEF Init, TypeOK

(* A write that a step makes: all of it or a part of it.                   *)
Written(l) == WriteAll(l) \/ WriteShort(l)

LEMMA WrittenType ==
  ASSUME TypeOK, NEW l \in Line, Written(l)
  PROVE  /\ file' \in Seq(Line) /\ Len(file') <= MaxLines /\ Len(file') \in Nat
         /\ torn' \in BOOLEAN /\ synced < Len(file') /\ synced \in 0 .. Len(file')
<1>1. CASE WriteAll(l)
  BY <1>1, AppendedType DEF WriteAll
<1>2. CASE WriteShort(l)
  <2>1. PICK part \in {Unparseable, l} : file' = Appended(part)
    BY <1>2 DEF WriteShort
  <2>2. part \in Line /\ HasRoom /\ torn' = TRUE
    BY <1>2, <2>1, SpanAndSealedLines DEF WriteShort
  <2>3. QED
    BY <2>1, <2>2, AppendedType
<1>3. QED
  BY <1>1, <1>2 DEF Written

LEMMA PowerLossFile ==
  ASSUME TypeOK, PowerLoss
  PROVE  \E n \in synced .. Len(file) - 1 :
           /\ n \in Nat /\ synced <= n /\ n + 1 <= Len(file)
           /\ SubSeq(file, 1, n) \in Seq(Line)
           /\ \/ file' = SubSeq(file, 1, n) /\ Len(file') = n /\ torn' = FALSE
              \/ /\ torn' = TRUE /\ Len(file') = n + 1
                 /\ \E part \in {Unparseable, file[n + 1]} :
                      part \in Line /\ file' = Append(SubSeq(file, 1, n), part)
<1>1. file \in Seq(Line) /\ Len(file) \in Nat /\ synced \in 0 .. Len(file)
  BY DEF TypeOK
<1>2. PICK n \in synced .. Len(file) - 1 :
        \/ file' = SubSeq(file, 1, n) /\ torn' = FALSE
        \/ \E part \in {Unparseable, file[n + 1]} :
             file' = Append(SubSeq(file, 1, n), part) /\ torn' = TRUE
  BY DEF PowerLoss
<1>3. n \in Nat /\ n + 1 \in 1 .. Len(file) /\ synced <= n /\ n + 1 <= Len(file)
  BY <1>1
<1>4. SubSeq(file, 1, n) \in Seq(Line) /\ Len(SubSeq(file, 1, n)) = n /\ file[n + 1] \in Line
  BY <1>1, <1>3
<1>5. CASE file' = SubSeq(file, 1, n) /\ torn' = FALSE
  BY <1>3, <1>4, <1>5
<1>6. ASSUME NEW part \in {Unparseable, file[n + 1]},
             file' = Append(SubSeq(file, 1, n), part), torn' = TRUE
      PROVE  part \in Line /\ Len(file') = n + 1
  <2>1. part \in Line
    BY <1>4, SpanAndSealedLines
  <2>2. QED
    BY <1>4, <1>6, <2>1, ToSetAppend
<1>7. CASE \E part \in {Unparseable, file[n + 1]} :
             file' = Append(SubSeq(file, 1, n), part) /\ torn' = TRUE
  BY <1>3, <1>4, <1>6, <1>7
<1>8. QED
  BY <1>2, <1>5, <1>7

LEMMA TypeStep == TypeOK /\ [Next]_vars => TypeOK'
<1> SUFFICES ASSUME TypeOK, [Next]_vars PROVE TypeOK'
  OBVIOUS
<1>1. /\ file \in Seq(Line) /\ Len(file) <= MaxLines /\ torn \in BOOLEAN /\ fdOpen \in BOOLEAN
      /\ up \in BOOLEAN /\ synced \in 0 .. Len(file) /\ (torn => synced < Len(file))
      /\ closed \subseteq Traces /\ promised \subseteq Tip /\ Len(file) \in Nat
  BY DEF TypeOK
<1>2. ASSUME NEW t \in Traces, NEW r \in Records, AppendSpan(t, r)
      PROVE  TypeOK'
  <2>1. Span(t, r) \in Line /\ Written(Span(t, r))
    BY <1>2, SpanAndSealedLines DEF AppendSpan, Written
  <2>2. /\ file' \in Seq(Line) /\ Len(file') <= MaxLines /\ Len(file') \in Nat
        /\ torn' \in BOOLEAN /\ synced < Len(file') /\ synced \in 0 .. Len(file')
    BY <2>1, WrittenType
  <2>3. synced' \in 0 .. Len(file') /\ synced' < Len(file')
    <3>1. synced' = synced
      BY <1>2 DEF AppendSpan
    <3>2. QED
      BY <2>2, <3>1
  <2>4. fdOpen' \in BOOLEAN /\ up' \in BOOLEAN /\ closed' \subseteq Traces /\ promised' \subseteq Tip
    BY <1>1, <1>2 DEF AppendSpan
  <2>5. QED
    BY <2>2, <2>3, <2>4 DEF TypeOK
<1>3. ASSUME NEW t \in Traces, NEW h \in Hashes \cup {NoHash}, MarkSealed(t, h)
      PROVE  TypeOK'
  <2>1. Sealed(t, h) \in Line /\ Written(Sealed(t, h))
    BY <1>3, SpanAndSealedLines DEF MarkSealed, SealAcked, SealFailed, Written
  <2>2. /\ file' \in Seq(Line) /\ Len(file') <= MaxLines /\ Len(file') \in Nat
        /\ torn' \in BOOLEAN /\ synced < Len(file') /\ synced \in 0 .. Len(file')
    BY <2>1, WrittenType
  <2>3. fdOpen' \in BOOLEAN /\ up' \in BOOLEAN
    BY <1>1, <1>3 DEF MarkSealed
  <2>4. CASE SealAcked(t, h)
    <3>1. torn' = FALSE /\ synced' = Len(file') /\ closed' \subseteq Traces
      BY <1>1, <2>4 DEF SealAcked, WriteAll, AllSynced
    <3>2. h # NoHash => [trace |-> t, hash |-> h] \in Tip
      BY DEF Tip
    <3>3. promised' \subseteq Tip
      BY <1>1, <2>4, <3>2 DEF SealAcked
    <3>4. synced' \in 0 .. Len(file') /\ (torn' => synced' < Len(file'))
      BY <2>2, <3>1
    <3>5. QED
      BY <2>2, <2>3, <3>1, <3>3, <3>4 DEF TypeOK
  <2>5. CASE SealFailed(t, h)
    <3>1. synced' = synced /\ closed' \subseteq Traces /\ promised' \subseteq Tip
      BY <1>1, <2>5 DEF SealFailed
    <3>2. synced' \in 0 .. Len(file') /\ synced' < Len(file')
      BY <2>2, <3>1
    <3>3. QED
      BY <2>2, <2>3, <3>1, <3>2 DEF TypeOK
  <2>6. QED
    BY <1>3, <2>4, <2>5 DEF MarkSealed
<1>4. ASSUME NEW pending \in SUBSET Tip, Compact(pending)
      PROVE  TypeOK'
  <2>1. ReplaceFile(pending)
    BY <1>4 DEF Compact
  <2>2. file' \in Seq(Line) /\ Len(file') <= MaxLines
    BY <2>1, ReplacedType
  <2>3. synced' \in 0 .. Len(file') /\ (torn' => synced' < Len(file')) /\ torn' \in BOOLEAN
    BY <2>1, ReplacedSynced
  <2>4. fdOpen' \in BOOLEAN /\ up' \in BOOLEAN /\ closed' \subseteq Traces /\ promised' \subseteq Tip
    BY <1>1, <1>4 DEF Compact
  <2>5. QED
    BY <2>2, <2>3, <2>4 DEF TypeOK
<1>5. CASE Crash
  BY <1>1, <1>5 DEF Crash, TypeOK
<1>6. CASE PowerLoss
  <2>1. PICK n \in synced .. Len(file) - 1 :
          /\ n \in Nat /\ synced <= n /\ n + 1 <= Len(file)
          /\ SubSeq(file, 1, n) \in Seq(Line)
          /\ \/ file' = SubSeq(file, 1, n) /\ Len(file') = n /\ torn' = FALSE
             \/ /\ torn' = TRUE /\ Len(file') = n + 1
                /\ \E part \in {Unparseable, file[n + 1]} :
                     part \in Line /\ file' = Append(SubSeq(file, 1, n), part)
    BY <1>6, PowerLossFile
  <2>2. file' \in Seq(Line) /\ torn' \in BOOLEAN
    <3>1. ASSUME NEW part, part \in Line, file' = Append(SubSeq(file, 1, n), part)
          PROVE  file' \in Seq(Line)
      BY <2>1, <3>1, ToSetAppend
    <3>2. QED
      BY <2>1, <3>1
  <2>3. synced' = synced /\ synced <= n /\ 0 <= synced /\ synced \in Int /\ n + 1 <= MaxLines
    <3>1. synced' = synced
      BY <1>6 DEF PowerLoss
    <3>2. n + 1 <= Len(file) /\ synced <= n /\ synced \in Int /\ 0 <= synced
      <4>1. n + 1 <= Len(file) /\ synced <= n
        BY <2>1
      <4>2. synced \in Int /\ 0 <= synced
        BY <1>1
      <4>3. QED
        BY <4>1, <4>2
    <3>3. \A i, j, k \in Nat : i <= j /\ j <= k => i <= k
      OBVIOUS
    <3>4. n + 1 \in Nat /\ MaxLines \in Nat
      BY <2>1, WalAssumption
    <3>5. n + 1 <= MaxLines
      BY <1>1, <3>2, <3>3, <3>4
    <3>6. QED
      BY <3>1, <3>2, <3>5
  <2>4. Len(file') \in {n, n + 1} /\ (torn' => Len(file') = n + 1)
    BY <2>1
  <2>5. /\ Len(file') <= MaxLines /\ synced' \in 0 .. Len(file')
        /\ torn' => synced' < Len(file')
    BY <2>1, <2>3, <2>4, WalAssumption
  <2>6. fdOpen' \in BOOLEAN /\ up' \in BOOLEAN /\ closed' \subseteq Traces /\ promised' \subseteq Tip
    BY <1>1, <1>6 DEF PowerLoss
  <2>7. QED
    BY <2>2, <2>5, <2>6 DEF TypeOK
<1>7. CASE Start
  <2>1. up' \in BOOLEAN /\ fdOpen' \in BOOLEAN /\ closed' \subseteq Traces /\ promised' \subseteq Tip
    BY <1>1, <1>7 DEF Start
  <2>2. CASE \E pending : ReplaceFile(pending)
    <3>1. PICK pending : ReplaceFile(pending)
      BY <2>2
    <3>2. file' \in Seq(Line) /\ Len(file') <= MaxLines
      BY <3>1, ReplacedType
    <3>3. synced' \in 0 .. Len(file') /\ (torn' => synced' < Len(file')) /\ torn' \in BOOLEAN
      BY <3>1, ReplacedSynced
    <3>4. QED
      BY <2>1, <3>2, <3>3 DEF TypeOK
  <2>3. CASE UNCHANGED <<file, torn, synced>>
    BY <1>1, <2>1, <2>3 DEF TypeOK
  <2>4. QED
    BY <1>7, <2>2, <2>3 DEF Start
<1>8. CASE UNCHANGED vars
  BY <1>1, <1>8 DEF TypeOK, vars
<1>9. QED
  BY <1>2, <1>3, <1>4, <1>5, <1>6, <1>7, <1>8 DEF Next

(* The file is a sequence of lines no longer than its bound, and its       *)
(* durable part is a part of it (wal.go, all methods).                     *)
THEOREM TypeCorrect == Spec => []TypeOK
<1>1. QED
  BY TypeInit, TypeStep, PTL DEF Spec

(* Rewriting the file at any time, for any set of pending tips, changes    *)
(* nothing that is in progress and forgets exactly the tips that are not   *)
(* pending (wal.go Compact).                                               *)
THEOREM CompactionFaithful == Spec => []CompactKeepsReplay
<1>1. TypeOK => CompactKeepsReplay
  <2>1. ASSUME TypeOK, NEW pending \in SUBSET Tip
        PROVE  /\ Replay(Compacted(file, pending)).buffers = Replay(file).buffers
               /\ Replay(Compacted(file, pending)).pending =
                    Select(Replay(file).pending, pending)
    BY <2>1, CompactedReplay DEF TypeOK
  <2>2. QED
    BY <2>1 DEF CompactKeepsReplay
<1>2. QED
  BY <1>1, TypeCorrect, PTL

-----------------------------------------------------------------------------
(* What is in progress: the spans after the last sealed marker.            *)

SealsHere(l, t) == l.type = "sealed" /\ l.trace = t
SealPlaces(f, t) == {0} \cup {i \in DOMAIN f : SealsHere(f[i], t)}

LEMMA MaxIs ==
  ASSUME NEW n \in Nat, NEW s \in SUBSET (0 .. n), NEW m \in s, \A y \in s : y <= m
  PROVE  Max(s) = m
<1>1. Max(s) \in s /\ m <= Max(s)
  BY Greatest
<1>2. Max(s) <= m /\ Max(s) \in 0 .. n /\ m \in 0 .. n
  BY <1>1
<1>3. \A i, j \in 0 .. n : i <= j /\ j <= i => i = j
  OBVIOUS
<1>4. QED
  BY <1>1, <1>2, <1>3

LEMMA LastSealIs ==
  ASSUME NEW f \in Seq(Line), NEW t
  PROVE  /\ LastSeal(f, t) = Max(SealPlaces(f, t)) /\ LastSeal(f, t) \in SealPlaces(f, t)
         /\ LastSeal(f, t) \in 0 .. Len(f)
         /\ \A y \in SealPlaces(f, t) : y <= LastSeal(f, t)
<1>1. LastSeal(f, t) = Max(SealPlaces(f, t))
  BY DEF LastSeal, SealPlaces, SealsHere
<1>2. SealPlaces(f, t) \in SUBSET (0 .. Len(f)) /\ SealPlaces(f, t) # {} /\ Len(f) \in Nat
  BY DEF SealPlaces
<1>3. /\ Max(SealPlaces(f, t)) \in SealPlaces(f, t)
      /\ \A y \in SealPlaces(f, t) : y <= Max(SealPlaces(f, t))
  BY <1>2, Greatest
<1>4. QED
  BY <1>1, <1>2, <1>3

LEMMA LastSealLonger ==
  ASSUME NEW f \in Seq(Line), NEW l \in Line, NEW t
  PROVE  /\ SealsHere(l, t) => LastSeal(Append(f, l), t) = Len(f) + 1
         /\ ~SealsHere(l, t) => LastSeal(Append(f, l), t) = LastSeal(f, t)
<1> DEFINE e == Append(f, l)
           n == Len(f)
<1>1. /\ e \in Seq(Line) /\ n \in Nat /\ DOMAIN f = 1 .. n /\ DOMAIN e = 1 .. n + 1
      /\ e[n + 1] = l /\ (\A i \in 1 .. n : e[i] = f[i]) /\ Len(e) = n + 1
  BY Longer
<1>2. /\ LastSeal(f, t) \in SealPlaces(f, t) /\ LastSeal(f, t) \in 0 .. n
      /\ \A y \in SealPlaces(f, t) : y <= LastSeal(f, t)
  BY LastSealIs
<1> HIDE DEF e
<1>3. LastSeal(e, t) = Max(SealPlaces(e, t))
  BY <1>1, LastSealIs
<1> HIDE DEF n
<1>4. SealPlaces(e, t) = SealPlaces(f, t) \cup (IF SealsHere(l, t) THEN {n + 1} ELSE {})
  <2>1. 1 .. n + 1 = (1 .. n) \cup {n + 1}
    BY <1>1
  <2>2. QED
    BY <1>1, <2>1 DEF SealPlaces
<1>5. SealPlaces(e, t) \in SUBSET (0 .. n + 1) /\ n + 1 \in Nat
  BY <1>1 DEF SealPlaces
<1>6. ASSUME SealsHere(l, t)
      PROVE  LastSeal(e, t) = n + 1
  <2>1. n + 1 \in SealPlaces(e, t) /\ \A y \in SealPlaces(e, t) : y <= n + 1
    BY <1>4, <1>5, <1>6
  <2>2. QED
    BY <1>3, <1>5, <2>1, MaxIs
<1>7. ASSUME ~SealsHere(l, t)
      PROVE  LastSeal(e, t) = LastSeal(f, t)
  <2>1. SealPlaces(e, t) = SealPlaces(f, t)
    BY <1>4, <1>7
  <2>2. QED
    BY <1>2, <1>3, <1>5, <2>1, MaxIs
<1>8. QED
  BY <1>6, <1>7 DEF e, n

LEMMA SequenceIs ==
  ASSUME NEW X, NEW s \in Seq(X)
  PROVE  s = [i \in DOMAIN s |-> s[i]]
OBVIOUS

LEMMA Tails ==
  ASSUME NEW X, NEW f \in Seq(X), NEW x \in X, NEW m \in 0 .. Len(f)
  PROVE  /\ SubSeq(Append(f, x), m + 1, Len(f) + 1) = Append(SubSeq(f, m + 1, Len(f)), x)
         /\ SubSeq(f, m + 1, Len(f)) \in Seq(X)
         /\ SubSeq(Append(f, x), Len(f) + 1 + 1, Len(f) + 1) = <<>>
         /\ Len(Append(f, x)) = Len(f) + 1
<1> DEFINE n == Len(f)
           e == Append(f, x)
           b == SubSeq(f, m + 1, n)
<1>1. /\ e \in Seq(X) /\ n \in Nat /\ DOMAIN f = 1 .. n /\ DOMAIN e = 1 .. n + 1
      /\ e[n + 1] = x /\ (\A i \in 1 .. n : e[i] = f[i]) /\ Len(e) = n + 1
  BY Longer
<1>2. b \in Seq(X) /\ Len(b) = n - m /\ \A i \in 1 .. n - m : b[i] = f[i + m]
  OBVIOUS
<1>3. SubSeq(e, n + 1 + 1, n + 1) = <<>>
  BY <1>1
<1>4. Append(b, x) = [i \in 1 .. (n - m) + 1 |-> IF i = (n - m) + 1 THEN x ELSE b[i]]
  <2>1. b \in Seq(X) /\ Len(b) = n - m /\ Len(b) \in Nat
    BY <1>2
  <2> HIDE DEF n, e, b
  <2>2. PICK k \in Nat : k = Len(b)
    BY <2>1
  <2>3. /\ Append(b, x) \in Seq(X) /\ DOMAIN Append(b, x) = 1 .. k + 1
        /\ Append(b, x)[k + 1] = x /\ \A i \in 1 .. k : Append(b, x)[i] = b[i]
    BY <2>1, <2>2, Longer
  <2>4. \A i \in 1 .. k + 1 : Append(b, x)[i] = IF i = k + 1 THEN x ELSE b[i]
    BY <2>3
  <2>5. Append(b, x) = [i \in DOMAIN Append(b, x) |-> Append(b, x)[i]]
    BY <2>3, SequenceIs
  <2>6. Append(b, x) = [i \in 1 .. k + 1 |-> IF i = k + 1 THEN x ELSE b[i]]
    BY <2>3, <2>4, <2>5
  <2>7. QED
    BY <2>1, <2>2, <2>6
<1>5. SubSeq(e, m + 1, n + 1) = [i \in 1 .. (n - m) + 1 |-> e[i + m]]
  BY <1>1
<1>6. m \in 0 .. n
  OBVIOUS
<1> HIDE DEF n, e, b
<1>7. \A i \in 1 .. (n - m) + 1 : e[i + m] = IF i = (n - m) + 1 THEN x ELSE b[i]
  <2>1. ASSUME NEW i \in 1 .. (n - m) + 1, i # (n - m) + 1
        PROVE  e[i + m] = b[i]
    <3>1. i \in 1 .. n - m /\ i + m \in 1 .. n
      BY <1>1, <1>6, <2>1
    <3>2. QED
      BY <1>1, <1>2, <3>1
  <2>2. ((n - m) + 1) + m = n + 1
    BY <1>1, <1>6
  <2>3. QED
    BY <1>1, <2>1, <2>2
<1>8. SubSeq(e, m + 1, n + 1) = Append(b, x)
  BY <1>4, <1>5, <1>7
<1>9. QED
  BY <1>1, <1>2, <1>3, <1>8 DEF n, e, b

Recs(s) == [i \in DOMAIN s |-> s[i].rec]

LEMMA RecsLonger ==
  ASSUME NEW X, NEW s \in Seq(X), NEW x \in X
  PROVE  Recs(Append(s, x)) = Append(Recs(s), x.rec)
<1> DEFINE R == {y.rec : y \in X}
<1>1. Recs(s) \in Seq(R) /\ x.rec \in R /\ Len(Recs(s)) = Len(s)
  BY DEF Recs
<1>2. /\ Append(s, x) \in Seq(X) /\ Len(Append(s, x)) = Len(s) + 1
      /\ DOMAIN s = 1 .. Len(s) /\ DOMAIN Append(s, x) = 1 .. Len(s) + 1 /\ Len(s) \in Nat
      /\ Append(s, x)[Len(s) + 1] = x /\ \A i \in 1 .. Len(s) : Append(s, x)[i] = s[i]
  BY Longer
<1>3. /\ Append(Recs(s), x.rec) = [i \in 1 .. Len(s) + 1 |->
                                     IF i = Len(s) + 1 THEN x.rec ELSE Recs(s)[i]]
  BY <1>1
<1>4. \A i \in 1 .. Len(s) + 1 :
        Append(s, x)[i].rec = IF i = Len(s) + 1 THEN x.rec ELSE Recs(s)[i]
  BY <1>2 DEF Recs
<1>5. QED
  BY <1>2, <1>3, <1>4 DEF Recs

LEMMA InProgressIs ==
  ASSUME NEW t \in Traces, NEW f \in Seq(Line)
  PROVE  Replay(f).buffers[t] = Recs(InProgress(f, t))
<1> DEFINE S == SpansOf({t})
           G == {q \in Seq(Line) : Replay(q).buffers[t] = Recs(InProgress(q, t))}
<1>0. Recs(<<>>) = <<>>
  BY DEF Recs
<1>1. <<>> \in G
  <2>1. <<>> \in Seq(Line) /\ SubSeq(<<>>, LastSeal(<<>>, t) + 1, Len(<<>>)) = <<>>
    <3>1. <<>> \in Seq(Line) /\ Len(<<>>) = 0
      OBVIOUS
    <3>2. LastSeal(<<>>, t) \in 0 .. 0
      BY <3>1, LastSealIs
    <3>3. SubSeq(<<>>, 1, 0) = <<>> /\ 0 .. 0 = {0}
      OBVIOUS
    <3>4. QED
      BY <3>1, <3>2, <3>3
  <2>2. InProgress(<<>>, t) = <<>>
    BY <2>1, SelectEmpty DEF InProgress
  <2>3. Replay(<<>>).buffers[t] = <<>>
    BY ReplayEmpty DEF NothingYet
  <2>4. QED
    BY <1>0, <2>1, <2>2, <2>3
<1>2. ASSUME NEW q \in Seq(Line), NEW l \in Line, q \in G
      PROVE  Append(q, l) \in G
  <2> DEFINE e == Append(q, l)
             last == SubSeq(q, LastSeal(q, t) + 1, Len(q))
  <2>1. Replay(q).buffers[t] = Recs(InProgress(q, t)) /\ InProgress(q, t) = Select(last, S)
    BY <1>2 DEF InProgress
  <2>2. e \in Seq(Line) /\ Len(e) = Len(q) + 1
    OBVIOUS
  <2>3. LastSeal(q, t) \in 0 .. Len(q)
    BY LastSealIs
  <2>4. last \in Seq(Line)
    BY <2>3, Tails
  <2> HIDE DEF G, S
  <2>5. ASSUME ~SealsHere(l, t)
        PROVE  /\ l \in S => InProgress(e, t) = Append(InProgress(q, t), l)
               /\ l \notin S => InProgress(e, t) = InProgress(q, t)
    <3>1. LastSeal(e, t) = LastSeal(q, t)
      BY <2>5, LastSealLonger
    <3>2. SubSeq(e, LastSeal(e, t) + 1, Len(e)) = Append(last, l)
      BY <2>2, <2>3, <3>1, Tails
    <3>3. InProgress(e, t) = Select(Append(last, l), S)
      BY <3>2 DEF InProgress, S
    <3> HIDE DEF e, last
    <3>4. QED
      BY <2>1, <2>4, <3>3, SelectLonger
  <2>6. ASSUME SealsHere(l, t)
        PROVE  InProgress(e, t) = <<>>
    <3>1. LastSeal(e, t) = Len(q) + 1
      BY <2>6, LastSealLonger
    <3>2. SubSeq(e, LastSeal(e, t) + 1, Len(e)) = <<>>
      BY <2>2, <2>3, <3>1, Tails
    <3>3. QED
      BY <3>2, SelectEmpty DEF InProgress
  <2>7. InProgress(q, t) \in Seq(Line)
    BY <2>1, <2>4, SelectType
  <2>8. Replay(q).buffers \in [Traces -> Seq(Records)]
    BY ReplayTyped
  <2>9. ASSUME NEW u \in Traces, NEW r \in Records, l = Span(u, r)
        PROVE  Replay(e).buffers[t] = Recs(InProgress(e, t))
    <3>1. ~SealsHere(l, t) /\ (l \in S <=> u = t) /\ l.rec = r
      BY <2>9 DEF SealsHere, Span, S, SpansOf
    <3>2. Replay(e).buffers = WithSpan(Replay(q).buffers, u, r)
      BY <2>9, ReplaySpan
    <3> HIDE DEF e, last
    <3>3. CASE u = t
      <4>1. Replay(e).buffers[t] = Append(Replay(q).buffers[t], r)
        BY <2>8, <3>2, <3>3 DEF WithSpan
      <4>2. InProgress(e, t) = Append(InProgress(q, t), l)
        BY <2>5, <3>1, <3>3
      <4>3. QED
        BY <2>1, <2>7, <3>1, <4>1, <4>2, RecsLonger
    <3>4. CASE u # t
      <4>1. Replay(e).buffers[t] = Replay(q).buffers[t]
        BY <2>8, <3>2, <3>4 DEF WithSpan
      <4>2. QED
        BY <2>1, <2>5, <3>1, <3>4, <4>1
    <3>5. QED
      BY <3>3, <3>4
  <2>10. ASSUME NEW u \in Traces, NEW h \in Hashes \cup {NoHash}, l = Sealed(u, h)
        PROVE  Replay(e).buffers[t] = Recs(InProgress(e, t))
    <3>1. (SealsHere(l, t) <=> u = t) /\ l \notin S
      BY <2>10 DEF SealsHere, Sealed, S, SpansOf
    <3>2. Replay(e).buffers = Without(Replay(q).buffers, u)
      BY <2>10, ReplaySealed
    <3> HIDE DEF e, last
    <3>3. CASE u = t
      <4>1. Replay(e).buffers[t] = <<>>
        BY <2>8, <3>2, <3>3 DEF Without
      <4>2. QED
        BY <1>0, <2>6, <3>1, <3>3, <4>1
    <3>4. CASE u # t
      <4>1. Replay(e).buffers[t] = Replay(q).buffers[t]
        BY <2>8, <3>2, <3>4 DEF Without
      <4>2. QED
        BY <2>1, <2>5, <3>1, <3>4, <4>1
    <3>5. QED
      BY <3>3, <3>4
  <2>11. ASSUME l = Unparseable
        PROVE  Replay(e).buffers[t] = Recs(InProgress(e, t))
    <3>1. ~SealsHere(l, t) /\ l \notin S
      BY <2>11 DEF SealsHere, Unparseable, S, SpansOf
    <3>2. Replay(e) = Replay(q)
      BY <2>11, ReplayUnparseable
    <3> HIDE DEF e, last
    <3>3. QED
      BY <2>1, <2>5, <3>1, <3>2
  <2>12. Replay(e).buffers[t] = Recs(InProgress(e, t))
    BY <2>9, <2>10, <2>11, Lines
  <2>13. QED
    BY <2>2, <2>12 DEF G
<1> HIDE DEF G
<1>3. f \in G
  BY <1>1, <1>2, AllSequences
<1>4. QED
  BY <1>3 DEF G

(* Whatever was appended, sealed, compacted or lost before, a trace's      *)
(* replayed records are those of its spans after its last sealed marker,   *)
(* in the order they were appended (wal.go Replay).                        *)
THEOREM ReplayFaithful == Spec => []ReplayMeansLastSeal
<1>1. TypeOK => ReplayMeansLastSeal
  <2>1. ASSUME TypeOK, NEW t \in Traces
        PROVE  Replay(file).buffers[t] = Recs(InProgress(file, t))
    BY <2>1, InProgressIs DEF TypeOK
  <2>2. QED
    BY <2>1 DEF ReplayMeansLastSeal, Recs
<1>2. QED
  BY <1>1, TypeCorrect, PTL

-----------------------------------------------------------------------------
(* What an fsync made durable.                                             *)

LEMMA Heads ==
  ASSUME NEW X, NEW f \in Seq(X), NEW x \in X, NEW m \in 0 .. Len(f)
  PROVE  /\ SubSeq(f, 1, m) \in Seq(X) /\ SubSeq(f, 1, Len(f)) = f
         /\ SubSeq(Append(f, x), 1, m) = SubSeq(f, 1, m)
<1>1. /\ SubSeq(f, 1, m) \in Seq(X) /\ Len(SubSeq(f, 1, m)) = m
      /\ \A i \in 1 .. m : SubSeq(f, 1, m)[i] = f[i]
  OBVIOUS
<1>2. SubSeq(f, 1, Len(f)) = f
  OBVIOUS
<1>3. SubSeq(Append(f, x), 1, m) = SubSeq(f, 1, m)
  OBVIOUS
<1>4. QED
  BY <1>1, <1>2, <1>3

LEMMA HeadOfHead ==
  ASSUME NEW X, NEW f \in Seq(X), NEW n \in 0 .. Len(f), NEW m \in 0 .. n
  PROVE  SubSeq(SubSeq(f, 1, n), 1, m) = SubSeq(f, 1, m)
OBVIOUS

NoSpanAfter(f, m, t) == \A i \in m + 1 .. Len(f) : f[i] \notin SpansOf({t})

(* Lines after the first m only add tips, and without a span of t they     *)
(* leave t as it was.                                                      *)
HeadSays(f, m) ==
  /\ ToSet(Replay(SubSeq(f, 1, m)).pending) \subseteq ToSet(Replay(f).pending)
  /\ \A t \in Traces :
       Replay(SubSeq(f, 1, m)).buffers[t] = <<>> /\ NoSpanAfter(f, m, t)
         => Replay(f).buffers[t] = <<>>

LEMMA OneLineMore ==
  ASSUME NEW f \in Seq(Line), NEW l \in Line
  PROVE  /\ ToSet(Replay(f).pending) \subseteq ToSet(Replay(Append(f, l)).pending)
         /\ \A t \in Traces :
              Replay(f).buffers[t] = <<>> /\ l \notin SpansOf({t})
                => Replay(Append(f, l)).buffers[t] = <<>>
<1>1. Replay(f).buffers \in [Traces -> Seq(Records)] /\ Replay(f).pending \in Seq(Tip)
  BY ReplayTyped
<1>2. ASSUME NEW u \in Traces, NEW r \in Records, l = Span(u, r)
      PROVE  /\ ToSet(Replay(f).pending) \subseteq ToSet(Replay(Append(f, l)).pending)
             /\ \A t \in Traces :
                  Replay(f).buffers[t] = <<>> /\ l \notin SpansOf({t})
                    => Replay(Append(f, l)).buffers[t] = <<>>
  <2>1. /\ Replay(Append(f, l)).buffers = WithSpan(Replay(f).buffers, u, r)
        /\ Replay(Append(f, l)).pending = Replay(f).pending
    BY <1>2, ReplaySpan
  <2>2. l \in SpansOf({u})
    BY <1>2 DEF Span, SpansOf
  <2>3. \A t \in Traces : t # u => Replay(Append(f, l)).buffers[t] = Replay(f).buffers[t]
    BY <1>1, <2>1 DEF WithSpan
  <2>4. QED
    BY <2>1, <2>2, <2>3
<1>3. ASSUME NEW u \in Traces, NEW h \in Hashes \cup {NoHash}, l = Sealed(u, h)
      PROVE  /\ ToSet(Replay(f).pending) \subseteq ToSet(Replay(Append(f, l)).pending)
             /\ \A t \in Traces :
                  Replay(f).buffers[t] = <<>> /\ l \notin SpansOf({t})
                    => Replay(Append(f, l)).buffers[t] = <<>>
  <2>1. /\ Replay(Append(f, l)).buffers = Without(Replay(f).buffers, u)
        /\ Replay(Append(f, l)).pending = WithTip(Replay(f).pending, u, h)
    BY <1>3, ReplaySealed
  <2>2. \A t \in Traces :
          Replay(f).buffers[t] = <<>> => Replay(Append(f, l)).buffers[t] = <<>>
    BY <1>1, <2>1 DEF Without
  <2>3. ToSet(Replay(f).pending) \subseteq ToSet(WithTip(Replay(f).pending, u, h))
    <3>1. CASE h = NoHash
      BY <3>1 DEF WithTip
    <3>2. CASE h # NoHash
      <4>1. [trace |-> u, hash |-> h] \in Tip
        BY <3>2 DEF Tip
      <4>2. ToSet(Append(Replay(f).pending, [trace |-> u, hash |-> h])) =
              ToSet(Replay(f).pending) \cup {[trace |-> u, hash |-> h]}
        BY <1>1, <4>1, ToSetAppend
      <4>3. QED
        BY <3>2, <4>2 DEF WithTip
    <3>3. QED
      BY <3>1, <3>2
  <2>4. QED
    BY <2>1, <2>2, <2>3
<1>4. ASSUME l = Unparseable
      PROVE  Replay(Append(f, l)) = Replay(f)
  BY <1>4, ReplayUnparseable
<1>5. QED
  BY <1>2, <1>3, <1>4, Lines

LEMMA HeadLemma ==
  ASSUME NEW f \in Seq(Line), NEW m \in 0 .. Len(f)
  PROVE  HeadSays(f, m)
<1> DEFINE G == {q \in Seq(Line) : \A k \in 0 .. Len(q) : HeadSays(q, k)}
<1>1. ASSUME NEW q \in Seq(Line)
      PROVE  HeadSays(q, Len(q))
  <2>1. SubSeq(q, 1, Len(q)) = q
    OBVIOUS
  <2>2. QED
    BY <2>1 DEF HeadSays
<1>2. <<>> \in G
  <2>1. <<>> \in Seq(Line) /\ \A k \in 0 .. Len(<<>>) : k = Len(<<>>)
    OBVIOUS
  <2>2. QED
    BY <1>1, <2>1
<1>3. ASSUME NEW q \in Seq(Line), NEW l \in Line, q \in G
      PROVE  Append(q, l) \in G
  <2> DEFINE e == Append(q, l)
             n == Len(q)
  <2>1. /\ e \in Seq(Line) /\ Len(e) = n + 1 /\ n \in Nat
        /\ e[n + 1] = l /\ \A i \in 1 .. n : e[i] = q[i]
    BY Longer
  <2>2. ASSUME NEW k \in 0 .. n
        PROVE  HeadSays(e, k)
    <3>1. HeadSays(q, k)
      BY <1>3, <2>2
    <3>2. SubSeq(e, 1, k) = SubSeq(q, 1, k)
      BY Heads
    <3> HIDE DEF G
    <3>3. ToSet(Replay(SubSeq(e, 1, k)).pending) \subseteq ToSet(Replay(e).pending)
      BY <3>1, <3>2, OneLineMore DEF HeadSays
    <3>4. ASSUME NEW t \in Traces, Replay(SubSeq(e, 1, k)).buffers[t] = <<>>,
                 NoSpanAfter(e, k, t)
          PROVE  Replay(e).buffers[t] = <<>>
      <4>1. NoSpanAfter(q, k, t) /\ l \notin SpansOf({t})
        <5> HIDE DEF e, n
        <5>1. n + 1 \in k + 1 .. n + 1 /\ \A i \in k + 1 .. n : i \in 1 .. n /\ i \in k + 1 .. n + 1
          BY <2>1
        <5>2. QED
          BY <2>1, <3>4, <5>1 DEF NoSpanAfter, n
      <4>2. Replay(q).buffers[t] = <<>>
        BY <3>1, <3>2, <3>4, <4>1 DEF HeadSays
      <4>3. QED
        BY <4>1, <4>2, OneLineMore
    <3>5. QED
      BY <3>3, <3>4 DEF HeadSays
  <2>3. HeadSays(e, n + 1)
    BY <1>1, <2>1
  <2> HIDE DEF G, e, n
  <2>4. \A k \in 0 .. n + 1 : k \in 0 .. n \/ k = n + 1
    BY <2>1
  <2>5. \A k \in 0 .. Len(e) : HeadSays(e, k)
    BY <2>1, <2>2, <2>3, <2>4
  <2>6. QED
    BY <2>1, <2>5 DEF G, e
<1> HIDE DEF G
<1>4. f \in G
  BY <1>2, <1>3, AllSequences
<1>5. QED
  BY <1>4 DEF G

(* A write never joins a torn line: nothing is written short, and what a   *)
(* power loss tore is rewritten before the next write.                     *)
WholeLines == "shortWrite" \notin Faults /\ ~({"powerLoss", "compactFail"} \subseteq Faults)

TornOnlyDown == torn => ~up /\ "powerLoss" \in Faults

ClosedDurably ==
  \A t \in closed :
    Replay(SubSeq(file, 1, synced)).buffers[t] = <<>> /\ NoSpanAfter(file, synced, t)

PromisedDurably == promised \subseteq ToSet(Replay(SubSeq(file, 1, synced)).pending)

(* Inductive: what the answers of MarkSealed stand for is in the part of   *)
(* the file that an fsync covered.                                         *)
DurableInv == TypeOK /\ TornOnlyDown /\ ClosedDurably /\ PromisedDurably

LEMMA DurableInit == Init => DurableInv
<1>1. Init => TypeOK
  BY TypeInit
<1>2. QED
  BY <1>1 DEF Init, DurableInv, TornOnlyDown, ClosedDurably, PromisedDurably

LEMMA DurableNow ==
  ASSUME DurableInv
  PROVE  /\ \A t \in closed : Replay(file).buffers[t] = <<>>
         /\ promised \subseteq ToSet(Replay(file).pending)
<1>1. file \in Seq(Line) /\ synced \in 0 .. Len(file) /\ closed \subseteq Traces
  BY DEF DurableInv, TypeOK
<1>2. HeadSays(file, synced)
  BY <1>1, HeadLemma
<1>3. QED
  BY <1>1, <1>2 DEF DurableInv, ClosedDurably, PromisedDurably, HeadSays

(* A line that is not a span of a closed trace changes nothing durable.    *)
LEMMA DurableAppend ==
  ASSUME DurableInv, NEW l \in Line, file' = Append(file, l), synced' = synced,
         closed' \subseteq closed, promised' = promised,
         \A t \in closed' : l \notin SpansOf({t})
  PROVE  ClosedDurably' /\ PromisedDurably'
<1>1. /\ file \in Seq(Line) /\ synced \in 0 .. Len(file) /\ Len(file) \in Nat
      /\ ClosedDurably /\ PromisedDurably
  BY DEF DurableInv, TypeOK
<1>2. SubSeq(file', 1, synced') = SubSeq(file, 1, synced)
  BY <1>1, Heads
<1>3. /\ Len(file') = Len(file) + 1 /\ file'[Len(file) + 1] = l
      /\ \A i \in 1 .. Len(file) : file'[i] = file[i]
  BY <1>1, Longer
<1>4. ASSUME NEW t \in closed'
      PROVE  NoSpanAfter(file', synced', t)
  <2>1. NoSpanAfter(file, synced, t)
    BY <1>1, <1>4 DEF ClosedDurably
  <2>2. PICK n \in Nat : n = Len(file)
    BY <1>1
  <2>3. \A i \in synced + 1 .. n + 1 : i = n + 1 \/ (i \in synced + 1 .. n /\ i \in 1 .. n)
    BY <1>1, <2>2
  <2>4. QED
    BY <1>3, <1>4, <2>1, <2>2, <2>3 DEF NoSpanAfter
<1>5. QED
  BY <1>1, <1>2, <1>4 DEF ClosedDurably, PromisedDurably

(* Once all lines are durable, what they say now is durable.               *)
LEMMA DurableAll ==
  ASSUME file' \in Seq(Line), synced' = Len(file'),
         \A t \in closed' : Replay(file').buffers[t] = <<>>,
         promised' \subseteq ToSet(Replay(file').pending)
  PROVE  ClosedDurably' /\ PromisedDurably'
<1>1. SubSeq(file', 1, synced') = file' /\ Len(file') \in Nat
  OBVIOUS
<1>2. \A i \in synced' + 1 .. Len(file') : FALSE
  BY <1>1
<1>3. QED
  BY <1>1, <1>2 DEF ClosedDurably, PromisedDurably, NoSpanAfter

(* Compact keeps what is durable for the tips it is told to keep.          *)
LEMMA DurableReplaced ==
  ASSUME DurableInv, NEW pending \in SUBSET Tip, ReplaceFile(pending), closed' = closed,
         promised' \subseteq promised, promised' \subseteq pending
  PROVE  ClosedDurably' /\ PromisedDurably' /\ torn' = FALSE
<1>1. file \in Seq(Line)
  BY DEF DurableInv, TypeOK
<1>2. file' = Compacted(file, pending) /\ file' \in Seq(Line) /\ synced' = Len(file') /\ torn' = FALSE
  BY ReplacedType DEF ReplaceFile, DurableInv
<1>3. /\ Replay(file').buffers = Replay(file).buffers
      /\ Replay(file').pending = Select(Replay(file).pending, pending)
  BY <1>1, <1>2, CompactedReplay
<1>4. ToSet(Replay(file').pending) = ToSet(Replay(file).pending) \cap pending
  <2>1. Replay(file).pending \in Seq(Tip)
    BY <1>1, ReplayTyped
  <2>2. QED
    BY <1>3, <2>1, Selected
<1>5. /\ \A t \in closed' : Replay(file').buffers[t] = <<>>
      /\ promised' \subseteq ToSet(Replay(file').pending)
  BY <1>3, <1>4, DurableNow
<1>6. QED
  BY <1>2, <1>5, DurableAll

(* What a power loss leaves has the durable lines and none new.            *)
LEMMA DurableCut ==
  ASSUME DurableInv, PowerLoss
  PROVE  ClosedDurably' /\ PromisedDurably'
<1>1. /\ file \in Seq(Line) /\ synced \in 0 .. Len(file) /\ Len(file) \in Nat
      /\ ClosedDurably /\ PromisedDurably /\ synced \in Nat
  BY DEF DurableInv, TypeOK
<1>2. synced' = synced /\ closed' = closed /\ promised' = promised
  BY DEF PowerLoss
<1>3. PICK n \in synced .. Len(file) - 1 :
        /\ n \in Nat /\ synced <= n /\ n + 1 <= Len(file) /\ SubSeq(file, 1, n) \in Seq(Line)
        /\ \/ file' = SubSeq(file, 1, n) /\ Len(file') = n /\ torn' = FALSE
           \/ /\ torn' = TRUE /\ Len(file') = n + 1
              /\ \E part \in {Unparseable, file[n + 1]} :
                   part \in Line /\ file' = Append(SubSeq(file, 1, n), part)
  BY PowerLossFile DEF DurableInv
<1> DEFINE b == SubSeq(file, 1, n)
<1>4. /\ n \in 0 .. Len(file) /\ synced \in 0 .. n /\ Len(b) = n
      /\ \A i \in 1 .. n : b[i] = file[i]
  BY <1>1, <1>3
<1>5. SubSeq(b, 1, synced) = SubSeq(file, 1, synced)
  BY <1>1, <1>4, HeadOfHead
<1>6. ASSUME NEW t \in closed
      PROVE  NoSpanAfter(b, synced, t)
  <2>1. NoSpanAfter(file, synced, t)
    BY <1>1, <1>6 DEF ClosedDurably
  <2>2. PICK k \in Nat : k = Len(file)
    BY <1>1
  <2>3. \A i \in synced + 1 .. n : i \in synced + 1 .. k /\ i \in 1 .. n
    BY <1>1, <1>3, <2>2
  <2> HIDE DEF b
  <2>4. QED
    BY <1>4, <2>1, <2>2, <2>3 DEF NoSpanAfter
<1> HIDE DEF b
<1>7. CASE file' = b
  BY <1>1, <1>2, <1>5, <1>6, <1>7 DEF ClosedDurably, PromisedDurably
<1>8. ASSUME NEW part \in {Unparseable, file[n + 1]}, part \in Line, file' = Append(b, part)
      PROVE  ClosedDurably' /\ PromisedDurably'
  <2>1. b \in Seq(Line)
    BY <1>3 DEF b
  <2>2. SubSeq(file', 1, synced') = SubSeq(file, 1, synced)
    BY <1>2, <1>4, <1>5, <1>8, <2>1, Heads
  <2>3. Len(file') = n + 1 /\ file'[n + 1] = part /\ \A i \in 1 .. n : file'[i] = b[i]
    BY <1>4, <1>8, <2>1, Longer
  <2>4. ASSUME NEW t \in closed'
        PROVE  NoSpanAfter(file', synced', t)
    <3>1. NoSpanAfter(file, synced, t) /\ NoSpanAfter(b, synced, t)
      BY <1>1, <1>2, <1>6, <2>4 DEF ClosedDurably
    <3>2. PICK k \in Nat : k = Len(file)
      BY <1>1
    <3>3. /\ n + 1 \in synced + 1 .. k
          /\ \A i \in synced + 1 .. n + 1 : i = n + 1 \/ (i \in synced + 1 .. n /\ i \in 1 .. n)
      BY <1>1, <1>3, <3>2
    <3>4. Unparseable \notin SpansOf({t})
      BY DEF Unparseable, SpansOf
    <3>5. part \notin SpansOf({t})
      BY <1>8, <3>1, <3>2, <3>3, <3>4 DEF NoSpanAfter
    <3>6. QED
      BY <1>2, <1>4, <2>3, <3>1, <3>3, <3>5 DEF NoSpanAfter
  <2>5. QED
    BY <1>1, <1>2, <2>2, <2>4 DEF ClosedDurably, PromisedDurably
<1>9. QED
  BY <1>3, <1>7, <1>8 DEF b

LEMMA DurableStep == WholeLines /\ DurableInv /\ [Next]_vars => DurableInv'
<1> SUFFICES ASSUME WholeLines, DurableInv, [Next]_vars PROVE DurableInv'
  OBVIOUS
<1>1. TypeOK' /\ TypeOK /\ TornOnlyDown /\ ClosedDurably /\ PromisedDurably
  BY TypeStep DEF DurableInv
<1>2. ASSUME up, NEW l \in Line, WriteAll(l) \/ WriteShort(l)
      PROVE  file' = Append(file, l) /\ torn' = FALSE
  <2>1. ~torn /\ WriteAll(l)
    BY <1>1, <1>2 DEF WholeLines, TornOnlyDown, WriteShort
  <2>2. QED
    BY <2>1 DEF WriteAll, Appended
<1>3. ASSUME NEW t \in Traces, NEW r \in Records, AppendSpan(t, r)
      PROVE  DurableInv'
  <2>1. Span(t, r) \in Line
    BY SpanAndSealedLines
  <2>2. file' = Append(file, Span(t, r)) /\ torn' = FALSE
    BY <1>2, <1>3, <2>1 DEF AppendSpan
  <2>3. \A u \in closed \ {t} : Span(t, r) \notin SpansOf({u})
    BY DEF Span, SpansOf
  <2>4. ClosedDurably' /\ PromisedDurably'
    BY <1>3, <2>1, <2>2, <2>3, DurableAppend DEF AppendSpan
  <2>5. QED
    BY <1>1, <2>2, <2>4 DEF DurableInv, TornOnlyDown
<1>4. ASSUME NEW t \in Traces, NEW h \in Hashes \cup {NoHash}, MarkSealed(t, h)
      PROVE  DurableInv'
  <2>1. Sealed(t, h) \in Line
    BY SpanAndSealedLines
  <2>2. file' = Append(file, Sealed(t, h)) /\ torn' = FALSE
    BY <1>2, <1>4, <2>1 DEF MarkSealed, SealAcked, SealFailed
  <2>3. CASE SealFailed(t, h)
    <3>1. \A u \in closed : Sealed(t, h) \notin SpansOf({u})
      BY DEF Sealed, SpansOf
    <3>2. ClosedDurably' /\ PromisedDurably'
      BY <2>1, <2>2, <2>3, <3>1, DurableAppend DEF SealFailed
    <3>3. QED
      BY <1>1, <2>2, <3>2 DEF DurableInv, TornOnlyDown
  <2>4. CASE SealAcked(t, h)
    <3>1. file \in Seq(Line) /\ file' \in Seq(Line) /\ closed \subseteq Traces
      BY <1>1 DEF TypeOK
    <3>2. /\ Replay(file').buffers = Without(Replay(file).buffers, t)
          /\ Replay(file').pending = WithTip(Replay(file).pending, t, h)
      BY <2>2, <3>1, ReplaySealed
    <3>3. /\ Replay(file).buffers \in [Traces -> Seq(Records)]
          /\ Replay(file).pending \in Seq(Tip)
      BY <3>1, ReplayTyped
    <3>4. \A u \in closed' : Replay(file').buffers[u] = <<>>
      BY <2>4, <3>1, <3>2, <3>3, DurableNow DEF SealAcked, Without
    <3>5. promised' \subseteq ToSet(Replay(file').pending)
      <4>1. CASE h = NoHash
        BY <2>4, <3>2, <4>1, DurableNow DEF SealAcked, WithTip
      <4>2. CASE h # NoHash
        <5>1. [trace |-> t, hash |-> h] \in Tip
          BY <4>2 DEF Tip
        <5>2. ToSet(Replay(file').pending) =
                ToSet(Replay(file).pending) \cup {[trace |-> t, hash |-> h]}
          BY <3>2, <3>3, <4>2, <5>1, ToSetAppend DEF WithTip
        <5>3. QED
          BY <2>4, <4>2, <5>2, DurableNow DEF SealAcked
      <4>3. QED
        BY <4>1, <4>2
    <3>6. synced' = Len(file')
      BY <2>4 DEF SealAcked, AllSynced
    <3>7. ClosedDurably' /\ PromisedDurably'
      BY <3>1, <3>4, <3>5, <3>6, DurableAll
    <3>8. QED
      BY <1>1, <2>2, <3>7 DEF DurableInv, TornOnlyDown
  <2>5. QED
    BY <1>4, <2>3, <2>4 DEF MarkSealed
<1>5. ASSUME NEW pending \in SUBSET Tip, Compact(pending)
      PROVE  DurableInv'
  <2>1. ClosedDurably' /\ PromisedDurably' /\ torn' = FALSE
    BY <1>5, DurableReplaced DEF Compact
  <2>2. QED
    BY <1>1, <2>1 DEF DurableInv, TornOnlyDown
<1>6. CASE Crash
  BY <1>1, <1>6 DEF Crash, DurableInv, TornOnlyDown, ClosedDurably, PromisedDurably
<1>7. CASE PowerLoss
  <2>1. TornOnlyDown'
    BY <1>7 DEF PowerLoss, TornOnlyDown
  <2>2. QED
    BY <1>1, <1>7, <2>1, DurableCut DEF DurableInv
<1>8. CASE Start
  <2>1. CASE ReplaceFile(ToSet(Replay(file).pending))
    <3>1. file \in Seq(Line)
      BY <1>1 DEF TypeOK
    <3>2. ToSet(Replay(file).pending) \in SUBSET Tip
      BY <3>1, ReplayTyped DEF ToSet
    <3>3. closed' = closed /\ promised' = promised
      BY <1>8 DEF Start
    <3>4. promised' \subseteq ToSet(Replay(file).pending)
      BY <3>3, DurableNow
    <3>5. ClosedDurably' /\ PromisedDurably' /\ torn' = FALSE
      BY <2>1, <3>2, <3>3, <3>4, DurableReplaced
    <3>6. QED
      BY <1>1, <3>5 DEF DurableInv, TornOnlyDown
  <2>2. CASE "compactFail" \in Faults /\ UNCHANGED <<file, torn, synced>>
    <3>1. ~torn
      BY <1>1, <2>2 DEF WholeLines, TornOnlyDown
    <3>2. closed' = closed /\ promised' = promised
      BY <1>8 DEF Start
    <3>3. QED
      BY <1>1, <2>2, <3>1, <3>2 DEF DurableInv, TornOnlyDown, ClosedDurably, PromisedDurably
  <2>3. QED
    BY <1>8, <2>1, <2>2 DEF Start
<1>9. CASE UNCHANGED vars
  BY <1>1, <1>9 DEF vars, DurableInv, TornOnlyDown, ClosedDurably, PromisedDurably
<1>10. QED
  BY <1>3, <1>4, <1>5, <1>6, <1>7, <1>8, <1>9 DEF Next

LEMMA DurableAlways == WholeLines /\ Spec => []DurableInv
<1>1. SUFFICES ASSUME WholeLines PROVE Spec => []DurableInv
  OBVIOUS
<1>2. Init => DurableInv
  BY DurableInit
<1>3. DurableInv /\ [Next]_vars => DurableInv'
  BY <1>1, DurableStep
<1>4. QED
  BY <1>2, <1>3, PTL DEF Spec

(* A trace whose MarkSealed returned nil stays out of what Replay hands    *)
(* back until a span is appended for it, across crashes, power loss and    *)
(* compactions, when every write makes a whole line (wal.go Replay).       *)
THEOREM SealedStaysSealed == WholeLines /\ Spec => []SealedTracesExcluded
<1>1. DurableInv => SealedTracesExcluded
  BY DurableNow DEF SealedTracesExcluded
<1>2. QED
  BY <1>1, DurableAlways, PTL

(* A tip MarkSealed accepted is handed back by every later Replay until    *)
(* Compact is called without it, when every write makes a whole line       *)
(* (wal.go MarkSealed, Compact).                                           *)
THEOREM PromiseKept == WholeLines /\ Spec => []PromisedTipsReplayed
<1>1. DurableInv => PromisedTipsReplayed
  BY DurableNow DEF PromisedTipsReplayed
<1>2. QED
  BY <1>1, DurableAlways, PTL

-----------------------------------------------------------------------------
(* The file implements WalStore.                                           *)

Chosen(s, S) == {i \in DOMAIN s : s[i] \in S}

(* Select picks its elements at places in ascending order.                 *)
PickedAt(s, S, n, at) ==
  /\ n \in 0 .. Len(s)
  /\ at \in Store!Ascending(n, Chosen(s, S))
  /\ Select(s, S) = [j \in 1 .. n |-> s[at[j]]]

LEMMA SelectPicks ==
  ASSUME NEW X, NEW S, NEW s \in Seq(X)
  PROVE  \E n, at : PickedAt(s, S, n, at)
<1> DEFINE G == {q \in Seq(X) : \E n, at : PickedAt(q, S, n, at)}
<1>1. <<>> \in G
  <2> DEFINE none == [i \in 1 .. 0 |-> i]
  <2>1. <<>> \in Seq(X) /\ Chosen(<<>>, S) = {} /\ 1 .. 0 = {} /\ 0 \in 0 .. Len(<<>>)
    BY DEF Chosen
  <2>2. none \in Store!Ascending(0, Chosen(<<>>, S))
    BY <2>1 DEF Store!Ascending
  <2>3. Select(<<>>, S) = [j \in 1 .. 0 |-> <<>>[none[j]]]
    BY <2>1, SelectEmpty
  <2> HIDE DEF none
  <2>4. PickedAt(<<>>, S, 0, none)
    BY <2>1, <2>2, <2>3 DEF PickedAt
  <2>5. QED
    BY <2>1, <2>4
<1>2. ASSUME NEW q \in Seq(X), NEW x \in X, q \in G
      PROVE  Append(q, x) \in G
  <2> DEFINE e == Append(q, x)
             m == Len(q)
  <2>1. /\ e \in Seq(X) /\ m \in Nat /\ DOMAIN q = 1 .. m /\ DOMAIN e = 1 .. m + 1
        /\ e[m + 1] = x /\ (\A i \in 1 .. m : e[i] = q[i]) /\ Len(e) = m + 1
    BY Longer
  <2>2. PICK n, at : PickedAt(q, S, n, at)
    BY <1>2
  <2>3. /\ n \in 0 .. m /\ n \in Nat /\ at \in [1 .. n -> Chosen(q, S)]
        /\ \A i, j \in 1 .. n : i < j => at[i] < at[j]
        /\ \A c \in Chosen(q, S) : \E i \in 1 .. n : at[i] = c
        /\ Select(q, S) = [j \in 1 .. n |-> q[at[j]]]
    BY <2>2 DEF PickedAt, Store!Ascending
  <2>4. /\ x \in S => Select(e, S) = Append(Select(q, S), x)
        /\ x \notin S => Select(e, S) = Select(q, S)
    BY SelectLonger
  <2>5. /\ x \in S => Chosen(e, S) = Chosen(q, S) \cup {m + 1}
        /\ x \notin S => Chosen(e, S) = Chosen(q, S)
        /\ Chosen(q, S) \subseteq 1 .. m
    <3>1. 1 .. m + 1 = (1 .. m) \cup {m + 1}
      BY <2>1
    <3> HIDE DEF e, m
    <3>2. QED
      BY <2>1, <3>1 DEF Chosen
  <2> HIDE DEF e, m, G
  <2>6. \A j \in 1 .. n : at[j] \in 1 .. m /\ q[at[j]] = e[at[j]]
    BY <2>1, <2>3, <2>5
  <2>7. ASSUME x \notin S
        PROVE  \E k, to : PickedAt(e, S, k, to)
    <3>1. n \in 0 .. Len(e)
      BY <2>1, <2>3
    <3>2. at \in Store!Ascending(n, Chosen(e, S))
      BY <2>3, <2>5, <2>7 DEF Store!Ascending
    <3>3. Select(e, S) = [j \in 1 .. n |-> e[at[j]]]
      BY <2>3, <2>4, <2>6, <2>7
    <3>4. PickedAt(e, S, n, at)
      BY <3>1, <3>2, <3>3 DEF PickedAt
    <3>5. QED
      BY <3>4
  <2>8. ASSUME x \in S
        PROVE  \E k, to : PickedAt(e, S, k, to)
    <3> DEFINE to == [j \in 1 .. n + 1 |-> IF j = n + 1 THEN m + 1 ELSE at[j]]
    <3>1. /\ n + 1 \in 0 .. Len(e) /\ n + 1 \in 1 .. n + 1 /\ n + 1 \notin 1 .. n
          /\ \A j \in 1 .. n + 1 : j = n + 1 \/ j \in 1 .. n
          /\ \A j \in 1 .. n : j \in 1 .. n + 1
      BY <2>1, <2>3
    <3>2. to[n + 1] = m + 1 /\ \A j \in 1 .. n : to[j] = at[j] /\ to[j] \in 1 .. m
      BY <2>6, <3>1
    <3>3. to \in [1 .. n + 1 -> Chosen(e, S)]
      BY <2>3, <2>5, <2>8, <3>1
    <3> HIDE DEF to
    <3>4. \A i, j \in 1 .. n + 1 : i < j => to[i] < to[j]
      <4>1. ASSUME NEW i \in 1 .. n + 1, NEW j \in 1 .. n + 1, i < j
            PROVE  to[i] < to[j]
        <5>1. i \in 1 .. n
          BY <2>3, <4>1
        <5>2. CASE j = n + 1
          <6>1. to[i] \in 1 .. m /\ to[j] = m + 1
            BY <3>2, <5>1, <5>2
          <6>2. QED
            BY <2>1, <6>1
        <5>3. CASE j \in 1 .. n
          BY <2>3, <3>2, <4>1, <5>1, <5>3
        <5>4. QED
          BY <3>1, <5>2, <5>3
      <4>2. QED
        BY <4>1
    <3>5. \A c \in Chosen(e, S) : \E i \in 1 .. n + 1 : to[i] = c
      BY <2>3, <2>5, <2>8, <3>1, <3>2
    <3>6. to \in Store!Ascending(n + 1, Chosen(e, S))
      BY <3>3, <3>4, <3>5 DEF Store!Ascending
    <3>7. Select(e, S) = [j \in 1 .. n + 1 |-> e[to[j]]]
      <4>1. Select(q, S) \in Seq(X) /\ Len(Select(q, S)) = n
        <5>1. Select(q, S) \in Seq(X) /\ DOMAIN Select(q, S) = 1 .. n
          BY <2>3, SelectType
        <5>2. QED
          BY <2>3, <5>1
      <4>2. /\ Append(Select(q, S), x) \in Seq(X)
            /\ DOMAIN Append(Select(q, S), x) = 1 .. n + 1
            /\ Append(Select(q, S), x)[n + 1] = x
            /\ \A j \in 1 .. n : Append(Select(q, S), x)[j] = Select(q, S)[j]
        BY <4>1, Longer
      <4>3. \A j \in 1 .. n + 1 : Append(Select(q, S), x)[j] = e[to[j]]
        <5>1. \A j \in 1 .. n : Select(q, S)[j] = e[to[j]]
          BY <2>3, <2>6, <3>2
        <5>2. QED
          BY <2>1, <3>1, <3>2, <4>2, <5>1
      <4>4. Append(Select(q, S), x) = [j \in 1 .. n + 1 |-> Append(Select(q, S), x)[j]]
        BY <4>2, SequenceIs
      <4>5. QED
        BY <2>4, <2>8, <4>3, <4>4
    <3>8. PickedAt(e, S, n + 1, to)
      BY <3>1, <3>6, <3>7 DEF PickedAt
    <3>9. QED
      BY <3>8
  <2>9. QED
    BY <2>1, <2>7, <2>8 DEF G, e
<1> HIDE DEF G
<1>3. s \in G
  BY <1>1, <1>2, AllSequences
<1>4. QED
  BY <1>3 DEF G

(* The two answers of a file.                                              *)
Open(f) == [t \in Traces |-> ToSet(Replay(f).buffers[t])]

LEMMA StoreAppends ==
  ASSUME NEW t \in Traces, NEW r \in Records, file \in Seq(Line),
         file' = Append(file, Span(t, r))
  PROVE  Store!StoreAppend(t, r)
<1>1. Replay(file).buffers \in [Traces -> Seq(Records)]
  BY ReplayTyped
<1>2. /\ Replay(file').buffers = WithSpan(Replay(file).buffers, t, r)
      /\ Replay(file').pending = Replay(file).pending
  BY ReplaySpan
<1>3. ToSet(Append(Replay(file).buffers[t], r)) = ToSet(Replay(file).buffers[t]) \cup {r}
  BY <1>1, ToSetAppend
<1>4. \A u \in Traces : ToSet(Replay(file').buffers[u]) =
                          IF u = t THEN ToSet(Replay(file).buffers[u]) \cup {r}
                          ELSE ToSet(Replay(file).buffers[u])
  BY <1>1, <1>2, <1>3 DEF WithSpan
<1>5. Open(file') = [Open(file) EXCEPT ![t] = @ \cup {r}]
  BY <1>4 DEF Open
<1>6. QED
  BY <1>2, <1>5 DEF Open, Store!StoreAppend

LEMMA AppendIsConcat ==
  ASSUME NEW X, NEW s \in Seq(X), NEW x \in X
  PROVE  Append(s, x) = s \o <<x>>
OBVIOUS

LEMMA StoreSeals ==
  ASSUME NEW t \in Traces, NEW h \in Hashes \cup {NoHash}, file \in Seq(Line),
         file' = Append(file, Sealed(t, h))
  PROVE  /\ h = NoHash => Store!StoreSeal(t, <<>>)
         /\ h # NoHash => LET k == [trace |-> t, hash |-> h]
                          IN  k \in Tip /\ Store!StoreSeal(k.trace, <<k>>)
<1>1. /\ Replay(file).buffers \in [Traces -> Seq(Records)]
      /\ Replay(file).pending \in Seq(Tip)
  BY ReplayTyped
<1>2. /\ Replay(file').buffers = Without(Replay(file).buffers, t)
      /\ Replay(file').pending = WithTip(Replay(file).pending, t, h)
  BY ReplaySealed
<1>3. ToSet(<<>>) = {}
  BY DEF ToSet
<1>4. \A u \in Traces : ToSet(Replay(file').buffers[u]) =
                          IF u = t THEN {} ELSE ToSet(Replay(file).buffers[u])
  BY <1>1, <1>2, <1>3 DEF Without
<1>5. Open(file') = [Open(file) EXCEPT ![t] = {}]
  BY <1>4 DEF Open
<1>6. CASE h = NoHash
  <2>1. Replay(file').pending = Replay(file).pending \o <<>>
    BY <1>1, <1>2, <1>6 DEF WithTip
  <2>2. QED
    BY <1>5, <1>6, <2>1 DEF Open, Store!StoreSeal
<1>7. CASE h # NoHash
  <2> DEFINE k == [trace |-> t, hash |-> h]
  <2>1. k \in Tip /\ k.trace = t
    BY <1>7 DEF Tip
  <2>2. Append(Replay(file).pending, k) = Replay(file).pending \o <<k>>
    <3> HIDE DEF k
    <3>1. QED
      BY <1>1, <2>1, AppendIsConcat
  <2>3. Replay(file').pending = Replay(file).pending \o <<k>>
    BY <1>2, <1>7, <2>2 DEF WithTip
  <2>4. Store!StoreSeal(k.trace, <<k>>)
    BY <1>5, <2>1, <2>3 DEF Open, Store!StoreSeal
  <2>5. QED
    BY <1>7, <2>1, <2>4
<1>8. QED
  BY <1>6, <1>7

LEMMA StoreCompacts ==
  ASSUME NEW pending \in SUBSET Tip, file \in Seq(Line), file' = Compacted(file, pending)
  PROVE  \E some \in SUBSET Store!Owed : Store!StoreCompact(some)
<1> DEFINE owed == Replay(file).pending
           some == pending \cap Store!Owed
<1>1. /\ Replay(file').buffers = Replay(file).buffers
      /\ Replay(file').pending = Select(owed, pending)
  BY CompactedReplay
<1>2. owed \in Seq(Tip)
  BY ReplayTyped
<1> HIDE DEF owed
<1>3. PICK n, at : PickedAt(owed, pending, n, at)
  BY <1>2, SelectPicks
<1>4. {i \in DOMAIN owed : owed[i] \in some} = Chosen(owed, pending)
  BY DEF Chosen, Store!Owed, owed
<1>5. /\ n \in 0 .. Len(owed) /\ at \in Store!Ascending(n, {i \in DOMAIN owed : owed[i] \in some})
      /\ Replay(file').pending = [j \in 1 .. n |-> owed[at[j]]]
  BY <1>1, <1>3, <1>4 DEF PickedAt
<1> HIDE DEF some
<1>6. Store!StoreCompact(some)
  BY <1>1, <1>5 DEF Store!StoreCompact, owed
<1>7. some \in SUBSET Store!Owed
  BY DEF some
<1>8. QED
  BY <1>6, <1>7

(* No write stops short and nothing written is lost.                       *)
NothingTorn == "shortWrite" \notin Faults /\ "powerLoss" \notin Faults

LEMMA StoreStep ==
  NothingTorn /\ TypeOK /\ ~torn /\ [Next]_vars =>
    ~torn' /\ [Store!StoreNext]_(Store!storeVars)
<1> SUFFICES ASSUME NothingTorn, TypeOK, ~torn, [Next]_vars
             PROVE  ~torn' /\ [Store!StoreNext]_(Store!storeVars)
  OBVIOUS
<1>1. file \in Seq(Line)
  BY DEF TypeOK
<1>2. ASSUME NEW l \in Line, WriteAll(l) \/ WriteShort(l)
      PROVE  file' = Append(file, l) /\ ~torn'
  BY <1>2 DEF NothingTorn, WriteShort, WriteAll, Appended
<1>3. ASSUME NEW t \in Traces, NEW r \in Records, AppendSpan(t, r)
      PROVE  ~torn' /\ Store!StoreNext
  <2>1. file' = Append(file, Span(t, r)) /\ ~torn'
    BY <1>2, <1>3, SpanAndSealedLines DEF AppendSpan
  <2>2. Store!StoreAppend(t, r)
    BY <1>1, <2>1, StoreAppends
  <2>3. QED
    BY <2>1, <2>2 DEF Store!StoreNext
<1>4. ASSUME NEW t \in Traces, NEW h \in Hashes \cup {NoHash}, MarkSealed(t, h)
      PROVE  ~torn' /\ Store!StoreNext
  <2>1. file' = Append(file, Sealed(t, h)) /\ ~torn'
    BY <1>2, <1>4, SpanAndSealedLines DEF MarkSealed, SealAcked, SealFailed
  <2>2. CASE h = NoHash
    <3>1. Store!StoreSeal(t, <<>>)
      BY <1>1, <2>1, <2>2, StoreSeals
    <3>2. QED
      BY <2>1, <3>1 DEF Store!StoreNext
  <2>3. CASE h # NoHash
    <3>1. PICK k \in Tip : Store!StoreSeal(k.trace, <<k>>)
      BY <1>1, <2>1, <2>3, StoreSeals
    <3>2. k \in Store!Tip
      BY <3>1 DEF Tip, Store!Tip
    <3>3. QED
      BY <2>1, <3>1, <3>2 DEF Store!StoreNext
  <2>4. QED
    BY <2>2, <2>3
<1>5. ASSUME NEW pending \in SUBSET Tip, ReplaceFile(pending)
      PROVE  ~torn' /\ Store!StoreNext
  <2>1. ~torn' /\ file' = Compacted(file, pending)
    BY <1>5 DEF ReplaceFile
  <2>2. PICK some \in SUBSET Store!Owed : Store!StoreCompact(some)
    BY <1>1, <2>1, StoreCompacts
  <2>3. QED
    BY <2>1, <2>2 DEF Store!StoreNext
<1>6. ASSUME UNCHANGED <<file, torn>>
      PROVE  ~torn' /\ UNCHANGED Store!storeVars
  BY <1>6 DEF Store!storeVars
<1>7. CASE Start
  <2>1. ToSet(Replay(file).pending) \in SUBSET Tip
    BY <1>1, ReplayTyped DEF ToSet
  <2>2. CASE ReplaceFile(ToSet(Replay(file).pending))
    BY <1>5, <2>1, <2>2
  <2>3. CASE UNCHANGED <<file, torn, synced>>
    BY <1>6, <2>3
  <2>4. QED
    BY <1>7, <2>2, <2>3 DEF Start
<1>8. QED
  <2>1. CASE \E t \in Traces, r \in Records : AppendSpan(t, r)
    BY <1>3, <2>1
  <2>2. CASE \E t \in Traces, h \in Hashes \cup {NoHash} : MarkSealed(t, h)
    BY <1>4, <2>2
  <2>3. CASE \E pending \in SUBSET Tip : Compact(pending)
    BY <1>5, <2>3 DEF Compact
  <2>4. CASE Crash
    BY <1>6, <2>4 DEF Crash
  <2>5. ~PowerLoss
    BY DEF NothingTorn, PowerLoss
  <2>6. CASE UNCHANGED vars
    BY <1>6, <2>6 DEF vars
  <2>7. QED
    BY <1>7, <2>1, <2>2, <2>3, <2>4, <2>5, <2>6 DEF Next

(* The exporter may think of the log as the records in progress and the    *)
(* tips that are owed: every operation on the file, a failed fsync, a      *)
(* failed compaction and a restart included, changes those two as WalStore *)
(* says (wal.go AppendSpan, MarkSealed, Compact, Replay).                  *)
THEOREM StoreImplemented == NothingTorn /\ Spec => ImplementsStore
<1>1. SUFFICES ASSUME NothingTorn PROVE Spec => ImplementsStore
  OBVIOUS
<1>2. Init => ~torn /\ Store!StoreInit
  <2>1. ToSet(<<>>) = {}
    BY DEF ToSet
  <2>2. QED
    BY <2>1, ReplayEmpty DEF Init, Store!StoreInit, NothingYet
<1>3. TypeOK /\ ~torn /\ [Next]_vars => ~torn' /\ [Store!StoreNext]_(Store!storeVars)
  BY <1>1, StoreStep
<1>4. QED
  BY <1>2, <1>3, TypeInit, TypeStep, PTL DEF Spec, ImplementsStore, Store!StoreSpec

=============================================================================
