------------------------ MODULE CheckpointFileProofs ------------------------
(***************************************************************************)
(* Every step of the checkpoint file's writer preserves CpInv, from which  *)
(* AuditFilesProofs concludes that the persisted chain is never broken and *)
(* never loses a committed checkpoint.  The facts about files come first:  *)
(* what appends, repairs, power losses and readers make of a file that is  *)
(* tidy: every line of it parses, and so does its tail or it is Junk.  The *)
(* proofs about the audit log rest on them as well.                        *)
(***************************************************************************)
EXTENDS CheckpointFile, SequenceTheorems, TLAPS

-----------------------------------------------------------------------------
(* Files of lines.                                                         *)

Tidy(V) == {f \in [lines : Seq(V), tail : Seq(V \cup {Junk})] : Len(f.tail) <= 1}

(* The tail of a tidy file is nothing or one fragment.                     *)
LEMMA TidyTail ==
  ASSUME NEW V, NEW f \in Tidy(V)
  PROVE  /\ f.lines \in Seq(V)
         /\ f = [lines |-> f.lines, tail |-> f.tail]
         /\ f.tail = <<>> \/ (f.tail[1] \in V \cup {Junk} /\ f.tail = <<f.tail[1]>>)
BY DEF Tidy

LEMMA TidyTypes ==
  ASSUME NEW V, NEW f \in Tidy(V)
  PROVE  /\ f.lines \in Seq(V \cup {Junk})
         /\ f.tail \in Seq(V \cup {Junk})
         /\ Len(f.tail) <= 1
BY DEF Tidy

LEMMA AtMostOne ==
  ASSUME NEW S, NEW s \in Seq(S), Len(s) <= 1
  PROVE  s = <<>> \/ s = <<s[1]>>
<1>1. SUFFICES ASSUME s # <<>>
               PROVE  s = <<s[1]>>
  OBVIOUS
<1>2. Len(s) >= 1
  BY <1>1
<1>3. s[1] \in S /\ <<s[1]>> \in Seq(S)
  BY <1>2
<1>4. Len(s) = Len(<<s[1]>>) /\ \A i \in 1 .. Len(s) : s[i] = <<s[1]>>[i]
  BY <1>2
<1> QED BY <1>3, <1>4, SeqEqual

LEMMA TidyMade ==
  ASSUME NEW V, NEW lines \in Seq(V), NEW tail \in Seq(V \cup {Junk}), Len(tail) <= 1
  PROVE  [lines |-> lines, tail |-> tail] \in Tidy(V)
BY DEF Tidy

(* The element after the first k of a list with at most one more behind it.*)
LEMMA CutAt ==
  ASSUME NEW S, NEW lines \in Seq(S), NEW tail \in Seq(S), Len(tail) <= 1,
         NEW n \in 0 .. Len(lines), NEW k \in n .. Len(lines \o tail) - 1
  PROVE  /\ k \in n .. Len(lines)
         /\ k < Len(lines) => (lines \o tail)[k + 1] = lines[k + 1]
         /\ k = Len(lines) => tail = <<(lines \o tail)[k + 1]>>
<1>1. Len(lines \o tail) = Len(lines) + Len(tail)
  OBVIOUS
<1>2. k \in n .. Len(lines)
  BY <1>1
<1>3. k < Len(lines) => (lines \o tail)[k + 1] = lines[k + 1]
  BY <1>2
<1>4. k = Len(lines) => tail = <<(lines \o tail)[k + 1]>>
  <2>1. SUFFICES ASSUME k = Len(lines)
                 PROVE  tail = <<(lines \o tail)[k + 1]>>
    OBVIOUS
  <2>2. Len(tail) >= 1
    BY <1>1, <2>1
  <2>3. (lines \o tail)[k + 1] = tail[1]
    BY <2>1, <2>2
  <2>4. tail # <<>>
    BY <2>2
  <2>5. tail = <<tail[1]>>
    BY <2>4, AtMostOne
  <2> QED BY <2>3, <2>5
<1> QED BY <1>2, <1>3, <1>4

LEMMA FrontOf ==
  ASSUME NEW S, NEW s \in Seq(S), NEW k \in 0 .. Len(s)
  PROVE  /\ SubSeq(s, 1, k) \in Seq(S)
         /\ Len(SubSeq(s, 1, k)) = k
         /\ \A i \in 1 .. k : SubSeq(s, 1, k)[i] = s[i]
         /\ k = Len(s) => SubSeq(s, 1, k) = s
OBVIOUS

(* A whole append to a file that ends in a newline adds one line.          *)
LEMMA WrittenTidy ==
  ASSUME NEW V, NEW f \in Tidy(V), f.tail = <<>>, NEW v \in V
  PROVE  /\ Written(f, v) = [lines |-> Append(f.lines, v), tail |-> <<>>]
         /\ Written(f, v) \in Tidy(V)
BY DEF Tidy, Written

(* An append that is cut short leaves the lines alone.                     *)
LEMMA CutShortTidy ==
  ASSUME NEW V, NEW f \in Tidy(V), f.tail = <<>>, NEW v \in V, NEW g \in CutShort(f, v)
  PROVE  /\ g \in Tidy(V)
         /\ g.lines = f.lines
         /\ g.tail = <<Junk>> \/ g.tail = <<v>>
<1>1. PICK part \in {Junk, v} : g = [f EXCEPT !.tail = <<part>>]
  BY DEF CutShort
<1>2. f \in [lines : Seq(V), tail : Seq(V \cup {Junk})]
  BY DEF Tidy
<1>3. g = [lines |-> f.lines, tail |-> <<part>>]
  BY <1>1, <1>2
<1>4. <<part>> \in Seq(V \cup {Junk}) /\ Len(<<part>>) <= 1 /\ f.lines \in Seq(V)
  BY <1>1, <1>2
<1>5. g \in Tidy(V)
  BY <1>3, <1>4, TidyMade
<1>6. g.lines = f.lines /\ g.tail = <<part>>
  BY <1>3
<1> QED BY <1>5, <1>6

(* A repair ends the file in a newline and drops nothing that parses.      *)
LEMMA RepairedTidy ==
  ASSUME NEW V, NEW f \in Tidy(V)
  PROVE  /\ Repaired(f) \in Tidy(V)
         /\ Repaired(f).tail = <<>>
         /\ \/ f.tail \in {<<>>, <<Junk>>} /\ Repaired(f).lines = f.lines
            \/ /\ f.tail[1] \in V
               /\ f.tail = <<f.tail[1]>>
               /\ Repaired(f).lines = Append(f.lines, f.tail[1])
<1>1. CASE f.tail \in {<<>>, <<Junk>>}
  <2>1. f \in [lines : Seq(V), tail : Seq(V \cup {Junk})]
    BY DEF Tidy
  <2>2. Repaired(f) = [lines |-> f.lines, tail |-> <<>>]
    BY <1>1, <2>1 DEF Repaired
  <2>3. <<>> \in Seq(V \cup {Junk}) /\ Len(<<>>) = 0
    OBVIOUS
  <2> QED BY <1>1, <2>1, <2>2, <2>3 DEF Tidy
<1>2. CASE f.tail \notin {<<>>, <<Junk>>}
  <2>1. f.tail = <<f.tail[1]>> /\ f.tail[1] \in V
    BY <1>2, TidyTail
  <2>2. Repaired(f) = [lines |-> Append(f.lines, f.tail[1]), tail |-> <<>>]
    BY <1>2 DEF Repaired
  <2>3. Append(f.lines, f.tail[1]) \in Seq(V)
    BY <2>1, TidyTail
  <2> QED BY <2>1, <2>2, <2>3 DEF Tidy
<1> QED BY <1>1, <1>2

(* A reader finds the lines, and the tail when it parses.                  *)
LEMMA ParsedTidy ==
  ASSUME NEW V, Junk \notin V, NEW f \in Tidy(V)
  PROVE  /\ Parsed(f) \in Seq(V)
         /\ \/ f.tail \in {<<>>, <<Junk>>} /\ Parsed(f) = f.lines
            \/ /\ f.tail[1] \in V
               /\ f.tail = <<f.tail[1]>>
               /\ Parsed(f) = Append(f.lines, f.tail[1])
<1> DEFINE lines == f.lines
           n     == Len(lines)
<1>0. lines \in Seq(V) /\ n \in Nat
  BY TidyTail
<1>1. CASE f.tail = <<>>
  <2>1. Content(f) = lines
    BY <1>0, <1>1 DEF Content
  <2>2. ~TornLine(f)
    BY <1>0, <2>1 DEF TornLine
  <2> QED BY <1>0, <1>1, <2>1, <2>2 DEF Parsed
<1>2. CASE f.tail = <<Junk>>
  <2>1. Content(f) = Append(lines, Junk)
    BY <1>0, <1>2 DEF Content
  <2>2. /\ Len(Append(lines, Junk)) = n + 1 /\ Append(lines, Junk)[n + 1] = Junk
        /\ Append(lines, Junk) # <<>>
    BY <1>0
  <2>3. TornLine(f)
    BY <2>1, <2>2 DEF TornLine
  <2>4. SubSeq(Append(lines, Junk), 1, n) = lines
    BY <1>0
  <2>5. Parsed(f) = lines
    BY <1>0, <2>1, <2>2, <2>3, <2>4 DEF Parsed
  <2> QED BY <1>0, <1>2, <2>5
<1>3. CASE f.tail # <<>> /\ f.tail # <<Junk>>
  <2>0. f.tail = <<f.tail[1]>> /\ f.tail[1] \in V
    BY <1>3, TidyTail
  <2>1. Content(f) = Append(lines, f.tail[1])
    <3> DEFINE v == f.tail[1]
    <3>1. lines \o <<v>> = Append(lines, v)
      BY <1>0, <2>0
    <3>2. Content(f) = lines \o <<v>>
      BY <2>0 DEF Content
    <3> QED BY <3>1, <3>2
  <2>2. ~TornLine(f) /\ Append(lines, f.tail[1]) \in Seq(V)
    BY <1>0, <2>0, <2>1 DEF TornLine
  <2> QED BY <2>0, <2>1, <2>2 DEF Parsed
<1> QED BY <1>1, <1>2, <1>3

LEMMA TidyIsReadable ==
  ASSUME NEW V, Junk \notin V, NEW f \in Tidy(V)
  PROVE  Readable(f)
BY ParsedTidy DEF Readable

(* The repair keeps what a reader finds.                                   *)
LEMMA RepairedParsed ==
  ASSUME NEW V, Junk \notin V, NEW f \in Tidy(V)
  PROVE  Parsed(Repaired(f)) = Parsed(f)
<1>1. /\ Repaired(f) \in Tidy(V) /\ Repaired(f).tail = <<>>
      /\ \/ f.tail \in {<<>>, <<Junk>>} /\ Repaired(f).lines = f.lines
         \/ /\ f.tail[1] \in V
            /\ f.tail = <<f.tail[1]>>
            /\ Repaired(f).lines = Append(f.lines, f.tail[1])
  BY RepairedTidy
<1>2. Parsed(Repaired(f)) = Repaired(f).lines
  BY <1>1, ParsedTidy
<1> QED BY <1>1, <1>2, ParsedTidy

(* The lines of s are the first of w.                                      *)
Begins(s, w) ==
  /\ Len(s) <= Len(w)
  /\ \A i \in 1 .. Len(s) : s[i] = w[i]

LEMMA BeginsItself ==
  ASSUME NEW V, NEW s \in Seq(V)
  PROVE  Begins(s, s)
BY LenProperties DEF Begins

LEMMA BeginsAppend ==
  ASSUME NEW V, NEW s \in Seq(V), NEW v \in V
  PROVE  Begins(s, Append(s, v))
BY LenProperties, AppendProperties DEF Begins

LEMMA BeginsTwice ==
  ASSUME NEW V, NEW r \in Seq(V), NEW s \in Seq(V), NEW w \in Seq(V),
         Begins(r, s), Begins(s, w)
  PROVE  Begins(r, w)
<1>1. Len(r) \in Nat /\ Len(s) \in Nat /\ Len(w) \in Nat /\ Len(r) <= Len(s)
  BY LenProperties DEF Begins
<1>2. \A i \in 1 .. Len(r) : i \in 1 .. Len(s)
  BY <1>1
<1> QED BY <1>1, <1>2 DEF Begins

(* Of a file cut short a reader finds the beginning of what he found.      *)
LEMMA LinesParsed ==
  ASSUME NEW V, Junk \notin V, NEW f \in Tidy(V)
  PROVE  Begins(f.lines, Parsed(f)) /\ f.lines \in Seq(V) /\ Parsed(f) \in Seq(V)
<1>1. f.lines \in Seq(V) /\ Parsed(f) \in Seq(V)
  BY TidyTail, ParsedTidy
<1>2. CASE Parsed(f) = f.lines
  BY <1>1, <1>2, BeginsItself
<1>3. CASE f.tail[1] \in V /\ Parsed(f) = Append(f.lines, f.tail[1])
  <2>1. Begins(f.lines, Append(f.lines, f.tail[1]))
    BY <1>1, <1>3, BeginsAppend
  <2> QED BY <1>1, <1>3, <2>1
<1> QED BY <1>2, <1>3, ParsedTidy

(* What a tidy file is cut to.                                             *)
Front(f, g, k) ==
  /\ g = Cut(f, k, g.tail)
  /\ \/ g.tail \in {<<>>, <<Junk>>}
     \/ k < Len(f.lines) /\ g.tail = <<f.lines[k + 1]>>
     \/ k = Len(f.lines) /\ g.tail = f.tail

LEMMA CutsTidy ==
  ASSUME NEW V, NEW f \in Tidy(V), NEW n \in 0 .. Len(f.lines), NEW g \in Cuts(f, n)
  PROVE  \E k \in n .. Len(f.lines) : Front(f, g, k)
<1> DEFINE len == Len(f.lines)
<1>1. /\ f.lines \in Seq(V \cup {Junk}) /\ f.tail \in Seq(V \cup {Junk}) /\ Len(f.tail) <= 1
      /\ n \in 0 .. len
  BY TidyTypes
<1>2. Content(f) = f.lines \o f.tail
  BY DEF Content
<1>3. \A k \in n .. Len(Content(f)) - 1 :
        /\ k \in n .. len
        /\ k < len => Content(f)[k + 1] = f.lines[k + 1]
        /\ k = len => f.tail = <<Content(f)[k + 1]>>
  <2>1. PICK lines, tail : lines = f.lines /\ tail = f.tail
    OBVIOUS
  <2>2. \A k \in n .. Len(lines \o tail) - 1 :
          /\ k \in n .. Len(lines)
          /\ k < Len(lines) => (lines \o tail)[k + 1] = lines[k + 1]
          /\ k = Len(lines) => tail = <<(lines \o tail)[k + 1]>>
    <3>1. lines \in Seq(V \cup {Junk}) /\ tail \in Seq(V \cup {Junk}) /\ Len(tail) <= 1
          /\ n \in 0 .. Len(lines)
      BY <1>1, <2>1, Zenon
    <3> QED BY <3>1, CutAt
  <2> QED BY <1>2, <2>1, <2>2, Zenon
<1>4. CASE g = f
  <2>1. SubSeq(f.lines, 1, len) = f.lines /\ len \in n .. len
    BY <1>1, FrontOf
  <2>2. Cut(f, len, f.tail) = f
    BY <2>1, TidyTail DEF Cut
  <2>3. Front(f, g, len)
    BY <1>4, <2>2 DEF Front
  <2> QED BY <2>1, <2>3
<1>5. ASSUME NEW k \in n .. len, g = Cut(f, k, <<>>)
      PROVE  Front(f, g, k)
  BY <1>5 DEF Front, Cut
<1>6. ASSUME NEW k \in n .. Len(Content(f)) - 1, g = Cut(f, k, <<Junk>>)
      PROVE  k \in n .. len /\ Front(f, g, k)
  BY <1>3, <1>6 DEF Front, Cut
<1>7. ASSUME NEW k \in n .. Len(Content(f)) - 1, g = Cut(f, k, <<Content(f)[k + 1]>>)
      PROVE  k \in n .. len /\ Front(f, g, k)
  <2>1. k \in n .. len /\ (k < len \/ k = len)
    BY <1>1, <1>3
  <2>2. g = Cut(f, k, g.tail) /\ g.tail = <<Content(f)[k + 1]>>
    BY <1>7 DEF Cut
  <2> QED BY <1>3, <2>1, <2>2 DEF Front
<1> QED BY <1>4, <1>5, <1>6, <1>7 DEF Cuts

LEMMA FrontTidy ==
  ASSUME NEW V, NEW f \in Tidy(V), NEW g, NEW k \in 0 .. Len(f.lines), Front(f, g, k)
  PROVE  /\ g \in Tidy(V)
         /\ Len(g.lines) = k
         /\ \A i \in 1 .. k : g.lines[i] = f.lines[i]
         /\ \/ g.tail \in {<<>>, <<Junk>>}
            \/ k < Len(f.lines) /\ g.tail = <<f.lines[k + 1]>>
            \/ k = Len(f.lines) /\ g.tail = f.tail
<1> DEFINE front == SubSeq(f.lines, 1, k)
<1>1. f.lines \in Seq(V) /\ f.tail \in Seq(V \cup {Junk}) /\ Len(f.tail) <= 1
  BY TidyTail, TidyTypes
<1>2. front \in Seq(V) /\ Len(front) = k /\ \A i \in 1 .. k : front[i] = f.lines[i]
  BY <1>1, FrontOf
<1>3. g = [lines |-> front, tail |-> g.tail]
  BY DEF Front, Cut
<1>4. \/ g.tail \in {<<>>, <<Junk>>}
      \/ k < Len(f.lines) /\ g.tail = <<f.lines[k + 1]>>
      \/ k = Len(f.lines) /\ g.tail = f.tail
  BY DEF Front
<1>5. g.tail \in Seq(V \cup {Junk}) /\ Len(g.tail) <= 1
  <2>1. k < Len(f.lines) => f.lines[k + 1] \in V
    BY <1>1
  <2>2. \A v \in V \cup {Junk} : <<v>> \in Seq(V \cup {Junk}) /\ Len(<<v>>) <= 1
    OBVIOUS
  <2>3. <<>> \in Seq(V \cup {Junk}) /\ Len(<<>>) <= 1
    OBVIOUS
  <2> QED BY <1>1, <1>4, <2>1, <2>2, <2>3
<1>6. g.lines = front
  BY <1>3
<1>7. g \in Tidy(V)
  BY <1>2, <1>3, <1>5 DEF Tidy
<1> QED BY <1>2, <1>4, <1>6, <1>7

LEMMA FrontParsed ==
  ASSUME NEW V, Junk \notin V, NEW f \in Tidy(V), NEW g, NEW k \in 0 .. Len(f.lines),
         Front(f, g, k)
  PROVE  Begins(Parsed(g), Parsed(f))
<1> DEFINE n == Len(f.lines)
<1>1. /\ g \in Tidy(V) /\ g.lines \in Seq(V) /\ f.lines \in Seq(V)
      /\ Len(g.lines) = k /\ \A i \in 1 .. k : g.lines[i] = f.lines[i]
      /\ \/ g.tail \in {<<>>, <<Junk>>}
         \/ k < n /\ g.tail = <<f.lines[k + 1]>>
         \/ k = n /\ g.tail = f.tail
      /\ n \in Nat
  BY FrontTidy, TidyTail, LenProperties
<1>2. /\ Len(f.lines) <= Len(Parsed(f)) /\ Len(Parsed(f)) \in Nat
      /\ \A i \in 1 .. n : Parsed(f)[i] = f.lines[i]
  BY LinesParsed, LenProperties DEF Begins
<1>3. CASE Parsed(g) = g.lines
  BY <1>1, <1>2, <1>3 DEF Begins
<1>4. CASE /\ g.tail[1] \in V /\ g.tail = <<g.tail[1]>>
           /\ Parsed(g) = Append(g.lines, g.tail[1])
  <2> DEFINE v == g.tail[1]
  <2>1. /\ Len(Append(g.lines, v)) = k + 1
        /\ \A i \in 1 .. k : Append(g.lines, v)[i] = g.lines[i]
        /\ Append(g.lines, v)[k + 1] = v
    BY <1>1, <1>4, AppendProperties
  <2>2. k + 1 <= Len(Parsed(f)) /\ Parsed(f)[k + 1] = v
    <3>1. CASE k < n /\ g.tail = <<f.lines[k + 1]>>
      BY <1>1, <1>2, <3>1
    <3>2. CASE k = n /\ g.tail = f.tail
      <4>1. f.tail = <<v>> /\ v \in V /\ f.tail[1] = v
        BY <1>4, <3>2
      <4>2. f.tail \notin {<<>>, <<Junk>>}
        BY <4>1
      <4>3. Parsed(f) = Append(f.lines, v)
        BY <4>1, <4>2, ParsedTidy
      <4> QED BY <1>1, <1>4, <3>2, <4>3, AppendProperties
    <3>3. g.tail \notin {<<>>, <<Junk>>}
      BY <1>4
    <3> QED BY <1>1, <3>1, <3>2, <3>3
  <2> HIDE DEF v
  <2>3. Parsed(g) = Append(g.lines, v)
    BY <1>4 DEF v
  <2> QED BY <1>1, <1>2, <2>1, <2>2, <2>3 DEF Begins
<1> QED BY <1>1, <1>3, <1>4, ParsedTidy

(* After a power loss the file is a front of what the disk or of what the  *)
(* cache held, and has at least the lines on which they agree.             *)
LEMMA SurvivorsTidy ==
  ASSUME NEW V, NEW disk \in Tidy(V), NEW cache \in Tidy(V), NEW g \in Survivors(disk, cache)
  PROVE  \E f \in {disk, cache} : \E k \in 0 .. Len(f.lines) :
           /\ Front(f, g, k)
           /\ \A n \in Agreeing(disk, cache) : n <= k
<1> DEFINE same == Agreeing(disk, cache)
<1>1. PICK n \in same : g \in Cuts(disk, n) \cup Cuts(cache, n) /\ \A j \in same : j <= n
  BY DEF Survivors
<1>2. n \in 0 .. Len(disk.lines) /\ n <= Len(cache.lines)
  BY <1>1 DEF Agreeing
<1>3. Len(disk.lines) \in Nat /\ Len(cache.lines) \in Nat /\ same \subseteq Int
  BY TidyTail DEF Agreeing
<1>4. PICK f \in {disk, cache} : g \in Cuts(f, n)
  BY <1>1
<1>5. n \in 0 .. Len(f.lines) /\ f \in Tidy(V) /\ Len(f.lines) \in Nat
  BY <1>2, <1>3
<1>6. PICK k \in n .. Len(f.lines) : Front(f, g, k)
  BY <1>4, <1>5, CutsTidy
<1>7. k \in 0 .. Len(f.lines) /\ \A j \in same : j <= k
  BY <1>1, <1>3, <1>5
<1> QED BY <1>6, <1>7

-----------------------------------------------------------------------------
(* The checkpoint file.                                                    *)

(* What the checkpoint after lines has to link to.                         *)
LinkAfter(lines) == IF lines = <<>> THEN ZeroPrev ELSE Digest(lines[Len(lines)])
Follows(c, lines) == c.seq = Len(lines) + 1 /\ c.prev = LinkAfter(lines)

(* A file whose lines are an unbroken chain, and its tail too if it parses.*)
Chained(f) ==
  /\ f \in Tidy(Checkpoint)
  /\ Contiguous(f.lines)
  /\ f.tail \in {<<>>, <<Junk>>} \/ Follows(f.tail[1], f.lines)

AtStart(done, lines) ==
  /\ Len(done) <= Len(lines)
  /\ \A i \in 1 .. Len(done) : lines[i] = done[i]

(* The accumulator is where the file is.                                   *)
InStep(f) ==
  /\ f.tail = <<>>
  /\ seq = Len(f.lines)
  /\ prevHash = LinkAfter(f.lines)

CpTyped ==
  /\ seq \in Nat /\ prevHash \in DigestValue /\ pending \in Seq(Tips)
  /\ cpStep \in {"down", "ready", "staged", "written"}
  /\ staged \in Checkpoint
  /\ cpPoisoned \in BOOLEAN
  /\ committed \in Seq(Checkpoint)

CpFiles ==
  /\ Chained(cp) /\ Chained(cpDisk) /\ Chained(before)
  /\ AtStart(committed, cp.lines) /\ AtStart(committed, cpDisk.lines)

CpWriting ==
  /\ ~cpPoisoned
  /\ InStep(before)
  /\ AtStart(committed, before.lines)
  /\ Follows(staged, before.lines)
  /\ staged.tips = pending

CpSteps ==
  /\ cpPoisoned => pending = <<>>
  /\ cpStep = "ready" /\ ~cpPoisoned => InStep(cp)
  /\ cpStep \in {"staged", "written"} => CpWriting
  /\ cpStep = "staged" => cp = before
  /\ cpStep = "written" => cp = Written(before, staged)

CpInv == CpTyped /\ CpFiles /\ CpSteps

-----------------------------------------------------------------------------
LEMMA DigestTyped ==
  ASSUME NEW c \in Checkpoint
  PROVE  Digest(c) \in DigestValue
BY DEF Checkpoint, Digest, DigestValue

LEMMA LinkTyped ==
  ASSUME NEW lines \in Seq(Checkpoint)
  PROVE  LinkAfter(lines) \in DigestValue
<1>1. CASE lines = <<>>
  BY <1>1 DEF LinkAfter, ZeroPrev, DigestValue
<1>2. CASE lines # <<>>
  <2>1. lines[Len(lines)] \in Checkpoint
    BY <1>2
  <2> QED BY <1>2, <2>1, DigestTyped DEF LinkAfter
<1> QED BY <1>1, <1>2

LEMMA EmptyChained ==
  Chained(EmptyFile) /\ EmptyFile.tail = <<>> /\ EmptyFile.lines = <<>>
<1>1. EmptyFile \in Tidy(Checkpoint)
  <2>1. <<>> \in Seq(Checkpoint) /\ <<>> \in Seq(Checkpoint \cup {Junk}) /\ Len(<<>>) <= 1
    OBVIOUS
  <2> QED BY <2>1, TidyMade DEF EmptyFile
<1> QED BY <1>1 DEF Chained, Contiguous, EmptyFile

(* The next checkpoint keeps the chain unbroken and becomes its end.       *)
LEMMA AppendChained ==
  ASSUME NEW lines \in Seq(Checkpoint), Contiguous(lines),
         NEW c \in Checkpoint, Follows(c, lines)
  PROVE  /\ Append(lines, c) \in Seq(Checkpoint)
         /\ Contiguous(Append(lines, c))
         /\ LinkAfter(Append(lines, c)) = Digest(c)
         /\ Len(Append(lines, c)) = Len(lines) + 1
<1> DEFINE longer == Append(lines, c)
           n      == Len(lines)
<1>1. /\ longer \in Seq(Checkpoint)
      /\ Len(longer) = n + 1
      /\ \A i \in 1 .. n : longer[i] = lines[i]
      /\ longer[n + 1] = c
      /\ n \in Nat
      /\ DOMAIN lines = 1 .. n /\ DOMAIN longer = 1 .. n + 1
  BY AppendProperties, LenProperties
<1>2. longer # <<>>
  BY <1>1
<1>3. LinkAfter(longer) = Digest(c)
  BY <1>1, <1>2 DEF LinkAfter
<1>4. ASSUME NEW i \in 1 .. n + 1
      PROVE  /\ longer[i].seq = i
             /\ longer[i].prev = IF i = 1 THEN ZeroPrev ELSE Digest(longer[i - 1])
  <2>1. CASE i \in 1 .. n
    <3>1. longer[i] = lines[i] /\ (i # 1 => longer[i - 1] = lines[i - 1])
      BY <1>1, <2>1
    <3> QED BY <1>1, <2>1, <3>1 DEF Contiguous
  <2>2. CASE i = n + 1
    <3>1. longer[i] = c /\ c.seq = n + 1
      BY <1>1, <2>2 DEF Follows
    <3>2. CASE n = 0
      <4>1. lines = <<>> /\ i = 1
        BY <1>1, <2>2, <3>2
      <4> QED BY <2>2, <3>1, <4>1 DEF Follows, LinkAfter
    <3>3. CASE n > 0
      <4>1. lines # <<>>
        BY <3>3
      <4>2. i # 1 /\ i - 1 = n /\ n \in 1 .. n
        BY <1>1, <2>2, <3>3
      <4>3. longer[i - 1] = lines[n]
        BY <1>1, <4>2
      <4> QED BY <2>2, <3>1, <4>1, <4>2, <4>3 DEF Follows, LinkAfter
    <3> QED BY <1>1, <3>2, <3>3
  <2> QED BY <1>1, <2>1, <2>2
<1>5. Contiguous(longer)
  BY <1>1, <1>4 DEF Contiguous
<1> QED BY <1>1, <1>3, <1>5

LEMMA FrontContiguous ==
  ASSUME NEW lines \in Seq(Checkpoint), Contiguous(lines), NEW k \in 0 .. Len(lines)
  PROVE  /\ Contiguous(SubSeq(lines, 1, k))
         /\ k < Len(lines) => Follows(lines[k + 1], SubSeq(lines, 1, k))
<1> DEFINE front == SubSeq(lines, 1, k)
<1>1. /\ front \in Seq(Checkpoint) /\ Len(front) = k
      /\ \A i \in 1 .. k : front[i] = lines[i]
      /\ DOMAIN front = 1 .. k /\ DOMAIN lines = 1 .. Len(lines) /\ Len(lines) \in Nat
  BY FrontOf, LenProperties
<1>2. Contiguous(front)
  BY <1>1 DEF Contiguous
<1>3. ASSUME k < Len(lines)
      PROVE  Follows(lines[k + 1], front)
  <2>1. /\ lines[k + 1].seq = k + 1
        /\ lines[k + 1].prev = IF k + 1 = 1 THEN ZeroPrev ELSE Digest(lines[k])
    BY <1>1, <1>3 DEF Contiguous
  <2>2. CASE k = 0
    <3>1. front = <<>>
      BY <1>1, <2>2
    <3> QED BY <1>1, <2>1, <2>2, <3>1 DEF Follows, LinkAfter
  <2>3. CASE k > 0
    <3>1. front # <<>> /\ front[Len(front)] = lines[k]
      BY <1>1, <2>3
    <3> QED BY <1>1, <2>1, <2>3, <3>1 DEF Follows, LinkAfter
  <2> QED BY <2>2, <2>3
<1> QED BY <1>2, <1>3

LEMMA FrontChained ==
  ASSUME NEW f, Chained(f), NEW g, NEW k \in 0 .. Len(f.lines), Front(f, g, k)
  PROVE  Chained(g)
<1>1. f \in Tidy(Checkpoint) /\ f.lines \in Seq(Checkpoint) /\ Contiguous(f.lines)
  BY TidyTail DEF Chained
<1>2. /\ g \in Tidy(Checkpoint)
      /\ \/ g.tail \in {<<>>, <<Junk>>}
         \/ k < Len(f.lines) /\ g.tail = <<f.lines[k + 1]>>
         \/ k = Len(f.lines) /\ g.tail = f.tail
  BY <1>1, FrontTidy
<1>3. g.lines = SubSeq(f.lines, 1, k)
  BY DEF Front, Cut
<1>4. Contiguous(g.lines)
  BY <1>1, <1>3, FrontContiguous
<1>5. CASE k < Len(f.lines) /\ g.tail = <<f.lines[k + 1]>>
  <2>1. Follows(g.tail[1], g.lines)
    BY <1>1, <1>3, <1>5, FrontContiguous
  <2> QED BY <1>2, <1>4, <2>1 DEF Chained
<1>6. CASE k = Len(f.lines) /\ g.tail = f.tail
  <2>1. g.lines = f.lines
    BY <1>1, <1>3, <1>6, FrontOf
  <2> QED BY <1>2, <1>4, <1>6, <2>1 DEF Chained
<1> QED BY <1>2, <1>4, <1>5, <1>6 DEF Chained

LEMMA FrontAtStart ==
  ASSUME NEW V, NEW f \in Tidy(V), NEW g, NEW k \in 0 .. Len(f.lines), Front(f, g, k),
         NEW done \in Seq(V), AtStart(done, f.lines), Len(done) <= k
  PROVE  AtStart(done, g.lines)
<1>1. Len(g.lines) = k /\ \A i \in 1 .. k : g.lines[i] = f.lines[i]
  BY FrontTidy
<1>2. \A i \in 1 .. Len(done) : i \in 1 .. k
  OBVIOUS
<1> QED BY <1>1, <1>2 DEF AtStart

LEMMA AppendAtStart ==
  ASSUME NEW V, NEW lines \in Seq(V), NEW v \in V, NEW done \in Seq(V), AtStart(done, lines)
  PROVE  AtStart(done, Append(lines, v))
<1>1. /\ Len(Append(lines, v)) = Len(lines) + 1
      /\ \A i \in 1 .. Len(lines) : Append(lines, v)[i] = lines[i]
      /\ Len(lines) \in Nat /\ Len(done) \in Nat
  BY AppendProperties, LenProperties
<1>2. \A i \in 1 .. Len(done) : i \in 1 .. Len(lines)
  BY <1>1 DEF AtStart
<1> QED BY <1>1, <1>2 DEF AtStart

(* A power loss keeps the chain unbroken, and all that is on the disk and  *)
(* in the cache alike.                                                     *)
LEMMA SurvivorsChained ==
  ASSUME NEW disk, NEW cache, Chained(disk), Chained(cache),
         NEW done \in Seq(Checkpoint), AtStart(done, disk.lines), AtStart(done, cache.lines),
         NEW g \in Survivors(disk, cache)
  PROVE  Chained(g) /\ AtStart(done, g.lines)
<1>1. disk \in Tidy(Checkpoint) /\ cache \in Tidy(Checkpoint)
  BY DEF Chained
<1>0. PICK f \in {disk, cache} :
        \E k \in 0 .. Len(f.lines) :
          Front(f, g, k) /\ \A n \in Agreeing(disk, cache) : n <= k
  BY <1>1, SurvivorsTidy
<1>2. PICK k \in 0 .. Len(f.lines) : Front(f, g, k) /\ \A n \in Agreeing(disk, cache) : n <= k
  BY <1>0
<1>3. Chained(f) /\ AtStart(done, f.lines)
  BY <1>2
<1>4. Chained(g)
  BY <1>2, <1>3, FrontChained
<1>5. Len(done) \in Agreeing(disk, cache)
  <2>1. Len(done) \in Nat /\ Len(disk.lines) \in Nat /\ Len(cache.lines) \in Nat
    BY <1>1, TidyTail, LenProperties
  <2>2. Len(done) \in 0 .. Len(disk.lines) /\ Len(done) <= Len(cache.lines)
    BY <2>1 DEF AtStart
  <2>3. \A i \in 1 .. Len(done) : disk.lines[i] = cache.lines[i]
    BY DEF AtStart
  <2> QED BY <2>2, <2>3 DEF Agreeing
<1>6. AtStart(done, g.lines)
  BY <1>1, <1>2, <1>3, <1>5, FrontAtStart
<1> QED BY <1>4, <1>6

LEMMA RepairedChained ==
  ASSUME NEW f, Chained(f), NEW done \in Seq(Checkpoint), AtStart(done, f.lines)
  PROVE  /\ Chained(Repaired(f))
         /\ Repaired(f).tail = <<>>
         /\ AtStart(done, Repaired(f).lines)
<1>1. f \in Tidy(Checkpoint) /\ f.lines \in Seq(Checkpoint) /\ Contiguous(f.lines)
  BY TidyTail DEF Chained
<1>2. Repaired(f) \in Tidy(Checkpoint) /\ Repaired(f).tail = <<>>
  BY <1>1, RepairedTidy
<1>3. CASE Repaired(f).lines = f.lines
  BY <1>1, <1>2, <1>3 DEF Chained
<1>4. CASE /\ f.tail[1] \in Checkpoint
           /\ f.tail = <<f.tail[1]>>
           /\ Repaired(f).lines = Append(f.lines, f.tail[1])
  <2>1. Follows(f.tail[1], f.lines)
    <3>1. f.tail # <<>> /\ f.tail # <<Junk>>
      BY <1>4, CheckpointAssumption
    <3> QED BY <3>1 DEF Chained
  <2>2. Contiguous(Repaired(f).lines)
    BY <1>1, <1>4, <2>1, AppendChained
  <2>3. AtStart(done, Repaired(f).lines)
    BY <1>1, <1>4, AppendAtStart
  <2> QED BY <1>2, <2>2, <2>3 DEF Chained
<1> QED BY <1>1, <1>3, <1>4, RepairedTidy

(* What the verifier reads of such a file is an unbroken chain.            *)
LEMMA ChainedIsRead ==
  ASSUME NEW f, Chained(f), NEW done \in Seq(Checkpoint), AtStart(done, f.lines)
  PROVE  /\ Readable(f)
         /\ Parsed(f) \in Seq(Checkpoint)
         /\ Contiguous(Parsed(f))
         /\ AtStart(done, Parsed(f))
         /\ f.tail = <<>> => Parsed(f) = f.lines
<1>1. f \in Tidy(Checkpoint) /\ f.lines \in Seq(Checkpoint) /\ Contiguous(f.lines)
  BY TidyTail DEF Chained
<1>2. Readable(f) /\ Parsed(f) \in Seq(Checkpoint)
  BY <1>1, CheckpointAssumption, TidyIsReadable, ParsedTidy
<1>3. CASE Parsed(f) = f.lines
  BY <1>1, <1>2, <1>3
<1>4. CASE /\ f.tail[1] \in Checkpoint
           /\ f.tail = <<f.tail[1]>>
           /\ Parsed(f) = Append(f.lines, f.tail[1])
  <2>1. f.tail # <<>> /\ f.tail # <<Junk>>
    BY <1>4, CheckpointAssumption
  <2>2. Follows(f.tail[1], f.lines)
    BY <2>1 DEF Chained
  <2>3. Contiguous(Parsed(f)) /\ AtStart(done, Parsed(f))
    BY <1>1, <1>4, <2>2, AppendChained, AppendAtStart
  <2> QED BY <1>2, <2>1, <2>3
<1> QED BY <1>1, <1>3, <1>4, CheckpointAssumption, ParsedTidy

-----------------------------------------------------------------------------
LEMMA CpInitInv ==
  CpInit => CpInv
<1> SUFFICES ASSUME CpInit PROVE CpInv
  OBVIOUS
<1>1. Chained(cp) /\ Chained(cpDisk) /\ Chained(before)
  BY EmptyChained DEF CpInit
<1>2. <<>> \in Seq(Checkpoint) /\ <<>> \in Seq(Tips) /\ <<>> \in DigestValue
  BY DEF DigestValue
<1>3. CpTyped
  BY <1>2 DEF CpTyped, CpInit, NoCheckpoint, ZeroPrev, Checkpoint
<1>4. CpFiles
  BY <1>1, EmptyChained DEF CpFiles, CpInit, AtStart
<1>5. CpSteps
  BY EmptyChained DEF CpSteps, CpInit, InStep, LinkAfter
<1> QED BY <1>3, <1>4, <1>5 DEF CpInv

LEMMA CpUnchanged ==
  ASSUME CpInv, UNCHANGED cpVars
  PROVE  CpInv'
BY DEF CpInv, CpTyped, CpFiles, CpSteps, CpWriting, InStep, cpVars, accVars

LEMMA AddTipInv ==
  ASSUME CpInv, NEW tip \in Tips, AddTip(tip)
  PROVE  CpInv'
<1>1. pending' \in Seq(Tips)
  BY DEF CpInv, CpTyped, AddTip, Added
<1>2. CpTyped'
  BY <1>1 DEF CpInv, CpTyped, AddTip
<1>3. CpFiles'
  BY DEF CpInv, CpFiles, AddTip
<1>4. CpSteps'
  BY DEF CpInv, CpSteps, CpWriting, InStep, AddTip, Added
<1> QED BY <1>2, <1>3, <1>4 DEF CpInv

LEMMA StageInv ==
  ASSUME CpInv, Stage
  PROVE  CpInv'
<1>1. InStep(cp) /\ AtStart(committed, cp.lines) /\ Chained(cp)
  BY DEF CpInv, CpSteps, CpFiles, Stage
<1>2. staged' \in Checkpoint
  BY DEF CpInv, CpTyped, Stage, Checkpoint
<1>3. CpTyped'
  BY <1>2 DEF CpInv, CpTyped, Stage, accVars
<1>4. CpFiles'
  BY DEF CpInv, CpFiles, Stage
<1>5. CpWriting'
  BY <1>1 DEF CpWriting, InStep, Follows, Stage, accVars
<1>6. CpSteps'
  BY <1>5 DEF CpSteps, Stage
<1> QED BY <1>3, <1>4, <1>6 DEF CpInv

(* The file while a checkpoint is being written.                           *)
LEMMA WritingFacts ==
  ASSUME CpInv, cpStep \in {"staged", "written"}
  PROVE  /\ Chained(before) /\ before \in Tidy(Checkpoint) /\ before.tail = <<>>
         /\ staged \in Checkpoint
         /\ Chained(Written(before, staged))
         /\ Written(before, staged).tail = <<>>
         /\ Written(before, staged).lines = Append(before.lines, staged)
         /\ AtStart(committed, Written(before, staged).lines)
<1> DEFINE longer == Append(before.lines, staged)
<1>1. /\ Chained(before) /\ before \in Tidy(Checkpoint) /\ before.tail = <<>>
      /\ staged \in Checkpoint
      /\ Follows(staged, before.lines)
      /\ AtStart(committed, before.lines)
      /\ committed \in Seq(Checkpoint)
  BY DEF CpInv, CpFiles, CpTyped, CpSteps, CpWriting, InStep, Chained
<1>2. before.lines \in Seq(Checkpoint) /\ Contiguous(before.lines)
  BY <1>1, TidyTail DEF Chained
<1>3. /\ Written(before, staged) = [lines |-> longer, tail |-> <<>>]
      /\ Written(before, staged) \in Tidy(Checkpoint)
  BY <1>1, WrittenTidy
<1>4. Written(before, staged).lines = longer /\ Written(before, staged).tail = <<>>
  BY <1>3
<1>5. Contiguous(longer) /\ AtStart(committed, longer)
  BY <1>1, <1>2, AppendChained, AppendAtStart
<1>6. Chained(Written(before, staged))
  BY <1>3, <1>4, <1>5 DEF Chained
<1> QED BY <1>1, <1>4, <1>5, <1>6

LEMMA WriteLineInv ==
  ASSUME CpInv, WriteLine
  PROVE  CpInv'
<1>1. cp' = Written(before, staged) /\ CpWriting
  BY DEF CpInv, CpSteps, WriteLine
<1>2. Chained(cp') /\ AtStart(committed, cp'.lines)
  BY <1>1, WritingFacts DEF WriteLine
<1>3. CpTyped'
  BY DEF CpInv, CpTyped, WriteLine, accVars
<1>4. CpFiles'
  BY <1>2 DEF CpInv, CpFiles, WriteLine
<1>5. CpWriting'
  BY <1>1 DEF CpWriting, InStep, WriteLine, accVars
<1>6. CpSteps'
  <2>1. ~cpPoisoned'
    BY <1>5 DEF CpWriting
  <2> QED BY <1>1, <1>5, <2>1 DEF CpSteps, WriteLine
<1> QED BY <1>3, <1>4, <1>6 DEF CpInv

(* Whatever rollbackCheckpoint leaves, it leaves an unbroken chain, and    *)
(* the accumulator in step with it or the checkpoints given up.            *)
LEMMA RollBackInv ==
  ASSUME CpInv, cpStep \in {"staged", "written"},
         NEW file, Chained(file), AtStart(committed, file.lines),
         NEW disk, Chained(disk), AtStart(committed, disk.lines),
         RollBack(file, disk),
         cpStep' = "ready", UNCHANGED <<before, seq, prevHash, staged, committed>>
  PROVE  CpInv'
<1>1. /\ Chained(before) /\ InStep(before) /\ AtStart(committed, before.lines)
      /\ ~cpPoisoned
  BY DEF CpInv, CpFiles, CpSteps, CpWriting
<1>2. CpFiles'
  BY <1>1 DEF CpFiles, RollBack
<1>3. CpTyped'
  <2>1. <<>> \in Seq(Tips)
    OBVIOUS
  <2> QED BY <2>1 DEF CpInv, CpTyped, RollBack, PoisonCheckpoint
<1>4. CpSteps'
  BY <1>1 DEF CpSteps, InStep, RollBack, PoisonCheckpoint
<1> QED BY <1>2, <1>3, <1>4 DEF CpInv

LEMMA CutShortChained ==
  ASSUME CpInv, cpStep = "staged", NEW file \in CutShort(cp, staged)
  PROVE  Chained(file) /\ AtStart(committed, file.lines)
<1>1. /\ Chained(cp) /\ cp \in Tidy(Checkpoint) /\ cp.tail = <<>> /\ staged \in Checkpoint
      /\ Follows(staged, cp.lines) /\ AtStart(committed, cp.lines)
  BY DEF CpInv, CpFiles, CpSteps, CpWriting, CpTyped, InStep, Chained
<1>2. /\ file \in Tidy(Checkpoint) /\ file.lines = cp.lines
      /\ file.tail = <<Junk>> \/ file.tail = <<staged>>
  BY <1>1, CutShortTidy
<1>3. Contiguous(file.lines) /\ AtStart(committed, file.lines) /\ Follows(staged, file.lines)
  BY <1>1, <1>2 DEF Chained
<1>4. file.tail = <<staged>> => file.tail[1] = staged
  OBVIOUS
<1>5. file.tail \in {<<>>, <<Junk>>} \/ Follows(file.tail[1], file.lines)
  BY <1>2, <1>3, <1>4
<1> QED BY <1>2, <1>3, <1>5 DEF Chained

LEMMA WriteFailsInv ==
  ASSUME CpInv, WriteFails
  PROVE  CpInv'
<1>1. Chained(cpDisk) /\ AtStart(committed, cpDisk.lines)
  BY DEF CpInv, CpFiles
<1>2. CASE UNCHANGED <<cp, cpDisk, cpPoisoned, pending>>
  <2>1. InStep(cp) /\ ~cpPoisoned
    BY DEF CpInv, CpSteps, CpWriting, WriteFails
  <2>2. CpTyped' /\ CpFiles'
    BY <1>2 DEF CpInv, CpTyped, CpFiles, WriteFails
  <2>3. CpSteps'
    BY <1>2, <2>1 DEF CpSteps, InStep, WriteFails
  <2> QED BY <2>2, <2>3 DEF CpInv
<1>3. CASE \E file \in CutShort(cp, staged) : RollBack(file, cpDisk)
  BY <1>1, <1>3, CutShortChained, RollBackInv DEF WriteFails
<1> QED BY <1>2, <1>3 DEF WriteFails

LEMMA SyncFailsInv ==
  ASSUME CpInv, SyncFails
  PROVE  CpInv'
<1>1. /\ Chained(cpDisk) /\ AtStart(committed, cpDisk.lines)
      /\ Chained(cp) /\ AtStart(committed, cp.lines)
  BY DEF CpInv, CpFiles
<1>2. PICK disk \in {cpDisk, cp} : RollBack(cp, disk)
  BY DEF SyncFails
<1> QED BY <1>1, <1>2, RollBackInv DEF SyncFails

LEMMA CommitInv ==
  ASSUME CpInv, Commit
  PROVE  CpInv'
<1>1. /\ cp = Written(before, staged) /\ cpStep \in {"staged", "written"}
      /\ Chained(cp) /\ AtStart(committed, cp.lines) /\ committed \in Seq(Checkpoint)
      /\ Chained(before) /\ InStep(before) /\ Follows(staged, before.lines)
  BY DEF CpInv, CpFiles, CpTyped, CpSteps, CpWriting, Commit
<1>2. /\ cp.tail = <<>> /\ cp.lines = Append(before.lines, staged)
      /\ staged \in Checkpoint
  BY <1>1, WritingFacts
<1>3. /\ before.lines \in Seq(Checkpoint) /\ Contiguous(before.lines)
      /\ cp.lines \in Seq(Checkpoint)
  BY <1>1, TidyTail DEF Chained
<1>4. committed' = cp.lines /\ committed' \in Seq(Checkpoint)
  BY <1>1, <1>2, <1>3, ChainedIsRead DEF Commit
<1>5. seq' = Len(cp.lines) /\ prevHash' = LinkAfter(cp.lines)
  BY <1>1, <1>2, <1>3, AppendChained DEF Commit, Advance, Follows
<1>6. CpTyped'
  <2>1. seq' \in Nat /\ prevHash' \in DigestValue
    BY <1>3, <1>5, LinkTyped, LenProperties
  <2>2. pending' \in Seq(Tips)
    <3>1. pending \in Seq(Tips) /\ Len(staged.tips) \in Nat /\ Len(staged.tips) >= 0
      <4>1. staged.tips \in Seq(Tips)
        BY <1>2 DEF Checkpoint
      <4> QED BY <4>1, LenProperties DEF CpInv, CpTyped
    <3> QED BY <3>1 DEF Commit
  <2> QED BY <1>4, <2>1, <2>2 DEF CpInv, CpTyped, Commit
<1>7. CpFiles'
  <2>1. AtStart(committed', cp.lines)
    BY <1>4, LenProperties DEF AtStart
  <2> QED BY <1>1, <2>1 DEF CpFiles, Commit, Synced
<1>8. CpSteps'
  <2>1. ~cpPoisoned'
    BY <1>1 DEF CpInv, CpSteps, CpWriting, Commit
  <2> QED BY <1>2, <1>5, <2>1 DEF CpSteps, InStep, Commit
<1> QED BY <1>6, <1>7, <1>8 DEF CpInv

LEMMA CpDownInv ==
  ASSUME CpInv, CpStopped, Chained(cp'), AtStart(committed, cp'.lines),
         Chained(cpDisk'), AtStart(committed, cpDisk'.lines)
  PROVE  CpInv'
<1>1. CpTyped' /\ CpFiles' /\ CpSteps'
  BY DEF CpInv, CpTyped, CpFiles, CpSteps, CpStopped
<1> QED BY <1>1 DEF CpInv

LEMMA CpCrashInv ==
  ASSUME CpInv, CpCrash
  PROVE  CpInv'
<1>1. /\ Chained(cp) /\ AtStart(committed, cp.lines)
      /\ Chained(cpDisk) /\ AtStart(committed, cpDisk.lines)
  BY DEF CpInv, CpFiles
<1>2. Chained(cp') /\ AtStart(committed, cp'.lines)
  BY <1>1, CutShortChained DEF CpCrash
<1> QED BY <1>1, <1>2, CpDownInv DEF CpCrash

LEMMA CpPowerLossInv ==
  ASSUME CpInv, CpPowerLoss
  PROVE  CpInv'
<1>1. /\ Chained(cp) /\ AtStart(committed, cp.lines)
      /\ Chained(cpDisk) /\ AtStart(committed, cpDisk.lines)
      /\ committed \in Seq(Checkpoint)
  BY DEF CpInv, CpFiles, CpTyped
<1>2. PICK cache \in {cp} \cup (IF cpStep = "staged" THEN {Written(cp, staged)} ELSE {}) :
        cp' \in Survivors(cpDisk, cache)
  BY DEF CpPowerLoss
<1>3. Chained(cache) /\ AtStart(committed, cache.lines)
  <2>1. CASE cache = cp
    BY <1>1, <2>1
  <2>2. CASE cpStep = "staged" /\ cache = Written(before, staged)
    BY <2>2, WritingFacts
  <2> QED BY <2>1, <2>2, <1>2 DEF CpInv, CpSteps
<1>4. Chained(cp') /\ AtStart(committed, cp'.lines)
  BY <1>1, <1>2, <1>3, SurvivorsChained
<1> QED BY <1>4, CpDownInv DEF CpPowerLoss

(* The accumulator resumes where the repaired file ends.                   *)
LEMMA ResumeInStep ==
  ASSUME NEW f, Chained(f), f.tail = <<>>, ResumeFrom(f)
  PROVE  seq' = Len(f.lines) /\ prevHash' = LinkAfter(f.lines)
<1> DEFINE n == Len(f.lines)
<1>1. f.lines \in Seq(Checkpoint) /\ Contiguous(f.lines)
  BY TidyTail DEF Chained
<1>2. Content(f) = f.lines
  BY <1>1 DEF Content
<1>3. n \in Nat /\ DOMAIN f.lines = 1 .. n /\ \A i \in 1 .. n : f.lines[i] # Junk
  BY <1>1, LenProperties, ElementOfSeq, CheckpointAssumption
<1>4. LastChecked(f) = {f.lines[i] : i \in {k \in 1 .. n : \A j \in 1 .. n : j <= k}}
  BY <1>2, <1>3 DEF LastChecked
<1>5. CASE n = 0
  <2>1. LastChecked(f) = {} /\ f.lines = <<>>
    BY <1>1, <1>4, <1>5
  <2> QED BY <1>5, <2>1 DEF ResumeFrom, LinkAfter
<1>6. CASE n > 0
  <2>1. LastChecked(f) = {f.lines[n]}
    BY <1>3, <1>4, <1>6
  <2>2. f.lines # <<>> /\ f.lines[n].seq = n
    BY <1>1, <1>3, <1>6 DEF Contiguous
  <2> QED BY <2>1, <2>2 DEF ResumeFrom, LinkAfter
<1> QED BY <1>3, <1>5, <1>6

LEMMA CpStartInv ==
  ASSUME CpInv, NEW owed \in Seq(Tips), CpStart(owed)
  PROVE  CpInv'
<1>1. /\ Chained(cp) /\ AtStart(committed, cp.lines)
      /\ Chained(cpDisk) /\ AtStart(committed, cpDisk.lines)
      /\ committed \in Seq(Checkpoint)
  BY DEF CpInv, CpFiles, CpTyped
<1>2. Chained(cp') /\ cp'.tail = <<>> /\ AtStart(committed, cp'.lines)
  BY <1>1, RepairedChained DEF CpStart
<1>3. seq' = Len(cp'.lines) /\ prevHash' = LinkAfter(cp'.lines)
  BY <1>2, ResumeInStep DEF CpStart
<1>4. cp'.lines \in Seq(Checkpoint)
  BY <1>2, TidyTail DEF Chained
<1>5. CpTyped'
  <2>1. seq' \in Nat /\ prevHash' \in DigestValue
    BY <1>3, <1>4, LinkTyped, LenProperties
  <2>2. NoCheckpoint \in Checkpoint
    <3>1. <<>> \in Seq(Tips) /\ <<>> \in DigestValue
      BY DEF DigestValue
    <3> QED BY <3>1 DEF NoCheckpoint, ZeroPrev, Checkpoint
  <2> QED BY <2>1, <2>2 DEF CpInv, CpTyped, CpStart
<1>6. CpFiles'
  BY <1>1, <1>2, EmptyChained DEF CpFiles, CpStart
<1>7. CpSteps'
  BY <1>2, <1>3 DEF CpSteps, InStep, CpStart
<1> QED BY <1>5, <1>6, <1>7 DEF CpInv

LEMMA ChainUnbrokenFromInv ==
  ASSUME CpInv
  PROVE  CheckpointChainUnbroken /\ CommittedOnDisk
<1>1. Chained(cp) /\ AtStart(committed, cp.lines) /\ committed \in Seq(Checkpoint)
  BY DEF CpInv, CpFiles, CpTyped
<1>2. /\ Readable(cp) /\ Contiguous(Parsed(cp))
      /\ AtStart(committed, Parsed(cp))
  BY <1>1, ChainedIsRead
<1> QED BY <1>1, <1>2, LenProperties DEF CheckpointChainUnbroken, CommittedOnDisk, AtStart

-----------------------------------------------------------------------------
(* The tips of the files and of the accumulator are those the accumulator  *)
(* was given and those the WAL owed: when all of these are among T, so are *)
(* the tips of every checkpoint.                                           *)
Covering(T) == {c \in Checkpoint : c.tips \in Seq(T)}

CpTipsIn(T) ==
  /\ cp \in Tidy(Covering(T)) /\ cpDisk \in Tidy(Covering(T)) /\ before \in Tidy(Covering(T))
  /\ staged \in Covering(T)
  /\ pending \in Seq(T)

LEMMA TidyGrows ==
  ASSUME NEW V, NEW W, V \subseteq W, NEW f \in Tidy(V)
  PROVE  f \in Tidy(W)
<1>1. /\ f.lines \in Seq(V) /\ f.tail \in Seq(V \cup {Junk}) /\ Len(f.tail) <= 1
      /\ f = [lines |-> f.lines, tail |-> f.tail]
  BY TidyTail DEF Tidy
<1>2. f.lines \in Seq(W) /\ f.tail \in Seq(W \cup {Junk})
  <2>1. V \cup {Junk} \subseteq W \cup {Junk}
    OBVIOUS
  <2> QED BY <1>1, <2>1, SeqMonotonic
<1> QED BY <1>1, <1>2, TidyMade

LEMMA CoveringGrows ==
  ASSUME NEW T, NEW U, T \subseteq U
  PROVE  /\ Seq(T) \subseteq Seq(U)
         /\ Covering(T) \subseteq Covering(U)
         /\ Tidy(Covering(T)) \subseteq Tidy(Covering(U))
<1>1. Seq(T) \subseteq Seq(U)
  BY SeqMonotonic
<1>2. Covering(T) \subseteq Covering(U)
  BY <1>1 DEF Covering
<1> QED BY <1>1, <1>2, TidyGrows

LEMMA EmptyTidy ==
  ASSUME NEW V
  PROVE  EmptyFile \in Tidy(V)
<1>1. <<>> \in Seq(V) /\ <<>> \in Seq(V \cup {Junk}) /\ Len(<<>>) <= 1
  OBVIOUS
<1> QED BY <1>1, TidyMade DEF EmptyFile

LEMMA NoCheckpointCovering ==
  ASSUME NEW T
  PROVE  NoCheckpoint \in Covering(T)
<1>1. <<>> \in Seq(Tips) /\ <<>> \in DigestValue /\ <<>> \in Seq(T)
  BY DEF DigestValue
<1> QED BY <1>1 DEF NoCheckpoint, ZeroPrev, Checkpoint, Covering

LEMMA CpTipsInit ==
  ASSUME NEW T, CpInit
  PROVE  CpTipsIn(T)
BY EmptyTidy, NoCheckpointCovering DEF CpInit, CpTipsIn

LEMMA CpTipsUnchanged ==
  ASSUME NEW T, CpTipsIn(T), UNCHANGED cpVars
  PROVE  CpTipsIn(T)'
BY DEF CpTipsIn, cpVars, accVars

LEMMA CpTipsAdd ==
  ASSUME NEW T, CpTipsIn(T), NEW tip \in T, AddTip(tip)
  PROVE  CpTipsIn(T)'
<1>1. pending' \in Seq(T)
  BY AppendProperties DEF CpTipsIn, AddTip, Added
<1> QED BY <1>1 DEF CpTipsIn, AddTip

(* The file and the checkpoint while this is being written.                *)
LEMMA CpTipsWriting ==
  ASSUME NEW T, CpInv, CpTipsIn(T), cpStep = "staged"
  PROVE  /\ Written(cp, staged) \in Tidy(Covering(T))
         /\ CutShort(cp, staged) \subseteq Tidy(Covering(T))
<1>1. cp.tail = <<>>
  BY DEF CpInv, CpSteps, CpWriting, InStep
<1>2. cp \in Tidy(Covering(T)) /\ staged \in Covering(T)
  BY DEF CpTipsIn
<1>3. Written(cp, staged) \in Tidy(Covering(T))
  BY <1>1, <1>2, WrittenTidy
<1>4. \A g \in CutShort(cp, staged) : g \in Tidy(Covering(T))
  BY <1>1, <1>2, CutShortTidy
<1> QED BY <1>3, <1>4

LEMMA CpTipsRollBack ==
  ASSUME NEW T, CpTipsIn(T), NEW file \in Tidy(Covering(T)), NEW disk \in Tidy(Covering(T)),
         RollBack(file, disk), UNCHANGED <<before, staged>>
  PROVE  CpTipsIn(T)'
<1>1. <<>> \in Seq(T)
  OBVIOUS
<1> QED BY <1>1 DEF CpTipsIn, RollBack, PoisonCheckpoint

LEMMA CpTipsWrite ==
  ASSUME NEW T, CpInv, CpInv', CpTipsIn(T),
         Stage \/ WriteLine \/ Commit \/ WriteFails \/ SyncFails
  PROVE  CpTipsIn(T)'
<1>1. CASE Stage
  <2>1. staged' \in Checkpoint /\ staged'.tips = pending
    BY <1>1 DEF CpInv, CpTyped, Stage
  <2>2. staged' \in Covering(T)
    BY <2>1 DEF Covering, CpTipsIn
  <2> QED BY <1>1, <2>2 DEF CpTipsIn, Stage, accVars
<1>2. CASE WriteLine
  BY <1>2, CpTipsWriting DEF CpTipsIn, WriteLine, accVars
<1>3. CASE Commit
  <2>1. pending' \in Seq(T)
    <3>1. staged.tips \in Seq(T) /\ pending \in Seq(T)
      BY DEF CpTipsIn, Covering
    <3>2. Len(staged.tips) \in Nat /\ Len(staged.tips) >= 0
      BY <3>1, LenProperties
    <3> QED BY <1>3, <3>1, <3>2 DEF Commit
  <2> QED BY <1>3, <2>1 DEF CpTipsIn, Commit, Synced
<1>4. CASE WriteFails
  <2>1. cpDisk \in Tidy(Covering(T)) /\ \A file \in CutShort(cp, staged) : file \in Tidy(Covering(T))
    BY <1>4, CpTipsWriting DEF CpTipsIn, WriteFails
  <2>2. CASE UNCHANGED <<cp, cpDisk, cpPoisoned, pending>>
    BY <1>4, <2>2 DEF CpTipsIn, WriteFails
  <2>3. CASE \E file \in CutShort(cp, staged) : RollBack(file, cpDisk)
    BY <1>4, <2>1, <2>3, CpTipsRollBack DEF WriteFails
  <2> QED BY <1>4, <2>2, <2>3 DEF WriteFails
<1>5. CASE SyncFails
  <2>1. cpDisk \in Tidy(Covering(T)) /\ cp \in Tidy(Covering(T))
    BY DEF CpTipsIn
  <2> QED BY <1>5, <2>1, CpTipsRollBack DEF SyncFails
<1> QED BY <1>1, <1>2, <1>3, <1>4, <1>5

LEMMA CpTipsStop ==
  ASSUME NEW T, CpInv, CpTipsIn(T), CpCrash \/ CpPowerLoss
  PROVE  CpTipsIn(T)'
<1>1. UNCHANGED <<before, staged, pending>>
  BY DEF CpCrash, CpPowerLoss, CpStopped
<1>2. cp' \in Tidy(Covering(T)) /\ cpDisk' \in Tidy(Covering(T))
  <2>1. CASE CpCrash
    BY <2>1, CpTipsWriting DEF CpCrash, CpTipsIn
  <2>2. CASE CpPowerLoss
    <3>1. PICK cache \in {cp} \cup (IF cpStep = "staged" THEN {Written(cp, staged)} ELSE {}) :
            cp' \in Survivors(cpDisk, cache)
      BY <2>2 DEF CpPowerLoss
    <3>2. cache \in Tidy(Covering(T)) /\ cpDisk \in Tidy(Covering(T))
      BY <3>1, CpTipsWriting DEF CpTipsIn
    <3>3. PICK f \in {cpDisk, cache} : \E k \in 0 .. Len(f.lines) : Front(f, cp', k)
      BY <3>1, <3>2, SurvivorsTidy
    <3>4. cp' \in Tidy(Covering(T))
      BY <3>2, <3>3, FrontTidy
    <3> QED BY <2>2, <3>4 DEF CpPowerLoss
  <2> QED BY <2>1, <2>2
<1> QED BY <1>1, <1>2 DEF CpTipsIn

LEMMA CpTipsStart ==
  ASSUME NEW T, CpTipsIn(T), NEW owed \in Seq(T), CpStart(owed)
  PROVE  CpTipsIn(T)'
<1>1. Repaired(cp) \in Tidy(Covering(T))
  BY RepairedTidy DEF CpTipsIn
<1> QED BY <1>1, EmptyTidy, NoCheckpointCovering DEF CpTipsIn, CpStart

(* What the verifier finds in the checkpoint file.                         *)
LEMMA CpTipsRead ==
  ASSUME NEW T, CpInv, CpTipsIn(T), NEW i \in DOMAIN Parsed(cp),
         NEW j \in DOMAIN Parsed(cp)[i].tips
  PROVE  Parsed(cp)[i].tips[j] \in T
<1>1. Junk \notin Covering(T)
  BY CheckpointAssumption DEF Covering
<1>2. Parsed(cp) \in Seq(Covering(T))
  BY <1>1, ParsedTidy DEF CpTipsIn
<1>3. Parsed(cp)[i].tips \in Seq(T)
  BY <1>2, LenProperties, ElementOfSeq DEF Covering
<1> QED BY <1>3, LenProperties, ElementOfSeq
=============================================================================
