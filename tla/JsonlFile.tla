----------------------------- MODULE JsonlFile ------------------------------
(***************************************************************************)
(* Append-only JSONL files, which the audit log and the checkpoint file    *)
(* are: how an append that is cut short, a truncation and a power loss     *)
(* leave them, how Start repairs them and what their readers make of them. *)
(*                                                                         *)
(* A file is its newline-terminated lines and the tail after the last      *)
(* newline: nothing, or one fragment.  A line or a fragment is the value   *)
(* it parses to, Junk when it does not parse.                              *)
(*                                                                         *)
(* An entry of the audit log stands for its signed record and the chain up *)
(* to it.  A digest is what tells the digested content apart: that of a    *)
(* checkpoint is the list of the checkpoints up to it.  Signatures, key    *)
(* ids, timestamps and the order of the tips in a line are left out.       *)
(***************************************************************************)
EXTENDS Integers, Sequences

CONSTANT Junk

File(Value) ==
  {f \in [lines : Seq(Value \cup {Junk}), tail : Seq(Value \cup {Junk})] : Len(f.tail) <= 1}
EmptyFile == [lines |-> <<>>, tail |-> <<>>]

Entry(t, n) == [trace |-> t, seqInTrace |-> n]

ZeroPrev == <<>>
Digest(line) == Append(line.prev, [seq |-> line.seq, tips |-> line.tips])

(* What a scanner returns: the tail is a line like the others.             *)
Content(f) == f.lines \o f.tail

(* "%s\n" in one write: a tail left before it becomes part of its line.    *)
Written(f, v) ==
  [lines |-> Append(f.lines, IF f.tail = <<>> THEN v ELSE Junk), tail |-> <<>>]

(* The same write stopped inside the JSON, or before the newline only.     *)
CutShort(f, v) ==
  {[f EXCEPT !.tail = <<part>>] : part \in IF f.tail = <<>> THEN {Junk, v} ELSE {Junk}}

(* repairTrailingPartialLine: a fragment that parses gets its newline, any *)
(* other is dropped.                                                       *)
Repaired(f) ==
  IF f.tail \in {<<>>, <<Junk>>} THEN [f EXCEPT !.tail = <<>>]
  ELSE [lines |-> Append(f.lines, f.tail[1]), tail |-> <<>>]

(* Both readers of the verifier skip the last line when it does not parse  *)
(* and give up on the whole file when an earlier one does not.             *)
TornLine(f) == Content(f) # <<>> /\ Content(f)[Len(Content(f))] = Junk
Parsed(f) == IF TornLine(f) THEN SubSeq(Content(f), 1, Len(Content(f)) - 1) ELSE Content(f)
Readable(f) == \A i \in DOMAIN Parsed(f) : Parsed(f)[i] # Junk

(* A power loss.  The disk holds what the last fsync wrote, the cache what *)
(* was written or truncated since: up to where they agree all stays, after *)
(* that either of them is found, cut anywhere.                             *)
Agreeing(f, g) ==
  {n \in 0 .. Len(f.lines) : n <= Len(g.lines) /\ \A i \in 1 .. n : f.lines[i] = g.lines[i]}

Cut(f, k, tail) == [lines |-> SubSeq(f.lines, 1, k), tail |-> tail]

Cuts(f, n) ==
  {f} \cup {Cut(f, k, <<>>) : k \in n .. Len(f.lines)}
      \cup {Cut(f, k, <<Junk>>) : k \in n .. Len(Content(f)) - 1}
      \cup {Cut(f, k, <<Content(f)[k + 1]>>) : k \in n .. Len(Content(f)) - 1}

Survivors(disk, cache) ==
  LET same == Agreeing(disk, cache)
  IN  UNION {Cuts(disk, n) \cup Cuts(cache, n) : n \in {k \in same : \A j \in same : j <= k}}
=============================================================================
