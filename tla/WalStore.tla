------------------------------ MODULE WalStore ------------------------------
(***************************************************************************)
(* What the write-ahead log promises the exporter, said without a file.    *)
(*                                                                         *)
(* The exporter reads the log only through Replay, and Replay answers two  *)
(* questions: which records of which traces are still in progress, and     *)
(* which sealed traces still wait for a checkpoint.  This module keeps     *)
(* exactly those two answers as its state.  WriteAheadLog keeps the file   *)
(* and is shown to implement it; AuditExporter is built on it.             *)
(***************************************************************************)
EXTENDS Integers, Sequences

CONSTANTS
  Traces,   (* trace ids                                                   *)
  Records,  (* records of one trace, told apart by their span id           *)
  Hashes    (* chain tip hashes                                            *)

VARIABLES
  open,     (* open[t]: the records of t that Replay hands back            *)
  owed      (* the tips Replay hands back, in file order                   *)

storeVars == <<open, owed>>

(* A tip names one sealed segment: the same trace can have two of them.    *)
Tip == [trace : Traces, hash : Hashes]

StoreTypeOK ==
  /\ open \in [Traces -> SUBSET Records]
  /\ owed \in Seq(Tip)

StoreInit ==
  /\ open = [t \in Traces |-> {}]
  /\ owed = <<>>

(* AppendSpan: the record will be replayed.                                *)
StoreAppend(t, r) ==
  /\ open' = [open EXCEPT ![t] = @ \cup {r}]
  /\ owed' = owed

(* MarkSealed: the trace is closed, and tips (none or one) become owed.    *)
StoreSeal(t, tips) ==
  /\ open' = [open EXCEPT ![t] = {}]
  /\ owed' = owed \o tips

(* The lists of length n of all the numbers in S in ascending order.       *)
Ascending(n, S) ==
  {f \in [1 .. n -> S] :
     /\ \A i, j \in 1 .. n : i < j => f[i] < f[j]
     /\ \A x \in S : \E i \in 1 .. n : f[i] = x}

(* Compact: nothing in progress is touched; a tip stays owed, in its place,*)
(* exactly when the caller still counts it as pending.                     *)
StoreCompact(pending) ==
  /\ open' = open
  /\ \E n \in 0 .. Len(owed) :
       \E at \in Ascending(n, {i \in DOMAIN owed : owed[i] \in pending}) :
         owed' = [j \in 1 .. n |-> owed[at[j]]]

(* Which tips the caller counts matters only for the tips that are owed.   *)
Owed == {owed[i] : i \in DOMAIN owed}

StoreNext ==
  \/ \E t \in Traces, r \in Records : StoreAppend(t, r)
  \/ \E t \in Traces : StoreSeal(t, <<>>)
  \/ \E k \in Tip : StoreSeal(k.trace, <<k>>)
  \/ \E pending \in SUBSET Owed : StoreCompact(pending)

StoreSpec == StoreInit /\ [][StoreNext]_storeVars
=============================================================================
