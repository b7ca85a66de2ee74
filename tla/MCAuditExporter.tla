-------------------------- MODULE MCAuditExporter ---------------------------
(* Instances of AuditExporter for TLC: spans are numbered in the order     *)
(* SortRecords puts them in, the root first.                               *)
EXTENDS AuditExporter, TLC

Symmetry == Permutations(Traces) \cup Permutations(Compactors)
=============================================================================
