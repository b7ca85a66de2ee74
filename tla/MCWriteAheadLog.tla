-------------------------- MODULE MCWriteAheadLog ---------------------------
(* Instances of WriteAheadLog for TLC.                                     *)
EXTENDS WriteAheadLog

Symmetry == Permutations(Traces) \cup Permutations(Records) \cup Permutations(Hashes)
=============================================================================
