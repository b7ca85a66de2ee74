---------------------------- MODULE MCSchemaReplay ----------------------------
EXTENDS SchemaReplay, TLC

CONSTANTS t, u
Symmetry == Permutations(Traces)
=============================================================================
