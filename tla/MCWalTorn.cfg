SPECIFICATION Spec
CONSTANTS
  Traces = {a, b}
  Records = {r1}
  Hashes = {h1}
  NoHash = NoHash
  Faults = {"shortWrite"}
  MaxLines = 4
SYMMETRY Symmetry
INVARIANTS SealedTracesExcluded
