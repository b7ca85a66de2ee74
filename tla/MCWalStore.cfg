SPECIFICATION Spec
CONSTANTS
  Traces = {a, b}
  Records = {r1, r2}
  Hashes = {h1}
  NoHash = NoHash
  Faults = {"syncFail", "compactFail"}
  MaxLines = 4
SYMMETRY Symmetry
INVARIANTS TypeOK
PROPERTIES ImplementsStore
