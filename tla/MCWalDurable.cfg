SPECIFICATION Spec
CONSTANTS
  Traces = {a, b}
  Records = {r1, r2}
  Hashes = {h1, h2}
  NoHash = NoHash
  Faults = {"syncFail", "powerLoss"}
  MaxLines = 4
SYMMETRY Symmetry
INVARIANTS ReplayMeansLastSeal CompactKeepsReplay SealedTracesExcluded PromisedTipsReplayed
