SPECIFICATION Spec
CONSTANTS
  Traces = {a, b}
  Spans = {0, 1}
  Root = 0
  CheckpointInterval = 2
  MaxPendingTips = 2
  FsyncLog = TRUE
  NoTip = NoTip
  Faults = {"crash", "powerLoss", "walAppend", "walMark", "checkpoint", "walCompact", "logWrite", "quarantine"}
  Compactors = {c1, c2}
  Overlap = FALSE
  LateSpans = FALSE
  Redelivery = TRUE
  MaxSegments = 2
  MaxFaults = 2
  MaxStops = 1
SYMMETRY Symmetry
INVARIANTS NoCoverageLost PendingTipsInWal
