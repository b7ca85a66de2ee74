SPECIFICATION Spec
CONSTANTS
  Traces = {a, b}
  Spans = {0, 1}
  Root = 0
  CheckpointInterval = 3
  MaxPendingTips = 3
  FsyncLog = TRUE
  NoTip = NoTip
  Faults = {"crash"}
  Compactors = {c1, c2}
  Overlap = TRUE
  LateSpans = FALSE
  Redelivery = TRUE
  MaxSegments = 2
  MaxFaults = 0
  MaxStops = 1
SYMMETRY Symmetry
INVARIANTS PendingTipsInWal
