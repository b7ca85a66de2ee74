SPECIFICATION Spec
CONSTANTS
  Traces = {a, b}
  Spans = {0, 1}
  Root = 0
  CheckpointInterval = 2
  MaxPendingTips = 2
  FsyncLog = TRUE
  NoTip = NoTip
  Faults = {"logWrite"}
  Compactors = {c1, c2}
  Overlap = FALSE
  LateSpans = TRUE
  Redelivery = TRUE
  MaxSegments = 3
  MaxFaults = 1
  MaxStops = 0
SYMMETRY Symmetry
INVARIANTS NoSpanLost
