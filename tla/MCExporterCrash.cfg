SPECIFICATION Spec
CONSTANTS
  Traces = {a, b}
  Spans = {0, 1}
  Root = 0
  CheckpointInterval = 2
  MaxPendingTips = 2
  FsyncLog = TRUE
  NoTip = NoTip
  Faults = {"crash", "powerLoss", "walAppend", "walMark", "expire"}
  Compactors = {c1, c2}
  Overlap = TRUE
  LateSpans = TRUE
  Redelivery = TRUE
  MaxSegments = 2
  MaxFaults = 1
  MaxStops = 2
SYMMETRY Symmetry
INVARIANTS TypeOK NoSpanLost CheckpointedChainsDurable
PROPERTIES ImplementsAuditTrail
