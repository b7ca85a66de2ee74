SPECIFICATION FairSpec
CONSTANTS
  Traces = {a, b}
  Spans = {0, 1}
  Root = 0
  CheckpointInterval = 2
  MaxPendingTips = 2
  FsyncLog = TRUE
  NoTip = NoTip
  Faults = {"crash", "checkpoint", "walAppend"}
  Compactors = {c1, c2}
  Overlap = TRUE
  LateSpans = TRUE
  Redelivery = FALSE
  MaxSegments = 2
  MaxFaults = 1
  MaxStops = 1

INVARIANTS CleanShutdown NoDuplicateEntries NoChainCoveredTwice
PROPERTIES EverySpanRecorded ShutdownTerminates
