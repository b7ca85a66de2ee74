SPECIFICATION Spec
CONSTANTS
  a = a
  b = b
  Traces = {a, b}
  Size <- MCSize
  Tips <- MCTips
  NoTrace = NoTrace
  Junk = Junk
  MaxFaults = 2
  MaxStops = 2
INVARIANTS TypeOK CheckpointChainUnbroken CommittedOnDisk LogReadable RecordsSurvive NoSilentPartialTrace FatalOnlyAfterReseal
PROPERTIES ImplementsAuditTrail
