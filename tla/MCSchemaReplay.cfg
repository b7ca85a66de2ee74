SPECIFICATION Spec
CONSTANTS
  t = t
  u = u
  Traces = {t, u}
  Spans = {root, child}
  Root = root
  MaxOld = 2
  MaxRecords = 3
  MaxFaults = 1
  MaxStops = 1
SYMMETRY Symmetry
INVARIANTS TypeOK ChainsOneVersion HonestVersions NoRecordLost
PROPERTIES QuarantineOnlyWhenForced NoChainAfterStartupSeal
