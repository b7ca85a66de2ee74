SPECIFICATION FairSpec
CONSTANTS
  CheckpointInterval = 2
  MaxPendingTips = 20
  MaxRetryGap = 4
  MaxReplayed = 22
  MaxStarts = 1
INVARIANTS TypeOK RetryWithinReach WastedWorkBounded
PROPERTIES RecoveryDetected
