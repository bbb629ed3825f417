SPECIFICATION FairSpec
CONSTANTS
  MaxRecoveries = 2
  MaxEpoch = 2
  MaxEvents = 1
INVARIANT CollectedLineageServed
PROPERTY LineageNeverBack
PROPERTY RecoveryCompletes
CHECK_DEADLOCK FALSE
