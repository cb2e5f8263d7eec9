\* Days of two instants, the clean-up in the second; rows are deleted after two days.
\* Nothing fails.
CONSTANTS
  DayLength = 2
  CleanupHours = {1}
  SlimDays = 1
  DeleteDays = 2
  MaxTime = 6
  MaxCalls = 1
  MayFail = FALSE
SPECIFICATION Spec
INVARIANT
  SnapshotsOutliveTheLog
CHECK_DEADLOCK FALSE
