\* One push with the real number of attempts, crashes and late messages.
CONSTANTS
  p1 = p1
  Pushes = {p1}
  MaxRetries = 3
  RetryDelays <- ShortDelays
  Timeout = 1
  StartBy = 0
  MaxCrashes = 1
SPECIFICATION FairSpec
INVARIANTS
  TypeOK
  RepeatsOnlyUnread
  WithinWindow
  LogMatchesResult
PROPERTIES
  EveryPushEnds
CHECK_DEADLOCK FALSE
