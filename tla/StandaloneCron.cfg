SPECIFICATION FairSpec
CONSTANTS
  Workers = {w1, w2}
  Ticks = {t1}
  MaxRun = 2
  MaxTroubles = 1
  Steps <- TwoSteps
  SkipIfRunning = TRUE
CHECK_DEADLOCK FALSE
INVARIANTS
  TypeOK
  ScheduledRunsDontOverlap
  SuccessIsBacked
PROPERTIES
  OnlyBeginReopens
  SentRunsEnd
