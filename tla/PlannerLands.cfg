CONSTANTS
  Calls = {c1, c2, c3}
  Workers = {w1, w2}
  Transforms = {t1}
  NoJob = NoJob
  MaxRetries = 1
  MaxCrashes = 0
SPECIFICATION HistorySpec
INVARIANT NewestIsCurrent
PROPERTY LandsReadyOrFailed
CHECK_DEADLOCK FALSE
