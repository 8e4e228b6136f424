CONSTANTS
  Jobs = {j1, j2}
  MaxFaults = 1
SPECIFICATION FairSpec
INVARIANTS HeardIsShown
PROPERTIES ShownWhileLive CatchesUp
CHECK_DEADLOCK FALSE
