SPECIFICATION Spec
CONSTANTS
  MaxRun = 2
  ThreadsFail = TRUE
  Restarts = TRUE
  Nothing = Nothing
  Denies = TRUE
  Calls = {c1, c2, c3}
  MaxClicks = 3
SYMMETRY Interchangeable
CHECK_DEADLOCK FALSE
INVARIANTS
  RunningRunPublished
  NoOlderProgress
  SyncingIsAttended
