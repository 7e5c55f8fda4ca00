SPECIFICATION Spec
CONSTANTS
  MaxRun = 2
  ThreadsFail = FALSE
  Restarts = FALSE
  Nothing = Nothing
  Denies = FALSE
  Calls = {c1, c2}
  MaxClicks = 3
PROPERTIES
  NoEarlierRunApplied
