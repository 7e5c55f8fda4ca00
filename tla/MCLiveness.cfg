SPECIFICATION LiveSpec
CONSTANTS
  MaxRun = 2
  ThreadsFail = FALSE
  Restarts = TRUE
  Nothing = Nothing
  Calls = {1, 2}
  MaxClicks = 2
  Denies = FALSE
  Timers = {1, 2, 3}
  None = None
  MaxGeneration = 6
  MaxSignIns = 2
  MaxStrays = 1
  MaxLogins = 2
  MaxEdits = 3
  Events = {1, 2}
  Local = {1}
  Foreign = {}
  Lookups = {}
CHECK_DEADLOCK FALSE
INVARIANTS
  OneChain
  LogoutIsFinal
PROPERTIES
  ButtonComesBack
  ChecksGoOn
  QueueDrains
  EndedSessionIsNoticed
  ToldSuccessIsTheLatest
  EditsAreRead
