SPECIFICATION Spec
CHECK_DEADLOCK FALSE
CONSTANTS
  Ops = {o1}
  MaxAttempts = 3
  MaxParts = 1
  Devices = {d1}
  None = None
  MaxReads = 2
  MaxOpens = 2
PROPERTIES
  VerifiedByFreshRead
