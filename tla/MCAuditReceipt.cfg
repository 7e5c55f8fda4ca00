SPECIFICATION Spec
CONSTANTS
  Events = {1}
  Local = {r1}
  Foreign = {}
  Lookups = {l1}
  None = None
CHECK_DEADLOCK FALSE
INVARIANTS
  ReceiptFound
