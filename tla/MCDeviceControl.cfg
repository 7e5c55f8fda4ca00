SPECIFICATION FairSpec
CHECK_DEADLOCK FALSE
CONSTANTS
  Ops = {o1, o2}
  MaxAttempts = 2
  MaxParts = 2
  Devices = {d1}
  None = None
  MaxReads = 2
  MaxOpens = 2
INVARIANTS
  SentAtMostOnce
  ReceiptIsTrue
  ShownOutcomeIsTrue
PROPERTIES
  ConfirmedInItsDialog
  ControlsComeBack
