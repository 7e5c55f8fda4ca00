SPECIFICATION StSpec
CONSTANTS
  Events = {1, 2}
  Local = {r1}
  Foreign = {s1}
  Lookups = {l1}
  None = None
  CfProcs = {p1, p2}
  MaxIssued = 3
  MaxKeys = 5
  SpCalls = {u1, u2}
  Published <- TwoSpecs
  Settings <- SomeSettings
  Callings <- SomeCallings
  MaxDays = 1
  Files = {f1, f2}
  MaxBuilds = 2
  MaxAttachments = 4
  PageSize = 2
INVARIANTS
  ReceiptKept
  SavedStaysReadable
  OnlyDeclaredIsSent
  PublishedIsComplete
