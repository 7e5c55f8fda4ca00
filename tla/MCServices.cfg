SPECIFICATION Spec
CONSTANTS
  SdkCalls = {a1, a2}
  SdkNone = SdkNone
  MaxCloud = 1
  SdkUsesRedis = TRUE
  MaxStarts = 2
  MaxStops = 2
  Names = {n1, n2}
  MaxRevisions = 2
  MaxCopies = 2
  Scenes = {s1, s2}
SYMMETRY Interchangeable
CHECK_DEADLOCK FALSE
INVARIANTS
  SeenUnlessOverlapped
  StopIsHeeded
  MirrorIsFaithful
  SceneRunsOnce
