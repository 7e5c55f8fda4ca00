SPECIFICATION SdkSpec
CONSTANTS
  SdkCalls = {a1}
  SdkNone = SdkNone
  MaxCloud = 2
  SdkUsesRedis = FALSE
CHECK_DEADLOCK FALSE
INVARIANTS
  ControlIsSeen
