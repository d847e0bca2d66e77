SPECIFICATION Spec
CONSTANTS
  PING_INTERVAL_HIGH_BATTERY <- MCHigh
  PING_INTERVAL_LOW_BATTERY <- MCLow
  PING_MAX_RESPONSE_TIME <- MCMaxResponse
  MaxPoll = 2
  MaxAnswer = 9
  MaxAge = 45
CHECK_DEADLOCK FALSE
INVARIANT TypeOK
INVARIANT ClosedInTime
INVARIANT HighBatteryKept
