\* One call and no restart.
CONSTANTS
  Calls = {c1}
  c1 = c1
  RequestUuids = {}
  OtpCode = OtpCode
  OtherDigits = {other}
  other = other
  MAX_EVENTS_PER_CALL = 1
  MaxAttempts = 2
  MaxRestarts = 0
SPECIFICATION FlowSpec
CHECK_DEADLOCK FALSE
PROPERTIES CompletedIsFinal
