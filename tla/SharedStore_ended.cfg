\* One call and two handlers: whether the hangup is final.
CONSTANTS
  Calls = {c1}
  c1 = c1
  Handlers = {h1, h2}
  h1 = h1
  h2 = h2
  OtpCode = OtpCode
  OtherDigits = {}
  MaxWebhooks = 5
SPECIFICATION Spec
CHECK_DEADLOCK FALSE
PROPERTIES EndedStays
