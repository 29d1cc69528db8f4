\* Two calls, two handlers at a time, five webhooks: enough for one call to reach a
\* leaf and overlap there, or for both to get past the code.
CONSTANTS
  Calls = {c1, c2}
  c1 = c1
  c2 = c2
  Handlers = {h1, h2}
  h1 = h1
  h2 = h2
  OtpCode = OtpCode
  OtherDigits = {}
  MaxWebhooks = 5
SPECIFICATION Spec
CHECK_DEADLOCK FALSE
INVARIANTS TypeOK SessionsAreSound
PROPERTIES LifecycleUnlessOverwritten
SYMMETRY Symmetry
