\* One call, two restarts at any point, every text of the code prompt.
CONSTANTS
  Calls = {c1}
  c1 = c1
  RequestUuids = {}
  OtpCode = OtpCode
  OtherDigits = {other}
  other = other
  MAX_EVENTS_PER_CALL = 1
  MaxAttempts = 4
  MaxRestarts = 2
SPECIFICATION FairFlowSpec
CHECK_DEADLOCK FALSE
INVARIANTS FlowTypeOK Coherent HearsChosenLanguage NoGhost CodeWasEntered SimulatorFollowsDocuments
PROPERTIES StaysOnTheLine LeafResolves OverIsRecorded
