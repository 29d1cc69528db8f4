\* One call and an outbound placeholder, every text of the code prompt, and a timeline
\* that holds one menu turn.  Calls touch each other only in Restart; the proofs
\* have any number of them.
CONSTANTS
  Calls = {c1}
  RequestUuids = {r1}
  c1 = c1
  r1 = r1
  OtpCode = OtpCode
  OtherDigits = {other}
  other = other
  MAX_EVENTS_PER_CALL = 3
  MaxAttempts = 3
SPECIFICATION Spec
INVARIANTS TypeOK OtpGate LocaleMatchesState EndedIffTerminal DtmfReportAgrees
PROPERTIES GoodbyeOnlyWhenOver ImplementsLifecycle
