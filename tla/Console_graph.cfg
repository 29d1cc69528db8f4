\* As Console_page.cfg: whether the graph panel keeps to the selected call.
CONSTANTS
  Calls = {c1, c2}
  c1 = c1
  c2 = c2
  NoCall = NoCall
  RequestUuids = {r1}
  r1 = r1
  OtpCode = OtpCode
  OtherDigits = {}
  Inputs <- GateInputs
  Fetches = {f1, f2}
  f1 = f1
  f2 = f2
  HISTORY = 2
  TIMELINE = 1
  QUEUE_SIZE = 3
  MaxOnWire = 1
  MaxChanges = 2
  MaxCloses = 1
SPECIFICATION Spec
INVARIANTS GraphIsOfSelected
