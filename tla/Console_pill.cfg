\* One call that goes to the clip and back to the menu.
CONSTANTS
  Calls = {c1}
  c1 = c1
  NoCall = NoCall
  RequestUuids = {}
  OtpCode = OtpCode
  OtherDigits = {}
  Inputs <- ClipInputs
  Fetches = {f1}
  f1 = f1
  HISTORY = 11
  TIMELINE = 1
  QUEUE_SIZE = 3
  MaxOnWire = 1
  MaxChanges = 4
  MaxCloses = 0
SPECIFICATION Spec
INVARIANTS PillsAreCauses
