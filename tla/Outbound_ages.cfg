\* The program as it is: nothing starts the eviction loop.
CONSTANTS
  Destinations = {d1}
  d1 = d1
  Typed <- Spelled
  Normalize <- AsNumber
  NotANumber = NotANumber
  RequestUuids = {r1, r2, r3}
  r1 = r1
  r2 = r2
  r3 = r3
  MAX_CALLS_PER_WINDOW = 2
  WINDOW_SECONDS = 3
  Ttl = 2
  IntervalSeconds = 2
  EvictionRuns = FALSE
  MaxClock = 7
  MaxRequests = 3
  MaxRestarts = 1
SPECIFICATION Spec
CHECK_DEADLOCK FALSE
INVARIANTS PlaceholdersAgeOut
SYMMETRY Symmetry
