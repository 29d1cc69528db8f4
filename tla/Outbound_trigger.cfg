\* Two destinations that must not count against each other, two calls in a window of
\* three seconds, so that windows fill, expire in part and overlap; the eviction loop
\* as it would be if something started it.
CONSTANTS
  Destinations = {d1, d2}
  d1 = d1
  d2 = d2
  Typed <- Spelled
  Normalize <- AsNumber
  NotANumber = NotANumber
  RequestUuids = {r1, r2, r3, r4}
  r1 = r1
  r2 = r2
  r3 = r3
  r4 = r4
  MAX_CALLS_PER_WINDOW = 2
  WINDOW_SECONDS = 3
  Ttl = 2
  IntervalSeconds = 2
  EvictionRuns = TRUE
  MaxClock = 6
  MaxRequests = 4
  MaxRestarts = 1
SPECIFICATION Spec
CHECK_DEADLOCK FALSE
INVARIANTS TypeOK WindowBound RefusedOnlyWhenBusy PlaceholdersAgeOut
SYMMETRY Symmetry
