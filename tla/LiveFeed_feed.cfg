\* Two calls, one socket, a queue of two and timelines of two.
CONSTANTS
  Calls = {c1, c2}
  c1 = c1
  c2 = c2
  Sockets = {w1}
  w1 = w1
  QUEUE_SIZE = 2
  MAX_EVENTS_PER_CALL = 2
  MaxEvents = 6
SPECIFICATION FairSpec
CHECK_DEADLOCK FALSE
INVARIANTS TypeOK QueueIsNewest NothingMissed CaughtUpIsCurrent ResentOnlyIfRecent
PROPERTIES CatchesUp LeaversAreDropped
