SPECIFICATION Spec
CONSTANTS
  r1 = r1
  r2 = r2
  d1 = d1
  d2 = d2
  b1 = b1
  Requests = {r1, r2}
  Devices = {d1, d2}
  Books = {b1}
  Days = {1}
  MaxClock = 2
  MaxReadings = 2
  MaxAccepted = 4
  MaxRevision = 2
CHECK_DEADLOCK FALSE
INVARIANTS RepliesAreCoherent
