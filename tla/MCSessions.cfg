SPECIFICATION SessionsSpec
CONSTANTS
  Session = {s1, s2, s3}
  MaxSessions = 1
  MaxAge = 1
  InFlight = 2
  Silent = {s3}
INVARIANTS
  SoftCap
PROPERTIES
  OnlyOldClosed
  TrackedEnds
