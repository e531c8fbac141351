SPECIFICATION RelaySpec
CONSTANTS
  Poll = {p1, p2}
  ProbeTTL = 2
  ProbeTimeout = 1
  MaxTime = 4
  HangsUp = TRUE
  Key = {k1, k2}
  EphemeralKey = {e1}
  Unset = Unset
  Malformed = Malformed
  Preambles = {"prose", "fenced", "typo"}
  Request = {r1}
  DrainTimeout = 2
  MaxSettings = 2
INVARIANTS
  ReachableIsRecent
  AcceptedAsPinned
PROPERTIES
  DrainKept
  PollsDrain
  Stops
