SPECIFICATION Spec
CONSTANTS
  Poll = {p1, p2}
  ProbeTTL = 2
  ProbeTimeout = 1
  MaxTime = 5
  HangsUp = TRUE
INVARIANT UnreachableMeansDown
