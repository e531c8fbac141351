SPECIFICATION Spec
CONSTANTS
  r1 = r1
  r2 = r2
  u1 = u1
  u2 = u2
  Url = {u1, u2}
  Reader = {r1, r2}
  ToolOf <- MCToolOf
  DomainOf <- MCDomainOf
  Sites <- MCSites
  CacheMaxEntries = 1
  TTL = 1
  MaxLoad = 1
  MaxTime = 3
  MaxCalls = 3
  MaxTrackedDomains = 1
  MaxSubdivisionTags = 1
INVARIANTS
  FetchTruth
  CachedAgeBounded
  CallsAccounted
  Recovered
  
  
