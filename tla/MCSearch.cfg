SPECIFICATION SearchSpec
CONSTANTS
  Subject = {s1, s2}
  NoUser = NoUser
  Call = {x1, x2}
  Engine = {e1, e2, e3}
  MaxEngines = 2
  MaxReported = 3
  Second = 1
  Word = 32
  EarlyRenewal = 1
  DefaultLife = 2
  MaxLife = 3
  CacheEntries = 1
  ExpiresIn = {2, 10, 20}
  MaxTime = 3
  MaxTokens = 2
SYMMETRY MCSymmetry
INVARIANTS
  ServedFresh
  StoredIsReused
  IdentityKept
  EngineFailuresCounted
