SPECIFICATION Spec
CONSTANTS
  NoUrl = NoUrl
  Url = {u1, u2}
  HistoryEntries = 1
  DefaultEntries = 3
  MaxChars = 1
  Char = {"a", "b", "c", "d", "|"}
  Caller <- MCCaller
  Request = {r1, r2}
  MaxCallers = 2
  MaxClientSessionIDLen = 3
  Calls <- MCCalls
  MaxFetches = 3
  MaxLedgers = 3
INVARIANTS
  LedgersAccounted
  CallersIsolated
  ListedUnlessEvicted
