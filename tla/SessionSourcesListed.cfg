SPECIFICATION Spec
CONSTANTS
  u1 = u1
  u2 = u2
  Url = {u1, u2}
  Spelling <- MCSpelling
  NoUrl = NoUrl
  HistoryEntries = 2
  DefaultEntries = 2
  MaxChars = 0
  MaxFetches = 3
  Calls <- MCCalls
INVARIANT ListedExact
