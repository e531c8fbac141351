SPECIFICATION Spec
CONSTANTS
  u1 = u1
  u2 = u2
  u3 = u3
  Url = {u1, u2, u3}
  NoUrl = NoUrl
  HistoryEntries = 2
  DefaultEntries = 3
  MaxChars = 2
  MaxFetches = 4
  Calls <- MCCalls
INVARIANTS
  IndexExact
  SeqsDistinct
  FetchesConserved
  ElidedIffIncomplete
  ToldExact
PROPERTIES
  NeverUnread
  KeepsMostRecent
