SPECIFICATION Spec
CONSTANTS
  a = a
  b = b
  c1 = c1
  c2 = c2
  Url = {a, b}
  Caller = {c1, c2}
  Tool = {"read"}
  Call = {x1, x2}
  Modes = {"enforce", "strict"}
  Carrying = {a}
  Trusted = {}
  Eliciting = {c1}
  Answers <- MCPairs
  MaxSeen = 2
  ConfirmTTL = 1
  MaxStates = 2
  MaxTime = 2
SYMMETRY MCSymmetry
INVARIANTS
  NoUnaskedFetch
  SeenIsShown
  SingleUseUntilExpiry
