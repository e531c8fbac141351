SPECIFICATION ReloadSpec
CONSTANTS
  Files = 2
  Reader = {r1, r2}
  MaxRotation = 3
  MaxHiccups = 1
INVARIANTS
  FreshMeansCurrent
  PickedUpNext
PROPERTIES
  Converges
