CONSTANTS
  IPs = {i1, i2}
  NoEntry = NoEntry
  MaxRequests = 2
  Window = 1
  MaxTime = 5
  MaxCount = 3
  MaxBoots = 1
SPECIFICATION Spec
INVARIANTS TypeOK TwoWindowBound
PROPERTY ImplementsLoginBudget
