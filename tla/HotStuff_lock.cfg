SPECIFICATION SpecAtHeightOne
CONSTANTS
  a1 = a1
  b1 = b1
  a2 = a2
  b2 = b2
  Validators = {v1, v2, v3, v4}
  Restarters = {}
  Laggards = {v4}
  Blocks = {a1, a2, b2}
  Height <- MCHeight
  ParentHash <- MCParent
  GenesisHash = genesis
  NoHash = none
CHECK_DEADLOCK FALSE
PROPERTY
  PrepareRespectsLock
