SPECIFICATION Spec
CONSTANTS
  a1 = a1
  b1 = b1
  a2 = a2
  b2 = b2
  Validators = {v1, v2, v3, v4}
  Restarters = {v4}
  Laggards = {}
  Blocks = {a1, b1}
  Height <- MCHeight
  ParentHash <- MCParent
  GenesisHash = genesis
  NoHash = none
SYMMETRY ValidatorSymmetry
VIEW ViewWithoutPending
CHECK_DEADLOCK FALSE
INVARIANTS
  Agreement
  UniqueQC
  FinalizedThroughAllPhases
  LockIsCertified
PROPERTY
  ImplementsFinalizedChain
