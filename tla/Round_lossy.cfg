SPECIFICATION RoundSpec
CONSTANTS
  v1 = v1
  v2 = v2
  a1 = a1
  b1 = b1
  a2 = a2
  Validators = {v1, v2, v3, v4}
  Restarters = {}
  Blocks = {a1, b1}
  Height <- MCHeight
  ParentHash <- MCParent
  Proposer <- MCProposer
  GenesisHash = genesis
  NoHash = none
  Flaky = {v2, v4}
  Alone = {}
VIEW ViewWithoutPending
CHECK_DEADLOCK FALSE
INVARIANTS
  SuccessIsFinal
PROPERTY
  ImplementsHotStuff
