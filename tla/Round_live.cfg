SPECIFICATION FairRoundSpec
CONSTANTS
  v1 = v1
  v2 = v2
  a1 = a1
  b1 = b1
  a2 = a2
  Validators = {v1, v2, v3, v4}
  Restarters = {v4}
  Blocks = {a1, b1, a2}
  Height <- MCHeight
  ParentHash <- MCParent
  Proposer <- MCProposer
  GenesisHash = genesis
  NoHash = none
  Flaky = {}
  Alone = {a2}
CHECK_DEADLOCK FALSE
INVARIANTS
  TypeOK
  ChainWellFormed
  VotedBlockKept
PROPERTIES
  RoundEnds
  RoundSucceeds
