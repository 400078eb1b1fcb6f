SPECIFICATION Spec
CONSTANTS
  N = 4
  MaxJobs = 2
  Coordinators = {1, 2}
  ByteBits = 3
  HashBytes = 2
  Luck <- MCLuck
  Policies <- MCPolicies
  OddSets = {{}, {2}, {2, 3, 4}}
  Endpoints <- MCEndpoints
  ArrivalOrders <- MCOrders
  MaxLost = 1
  Modes = {"demo", "devnet"}
  GenesisHash = 0
  NoBlock = none
CHECK_DEADLOCK FALSE
INVARIANTS
  CertifiedIsEarned
  ProposalAccepted
PROPERTIES
  HonestQuorumSuffices
  RoundAnswered
  DemoAgrees
