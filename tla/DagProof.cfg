SPECIFICATION FairSpec
CONSTANTS
  StackLevels = 4
  MaxPages = 6
  MaxSamples = 3
  PageSizes = {1024, 2097152}
  MaxProofPages = 4
  MaxPageSize = 1048576
  MaxProofBytes = 11200
  ProofBytes <- MCProofBytes
CHECK_DEADLOCK FALSE
INVARIANTS
  RootsAgree
  SidecarMatchesRoots
  ProofAccepted
  AcceptedIsGenuine
PROPERTY
  SamplingEnds
