SPECIFICATION FairSpec
CONSTANTS
  TotalPages = 4
  ModelPages = 2
  Workers = {w1, w2}
  ChannelCap = 1
  MaxRuns = 2
CHECK_DEADLOCK FALSE
INVARIANTS
  AcceptedIsComplete
  ClosedAfterLastSend
  ManifestIsCommitPoint
  SuccessPublishes
  TempsOnlyAfterCrash
PROPERTY
  GenerateEnds
