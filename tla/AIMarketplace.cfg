SPECIFICATION FairSpec
CONSTANTS
  Accounts = {alice, dao}
  Contracts = {dao}
  Owner = alice
  InitialOracle = dao
  Values = {0, 2}
  MaxModels = 1
  MaxJobs = 2
  MaxTime = 3
CHECK_DEADLOCK FALSE
INVARIANT
  Solvent
PROPERTIES
  OutcomeIsFinal
  JobSettles
