SPECIFICATION Spec
CONSTANTS
  MaxHeight = 3
  Deliveries = 2
  Repeated = {1, 2}
  Engines = {"mock", "client"}
  Faults = {"loss", "overlap", "disk", "engine"}
CHECK_DEADLOCK FALSE
INVARIANTS
  TypeOK
  FinalizedIsExecuted
  FinalizedIsRetrievable
PROPERTY
  NextBlockNotRefused
