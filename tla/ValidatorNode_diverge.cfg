SPECIFICATION Spec
CONSTANTS
  MaxHeight = 2
  Deliveries = 1
  Repeated = {}
  Engines = {"client"}
  Faults = {"loss"}
CHECK_DEADLOCK FALSE
INVARIANT
  HeadMatchesTip
