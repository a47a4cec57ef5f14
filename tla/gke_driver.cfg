\* requests fail, the engine is killed at any point, the cluster turns to ERROR or DEGRADED
CONSTANTS
  MaxVersion = 2
  MaxNodes = 2
  Wants <- MCWants
  Ops = {"create", "update", "setVersion", "setSize", "remove"}
  Faults = {"api", "crash", "status"}
SPECIFICATION FairSpec
INVARIANTS Settled RemoveSweeps
PROPERTIES CallsReturn
