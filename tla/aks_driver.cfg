\* requests fail, Azure fails, the engine is killed at any point
CONSTANTS
  MaxVersion = 2
  MaxNodes = 2
  Ops = {"create", "update", "setVersion", "setSize", "remove"}
  Faults = {"api", "crash", "provision"}
SPECIFICATION FairSpec
INVARIANTS Settled DependenciesFirst
PROPERTIES CallsReturn
