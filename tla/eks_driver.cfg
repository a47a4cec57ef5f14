\* every fault, and the engine killed at any point
CONSTANTS
  MaxVersion = 2
  Choices = {{"vpc", "role"}, {"keyPair"}}
  Ops = {"create", "update", "setVersion", "remove"}
  Faults = {"api", "crash", "stack", "update"}
SPECIFICATION FairSpec
INVARIANTS CreateComplete RemoveSweeps RecordedVersionRuns
PROPERTIES CallsReturn
