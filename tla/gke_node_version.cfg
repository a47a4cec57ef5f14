\* nothing goes wrong
CONSTANTS
  MaxVersion = 2
  MaxNodes = 2
  Wants <- MCWants
  Ops = {"create", "update", "setVersion", "setSize", "remove"}
  Faults = {}
SPECIFICATION Spec
INVARIANTS NodeVersionApplied
