\* two callers that do not wait for each other
CONSTANTS
  Procs = {p1, p2}
  Ops <- CommandOps
  Frontend = "cli"
  UpsertDriver = TRUE
  Serialized = FALSE
  Faults = {"crash", "store"}
SPECIFICATION Spec
SYMMETRY Symmetry
INVARIANTS CreatedHasMetadata
