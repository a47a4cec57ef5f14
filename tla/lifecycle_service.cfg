\* Rancher: one operation at a time, every fault
CONSTANTS
  Procs = {p1}
  Ops <- ServiceOps
  Frontend = "service"
  UpsertDriver = FALSE
  Serialized = TRUE
  Faults = {"crash", "store", "rpc"}
SPECIFICATION Spec
INVARIANTS TypeOK MetadataCoversCloud RunningIsUsable
PROPERTIES NoDuplicateCreate OrphanOnlyByForce ImplementsContract
