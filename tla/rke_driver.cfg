\* every operation on two nodes, the engine killed at any point, hosts out of reach
CONSTANTS
  Nodes = {n1, n2}
  Ops = {"create", "update", "setVersion", "etcdSave", "etcdRemoveSnapshot", "etcdRestore", "remove"}
  Faults = {"crash", "unreachable"}
SPECIFICATION Spec
INVARIANTS Deployed RecordLeads RemoveSweeps
PROPERTIES PKIKept
SYMMETRY NodeSymmetry
