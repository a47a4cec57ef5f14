\* two clusters; a command is killed or fails at any point
CONSTANTS
  Names = {n1, n2}
  Gens = {g1, g2}
  Keyless = {g1}
  Bare = {g2}
  Faults = {"crash", "io", "decode"}
  MaxFaults = 1
SPECIFICATION Spec
INVARIANTS TypeOK RemoveForgets StoredUsable
PROPERTIES NeverLost
SYMMETRY NameSymmetry
