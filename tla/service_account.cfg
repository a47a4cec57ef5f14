\* two callers on one cluster, with every driver; up to three requests fail or callers die
CONSTANTS
  Callers = {c1, c2}
  Drivers = {"rke", "aks", "eks", "gke", "import"}
  MaxFaults = 3
SPECIFICATION Spec
INVARIANTS TokenIsAdmin RetryTolerant LegacyGone
SYMMETRY CallerSymmetry
