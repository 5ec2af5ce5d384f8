\* Two calls at a time.
CONSTANTS
  Nets <- MCNets
  NilIP = NilIP
  Subnets <- MCOverlapping
  Procs = {p1, p2}
  MaxActive = 2
  MaxCrashes = 0
SPECIFICATION Spec
SYMMETRY Symmetry
INVARIANTS
  DiskWellFormed
  NoStaleLock
