\* One call at a time, killed at any step.
CONSTANTS
  Nets <- MCNets
  NilIP = NilIP
  Subnets <- MCSubnets
  Procs = {p1}
  MaxActive = 1
  MaxCrashes = 2
SPECIFICATION FairSpec
INVARIANTS
  TornByCrash
PROPERTIES
  ImplementsIpam
  TornLosesAll
  CallsEnd
