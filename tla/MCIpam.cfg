\* Sequential calls: the pool refinement and the bitmap invariants.
CONSTANTS
  Nets <- MCNets
  Subnets <- MCSubnets
  NilIP = NilIP
SPECIFICATION Spec
INVARIANTS
  TypeOK
  Disjoint
  GatewayKept
PROPERTIES
  ImplementsPool
  FreesWhatItIsGiven
  OutsideOnlyWhenFull
