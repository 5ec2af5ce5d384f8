SPECIFICATION Spec
CONSTANTS
  n1 = n1
  t1 = t1
  t2 = t2
  c1 = c1
  c2 = c2
  web = web
  nil = nil
  NilIP = nil
  Nets <- MCNets
  Subnets <- MCSubnets
  Terminals <- OneTerminal
  Ids <- TwoIds
  Names <- NoNames
  Pids <- TwoPids
  Net <- Pair
  Commands <- CommandKinds
  Faults <- FaultKinds
INVARIANTS
  GatewayUntouched
  NeverSignalsEveryone
PROPERTIES
  PausedSticky
SYMMETRY IdSymmetry
