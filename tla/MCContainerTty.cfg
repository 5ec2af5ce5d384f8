SPECIFICATION FairSpec
CONSTANTS
  n1 = n1
  t1 = t1
  t2 = t2
  c1 = c1
  c2 = c2
  web = web
  nil = nil
  NilIP = nil
  Nets <- MCNets
  Subnets <- MCSubnets
  Terminals <- TwoTerminals
  Ids <- OneId
  Names <- NoNames
  Pids <- TwoPids
  Net <- Pair
  Commands <- AgainstTty
  Faults <- RaceFaults
INVARIANTS
  TypeOK
PROPERTIES
  TtyCleanup
