SPECIFICATION PortsSpec
CONSTANTS
  n1 = n1
  t1 = t1
  t2 = t2
  c1 = c1
  c2 = c2
  web = web
  nil = nil
  h1 = h1
  h2 = h2
  NilIP = nil
  Nets <- MCNets
  Subnets <- MCSubnets
  Terminals <- OneTerminal
  Ids <- TwoIds
  Names <- OneName
  Pids <- ThreePids
  Net <- Quad
  Commands <- CommandKinds
  Faults <- SetupFaults
  HostPorts <- TwoPorts
  Publishes <- MCPublishes
  Refusals = TRUE
INVARIANTS
  LeaseAccounting
  Reachable
  PortsFollowAddress
