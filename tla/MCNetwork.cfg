SPECIFICATION Spec
CONSTANTS
  n1 = n1
  qsrdocker0 = qsrdocker0
  web = web
  nil = nil
  u1 = u1
  u2 = u2
  NilIP = nil
  Nets <- MCNets
  Subnets <- MCSubnets
  NetIds <- MCNetIds
  Default <- qsrdocker0
  DefaultSubnet <- Low
  Users <- TwoUsers
  MaxMishaps = 2
SYMMETRY UserSymmetry
INVARIANTS
  TypeOK
  NetworksAgree
  NetworkHoldsSubnet
  NothingWithoutFile
PROPERTIES
  KernelRestored
