SPECIFICATION Spec
CONSTANTS
  busybox = busybox
  web = web
  v1 = v1
  last = last
  i1 = i1
  i2 = i2
  b1 = b1
  b2 = b2
  u1 = u1
  u2 = u2
  Refs <- MCRefs
  Last = last
  Base = busybox
  Ids <- TwoIds
  Containers <- TwoBoxes
  Users <- TwoUsers
  MaxMishaps = 2
SYMMETRY Symmetric
INVARIANTS
  IndexedUsable
  RunsOnWholeLayers
  NothingLost
PROPERTIES
  ListsAlone
  ImagesAccumulate
