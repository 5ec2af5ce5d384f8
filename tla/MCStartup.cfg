SPECIFICATION Spec
CONSTANTS
  s1 = s1
  s2 = s2
  Slots <- TwoSlots
  Requests <- MCRequests
  Capacity = 3
  Volumes = 1
  Fields <- MCFields
  Subsystem <- MCSubsystem
INVARIANTS
  AllOrNothing
  SetUpFirst
  VolumesSeen
  HostDataKept
PROPERTIES
  InitEnds
  CommandEnds
CHECK_DEADLOCK FALSE
