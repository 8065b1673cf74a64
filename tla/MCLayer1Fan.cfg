SPECIFICATION Spec
CONSTANTS
  m1 = m1
  m2 = m2
  Maintainers = {m1, m2}
  Profiles <- Fanned
INVARIANTS
  TypeOK
  
  LoneDetectorHeard
  MetadataComplete
PROPERTY
  FanOutEnds
CHECK_DEADLOCK FALSE
