SPECIFICATION Spec
CONSTANTS
  m1 = m1
  m2 = m2
  Maintainers = {m1, m2}
  Profiles <- VulnerableTypo
INVARIANT
  VetoAlwaysBlocks
CHECK_DEADLOCK FALSE
