SPECIFICATION Spec
CONSTANTS
  m1 = m1
  m2 = m2
  Maintainers = {m1, m2}
  Profiles <- Lone
INVARIANT
  OsvErrorsNonFatal
CHECK_DEADLOCK FALSE
