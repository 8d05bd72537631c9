SPECIFICATION Spec
CONSTANTS
  r1 = r1
  r2 = r2
  r3 = r3
  n1 = n1
  None = None
  DbFails = FALSE
  Reqs <- Reqs2
  Numbers <- Numbers1
CHECK_DEADLOCK FALSE
INVARIANT
  OneAccountPerNumber
