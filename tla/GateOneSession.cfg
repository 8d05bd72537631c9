SPECIFICATION Spec
CONSTANTS
  f1 = f1
  f2 = f2
  f3 = f3
  i1 = i1
  i2 = i2
  a1 = a1
  a2 = a2
  a3 = a3
  None = None
  Fds <- Fds2
  Ids <- Ids1
  Agents <- Agents2
  MaxClient = 2
  MaxData = 1
CHECK_DEADLOCK FALSE
INVARIANT
  OneSessionPerAccount
