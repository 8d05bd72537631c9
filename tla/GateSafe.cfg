SPECIFICATION Spec
CONSTANTS
  f1 = f1
  f2 = f2
  f3 = f3
  i1 = i1
  i2 = i2
  a1 = a1
  a2 = a2
  a3 = a3
  None = None
  Fds <- Fds3
  Ids <- Ids2
  Agents <- Agents3
  MaxClient = 2
  MaxData = 2
CONSTRAINT FewPackages
SYMMETRY Symmetry
CHECK_DEADLOCK FALSE
INVARIANTS
  TypeOK
  AgentKeepsAccount
  AccountIsolation
  NclientExact
  PoolIdle
  NoSharedAgent
  ReopenSafe
  CalleesLive
PROPERTY
  ExitsClosed
