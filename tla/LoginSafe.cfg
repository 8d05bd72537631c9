SPECIFICATION Spec
CONSTANTS
  c1 = c1
  c2 = c2
  i1 = i1
  t1 = t1
  t2 = t2
  g1 = g1
  g2 = g2
  good = good
  wrong = wrong
  None = None
  Conns <- Conns2
  Accounts <- Accounts1
  Travelers <- Travelers2
  Gates <- Gates2
  Tokens <- BothTokens
  Token = good
  NSlave = 2
  MaxSession = 2
SYMMETRY Symmetry
CHECK_DEADLOCK FALSE
INVARIANTS
  TypeOK
  UsableSession
  AdmitsOwnerOnce
PROPERTY
  ImplementsTickets
