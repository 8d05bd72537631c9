SPECIFICATION FairSpec
CONSTANTS
  c1 = c1
  c2 = c2
  i1 = i1
  t1 = t1
  t2 = t2
  g1 = g1
  g2 = g2
  good = good
  wrong = wrong
  None = None
  Conns <- Conns2
  Accounts <- Accounts1
  Travelers <- Travelers2
  Gates <- NoGates
  Tokens <- GoodToken
  Token = good
  NSlave = 2
  MaxSession = 2
CHECK_DEADLOCK FALSE
PROPERTIES
  ConnectionReleased
  SessionForgotten
  SessionDelivered
