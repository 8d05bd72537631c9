SPECIFICATION FairSpec
CONSTANTS
  r1 = r1
  r2 = r2
  r3 = r3
  n1 = n1
  None = None
  DbFails = TRUE
  Reqs <- Reqs3
  Numbers <- Numbers1
CHECK_DEADLOCK FALSE
INVARIANTS
  TypeOK
  QueryRuns
  AnswersTrue
PROPERTIES
  WebAnswered
