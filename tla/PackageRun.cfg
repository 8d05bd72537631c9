SPECIFICATION FairSpec
CONSTANTS
  Radix = 2
  InitCap = 2
  Payload <- Payloads
  Garbage = Garbage
  MaxSend = 3
  MaxReq = 3
CHECK_DEADLOCK FALSE
INVARIANTS
  TypeOK
  OneQueueEmpty
  HeapExact
PROPERTIES
  ImplementsChannel
  RequestResolved
