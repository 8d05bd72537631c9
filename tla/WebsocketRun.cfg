SPECIFICATION Spec
CONSTANTS
  f1 = f1
  f2 = f2
  Fds <- Fds2
  hash_fd <- OneBucket
  Frames <- Frames6
  InitCap = 2
  Garbage = Garbage
  None = None
  Small = 2
  Medium = 3
  Ext16 = 1
  Ext64 = 2
  MaskLen = 2
  MaxPack = 3
  Look <- Look6
  MaxSent = 3
SYMMETRY FdSymmetry
CHECK_DEADLOCK FALSE
INVARIANTS
  TypeOK
  FramesExact
  HeapExact
