SPECIFICATION Spec
CONSTANTS
  Keys <- Keys2
  Orders <- Orders2
  Scores <- Scores1
  Pooled <- Pooled2
  Kickers = {k1, k2}
  None = None
  MaxRpc = 2
  MaxOpen = 2
  MaxKick = 2
  MaxError = 1
SYMMETRY KickSymmetry
CHECK_DEADLOCK FALSE
INVARIANTS
  TypeOK
  
  PaymentsKept
  
