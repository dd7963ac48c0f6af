SPECIFICATION Spec
CONSTANTS
  Regs = {"r0"}
  Vals = {0, 1}
  Bars = {1}
  AllOnes = 99
  NULL = NULL
  Payload = 2
  MaxOps = 1
  Nodes = {n1}
  PipeCap = 2
  EvBuf = 2
  Sizes = {1}
  MaxTx = 1
  MaxLives = 1
INVARIANTS
  UserSizeRespected
CHECK_DEADLOCK FALSE
