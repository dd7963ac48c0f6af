SPECIFICATION FairSpec
CONSTANTS
  Regs = {"r0"}
  Vals = {0, 1}
  Bars = {1, 6}
  AllOnes = 99
  NULL = NULL
  Payload = 2
  MaxOps = 1
  Nodes = {n1}
  PipeCap = 1
  EvBuf = 1
  Sizes = {2}
  MaxTx = 2
  MaxLives = 1
PROPERTIES
  ReadReturns
  JoinEnds
  Delivered
CHECK_DEADLOCK FALSE
