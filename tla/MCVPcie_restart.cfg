SPECIFICATION Spec
CONSTANTS
  Regs = {"r0"}
  Vals = {0, 1}
  Bars = {1}
  AllOnes = 99
  NULL = NULL
  Payload = 2
  MaxOps = 2
  Nodes = {n1, n2}
  PipeCap = 2
  EvBuf = 2
  Sizes = {2}
  MaxTx = 2
  MaxLives = 2
SYMMETRY Symmetry
INVARIANTS
  TypeOK
  NoUseAfterFree
  ShouldNotOccur
  NoStrayReply
  ReadYourWrites
  NoOrphanConnect
  IInv
  InOrder
  WakeUpPending
PROPERTIES
  BusSpec
  QuitDrains
CHECK_DEADLOCK FALSE
