SPECIFICATION Spec
CONSTANTS
  Programs <- OneTransfer
  Block = 2
  Width = 16
INVARIANTS
  InBuffer
