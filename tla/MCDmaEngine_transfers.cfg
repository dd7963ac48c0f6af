SPECIFICATION FairSpec
CONSTANTS
  Programs <- Transfers
  Block = 2
  Width = 16
INVARIANTS
  TypeOK
  StatusCovers
  MsiAfterData
PROPERTIES
  TransferEnds
