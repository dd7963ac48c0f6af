SPECIFICATION FairSpec
CONSTANTS
  Programs <- Procedure
  Block = 2
  Width = 16
PROPERTIES
  ProcedureStarts
