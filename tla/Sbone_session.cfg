SPECIFICATION FairSpec
CONSTANTS
  Pdevs = {p1, p2}
  NSlots = 2
  PciBars = {1}
  NoSlot = NoSlot
  Apps = {a1}
  Card = p1
  Exclusive = TRUE
  MaxRuns = 2
INVARIANTS
  TypeOK
  HandlerReady
  UnboundClean
  ReportedCount
PROPERTIES
  WaitEnds
