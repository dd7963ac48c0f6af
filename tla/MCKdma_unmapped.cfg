SPECIFICATION Spec
CONSTANTS
  Blocks = {b1, b2}
  NPages = 2
  Seeds = {s1, s2}
  Nowhere = Nowhere
  Procs = {p1}
  MaxIo = 2
  MaxRuns = 2
  MaxKills = 1
  Span = 32
  Word = 2
  NBars = 2
  Vadr <- MCVadr
  BarLen <- MCBarLen
INVARIANTS
  AccessInBar
CHECK_DEADLOCK FALSE
