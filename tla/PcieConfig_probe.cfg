SPECIFICATION Spec
CONSTANTS
  Base = 2
  Flags = 2
  NBars = 2
  Sizes = {0, 2, 8}
  Widths = {4}
  Data = {0, 6, 9, 15}
INVARIANTS
  TypeOK
  ProbeExact
  AddrAgree
