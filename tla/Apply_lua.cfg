SPECIFICATION Spec
CONSTANTS
  a = a
  b = b
  Layouts = {a, b}
  Own = Own
  NoFile = NoFile
  NoCopy = NoCopy
  Edited = Edited
  Clamshell = {}
  Lua = TRUE
  Omarchy = FALSE
  Upgraded = FALSE
  MaxCalls = 2
  MaxEdits = 1
  EditsInclude = TRUE
CHECK_DEADLOCK FALSE
SYMMETRY LayoutSymmetry
INVARIANTS CauseIsHonest
PROPERTIES SuccessMeansItRan
