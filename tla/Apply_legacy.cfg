SPECIFICATION FairSpec
CONSTANTS
  a = a
  b = b
  Layouts = {a, b}
  Own = Own
  NoFile = NoFile
  NoCopy = NoCopy
  Edited = Edited
  Clamshell = {b}
  Lua = FALSE
  Omarchy = TRUE
  Upgraded = TRUE
  MaxCalls = 1
  MaxEdits = 1
  EditsInclude = FALSE
CHECK_DEADLOCK FALSE
INVARIANTS IncludeHasTarget RulesAreSomewhere
PROPERTIES RestoresWhatItFound EditsSurvive AtomicallyApplied CallsReturn
