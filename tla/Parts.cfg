SPECIFICATION Spec
CONSTANTS
  Parts = {"F", "C", "W", "R", "L", "I", "O", "S", "M", "P"}
  Displays = {x}
  Rates = {60, 120, 144}
  NoSetting = none
  NotRestoring = no
  MaxFaults = 2
  MaxCalls = 1
  Connectors = {p, q}
  MaxMishaps = 2
  Screens = {l, r}
  Spaces = {1, 2, 3}
  NoSpace = nospace
  MaxChanges = 2
  Flat = flat
  MaxTurns = 2
  MaxFlips = 3
  Callers = {t}
  Panels = {s}
  MaxRequests = 1
  MaxDials = 2
  Daemons = {d1, d2}
  Editors = {e}
  Nobody = nobody
  MaxTroubles = 1
  MaxOps = 2
  MaxLosses = 1
  ProfileNames <- ListedNames
  Files <- FileOf
  Stored = {"A"}
  Linked = {"fa"}
  Hardware <- Models
  BuiltIn = laptop
  Ports = {1, 2, 3}
  Hub = {2, 3}
  Paths = {11, 12}
  NoPath = nopath
  NameOrder = {1, 2}
  Earlier <- FirstProfiles
  Laptop = laptop
  Twin = twin
  Other = twin
  NoUnit = nounit
  NoProfile = noprofile
  SavedBefore = {1, 2}
  MaxPlugs = 2
  MaxSaves = 1
  Ordered = 3
  NoDisplay = 0
  ByPosition <- Side
  DefaultCount = 4
  DefaultGroup = 3
  MaxCount = 4
  FoundRules <- NoneOrOne
  MaxPlanEdits = 4
INVARIANTS OneWriter NothingIsLost NamesFollow ExtensionFits AppliedIsRecognised PlanIsReadBack
PROPERTIES BackoffsHold DisplaysRecover TakenIsReturned SensorsAreHeard ClientsAreServed
CHECK_DEADLOCK FALSE
