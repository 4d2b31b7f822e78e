SPECIFICATION Spec
CONSTANTS
  c1 = c1
  c2 = c2
  a = a
  b = b
  laptop = laptop
  dock = dock
  Clients = {c1, c2}
  Loop = Loop
  Nobody = Nobody
  Names = {a}
  NoName = NoName
  Sets = {dock}
  NoSet = NoSet
  Docked = {dock}
  Requests <- MCRequests
  LidStates = {FALSE}
  TurnValues = {0, 1}
  Methods = {"preview", "unmanage", "commit", "revert", "crash", "restart"}
  MaxPreviews = 2
  MaxFaults = 1
SYMMETRY ClientSymmetry
CHECK_DEADLOCK FALSE
INVARIANTS TypeOK PreviewOwnsScreen
PROPERTIES PreviewEndsProperly StaleTimerIsHarmless CommittedLayoutIsStable
