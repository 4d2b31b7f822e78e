SPECIFICATION Spec
CONSTANTS
  c1 = c1
  c2 = c2
  a = a
  b = b
  laptop = laptop
  dock = dock
  Clients = {c1, c2}
  Loop = Loop
  Nobody = Nobody
  Names = {a}
  NoName = NoName
  Sets = {laptop, dock}
  NoSet = NoSet
  Docked = {dock}
  Requests <- MCRequests
  LidStates = {TRUE, FALSE}
  TurnValues = {0, 1}
  Methods = {"manage", "unmanage", "set_profile_auto", "save", "delete", "status"}
  MaxPreviews = 0
  MaxFaults = 1
SYMMETRY ClientSymmetry
CHECK_DEADLOCK FALSE
INVARIANTS HandedBack
