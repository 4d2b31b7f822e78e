SPECIFICATION FairSpec
CONSTANTS
  c1 = c1
  c2 = c2
  a = a
  b = b
  laptop = laptop
  dock = dock
  Clients = {c1, c2}
  Loop = Loop
  Nobody = Nobody
  Names = {a}
  NoName = NoName
  Sets = {dock}
  NoSet = NoSet
  Docked = {dock}
  Requests <- MCRequests
  LidStates = {FALSE}
  TurnValues = {0}
  Methods = {"preview", "commit", "manage", "unmanage", "set_profile_auto", "revert"}
  MaxPreviews = 2
  MaxFaults = 0
CHECK_DEADLOCK FALSE
PROPERTIES PreviewIsResolved CallsReturn SafelyPreviewed
