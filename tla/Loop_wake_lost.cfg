SPECIFICATION Spec
CONSTANTS
  laptop = laptop
  dock = dock
  upright = upright
  sideways = sideways
  Setups = {laptop, dock}
  NoDisplays = NoDisplays
  TurnValues = {upright}
  NoLayout = NoLayout
  NoProbe = NoProbe
  NoView = NoView
  Nobody = Nobody
  Loop = Loop
  Client = Client
  UPower = TRUE
  TriggerCap = 3
  AnswerCap = 1
  WakeRetryLimit = 1
  MaxMoves = 2
  MaxFaults = 0
  MaxCalls = 0
CHECK_DEADLOCK FALSE
INVARIANTS WakeIsSeenTo
