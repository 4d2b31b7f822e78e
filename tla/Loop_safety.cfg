SPECIFICATION Spec
CONSTANTS
  laptop = laptop
  dock = dock
  upright = upright
  sideways = sideways
  Setups = {laptop, NoDisplays}
  NoDisplays = NoDisplays
  TurnValues = {upright, sideways}
  NoLayout = NoLayout
  NoProbe = NoProbe
  NoView = NoView
  Nobody = Nobody
  Loop = Loop
  Client = Client
  UPower = TRUE
  TriggerCap = 1
  AnswerCap = 1
  WakeRetryLimit = 1
  MaxMoves = 2
  MaxFaults = 1
  MaxCalls = 0
SYMMETRY TurnSymmetry
CHECK_DEADLOCK FALSE
INVARIANTS TypeOK GuardExcludesWake TimersRest NothingForgotten
PROPERTIES ClosedLidIsReal
