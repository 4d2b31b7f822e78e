SPECIFICATION FairSpec
CONSTANTS
  laptop = laptop
  dock = dock
  upright = upright
  sideways = sideways
  Setups = {laptop, NoDisplays}
  NoDisplays = NoDisplays
  TurnValues = {upright}
  NoLayout = NoLayout
  NoProbe = NoProbe
  NoView = NoView
  Nobody = Nobody
  Loop = Loop
  Client = Client
  UPower = FALSE
  TriggerCap = 2
  AnswerCap = 1
  WakeRetryLimit = 1
  MaxMoves = 1
  MaxFaults = 0
  MaxCalls = 1
CHECK_DEADLOCK FALSE
PROPERTIES Reconciles
