SPECIFICATION ClientSpec
CONSTANTS
  WaitLimit = 1
  MaxChains = 4
  MaxFlight = 2
INVARIANTS
  ClientTypeOK
  NeverGivesUp
  KnowsItself

  
