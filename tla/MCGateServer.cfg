SPECIFICATION Spec
CONSTANTS
  Player = {1, 2}
  MaxNetId = 1
  MaxAccepts = 1
  HeartBeatLimit = 3
  UpdatePeriod = 2
  MaxTime = 7
INVARIANTS
  DeadIsKicked

  
  
