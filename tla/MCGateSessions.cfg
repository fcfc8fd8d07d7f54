SPECIFICATION SessionSpec
CONSTANTS
  Player = {1, 2}
  MaxNetId = 3
  MaxAccepts = 3
INVARIANTS
  ConnCountExact
  OpenConnTracked
  FramesReachOwner
  StaleEntryExplained
PROPERTIES
  EntryDiesWithItsConn
  
