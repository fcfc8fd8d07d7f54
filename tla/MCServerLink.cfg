SPECIFICATION LinkSpec
CONSTANTS
  account = account
  game = game
  Server <- MCServer
  MaxBacklog = 3
INVARIANT RepliesReachGate
PROPERTY ClosedLinkReopens
