SPECIFICATION LinkSpec
CONSTANTS
  account = account
  game = game
  Server <- MCServer
  MaxBacklog = 3
PROPERTY EndedLinkNoticed
