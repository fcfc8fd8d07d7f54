SPECIFICATION Spec
CONSTANTS
  Text <- MCText
  OddQuotes <- MCOddQuotes
  Tighten <- MCTighten
  TightenLate <- MCTightenLate
  Unreliable = {}
  MaxPlayerId = 3
  MaxGrants = 3
INVARIANTS
  NamesUnique
  GrantDurable
  LoginMatchesGrant
  RefusalExplained
PROPERTIES
  AccountsPermanent
