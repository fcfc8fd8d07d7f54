SPECIFICATION Spec
CONSTANTS
  Player = {1, 2}
  Nick <- MCNick
  NoRole = NoRole
  Tighten <- MCTighten
  MaxRequests = 3
INVARIANTS
  
  AnswersAgree
PROPERTIES
  RolesSpec
  StoredRoleStays
  RequestHandled
