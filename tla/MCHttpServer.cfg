SPECIFICATION Spec
CONSTANTS
  c1 = c1
  c2 = c2
  c3 = c3
  Conn <- MCConn
  Sends <- MCSends
  Length = {0, 3}
  None = None
  HTTP_END_CONN_ID = 2
  MaxAdded = 2
CHECK_DEADLOCK FALSE
INVARIANTS
  TypeOK
  ParserExact
  TableHoldsLast
PROPERTIES
  Answered
