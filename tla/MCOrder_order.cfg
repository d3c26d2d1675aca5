SPECIFICATION OSpec
CONSTANTS
  Client = {c1, c2}
  Addr <- OneAddr
  MaxClients = 2
  MaxSame = 3
  MaxTokens = 1
  Fill = 0
  Target = {}
  AcceptErrors = TRUE
  SockCap = 1
  MaxLog = 5
  Main = Main
  Refill = Refill
  Null = Null
SYMMETRY Symmetry
INVARIANT LifeInOrder
PROPERTY TotalOrder
CHECK_DEADLOCK FALSE
