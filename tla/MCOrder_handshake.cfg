SPECIFICATION OSpec
CONSTANTS
  Client = {c1, c2}
  Addr <- OneAddr
  MaxClients = 2
  MaxSame = 3
  MaxTokens = 1
  Fill = 0
  Target = {9}
  AcceptErrors = FALSE
  SockCap = 2
  MaxLog = 7
  Main = Main
  Refill = Refill
  Null = Null
INVARIANT HandshakeFirst
CHECK_DEADLOCK FALSE
