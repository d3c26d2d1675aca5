SPECIFICATION Spec
CONSTANTS
  Client = {c1, c2}
  Addr <- OneAddr
  MaxClients = 2
  MaxSame = 2
  MaxTokens = 1
  Fill = 0
  Target = {}
  AcceptErrors = FALSE
  SockCap = 1
  Main = Main
  Refill = Refill
  Null = Null
PROPERTY RefusedOverLimit
CHECK_DEADLOCK FALSE
