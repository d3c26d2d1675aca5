SPECIFICATION RateSpec
CONSTANTS
  Client = {c1, c2, c3}
  Addr <- OneAddr
  MaxClients = 3
  MaxSame = 2
  MaxTokens = 2
  Fill <- Poison
  Target = {0}
  AcceptErrors = FALSE
  SockCap = 1
  MaxTicks = 2
  Main = Main
  Refill = Refill
  Null = Null
SYMMETRY Symmetry
INVARIANTS RateLimit TokenRange IpLimit
CHECK_DEADLOCK FALSE
