SPECIFICATION FairSpec
CONSTANTS
  Client = {c1, c2}
  Addr <- OneAddr
  MaxClients = 2
  MaxSame = 3
  MaxTokens = 1
  Fill = 1
  Target = {}
  AcceptErrors = FALSE
  SockCap = 1
  Main = Main
  Refill = Refill
  Null = Null
PROPERTIES Admission Cleanup
CHECK_DEADLOCK FALSE
