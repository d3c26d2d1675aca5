SPECIFICATION Spec
CONSTANTS
  Client = {c1, c2, c3}
  Addr <- OneAddr
  MaxClients = 2
  MaxSame = 3
  MaxTokens = 1
  Fill = 1
  Target = {}
  AcceptErrors = FALSE
  SockCap = 1
  Main = Main
  Refill = Refill
  Null = Null
SYMMETRY Symmetry
INVARIANTS TypeOK RosterSound RosterComplete OneOwner
CHECK_DEADLOCK FALSE
