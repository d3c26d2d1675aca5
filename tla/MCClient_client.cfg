SPECIFICATION ClientSpec
CONSTANTS
  Client = {c1, c2}
  Ip = {home, away}
  Home = home
  Forged = Forged
  Junk = {junk}
  None = None
  MaxKeys = 2
  MaxConnects = 4
  MaxCrashes = 1
  Local <- Ours
  Remotes <- Versions
  BufSize = 4
  MaxRuns = 2
  Kinds = {"chat", "long", "other", "noise"}
  Lines = {"", "text", "!leave", "!changeusername name"}
  MaxReceived = 3
  MaxTyped = 2
  MaxGhosts = 1
SYMMETRY Symmetry
INVARIANTS OnlyConfirmed KeptInTurn OneIdentity VersionAcknowledged ScreenInOrder AtMostTwoLost SaidOnce
PROPERTY TornStays
CHECK_DEADLOCK FALSE
