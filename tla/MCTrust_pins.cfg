SPECIFICATION Spec
CONSTANTS
  Client = {c1, c2}
  Ip = {home, away}
  Home = home
  Forged = Forged
  Junk = {junk}
  None = None
  MaxKeys = 2
  MaxConnects = 3
  MaxCrashes = 0
SYMMETRY Symmetry
INVARIANT PinsKept
CHECK_DEADLOCK FALSE
