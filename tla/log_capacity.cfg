SPECIFICATION Spec
CONSTANTS
  p1 = p1
  p2 = p2
  b1 = b1
  b2 = b2
  b3 = b3
  b4 = b4
  b5 = b5
  b6 = b6
  d0 = d0
  Procs = {p1, p2}
  Home = {b1, b2, b3, b4, b5, b6}
  Data = {d0}
  Blank = d0
  NoData = NoData
  NoBlock = NoBlock
  MAXOPBLOCKS = 3
  LOGSIZE = 6
  NLog = 6
  OpWrites = 2
  RefMod = 8
  CachePressure = FALSE
  CanCrash = FALSE
SYMMETRY Perms
INVARIANTS NoPanic LogFits
