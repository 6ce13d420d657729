SPECIFICATION Spec
CONSTANTS
  p1 = p1
  b1 = b1
  b2 = b2
  d0 = d0
  d1 = d1
  Procs = {p1}
  Home = {b1, b2}
  Data = {d0, d1}
  Blank = d0
  NoData = NoData
  NoBlock = NoBlock
  MAXOPBLOCKS = 4
  LOGSIZE = 8
  NLog = 8
  OpWrites = 2
  RefMod = 8
  CachePressure = TRUE
  CanCrash = TRUE
SYMMETRY Perms
INVARIANTS LoggedStayCached
