SPECIFICATION FairSpec
CONSTANTS
  p1 = p1
  p2 = p2
  b1 = b1
  b2 = b2
  d0 = d0
  d1 = d1
  Procs = {p1, p2}
  Home = {b1, b2}
  Data = {d0, d1}
  Blank = d0
  NoData = NoData
  NoBlock = NoBlock
  MAXOPBLOCKS = 3
  LOGSIZE = 6
  NLog = 6
  OpWrites = 2
  RefMod = 8
  CachePressure = TRUE
  CanCrash = FALSE
INVARIANTS LoggedStayCached
PROPERTIES ImplementsTxDisk EventuallyDurable
