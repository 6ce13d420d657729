SPECIFICATION Spec
CONSTANTS
  p1 = p1
  p2 = p2
  b1 = b1
  b2 = b2
  d0 = d0
  d1 = d1
  Procs = {p1, p2}
  Home = {b1, b2}
  Data = {d0, d1}
  Blank = d0
  NoData = NoData
  NoBlock = NoBlock
  MAXOPBLOCKS = 4
  LOGSIZE = 8
  NLog = 8
  OpWrites = 2
  RefMod = 8
  CachePressure = FALSE
  CanCrash = TRUE
INVARIANTS LogInv DurableWhenQuiet
PROPERTIES ImplementsTxDisk
