SPECIFICATION FairSpec
CONSTANTS
  NPROC = 3
  CPUs = {c0, c1}
  Cpu0 = c0
  NoCpu = free
  c0 = c0
  c1 = c1
  c2 = c2
  free = free
  TickMod = 2
  Calls = {"fork", "exit", "wait"}
  Timer = FALSE
PROPERTIES WaitReturns
