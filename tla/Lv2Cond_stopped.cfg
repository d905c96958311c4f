SPECIFICATION Spec
CONSTANTS
  t1 = t1
  t2 = t2
  t3 = t3
  Thread = {t1, t2, t3}
  NoThread = NoThread
  InitPrio <- MCPrio
  InitQueue <- MCQueue
  MaxCount = 1
  ppu_threads = 1
  Setups <- StoppedSetups
INVARIANTS
  WaitReturnsOwner
CHECK_DEADLOCK FALSE
