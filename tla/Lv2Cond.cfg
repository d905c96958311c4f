SPECIFICATION Spec
CONSTANTS
  t1 = t1
  t2 = t2
  t3 = t3
  Thread = {t1, t2, t3}
  NoThread = NoThread
  InitPrio <- MCPrio
  InitQueue <- MCQueue
  MaxCount = 1
  ppu_threads = 2
  Setups <- MCSetups
INVARIANTS
  WaitReturnsOwner
  CallsSound
PROPERTIES
  ImplementsMonitor
  OwnerReturns
CHECK_DEADLOCK FALSE
