SPECIFICATION Spec
CONSTANTS
  t1 = t1
  t2 = t2
  t3 = t3
  t4 = t4
  Thread = {t1, t2, t3, t4}
  NoThread = NoThread
  ppu_threads = 2
  InitPrio <- MCPrio
  InitQueue <- MCQueue
  Id <- MCId
  Setups <- MCSetups
INVARIANTS
  CallsSound
PROPERTIES
  ImplementsRwLock
  GivenReturns
CHECK_DEADLOCK FALSE
