SPECIFICATION Spec
CONSTANTS
  t1 = t1
  t2 = t2
  t3 = t3
  Thread = {t1, t2, t3}
  NoThread = NoThread
  ppu_threads = 2
  InitPrio <- MCPrio
  InitQueue <- MCQueue
  Setups <- MCSetups
  MaxVal = 2
  InitVal = 0
  Counts = {1, 2}
INVARIANTS
  CallsSound
  QueueMatchesValue
PROPERTIES
  ImplementsSemaphore
  GrantedReturns
CHECK_DEADLOCK FALSE
