SPECIFICATION Spec
CONSTANTS
  t1 = t1
  t2 = t2
  t3 = t3
  Thread = {t1, t2, t3}
  NoThread = NoThread
  ppu_threads = 2
  InitPrio <- MCPrio
  InitQueue <- MCQueue
  MaxCount = 1
  Setups <- MCSetups
INVARIANTS
  CallsSound
PROPERTIES
  ImplementsLock
  HeirOwns
CHECK_DEADLOCK FALSE
