SPECIFICATION Spec
CONSTANTS
  t1 = t1
  t2 = t2
  t3 = t3
  Thread = {t1, t2, t3}
  NoThread = NoThread
  ppu_threads = 2
  InitPrio <- MCPrio
  InitQueue <- MCQueue
  MaxSent = 3
  Setups <- MCSetups
INVARIANTS
  Delivered
  CallsSound
PROPERTIES
  OkHasEvent
  HandedReturns
CHECK_DEADLOCK FALSE
