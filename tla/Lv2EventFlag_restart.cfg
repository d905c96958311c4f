SPECIFICATION Spec
CONSTANTS
  t1 = t1
  t2 = t2
  t3 = t3
  t4 = t4
  t5 = t5
  A = A
  B = B
  C = C
  Thread = {t1, t2, t3, t4, t5}
  NoThread = NoThread
  ppu_threads = 5
  InitPrio <- MCPrio
  InitQueue <- MCQueue
  Bit = {A, B, C}
  Setups <- RestartSetups
PROPERTIES
  ImplementsEventFlag
CHECK_DEADLOCK FALSE
