SPECIFICATION Spec
CONSTANTS
  t1 = t1
  t2 = t2
  t3 = t3
  t4 = t4
  t5 = t5
  A = A
  B = B
  C = C
  Thread = {t1, t2, t3, t4}
  NoThread = NoThread
  ppu_threads = 2
  InitPrio <- MCPrio
  InitQueue <- MCQueue
  Bit = {A, B, C}
  Setups <- MCSetups
INVARIANTS
  CallsSound
PROPERTIES
  ServedInOrder
  ImplementsEventFlag
  ServedReturns
CHECK_DEADLOCK FALSE
