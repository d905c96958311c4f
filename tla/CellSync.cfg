SPECIFICATION Spec
CONSTANTS
  Thread = {t1, t2, t3}
  Value = {a, b}
  InitValue = a
  NoValue = NoValue
  Mod = 3
  Half = 4
  depth = 2
INVARIANTS
  MutexSound
  BufferSound
PROPERTIES
  ImplementsBarrier
  ImplementsFifo
  WaitsEnd
CHECK_DEADLOCK FALSE
