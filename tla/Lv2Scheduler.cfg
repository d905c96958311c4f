SPECIFICATION SmallSpec
CONSTANTS
  t1 = t1
  t2 = t2
  t3 = t3
  Thread = {t1, t2, t3}
  NoThread = NoThread
  ppu_threads = 1
  InitPrio <- MCPrio
  Prio = {2}
INVARIANTS
  PendingIsOwed
  OnlyOnProcRun
  NoIdleHardware
  GuestCanSleep
PROPERTIES
  SmallScheduled
CHECK_DEADLOCK FALSE
