SPECIFICATION Spec
CONSTANTS
  Thread = {t1, t2, t3}
  c_one = 3
  c_sig = 15
INVARIANTS
  MutualExclusion
  Counted
  PassedOn
  LockUnlockWaits
PROPERTIES
  WaitersServed
CHECK_DEADLOCK FALSE
