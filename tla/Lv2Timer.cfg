SPECIFICATION Spec
CONSTANTS
  u1 = u1
  u2 = u2
  q1 = q1
  q2 = q2
  g1 = g1
  g2 = g2
  Timer = {u1, u2}
  Queue = {q1, q2}
  NoQueue = NoQueue
  Guest = {g1, g2}
  LastTime = 5
  Setups <- MCSetups
INVARIANTS
  ListExact
PROPERTIES
  EventsExact
  DueFires
CHECK_DEADLOCK FALSE
