\* What a failed send queues, and the synchronisation of the next session.
CONSTANTS
  Node = {a, b}
  Session = {s1, s2}
  Line = {l1}
  MaxTime = 1
  None = None
  SockCap = 1
  MaxFrame = 2
  Callers = {a}
  Faults = {"Break"}
SPECIFICATION Spec
CHECK_DEADLOCK FALSE
INVARIANTS
  QueuedIsSynced
