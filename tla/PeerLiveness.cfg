\* SockCap = 0: a SyncGive with any chat in it has to be read to get through.
CONSTANTS
  Node = {a, b}
  Session = {s1, s2}
  Line = {l1, l2}
  MaxTime = 2
  None = None
  SockCap = 0
  MaxFrame = 2
  Callers = {a}
  Faults = {"Break"}
SPECIFICATION FairSpec
CHECK_DEADLOCK FALSE
PROPERTIES
  SyncEnds
