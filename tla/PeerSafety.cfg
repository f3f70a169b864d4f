CONSTANTS
  Node = {a, b}
  Session = {s1, s2}
  Line = {l1, l2}
  MaxTime = 1
  None = None
  SockCap = 1
  MaxFrame = 1
  Callers = {a, b}
  Faults = {"Reject", "Break", "Exit", "EndOfInput"}
SPECIFICATION Spec
SYMMETRY Symmetry
CHECK_DEADLOCK FALSE
INVARIANTS
  TypeOK
  Synchronised
  NeverBothWait
  NotPendingWasWritten
  ArrivesAsNew
  NothingDropped
PROPERTIES
  KeepsHistory
