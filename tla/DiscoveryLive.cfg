\* No symmetry: it is not sound for liveness.
CONSTANTS
  Diddy = {d1, d2, d3}
  Member = {d1, d2}
  Line = {l1, l2}
  Host = {h1}
  Port = {7331}
  None = None
  MaxSent = 1
  Faults = {"server crash", "reset", "database error", "quit", "timeout"}
SPECIFICATION FairSpec
CHECK_DEADLOCK FALSE
PROPERTIES
  ChatSettles
