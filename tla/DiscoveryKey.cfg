\* Two diddys in a relay chat with each other.
CONSTANTS
  Diddy = {d1, d2}
  Member = {d1, d2}
  Line = {l1, l2}
  Host = {h1}
  Port = {7331}
  None = None
  MaxSent = 1
  Faults = {}
SPECIFICATION Spec
CHECK_DEADLOCK FALSE
INVARIANT
  RelayReadable
