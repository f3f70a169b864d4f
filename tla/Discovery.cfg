\* Two registered diddys and a stranger, two lines, all faults.
CONSTANTS
  Diddy = {d1, d2, d3}
  Member = {d1, d2}
  Line = {l1, l2}
  Host = {h1, h2}
  Port = {7331}
  None = None
  MaxSent = 2
  Faults = {"server crash", "reset", "database error", "quit", "timeout", "listener", "move"}
SPECIFICATION Spec
SYMMETRY Symmetry
CHECK_DEADLOCK FALSE
INVARIANTS
  TypeOK
  RelayChatInStep
  AnswerOnTheWay
  DialsAnnounced
  SealedAsSaid
PROPERTIES
  RelaysAsPromised
