\* Two tasks share the write half; frames do not fit into the socket whole.  No
\* symmetry: it is not sound for liveness.
CONSTANTS
  short = short
  long = long
  over = over
  Task = {t1, t2}
  Msg = {short, long, over}
  Size <- Sizes
  Limit = 2
  Cap = 2
  MaxSends = 4
  None = None
SPECIFICATION FairSpec
CHECK_DEADLOCK FALSE
INVARIANTS
  TypeOK
  StaysInStep
  QuietMeansDelivered
PROPERTIES
  ReceivesAsSent
  Arrives
