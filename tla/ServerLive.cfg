\* Two handlers compete for the database, one of them may send its error reply
\* with the database locked; a relogin supersedes a channel with a packet in it.
\* No symmetry: it is not sound for liveness.
CONSTANTS
  Diddy = {d1}
  Conn = {c1, c2}
  Chan = {h1, h2}
  None = None
  SockCap = 1
  MaxFds = 2
  MaxRelay = 1
  Known = {}
  Requests = {"Register", "Login", "RelayPacket"}
SPECIFICATION FairSpec
INVARIANT
  LockedToRefuse
PROPERTIES
  RequestsAnswered
  SupersededTaskEnds
  QueuedIsWritten
