\* Racing registrations and logins of two diddys, every kind of request, relayed
\* packets, and a descriptor limit that accept can hit.
CONSTANTS
  Diddy = {d1, d2}
  Conn = {c1, c2}
  Chan = {h1, h2}
  None = None
  SockCap = 1
  MaxFds = 2
  MaxRelay = 2
  Known = {}
  Requests = {"Register", "Login", "Verify", "Announce", "QueryPeer", "RelayPacket"}
SPECIFICATION Spec
SYMMETRY Symmetry
INVARIANTS
  TypeOK
  ActsInOwnName
  RegistrationGrantedOnce
  NoMisdelivery
  WelcomedBeforeRelay
  RelayInOrder
PROPERTIES
  RelaysAsPromised
  SupersededForGood
  LeavesForSocket
