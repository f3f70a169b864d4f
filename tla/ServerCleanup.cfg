\* The clean-up the server announces for a disconnected diddy.
CONSTANTS
  Diddy = {d1}
  Conn = {c1}
  Chan = {h1}
  None = None
  SockCap = 1
  MaxFds = 2
  MaxRelay = 0
  Known = {d1}
  Requests = {"Login", "Announce"}
SPECIFICATION FairSpec
PROPERTIES
  DisconnectCleansUp
