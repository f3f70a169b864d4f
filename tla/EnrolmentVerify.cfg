\* A server whose key file may fail to be read after the clients were built.
CONSTANTS
  p1 = p1
  p2 = p2
  p3 = p3
  f1 = f1
  f2 = f2
  Proc = {p1, p2, p3}
  Path = {f1, f2}
  Uses <- SomeShare
  Key = {k1, k2, k3, k4}
  ServerKey = {s1, s2, s3}
  None = None
  Torn = Torn
  Faults = {"read error"}
SPECIFICATION Spec
SYMMETRY Symmetry
CHECK_DEADLOCK FALSE
INVARIANT
  PeersAreVerified
