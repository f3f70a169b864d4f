\* Two clients started on one identity file, and one with a file of its own;
\* crashes and lost connections at every point.
CONSTANTS
  p1 = p1
  p2 = p2
  p3 = p3
  f1 = f1
  f2 = f2
  Proc = {p1, p2, p3}
  Path = {f1, f2}
  Uses <- SomeShare
  Key = {k1, k2, k3, k4}
  ServerKey = {s1, s2, s3}
  None = None
  Torn = Torn
  Faults = {}
SPECIFICATION Spec
SYMMETRY Symmetry
CHECK_DEADLOCK FALSE
INVARIANTS
  TypeOK
  EnrolledIsKnown
  SignedAsPinned
  OrphansAreCutShort
  SavedIsKept
