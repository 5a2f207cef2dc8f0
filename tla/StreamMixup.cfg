SPECIFICATION Spec
CONSTANTS
  Stream = {s1, s2}
  Nil = Nil
  Peer = {a, b}
  NoPeer = NoPeer
  a = a
  b = b
  c1 = c1
  c2 = c2
  t = t
  Requests <- MCRequests
  Answers <- MCAnswers
SYMMETRY Interchangeable
INVARIANT HandlesOwnRequest
\* Every stream may have come to its end.
CHECK_DEADLOCK FALSE
