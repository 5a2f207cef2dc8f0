SPECIFICATION FairSpec
CONSTANTS
  Request = {r1, r2}
  p = p
  q = q
  x = x
  y = y
  Peer = {p, q}
  NotAnId = NotAnId
  Address = {x, y}
  Missing = Missing
  WrongType = WrongType
  Empty = Empty
  Nil = Nil
  Bodies <- MCBodies
INVARIANT TypeOK
INVARIANT AloneIsOwn
INVARIANT WrongAddressHasCause
PROPERTY RequestsAnswered
\* Every request may have been answered.
CHECK_DEADLOCK FALSE
