SPECIFICATION HubSpec
CONSTANTS
  Conns = {k1, k2}
  Users = {u1, u2}
  Rooms = {m1}
  Requests = {q1}
  Broadcasters = {b1, b2}
  None = None
  SendCap = 1
  BroadcastCap = 1
INVARIANT ConnectedIsFound
CHECK_DEADLOCK FALSE
