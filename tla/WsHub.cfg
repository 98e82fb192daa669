SPECIFICATION HubFairSpec
CONSTANTS
  Conns = {k1, k2}
  Users = {u1}
  Rooms = {m1}
  Requests = {q1}
  Broadcasters = {b1}
  None = None
  SendCap = 1
  BroadcastCap = 1
INVARIANTS IndexesAgree ChannelsCloseInOrder
PROPERTIES BrokenLeaves BroadcastReturns
CHECK_DEADLOCK FALSE
