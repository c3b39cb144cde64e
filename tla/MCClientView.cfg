CONSTANTS
  Me = me
  Others = {o1}
  Monsters = {}
  Drops = {d1}
  Rooms = {r1, r2}
  First = r1
  Lifetime = 1
  QueueBound = 1
  WireBound = 2
  NewsBound = 1
  NoRoom = NoRoom
SPECIFICATION ViewSpec
CHECK_DEADLOCK FALSE
INVARIANTS
  ShownAsReported
PROPERTIES
  LeaversDisappear
  MapFollowsHero
