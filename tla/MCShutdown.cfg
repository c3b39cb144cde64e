CONSTANTS
  NRooms = 2
  Clients = {c1, c2}
SPECIFICATION Spec
CHECK_DEADLOCK FALSE
INVARIANTS
  QueuesOutliveTheirUsers
PROPERTIES
  StopEnds
