\* Two players, two rooms, two requests each (a room change and back, or a
\* command left behind by a room change).
CONSTANTS
  Sessions = {s1, s2}
  Rooms = {r1, r2}
  MaxRequests = 2
  Unreliable = {}
  NoRoom = NoRoom
  NoSession = NoSession
SYMMETRY Symmetry
SPECIFICATION Spec
INVARIANTS
  HeroInOnePlace
  RoomChangeFindsHeroAndQueue
  QuitFindsItsHero
  DeletedQueueAwaitsQuit
