\* One player that may change rooms twice, be lost, quit, and be collected
\* right after its login; no symmetry, for the temporal properties.
CONSTANTS
  Sessions = {s1}
  Rooms = {r1, r2}
  MaxRequests = 2
  Unreliable = {s1}
  NoRoom = NoRoom
  NoSession = NoSession
SPECIFICATION FairSpec
PROPERTIES
  RoomChangeEnds
  QuitRemovesHero
  ListenerAcceptsAgain
  ImplementsPlayerSession
