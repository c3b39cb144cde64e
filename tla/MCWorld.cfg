CONSTANTS
  Heroes = {h1}
  Monsters = {m1}
  Projectiles = {p1, p2}
  Rows = 1
  Cols = 5
  Fixed <- ThePriest
  SafeTiles <- TheTown
  Priests <- ThePriest
  RespawnTiles <- TheTown
  Speeds <- Rightwards
  Ranges = {2}
  MonstersPoblation = 1
  AutoAttackDistance = 1
  AutoFollowDistance = 2
  Nobody = Nobody
  Elsewhere = Elsewhere
  Gone = Gone
SPECIFICATION Spec
INVARIANTS
  CellsAgree
PROPERTIES
  BlockedStay
  ProjectilesEnd
  WaitsEnd
