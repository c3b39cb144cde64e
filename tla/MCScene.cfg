SPECIFICATION Spec
CONSTANTS
  Casts <- MCCasts
  Image <- MCImage
  TileSize = 2
  MapSize = 8
  ScreenWidth = 6
  ScreenHeight = 6
  UIHeight = 1
INVARIANTS
  CameraFollowsHero
  GroundUnderCharacters
  LooksAsReported
  PicturesExist
  SpellsAreCounted
