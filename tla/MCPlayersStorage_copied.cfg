CONSTANTS
  Sessions = {s1, s2}
  Names = {ana, beto}
  NoName = NoName
  None = None
  MaxChanges = 1
  MaxCrashes = 1
SPECIFICATION Spec
CHECK_DEADLOCK FALSE
INVARIANT CopiedHeroesExist
