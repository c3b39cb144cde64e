CONSTANTS
  MaxLevel = 7
  HpPerLevel = 2
  ManaPerLevel = 2
  XpLimit <- Limits
  RaceRecovery = 1
  Meditation = 2
  Staffs <- SomeStaffs
  Potions <- SomePotions
  Priest <- APriest
  Damages = {0, 1, 4}
  Foes <- SomeFoes
  ExperienceToUpdate = 1
  UIntLimit = 32
  RecordLimit = 16
  InventorySize = 3
  BankSize = 1
  ItemPrice <- Prices
  MaxSafe <- SafeGold
  Classes = {"mage"}
  NewGold = 8
  Known = {10, 11}
  Coins = {8}
SPECIFICATION LifeSpec
CONSTRAINT Explored
INVARIANTS
  LifeIsConsistent
  ExperienceBelowLimit
PROPERTIES
  ReturnsAsItLeft
