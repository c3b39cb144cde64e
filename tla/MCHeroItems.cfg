CONSTANTS
  sword = sword
  staff = staff
  hood = hood
  potion = potion
  h1 = h1
  Heroes = {h1}
  Cells = {town, wild}
  Items = {sword, staff, hood, potion}
  Kind <- KindOf
  Price <- PriceOf
  PriestSells = {staff}
  MerchantSells = {sword, hood}
  Priests = {town}
  Merchants = {town}
  Bankers = {town}
  InventorySize = 1
  BankSize = 1
  SafeGold = 1
  InitialGold = 1
  KitSize = 1
  MonsterGold = 1
  Wrapped = 9
  MaxLevel = 2
  MaxGold = 3
  MaxMissing = 1
  Road = Road
  Outside = Outside
SPECIFICATION Spec
CONSTRAINT Explored
INVARIANTS
  ItemHasOneOwner
  EquipmentIsLegal
  GoldIsConserved
  GoldWithinLimit
  SweptGhostsHoldNothing
CHECK_DEADLOCK FALSE
