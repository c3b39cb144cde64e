CONSTANTS
  InventorySlots = {0, 1}
  Items = {11}
  Pressed <- SomeKeys
  Lines <- SomeLines
  UIs <- SomeUIs
  Amounts = {5, 9}
  MaxInt = 7
  Uint16 = 4
  MaxMessage = 2
  MaxInputs = 2
  RacesOffered = {"human", "elf"}
  ClassesOffered = {"warrior", "mage"}
  MapsOffered = {"grass", "ice"}
  MaxInput = 2
SPECIFICATION ProgramSpec
CHECK_DEADLOCK FALSE
INVARIANTS
  OnlyTheNamedPlay
  CommandsArriveInOrder
  SelectionIsShown
PROPERTIES
  QuitEndsClient
