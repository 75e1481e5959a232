SPECIFICATION AllocSpec
CONSTANTS
  PAGE_SIZE = 4
  AddressPages = 6
  HeapBase = 5
  InitialPages = 2
  LayoutSize = {1, 3, 8}
  LayoutAlign = {1, 2, 8}
  Null = Null
PROPERTIES
  BlocksAreSeparate
  RoomIsUsed
