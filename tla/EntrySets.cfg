SPECIFICATION AnySpec
CONSTANTS
  None = None
  SetId = {"s1", "s2"}
  CredId = {"c1", "c2"}
  Field = {"f1", "f2"}
  Icon = {"icon"}
  Data = {"json"}
  Level = {2, 3, 4, 5, 6, 7, 8}
  EntrySet <- MCEntrySet
INVARIANTS
  NeverTraps
  DeliveredAsBuilt
PROPERTIES
  OnlyTheLastEntryChanges
