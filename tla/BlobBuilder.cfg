SPECIFICATION BuilderSpec
CONSTANTS
  CredId = {"c1", "c2"}
  IconId = {"i1", "i2"}
  Capability = {"longfellow"}
  IconByte = {"a", "b"}
  Icon <- MCIcon
  Width = 4
  None = None
  MaxCalls = 4
INVARIANTS
  UnknownIconIsTold
  NothingIsLost
  IconsAreTheirs
\* The calls are bounded.
CHECK_DEADLOCK FALSE
