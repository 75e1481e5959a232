SPECIFICATION Spec
CONSTANTS
  Byte = {"a", "b"}
  Zero = Zero
  MaxUsize = 3
  MaxPosition = 5
  OutLength = {0, 1, 2, 4}
  Blob <- MCBlob
  Offset <- MCOffset
INVARIANTS
  ReturnsTheBlob
  HonestHostNeverTraps
  BrokenHostIsNotBelieved
PROPERTIES
  CallEnds
\* A trap ends the guest.
CHECK_DEADLOCK FALSE
