SPECIFICATION Spec
CONSTANTS
  None = None
  Inputs <- MCInputs
  MaxDepth = 2
  MaxArgument = 65535
  IsUtf8 <- Ascii
  Written <- AllWritten
INVARIANTS
  ReservedIsBacked
  ReadsTheGrammar
PROPERTIES
  EveryStepIsPaid
\* The reader stops when it has read or refused the input.
CHECK_DEADLOCK FALSE
