SPECIFICATION Spec
CONSTANTS
  None = None
  NotJson = NotJson
  Id <- MCId
  Protocol <- MCProtocol
  Inputs <- MCInputs
INVARIANTS
  FirstReadableWins
  LabelSaysHowItArrived
  NothingAskedIsLost
  RefusalIsExplained
  BareQueryIsSound
