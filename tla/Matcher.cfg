SPECIFICATION Spec
CONSTANTS
  None = None
  SetId <- MCSetId
  CredId = {"c1", "c2", "c3", "siros-debug-entry"}
  Field = {"name of c1", "name", "birth", "age check"}
  Icon = {"png", "fallback"}
  Data <- MCData
  Path <- MCPath
  Value <- MCValue
  ClaimId = {"n", "b", "f"}
  QueryId = {"pid", "age", "zkp"}
  CredentialId = {"c1", "c2", "c3"}
  Format = {"mdoc", "sdjwt", "zkp"}
  Purpose = {"travel"}
  Matches <- ExactFormat
  Requests <- MCRequests
  Wallets <- MCWallets
  MaxUsize = 20
  Limits = {3}
  MaxCombinations = 3
  Fallback = "fallback"
  IconBytes <- MCIconBytes
  Row <- MCRow
  PlanRows <- MCPlanRows
  Invocations <- MCInvocations
INVARIANTS
  EveryCombinationShownWhole
PROPERTIES
  Ends
  KeepsPromise
