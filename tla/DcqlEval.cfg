SPECIFICATION EngineSpec
CONSTANTS
  None = None
  Path <- MCPath
  Value <- MCValue
  ClaimId <- MCClaimId
  QueryId <- MCQueryId
  CredentialId <- MCCredentialId
  Format <- MCFormat
  Purpose <- MCPurpose
  Matches <- ExactFormat
  Requests <- MCRequests
  Wallets <- MCWallets
  Limits = {0, 1, 2, 4}
  MaxUsize = 6
INVARIANTS
  FirstWaysInOrder
  DroppedIsHonest
  DisclosesPreferredOption
  AbleCredentialsAreCandidates
PROPERTIES
  ImplementsAnswer
