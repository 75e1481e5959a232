SPECIFICATION Spec
CONSTANTS
  None = None
  DateOf <- MCDateOf
  LengthOf <- MCLengthOf
  JsonOf <- MCJsonOf
  ItemsOf <- MCItemsOf
  Shown <- MCShown
  Inputs <- MCInputs
INVARIANTS
  OfferedMeansAble
  VerifiersPreference
  NymSecretsStay
  CircuitFitsAttestation
  DescribedCircuitProves
