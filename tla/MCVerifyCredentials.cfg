SPECIFICATION Spec
CONSTANTS
  Providers <- MCProviders
  Fields <- MCFields
  Allowed <- MCAllowed
  Required <- MCRequired
  Inputs <- MCInputs
  Environments <- MCEnvironments
  MaxModels = 3
  MaxSuffix = 2
  Rows = {r1}
  Keys = {k1}
  BLANK = BLANK
  KeyFields = {"token", "key"}
  DefaultField <- MCDefaultField
  NULL = NULL
INVARIANTS
  OneSetInUse
  RoundTrip
PROPERTIES
  StoredKeyServes
  EncryptedRefusals
