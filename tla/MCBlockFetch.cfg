CONSTANTS
  Top = 5
  UsizeMax = 5
  InitialBatch = 4
  RequestCap = 2
  MaxResponse = 6
  Target = 4
  MinBlockSize = 1
  MaxBlockSize = 5
  Blocks <- MCBlocks
  Zero = "zero"
  Chains <- MCChains
  Fetches <- MCFetches
  Limits = TRUE
  MaxFaults = 2
SPECIFICATION Spec
INVARIANTS
  TypeOK
  NothingSkipped
  RequestsBounded
  OneChain
  AuthenticBelowTip
  HonestFetchSucceeds
