CONSTANTS
  Top = 5
  UsizeMax = 5
  InitialBatch = 4
  RequestCap = 3
  MaxResponse = 6
  Target = 4
  MinBlockSize = 1
  MaxBlockSize = 5
  Blocks <- MCBlocks
  Zero = "zero"
  Chains <- MCChains
  Fetches <- HonestFetches
  Limits = FALSE
  MaxFaults = 0
SPECIFICATION Spec
INVARIANTS
  HonestFetchSucceeds
