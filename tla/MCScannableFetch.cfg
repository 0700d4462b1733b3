CONSTANTS
  UsizeMax = 3
  U64Max = 10
  Tx <- MCTx
  Zero = "zero"
  Chains <- MCChains
  Requests <- MCRequests
  AnyEntries <- MCAnyEntries
  TransactionsLimit = 1
  MaxFaults = 2
  None = None
SPECIFICATION FairSpec
INVARIANTS
  AcceptedIsAuthentic
  NothingHidden
  NothingSkipped
  IndexesOfTheChain
  UndisturbedFetchSucceeds
PROPERTIES
  FetchEnds
