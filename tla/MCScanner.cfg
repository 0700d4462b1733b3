SPECIFICATION Spec
CONSTANTS
  U64Max = 1000
  Wallet = "alice"
  Indexes = {1}
  Transactions <- MCTransactions
  Miners <- MCMiners
  HardForks <- MCHardForks
  Earlier = {989}
  MaxBlocks = 2
  MaxInBlock = 2
  BlockThreshold = 500
INVARIANTS
  FoundIsOnChain
  NothingMissed
  NeverBurnt
  LocksKept
