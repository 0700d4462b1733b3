SPECIFICATION FairSpec
CONSTANTS
  Callers = {c1}
  Deterministic = FALSE
  Honest = FALSE
  LockWindow = 2
  CoinbaseLock = 1
  ItersPerMember = 3
  RingLens = {0, 1, 2, 3}
  BlockNumbers = {2, 3}
  Heights = {2}
  Top = 5
  Chains <- MCChains
  MaxOutputs = 4
  MaxErrors = 1
INVARIANTS ArithmeticIsSafe RingIsValid RealOutputIsHidden
PROPERTY SelectionEnds
