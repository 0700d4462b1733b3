SPECIFICATION Spec
CONSTANTS
  Callers = {c1, c2}
  Deterministic = TRUE
  Honest = TRUE
  LockWindow = 2
  CoinbaseLock = 1
  ItersPerMember = 2
  RingLens = {2}
  BlockNumbers = {3, 4}
  Heights = {3, 4}
  Top = 5
  Chains <- MCChains
  MaxOutputs = 0
  MaxErrors = 0
INVARIANTS RingIsSpendable SameDecoys
SYMMETRY CallerSymmetry
