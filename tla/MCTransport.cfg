CONSTANTS
  Calls = {c1, c2, c3}
  MaxFaults = 2
  None = None
SPECIFICATION FairSpec
INVARIANTS
  OwnResponse
  ExecutionBound
  InnocentCallSucceeds
  NeverDeadlocked
PROPERTIES
  NoReplay
  ServesCallsSerially
  EveryCallEnds
