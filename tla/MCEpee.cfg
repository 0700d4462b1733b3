CONSTANTS
  MaxDepth = 4
  Kinds = {5, 12}
  MaxCount = 2
  Length = 6
  MaxHandles = 5
SPECIFICATION FairSpec
INVARIANTS
  TypeOK
  Aligned
PROPERTIES
  DropEnds
