SPECIFICATION Spec
CONSTANTS
  U64Max = 4194303
  Quotes <- MCQuotes
  Requests <- MCRequests
  Rivals <- MCRivals
  Signers = {"alice", "bob"}
  Wallets = {"alice", "bob", "carol"}
  Indexes = {1, 2}
  MaxShuffled = 3
INVARIANTS
  PaymentsReceived
  Balanced
  FeeIsOfWeight
  EventualityMatches
CHECK_DEADLOCK FALSE
