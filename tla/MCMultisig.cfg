CONSTANTS
  Field = 5
  Participants = {1, 2, 3}
  Threshold = 2
  Honest = {1, 2}
  Machines <- MCMachines
  Intents <- MCIntents
  Coefficients <- MCCoefficients
  KeyOffset <- MCKeyOffset
  InputKey <- MCInputKey
  Bytes <- MCBytes
  Told = {0, 1}
SPECIFICATION Spec
CHECK_DEADLOCK FALSE
INVARIANTS
  HonestAgree
  HonestCanComplete
  FailureIsBlamed
