SPECIFICATION RegSpec
CHECK_DEADLOCK FALSE
CONSTANTS
  Token = {a, b}
  Bad = Bad
  TroubleBudget = 1
INVARIANTS
  PersistentAfterCrash
