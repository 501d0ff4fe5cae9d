SPECIFICATION Spec
CHECK_DEADLOCK FALSE
SYMMETRY Symmetry
CONSTANTS
  Token = {a, b}
  Bad = Bad
  TroubleBudget = 1
  MaxRetries = 2
  Threshold = 1
  RequestBudget = 2
  NoToken = NoToken
INVARIANTS
  ReplayIsMemory
  ReplayIsPast
  CompensatedIsUndone
  UndoneOncePerRequest
  CompensatingHasReason
PROPERTIES
  CircuitStaysOpen

