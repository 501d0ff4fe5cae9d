SPECIFICATION NoticesSpec
CHECK_DEADLOCK FALSE
SYMMETRY Symmetry
CONSTANTS
  Call = {c1, c2}
  Module = {m1}
  CallBudget = 4
  MaxQueueSize = 1
INVARIANTS
  EscalationHolds
  RaisedAgainOnlyIfLowered
  HistoryExplainsMode
  OnlyEscalationsOvertake
