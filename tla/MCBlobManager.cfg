SPECIFICATION Spec
CONSTANTS
  b1 = b1
  b2 = b2
  b3 = b3
  b4 = b4
  low = low
  core = core
  Blob <- MCBlob
  Emitter <- MCEmitter
  Anonymous = anonymous
  SizeOf <- MCSizeOf
  Quota <- MCQuota
  MaxCacheSize = 3
  TroubleBudget = 2
SYMMETRY Twins
INVARIANTS
  TypeOK
  AccountsExact
  DeletedStaysGone
PROPERTIES
  EvictsJustEnough
  OthersKeepTheirShare
