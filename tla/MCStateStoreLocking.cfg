SPECIFICATION SnapSpec
CHECK_DEADLOCK FALSE
SYMMETRY Symmetry
CONSTANTS
  Key = {k1, k2}
  Value = {x}
  Nil = Nil
  Client = {c1, c2}
  Tx = {t1}
  NoTx = NoTx
  NoCall = NoCall
  AnyVersion = AnyVersion
  NoSnapshot = NoSnapshot
  Reloaded <- MCReloaded
  MaxRetries = 1
  Budget = 3
PROPERTIES
  OptimisticLocking
