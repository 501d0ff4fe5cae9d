SPECIFICATION SnapSpec
CHECK_DEADLOCK FALSE
SYMMETRY Symmetry
CONSTRAINT Bounds
CONSTANTS
  Key = {k1, k2}
  Value = {x}
  Nil = Nil
  Client = {c1, c2}
  Tx = {t1}
  NoTx = NoTx
  NoCall = NoCall
  AnyVersion = AnyVersion
  NoSnapshot = NoSnapshot
  Reloaded <- MCReloaded
  MaxRetries = 1
  Budget = 4
INVARIANTS
  VersionIdentifiesValue
  RollbackRestores
  SnapshotRestores
PROPERTIES
  NoSilentLostUpdate
