SPECIFICATION Spec
CONSTANTS
  Task = {t1, t2}
  Lowest = 2
INVARIANTS
  MonitorSeesLive
PROPERTIES
  DeadStartTimesDropped
