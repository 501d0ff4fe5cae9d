SPECIFICATION Spec
CONSTANTS
  Task = {t1, t2}
  Lowest = 2
INVARIANTS
  P0PreemptsLower
