CONSTANTS
  Friends = {f1, f2, f3}
  Renewing = {}
  Registrars = {g1, g2}
  Workers = {sweep}
  Sweeper = sweep
  Admins = {}
  Objects = {o1, o2, o3}
  Cap = 1
  MaxAttempts = 2
  Limit = 2
  Faults = {}
  MaxFaults = 0
  NoReward = NoReward
  NoLock = NoLock
SPECIFICATION Spec
CHECK_DEADLOCK FALSE
INVARIANTS CapKept
SYMMETRY Symmetry
