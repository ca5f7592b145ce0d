CONSTANTS
  Friends = {f1, f2}
  Renewing = {}
  Registrars = {g1}
  Workers = {sweep, task}
  Sweeper = sweep
  Admins = {}
  Objects = {o1, o2, o3}
  Cap = 1
  MaxAttempts = 2
  Limit = 2
  Faults = {}
  MaxFaults = 0
  NoReward = NoReward
  NoLock = NoLock
SPECIFICATION FairSpec
CHECK_DEADLOCK FALSE
PROPERTIES HeldFriendServed
