CONSTANTS
  Friends = {f1}
  Renewing = {f1}
  Registrars = {g1}
  Workers = {sweep, task}
  Sweeper = sweep
  Admins = {a1}
  Objects = {o1, o2, o3}
  Cap = 1
  MaxAttempts = 2
  Limit = 1
  Faults = {"lost", "db", "crash"}
  MaxFaults = 1
  NoReward = NoReward
  NoLock = NoLock
SPECIFICATION FairSpec
CHECK_DEADLOCK FALSE
INVARIANTS GrantedAgainByFault ForgottenLockHarmless GrantedMeansGiven HeldWaits
PROPERTIES DecisionStands PendingResolved
