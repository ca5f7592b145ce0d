CONSTANTS
  Tasks = {t1, t2, t3, t4}
  Ids = {i1, i2}
  Locks = {l1, l2, l3, l4}
  NoLock = NoLock
  NoTask = NoTask
  NoId = NoId
SPECIFICATION FairSpec
INVARIANTS IInv OneInside NoLeak
PROPERTIES ImplementsMutex EveryWaiterServed
