CONSTANTS
  Payments = {1}
  Buyers = {b1}
  BuyerOf <- SameBuyer
  Workers = {sweep, hook}
  Sweeper = sweep
  Replicas = {r1, r2}
  ReplicaOf <- OwnProcess
  Limit = 1
  PanelSet = TRUE
  SquadSet = TRUE
  Faults = {"lost", "crash", "db", "cabinet", "removed"}
  MaxFaults = 1
  Nobody = Nobody
  NoPayment = NoPayment
SPECIFICATION LiveSpec
CHECK_DEADLOCK FALSE
INVARIANTS NoMoneyWrittenOff ClaimedOnce
PROPERTIES PaidIsDelivered
