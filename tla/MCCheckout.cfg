CONSTANTS
  Payments = {1, 2}
  Buyers = {b1}
  BuyerOf <- SameBuyer
  Workers = {sweep, hook}
  Sweeper = sweep
  Replicas = {r1}
  ReplicaOf <- OneProcess
  Limit = 1
  PanelSet = TRUE
  SquadSet = TRUE
  Faults = {}
  MaxFaults = 0
  Nobody = Nobody
  NoPayment = NoPayment
SPECIFICATION StartSpec
CHECK_DEADLOCK FALSE
INVARIANTS PaidForReal ExtendedOnce NoUnpaidDays PaidDaysArrive FirstPurchaseOffered OwnerTold DeliveryAnnounced
PROPERTIES FinalStaysFinal ImplementsLifecycle
