CONSTANTS
  NumSts = 3
  MasterSize = 2
  NumSlots = 4
  Key <- MCKey
  SlotOf <- MCSlotOf
  InitOwners <- FullOrLost
  None = None
  Plans <- MCPlans
  Faults = {"crash", "redis", "migrate", "k8s"}
  MaxFaults = 2
SPECIFICATION Spec
INVARIANTS TypeOK SlotStaysOwned KeysKept KeyReachable
PROPERTIES RemovedNodeIsDrained UndisturbedCompletes
