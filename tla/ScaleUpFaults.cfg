CONSTANTS
  NumSts = 3
  MasterSize = 3
  NumSlots = 4
  Key <- MCKey
  SlotOf <- MCSlotOf
  InitOwners <- EmptyOrOne
  None = None
  Allocs <- MCAllocs
  Reshards <- MCReshards
  Faults = {"crash", "redis", "migrate"}
  MaxFaults = 2
SPECIFICATION Spec
INVARIANTS TypeOK SlotStaysOwned KeysKept
PROPERTIES NoMasterEmptied ClusterFormed
