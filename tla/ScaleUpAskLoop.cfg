CONSTANTS
  NumSts = 3
  MasterSize = 3
  NumSlots = 4
  Key <- MCKey
  SlotOf <- MCSlotOf
  InitOwners <- One
  None = None
  Allocs <- MCAllocs
  Reshards <- MCReshards
  Faults = {}
  MaxFaults = 0
SPECIFICATION Spec
PROPERTY KeysWritable
