CONSTANTS
  NumSts = 3
  MasterSize = 1
  NumSlots = 4
  Key <- MCKey
  SlotOf <- MCSlotOf
  InitOwners <- Full
  None = None
  Plans <- MCPlans
  Faults = {"crash"}
  MaxFaults = 1
SPECIFICATION Spec
PROPERTY ScaleDownCompletes
