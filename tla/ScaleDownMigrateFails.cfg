CONSTANTS
  NumSts = 3
  MasterSize = 2
  NumSlots = 4
  Key <- MCKey
  SlotOf <- MCSlotOf
  InitOwners <- Full
  None = None
  Plans <- MCPlans
  Faults = {}
  MaxFaults = 0
SPECIFICATION Spec
INVARIANT NoKeyLost
