CONSTANTS
  MaxSts = 4
  MaxSlots = 5
  None = None
SPECIFICATION Spec
INVARIANTS PlanPartitionsSlots PlanBalanced
CHECK_DEADLOCK FALSE
