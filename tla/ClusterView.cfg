CONSTANTS
  Pod = {p1, p2}
  Slot = {s1}
  None = None
  Faults = {"restart", "suspect", "failover", "silent", "address", "redis", "crash"}
  MaxFaults = 2
SPECIFICATION Spec
INVARIANTS TypeOK ConsistentIsComplete JoinedMeansMet HealthyCoversSlots
PROPERTIES JoinCompletes
