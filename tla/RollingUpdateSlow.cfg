CONSTANTS
  NumSts = 2
  Replicas = 1
  Faults = {"slow"}
  MaxFaults = 1
SPECIFICATION Spec
INVARIANT ShardServed
