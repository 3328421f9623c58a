CONSTANTS
  NumSts = 2
  Replicas = 1
  Faults = {"crash", "k8s", "restart", "slow", "edit"}
  MaxFaults = 2
SPECIFICATION Spec
INVARIANTS TypeOK ShardServedUndisturbed
PROPERTIES OnlyOldPodsDeleted UpdateCompletes LabelsFollowRoles
