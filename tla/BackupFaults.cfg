CONSTANTS
  Backup = {b1, b2}
  Image = {v1, v2}
  ClusterScoped = TRUE
  InNamespace = FALSE
  Scope <- MCScope
  None = None
  Faults = {"api", "crash"}
  MaxFaults = 1
  MaxCreates = 2
  MaxChanges = 1
SPECIFICATION Spec
INVARIANTS TypeOK DeploymentHasBackup
PROPERTIES LifecycleSpec DeploymentFollows DeletionCompletes
CHECK_DEADLOCK FALSE
