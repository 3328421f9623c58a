CONSTANTS
  Shard = {s1, s2}
  User = {admin, app}
  Admin = admin
  Image = {v1, v2}
  None = None
  MaxVersion = 3
  Faults = {"api", "refused", "crash", "restart"}
  MaxFaults = 1
  MaxChanges = 2
SPECIFICATION Spec
INVARIANTS TypeOK RecordedApplied PodsStartProtected
PROPERTIES ClusterProvisioned SecretsReachPods RecordSettles
CHECK_DEADLOCK FALSE
