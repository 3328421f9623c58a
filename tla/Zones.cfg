CONSTANTS
  NumSts = 1
  Replicas = 2
  NumZones = 3
  None = None
  Faults = {"zone", "restart", "early", "failover", "silent", "redis", "expired", "forget", "k8s", "crash"}
  MaxFaults = 2
  MaxAsks = 1
SPECIFICATION Spec
INVARIANT TypeOK
PROPERTIES CopiesKept DeletionIsSafe DoneMeansScheduled ClusterHealed RedistributionCompletes
