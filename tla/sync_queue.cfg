SPECIFICATION FairSpec
CONSTANTS
  r1 = r1
  r2 = r2
  w1 = w1
  Requests = {r1, r2}
  Workers = {w1}
  Ops = {"store", "sync", "destroy"}
  QueueDriver = "database"
  QueueMayFail = TRUE
  S3MayFail = TRUE
  MayCrash = FALSE
  OneWriter = FALSE
  SharedBuckets = FALSE
  MaxJobs = 1
  MaxFiles = 1
  MaxVersions = 0
INVARIANTS
  SyncingHasCause
PROPERTIES
  SyncReleased
