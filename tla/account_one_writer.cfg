SPECIFICATION Spec
CONSTANTS
  r1 = r1
  r2 = r2
  w1 = w1
  Requests = {r1, r2}
  Workers = {w1}
  Ops = {"store", "sync", "update", "destroy", "cors", "upload", "purge"}
  QueueDriver = "sync"
  QueueMayFail = TRUE
  S3MayFail = TRUE
  MayCrash = TRUE
  OneWriter = TRUE
  SharedBuckets = TRUE
  MaxJobs = 2
  MaxFiles = 1
  MaxVersions = 1
INVARIANTS
  UsedIsSum
  SettingsKept
  OwnDriverCurrent
  FrontendAllowed
PROPERTIES
  DisconnectedStays
  OnlyUnseenRulesLost
SYMMETRY Interchangeable
