SPECIFICATION Spec
CONSTANTS
  dirA = dirA
  dirB = dirB
  dirC = dirC
  dirZ = dirZ
  fileF = fileF
  fileG = fileG
  acc1 = acc1
  acc2 = acc2
  Root = Root
  NoMove = NoMove
  r1 = r1
  Requests = {r1}
  Folders <- MCFoldersZ
  Files <- MCFiles
  Accounts <- MCAccounts
  AccountOf <- MCAccountOf
  Ops = {"create", "update", "trash", "purge"}
  MaxDepth = 8
  MaxItems = 8
  DriverMayFail = TRUE
  S3MayFail = TRUE
  MayCrash = FALSE
  OneWriter = FALSE
INVARIANTS
  LiveFilesStored
  NoOrphans
  UsedBetweenRowsAndBucket
PROPERTIES
  ImplementsAtomicTree
