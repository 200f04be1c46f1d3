SPECIFICATION FairSpec
CONSTANTS
  dirA = dirA
  dirB = dirB
  dirC = dirC
  dirZ = dirZ
  fileF = fileF
  fileG = fileG
  acc1 = acc1
  acc2 = acc2
  Root = Root
  NoMove = NoMove
  r1 = r1
  r2 = r2
  Requests = {r1, r2}
  Folders <- MCFolders2
  Files <- MCFile
  Accounts <- MCAccounts
  AccountOf <- MCAccountOf
  Ops = {"create", "update", "purge"}
  MaxDepth = 8
  MaxItems = 8
  DriverMayFail = FALSE
  S3MayFail = FALSE
  MayCrash = FALSE
  OneWriter = FALSE
INVARIANTS
  ParentIsFolder
  PurgedObjectsGone
PROPERTIES
  RequestsFinish
