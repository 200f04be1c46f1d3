SPECIFICATION Spec
CONSTANTS
  r1 = r1
  r2 = r2
  Requests = {r1, r2}
  PartNumbers <- MCPartNumbers
  Etags = {"e1", "e2"}
  DriverMayFail = TRUE
  S3MayFail = TRUE
  DbMayFail = TRUE
  MayCrash = TRUE
INVARIANTS
  OneItemPerUpload
  RecordedPartsStored
  ConfirmedRecorded
  
  UsedCountsItem
PROPERTIES
  ImplementsOneFile
  CompletesAllPartsSerially
  SessionStaysGone
SYMMETRY Interchangeable
