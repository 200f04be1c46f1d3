SPECIFICATION PatientSpec
CONSTANTS
  r1 = r1
  r2 = r2
  Requests = {r1, r2}
  PartNumbers <- MCPartNumbers
  Etags = {"e1"}
  DriverMayFail = FALSE
  S3MayFail = FALSE
  DbMayFail = FALSE
  MayCrash = FALSE
PROPERTIES
  CompletesAllParts
