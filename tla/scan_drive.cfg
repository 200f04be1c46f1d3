SPECIFICATION FairSpec
CONSTANTS
  s1 = s1
  Scanners = {s1}
  r1 = r1
  Requests = {r1}
  Keys <- MCKeys
  Path <- MCPath
  DirMarkers <- MCDirMarkers
  Internal <- MCInternal
  UploadName <- MCUploadName
  NewNames <- MCNewNames
  Sizes <- MCSizes
  Ids <- MCIds
  Edits = {"move", "rename", "complete", "trash", "purge", "put", "presigned", "multipart", "scanInto"}
  S3MayFail = TRUE
  PageSize = 2
  MaxEdits = 2
INVARIANTS
  OneRowPerObject
  ObjectsTracked
PROPERTIES
  RescanChangesNothing
  ScanMovesNothing
  ScanEnds
