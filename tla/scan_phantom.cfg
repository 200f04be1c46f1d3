SPECIFICATION Spec
CONSTANTS
  s1 = s1
  Scanners = {s1}
  r1 = r1
  Requests = {r1}
  Keys <- MCKeys
  Path <- MCPath
  DirMarkers <- MCDirMarkers
  Internal <- MCInternal
  UploadName <- MCUploadName
  NewNames <- MCNewNames
  Sizes <- MCSizes
  Ids <- MCIds
  Edits = {"trash", "presigned"}
  S3MayFail = FALSE
  PageSize = 2
  MaxEdits = 3
INVARIANTS
  NoPhantomFolder
