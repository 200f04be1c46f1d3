SPECIFICATION PreviewSpec
CONSTANTS
  r1 = r1
  r2 = r2
  d1 = d1
  Requests = {r1, r2}
  Readers = {d1}
  Ranges <- MCRanges
  Sizes <- MCSizes
  MaxPreviewProxyBytes = 2
  S3MayFail = TRUE
  MaxCompletions = 2
INVARIANTS
  ReadySizeIsReal
  UsedCoversFile
  RangeAsAsked
  LengthIsBody
  CapHolds
  ProxyIsServed
SYMMETRY Interchangeable
CHECK_DEADLOCK FALSE
