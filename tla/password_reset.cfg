SPECIFICATION Spec
CONSTANTS
  r1 = r1
  r2 = r2
  Requests = {r1, r2}
  Lifetime = 1
  Minute = 2
  DbMayFail = TRUE
  MayCrash = TRUE
  MaxTokens = 3
  MaxTime = 4
INVARIANTS
  DeadLinksRefused
  LatestLinkWorks
SYMMETRY Interchangeable
