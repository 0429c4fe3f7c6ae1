CONSTANTS
  a1 = a1
  a2 = a2
  b = b
  c = c
  Docs = {a1, b}
  IndexOf <- SameIndex
  Id <- Ids
  Fields <- SortN
  Val <- ValN
  SortParts <- ByN
  MaxExact = 16
  Scans = {s1}
  PitIds = {p1}
  NoPit = NoPit
  PageSize <- Size0
  DefaultPageSize = 2
  PartialResults = FALSE
  MaxFaults = 0
SPECIFICATION FairSpec
PROPERTIES ScanEnds
