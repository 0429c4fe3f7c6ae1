CONSTANTS
  a1 = a1
  a2 = a2
  b = b
  c = c
  Docs = {a1, b}
  IndexOf <- SameIndex
  Id <- Ids
  Fields <- SortNG
  Val <- ValN
  SortParts <- ByIdDesc
  MaxExact = 16
  Scans = {s1, s2}
  PitIds = {p1}
  NoPit = NoPit
  PageSize <- Size1
  DefaultPageSize = 2
  PartialResults = FALSE
  MaxFaults = 1
SPECIFICATION FairSpec
INVARIANTS Ledger
PROPERTIES ScanEnds PITsReleased
