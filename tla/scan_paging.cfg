CONSTANTS
  a1 = a1
  a2 = a2
  b = b
  c = c
  Docs = {a1, a2, b, c}
  IndexOf <- SameIndex
  Id <- Ids
  Fields <- SortN
  Val <- ValN
  SortParts <- ByN
  MaxExact = 16
  Scans = {s1}
  PitIds = {p1, p2}
  NoPit = NoPit
  PageSize <- Size2
  DefaultPageSize = 2
  PartialResults = FALSE
  MaxFaults = 2
SPECIFICATION Spec
SYMMETRY Symmetry
INVARIANTS TypeOK IInv Ledger ResumePoint ExactlyOnce NoDuplicates OneVersion LeaksExcused OnlyExcusedFailures
PROPERTIES PagesInOrder ImplementsPromise
