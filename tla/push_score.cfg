CONSTANTS
  Null = Null
  NaN = NaN
  Docs = {d1, d2}
  Types = {}
  Cols <- ScoreOnly
  Shapes = {"absent", "plain"}
  Values = {1, 2}
  Contents <- MCContents
  FilterSets <- JSONFilters
  IndexedAs <- MCIndexedAs
  Unparsable <- MCUnparsable
  Tokens <- LowercaseWords
  MaxExact = 16
  Keys <- MCKeys
  RawKeys <- MCRawKeys
SPECIFICATION Spec
INVARIANTS PushdownIsSuperset
CHECK_DEADLOCK FALSE
