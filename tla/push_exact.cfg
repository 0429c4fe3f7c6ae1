CONSTANTS
  Null = Null
  NaN = NaN
  Docs = {d1, d2}
  Types = {"keyword", "byte", "double", "boolean", "date", "version", "half_float"}
  Cols <- SourceAndId
  Shapes = {"absent", "plain"}
  Values = {0, 1, 2}
  Contents <- MCContents
  FilterSets <- JSONFilters
  IndexedAs <- MCIndexedAs
  Unparsable <- MCUnparsable
  Tokens <- LowercaseWords
  MaxExact = 16
  Keys <- MCKeys
  RawKeys <- MCRawKeys
SPECIFICATION Spec
INVARIANTS TypeOK PushdownIsSuperset RawConstrains ExactAnswer PushedSuffices
CHECK_DEADLOCK FALSE
