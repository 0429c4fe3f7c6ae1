CONSTANTS
  Null = Null
  NaN = NaN
  Docs = {d1, d2}
  Types = {"long"}
  Cols <- SourceColumns
  Shapes = {"null", "plain"}
  Values = {1, 2}
  Contents <- MCContents
  FilterSets <- JSONFilters
  IndexedAs <- MCIndexedAs
  Unparsable <- MCUnparsable
  Tokens <- LowercaseWords
  MaxExact = 16
  Keys <- MCKeys
  RawKeys <- MCRawKeys
SPECIFICATION Spec
INVARIANTS NullsReadAsNull
CHECK_DEADLOCK FALSE
