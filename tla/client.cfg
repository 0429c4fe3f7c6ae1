CONSTANTS
  Flavors <- MCFlavors
  Elasticsearch <- MCElasticsearch
  MaxPages = 1
  NoRequest = NoRequest
SPECIFICATION Spec
INVARIANTS TypeOK IInv OneCaller AsksOnlyWhenNeeded ErrorsSurface LeavesNoPIT
PROPERTIES QueryEnds
CHECK_DEADLOCK FALSE
