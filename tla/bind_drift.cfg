CONSTANTS
  Null = Null
  NoField = NoField
  All = All
  NoPlan = NoPlan
  NoRequest = NoRequest
  NoSourceKey = NoSourceKey
  Indices = {i1}
  Names <- MCNames
  NameRank <- MCRank
  Within <- MCWithin
  FieldTypes <- MCFieldTypes
  Properties <- MCProperties
  Mappings <- MCMappings
  FieldsArgs <- MCFieldsArgs
  Documents <- MCDocuments
  MaxChanges = 1
SPECIFICATION Spec
INVARIANTS RightColumns
CHECK_DEADLOCK FALSE
