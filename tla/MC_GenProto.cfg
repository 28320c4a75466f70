SPECIFICATION SpecGenProto
CONSTANTS
  Lenient = {}
  Apis <- MCApis
INVARIANT FilterExact SubclassesKept DispatchAgrees WireAgrees SchemaValid GoNamesFree
CHECK_DEADLOCK FALSE
