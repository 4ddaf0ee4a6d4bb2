SPECIFICATION SpecParts
CONSTANTS
  Aggregators = {a, b}
  Root = a
  Keys = {k, l}
  MergedKeys = {k}
  Many = 1
  MaxMerges = 2
  Recorders = {r, s}
  Orders = {1, 2}
  ChannelSize = 1
  MaxResponses = 2
  MaxResets = 1
INVARIANTS TypesOK NoLostUpdate ErrorsAmongRequests AllCounted
PROPERTIES AggregatorsAggregate AggregatorsMerge RecordReturns Exported
CHECK_DEADLOCK FALSE
