SPECIFICATION SharedSpec
CONSTANTS
  kw = kw
  kc = kc
  Keys = {kw, kc}
  BucketKeys = {}
  WindowKeys = {kw}
  CounterKeys = {kc}
  LogKeys = {}
  NumShards = 1
  ShardOf <- OneShard
  NoEntry = NoEntry
  NoReply = NoReply
  MaxTime = 5
  Costs = {1}
  TTL = 3
  Capacity = 2
  Scale = 3
  Rate = 2
  Limit = 3
  Window = 4
  Milli = 1
  IntMax = 7
INVARIANTS
  SmoothBoundary
