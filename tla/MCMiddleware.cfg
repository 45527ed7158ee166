SPECIFICATION MSpec
SYMMETRY Symmetry
CONSTANTS
  r1 = r1
  r2 = r2
  r3 = r3
  k = k
  Requests = {r1, r2}
  Key = k
  Second = 2
  Keys = {k}
  BucketKeys = {}
  WindowKeys = {k}
  CounterKeys = {}
  LogKeys = {}
  NumShards = 1
  ShardOf <- OneShard
  NoEntry = NoEntry
  NoReply = NoReply
  MaxTime = 6
  Costs = {1}
  TTL = 3
  Capacity = 1
  Scale = 1
  Rate = 1
  Limit = 1
  Window = 3
  Milli = 1
  IntMax = 7
INVARIANTS
  MTypeOK
  HandledAsDecided
  ServedWithinLimit
  WaitSuffices
