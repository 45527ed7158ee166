SPECIFICATION MCSpec
CONSTANTS
  kb = kb
  kw = kw
  kc = kc
  kl = kl
  Keys <- AllKeys
  BucketKeys = {}
  WindowKeys = {}
  CounterKeys = {kc}
  LogKeys = {}
  NumShards = 2
  ShardOf <- LastShard
  NoEntry = NoEntry
  NoReply = NoReply
  MaxTime = 6
  Costs = {1, 2}
  TTL = 3
  Capacity = 2
  Scale = 3
  Rate = 2
  Limit = 2
  Window = 4
  Milli = 1
  IntMax = 7
  Minute = 1
  Hour = 2
  NilStore = NilStore
  NewMemory = NewMemory
  InvalidConfig = InvalidConfig
  InvalidKey = InvalidKey
INVARIANTS
  CounterRetrySuffices
