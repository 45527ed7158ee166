SPECIFICATION MCSpec
CONSTANTS
  kb = kb
  kw = kw
  kc = kc
  kl = kl
  Keys <- AllKeys
  BucketKeys = {kb}
  WindowKeys = {kw}
  CounterKeys = {kc}
  LogKeys = {kl}
  NumShards = 2
  ShardOf <- LastShard
  NoEntry = NoEntry
  NoReply = NoReply
  MaxTime = 8
  Costs = {1, 2}
  TTL = 4
  Capacity = 2
  Scale = 3
  Rate = 2
  Limit = 2
  Window = 5
  Milli = 2
  IntMax = 7
  Minute = 1
  Hour = 2
  NilStore = NilStore
  NewMemory = NewMemory
  InvalidConfig = InvalidConfig
  InvalidKey = InvalidKey
INVARIANTS
  TypeOK
  RateBound
  BucketRetryTight
  TwiceLimit
  WindowRetryExact
  SmoothBoundary
  StrictLimit
  LogRetryExact
PROPERTIES
  ImplementsReference
