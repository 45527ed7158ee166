SPECIFICATION MCSpec
CONSTANTS
  k1 = k1
  k2 = k2
  NoKey = NoKey
  Keys = {k1, k2}
  NumShards = 2
  ShardOf <- ByKey
  States <- SomeState
  Closers = {c1, c2}
  NoEntry = NoEntry
  NoReply = NoReply
  NoAnswer = NoAnswer
  MaxTime = 4
  MaxCount = 2
  Costs = {1}
  TTL = 2
  Choices <- SomeOptions
  MaxOptions = 3
  NoLimiter = NoLimiter
  Minute = 60
  Hour = 3600
  NilStore = NilStore
  Stores = {NilStore, memory}
  Algorithms = {"TokenBucket", "FixedWindow", "SlidingWindow", "SlidingWindowCounter", "other"}
  NewMemory = NewMemory
  InvalidConfig = InvalidConfig
  InvalidKey = InvalidKey
INVARIANTS
  LTypeOK
  PanicNeedsOverlap
  AsksAsConfigured
PROPERTIES
  ImplementsRegister
  ExpiredRemoved
  CleanupStops
