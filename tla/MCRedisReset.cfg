SPECIFICATION MCSpec
CONSTANTS
  kb = kb
  kw = kw
  kc = kc
  kl = kl
  kp = kp
  sb = sb
  sw = sw
  sl = sl
  sp = sp
  Keys <- AllKeys
  SharedKeys <- ManyClients
  BucketKeys = {}
  WindowKeys = {sw}
  CounterKeys = {}
  LogKeys = {sl}
  PlainKeys = {}
  States = {s1}
  Second = 3
  MaxPipes = 2
  MaxNumber = 2
  NoAnswer = NoAnswer
  EmptyState = EmptyState
  Failed = Failed
  NoKey = NoKey
  NoScan = NoScan
  NoReply = NoReply
  MaxTime = 3
  SharedTime = 2
  ResetTime = 1
  Drift = 0
  Costs = {1}
  TTL = 4
  Capacity = 2
  Scale = 3
  Rate = 2
  Limit = 2
  Window = 3
  Milli = 1
  IntMax = 7
PROPERTIES
  ResetClears
