SPECIFICATION MCSpec
CONSTANTS
  kb = kb
  kw = kw
  kc = kc
  kl = kl
  kp = kp
  sb = sb
  sw = sw
  sl = sl
  sp = sp
  Keys <- AllKeys
  SharedKeys <- ManyClients
  BucketKeys = {kb, sb}
  WindowKeys = {kw, sw}
  CounterKeys = {kc}
  LogKeys = {kl, sl}
  PlainKeys = {kp, sp}
  States = {s1}
  Second = 3
  MaxPipes = 2
  MaxNumber = 2
  NoAnswer = NoAnswer
  EmptyState = EmptyState
  Failed = Failed
  NoKey = NoKey
  NoScan = NoScan
  NoReply = NoReply
  MaxTime = 7
  SharedTime = 5
  ResetTime = 2
  Drift = 2
  Costs = {1, 2}
  TTL = 4
  Capacity = 2
  Scale = 3
  Rate = 2
  Limit = 2
  Window = 3
  Milli = 1
  IntMax = 7
INVARIANTS
  LegacyTypeOK
  RateBound
  WindowLimit
  StrictLimit
  RetryExact
  EveryKeyExpires
PROPERTIES
  ImplementsReference
  LegacyImplementsRegister
