SPECIFICATION FairSpec
CONSTANTS
  i1 = i1  i2 = i2  w1 = w1  w2 = w2  r1 = r1  r2 = r2  s1 = s1  s2 = s2
  Instances = {i1, i2}
  Rules = {r1}
  BootRules = {r1}
  Shards = {s1}
  ShardOf <- OneShard
  Replicated = TRUE
  Writers = {w1}
  InstanceOf <- SameInstance
  MaxWrites = 2
  MaxFaults = 1
INVARIANTS TypeOK NeverInvented QuietConsistent
PROPERTY Converges
