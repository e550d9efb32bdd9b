SPECIFICATION Spec
CONSTANTS
  i1 = i1  i2 = i2  w1 = w1  w2 = w2  r1 = r1  r2 = r2  s1 = s1  s2 = s2
  Instances = {i1, i2}
  Rules = {r1, r2}
  BootRules = {r1, r2}
  Shards = {s1, s2}
  ShardOf <- TwoShards
  Replicated = FALSE
  Writers = {w1}
  InstanceOf <- SameInstance
  MaxWrites = 1
  MaxFaults = 0
PROPERTY LoadsEverything
\* Writes and failures are bounded: a behaviour may end.
CHECK_DEADLOCK FALSE
