SPECIFICATION Spec
CONSTANTS
  i1 = i1  i2 = i2  t1 = t1  t2 = t2
  Instances = {i1}
  Threads = {t1, t2}
  InstanceOf <- OneInstance
  ListTTL = 1
  TempTTL = 2
  HotWindow = 1
  HotThreshold = 1
  MaxStall = 1
  MaxEdits = 1
  MaxLag = 1
SYMMETRY ThreadSymmetry
VIEW ButDecisions
INVARIANT TypeOK
PROPERTIES BannedIsDenied StalenessBounded
