SPECIFICATION FairSpec
CONSTANTS
  d1 = d1  d2 = d2  n1 = n1  n2 = n2  u1 = u1  w1 = w1
  Documents = {d1, d2}
  DocRules = {n1, n2}
  ApiRules = {u1}
  RulesOf <- DocumentRules
  NoRule = NoRule  NoVersion = NoVersion  Api = Api
  Writers = {}
  MaxEdits = 1
  MaxFaults = 1
  MaxWrites = 0
PROPERTY LatencyIsInterval
