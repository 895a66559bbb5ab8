CONSTANTS
  quota = quota
  noQuota = noQuota
  Keys = {"cpu"}
  Repeats = {1, 2}
  Scopes = {quota, noQuota}
  Gaps = {1, 3}
  Sustained = 3
  ClearTime = 2
  ForgetTime = 3
  ReadyCount = 2
  ReadyTime = 2
  MaxNow = 6
  MaxStarts = 2
SYMMETRY ScopeSymmetry
SPECIFICATION Spec
PROPERTIES NothingLingers
CHECK_DEADLOCK FALSE
