SPECIFICATION SessionSpec
CONSTANTS
  quota = quota
  noQuota = noQuota
  Keys = {"cpu"}
  Repeats = {1, 2}
  Scopes = {quota, noQuota}
  Gaps = {1, 3}
  Sustained = 3
  ClearTime = 2
  ForgetTime = 3
  ReadyCount = 2
  ReadyTime = 2
  MaxNow = 5
  MaxStarts = 2
  Window = 6
  LeastSamples = 3
  Retained = 9
  Measures = {0, 1, 3}
  Limit = 2
  Fallback = 1
  MayFreeze = FALSE
  MaxTicks = 8
  Size <- FrameSizes
  Newer = {2}
  MaxFrame = 3
  MaxReplay = 6
  BufferCap = 2
  MaxFiles = 2
  a = a
  b = b
  Process = {a, b}
  Launch = {a, b}
  snapshot = snapshot
  baseline1 = baseline1
  Base = {snapshot}
  Extra = {baseline1}
  s1 = s1
  s2 = s2
  r1 = r1
  StagingName = {s1, s2}
  ReportName = {r1}
  MaxExports = 2
  View = {0, 12, 13}
  MaxLaunches = 3
SYMMETRY SessionSymmetry
INVARIANTS
  EngineIsOfScope
  VerdictIsCharted
  PrefixIsRecovered
  ReportsAreWhole
  SettingsAreOfOneSession
PROPERTIES IssuesAreEarned GoneIsForgotten
CHECK_DEADLOCK FALSE
