SPECIFICATION CaptureSpec
CONSTANTS
  p1 = p1
  p2 = p2
  Pids = {p1, p2}
  CPUs = {10}
  RingCap = 9
  PollBudget = 9
  MaxNow = 6
  WindowCap = 2
  PendingCap = 9
  StartsCap = 9
  HistoryCap = 9
  Modes = {TRUE, FALSE}
  Recordings <- TwoTapes
  Second = 2
  Gaps = {1, 2}
  MaxKept = 2
  MaxRoutes = 1
  MaxSampled = 3
  ScenarioEnds = {2, 3}
  MaxId = 2
  Inspections = 1
  MetadataTtl = 2
  StaleAfter = 2
  KeepSeries = 2
  MaxProgramLoads = 2
  MaxBpfTime = 3
  ProfiledPids = {p1, p2}
  Roots = {"host", "container"}
  Starts = {10}
  UnsizedLimit = 2
  MaxHostSteps = 4
SYMMETRY CaptureSymmetry
INVARIANTS
  LatenciesAreTrue
  ShownIsDue
  BpfFiguresAreOwn
  NamesAreExact
PROPERTIES EscReturnsLive
CHECK_DEADLOCK FALSE
