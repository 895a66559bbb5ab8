SPECIFICATION TelemetrySpec
CONSTANTS
  none = none
  cpu = cpu
  ProfileBytes <- ProfileSizes
  Hosts <- QuietAndBusy
  Budget = 11
  MinFull = 4
  MaxFrames = 7
  MaxNow = 11
  Holders = {1, 2}
  ChunkSize = 2
  MaxKept = 2
  MaxTaken = 3
  MaxEdits = 1
  StatusPeriod = 2
  DemandPeriod = 1
  CgroupPeriod = 2
  MaxTime = 6
  MaxTasks = 3
  MaxMoves = 1
  Period = 2
  Keep = 3
  MaxClock = 4
  MaxChanges = 2
  Ring = 2
  Reads = 2
  Keep300 = 2
  MaxRecords = 4
  t = t
  u = u
  r1 = r1
  r2 = r2
  Threads = {t, u}
  Handlers = {"soft0"}
  Requests = {r1, r2}
  RingCap = 2
  PollBatch = 2
  SpanCap = 1
  RequestCap = 1
  MaxEvents = 5
  Names = {1, 2}
  Values = {0, 1}
  EventCap = 2
  BrowseTabs = {"tasks", "scheduler", "memory", "objects", "events", "issues"}
  MaxRefresh = 2
  MaxKeys = 3
  MaxTrail = 1
  FrameNames = {1, 2}
  MaxDepth = 2
  MaxWidth = 4
  MaxStacks = 2
  MaxSteps = 3
SYMMETRY PairingSymmetry
INVARIANTS
  TimelineIsKept
  RowsAreOwn
  SubjectsAreOwn
  RecordsAreKept
  PairsAreTrue
  FlamesAreHonest
PROPERTIES VersionsAreValues KeepsNewest ChosenIsKept
CHECK_DEADLOCK FALSE
