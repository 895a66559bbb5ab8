CONSTANTS
  Pids = {1}
  CPUs = {0}
  RingCap = 9
  PollBudget = 9
  MaxNow = 9
  WindowCap = 2
  PendingCap = 9
  StartsCap = 9
  HistoryCap = 9
SPECIFICATION Spec
INVARIANTS OffCpuInOneLife
