CONSTANTS
  QueueCap = 2
  MaxRequests = 2
  Pids = {1, 2}
  CPUs = {10}
  RingCap = 1
  PollBudget = 2
  MaxNow = 4
  WindowCap = 1
  PendingCap = 1
  StartsCap = 1
  HistoryCap = 1
SPECIFICATION BothSpec
INVARIANTS ControlTypeOK HistoryOfOneCapture StatusTells TraceTypeOK
PROPERTIES CurrentIsRunning CaptureEnds QuitEnds LossDegrades
