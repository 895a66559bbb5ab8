SPECIFICATION BpfSpec
CONSTANTS
  MaxId = 2
  Inspections = 1
  MetadataTtl = 2
  StaleAfter = 2
  KeepSeries = 2
  MaxProgramLoads = 3
  MaxBpfTime = 3
INVARIANT SeriesGoStale
CHECK_DEADLOCK FALSE
