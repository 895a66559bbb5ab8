SPECIFICATION ServicesSpec
CONSTANTS
  Kind = {"task_metadata", "modules/pss", "module_metadata"}
  Subject = {1, 2}
  Batch = 1
  MaxReplaced = 1
  a = a
  b = b
  c = c
  Workers = {a, b, c}
  Permits = 2
  Processes = {"p"}
  CPUs = {0, 1}
  Everything = "all"
  Entries = 2
  MaxSamples = 3
  MaxHostChanges = 2
INVARIANTS MetadataIsOwn HelpersAreBounded ProfileIsAccounted
PROPERTIES MetadataArrives GoneTargetEndsCapture
CHECK_DEADLOCK FALSE
