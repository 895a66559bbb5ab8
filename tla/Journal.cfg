CONSTANTS
  irq = irq
  task = task
  v1 = v1
  v2 = v2
  Files = {irq}
  Tasks = {task}
  Values = {v1, v2}
  FixtureValue = v1
  Modes = {TRUE, FALSE}
  MaxPlans = 2
  MaxForeign = 2
  MaxRuns = 2
SPECIFICATION JournalSpec
INVARIANTS
  TypeOK
  JournalIsTruthful
  IntentOnDisk
  AppliedOnce
PROPERTIES ReplayIsReadOnly OutstandingUntilReverted
