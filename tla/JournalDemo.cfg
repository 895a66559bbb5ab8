CONSTANTS
  irq = irq
  task = task
  v1 = v1
  v2 = v2
  Files = {irq}
  Tasks = {}
  Values = {v1, v2}
  FixtureValue = v1
  Modes = {TRUE, FALSE}
  MaxPlans = 1
  MaxForeign = 0
  MaxRuns = 1
SPECIFICATION Spec
PROPERTIES DemoLeavesHost
