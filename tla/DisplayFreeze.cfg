CONSTANTS
  Modes = {FALSE}
  Recordings <- NoTapes
  Second = 1
  Gaps = {1}
  MaxKept = 3
  MaxRoutes = 1
  MaxSampled = 4
  ScenarioEnds = {4}
SPECIFICATION DisplaySpec
PROPERTIES FreezeIsImmutable
