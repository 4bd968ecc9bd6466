SPECIFICATION CuratorSpec
CONSTANTS
  Projects = {p1, p2}
  Threads = {t1}
  NoThread = NoThread
  Bodies = {"said"}
  Recorders = {"turn"}
  HostTurns = {}
  Forgettable = {p1}
  MaxEvents = 3
  MaxCrashes = 1
  Global = Global
  Asked = {p1}
  Watched = p1
  Runs = {r1}
  Limits = {1, 2}
  Outcomes = {"valid", "invalid_output"}
  MaxRuns = 12
CHECK_DEADLOCK FALSE
INVARIANT CoverageHonest
