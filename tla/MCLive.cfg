SPECIFICATION LiveFairSpec
CONSTANTS
  Foci = {"curator", "metabolism", "embedding", "import", "maintenance", "remember"}
\* The Dream curator.
  Projects = {p1, p2}
  Threads = {t1}
  NoThread = NoThread
  Bodies = {"said", "noise"}
  Recorders = {"turn"}
  HostTurns = {}
  Forgettable = {p1}
  MaxEvents = 3
  MaxCrashes = 1
  Global = Global
  Asked = {p1}
  Runs = {r1}
  Limits = {1}
  Outcomes = {"valid"}
  MaxRuns = 5
\* The metabolism.
  NeuronProjects = {n1}
  NoProject = NoProject
  Texts = {x1}
  Tasks = {k1, k2}
  Dates = {1}
  Deployments = {TRUE, FALSE}
  BatchSize = 1
  MaxIngests = 2
  MaxEdits = 1
  MaxKernelCrashes = 1
\* Re-embedding.
  NeuronCount = 3
  Runners = {e1, e2}
  EmbedBatch = 2
  MaxForgets = 1
  MaxRestarts = 1
\* Batch import.
  RecordCount = 5
  ImportTexts = {"x", "pii", "gone"}
  TextOf <- MCTexts
  ThreadOf <- MCThreads
  Redact <- MCRedact
  ImportWindows <- MCWindows
  MaxCuts = 1
  MaxSwitches = 2
\* Maintenance.
  StepCount = 6
  MaxExpiries = 1
  MaxThrows = 1
\* The remember queue.
  TurnCount = 3
  KeyOf <- MCKeys
  Drainers = {d1, d2}
  MaxAttempts = 2
  MaxKills = 1
  MaxHostRestarts = 1
CHECK_DEADLOCK FALSE
INVARIANTS
  NoneRevived
  EvidencedOnce
  ReingestBound
  KeptUnlessKilled
PROPERTIES
  Drains
  FadesInMemory
  KeepsEmbedding
  Converges
  EventuallyImported
  ImportQueued
  MaintenanceReachesAll
  Unlocked
