SPECIFICATION RecordsSpec
SYMMETRY RecordsSymmetry
CONSTANTS
  Foci = {"ledger", "numbers", "governed"}
\* The raw ledger.
  Projects = {p1, p2}
  Threads = {t1, t2}
  NoThread = NoThread
  Bodies = {"blank", "said"}
  Recorders = {"turn", "tool", "task", "internal", "import"}
  HostTurns = {2}
  Forgettable = {p1, p2}
  MaxEvents = 4
  MaxCrashes = 1
\* Governance over beliefs.
  CandidateProjects = {c1}
  All = All
  Governed = {c1}
  Limit = 2
  Producers = {"host"}
  Modes = {"candidate"}
  HostTypes = {"preference"}
  Confidences = {74}
  BatchSizes = {1}
  MaxCands = 2
  MaxPassCrashes = 1
  Kinds = {"preference", "fact"}
  BeliefValues = {v1, v2}
  BeliefProjects = {p1, p2}
  Claims <- MCClaims
  Promotions = {74}
  Windows = {0}
  Feedback <- MCFeedback
  MaxBeliefs = 3
  MaxTime = 1
  MaxExtracted <- MCExtracted
  MaxCalibrations = 0
  Elsewhere = Elsewhere
CHECK_DEADLOCK FALSE
INVARIANTS
  TypeOK
  ReplayOrder
  TurnWhole
  LinksAgree
  IndexComplete
  Traceable
  NotAskedInForce
  SilencedFromOutside
PROPERTY BeliefSpec
