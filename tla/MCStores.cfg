SPECIFICATION StoresSpec
SYMMETRY StoresSymmetry
CONSTANTS
  Foci = {"curator", "beliefs", "offline", "neurons", "chain", "proposals"}
\* Two overlapping runs of the Dream curator, and a host that marks.
  Projects = {p1, p2}
  Threads = {t1}
  NoThread = NoThread
  Bodies = {"said"}
  Recorders = {"turn"}
  HostTurns = {}
  Forgettable = {p1}
  MaxEvents = 3
  MaxCrashes = 1
  Global = Global
  Asked = {p1}
  Runs = {r1, r2}
  Limits = {1}
  Outcomes = {"rule_only"}
  MaxRuns = 3
\* Beliefs.
  Kinds = {"preference", "fact"}
  BeliefValues = {v1, v2}
  BeliefProjects = {b1}
  Claims <- MCClaims
  Promotions = {85}
  Windows = {0, 2}
  Feedback <- MCFeedback
  MaxBeliefs = 3
  MaxTime = 2
  MaxCalibrations = 1
\* Offline consolidation.
  StatementProjects = {s1}
  Statements <- MCStatements
  Purchases <- MCPurchases
  NoProjectId = NoProjectId
  FactLimit = 3
  MaxStatements = 3
  MaxOfflineRuns = 2
\* Neurons.
  NeuronProjects = {n1}
  NoProject = NoProject
  Texts = {x1}
  Tasks = {k1, k2}
  Dates = {1, 2}
  Deployments = {TRUE, FALSE}
  IndexBound = 3
  BatchSize = 2
  MaxIngests = 3
  MaxEdits = 1
  MaxKernelCrashes = 1
\* Proposals.
  q1 = q1
  q2 = q2
  ProposalIds = {q1, q2}
  Keys = {"a", "b"}
  Original = Original
  Change <- MCChange
  MaxRejects = 1
  MaxEvaluations = 3
  MaxApplierCrashes = 1
CHECK_DEADLOCK FALSE
INVARIANTS
  CoverageRecorded
  Lineage
  SilentOnlyAfterWindow
  LatestPreferenceWins
  StaysAnswered
  Grounded
  Findable
  CopiesBounded
  ForkBounded
  AppliedInForce
PROPERTY HistoryFixed
