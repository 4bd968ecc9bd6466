SPECIFICATION FamilyFairSpec
CONSTANTS
  Families = {"cases", "pairs", "queue"}
  CandidateProjects = {p1}
  All = All
  Governed = {p1, All}
  Limit = 2
  Producers = {"rules", "model", "host"}
  Modes = {"candidate", "shadow"}
  HostTypes = {"summary", "preference", "fact", "entity", "relation", "causal", "other"}
  Confidences = {59, 60, 71, 72, 73, 74, 85, 86, 90}
  BatchSizes = {1, 2}
  MaxCands = 3
  MaxPassCrashes = 2
CHECK_DEADLOCK FALSE
INVARIANTS
  UserBacked
  Accounted
PROPERTIES
  Final
  Settles
