SPECIFICATION FamilySpec
CONSTANTS
  Families = {"cases"}
  CandidateProjects = {p1}
  All = All
  Governed = {p1}
  Limit = 1
  Producers = {"model"}
  Modes = {"candidate"}
  HostTypes = {}
  Confidences = {75}
  BatchSizes = {1}
  MaxCands = 1
  MaxPassCrashes = 0
CHECK_DEADLOCK FALSE
INVARIANT EvidenceNamed
