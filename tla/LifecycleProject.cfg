SPECIFICATION Spec
CONSTANTS
  Records = {1, 2}
  Templates <- Projects
  Offered <- Projects
  MaxSip = 1
  MaxCopies = 1
  MaxVersion = 2
  MaxRequests = 1
  MaxOps = 1
  Seeded = FALSE
INVARIANTS
  ExecutedAfterPassing
  ExecutedHasProject
  JobAfterPassing
  ProjectCreatedOnce
CHECK_DEADLOCK FALSE
