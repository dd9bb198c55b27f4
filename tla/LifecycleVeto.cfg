SPECIFICATION Spec
CONSTANTS
  Records = {1, 2}
  Templates <- VetoAndGuild
  Offered <- VetoAndGuild
  MaxSip = 1
  MaxCopies = 1
  MaxVersion = 1
  MaxRequests = 1
  MaxOps = 1
  Seeded = FALSE
PROPERTIES
  VetoHolds
  VetoCancelsJobs
CONSTRAINT RequestsAlone
CHECK_DEADLOCK FALSE
