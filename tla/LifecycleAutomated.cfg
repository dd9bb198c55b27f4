SPECIFICATION Spec
CONSTANTS
  Records = {1, 2}
  Templates <- Automated
  Offered <- OfferAutomated
  MaxSip = 3
  MaxCopies = 2
  MaxVersion = 2
  MaxRequests = 1
  MaxOps = 2
  Seeded = TRUE
INVARIANTS
  TypeOK
  ClosedAfterPassing
  JobAfterPassing
PROPERTIES
  SipIsStable
CHECK_DEADLOCK FALSE
