SPECIFICATION Spec
CONSTANTS
    Users = {u1}
    Known = {u1}
    Seeds = {u1}
    Options = {"approve", "reject"}
    FirstOption = "approve"
    Kind = "decision"
    Watchers = {p1}
    Recorders = {p2}
    MaxListed = 1
    MaxRevokes = 1
    MaxLost = 1
INVARIANTS TypeOK PassedHadSupport RecordsWereCast SavedIsComplete
PROPERTIES ClosedIsSettled
CHECK_DEADLOCK FALSE
