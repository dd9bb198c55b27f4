SPECIFICATION Spec
CONSTANTS
    Users = {u1}
    Known = {u1}
    Seeds = {u1}
    Options = {"approve", "reject"}
    FirstOption = "approve"
    Kind = "decision"
    Watchers = {p1}
    Recorders = {}
    MaxListed = 1
    MaxRevokes = 1
    MaxLost = 0
INVARIANTS ResultFollowsBallots
CHECK_DEADLOCK FALSE
