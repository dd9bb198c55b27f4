SPECIFICATION Spec
CONSTANTS
    Bundles = {1}
    Items = {1}
    Transferred = {1}
    Kinds = {"budgeted"}
    Total = 1
    Slots = {s1}
    MaxJobs = 1
    MaxRestarts = 0
INVARIANTS RejectedIsUnpaid
CHECK_DEADLOCK FALSE
