SPECIFICATION Spec
CONSTANTS
    Bundles = {1}
    Items = {1, 2}
    Transferred = {1}
    Kinds = {"budgeted", "unbudgeted", "cityhall"}
    Total = 1
    Slots = {s1}
    MaxJobs = 2
    MaxRestarts = 1
INVARIANTS OpenIsUnpaid PaidOnce
PROPERTIES CompletedWithAll TransferEnds
CHECK_DEADLOCK FALSE
