SPECIFICATION Spec
CONSTANTS
    Bundles = {1}
    Items = {1, 2}
    Transferred = {1}
    Kinds = {"budgeted"}
    Total = 1
    Slots = {s1, s2}
    MaxJobs = 2
    MaxRestarts = 0
SYMMETRY SlotSymmetry
INVARIANTS TypeOK PaidOnce 
 
CHECK_DEADLOCK FALSE
