SPECIFICATION Spec
CONSTANTS
    OneShots = {j1, j2}
    Unknown = {j2}
    Slow = {"refresh"}
    Interval = 2
    Minute = 4
    MaxWait = 3
    MaxCopies = 2
    MaxFaults = 1
    MaxRestarts = 1
INVARIANTS TypeOK
PROPERTIES ImplementsQueue ActiveIsPicked RefreshGoesOn
