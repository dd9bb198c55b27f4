SPECIFICATION Spec
CONSTANTS
    h = h  a = a  b = b
    Wallets = {h, a, b}
    Hall = {h}
    Lists <- SomeLists
    Crews <- SomeCrews
    Requests = {r1, r2}
    Kinds = {"project"}
    MaxApps = 2
    MaxOps = 4
PROPERTIES RemovedLosesRole
CHECK_DEADLOCK FALSE
