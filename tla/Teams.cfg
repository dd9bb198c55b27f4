SPECIFICATION Spec
CONSTANTS
    h = h  a = a  b = b
    Wallets = {h, a, b}
    Hall = {h}
    Lists <- SomeLists
    Crews <- SomeCrews
    Requests = {r1, r2}
    Kinds = {"project", "guild"}
    MaxApps = 2
    MaxOps = 4
SYMMETRY RequestSymmetry
INVARIANTS TypeOK PendingHasApplication AuthorityHasSource
CHECK_DEADLOCK FALSE
