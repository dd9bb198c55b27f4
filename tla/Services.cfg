SPECIFICATION Spec
CONSTANTS
    Wallets = {"a", "b", "c"}
    Opening <- SomeRecords
    Amounts = {1, 2}
    Payments = {t1, t2}
    MaxTransfers = 3
    Invitees = {"x", "y"}
    Inviters = {"i"}
    Posters = {p1, p2}
    Sweepers = {s1, s2}
    MaxPosts = 3
    MaxMisses = 1
    Admins = {m1, m2}
    MaxOwed = 2
    MaxBundles = 2
    Numbered = {"made", "closer", "p", "q"}
    Made = "made"
    Closers = {"closer"}
    Openers = {o1, o2}
    Texts = {"old", "new"}
    Editors = {e1, e2}
    MaxNotices = 2
    MaxSeason = 2
    Labels = {"approve", "reject", "third"}
    MaxCount = 2
    MaxRules = 2
    Thresholds <- SomeThresholds
    HolderCounts = {0, 5}
    Clerks = {k1, k2}
    Totals <- SomeTotals
    Ratios = {0, 50}
    Requested <- SomeRequests
    MaxCharges = 2
INVARIANTS TypeOK NoOverdraft BalanceFollowsLog RewardedOnce MintedOnce SipsAreDense VerdictIsDeserved BudgetBalances
PROPERTIES NamedIsRewarded PublishedIsFrozen
CHECK_DEADLOCK FALSE
