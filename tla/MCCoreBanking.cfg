SPECIFICATION MCSpec
CONSTANTS
    Customers = {c1, c2}
    Apps = {a1}
    Syncs = {g1}
    Loans = {r1}
    None = None
    AppMoves = 3
    CustomerMoves = 2
    Codes = {biz}
    Commands = {k1, k2}
    RuleIds = {1, 2}
    MaxReleases = 2
    MaxSkips = 1
INVARIANTS
    MirrorsCore
    WalletGoesToLinked
    JudgedAsSeeded
PROPERTY
    Converges
