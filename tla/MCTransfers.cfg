SPECIFICATION MCSpec
CONSTANTS
    Naira = {60}
    Charges = 7
    Opening = 9000
    Requests = {q1, q2}
    Hooks = {h1, h2}
    Deposits = {d1}
    DepositAmount <- MCDepositAmount
    None = None
    NoPhone = NoPhone
    MaxRows = 3
    MaxFaults = 2
    Guessers = {g1, g2}
    MaxPinAttempts = 5
    WrongInARow = 30
    Clients = {c1, c2}
    IPs = {i1}
    Phones = {phone1, phone2}
    MaxFailures <- MCMaxFailures
    MaxKeys = 1
    p1 = p1
    p2 = p2
    w1 = w1
    w2 = w2
    Nothing = Nothing
    Jobs = {1, 2, 3}
    PathOf <- MCPathOf
    FormatOf <- MCFormatOf
    Procs = {p1, p2}
    Workers = {w1, w2}
    ProcOf <- MCProcOf
    Slots = 2
    MaxStops = 1
    MaxMishaps = 1
\* All requests and deposits may be done.
CHECK_DEADLOCK FALSE
INVARIANTS
    BooksBalance
    DriftExplained
    GuessesBounded
    FailuresBounded
    OneHolder
    NeverBlocked
PROPERTIES
    EveryJobSettles
