SPECIFICATION Spec
CONSTANTS
    Purchases = {p1, p2}
    Customers = {c}
    Amounts = {50, 100}
    Balance <- MCBalance
    Fee = 1
    MaxFaults = 2
CHECK_DEADLOCK FALSE
INVARIANT UnpaidStaysPending
PROPERTY KeepsPromise
