SPECIFICATION Spec
CONSTANTS
    r1 = r1
    r2 = r2
    c1 = c1
    c2 = c2
    v1 = v1
    v2 = v2
    v3 = v3
    p1 = p1
    Requests = {r1, r2}
    Codes = {c1, c2}
    Records = {v1, v2, v3}
    Persons = {p1}
    Purposes = {"reset"}
    MaxAttempts = 1
    MaxResends = 1
SYMMETRY SymRows
CHECK_DEADLOCK FALSE
INVARIANTS
    PaysOnce
    CodeProvesOnce
    GuessesLimited
PROPERTY
    BvnLinkKept
