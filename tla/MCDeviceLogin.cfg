SPECIFICATION Spec
CONSTANTS
    Devices = {phone, tablet, watch}
    Requests = {r1, r2, r3, r4}
    Origin = registration
SYMMETRY Interchangeable
\* Every request may have been made.
CHECK_DEADLOCK FALSE
INVARIANTS
    SpentOnce
    OneLiveToken
    TokensNeedSession
    OneUsableDevice
PROPERTY
    UsableByCode
